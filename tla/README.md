# TLA+ models of the AC-RL execution stack

The repository sells a large parent order through FIX: an Almgren-Chriss plan
splits it into tranches of 20 lots, a reinforcement-learning policy says at ten
moments how each tranche should be spread over price levels, and a coordinator
turns that into child orders which a vn.py gateway sends over a QuickFIX
session to the demo counterparty, QuickFIX's `ordermatch`.  This directory models
the part of it that holds the control state, the session layer and the
counterparty included, and says what has been checked and proved.

## 1. Inventory

### The running system

| Component | Code | State | Operations | Correct means |
|---|---|---|---|---|
| Execution coordinator | `vnpy_acrl_execution/.../coordinator.py` | child-order records, targets, statuses and fills of parents and tranches, one lock | `apply_intent`, `reconcile_pending`, `begin_/continue_tranche_close`, `pause_/resume_/cancel_parent`, `process_order` | no oversell of parent or tranche whatever races; inventory under cancel not reused; fills counted once; a final order final |
| Execution data | `models.py` | parent, tranche, intent, allocation | `target_quantities`, `activate`, `decision_due`, `record_decision` | an allocation divides what is left exactly |
| Execution engine | `engine.py` | parents, policies, market cache | handlers of timer, tick and order events; the user's pause, resume, cancel | nothing sent for a paused or cancelled parent; a parent past its deadline completes |
| Tranche scheduler | `tranche_scheduler.py` | none | `build_tranches`, `due_to_start`, `capacity` | at most `max_active_tranches` live; a schedule within the capacity never waits for a slot |
| QuickFIX gateway | `vnpy_quickfix_gateway/.../gateway.py`, `fix_application.py` | `logged_on`, orders, contexts | `send_order`, `cancel_order`, `on_fix_execution_report`, `onLogon`, `onLogout` | every order gets a final report or stays open in the book |
| vn.py event engine | `vnpy/vnpy/event/engine.py` | a queue, two threads | `put`, `_run`, `_run_timer` | events handled one at a time in order |
| vn.py main engine, OMS, converter | `vnpy/vnpy/trader/*.py` | order, trade, position tables | pass-through and bookkeeping | frozen volume consistent with open orders |
| QuickFIX session | `QuickFIX/src/C++/Session.cpp`, `SessionState.h` | sequence numbers, queue of early messages, resend range, logon and reset flags | `next`, `nextLogon`, `nextResendRequest`, `nextSequenceReset`, `verify`, `send`, `disconnect` | application messages delivered in order, again only with PossDupFlag, across gaps, reconnects, crashes and resets |
| QuickFIX file store | `QuickFIX/src/C++/FileStore.cpp`, `TimeRange.cpp` | body, header, seqnums and session files, their cache | `set`, `get`, `incrNext*MsgSeqNum`, `open`, `reset`, `refresh` | a crash loses no counted message; numbers last as long as the session time and no longer |
| Demo counterparty | `QuickFIX/examples/ordermatch/*.cpp` | two-sided book | new order, cancel, match, reject | price-time priority; the reports of an order tell one story, and a true one, also after an order that should have been refused |

Offline or without control state, and left out: the AC planner, the 67-feature
observation, the policy adapter, the market-state cache and the synthetic feed
(numeric code), the Qt widgets and start-up scripts, FIX message mapping,
parsing, generated message classes and language bindings, and `rlte`, the
training environment.

### How the running components interact

* The engine and the coordinator live on the event-engine thread: timer, tick
  and order events are handled one at a time.  The user's commands come from the
  UI thread and take only the coordinator's lock, so they fall between any two
  coordinator calls of a handler, and between a status check and the call that
  follows it.
* `send_order` and `cancel_order` return at once.  What became of an order
  comes back as order events, put in the queue by the gateway itself
  (`SUBMITTING`, local `REJECTED`) or by the FIX thread (execution reports).
* The FIX thread sets `logged_on`.  Off the session an order is rejected
  locally, a cancel is dropped.  The session is configured with
  `ResetOnLogon=Y`, so what was in flight is not resent after a reconnect.
* A session stores a message, counts it and only then hands it to the socket; it
  gives a message to the application and only then counts it.  Its numbers live in
  the file store.  `send` may be called from any thread, `next` by the thread of the
  connection and by its timer; the counterparty's handlers run inside `next`.

### What is hard

Races of fills with cancels and new targets; user commands inside a handler;
late, repeated and cumulative reports; losses when the session falls; a
fallback order left behind by the market; resume against tranches in the middle
of an operation; the deadline sweep.  In the session layer: gaps, resend requests
and gap fills that cross each other; numbers reset on one or both sides while
messages are queued or under way; crashes between the steps of a send, a receipt
and a reset of the files; session windows over midnight.  `PROJECT.json` lists each
at its line.

## 2. Modules

| Module | Models | State | Actions |
|---|---|---|---|
| `ExecutionModels` | the pure part of `models.py` and `coordinator.py`: statuses, levels, `target_quantities`, `_consume_target_fill` | none | none |
| `SellMandate` | abstract: what a parent order promises its client | lots sold, lots working, over | commit, report, stop |
| `Coordinator` | `ExecutionCoordinator` | `book`: parent, tranches, child orders, targets | one per public method, with any caller and any report |
| `Execution` | engine, scheduler, gateway, threads, session and counterparty around that book | `book` and `timing`, `now`, `market`, `thread`, `logged_on`, `events`, `venue`, `used` | the steps of the handlers, the user's commands, the session, the venue, time |
| `OrderedDelivery` | abstract: what a session promises the two applications | messages accepted, messages handed over | accept, deliver, repeat |
| `FixSession` | `Session`, `SessionState`: an initiator and an acceptor over connections that break | `session` (both objects with their stores), `link`, `accepted`, `delivered`, `disturbed` | a message read or taken from the queue, sends, timers, user logon and logout, connects, disconnects, crashes |
| `TimeRange` | daily session windows of `TimeRange.cpp` | none | none |
| `FileStore` | `FileStore` under a `Session`, write by write | `files`, `memory`, `pc`, `task`, the clock, and what was stored and counted when | one per write, start, refresh, reset, crash |
| `OrderMatch` | `ordermatch`: `Market`, `Order`, `Application` | `book`, `reports` | new order, reject, cancel, restart |
| `MCCoordinator`, `MCExecution`, `MCFixSession`, `MCFileStore`, `MCOrderMatch` | instances for TLC | | |
| `ExecutionModels_proofs` | theorems: allocations | | |
| `Coordinator_proofs` | theorems: types and hard limits | | |
| `CoordinatorSteps_proofs` | theorems: targets, fills, orders under cancel, final orders | | |
| `CoordinatorMandate_proofs` | theorems: `Coordinator` implements `SellMandate` | | |
| `Execution_proofs` | theorems: `Execution` implements `Coordinator`; book, queue and venue agree | | |
| `FixSession_proofs` | theorems: types and numbers of two sessions; while numbers are kept, what they implement of `OrderedDelivery` and what they pass over | | |
| `FileStore_proofs` | theorems: session windows; the store, its contents and the clock | | |
| `OrderMatch_proofs` | theorems: matching, priority, reports | | |

`Coordinator` writes each method as an operator from a book to the book it
leaves; its own actions call them with any argument, and `Execution` calls the
same operators from the places where the engine does.  `Execution` is shown to
implement `Coordinator` (`ImplementsCoordinator`), which is shown to implement
`SellMandate` (`ImplementsMandate`): `sold` is the parent's cumulative fill,
`working` the sum of the leaves of its child orders, `over` that it is COMPLETED
or CANCELLED.

How the state corresponds to the code:

* `book.child` is the insertion-ordered dict `child_orders`; an order's number
  stands for its id.  `requested_level`, `reference`, names and messages are left
  out.  A gateway call is visible as a new order or a new `cancel_requested`.
* `book.target[t] = NoTarget` stands for no entry in `targets`; of the market
  snapshot a target keeps its best bid, all that reconciliation reads.
* `_reconcile`'s loops over the newest orders first are written as a condition on
  each order: it is cancelled when it and the older ones of its bucket exceed the
  allocation.  `target_quantities` and `_consume_target_fill` are written in closed
  form; sums of leaves are cardinalities of sets of lots, which is what makes the
  hard limits provable.
* `thread` is the program counter of the event thread: a step for each point at
  which the engine reads a status without the lock or calls the coordinator.  Tranches
  that are due are listed once and then started one by one (`due`), as the engine's
  loop does: a user's command may fall between two of them.
* `events` is the order-event queue; `venue` is the truth about each order at the
  counterparty, which the code never sees.

* `OpenFrom` is `capacity`'s running count at a boundary: ends before starts, as the
  sort has it.  That it stays within `MaxActive` is an assumption on the schedule,
  because `start_parent` refuses any other.
* `FixSession` writes each handler of `Session` as an operator from a session and a
  message to the session it leaves, with what it sent in `out` and what the
  application was given in `got`; a step empties both.  `nextQueued`'s loop is a step
  per message, and nothing is read from the connection before it is over, so that an
  application's `send`, which takes only the session's lock, may fall in between.
  `stored[n]` is the message under number n.  A crash leaves the store and forgets
  the rest; `CrashInSend` and `CrashInReceive` are the crashes inside `persist` and
  between the callback and the count.  `SendHeartbeat` is sent only where it can show
  the peer a gap.
* `FileStore` has a step for each write that reaches the disk on its own: in `set`
  the body and then the header (both are buffered until they are flushed in this
  order), then the numbers; in `reset` the four unlinks, the new session file, its
  contents.  `last`, `torn` and `counted` are history variables.  What `open` does
  beyond this rewrites what is there.
* `OrderMatch` keeps each side of the book as a sequence, best order first, and of
  an execution report its status, LeavesQty and CumQty.  A handler is one step: the
  acceptor calls them on one thread and they end before the next message.  The match
  loop queues copies of the two orders of every trade and reports them when it is over;
  nothing reads the reports in between, so a trade tells its two owners at once.

How the parts fit: `Coordinator` assumes of the outside that cumulative fills only
grow and nothing follows a final report (`Reportable`).  For the counterparty
`OrderMatch` shows the second whatever is ordered, and the first only while none of its
clients has ordered a negative quantity (`ReportsTellOneStory`): the coordinator never
does, as its volumes are positive, but `ordermatch` serves any client, and a negative
order of another one makes the cumulative fill of ours fall (section 5).  Nothing is
claimed of the coordinator against such a counterparty: its fills would stay, since it
keeps the largest cumulative fill it has seen (`coordinator.py:260`), but they would no
longer be the venue's.  `Execution` takes of the
session that what is in flight is lost when it falls and nothing is repeated out of
order; `FixSession` shows it for `ResetOnLogon=Y` (`ImplementsDelivery`).
`FixSession` takes of the store that a crash forgets nothing that was counted;
`FileStore` shows it (`NothingToLose`, `ReadsLastStored`), up to the interrupted
resets of section 5.

Left out on purpose, because no run of the program gets there: the adoption of an
order the coordinator does not know (all events are queued, so the record exists
when the first one is handled); an empty order id from the gateway; a failing
`assert_hard_limits` (that it never fails is `HardLimits`).  A parent waiting for
its first tick does nothing, so the market is there from the start.  Several
parents do not interact except through `emit_*` events, so there is one.  Prices
are integers, fractions of an intent rationals over `Scale`: binary floating
point, with its tolerance of 1e-6 ticks, is not modelled.  `Tranche.activate`
is one step, its check of the status and its assignment together: a user's cancel
between those two statements is not modelled.

## 3. Runs

| Run | Question | Bounds |
|---|---|---|
| `coordinator_one_tranche` | any calls, any reports, one tranche | 2 lots, 2 child orders, 2 bids one tick of 2 apart, 3 intents; about 76,000 states |
| `execution_races` | user commands anywhere, fills against cancels, moving bid | 2 user commands, 2 bids; about 760,000 |
| `execution_outage` | session loss, rejects and unasked cancels | 1 outage, 1 surprise, 1 user command; about 410,000 |
| `execution_three_tranches` | schedule, slots and sweep; do engine, gateway and venue stay within `Coordinator`? | 3 tranches of 1 lot, two of them due together, 2 slots, 2 child orders, 2 user commands; about 400,000 |
| `execution_deadline` | does an undisturbed parent finish? | fairness below, 1 market change, 2 bids; about 21,000 |
| `session` | what do the applications get, whatever happens to connections, numbers and processes? | 2 messages, 2 disturbances, 4 choices of resets; about 1,180,000 |
| `session_delivers` | does everything accepted arrive in the end? | fairness below, 2 messages, 1 disturbance; about 31,000 |
| `file_store` | crashes between any two writes, clock and windows | days of 4 ticks, two of them, every window; 3 messages, 2 crashes; about 4,900,000 |
| `order_match` | any four requests | 2 client ids, 2 prices, quantities -2, 0, 1 and 3, 1 restart; about 990,000 |
| `paused_sends`, `active_tranches`, `paused_stuck` | findings, section 5 | |

Why these are enough for what they ask: two lots are the least for which an
order can be partly filled, two child orders the least for a cancelled order and
its successor to race, three also allow a fallback; two bids let an order leave
and re-enter the grid (with a tick of 2, bids 10 and 12; off-grid prices are those
above or below the five levels and aggressive orders not at the bid).  One or
two user commands cover pause then resume, pause then cancel and each of them
inside a handler.  Three tranches sharing a parent's volume and
two slots are in `execution_three_tranches`: two that start together, so that a
command falls between their starts, and one that waits for a slot.  What the section on
proofs lists holds for any number of tranches, orders, commands and outages.

For the session, a gap needs one lost message and a queue one message beyond it, so
two messages, from one side or from both; two disturbances allow a crash in the
middle of the recovery from a broken connection.  The resets are those of the
gateway's configuration with either configuration of the counterparty
(`ResetOnLogon` on both sides, or on the initiator's), none, and all that a
connection's end can trigger.  For the store, two crashes interrupt a reset and then
what follows it; days of four ticks have windows within a day, over midnight and
round the clock.  For the counterparty, four orders let one order trade with two
and leave an earlier and a later one at its price; with the quantity 3 against 1 it
is filled in parts, and -2 against either takes from an order what it never had.

Bounded by the guards: child orders (`MaxChildOrders`), outages, user commands,
market changes, surprises; messages accepted (`MaxSends`), disturbances of
sessions; messages stored, received messages counted, crashes and ticks of the store;
orders and restarts of the counterparty.  The coordinator's run checks deadlock.
The others do not: a finished parent with no event left, two idle sessions with
nothing left to send or a store at the bound of its clock is where the
program or the model rightly stops.

The deep properties: `HardLimits` and, seen from the counterparty,
`VenueNeverOversells`; `BookFollowsVenue` (an order's inventory is released only
when the venue cannot execute it any more); `NoOrderWhileCancelPending`;
`TargetsDivideRemaining` (so the RuntimeError of `_consume_target_fill` is never
raised); `FillsAddUp`; `FillsAreNotReplenished`; `FinalOrdersStayFinal`;
`CancelledSendsNothing` and `CancelledParentIsWindingDown`; `SoldOutIsCompleted`;
`DeadlineCompletesParent`; `StartsInTime` (with a schedule that passed the capacity
check a tranche whose start has come waits only for one that has outlived its
deadline).  Of the session:
`ImplementsDelivery`, `NeverAhead` (a session never has fewer numbers than its peer
has seen, which would end every later logon), `SkipsOnlyUnchecked` (the only way to
lose a message without a reset is the one of section 5) and `EventuallyDelivered`.
Of the store: `NothingToLose`, `ReadsLastStored`, `OldNumbersForgotten` and
`KeptThroughSession`.  Of the counterparty: `NothingLeftToTrade`,
`PriceTimePriority`, `LastReportIsTrue` and `ReportsTellOneStory`.

### Fairness

`Execution!FairSpec`, used by `execution_deadline` and `paused_stuck`, assumes:

* a handler in progress goes on.  This is weak fairness of its steps, written
  out as "the thread is idle again and again, or takes steps for ever", because a
  handler can always take its next step (unless `MaxChildOrders` stops it; the
  states reached in the run are the same for a bound of 3, 4 and 5);
* timer events come while the parent is RUNNING (`_run_timer` puts one per
  second), queued events are handled although timer events compete (one FIFO
  queue), and time passes although handlers run;
* the session comes back (QuickFIX's initiator reconnects);
* the venue answers orders and cancel requests and executes sells at the best
  bid.  Nothing makes it fill passive orders.

The user is under no obligation, and the market need not hold still.

`FixSession!FairSpec`, used by `session_delivers`, assumes weak fairness of

* `Connect`: the initiator tries again every `ReconnectInterval` seconds;
* `Reading(s)`: the thread of a connection reads what has arrived, goes on with the
  queue, and notices that the other end has closed;
* `Timers(s)`: the session's timer logs on, logs out, gives up on a logout that is
  not answered and sends the heartbeat that shows a gap.

Each is the loop of a thread, taken as a whole.  A disturbance is never due, and a
user who logged out need not log on again; `EventuallyDelivered` asks nothing while
one has.

## 4. Proofs

`ExecutionModels_proofs` proves, for every tick, scale and volume, that the
seven target quantities divide exactly what remains (`TargetQuantitiesDivide`)
and that a fill takes exactly its quantity out of an allocation, whichever
bucket it prefers (`ConsumedTakesTheFill`).  The closed forms telescope: a bucket
gets what the buckets up to it get less what those before it get.

`Coordinator_proofs` proves `Spec => []TypeOK` and `Spec => []HardLimits`, for
any number of tranches and child orders, any volumes, bids, intents and reports.
The inductive invariant is

    IInv == Sound(book) /\ Cardinality(Orders(book)) <= MaxChildOrders

where `Sound` is well-formedness and the limits together.  Neither is inductive
alone: what a method sends is measured by `Available`, which is only as good as
the limits of the book it is computed from, and a report can turn lots from
working into sold only if the order still had them.  The argument: a method is a
composition of relabellings (statuses, targets), cancel requests and sends; the
first two leave the counted lots alone (`SameLotsSound`, `CancelOrdersSound`), a
send adds at most what is available (`AppendedPotential`, `SendOrderSound`), and a
report removes from the open lots exactly what it adds to the fills
(`FilledLotsAreDelta`, `RecordedSound`).  The last step rests on the assumption
about the outside that `Coordinator` states in `Reportable`: no execution beyond
an order's volume or after a final report.  `Execution_proofs` proves that the
modelled gateway and venue satisfy it.

`CoordinatorSteps_proofs` strengthens the invariant with `Divides(book)`: every target
divides exactly what its tranche has left.  It is inductive only together with
the hard limits: a fill comes out of open lots of its tranche
(`FillComesFromOpenLots`), the limits keep those within what is left, so the fill
fits the target (`FillFitsTarget`) and consuming it leaves what is then left
(`RecordedDivides`).  Every other method keeps all fills and keeps, drops or newly
computes targets (`Keeps`).  This gives `Spec => []TargetsDivideRemaining`, that
the RuntimeError of `_consume_target_fill` is never raised (`NoFillExceedsTarget`),
and `Spec => FinalOrdersStayFinal`.  Two more of the coordinator follow the same
steps.  `Spec => []FillsAddUp`: every method but the report keeps all fills, and a
report's delta is added to order, tranche and parent alike (`RecordedAddsUp`; the
sum over orders is a cardinality of sold lots, of which the report adds a disjoint
set).  `Spec => NoOrderWhileCancelPending`: what a method adds to a tranche, it adds
while no order of the tranche waits for its cancel (`Adds`, `StepWaits`).
`Spec => FillsAreNotReplenished`: a fill is consumed from the bucket its order was sent
for while that has enough (`ConsumedFromPreferred`), and a fully deployed target has, so
each bucket loses what its orders lose (`RecordedBuckets`, `ExecutionLeavesTheRest`); the
parent has something left while a tranche has (`ParentHasWhatTranchesHave`), so that its
settlement leaves the others alone.

`CoordinatorMandate_proofs` strengthens it with `WindsDown(book)`: a cancelled parent
has no live tranche and no unasked open order, a completed one nothing left, and no
tranche is in ERROR.  Methods that work (`Works`) put lots to work only while the
parent has some left; with `WindsDown` a parent that is over puts none.  A report's
fill comes out of the lots at work (`RecordedSteps`).  This gives
`Spec => []CancelledParentIsWindingDown` and the refinement
`Spec => ImplementsMandate`, so what `SellMandate` promises holds for every number
of tranches and orders.

`Execution_proofs` proves of the whole system (`SystemSpec`: threads, user commands,
session losses, a venue that fills, rejects and cancels as it likes)

* `SystemSpec => ImplementsCoordinator`: every step of a handler, a user command or an
  event is a step of `Coordinator` or leaves the book alone.  So every theorem above,
  the hard limits first, holds of the system, with no assumption left about reports;
* `VenueNeverOversells`, `BookFollowsVenue`, `SoldOutIsCompleted`,
  `CancelledSendsNothing`, `StartsInTime` and the types.

The inductive invariant is `SystemInv`: `IInv`, the types, what the program counter
of the event thread implies (`AtTranche`, `MayDecide`) and `Linked(book, events,
venue)`.  The last says that the book is behind the venue and how: each queued event
tells something that is true of its order, a final one tells the executed quantity
and comes last of its order, and an order that the book counts as closed is gone.
It is what makes a report `Reportable`, and every action of the venue, the gateway
and the session is shown to keep it (`CallLinked`, `HandledLinked`,
`VenueKeepsLink`, `OutageKeepsLink`).  From it: what the venue may still execute are
lots of open or filled orders of the book (`ExposedIsCounted`), which with `HardLimits`
and `FillsAddUp` is `VenueNeverOversells`; without an outage every execution is in
the book or in a queued event (`NothingLost`), which is `BookFollowsVenue`.
`CancelledSendsNothing` needs `WindsDown`, also between the steps of a handler.
`SoldOutIsCompleted` needs that an order that is gone unfilled leaves some lot
(`PartialFillLeavesSome`): a reject pauses the parent instead of settling it, and so
must not carry the last fill.
`StartsInTime` strengthens the invariant with `OnTime`: what is live or about to be
started has reached its start, and so has the tranche a handler works on, whose close
may make it live.  Tranches that have begun and not reached their deadline are open
together, and the capacity check, which looks at the starts only, bounds the windows open
at any time (`OpenWindowsFit`, at the latest start of those open).  `due_to_start`
uses every slot (`SlotsAreUsed`), so what waits is outnumbered by what is late.

`FixSession_proofs` proves, for any choice of resets and any number of messages and
disturbances, the types of both sessions and of all that is on its way
(`SessionTypeOK`), and for numbers that are never reset: `NeverAhead` and its
consequence, that only a message marked as sent again is ever found too low
(`OnlyResentIsTooLow`); that the two sessions implement `OrderedDelivery`
(`ImplementsDeliveryHolds`); and that a message is passed over only by an unchecked
count (`SkipsOnlyUnchecked`).  None of these is inductive: what a session counts
next comes from its queue or from its connection, with gap fills and messages sent
again among it.  The invariant `SessionInv` says of every message how far it
reaches, the number expected after it (`Reach`), and that

* what a session expects, and whatever its queue reaches, lies within every number
  that may come next: the peer's next number and the number of each new message under
  way (`InStep`, `Within`, `Expected`);
* what is under way is in order: it reaches no further than its sender has counted,
  and a new message has a number that nothing before it reaches beyond (`Orderly`);
* no reset flag is set, and the store has a message for every number that was used
  (`Working`), without which a resend would read beyond it;
* the messages of an application are stored in the order in which they were accepted
  (`Numbered`), though a crash may leave a number's entry to be overwritten;
* a message under way or queued is the one stored under its number, and a gap fill
  covers no number under which the application's are stored (`Told`, `Tells`);
* what was last handed to the application comes before all that is still expected;
  only a crash between the hand-over and the count leaves that very message expected,
  and then whatever brings it again is marked (`Placed`, `Repeats`).

A handler is shown once to be `Fine` in the context of its step (`Here`): for each
such limit, with what the peer has stored, what the session had stored and expected
when the step began.  `Fine` says that nothing stored changes, that what is sent tells
what is stored (`Truthful`), and that the application was handed nothing or just the
message that was expected, over which the number then moves on (`Follows`, `Handed`).
This goes from the helpers up to `Process` (`SendRawFine`, `PostponeFine`,
`RefusedFine`, `GivenFine`, `ProcessFine`).  A step of one side that is fine for all
limits (`Step`) keeps the parts of the invariant one by one (`StepNumbers`,
`StepNumbered`, `StepTold`, `StepPlacedHere`, `StepPlacedThere`), is a step of
`OrderedDelivery` (`StepDelivers`) and skips nothing (`StepSkips`); every action is
such a step of one side (`Moves`) or leaves all of this alone (`Idles`).  What
answers a resend request is all marked as sent again, reaches no further than what
was sent and tells what is stored (`RetransmitsAgain`); for that the n-th message of the answer is described
by counting, and shown to exist (`NthExists`).

`FileStore_proofs` begins with the windows of `TimeRange`.  It proves, for every length
of a day, every window and any two times, that `isInSameRange`, which compares differences with what is left of a session,
decides whether they lie in one session (`SameRangeIsSameSession`), and that a time
between two of one session lies in it too (`SessionIsAnInterval`).  The proof splits
on whether the window runs over midnight and gives the quotients and remainders by
`Day` names, since the prover does not divide by a constant it does not know.

It goes on to `Spec => KeptThroughSession` and
`Spec => OldNumbersForgotten` for any bounds, windows and sequences of writes, crashes
and restarts.  The inductive invariant is `ClockInv`: the store was created before
now (`Clock`); the session file is missing only when the numbers have gone
(`SessionGoesLast`, which is what the order of the unlinks is for); numbers on disk
were counted after the time in the session file (`CountedSince`); and the
constructor compares the clock with that very time (`BootsFromFile`).  With it, a
session that starts with numbers finds `session <= counted <= now` in one window, and
`SessionIsAnInterval` says that they were counted in it.

Of the contents it proves `StoreTypeOK`, `NothingToLose` and `ReadsLastStored`, with
the inductive invariant `DataInv`, one conjunct for each thing that holds at a point
of `set` and `reset` but not at others: the offsets in memory are those of the header
file, except while a header is being written (`Cached`); a reset has forgotten what
its files may still say (`Emptied`); a counted number has its message, or a reset
has been interrupted (`Filed`); so has the number about to be counted
(`BeingStored`).  The order of the writes is what keeps it: the header entry is written
when the body has the message, the number when the header has the entry.  An
appended header entry replaces the earlier one of its number (`OffsetsOfAppend`).

`OrderMatch_proofs` proves all five properties of the counterparty, for any number
of orders, clients, prices and quantities.  The match loop is a recursive function;
that it exists is proved first, by the least turn at which two attempts at it would
differ (`TurnsAgree`, `TurnsExist`).  Since a trade takes the smaller of two open
quantities it closes an order, so the turns allotted are enough and the loop ends
with the best orders apart (`TurnAdvances`, `MatchedIs`).  The invariant of the
book between requests, `MatchInv`, says that

* sides are ranked by price and then by arrival (`Ranked`), kept by inserting after all
  that are not worse (`InsertPlaces`); with it the best orders decide for all
  (`BestDecide`), which is `NothingLeftToTrade`;
* an order is in one place (`Apart`) and its open and executed quantities add up
  (`Stands`), so the report of a trade is one about this order and continues the
  story of the one before (`OneStory`, `LastIsTrue`);
* while nobody has ordered a negative quantity no resting order has one and every trade
  executes at least nothing, so executed quantities grow and none falls below zero
  (`Unspoilt`, `TradeKeepsUnspoilt`); quantities are any integers, and the condition is
  the history's, read off the first reports (`NoNegativeOrder`);
* an order that is gone was told so, unless the book was lost (`Accounted`).

`PriceTimePriority` is about a whole request, which may trade many times: `Reached`
says of the loop's state that from each side the first few orders have been closed
and that none behind the next best has been told anything.  An order that traded has
therefore none before it left.

Assumed of the constants: volumes are natural numbers and a tranche's positive, as
is the parent's in `Execution`, intents are vectors over `0..Scale`, bids are
integers, reports carry order statuses (in `Execution` all of them), `NoTarget` is
not a target; tranches are finitely many and divide the parent's volume (as
`build_tranches` makes them, which refuses another volume); they are numbered from 1, their
starts precede their deadlines, these are within the parent's duration (the planner's
milestones are), and the schedule passed the capacity check; a day is a positive number
of ticks; prices and quantities of the counterparty are integers, negative ones
included; bounds are natural numbers.

Only model-checked: that sessions which reset their numbers implement
`OrderedDelivery`.  It does not hold of every choice of resets (section 5), so a
theorem needs the choice as an assumption and an invariant that tells the messages
of one numbering from those of the last; `session` checks three choices, among them
the gateway's.  `DeadlineCompletesParent` and `EventuallyDelivered` are liveness and
outside the prover's reach.

## 5. Findings

* `paused_sends`: a pause by the user between the engine's reading of the parent's
  status and its call of the coordinator lets `continue_tranche_close` (or
  `begin_tranche_close`) send a fallback order for the PAUSED parent; the comment in
  `tests/test_coordinator.py:252` says the engine must not.
* `active_tranches`: at the parent's deadline all waiting tranches are activated at
  once, whatever `max_active_tranches` says (`README.md:90`).
* `paused_stuck`: a Logout pauses the parent and its cancel requests are dropped
  because the session is down; `cancel_requested` keeps them from ever being repeated,
  so the orders stay open and the parent cannot be resumed.

Met while modelling, without a run of its own: a pause and a resume by the user
within one `_run_decision` make `apply_intent` deploy an intent for a tranche that is
WAITING again and then `normalized_time` raise; the engine pauses the parent once
more (action `RecordDecision`; `execution_races` goes through it).  A little earlier,
between the reading of the tranche's status and `apply_intent`, the same two commands
make `_tranche_flow_window` or the observation raise, with nothing deployed
(`WindowLost`).

Met in the session layer, where the models state what the code does and the
properties name the exception:

* `nextLogout` (`Session.cpp:324`) and `nextReject` (`:335`) count a message without
  looking whether it is ahead of a gap.  The first message of the gap is then taken
  for received and never asked for.  `SkipsOnlyUnchecked` says that nothing else
  passes a message over.
* When only one side resets its numbers as a connection ends, or both do after a
  Logout and one of them crashes in between, the other still has the old
  messages and sends them again under numbers that are expected once more, far
  behind newer ones.  Such configurations are not among those of `session`.  An
  acceptor alone with `ResetOnLogon=Y` is not either: it forgets its numbers without
  telling (the flag is set by the initiator's logon, `Session.cpp:684`), and an
  initiator that keeps its own finds the answer too low, at every logon.
* A crash between the creation of the session file and the write of its time leaves
  it empty.  The time is written only when the file is missing
  (`FileStore.cpp:153`), so that from then on the store seems as young as the process
  and old numbers are kept into the next session (`files.session # Empty` in
  `OldNumbersForgotten`).
* A reset that is interrupted after the body is gone and before the numbers are
  (`torn`) leaves numbers without messages, and header entries that point into
  the body written since.
* The last tick of a session over midnight counts as outside it, unless the store was
  created then (`ClosingTick`): `isInRange` includes the end, the comparison of the
  differences does not.
* The counterparty's cancel looks only for the client's id: it reaches another client's
  order of the same id and side, and says nothing when there is none.  An order of no
  quantity is accepted, and rests in the book until it is crossed.  A restart empties
  the book; the owners are not told (`LastReportIsTrue` excepts it).
* The counterparty accepts an order of a negative quantity: `onMessage` passes
  `(long)orderQty` on (`Application.cpp:68`), and a QTY field may have a sign
  (`DataDictionary.h:398`, `FieldConvertors.h:361`).  `Market::match` takes the smaller
  open quantity (`Market.cpp:111`), so that a bid of -5 against a resting ask of 3
  executes -5 of both: the owner of the ask is told of a CumQty of -5 and a LeavesQty
  of 8.  The reports still agree with the book (`LastReportIsTrue`), and every turn of
  the loop still closes an order (`NothingLeftToTrade`), but "executed quantities grow"
  and "nothing below zero" hold only before such an order; with the condition
  `NoNegativeOrder` left out of either property, `order_match` finds it violated.

## 6. Not modelled

* Of the engine: its coordinator calls and the session.  All sends and cancels of one
  coordinator call see the session up or all see it down; the gateway looks at the flag for
  each (`gateway.py:124`, `155`), so a session that falls or returns between two sends of
  one call, some of its orders accepted and the rest rejected locally, is left out.
  What a session that falls just after the call does to any subset of the orders sent is
  in `Outage`.  `resume_parent` compares the clock with the deadline before it takes the
  coordinator's lock (`engine.py:181`); `UserResume` does both at once.  While the
  parent is paused nothing reads the clock, so the deadline passing in between changes
  nothing; left out is a resume checked before the deadline, with the parent still
  running, that finds it paused when it gets the lock after the deadline.
* Of `Session`: TestRequest, `NextExpectedMsgSeqNum`, `RefreshOnLogon`,
  `PersistMessages=N`, a `DoNotSend` thrown by the application, the checks of
  latency, CompIDs and data dictionaries, messages that cannot be parsed, and
  sessions ended by the clock (they are in `FileStore`).  `generateReject` throws when
  the session is not logged on; with gap fills only for what was asked this does not
  happen.  An application that throws `FieldNotFound` or `UnsupportedMessageType` (FIX.4.2
  and later) makes the session answer with a BusinessMessageReject
  (`Session.cpp:1259`-`1281`), a message stored, numbered and sent again like the
  application's own; the model answers every throw with a session Reject.
  A handler is one step, although only `sendRaw` holds the send mutex: another thread's
  `send` may fall between the acceptor's Logon and `sentLogon` (it is stored and
  not sent, and found again as a gap), and between the steps of a logon, whose
  `m_state.reset` (`Session.cpp:206`, `217`, `685`) does not take that mutex and so may even
  fall between the number such a `send` was given and the count of it.  Heartbeats
  other than those that show a gap, and the timeouts' lengths: a timer may act
  whenever its flags allow it.
* Of the stores: writes that fail, a write that is torn in the middle of a file,
  numbers set by hand, weekly windows, windows round the clock whose equal start and
  end are not midnight (the code ends them at midnight all the same), and the SQL,
  memory and null stores.  `LogoutByClock` is the logout that `Session::reset` sends
  and the reset that follows; the disconnect between the two, which clears flags
  and, with `ResetOnDisconnect=Y`, resets the store once more, is left out.
* Of the counterparty: answers to market data requests, the display on the console,
  which reads the book from another thread without a lock.  Prices are integers, AvgPx
  is left out (it is no number when what was executed adds up to nothing), and quantities stay far from the
  bounds of a `long`.
* FIX parsing, fields, data dictionaries and sockets: byte-level code without the
  control state the models are about.  The message classes of each FIX version and the
  wrappers for other languages are generated; with the vendored XML parser they are
  nearly all of the repository's C++.
* vn.py's OMS and offset converter (copies that no execution code reads), its other
  applications, policy loading, the planner, the observation and `rlte`: numeric
  code, or code that the running system does not call.
* The tolerance with which a float price is matched to a level
  (`coordinator.py:641`): prices are integers.

## 7. Plan

1. Done: execution data, coordinator, engine with threads, gateway, session
   outcome, scheduler with its capacity, and venue; refinements; the coordinator's
   main invariants and its refinement of `SellMandate` proved.
2. Done: the QuickFIX session and its abstract specification, the file store with the
   session time, the demo counterparty; the store's behaviour under the clock
   proved.
3. Done: `Execution` implements `Coordinator`, and its invariants; the contents of
   the store; the counterparty; `FixSession`: types, numbers, and while numbers are
   kept the refinement of `OrderedDelivery`.
4. Proofs next: the refinement of `OrderedDelivery` when both sides reset at every
   logon, as the gateway does: the invariant of section 4 for the messages of one
   connection, and that ids of the next numbering exceed all that were handed over.
5. Models that could follow: TestRequest and the timeouts' order, a session that the
   clock ends while its peer is sending, weekly windows.
