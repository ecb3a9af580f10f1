---------------------------- MODULE OrderMatch ----------------------------
(***************************************************************************)
(* The matching of the demo counterparty, QuickFIX/examples/ordermatch: a   *)
(* Market of one symbol and the handlers of Application that change it and *)
(* report to the owners.  Handlers run one after the other, on the thread  *)
(* of the acceptor.                                                        *)
(*                                                                         *)
(* An order is told apart by its arrival; the client's id may be used      *)
(* again, also by another client.  The owner is left out: no handler reads  *)
(* it, a cancel included.                                                  *)
(***************************************************************************)
EXTENDS Integers, FiniteSets, SequencesExt

CONSTANTS
    ClientIds,
    Prices,
    Quantities,    \* also zero and below: nothing refuses such an order
    MaxOrders,
    MaxRestarts

ASSUME OrdersAssumption ==
    /\ Prices \subseteq Int /\ Quantities \subseteq Int
    /\ MaxOrders \in Nat /\ MaxRestarts \in Nat

VARIABLES
    book,        \* the orders of each side, best first
    reports,     \* what the owner of each order was told
    restarts

vars == <<book, reports, restarts>>

Sides == {"buy", "sell"}

Order ==
    [arrival : Nat \ {0}, id : ClientIds, side : Sides, price : Prices,
     quantity : Quantities, open : Int, executed : Int]

Statuses == {"NEW", "PARTIALLY_FILLED", "FILLED", "CANCELED", "REJECTED"}

Report == [status : Statuses, leaves : Int, cum : Int]

NewOrder(arrival, id, side, price, quantity) ==
    [arrival |-> arrival, id |-> id, side |-> side, price |-> price,
     quantity |-> quantity, open |-> quantity, executed |-> 0]

isFilled(o) == o.quantity = o.executed
isClosed(o) == o.open = 0

\* Mutant: the executed quantity is that of the last trade.
ExecutedLast(o, quantity) == [o EXCEPT !.open = @ - quantity, !.executed = quantity]

Executed(o, quantity) == [o EXCEPT !.open = @ - quantity, !.executed = @ + quantity]

(***************************************************************************)
(* Market                                                                  *)
(***************************************************************************)
BetterPrice(o, p) == IF o.side = "buy" THEN o.price > p.price ELSE o.price < p.price

PlaceBefore(orders, o, Before(_, _)) ==
    LET ahead == Cardinality({i \in DOMAIN orders : ~Before(o, orders[i])})
    IN  InsertAt(orders, ahead + 1, o)

NotWorse(o, p) == ~BetterPrice(p, o)

\* Mutant: an order goes in front of the earlier ones at its price.
InsertFirst(orders, o) == PlaceBefore(orders, o, NotWorse)

\* A multimap keeps orders of one price as they came.
Insert(orders, o) == PlaceBefore(orders, o, BetterPrice)

\* Mutant: equal prices do not trade.
CrossesStrictly(bid, ask) == bid.price > ask.price

Crosses(bid, ask) == bid.price >= ask.price

\* Mutant: the larger of the open quantities is traded.
TradedMost(bid, ask) == IF bid.open > ask.open THEN bid.open ELSE ask.open

Traded(bid, ask) == IF bid.open > ask.open THEN ask.open ELSE bid.open

Replaced(orders, o) == IF isClosed(o) THEN Tail(orders) ELSE <<o>> \o Tail(orders)

(***************************************************************************)
(* Application: what the owners are told                                   *)
(***************************************************************************)
updateOrder(o, status) == [status |-> status, leaves |-> o.open, cum |-> o.executed]

fillOrder(o) == updateOrder(o, IF isFilled(o) THEN "FILLED" ELSE "PARTIALLY_FILLED")

Told(all, o, report) == [all EXCEPT ![o.arrival] = Append(@, report)]

(***************************************************************************)
(* Market::match.  It queues copies of the two orders of every trade, and  *)
(* the owners are told in that order when it returns; nothing reads the    *)
(* reports in between, so a trade tells its own here.                      *)
(***************************************************************************)
CanTrade(b) ==
    b["buy"] # <<>> /\ b["sell"] # <<>> /\ Crosses(Head(b["buy"]), Head(b["sell"]))

\* One trade: the best orders of both sides are executed against each other.
Trade(m) ==
    LET b == m.book
        quantity == Traded(Head(b["buy"]), Head(b["sell"]))
        executed == [s \in Sides |-> Executed(Head(b[s]), quantity)]
        Fill(all, o) == Told(all, o, fillOrder(o))
    IN  [book    |-> [s \in Sides |-> Replaced(b[s], executed[s])],
         reports |-> Fill(Fill(m.reports, executed["buy"]), executed["sell"])]

\* One turn of the loop, for the book and the reports of m.
MatchOnce(m) == IF CanTrade(m.book) THEN Trade(m) ELSE m

\* Every turn closes an order.
Matched(m) ==
    LET turn[k \in Nat] == IF k = 0 THEN m ELSE MatchOnce(turn[k - 1])
    IN  turn[Len(m.book["buy"]) + Len(m.book["sell"])]

(***************************************************************************)
(* Application: the handlers                                               *)
(***************************************************************************)
Arrivals == Len(reports)

processOrder(id, side, price, quantity) ==
    LET o == NewOrder(Arrivals + 1, id, side, price, quantity)
        m == Matched([book    |-> [book EXCEPT ![side] = Insert(@, o)],
                      reports |-> Append(reports, <<updateOrder(o, "NEW")>>)])
    IN  /\ Arrivals < MaxOrders
        /\ book' = m.book
        /\ reports' = m.reports
        /\ UNCHANGED restarts

\* A side, type or time in force that is not supported.
rejectOrder ==
    /\ Arrivals < MaxOrders
    /\ reports' = Append(reports, <<[status |-> "REJECTED", leaves |-> 0, cum |-> 0]>>)
    /\ UNCHANGED <<book, restarts>>

\* Market::find: where the best order of that id is, whosever it is; 0 for nowhere.
Found(side, id) == SelectInSeq(book[side], LAMBDA o : o.id = id)

Cancelled(o) == [o EXCEPT !.open = 0]

\* Mutant: the owner is told before the order is cancelled.
CancelReportEarly(o) == updateOrder(o, "CANCELED")

CancelReport(o) == updateOrder(Cancelled(o), "CANCELED")

processCancel(side, id) ==
    LET i == Found(side, id)
        o == book[side][i]
    IN  /\ i # 0
        /\ reports' = Told(reports, o, CancelReport(o))
        /\ book' = [book EXCEPT ![side] = RemoveAt(@, i)]
        /\ UNCHANGED restarts

\* The orders are in memory only, and nobody is told.
Restart ==
    /\ restarts < MaxRestarts
    /\ restarts' = restarts + 1
    /\ book' = [s \in Sides |-> <<>>]
    /\ UNCHANGED reports

Init ==
    /\ book = [s \in Sides |-> <<>>]
    /\ reports = <<>>
    /\ restarts = 0

Next ==
    \/ \E id \in ClientIds, side \in Sides, price \in Prices, quantity \in Quantities :
           processOrder(id, side, price, quantity)
    \/ rejectOrder
    \/ \E side \in Sides, id \in ClientIds : processCancel(side, id)
    \/ Restart

Spec == Init /\ [][Next]_vars

(***************************************************************************)
(* Properties                                                              *)
(***************************************************************************)
\* Nobody has ordered a negative quantity: the first report of an order repeats
\* it, and that of a refused one has a zero.  onMessage does not look at the sign.
NoNegativeOrder(all) == \A n \in DOMAIN all : all[n][1].leaves >= 0

Resting == ToSet(book["buy"]) \cup ToSet(book["sell"])

\* Every part of the state has its type, and while nobody has ordered a negative
\* quantity no open and no executed quantity is below zero, in the book or in a
\* report: match never takes more from an order than is open.
MatchTypeOK ==
    /\ book \in [Sides -> Seq(Order)]
    /\ reports \in Seq(Seq(Report))
    /\ restarts \in Nat
    /\ NoNegativeOrder(reports) =>
           /\ \A o \in Resting : o.open >= 0 /\ o.executed >= 0
           /\ \A n \in DOMAIN reports : \A told \in ToSet(reports[n]) :
                  told.leaves >= 0 /\ told.cum >= 0

\* When a request has been handled nothing in the book could trade, wherever in
\* the book it is.
NothingLeftToTrade ==
    \A bid \in ToSet(book["buy"]), ask \in ToSet(book["sell"]) : bid.price < ask.price

\* What was told last about an order is how it stands in the book, and an order
\* that is not there is known to be finished, unless the book was lost.
LastReportIsTrue ==
    /\ \A o \in Resting :
           LET told == Last(reports[o.arrival])
           IN  /\ told.status \in {"NEW", "PARTIALLY_FILLED"}
               /\ told.leaves = o.open /\ told.cum = o.executed
    /\ \A n \in DOMAIN reports :
           (restarts = 0 /\ \A o \in Resting : o.arrival # n) =>
               LET told == Last(reports[n])
               IN  told.status \in {"FILLED", "CANCELED", "REJECTED"} /\ told.leaves = 0

\* The reports of an order tell one story, whatever is ordered: no report follows
\* a final one, and what is left and what is executed add up to one quantity until
\* a cancel takes the rest.  The executed quantity only grows while nobody has
\* ordered a negative quantity.  It falls after one: a bid of -5 against an offer
\* of 3 executes -5 of both, and the owner of the offer is told of -5 executed
\* and 8 left.
ReportsTellOneStory ==
    \A n \in DOMAIN reports : \A i \in 1 .. Len(reports[n]) - 1 :
        LET earlier == reports[n][i]
            later == reports[n][i + 1]
        IN  /\ earlier.status \in {"NEW", "PARTIALLY_FILLED"}
            /\ NoNegativeOrder(reports) => earlier.cum <= later.cum
            /\ later.leaves + later.cum = earlier.leaves + earlier.cum \/ later.status = "CANCELED"

\* An order trades only when every order of its side that comes before it, by
\* price and then by arrival, is out of the book.
Precedes(o, p) ==
    o.side = p.side /\ (BetterPrice(o, p) \/ (o.price = p.price /\ o.arrival < p.arrival))

Trades(o) ==
    /\ Len(reports[o.arrival]') > Len(reports[o.arrival])
    /\ Last(reports[o.arrival])'.status \in {"PARTIALLY_FILLED", "FILLED"}

PriceTimePriority ==
    [][\A o \in Resting, p \in Resting :
        Trades(p) /\ Precedes(o, p) => \A q \in Resting' : q.arrival # o.arrival]_vars
============================================================================
