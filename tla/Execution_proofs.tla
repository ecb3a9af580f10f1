-------------------------- MODULE Execution_proofs --------------------------
(***************************************************************************)
(* Theorems about module Execution, for every value of its constants: the  *)
(* handlers, the user, the session and the venue together move the book    *)
(* only as module Coordinator allows, the book follows the venue, and the  *)
(* venue never executes more than the volumes.                             *)
(*                                                                         *)
(* The argument is about the link between the three records of an order:   *)
(* the child order of the book, the events queued about it, and the order  *)
(* at the venue.                                                           *)
(***************************************************************************)
EXTENDS Execution, CoordinatorSteps_proofs, CoordinatorMandate_proofs, SequenceTheorems,
        WellFoundedInduction

-----------------------------------------------------------------------------
(***************************************************************************)
(* The link.  The book is behind the venue and the queued events are in    *)
(* between; a final status says all that the venue will ever execute, and  *)
(* nothing is queued behind it.                                            *)
(***************************************************************************)
Event == [order : Nat, traded : 0..TrancheVolume, status : OrderStatus]

VenueOrder ==
    [state : {"sent", "working", "gone"}, executed : 0..TrancheVolume, cancelling : BOOLEAN]

OrderLinked(child, order) ==
    /\ order.executed <= child.volume
    /\ order.state # "gone" => order.executed < child.volume
    /\ child.traded <= order.executed
    /\ child.status \in FinalStatuses =>
          order.state = "gone" /\ child.traded = order.executed

EventTrue(child, order, e) ==
    /\ e.traded <= order.executed
    /\ child.status \notin FinalStatuses
    /\ e.status \in FinalStatuses =>
          /\ order.state = "gone"
          /\ e.traded = order.executed
          /\ e.status = "ALLTRADED" <=> e.traded = child.volume

LastFinal(es) ==
    \A i, j \in 1..Len(es) :
        i < j /\ es[i].order = es[j].order => es[i].status \notin FinalStatuses

Linked(b, es, v) ==
    /\ es \in Seq(Event)
    /\ v \in [Orders(b) -> VenueOrder]
    /\ \A o \in Orders(b) : OrderLinked(b.child[o], v[o])
    /\ \A i \in 1..Len(es) :
          /\ es[i].order \in Orders(b)
          /\ EventTrue(b.child[es[i].order], v[es[i].order], es[i])
    /\ LastFinal(es)

(***************************************************************************)
(* What happens to orders at the venue: executions grow within the volume, *)
(* and an order that is gone is executed no further.                       *)
(***************************************************************************)
Moved(child, before, after) ==
    /\ before.executed <= after.executed
    /\ after.executed <= child.volume
    /\ before.state = "gone" => after.state = "gone" /\ after.executed = before.executed
    /\ after.state # "gone" => after.executed < child.volume

LEMMA MovedOrder ==
    ASSUME NEW child \in ChildOrder, NEW before \in VenueOrder, NEW after \in VenueOrder,
           Moved(child, before, after)
    PROVE  /\ OrderLinked(child, before) => OrderLinked(child, after)
           /\ \A e \in Event : EventTrue(child, before, e) => EventTrue(child, after, e)
  <1>1. OrderLinked(child, before) => OrderLinked(child, after)
    BY DEF OrderLinked, Moved, ChildOrder, VenueOrder
  <1>2. ASSUME NEW e \in Event, EventTrue(child, before, e)
        PROVE  EventTrue(child, after, e)
    <2>1. e.traded <= after.executed
      BY <1>2 DEF EventTrue, Moved, VenueOrder, Event
    <2>2. before.state = "gone" => after.state = "gone" /\ after.executed = before.executed
      BY DEF Moved
    <2> QED
      BY <1>2, <2>1, <2>2 DEF EventTrue
  <1> QED
    BY <1>1, <1>2

LEMMA ChildIsTyped ==
    ASSUME NEW b, WellFormed(b), NEW o \in Orders(b)
    PROVE  b.child[o] \in ChildOrder
  BY DEF WellFormed, Books, Orders

LEMMA MovedOrdersLinked ==
    ASSUME NEW b, WellFormed(b), NEW es, NEW v, Linked(b, es, v),
           NEW w \in [Orders(b) -> VenueOrder],
           \A o \in Orders(b) : Moved(b.child[o], v[o], w[o])
    PROVE  Linked(b, es, w)
  <1>1. \A o \in Orders(b) : b.child[o] \in ChildOrder /\ v[o] \in VenueOrder
                             /\ w[o] \in VenueOrder
    BY ChildIsTyped DEF Linked
  <1>2. \A o \in Orders(b) : OrderLinked(b.child[o], w[o])
    BY <1>1, MovedOrder DEF Linked
  <1>3. ASSUME NEW i \in 1..Len(es)
        PROVE  /\ es[i].order \in Orders(b)
               /\ EventTrue(b.child[es[i].order], w[es[i].order], es[i])
    <2> DEFINE o == es[i].order
    <2>1. es[i] \in Event
      BY ElementOfSeq DEF Linked
    <2>2. o \in Orders(b) /\ EventTrue(b.child[o], v[o], es[i])
      BY DEF Linked
    <2>3. EventTrue(b.child[o], w[o], es[i])
      BY <1>1, <2>1, <2>2, MovedOrder
    <2> QED
      BY <2>2, <2>3
  <1> QED
    BY <1>2, <1>3 DEF Linked

\* The venue's report of an order it has not given up.
LEMMA ReportLinked ==
    ASSUME NEW b, NEW es, NEW v, NEW w, Linked(b, es, v), Linked(b, es, w),
           NEW e \in Event, e.order \in Orders(b),
           v[e.order].state # "gone",
           EventTrue(b.child[e.order], w[e.order], e)
    PROVE  Linked(b, Append(es, e), w)
  <1> DEFINE fs == Append(es, e)
  <1>1. es \in Seq(Event) /\ Len(es) \in Nat
    BY LenProperties DEF Linked
  <1>2. /\ fs \in Seq(Event)
        /\ Len(fs) = Len(es) + 1
        /\ \A i \in 1..Len(es) : fs[i] = es[i]
        /\ fs[Len(es) + 1] = e
    BY <1>1, AppendProperties
  <1> HIDE DEF fs
  <1>3. \A i \in 1..Len(fs) : i \in 1..Len(es) \/ i = Len(es) + 1
    BY <1>1, <1>2
  <1>4. ASSUME NEW i \in 1..Len(fs)
        PROVE  /\ fs[i].order \in Orders(b)
               /\ EventTrue(b.child[fs[i].order], w[fs[i].order], fs[i])
    <2>1. CASE i \in 1..Len(es)
      BY <1>2, <2>1 DEF Linked
    <2>2. CASE i = Len(es) + 1
      BY <1>2, <2>2
    <2> QED
      BY <1>3, <2>1, <2>2
  <1>5. ASSUME NEW i \in 1..Len(es), es[i].order = e.order
        PROVE  es[i].status \notin FinalStatuses
    BY <1>5 DEF Linked, EventTrue
  <1>6. ASSUME NEW i \in 1..Len(fs), NEW j \in 1..Len(fs), i < j,
               fs[i].order = fs[j].order
        PROVE  fs[i].status \notin FinalStatuses
    <2>1. i \in 1..Len(es)
      BY <1>1, <1>2, <1>6
    <2>2. CASE j \in 1..Len(es)
      BY <1>2, <1>6, <2>1, <2>2 DEF Linked, LastFinal
    <2>3. CASE j = Len(es) + 1
      BY <1>2, <1>5, <1>6, <2>1, <2>3
    <2> QED
      BY <1>3, <2>2, <2>3
  <1> QED
    BY <1>2, <1>4, <1>6 DEF Linked, LastFinal, fs

-----------------------------------------------------------------------------
(***************************************************************************)
(* What the gateway makes of a method's calls.                             *)
(***************************************************************************)

\* The new orders of a book have the numbers that follow.
LEMMA NewOrdersAreNext ==
    ASSUME NEW n \in Nat, book \in Books(n), NEW m \in Nat, NEW c \in Books(m),
           Orders(book) \subseteq Orders(c)
    PROVE  /\ Orders(book) = 1..n /\ Cardinality(Orders(book)) = n
           /\ Orders(c) = 1..m
           /\ n <= m
           /\ NewOrders(c) = (n + 1)..m
           /\ Cardinality(NewOrders(c)) = m - n
  <1>1. /\ Orders(book) = 1..n /\ Cardinality(Orders(book)) = n
        /\ Orders(c) = 1..m
    BY OrdersAreNumbered
  <1>2. n <= m
    BY <1>1
  <1>3. NewOrders(c) = (n + 1)..m
    BY <1>1, <1>2 DEF NewOrders
  <1>4. Cardinality((n + 1)..m) = m - n
    <2> DEFINE first == n + 1
    <2>1. first \in Int /\ first = n + 1
      OBVIOUS
    <2> HIDE DEF first
    <2>2. Cardinality(first..m) = IF first > m THEN 0 ELSE m - first + 1
      BY <2>1, FS_Interval
    <2>3. Cardinality(first..m) = m - n
      BY <1>2, <2>1, <2>2
    <2> QED
      BY <2>3 DEF first
  <1> QED
    BY <1>1, <1>2, <1>3, <1>4

\* The venue record of an order just sent.
Fresh(order) ==
    /\ order \in VenueOrder
    /\ order.executed = 0
    /\ order.state = IF logged_on THEN "sent" ELSE "gone"

\* The request leaves the records of known orders but for a cancel, and adds new ones.
LEMMA RequestMoves ==
    ASSUME NEW es, Linked(book, es, venue), WellFormed(book), NEW c,
           Orders(book) \subseteq Orders(c), logged_on \in BOOLEAN
    PROVE  /\ Request(c) \in [Orders(c) -> VenueOrder]
           /\ \A o \in Orders(book) :
                 /\ Request(c)[o].state = venue[o].state
                 /\ Request(c)[o].executed = venue[o].executed
           /\ \A o \in NewOrders(c) : Fresh(Request(c)[o])
  <1>1. venue \in [Orders(book) -> VenueOrder]
    BY DEF Linked
  <1>2. ASSUME NEW o \in NewOrders(c)
        PROVE  o \in Orders(c) /\ Fresh(Request(c)[o])
    <2>1. o \in Orders(c)
      BY DEF NewOrders
    <2>2. Request(c)[o] = [state |-> IF logged_on THEN "sent" ELSE "gone",
                           executed |-> 0, cancelling |-> FALSE]
      BY <2>1 DEF Request
    <2> QED
      BY <2>1, <2>2, VolumeAssumption DEF Fresh, VenueOrder
  <1>3. ASSUME NEW o \in Orders(book)
        PROVE  /\ Request(c)[o] \in VenueOrder
               /\ Request(c)[o].state = venue[o].state
               /\ Request(c)[o].executed = venue[o].executed
    <2>1. o \in Orders(c) /\ o \notin NewOrders(c) /\ venue[o] \in VenueOrder
      BY <1>1 DEF NewOrders
    <2>2. Request(c)[o] =
            [venue[o] EXCEPT !.cancelling =
                @ \/ (o \in NewCancels(c) /\ logged_on /\ venue[o].state # "gone")]
      BY <2>1 DEF Request
    <2> QED
      BY <2>1, <2>2 DEF VenueOrder
  <1>4. Orders(c) = Orders(book) \cup NewOrders(c)
    BY DEF NewOrders
  <1>5. \A o \in Orders(c) : Request(c)[o] \in VenueOrder
    BY <1>2, <1>3, <1>4 DEF Fresh
  <1>6. Request(c) \in [Orders(c) -> VenueOrder]
    BY <1>5 DEF Request
  <1> QED
    BY <1>2, <1>3, <1>6

(***************************************************************************)
(* The events of the orders that a method sent: of those orders only, and  *)
(* with a final status only off the session and last.                      *)
(***************************************************************************)
LEMMA SentEventsAreTrue ==
    ASSUME NEW n \in Nat, book \in Books(n), NEW m \in Nat, NEW c \in Books(m),
           Orders(book) \subseteq Orders(c), logged_on \in BOOLEAN
    PROVE  LET es == SentEvents(c)
           IN  /\ es \in Seq(Event)
               /\ \A i \in 1..Len(es) :
                     /\ es[i].order \in NewOrders(c)
                     /\ es[i].traded = 0
                     /\ es[i].status = "SUBMITTING" \/ (~logged_on /\ es[i].status = "REJECTED")
               /\ LastFinal(es)
  <1> DEFINE es == SentEvents(c)
             d == m - n
  <1>1. /\ Cardinality(Orders(book)) = n
        /\ n <= m
        /\ NewOrders(c) = (n + 1)..m
        /\ Cardinality(NewOrders(c)) = d
    BY NewOrdersAreNext
  <1>2. d \in Nat
    BY <1>1
  <1>3. \A i \in Nat, status \in OrderStatus : OrderEvent(n + i, 0, status) \in Event
    BY VolumeAssumption DEF OrderEvent, Event
  <1> HIDE DEF d
  <1>4. CASE logged_on
    <2>1. es = [i \in 1..d |-> OrderEvent(n + i, 0, "SUBMITTING")]
      BY <1>1, <1>4, Zenon DEF SentEvents
    <2> HIDE DEF es
    <2>2. \A i \in 1..d : es[i] \in Event
      BY <1>2, <1>3, <2>1 DEF OrderStatus, ActiveStatuses
    <2>3. es \in Seq(Event) /\ Len(es) = d
      BY <1>2, <2>1, <2>2
    <2>4. ASSUME NEW i \in 1..Len(es)
          PROVE  /\ es[i].order = n + i /\ es[i].order \in NewOrders(c)
                 /\ es[i].traded = 0 /\ es[i].status = "SUBMITTING"
      BY <1>1, <1>2, <2>1, <2>3 DEF OrderEvent, d
    <2>5. LastFinal(es)
      BY <2>4 DEF LastFinal, FinalStatuses
    <2> QED
      BY <2>3, <2>4, <2>5 DEF es
  <1>5. CASE ~logged_on
    <2>1. es = [i \in 1..(2 * d) |->
                  IF i % 2 = 1 THEN OrderEvent(n + (i + 1) \div 2, 0, "SUBMITTING")
                  ELSE OrderEvent(n + i \div 2, 0, "REJECTED")]
      BY <1>1, <1>5, Zenon DEF SentEvents
    <2> HIDE DEF es
    <2>2. ASSUME NEW i \in 1..(2 * d)
          PROVE  \E k \in 1..d :
                    \/ i = 2 * k - 1 /\ es[i] = OrderEvent(n + k, 0, "SUBMITTING")
                    \/ i = 2 * k /\ es[i] = OrderEvent(n + k, 0, "REJECTED")
      <3>1. CASE i % 2 = 1
        <4> DEFINE k == (i + 1) \div 2
        <4>1. k \in 1..d /\ i = 2 * k - 1
          BY <1>2, <3>1
        <4>2. es[i] = OrderEvent(n + k, 0, "SUBMITTING")
          BY <2>1, <3>1, Zenon
        <4> QED
          BY <4>1, <4>2, Zenon
      <3>2. CASE i % 2 # 1
        <4> DEFINE k == i \div 2
        <4>1. k \in 1..d /\ i = 2 * k
          BY <1>2, <3>2
        <4>2. es[i] = OrderEvent(n + k, 0, "REJECTED")
          BY <2>1, <3>2, Zenon
        <4> QED
          BY <4>1, <4>2, Zenon
      <3> QED
        BY <3>1, <3>2
    <2>3. ASSUME NEW i \in 1..(2 * d)
          PROVE  es[i] \in Event
      <3>1. PICK k \in 1..d : \/ es[i] = OrderEvent(n + k, 0, "SUBMITTING")
                              \/ es[i] = OrderEvent(n + k, 0, "REJECTED")
        BY <2>2, Zenon
      <3>2. k \in Nat /\ "SUBMITTING" \in OrderStatus /\ "REJECTED" \in OrderStatus
        BY <1>2 DEF OrderStatus, ActiveStatuses, FinalStatuses
      <3> QED
        BY <1>3, <3>1, <3>2, Zenon
    <2>4. es \in Seq(Event) /\ Len(es) = 2 * d
      <3> DEFINE l == 2 * d
      <3>1. l \in Nat
        BY <1>2
      <3>2. DOMAIN es = 1..l /\ es = [i \in 1..l |-> es[i]] /\ \A i \in 1..l : es[i] \in Event
        BY <2>1, <2>3, Zenon
      <3> HIDE DEF l
      <3>3. es \in [1..l -> Event]
        BY <3>2
      <3>4. es \in Seq(Event)
        BY <3>1, <3>3, SeqDef
      <3>5. Len(es) = l
        BY <3>1, <3>2, <3>4, LenProperties
      <3> QED
        BY <3>4, <3>5 DEF l
    <2>5. ASSUME NEW i \in 1..Len(es)
          PROVE  \E k \in 1..d : /\ es[i].order = n + k
                                 /\ es[i].traded = 0
                                 /\ \/ i = 2 * k - 1 /\ es[i].status = "SUBMITTING"
                                    \/ i = 2 * k /\ es[i].status = "REJECTED"
      <3>1. PICK k \in 1..d :
                \/ i = 2 * k - 1 /\ es[i] = OrderEvent(n + k, 0, "SUBMITTING")
                \/ i = 2 * k /\ es[i] = OrderEvent(n + k, 0, "REJECTED")
        BY <2>2, <2>4, Zenon
      <3> QED
        BY <3>1 DEF OrderEvent
    <2>6. ASSUME NEW i \in 1..Len(es)
          PROVE  /\ es[i].order \in NewOrders(c)
                 /\ es[i].traded = 0
                 /\ es[i].status \in {"SUBMITTING", "REJECTED"}
      <3>1. PICK k \in 1..d : /\ es[i].order = n + k
                              /\ es[i].traded = 0
                              /\ es[i].status \in {"SUBMITTING", "REJECTED"}
        BY <2>5
      <3> QED
        BY <1>1, <3>1 DEF d
    <2>7. ASSUME NEW i \in 1..Len(es), NEW j \in 1..Len(es), i < j,
                 es[i].order = es[j].order
          PROVE  es[i].status \notin FinalStatuses
      <3>1. PICK k \in 1..d : /\ es[i].order = n + k
                              /\ \/ i = 2 * k - 1 /\ es[i].status = "SUBMITTING"
                                 \/ i = 2 * k
        BY <2>5
      <3>2. PICK l \in 1..d : es[j].order = n + l /\ (j = 2 * l - 1 \/ j = 2 * l)
        BY <2>5
      <3>3. k = l
        <4>1. n + k = n + l
          BY <2>7, <3>1, <3>2, Zenon
        <4>2. k \in Int /\ l \in Int
          BY <1>2
        <4> QED
          BY <4>1, <4>2
      <3> QED
        BY <1>2, <2>7, <3>1, <3>2, <3>3 DEF FinalStatuses
    <2> QED
      BY <1>5, <2>4, <2>6, <2>7 DEF LastFinal, es
  <1> QED
    BY <1>4, <1>5

\* Queues that are linked are linked one after the other, if they share no order.
LEMMA JoinedLinked ==
    ASSUME NEW b, NEW es, NEW fs, NEW w, Linked(b, es, w), Linked(b, fs, w),
           \A i \in 1..Len(es), j \in 1..Len(fs) : es[i].order # fs[j].order
    PROVE  Linked(b, es \o fs, w)
  <1> DEFINE gs == es \o fs
  <1>1. es \in Seq(Event) /\ fs \in Seq(Event) /\ Len(es) \in Nat /\ Len(fs) \in Nat
    BY LenProperties DEF Linked
  <1>2. /\ gs \in Seq(Event)
        /\ Len(gs) = Len(es) + Len(fs)
        /\ \A i \in 1..(Len(es) + Len(fs)) :
              gs[i] = IF i <= Len(es) THEN es[i] ELSE fs[i - Len(es)]
    BY <1>1, ConcatProperties
  <1> HIDE DEF gs
  <1>3. ASSUME NEW i \in 1..Len(gs)
        PROVE  \/ i \in 1..Len(es) /\ gs[i] = es[i]
               \/ /\ i > Len(es)
                  /\ i - Len(es) \in 1..Len(fs)
                  /\ gs[i] = fs[i - Len(es)]
    BY <1>1, <1>2
  <1>4. ASSUME NEW i \in 1..Len(gs)
        PROVE  /\ gs[i].order \in Orders(b)
               /\ EventTrue(b.child[gs[i].order], w[gs[i].order], gs[i])
    BY <1>3 DEF Linked
  <1>5. ASSUME NEW i \in 1..Len(gs), NEW j \in 1..Len(gs), i < j,
               gs[i].order = gs[j].order
        PROVE  gs[i].status \notin FinalStatuses
    <2>1. CASE i \in 1..Len(es) /\ j \in 1..Len(es)
      <3>1. gs[i] = es[i] /\ gs[j] = es[j]
        BY <1>1, <1>3, <2>1
      <3> QED
        BY <1>5, <2>1, <3>1 DEF Linked, LastFinal
    <2>2. CASE i \in 1..Len(es) /\ j \notin 1..Len(es)
      <3>1. gs[i] = es[i] /\ j - Len(es) \in 1..Len(fs) /\ gs[j] = fs[j - Len(es)]
        BY <1>1, <1>3, <2>2
      <3> QED
        BY <1>5, <2>2, <3>1
    <2>3. CASE i \notin 1..Len(es)
      <3> DEFINE k == i - Len(es)
                 l == j - Len(es)
      <3>1. k \in 1..Len(fs) /\ gs[i] = fs[k]
        BY <1>3, <2>3
      <3>2. l \in 1..Len(fs) /\ gs[j] = fs[l]
        BY <1>1, <1>3, <1>5, <2>3
      <3>3. k < l
        BY <1>1, <1>2, <1>5
      <3> HIDE DEF k, l
      <3> QED
        BY <1>5, <3>1, <3>2, <3>3 DEF Linked, LastFinal
    <2> QED
      BY <2>1, <2>2, <2>3
  <1> QED
    BY <1>2, <1>4, <1>5 DEF Linked, LastFinal, gs

\* A method that keeps fills leaves the link, its gateway calls made.
LEMMA CallLinked ==
    ASSUME NEW c, WellFormed(book), WellFormed(c), KeepsFills(book, c),
           Linked(book, events, venue), logged_on \in BOOLEAN
    PROVE  Linked(c, events \o SentEvents(c), Request(c))
  <1> DEFINE es == SentEvents(c)
             w  == Request(c)
  <1>1. PICK n \in Nat : book \in Books(n)
    BY DEF WellFormed
  <1>2. PICK m \in Nat : c \in Books(m)
    BY DEF WellFormed
  <1>3. Orders(book) \subseteq Orders(c)
    BY DEF KeepsFills
  <1>4. /\ es \in Seq(Event)
        /\ \A i \in 1..Len(es) :
              /\ es[i].order \in NewOrders(c)
              /\ es[i].traded = 0
              /\ es[i].status = "SUBMITTING" \/ (~logged_on /\ es[i].status = "REJECTED")
        /\ LastFinal(es)
    BY <1>1, <1>2, <1>3, SentEventsAreTrue
  <1>5. /\ w \in [Orders(c) -> VenueOrder]
        /\ \A o \in Orders(book) : w[o].state = venue[o].state
                                   /\ w[o].executed = venue[o].executed
        /\ \A o \in NewOrders(c) : Fresh(w[o])
    BY <1>3, RequestMoves
  <1> HIDE DEF es, w
  <1>6. ASSUME NEW o \in Orders(book)
        PROVE  /\ o \in Orders(c)
               /\ OrderLinked(c.child[o], w[o])
               /\ \A e \in Event : EventTrue(book.child[o], venue[o], e)
                                     => EventTrue(c.child[o], w[o], e)
    <2>1. /\ o \in Orders(c)
          /\ c.child[o].volume = book.child[o].volume
          /\ c.child[o].traded = book.child[o].traded
          /\ c.child[o].status = book.child[o].status
      BY DEF KeepsFills
    <2>2. w[o].state = venue[o].state /\ w[o].executed = venue[o].executed
      BY <1>5
    <2>3. OrderLinked(book.child[o], venue[o])
      BY DEF Linked
    <2> QED
      BY <2>1, <2>2, <2>3, Zenon DEF OrderLinked, EventTrue
  <1>7. ASSUME NEW o \in NewOrders(c)
        PROVE  /\ o \in Orders(c)
               /\ c.child[o].traded = 0 /\ c.child[o].status = "SUBMITTING"
               /\ c.child[o].volume \in Nat \ {0}
               /\ Fresh(w[o])
               /\ OrderLinked(c.child[o], w[o])
    <2>1. o \in Orders(c) /\ c.child[o].traded = 0 /\ c.child[o].status = "SUBMITTING"
      BY DEF KeepsFills, NewOrders
    <2>2. c.child[o].volume \in Nat \ {0}
      BY <2>1, ChildIsTyped, VolumeAssumption DEF ChildOrder
    <2>3. Fresh(w[o])
      BY <1>5
    <2> QED
      BY <2>1, <2>2, <2>3 DEF OrderLinked, Fresh, FinalStatuses
  <1>8. Linked(c, events, w)
    <2>1. \A o \in Orders(c) : OrderLinked(c.child[o], w[o])
      BY <1>6, <1>7 DEF NewOrders
    <2>2. ASSUME NEW i \in 1..Len(events)
          PROVE  /\ events[i].order \in Orders(c)
                 /\ EventTrue(c.child[events[i].order], w[events[i].order], events[i])
      <3>1. events[i] \in Event
        BY ElementOfSeq DEF Linked
      <3>2. events[i].order \in Orders(book)
            /\ EventTrue(book.child[events[i].order], venue[events[i].order], events[i])
        BY DEF Linked
      <3> QED
        BY <1>6, <3>1, <3>2
    <2> QED
      BY <1>5, <2>1, <2>2 DEF Linked
  <1>9. Linked(c, es, w)
    <2>1. ASSUME NEW i \in 1..Len(es)
          PROVE  /\ es[i].order \in Orders(c)
                 /\ EventTrue(c.child[es[i].order], w[es[i].order], es[i])
      <3> DEFINE o == es[i].order
                 e == es[i]
      <3>1. /\ o \in NewOrders(c) /\ e.traded = 0
            /\ e.status = "SUBMITTING" \/ (~logged_on /\ e.status = "REJECTED")
        BY <1>4
      <3> HIDE DEF o, e
      <3>2. /\ o \in Orders(c) /\ c.child[o].status = "SUBMITTING"
            /\ c.child[o].volume # 0
            /\ Fresh(w[o])
        BY <1>7, <3>1
      <3>3. EventTrue(c.child[o], w[o], e)
        BY <3>1, <3>2 DEF EventTrue, Fresh, FinalStatuses
      <3> QED
        BY <3>2, <3>3 DEF o, e
    <2> QED
      BY <1>4, <1>8, <2>1 DEF Linked
  <1>10. \A i \in 1..Len(events), j \in 1..Len(es) : events[i].order # es[j].order
    BY <1>4 DEF Linked, NewOrders
  <1>11. Linked(c, events \o es, w)
    BY <1>8, <1>9, <1>10, JoinedLinked
  <1> QED
    BY <1>11 DEF es, w

-----------------------------------------------------------------------------
(***************************************************************************)
(* The handling of an order event.                                         *)
(***************************************************************************)

\* What a report leaves of the child orders.
LEMMA ReportedChildren ==
    ASSUME NEW b, Sound(b), NEW o \in Orders(b),
           NEW traded \in 0..TrancheVolume, NEW status \in OrderStatus,
           Reportable(b, o, traded, status)
    PROVE  LET c == OrderProcessed(b, o, traded, status)
           IN  /\ Sound(c)
               /\ Orders(c) = Orders(b)
               /\ \A p \in Orders(b) : c.child[p].tranche = b.child[p].tranche
                                       /\ c.child[p].volume = b.child[p].volume
               /\ \A p \in Orders(b) \ {o} : c.child[p].traded = b.child[p].traded
                                             /\ c.child[p].status = b.child[p].status
               /\ c.child[o].traded = Greatest(traded, b.child[o].traded)
               /\ c.child[o].status = IF Accepts(b, o, status) THEN status
                                      ELSE b.child[o].status
  <1> DEFINE r == Recorded(b, o, traded, status)
             c == OrderProcessed(b, o, traded, status)
             t == b.child[o].tranche
  <1>1. /\ Orders(r) = Orders(b)
        /\ \A p \in Orders(b) \ {o} : r.child[p] = b.child[p]
        /\ r.child[o].tranche = b.child[o].tranche
        /\ r.child[o].volume = b.child[o].volume
        /\ r.child[o].traded = Greatest(traded, b.child[o].traded)
        /\ r.child[o].status = IF Accepts(b, o, status) THEN status
                               ELSE b.child[o].status
    BY RecordedChild DEF Sound
  <1>2. Sound(r) /\ Sound(c) /\ Orders(c) = Orders(b)
    BY RecordedSound, OrderProcessedSound
  <1>3. t \in Tranches
    BY ChildIsTyped DEF ChildOrder, Sound
  <1>4. KeepsFills(r, c)
    <2>1. c = Paused(r) \/ c = Settled(r, t)
      BY Zenon DEF OrderProcessed
    <2> QED
      BY <1>2, <1>3, <2>1, PausedKeeps, SettledKeeps DEF Keeps
  <1> HIDE DEF r, c, t
  <1>5. \A p \in Orders(b) : /\ c.child[p].tranche = r.child[p].tranche
                             /\ c.child[p].volume = r.child[p].volume
                             /\ c.child[p].traded = r.child[p].traded
                             /\ c.child[p].status = r.child[p].status
    BY <1>1, <1>4 DEF KeepsFills
  <1>6. \A p \in Orders(b) : p = o \/ p \in Orders(b) \ {o}
    OBVIOUS
  <1> QED
    BY <1>1, <1>2, <1>5, <1>6 DEF c

\* A queued event is a report that the coordinator expects.
LEMMA EventIsReportable ==
    ASSUME NEW b, WellFormed(b), NEW es, NEW v, Linked(b, es, v), NEW i \in 1..Len(es)
    PROVE  /\ es[i].order \in Orders(b)
           /\ es[i].traded \in 0..TrancheVolume
           /\ es[i].status \in OrderStatus
           /\ Reportable(b, es[i].order, es[i].traded, es[i].status)
           /\ Accepts(b, es[i].order, es[i].status)
  <1> DEFINE e == es[i]
             o == e.order
  <1>1. e \in Event
    BY ElementOfSeq DEF Linked
  <1>2. o \in Orders(b) /\ EventTrue(b.child[o], v[o], e) /\ OrderLinked(b.child[o], v[o])
    BY DEF Linked
  <1>3. b.child[o] \in ChildOrder /\ v[o] \in VenueOrder
    BY <1>2, ChildIsTyped DEF Linked
  <1> HIDE DEF e, o
  <1>4. e.traded <= b.child[o].volume
    BY <1>1, <1>2, <1>3 DEF EventTrue, OrderLinked, Event, ChildOrder, VenueOrder
  <1>5. e.status = "ALLTRADED" => e.traded = b.child[o].volume
    BY <1>2 DEF EventTrue, FinalStatuses
  <1>6. b.child[o].status \notin FinalStatuses
    BY <1>2 DEF EventTrue
  <1> USE DEF e, o
  <1>7. e.traded \in 0..TrancheVolume /\ e.status \in OrderStatus
    BY <1>1 DEF Event
  <1> QED
    BY <1>2, <1>4, <1>5, <1>6, <1>7 DEF Reportable, Accepts

\* The book after the report is linked to the events that are left.
LEMMA HandledLinked ==
    ASSUME NEW b, Sound(b), NEW es, NEW v, Linked(b, es, v), es # <<>>
    PROVE  LET e == Head(es)
               c == OrderProcessed(b, e.order, e.traded, e.status)
           IN  Linked(c, Tail(es), v)
  <1> DEFINE e == Head(es)
             o == e.order
             c == OrderProcessed(b, e.order, e.traded, e.status)
             fs == Tail(es)
  <1>1. es \in Seq(Event) /\ Len(es) \in Nat /\ 1 \in 1..Len(es) /\ e = es[1]
    <2>1. es \in Seq(Event) /\ Len(es) \in Nat
      BY LenProperties DEF Linked
    <2>2. Len(es) \in Nat \ {0}
      BY <2>1, EmptySeq
    <2> QED
      BY <2>1, <2>2
  <1>2. /\ fs \in Seq(Event)
        /\ Len(fs) = Len(es) - 1
        /\ \A i \in 1..Len(fs) : fs[i] = es[i + 1]
    BY <1>1, HeadTailProperties
  <1>3. /\ o \in Orders(b)
        /\ e.traded \in 0..TrancheVolume
        /\ e.status \in OrderStatus
        /\ Reportable(b, o, e.traded, e.status)
        /\ Accepts(b, o, e.status)
    BY <1>1, EventIsReportable DEF Sound
  <1>4. /\ Sound(c)
        /\ Orders(c) = Orders(b)
        /\ \A p \in Orders(b) : c.child[p].volume = b.child[p].volume
        /\ \A p \in Orders(b) \ {o} : c.child[p].traded = b.child[p].traded
                                      /\ c.child[p].status = b.child[p].status
        /\ c.child[o].traded = Greatest(e.traded, b.child[o].traded)
        /\ c.child[o].status = e.status
    <2>1. /\ Sound(c)
          /\ Orders(c) = Orders(b)
          /\ \A p \in Orders(b) : c.child[p].tranche = b.child[p].tranche
                                  /\ c.child[p].volume = b.child[p].volume
          /\ \A p \in Orders(b) \ {o} : c.child[p].traded = b.child[p].traded
                                        /\ c.child[p].status = b.child[p].status
          /\ c.child[o].traded = Greatest(e.traded, b.child[o].traded)
          /\ c.child[o].status = IF Accepts(b, o, e.status) THEN e.status
                                 ELSE b.child[o].status
      BY <1>3, ReportedChildren
    <2> HIDE DEF c, o, e
    <2> QED
      BY <1>3, <2>1
  <1>5. EventTrue(b.child[o], v[o], e) /\ OrderLinked(b.child[o], v[o])
    BY <1>1, <1>3 DEF Linked
  <1>6. e.traded \in Nat /\ b.child[o].traded \in Nat /\ v[o].executed \in Nat
    BY <1>3, ChildIsTyped, VolumeAssumption DEF Sound, ChildOrder, Linked, VenueOrder
  <1>7. ASSUME NEW i \in 1..Len(fs)
        PROVE  /\ i + 1 \in 1..Len(es)
               /\ fs[i] = es[i + 1]
               /\ fs[i].order \in Orders(b)
               /\ EventTrue(b.child[fs[i].order], v[fs[i].order], fs[i])
    <2>1. i + 1 \in 1..Len(es) /\ fs[i] = es[i + 1]
      BY <1>1, <1>2
    <2> QED
      BY <2>1 DEF Linked
  <1>8. ASSUME NEW i \in 1..Len(fs), fs[i].order = o
        PROVE  e.status \notin FinalStatuses
    <2>1. i + 1 \in 1..Len(es) /\ fs[i] = es[i + 1] /\ 1 < i + 1
      BY <1>7
    <2> QED
      BY <1>1, <1>8, <2>1 DEF Linked, LastFinal
  <1> HIDE DEF c, e, o, fs
  <1>9. ASSUME NEW p \in Orders(b)
        PROVE  OrderLinked(c.child[p], v[p])
    <2>1. CASE p # o
      BY <1>4, <2>1, Zenon DEF Linked, OrderLinked
    <2>2. CASE p = o
      BY <1>4, <1>5, <1>6, <2>2 DEF EventTrue, OrderLinked, Greatest
    <2> QED
      BY <2>1, <2>2
  <1>10. ASSUME NEW i \in 1..Len(fs)
         PROVE  fs[i].order \in Orders(c)
                /\ EventTrue(c.child[fs[i].order], v[fs[i].order], fs[i])
    <2> DEFINE p == fs[i].order
    <2>1. p \in Orders(b) /\ EventTrue(b.child[p], v[p], fs[i])
      BY <1>7
    <2>2. c.child[p].volume = b.child[p].volume
      BY <1>4, <2>1
    <2>3. c.child[p].status \notin FinalStatuses
      <3>1. CASE p # o
        BY <1>4, <2>1, <3>1 DEF EventTrue
      <3>2. CASE p = o
        BY <1>4, <1>8, <3>2
      <3> QED
        BY <3>1, <3>2
    <2> QED
      BY <1>4, <2>1, <2>2, <2>3 DEF EventTrue
  <1>11. LastFinal(fs)
    <2> SUFFICES ASSUME NEW i \in 1..Len(fs), NEW j \in 1..Len(fs), i < j,
                        fs[i].order = fs[j].order
                 PROVE  fs[i].status \notin FinalStatuses
      BY DEF LastFinal
    <2>1. /\ i + 1 \in 1..Len(es) /\ fs[i] = es[i + 1]
          /\ j + 1 \in 1..Len(es) /\ fs[j] = es[j + 1]
          /\ i + 1 < j + 1
      BY <1>7
    <2> QED
      BY <2>1 DEF Linked, LastFinal
  <1>12. Linked(c, fs, v)
    BY <1>2, <1>4, <1>9, <1>10, <1>11 DEF Linked
  <1> QED
    BY <1>12 DEF c, e, o, fs

-----------------------------------------------------------------------------
(***************************************************************************)
(* The inductive invariant.  The hard limits of the book make a method's   *)
(* orders well formed, the link makes the queued events reports that the   *)
(* coordinator expects, and a handler between two steps is at a tranche.   *)
(***************************************************************************)
Thread ==
    [at : {"idle", "schedule", "activate", "sweep", "scan", "operate", "record", "followup"},
     k : Tranches \cup {NoTranche},
     job : {"none", "reconcile", "continue", "close", "decide"},
     source : {"none", "timer", "order"},
     due : SUBSET Tranches]

Clockwork == [started : 0..Duration \cup {NotStarted}, decisions : 0..Decisions]

Usage ==
    [outages : 0..MaxOutages, calls : 0..MaxUserCalls, moves : 0..MaxMoves,
     surprises : 0..MaxSurprises]

Typed ==
    /\ timing \in [Tranches -> Clockwork]
    /\ now \in 0..Duration
    /\ market \in [bid : Bids, fit : BOOLEAN]
    /\ thread \in Thread
    /\ logged_on \in BOOLEAN
    /\ used \in Usage

AtTranche ==
    thread.at \in {"sweep", "scan", "operate", "record", "followup"} => thread.k \in Tranches

MayDecide ==
    (thread.at = "operate" /\ thread.job = "decide") \/ thread.at = "record" =>
        timing[thread.k].decisions < Decisions

SystemInv ==
    /\ IInv
    /\ Typed
    /\ AtTranche
    /\ MayDecide
    /\ Linked(book, events, venue)

-----------------------------------------------------------------------------
(***************************************************************************)
(* Every step is a step of the coordinator.                                *)
(***************************************************************************)

\* What a step of a handler does to the book.
LEMMA EventThreadMovesBook ==
    ASSUME SystemInv, EventThread
    PROVE  Next \/ book' = book
  <1>1. market.bid \in Bids
    BY DEF SystemInv, Typed
  <1>2. CASE TimerEvent
    BY <1>2 DEF TimerEvent, Call, Becomes, PauseParent, Next
  <1>3. ASSUME NEW t \in Tranches, t \in Waiting(book), Starts(t)
        PROVE  Next
    BY <1>3 DEF Starts, Waiting, Activate, Next
  <1>4. CASE FindDue \/ ScanTranche \/ FollowUp
    BY <1>4 DEF FindDue, ScanTranche, FollowUp
  <1>5. CASE ActivateDue
    <2>1. PICK t \in thread.due : IF t \in Waiting(book) THEN Starts(t) ELSE Call(Paused(book))
      BY <1>5 DEF ActivateDue
    <2>2. t \in Tranches
      BY <2>1 DEF SystemInv, Typed, Thread
    <2> QED
      BY <1>3, <2>1, <2>2 DEF Call, Becomes, PauseParent, Next
  <1>6. CASE SweepTranche
    BY <1>3, <1>6 DEF SweepTranche, SystemInv, AtTranche
  <1>7. CASE Operate
    <2>1. thread.k \in Tranches
      BY <1>7 DEF Operate, SystemInv, AtTranche
    <2>2. \/ Call(PendingReconciled(book, thread.k, market.bid))
          \/ Call(CloseContinued(book, thread.k, market.bid))
          \/ Call(CloseBegun(book, thread.k, market.bid))
          \/ \E intent \in Intents : Call(IntentApplied(book, thread.k, intent, market.bid))
      BY <1>7, Zenon DEF Operate
    <2>3. \/ ReconcilePending(thread.k, market.bid)
          \/ ContinueTrancheClose(thread.k, market.bid)
          \/ BeginTrancheClose(thread.k, market.bid)
          \/ \E intent \in Intents : ApplyIntent(thread.k, intent, market.bid)
      BY <2>2, Zenon DEF Call, ReconcilePending, ContinueTrancheClose, BeginTrancheClose,
                         ApplyIntent
    <2> QED
      BY <1>1, <2>1, <2>3, Zenon DEF Next
  <1>8. CASE WindowLost \/ RecordDecision
    BY <1>8 DEF WindowLost, RecordDecision, Call, Becomes, PauseParent, Next
  <1>9. CASE OrderEventHandled
    <2> DEFINE e == Head(events)
    <2>1. events \in Seq(Event) /\ events # <<>>
      BY <1>9 DEF OrderEventHandled, SystemInv, Linked
    <2>2. 1 \in 1..Len(events) /\ e = events[1]
      BY <2>1, EmptySeq
    <2>3. WellFormed(book) /\ Linked(book, events, venue)
      BY DEF SystemInv, IInv, Sound
    <2>4. /\ e.order \in Orders(book)
          /\ e.traded \in 0..TrancheVolume
          /\ e.status \in Reports
          /\ Reportable(book, e.order, e.traded, e.status)
      BY <2>2, <2>3, EventIsReportable, EveryReport
    <2>5. book' = OrderProcessed(book, e.order, e.traded, e.status)
      BY <1>9 DEF OrderEventHandled
    <2>6. ProcessOrder(e.order, e.traded, e.status)
      BY <2>4, <2>5 DEF ProcessOrder
    <2> QED
      BY <2>4, <2>6, Zenon DEF Next
  <1> QED
    BY <1>2, <1>4, <1>5, <1>6, <1>7, <1>8, <1>9 DEF EventThread

LEMMA StepMovesBook ==
    ASSUME SystemInv, SystemNext
    PROVE  Next \/ book' = book
  <1>1. CASE EventThread
    BY <1>1, EventThreadMovesBook
  <1>2. CASE User
    BY <1>2 DEF User, UserPause, UserResume, UserCancel, Call, Becomes, PauseParent,
                ResumeParent, CancelParent, Next
  <1>3. CASE Tock \/ MarketMoves \/ Venue \/ Outage \/ Logon
    BY <1>3 DEF Tock, MarketMoves, Venue, Outage, Logon
  <1> QED
    BY <1>1, <1>2, <1>3 DEF SystemNext

-----------------------------------------------------------------------------
(***************************************************************************)
(* The link is kept.                                                       *)
(***************************************************************************)

LEMMA CallKeepsLink ==
    ASSUME SystemInv, NEW c, Sound(c), KeepsFills(book, c), Call(c)
    PROVE  Linked(book', events', venue')
  <1>1. /\ book' = c
        /\ events' = events \o SentEvents(c)
        /\ venue' = Request(c)
    BY DEF Call, Becomes
  <1>2. Linked(c, events \o SentEvents(c), Request(c))
    BY CallLinked DEF SystemInv, IInv, Sound, Typed
  <1> QED
    BY <1>1, <1>2

\* The book is started, nothing is said to the gateway.
LEMMA StartKeepsLink ==
    ASSUME SystemInv, NEW t \in Tranches, Starts(t), UNCHANGED <<events, venue>>
    PROVE  Linked(book', events', venue')
  <1>1. book'.child = book.child
    BY DEF Starts, SystemInv, IInv, Sound, WellFormed, Books
  <1> QED
    BY <1>1 DEF SystemInv, Linked, Orders

LEMMA EventThreadKeepsLink ==
    ASSUME SystemInv, EventThread
    PROVE  Linked(book', events', venue')
  <1>1. Sound(book) /\ market.bid \in Bids
    BY DEF SystemInv, IInv, Typed
  <1>2. ASSUME UNCHANGED <<book, events, venue>>
        PROVE  Linked(book', events', venue')
    BY <1>2 DEF SystemInv
  <1>3. ASSUME Call(Paused(book))
        PROVE  Linked(book', events', venue')
    BY <1>1, <1>3, MethodsKeepFills, CallKeepsLink
  <1>4. CASE TimerEvent
    BY <1>2, <1>3, <1>4 DEF TimerEvent
  <1>5. CASE FindDue \/ ScanTranche \/ FollowUp
    BY <1>2, <1>5 DEF FindDue, ScanTranche, FollowUp
  <1>6. CASE ActivateDue
    <2>1. PICK t \in thread.due :
              IF t \in Waiting(book) THEN Starts(t) /\ UNCHANGED <<events, venue>>
              ELSE Call(Paused(book))
      BY <1>6 DEF ActivateDue
    <2>2. t \in Tranches
      BY <2>1 DEF SystemInv, Typed, Thread
    <2> QED
      BY <1>3, <2>1, <2>2, StartKeepsLink
  <1>7. CASE SweepTranche
    BY <1>2, <1>7, StartKeepsLink DEF SweepTranche, SystemInv, AtTranche
  <1>8. CASE Operate
    <2>1. thread.k \in Tranches
      BY <1>8 DEF Operate, SystemInv, AtTranche
    <2>2. \/ Call(PendingReconciled(book, thread.k, market.bid))
          \/ Call(CloseContinued(book, thread.k, market.bid))
          \/ Call(CloseBegun(book, thread.k, market.bid))
          \/ \E intent \in Intents : Call(IntentApplied(book, thread.k, intent, market.bid))
      BY <1>8, Zenon DEF Operate
    <2> QED
      BY <1>1, <2>1, <2>2, MethodsKeepFills, CallKeepsLink
  <1>9. CASE WindowLost \/ RecordDecision
    BY <1>2, <1>3, <1>9 DEF WindowLost, RecordDecision
  <1>10. CASE OrderEventHandled
    <2> DEFINE e == Head(events)
               c == OrderProcessed(book, e.order, e.traded, e.status)
    <2>1. /\ events # <<>>
          /\ book' = c
          /\ venue' = Request(c)
          /\ events' = Tail(events)
      BY <1>10 DEF OrderEventHandled
    <2>2. Linked(c, Tail(events), venue)
      BY <1>1, <2>1, HandledLinked DEF SystemInv
    <2>3. Sound(c) /\ Orders(c) = Orders(book)
      <3>1. events \in Seq(Event)
        BY DEF SystemInv, Linked
      <3>2. 1 \in 1..Len(events) /\ e = events[1]
        BY <2>1, <3>1, EmptySeq
      <3> QED
        BY <1>1, <3>2, EventIsReportable, ReportedChildren DEF SystemInv, Sound
    <2> HIDE DEF c
    <2>4. Request(c) \in [Orders(c) -> VenueOrder]
          /\ \A o \in Orders(book) : Request(c)[o].state = venue[o].state
                                     /\ Request(c)[o].executed = venue[o].executed
      BY <1>1, <2>3, RequestMoves DEF SystemInv, Sound, Typed
    <2>5. ASSUME NEW o \in Orders(c)
          PROVE  Moved(c.child[o], venue[o], Request(c)[o])
      <3>1. /\ Request(c)[o].state = venue[o].state
            /\ Request(c)[o].executed = venue[o].executed
            /\ venue[o].executed \in Nat
        BY <2>2, <2>3, <2>4, VolumeAssumption DEF Linked, VenueOrder
      <3>2. OrderLinked(c.child[o], venue[o])
        BY <2>2 DEF Linked
      <3> QED
        BY <3>1, <3>2 DEF Moved, OrderLinked
    <2>6. Linked(c, Tail(events), Request(c))
      BY <2>2, <2>3, <2>4, <2>5, MovedOrdersLinked DEF Sound
    <2> QED
      BY <2>1, <2>6
  <1> QED
    BY <1>4, <1>5, <1>6, <1>7, <1>8, <1>9, <1>10 DEF EventThread

(***************************************************************************)
(* The venue changes one order and reports it, or the report is lost.      *)
(***************************************************************************)
LEMMA ReportKeepsLink ==
    ASSUME SystemInv, NEW o \in Orders(book), venue[o].state # "gone",
           NEW status \in OrderStatus, Reported(o, status),
           UNCHANGED book,
           venue' \in [Orders(book) -> VenueOrder],
           \A p \in Orders(book) \ {o} : venue'[p] = venue[p],
           Moved(book.child[o], venue[o], venue'[o]),
           status \in FinalStatuses =>
              /\ venue'[o].state = "gone"
              /\ status = "ALLTRADED" <=> venue'[o].executed = book.child[o].volume
    PROVE  Linked(book', events', venue')
  <1> DEFINE w == venue'
             e == OrderEvent(o, w[o].executed, status)
  <1>1. Linked(book, events, venue) /\ WellFormed(book)
    BY DEF SystemInv, IInv, Sound
  <1>2. ASSUME NEW p \in Orders(book)
        PROVE  Moved(book.child[p], venue[p], w[p])
    <2>1. CASE p = o
      BY <2>1
    <2>2. CASE p # o
      <3>1. w[p] = venue[p] /\ OrderLinked(book.child[p], venue[p]) /\ venue[p] \in VenueOrder
        BY <1>1, <2>2 DEF Linked
      <3>2. venue[p].executed \in Nat
        BY <3>1, VolumeAssumption DEF VenueOrder
      <3> QED
        BY <3>1, <3>2 DEF Moved, OrderLinked
    <2> QED
      BY <2>1, <2>2
  <1>3. Linked(book, events, w)
    BY <1>1, <1>2, MovedOrdersLinked
  <1>4. w[o] \in VenueOrder
    OBVIOUS
  <1>5. /\ e \in Event /\ e.order = o /\ e.traded = w[o].executed /\ e.status = status
    <2>1. o \in Nat
      BY <1>1, OrdersAreNumbered DEF WellFormed
    <2> QED
      BY <1>4, <2>1 DEF OrderEvent, Event, VenueOrder
  <1> HIDE DEF e
  <1>6. EventTrue(book.child[o], w[o], e)
    <2>1. book.child[o].status \notin FinalStatuses
      BY <1>1 DEF Linked, OrderLinked
    <2>2. w[o].executed \in Nat
      BY <1>4, VolumeAssumption DEF VenueOrder
    <2> QED
      BY <1>5, <2>1, <2>2 DEF EventTrue
  <1>7. Linked(book, Append(events, e), w)
    BY <1>1, <1>3, <1>5, <1>6, ReportLinked
  <1>8. events' = Append(events, e) \/ events' = events
    BY DEF Reported, e
  <1> QED
    BY <1>3, <1>7, <1>8

LEMMA VenueKeepsLink ==
    ASSUME SystemInv, Venue
    PROVE  Linked(book', events', venue')
  <1>1. /\ venue \in [Orders(book) -> VenueOrder]
        /\ \A o \in Orders(book) : OrderLinked(book.child[o], venue[o])
        /\ UNCHANGED book
    BY DEF SystemInv, Linked, Venue
  <1>2. ASSUME NEW o \in AtVenue("sent") \cup AtVenue("working")
        PROVE  /\ o \in Orders(book) /\ venue[o].state # "gone"
               /\ venue[o] \in VenueOrder /\ venue[o].executed \in Nat
               /\ book.child[o] \in ChildOrder /\ book.child[o].volume \in Nat
               /\ venue[o].executed < book.child[o].volume
    <2>1. o \in Orders(book) /\ venue[o].state # "gone"
      BY <1>1 DEF AtVenue
    <2>2. venue[o] \in VenueOrder /\ venue[o].executed \in Nat
      BY <1>1, <2>1, VolumeAssumption DEF VenueOrder
    <2>3. book.child[o] \in ChildOrder
      BY <2>1, ChildIsTyped DEF SystemInv, IInv, Sound
    <2>4. venue[o].executed < book.child[o].volume
      BY <1>1, <2>1 DEF OrderLinked
    <2> QED
      BY <2>1, <2>2, <2>3, <2>4, VolumeAssumption DEF ChildOrder
  <1>3. ASSUME NEW o \in AtVenue("sent") \cup AtVenue("working"), NEW x \in VenueOrder,
               NEW status \in OrderStatus, Reported(o, status),
               venue' = [venue EXCEPT ![o] = x],
               Moved(book.child[o], venue[o], x),
               status \in FinalStatuses =>
                  /\ x.state = "gone"
                  /\ status = "ALLTRADED" <=> x.executed = book.child[o].volume
        PROVE  Linked(book', events', venue')
    <2>1. o \in Orders(book) /\ venue[o].state # "gone"
      BY <1>2
    <2>2. /\ venue' \in [Orders(book) -> VenueOrder]
          /\ \A p \in Orders(book) \ {o} : venue'[p] = venue[p]
          /\ venue'[o] = x
      BY <1>1, <1>3, <2>1
    <2> QED
      BY <1>1, <1>3, <2>1, <2>2, ReportKeepsLink
  <1>4. "NOTTRADED" \in OrderStatus /\ "PARTTRADED" \in OrderStatus /\ "ALLTRADED" \in OrderStatus
        /\ "CANCELLED" \in OrderStatus /\ "REJECTED" \in OrderStatus
    BY DEF OrderStatus, ActiveStatuses, FinalStatuses
  <1>5. ASSUME NEW o \in AtVenue("sent"), VenueAccept(o)
        PROVE  Linked(book', events', venue')
    <2> DEFINE x == [venue[o] EXCEPT !.state = "working"]
    <2>1. x \in VenueOrder /\ x.state = "working" /\ x.executed = venue[o].executed
      BY <1>2 DEF VenueOrder
    <2>2. venue' = [venue EXCEPT ![o] = x] /\ Reported(o, "NOTTRADED")
      BY <1>5 DEF VenueAccept
    <2>3. Moved(book.child[o], venue[o], x)
      BY <1>2, <2>1 DEF Moved
    <2> QED
      BY <1>3, <1>4, <2>1, <2>2, <2>3 DEF FinalStatuses
  <1>6. ASSUME NEW o \in AtVenue("sent"), VenueReject(o)
        PROVE  Linked(book', events', venue')
    <2> DEFINE x == [venue[o] EXCEPT !.state = "gone"]
    <2>1. x \in VenueOrder /\ x.state = "gone" /\ x.executed = venue[o].executed
      BY <1>2 DEF VenueOrder
    <2>2. venue' = [venue EXCEPT ![o] = x] /\ Reported(o, "REJECTED")
      BY <1>6 DEF VenueReject
    <2>3. Moved(book.child[o], venue[o], x) /\ x.executed # book.child[o].volume
      BY <1>2, <2>1 DEF Moved
    <2> QED
      BY <1>3, <1>4, <2>1, <2>2, <2>3
  <1>7. ASSUME NEW o \in AtVenue("working"), NEW quantity \in 1..TrancheVolume,
               VenueFill(o, quantity)
        PROVE  Linked(book', events', venue')
    <2> DEFINE executed == venue[o].executed + quantity
               all == executed = book.child[o].volume
               x == [venue[o] EXCEPT !.executed = executed,
                                     !.state = IF all THEN "gone" ELSE @]
    <2>1. executed <= book.child[o].volume
          /\ venue' = [venue EXCEPT ![o] = x]
          /\ Reported(o, IF all THEN "ALLTRADED" ELSE "PARTTRADED")
      BY <1>7, Zenon DEF VenueFill
    <2>2. executed \in 0..TrancheVolume /\ executed > venue[o].executed
      BY <1>2, <2>1, VolumeAssumption DEF ChildOrder
    <2> HIDE DEF executed
    <2>3. x \in VenueOrder /\ x.executed = executed
          /\ (all => x.state = "gone") /\ (~all => x.state = venue[o].state)
      BY <1>2, <2>2 DEF VenueOrder
    <2>4. Moved(book.child[o], venue[o], x)
      BY <1>2, <2>1, <2>2, <2>3 DEF Moved
    <2> HIDE DEF x
    <2>5. CASE all
      BY <1>3, <1>4, <2>1, <2>3, <2>4, <2>5
    <2>6. CASE ~all
      BY <1>3, <1>4, <2>1, <2>3, <2>4, <2>6 DEF FinalStatuses
    <2> QED
      BY <2>5, <2>6
  <1>8. ASSUME NEW o \in AtVenue("working"), VenueCancel(o) \/ VenueCancelsItself(o)
        PROVE  Linked(book', events', venue')
    <2> DEFINE x == [venue[o] EXCEPT !.state = "gone", !.cancelling = FALSE]
    <2>1. x \in VenueOrder /\ x.state = "gone" /\ x.executed = venue[o].executed
      BY <1>2 DEF VenueOrder
    <2>2. venue' = [venue EXCEPT ![o] = x] /\ Reported(o, "CANCELLED")
      BY <1>8, Zenon DEF VenueCancel, VenueCancelsItself
    <2>3. Moved(book.child[o], venue[o], x) /\ x.executed # book.child[o].volume
      BY <1>2, <2>1 DEF Moved
    <2> QED
      BY <1>3, <1>4, <2>1, <2>2, <2>3
  <1> QED
    BY <1>5, <1>6, <1>7, <1>8, Zenon DEF Venue

LEMMA OutageKeepsLink ==
    ASSUME SystemInv, Outage
    PROVE  Linked(book', events', venue')
  <1>1. /\ Linked(book, events, venue)
        /\ venue \in [Orders(book) -> VenueOrder]
        /\ WellFormed(book)
        /\ UNCHANGED <<book, events>>
    BY DEF SystemInv, Linked, IInv, Sound, Outage
  <1>2. /\ DOMAIN venue' = Orders(book)
        /\ \A o \in Orders(book) :
              /\ venue'[o].executed = venue[o].executed
              /\ venue[o].state = "gone" => venue'[o].state = "gone"
              /\ venue'[o] \in VenueOrder
    <2>1. PICK arrived \in SUBSET AtVenue("sent"),
               cancelled \in SUBSET {o \in DOMAIN venue : venue[o].cancelling} :
             venue' = [o \in DOMAIN venue |->
                [venue[o] EXCEPT
                   !.cancelling = FALSE,
                   !.state = IF \/ o \in cancelled
                                \/ @ = "sent" /\ o \notin arrived THEN "gone"
                             ELSE IF @ = "sent" THEN "working" ELSE @]]
      BY Zenon DEF Outage
    <2>2. ASSUME NEW o \in Orders(book)
          PROVE  /\ venue'[o].executed = venue[o].executed
                 /\ venue[o].state = "gone" => venue'[o].state = "gone"
                 /\ venue'[o] \in VenueOrder
      <3>1. venue[o] \in VenueOrder /\ o \in DOMAIN venue
        BY <1>1
      <3> DEFINE state == IF \/ o \in cancelled
                             \/ venue[o].state = "sent" /\ o \notin arrived THEN "gone"
                          ELSE IF venue[o].state = "sent" THEN "working" ELSE venue[o].state
      <3>2. venue'[o] = [venue[o] EXCEPT !.cancelling = FALSE, !.state = state]
        BY <2>1, <3>1
      <3>3. state \in {"sent", "working", "gone"}
            /\ (venue[o].state = "gone" => state = "gone")
        BY <3>1 DEF VenueOrder
      <3> HIDE DEF state
      <3> QED
        BY <3>1, <3>2, <3>3 DEF VenueOrder
    <2> QED
      BY <1>1, <2>1, <2>2
  <1>3. venue' \in [Orders(book) -> VenueOrder]
    <2>1. venue' = [o \in Orders(book) |-> venue'[o]]
      BY <1>1, Zenon DEF Outage
    <2> QED
      BY <1>2, <2>1
  <1>4. ASSUME NEW o \in Orders(book)
        PROVE  Moved(book.child[o], venue[o], venue'[o])
    <2>1. /\ OrderLinked(book.child[o], venue[o])
          /\ venue[o] \in VenueOrder
          /\ venue'[o].executed = venue[o].executed
          /\ venue[o].state = "gone" => venue'[o].state = "gone"
      BY <1>1, <1>2 DEF Linked
    <2>2. venue[o].executed \in Nat
      BY <2>1, VolumeAssumption DEF VenueOrder
    <2> QED
      BY <2>1, <2>2 DEF Moved, OrderLinked
  <1> DEFINE w == venue'
  <1>5. Linked(book, events, w)
    BY <1>1, <1>3, <1>4, MovedOrdersLinked
  <1> QED
    BY <1>1, <1>5

LEMMA StepKeepsLink ==
    ASSUME SystemInv, SystemNext
    PROVE  Linked(book', events', venue')
  <1>1. CASE EventThread
    BY <1>1, EventThreadKeepsLink
  <1>2. CASE User
    <2>1. Call(Paused(book)) \/ Call(Resumed(book)) \/ Call(Cancelled(book))
      BY <1>2 DEF User, UserPause, UserResume, UserCancel
    <2> QED
      BY <2>1, MethodsKeepFills, CallKeepsLink DEF SystemInv, IInv
  <1>3. CASE Tock \/ MarketMoves \/ Logon
    BY <1>3 DEF Tock, MarketMoves, Logon, SystemInv
  <1>4. CASE Venue
    BY <1>4, VenueKeepsLink
  <1>5. CASE Outage
    BY <1>5, OutageKeepsLink
  <1> QED
    BY <1>1, <1>2, <1>3, <1>4, <1>5 DEF SystemNext

-----------------------------------------------------------------------------
(***************************************************************************)
(* Types, and where a handler is.                                          *)
(***************************************************************************)

\* A thread at t can go on.
ThreadFine(t, times) ==
    /\ t \in Thread
    /\ t.at \in {"sweep", "scan", "operate", "record", "followup"} => t.k \in Tranches
    /\ (t.at = "operate" /\ t.job = "decide") \/ t.at = "record" =>
          times[t.k].decisions < Decisions

LEMMA IdleIsFine ==
    ASSUME NEW times
    PROVE  ThreadFine(Idle, times)
  BY DEF ThreadFine, Idle, Thread, NoTranche

LEMMA FirstTranche == 1 \in Tranches
  <1>1. Cardinality(Tranches) \in Nat /\ Cardinality(Tranches) # 0
    BY TranchesAreNumbered, FS_CardinalityType, FS_EmptySet
  <1> QED
    BY <1>1, TranchesAreNumbered

LEMMA ActivatingIsFine ==
    ASSUME SystemInv, NEW T \in SUBSET Tranches, NEW times
    PROVE  ThreadFine(Activating(T), times)
  <1>1. thread \in Thread
    BY DEF SystemInv, Typed
  <1>2. CASE T # {}
    <2>1. Activating(T) = [thread EXCEPT !.at = "activate", !.due = T]
      BY <1>2 DEF Activating
    <2> QED
      BY <1>1, <2>1 DEF ThreadFine, Thread
  <1>3. CASE T = {}
    <2>1. \E at \in {"sweep", "scan"} :
             Activating(T) = [thread EXCEPT !.at = at, !.k = 1, !.due = {}]
      BY <1>3 DEF Activating
    <2> QED
      BY <1>1, <2>1, FirstTranche DEF ThreadFine, Thread
  <1> QED
    BY <1>2, <1>3

LEMMA OnwardIsFine ==
    ASSUME SystemInv, thread.k \in Tranches, Onward(thread.k), NEW times
    PROVE  ThreadFine(thread', times)
  <1>1. thread \in Thread
    BY DEF SystemInv, Typed
  <1>2. CASE thread' = Idle
    BY <1>2, IdleIsFine
  <1>3. CASE thread' # Idle
    <2>1. /\ ~Past(thread.k + 1)
          /\ \E at \in {"sweep", "scan"} :
                thread' = [thread EXCEPT !.at = at, !.k = thread.k + 1, !.job = "none"]
      BY <1>3, Zenon DEF Onward
    <2>2. thread.k + 1 \in Tranches
      <3>1. Cardinality(Tranches) \in Nat
        BY TranchesAreNumbered, FS_CardinalityType
      <3> QED
        BY <2>1, <3>1, TranchesAreNumbered DEF Past
    <2> QED
      BY <1>1, <2>1, <2>2 DEF ThreadFine, Thread
  <1> QED
    BY <1>2, <1>3

LEMMA StartsTyped ==
    ASSUME Typed, NEW t \in Tranches, Starts(t)
    PROVE  /\ timing' \in [Tranches -> Clockwork]
           /\ \A s \in Tranches : timing'[s].decisions = timing[s].decisions
  BY DEF Typed, Starts, Clockwork

LEMMA EventThreadTyped ==
    ASSUME SystemInv, EventThread
    PROVE  /\ ThreadFine(thread', timing')
           /\ timing' \in [Tranches -> Clockwork]
           /\ UNCHANGED <<now, market, logged_on, used>>
  <1>0. /\ thread \in Thread
        /\ timing \in [Tranches -> Clockwork]
        /\ thread.at \in {"sweep", "scan", "operate", "record", "followup"} =>
              thread.k \in Tranches
    BY DEF SystemInv, Typed, AtTranche
  <1>1. CASE TimerEvent
    <2>1. /\ UNCHANGED <<timing, now, market, logged_on, used>>
          /\ \/ thread' = [Idle EXCEPT !.at = "schedule", !.source = "timer"]
             \/ thread' = Idle
      BY <1>1 DEF TimerEvent
    <2>2. ThreadFine([Idle EXCEPT !.at = "schedule", !.source = "timer"], timing')
      BY DEF ThreadFine, Idle, Thread, NoTranche
    <2> QED
      BY <1>0, <2>1, <2>2, IdleIsFine
  <1>2. CASE FindDue
    <2>1. DueToStart \in SUBSET Tranches
      BY DEF DueToStart, Soonest, Due, Waiting
    <2> QED
      BY <1>0, <1>2, <2>1, ActivatingIsFine DEF FindDue
  <1>3. CASE ActivateDue
    <2>1. PICK t \in thread.due :
             \/ Starts(t) /\ thread' = Activating(thread.due \ {t})
             \/ thread' = Idle /\ UNCHANGED timing
      BY <1>3 DEF ActivateDue
    <2>2. t \in Tranches /\ thread.due \ {t} \in SUBSET Tranches
      BY <1>0, <2>1 DEF Thread
    <2>3. UNCHANGED <<now, market, logged_on, used>>
      BY <1>3 DEF ActivateDue
    <2> QED
      BY <1>0, <2>1, <2>2, <2>3, StartsTyped, ActivatingIsFine, IdleIsFine DEF SystemInv
  <1>4. CASE SweepTranche
    <2>1. thread.k \in Tranches
      BY <1>0, <1>4 DEF SweepTranche
    <2>2. /\ Starts(thread.k) \/ UNCHANGED timing
          /\ thread' = [thread EXCEPT !.at = "operate", !.job = "close"]
          /\ UNCHANGED <<now, market, logged_on, used>>
      BY <1>4 DEF SweepTranche
    <2>3. timing' \in [Tranches -> Clockwork]
      BY <1>0, <2>1, <2>2, StartsTyped DEF SystemInv
    <2>4. ThreadFine([thread EXCEPT !.at = "operate", !.job = "close"], timing')
      BY <1>0, <2>1 DEF ThreadFine, Thread
    <2> QED
      BY <2>2, <2>3, <2>4
  <1>5. CASE ScanTranche
    <2>1. thread.k \in Tranches
      BY <1>0, <1>5 DEF ScanTranche
    <2>2. UNCHANGED <<timing, now, market, logged_on, used>>
      BY <1>5 DEF ScanTranche
    <2>3. \/ Onward(thread.k)
          \/ thread' = [thread EXCEPT !.at = "operate", !.job = Job(thread.k)]
      BY <1>5 DEF ScanTranche
    <2>4. /\ Job(thread.k) \in {"continue", "close", "decide", "reconcile"}
          /\ Job(thread.k) = "decide" => timing[thread.k].decisions < Decisions
      BY DEF Job, DecisionDue
    <2>5. ThreadFine([thread EXCEPT !.at = "operate", !.job = Job(thread.k)], timing)
      <3> DEFINE job == Job(thread.k)
      <3> HIDE DEF job
      <3>1. job \in {"continue", "close", "decide", "reconcile"}
            /\ (job = "decide" => timing[thread.k].decisions < Decisions)
        BY <2>4 DEF job
      <3>2. ThreadFine([thread EXCEPT !.at = "operate", !.job = job], timing)
        BY <1>0, <2>1, <3>1 DEF ThreadFine, Thread
      <3> QED
        BY <3>2 DEF job
    <2> QED
      BY <1>0, <2>1, <2>2, <2>3, <2>5, OnwardIsFine
  <1>6. CASE Operate
    <2>1. thread.k \in Tranches
      BY <1>0, <1>6 DEF Operate
    <2>2. UNCHANGED <<timing, now, market, logged_on, used>>
      BY <1>6 DEF Operate
    <2>3. \/ Onward(thread.k)
          \/ thread.job = "decide" /\ thread' = [thread EXCEPT !.at = "record"]
      BY <1>6, Zenon DEF Operate
    <2>4. ASSUME thread.job = "decide"
          PROVE  ThreadFine([thread EXCEPT !.at = "record"], timing)
      <3>1. timing[thread.k].decisions < Decisions
        BY <1>6, <2>4 DEF Operate, SystemInv, MayDecide
      <3> QED
        BY <1>0, <2>1, <3>1 DEF ThreadFine, Thread
    <2> QED
      BY <1>0, <2>1, <2>2, <2>3, <2>4, OnwardIsFine
  <1>7. CASE RecordDecision
    <2>1. thread.k \in Tranches /\ timing[thread.k].decisions < Decisions
      BY <1>0, <1>7 DEF RecordDecision, SystemInv, MayDecide
    <2>2. /\ UNCHANGED <<now, market, logged_on, used>>
          /\ \/ thread' = Idle /\ UNCHANGED timing
             \/ /\ timing' = [timing EXCEPT ![thread.k].decisions = @ + 1]
                /\ Onward(thread.k)
      BY <1>7, Zenon DEF RecordDecision
    <2>3. [timing EXCEPT ![thread.k].decisions = @ + 1] \in [Tranches -> Clockwork]
      <3>1. timing[thread.k] \in Clockwork
        BY <1>0, <2>1
      <3>2. [timing[thread.k] EXCEPT !.decisions = @ + 1] \in Clockwork
        BY <2>1, <3>1, ScheduleAssumption DEF Clockwork
      <3> QED
        BY <1>0, <2>1, <3>2
    <2> QED
      BY <1>0, <2>1, <2>2, <2>3, IdleIsFine, OnwardIsFine
  <1>8. CASE OrderEventHandled
    <2>1. /\ events # <<>>
          /\ thread' = [Idle EXCEPT !.at = "followup", !.k = book.child[Head(events).order].tranche,
                                    !.source = "order"]
          /\ UNCHANGED <<timing, now, market, logged_on, used>>
      BY <1>8, Zenon DEF OrderEventHandled
    <2>2. book.child[Head(events).order].tranche \in Tranches
      <3>1. events \in Seq(Event)
        BY DEF SystemInv, Linked
      <3>2. 1 \in 1..Len(events) /\ Head(events) = events[1]
        BY <2>1, <3>1, EmptySeq
      <3>3. Head(events).order \in Orders(book)
        BY <3>2 DEF SystemInv, Linked
      <3> QED
        BY <3>3, ChildIsTyped DEF SystemInv, IInv, Sound, ChildOrder
    <2>3. \A k \in Tranches :
             ThreadFine([Idle EXCEPT !.at = "followup", !.k = k, !.source = "order"], timing)
      BY DEF ThreadFine, Idle, Thread, NoTranche
    <2> QED
      BY <1>0, <2>1, <2>2, <2>3
  <1>9. CASE FollowUp
    <2>1. thread.k \in Tranches
      BY <1>0, <1>9 DEF FollowUp
    <2>2. /\ UNCHANGED <<timing, now, market, logged_on, used>>
          /\ \/ thread' = Idle
             \/ \E job \in {"reconcile", "continue"} :
                   thread' = [thread EXCEPT !.at = "operate", !.job = job]
      BY <1>9, Zenon DEF FollowUp
    <2>3. \A job \in {"reconcile", "continue"} :
             ThreadFine([thread EXCEPT !.at = "operate", !.job = job], timing)
      BY <1>0, <2>1 DEF ThreadFine, Thread
    <2> QED
      BY <1>0, <2>2, <2>3, IdleIsFine
  <1>10. CASE WindowLost
    BY <1>0, <1>10, IdleIsFine DEF WindowLost
  <1> QED
    BY <1>1, <1>2, <1>3, <1>4, <1>5, <1>6, <1>7, <1>8, <1>9, <1>10 DEF EventThread

LEMMA StepTyped ==
    ASSUME SystemInv, SystemNext
    PROVE  Typed' /\ AtTranche' /\ MayDecide'
  <1>0. /\ Typed
        /\ ThreadFine(thread, timing)
    BY DEF SystemInv, ThreadFine, Typed, AtTranche, MayDecide
  <1> SUFFICES Typed' /\ ThreadFine(thread', timing')
    BY DEF ThreadFine, AtTranche, MayDecide
  <1>1. CASE EventThread
    BY <1>0, <1>1, EventThreadTyped DEF Typed, ThreadFine
  <1>2. CASE User
    <2>1. /\ UNCHANGED <<now, market, thread, logged_on>>
          /\ used.calls < MaxUserCalls
          /\ used' = [used EXCEPT !.calls = @ + 1]
      BY <1>2 DEF User, Spend
    <2>2. used' \in Usage
      BY <1>0, <2>1, BoundAssumption DEF Typed, Usage
    <2>3. \/ UNCHANGED timing
          \/ timing' = [t \in Tranches |->
                          IF t \in Restarted(book)
                          THEN [started |-> NotStarted, decisions |-> 0] ELSE timing[t]]
      BY <1>2, Zenon DEF User, UserPause, UserResume, UserCancel
    <2>4. /\ timing' \in [Tranches -> Clockwork]
          /\ \A t \in Tranches : timing'[t] = timing[t] \/ timing'[t].decisions = 0
      BY <1>0, <2>3, ScheduleAssumption DEF Typed, Clockwork
    <2>5. ThreadFine(thread, timing')
      BY <1>0, <2>4, ScheduleAssumption DEF ThreadFine
    <2> QED
      BY <1>0, <2>1, <2>2, <2>4, <2>5 DEF Typed
  <1>3. CASE Tock
    BY <1>0, <1>3, ScheduleAssumption DEF Tock, Typed
  <1>4. CASE MarketMoves
    <2>1. /\ market' \in [bid : Bids, fit : BOOLEAN]
          /\ used.moves < MaxMoves
          /\ used' = [used EXCEPT !.moves = @ + 1]
          /\ UNCHANGED <<timing, now, thread, logged_on>>
      <3>1. market' \in [bid : Bids, fit : BOOLEAN]
        BY <1>4 DEF MarketMoves
      <3> QED
        BY <1>4, <3>1 DEF MarketMoves, Spend
    <2>2. used' \in Usage
      BY <1>0, <2>1, BoundAssumption DEF Typed, Usage
    <2> QED
      BY <1>0, <2>1, <2>2 DEF Typed
  <1>5. CASE Venue
    <2>1. /\ UNCHANGED <<timing, now, market, thread, logged_on>>
          /\ \/ UNCHANGED used
             \/ used.surprises < MaxSurprises /\ used' = [used EXCEPT !.surprises = @ + 1]
      BY <1>5 DEF Venue, VenueAccept, VenueReject, VenueFill, VenueCancel, VenueCancelsItself,
                  Spend
    <2>2. used' \in Usage
      BY <1>0, <2>1, BoundAssumption DEF Typed, Usage
    <2> QED
      BY <1>0, <2>1, <2>2 DEF Typed
  <1>6. CASE Outage
    <2>1. /\ UNCHANGED <<timing, now, market, thread>>
          /\ logged_on' = FALSE
          /\ used.outages < MaxOutages
          /\ used' = [used EXCEPT !.outages = @ + 1]
      BY <1>6 DEF Outage, Spend
    <2>2. used' \in Usage
      BY <1>0, <2>1, BoundAssumption DEF Typed, Usage
    <2> QED
      BY <1>0, <2>1, <2>2 DEF Typed
  <1>7. CASE Logon
    BY <1>0, <1>7 DEF Logon, Typed
  <1> QED
    BY <1>1, <1>2, <1>3, <1>4, <1>5, <1>6, <1>7 DEF SystemNext

-----------------------------------------------------------------------------
(***************************************************************************)
(* The state machine.                                                      *)
(***************************************************************************)
LEMMA SystemStarts == SystemInit => SystemInv
  <1> SUFFICES ASSUME SystemInit
               PROVE  SystemInv
    OBVIOUS
  <1>1. IInv
    BY InitSound DEF SystemInit
  <1>2. Typed
    <2>1. timing \in [Tranches -> Clockwork] /\ now \in 0..Duration
      BY ScheduleAssumption DEF SystemInit, Clockwork
    <2>2. market \in [bid : Bids, fit : BOOLEAN]
      BY DEF SystemInit
    <2>3. thread \in Thread
      BY DEF SystemInit, Thread, Idle
    <2>4. used \in Usage
      BY BoundAssumption DEF SystemInit, Usage
    <2> QED
      BY <2>1, <2>2, <2>3, <2>4 DEF SystemInit, Typed
  <1>3. AtTranche /\ MayDecide
    BY DEF SystemInit, AtTranche, MayDecide, Idle
  <1>4. Linked(book, events, venue)
    <2>1. Orders(book) = {} /\ venue = <<>> /\ events = <<>>
      BY DEF SystemInit, Init, Orders
    <2>2. venue \in [Orders(book) -> VenueOrder]
      BY <2>1
    <2>3. events \in Seq(Event) /\ Len(events) = 0
      BY <2>1, EmptySeq
    <2> QED
      BY <2>1, <2>2, <2>3 DEF Linked, LastFinal
  <1> QED
    BY <1>1, <1>2, <1>3, <1>4 DEF SystemInv

LEMMA SystemSteps == SystemInv /\ [SystemNext]_vars => SystemInv' /\ [Next]_book
  <1>1. ASSUME SystemInv, SystemNext
        PROVE  SystemInv' /\ [Next]_book
    <2>1. [Next]_book
      BY <1>1, StepMovesBook
    <2>2. IInv'
      BY <1>1, <2>1, NextSound DEF SystemInv
    <2> QED
      BY <1>1, <2>1, <2>2, StepTyped, StepKeepsLink DEF SystemInv
  <1>2. ASSUME SystemInv, UNCHANGED vars
        PROVE  SystemInv' /\ [Next]_book
    BY <1>2 DEF vars, SystemInv, IInv, Sound, WellFormed, Limits, Potential, OpenLots, Orders,
                OrdersOf, Books, Typed, AtTranche, MayDecide, Linked, LastFinal
  <1> QED
    BY <1>1, <1>2

LEMMA SystemInvariant == SystemSpec => []SystemInv
  BY SystemStarts, SystemSteps, PTL DEF SystemSpec

(***************************************************************************)
(* Whatever the threads, the session and the venue do, the book moves only *)
(* as module Coordinator allows.  So every theorem about that module's     *)
(* Spec holds of the system: in particular the hard limits.                *)
(***************************************************************************)
THEOREM ImplementsCoordinatorHolds == SystemSpec => ImplementsCoordinator
  <1>1. SystemInit => Init
    BY DEF SystemInit
  <1> QED
    BY <1>1, SystemSteps, SystemInvariant, PTL DEF SystemSpec, Spec, ImplementsCoordinator

(***************************************************************************)
(* Every variable keeps its type: in particular every queued event is of a *)
(* known order, the venue knows exactly the child orders, and a tranche's  *)
(* decisions are counted up to MODEL_DECISION_COUNT.                       *)
(***************************************************************************)
THEOREM SystemTypesHold == SystemSpec => []SystemTypeOK
  <1>1. SystemInv /\ TypeOK => SystemTypeOK
    <2> SUFFICES ASSUME SystemInv, TypeOK
                 PROVE  SystemTypeOK
      OBVIOUS
    <2> DEFINE KnownEvent == [order : Orders(book), traded : 0..TrancheVolume, status : OrderStatus]
    <2>1. events \in Seq(KnownEvent)
      <3>1. /\ Len(events) \in Nat
            /\ events \in [1..Len(events) -> Event]
        BY LenProperties DEF SystemInv, Linked
      <3>2. ASSUME NEW i \in 1..Len(events)
            PROVE  events[i] \in KnownEvent
        <4>1. events[i] \in Event /\ events[i].order \in Orders(book)
          BY <3>1 DEF SystemInv, Linked
        <4> QED
          BY <4>1 DEF Event
      <3> HIDE DEF KnownEvent
      <3>3. events \in [1..Len(events) -> KnownEvent]
        BY <3>1, <3>2
      <3> QED
        BY <3>1, <3>3, SeqDef
    <2>2. venue \in [Orders(book) -> VenueOrder]
      BY DEF SystemInv, Linked
    <2> QED
      BY <2>1, <2>2 DEF SystemInv, Typed, SystemTypeOK, Thread, Clockwork, Usage, VenueOrder
  <1> QED
    BY <1>1, SystemInvariant, ImplementsCoordinatorHolds, TypeCorrect, PTL
       DEF ImplementsCoordinator

-----------------------------------------------------------------------------
(***************************************************************************)
(* What the venue may still execute is counted by the book: a lot that is  *)
(* executed, or may be, is of an order that is open in the book, or is     *)
(* filled there.                                                           *)
(***************************************************************************)
FilledOf(O) == {lot \in O \X (1..TrancheVolume) : lot[2] <= book.child[lot[1]].traded}

LEMMA ExposedIsCounted ==
    ASSUME WellFormed(book), Linked(book, events, venue), NEW O \in SUBSET Orders(book)
    PROVE  ExposedLots(O) \subseteq FilledOf(O) \cup OpenLots(book, O)
  <1> SUFFICES ASSUME NEW lot \in ExposedLots(O), lot \notin FilledOf(O)
               PROVE  lot \in OpenLots(book, O)
    OBVIOUS
  <1> DEFINE o == lot[1]
             l == lot[2]
  <1>1. /\ lot \in O \X (1..TrancheVolume)
        /\ o \in Orders(book)
        /\ l \in 1..TrancheVolume
        /\ l <= venue[o].executed \/ (venue[o].state # "gone" /\ l <= book.child[o].volume)
    BY DEF ExposedLots
  <1>2. ~(l <= book.child[o].traded)
    BY <1>1 DEF FilledOf
  <1>3. /\ book.child[o] \in ChildOrder
        /\ venue[o] \in VenueOrder
        /\ OrderLinked(book.child[o], venue[o])
    BY <1>1, ChildIsTyped DEF Linked
  <1>4. book.child[o].traded < l /\ l <= book.child[o].volume
    <2>1. /\ l \in Int /\ book.child[o].traded \in Int /\ book.child[o].volume \in Int
          /\ venue[o].executed \in Int
      BY <1>1, <1>3, VolumeAssumption DEF ChildOrder, VenueOrder
    <2> QED
      BY <1>1, <1>2, <1>3, <2>1 DEF OrderLinked
  <1>5. book.child[o].status \in ActiveStatuses
    <2>1. SUFFICES book.child[o].status \notin FinalStatuses
      BY <1>3 DEF ChildOrder, OrderStatus
    <2>2. ASSUME book.child[o].status \in FinalStatuses
          PROVE  FALSE
      <3>1. venue[o].state = "gone" /\ book.child[o].traded = venue[o].executed
        BY <1>3, <2>2 DEF OrderLinked
      <3> QED
        BY <1>1, <1>2, <3>1
    <2> QED
      BY <2>2
  <1>6. lot[2] > book.child[lot[1]].traded
    <2>1. l \in Int /\ book.child[o].traded \in Int
      BY <1>1, <1>3, VolumeAssumption DEF ChildOrder
    <2> QED
      BY <1>4, <2>1
  <1> QED
    BY <1>1, <1>4, <1>5, <1>6 DEF OpenLots

LEMMA ExposedIsLimited ==
    ASSUME WellFormed(book), Linked(book, events, venue), NEW O \in SUBSET Orders(book),
           NEW filled, IsFiniteSet(filled), FilledOf(O) = filled
    PROVE  /\ Cardinality(ExposedLots(O)) \in Nat
           /\ Cardinality(filled) \in Nat
           /\ Potential(book, O) \in Nat
           /\ Cardinality(ExposedLots(O)) <= Cardinality(filled) + Potential(book, O)
  <1> DEFINE open == OpenLots(book, O)
             exposed == ExposedLots(O)
  <1>1. IsFiniteSet(open) /\ Potential(book, O) = Cardinality(open)
    BY PotentialIsNat DEF Potential
  <1>2. exposed \subseteq filled \cup open
    BY ExposedIsCounted
  <1>3. filled \cap open = {}
    <2> SUFFICES ASSUME NEW lot \in filled, lot \in open
                 PROVE  FALSE
      OBVIOUS
    <2>1. /\ lot[1] \in Orders(book)
          /\ lot[2] \in 1..TrancheVolume
          /\ lot[2] <= book.child[lot[1]].traded
          /\ lot[2] > book.child[lot[1]].traded
      BY DEF FilledOf, OpenLots
    <2>2. book.child[lot[1]].traded \in Int /\ lot[2] \in Int
      BY <2>1, ChildIsTyped, VolumeAssumption DEF ChildOrder
    <2> QED
      BY <2>1, <2>2
  <1> HIDE DEF open, exposed
  <1>4. /\ IsFiniteSet(filled \cup open)
        /\ Cardinality(filled \cup open) = Cardinality(filled) + Cardinality(open)
    BY <1>1, <1>3, LotsAdded
  <1>5. IsFiniteSet(exposed) /\ Cardinality(exposed) <= Cardinality(filled \cup open)
    BY <1>2, <1>4, FS_Subset
  <1>6. Cardinality(exposed) \in Nat /\ Cardinality(filled) \in Nat /\ Cardinality(open) \in Nat
    BY <1>1, <1>5, FS_CardinalityType
  <1> QED
    BY <1>1, <1>4, <1>5, <1>6 DEF exposed

(***************************************************************************)
(* README.md 102-104, as the counterparty sees it: lots executed plus lots *)
(* that orders at the venue, or on their way to it, may still execute are  *)
(* within the parent's and each tranche's volume, whatever reports,        *)
(* cancels and orders are lost with the session.  It needs the link (an    *)
(* order that the book counts as closed is gone) and, of the book, both    *)
(* the hard limits and that fills add up.                                  *)
(***************************************************************************)
THEOREM VenueNeverOversellsHolds == SystemSpec => []VenueNeverOversells
  <1>1. SystemInv /\ IInv /\ Fills(book) => VenueNeverOversells
    <2> SUFFICES ASSUME SystemInv, Fills(book)
                 PROVE  VenueNeverOversells
      OBVIOUS
    <2>1. WellFormed(book) /\ Limits(book) /\ Linked(book, events, venue)
      BY DEF SystemInv, IInv, Sound
    <2>2. Cardinality(ExposedLots(Orders(book))) <= TotalVolume
      <3> DEFINE exposed == Cardinality(ExposedLots(Orders(book)))
                 filled  == Cardinality(SoldLots(book))
                 open    == Potential(book, Orders(book))
      <3>1. FilledOf(Orders(book)) = SoldLots(book) /\ IsFiniteSet(SoldLots(book))
        BY <2>1, LotsAreFinite DEF FilledOf, SoldLots
      <3>2. /\ exposed \in Nat /\ filled \in Nat /\ open \in Nat
            /\ exposed <= filled + open
        BY <2>1, <3>1, ExposedIsLimited
      <3>3. filled = book.parent.traded /\ filled + open <= TotalVolume
        BY <2>1 DEF Fills, Limits
      <3> HIDE DEF exposed, filled, open
      <3>4. exposed <= TotalVolume
        BY <3>2, <3>3, VolumeAssumption
      <3> QED
        BY <3>4 DEF exposed
    <2>3. ASSUME NEW t \in Tranches
          PROVE  Cardinality(ExposedLots(OrdersOf(book, t))) <= TrancheVolume
      <3> DEFINE O       == OrdersOf(book, t)
                 exposed == Cardinality(ExposedLots(O))
                 filled  == Cardinality(FilledLots(book, t))
                 open    == Potential(book, O)
      <3>1. /\ O \in SUBSET Orders(book)
            /\ FilledOf(O) = FilledLots(book, t)
            /\ IsFiniteSet(FilledLots(book, t))
        BY <2>1, LotsAreFinite DEF FilledOf, FilledLots, OrdersOf
      <3>2. /\ exposed \in Nat /\ filled \in Nat /\ open \in Nat
            /\ exposed <= filled + open
        BY <2>1, <3>1, ExposedIsLimited
      <3>3. filled = book.tranche[t].traded /\ filled + open <= TrancheVolume
        BY <2>1 DEF Fills, Limits
      <3> HIDE DEF exposed, filled, open
      <3>4. exposed <= TrancheVolume
        BY <3>2, <3>3, VolumeAssumption
      <3> QED
        BY <3>4 DEF exposed
    <2> QED
      BY <2>2, <2>3 DEF VenueNeverOversells
  <1> QED
    BY <1>1, SystemInvariant, ImplementsCoordinatorHolds, FillsInvariant, PTL
       DEF ImplementsCoordinator

-----------------------------------------------------------------------------
(***************************************************************************)
(* Without an outage nothing is lost: what the book does not know yet is   *)
(* queued.                                                                 *)
(***************************************************************************)
Told(es, o, executed) ==
    \E i \in 1..Len(es) : es[i].order = o /\ es[i].traded = executed

ToldFinal(es, o) ==
    \E i \in 1..Len(es) : es[i].order = o /\ es[i].status \in FinalStatuses

CaughtUp(b, es, v) ==
    \A o \in Orders(b) :
        /\ b.child[o].traded = v[o].executed \/ Told(es, o, v[o].executed)
        /\ v[o].state = "gone" => b.child[o].status \in FinalStatuses \/ ToldFinal(es, o)

NothingLost == used.outages = 0 => logged_on /\ CaughtUp(book, events, venue)

\* What was told is still told when more is queued.
LEMMA ToldInMore ==
    ASSUME NEW es \in Seq(Event), NEW fs \in Seq(Event), Len(es) <= Len(fs),
           \A i \in 1..Len(es) : fs[i] = es[i], NEW o
    PROVE  /\ \A executed : Told(es, o, executed) => Told(fs, o, executed)
           /\ ToldFinal(es, o) => ToldFinal(fs, o)
  <1>1. \A i \in 1..Len(es) : i \in 1..Len(fs) /\ fs[i] = es[i]
    BY LenProperties
  <1> QED
    BY <1>1, Zenon DEF Told, ToldFinal

LEMMA CallLosesNothing ==
    ASSUME SystemInv, NEW c, Sound(c), KeepsFills(book, c), logged_on,
           CaughtUp(book, events, venue), Call(c)
    PROVE  CaughtUp(book', events', venue')
  <1> DEFINE es == SentEvents(c)
             fs == events \o es
             w  == Request(c)
  <1>1. book' = c /\ events' = fs /\ venue' = w
    BY DEF Call, Becomes
  <1>2. WellFormed(book) /\ WellFormed(c) /\ Linked(book, events, venue)
        /\ Orders(book) \subseteq Orders(c)
    BY DEF SystemInv, IInv, Sound, KeepsFills
  <1>3. /\ \A o \in Orders(book) : w[o].state = venue[o].state
                                   /\ w[o].executed = venue[o].executed
        /\ \A o \in NewOrders(c) : Fresh(w[o])
    BY <1>2, RequestMoves
  <1>4. es \in Seq(Event)
    BY <1>2, SentEventsAreTrue DEF WellFormed
  <1>5. /\ events \in Seq(Event) /\ fs \in Seq(Event) /\ Len(events) <= Len(fs)
        /\ \A i \in 1..Len(events) : fs[i] = events[i]
    <2>1. events \in Seq(Event) /\ Len(events) \in Nat /\ Len(es) \in Nat
      BY <1>2, <1>4, LenProperties DEF Linked
    <2> HIDE DEF es
    <2> QED
      BY <1>4, <2>1, ConcatProperties
  <1> HIDE DEF es, fs, w
  <1>6. ASSUME NEW o \in Orders(book)
        PROVE  /\ c.child[o].traded = w[o].executed \/ Told(fs, o, w[o].executed)
               /\ w[o].state = "gone" => c.child[o].status \in FinalStatuses \/ ToldFinal(fs, o)
    <2>1. c.child[o].traded = book.child[o].traded /\ c.child[o].status = book.child[o].status
      BY DEF KeepsFills
    <2>2. /\ Told(events, o, venue[o].executed) => Told(fs, o, venue[o].executed)
          /\ ToldFinal(events, o) => ToldFinal(fs, o)
      BY <1>5, ToldInMore
    <2> QED
      BY <1>3, <2>1, <2>2 DEF CaughtUp
  <1>7. ASSUME NEW o \in NewOrders(c)
        PROVE  c.child[o].traded = w[o].executed /\ w[o].state # "gone"
    BY <1>3 DEF KeepsFills, NewOrders, Fresh
  <1>8. CaughtUp(c, fs, w)
    BY <1>6, <1>7 DEF CaughtUp, NewOrders
  <1> QED
    BY <1>1, <1>8

LEMMA StartLosesNothing ==
    ASSUME SystemInv, NEW t \in Tranches, Starts(t), UNCHANGED <<events, venue>>,
           CaughtUp(book, events, venue)
    PROVE  CaughtUp(book', events', venue')
  <1>1. book'.child = book.child
    BY DEF Starts, SystemInv, IInv, Sound, WellFormed, Books
  <1> QED
    BY <1>1 DEF CaughtUp, Orders

LEMMA HandledLosesNothing ==
    ASSUME SystemInv, OrderEventHandled, CaughtUp(book, events, venue)
    PROVE  CaughtUp(book', events', venue')
  <1> DEFINE e == Head(events)
             o == e.order
             c == OrderProcessed(book, o, e.traded, e.status)
             fs == Tail(events)
             w == Request(c)
  <1>1. events # <<>> /\ book' = c /\ events' = fs /\ venue' = w
    BY DEF OrderEventHandled
  <1>2. Sound(book) /\ Linked(book, events, venue)
    BY DEF SystemInv, IInv
  <1>3. /\ events \in Seq(Event) /\ Len(events) \in Nat
        /\ 1 \in 1..Len(events) /\ e = events[1]
        /\ Len(fs) = Len(events) - 1
        /\ \A i \in 1..Len(fs) : fs[i] = events[i + 1]
    <2>1. events \in Seq(Event) /\ Len(events) \in Nat
      BY <1>2, LenProperties DEF Linked
    <2>2. Len(events) \in Nat \ {0}
      BY <1>1, <2>1, EmptySeq
    <2> QED
      BY <1>1, <2>1, <2>2, HeadTailProperties
  <1>4. /\ o \in Orders(book)
        /\ e.traded \in 0..TrancheVolume
        /\ e.status \in OrderStatus
        /\ Reportable(book, o, e.traded, e.status)
        /\ Accepts(book, o, e.status)
    BY <1>2, <1>3, EventIsReportable DEF Sound
  <1>5. /\ Orders(c) = Orders(book)
        /\ \A p \in Orders(book) \ {o} : c.child[p].traded = book.child[p].traded
                                         /\ c.child[p].status = book.child[p].status
        /\ c.child[o].traded = Greatest(e.traded, book.child[o].traded)
        /\ c.child[o].status = IF Accepts(book, o, e.status) THEN e.status
                               ELSE book.child[o].status
    BY <1>2, <1>4, ReportedChildren
  <1>6. \A p \in Orders(book) : w[p].state = venue[p].state
                                /\ w[p].executed = venue[p].executed
    BY <1>2, <1>5, RequestMoves DEF SystemInv, Sound, Typed
  <1>7. EventTrue(book.child[o], venue[o], e) /\ OrderLinked(book.child[o], venue[o])
    BY <1>2, <1>3, <1>4 DEF Linked
  <1>8. e.traded \in Nat /\ book.child[o].traded \in Nat /\ venue[o].executed \in Nat
    BY <1>2, <1>4, ChildIsTyped, VolumeAssumption
       DEF Sound, ChildOrder, Linked, VenueOrder
  <1> HIDE DEF c, e, o, fs, w
  <1>9. ASSUME NEW i \in 1..Len(events), events[i] # e
        PROVE  \E j \in 1..Len(fs) : fs[j] = events[i]
    <2>1. i # 1 /\ i - 1 \in 1..Len(fs) /\ fs[i - 1] = events[(i - 1) + 1]
      BY <1>3, <1>9
    <2>2. (i - 1) + 1 = i
      BY <1>3
    <2> QED
      BY <2>1, <2>2
  <1>10. ASSUME NEW p \in Orders(book)
         PROVE  c.child[p].traded = venue[p].executed \/ Told(fs, p, venue[p].executed)
    <2>1. CASE book.child[p].traded = venue[p].executed
      BY <1>5, <1>7, <1>8, <2>1 DEF Greatest, EventTrue
    <2>2. CASE Told(events, p, venue[p].executed)
      <3>1. PICK i \in 1..Len(events) :
                events[i].order = p /\ events[i].traded = venue[p].executed
        BY <2>2 DEF Told
      <3>2. CASE events[i] = e
        BY <1>5, <1>7, <1>8, <3>1, <3>2 DEF o, Greatest, EventTrue, OrderLinked
      <3>3. CASE events[i] # e
        BY <1>9, <3>1, <3>3 DEF Told
      <3> QED
        BY <3>2, <3>3
    <2> QED
      BY <2>1, <2>2 DEF CaughtUp
  <1>11. ASSUME NEW p \in Orders(book), venue[p].state = "gone"
         PROVE  c.child[p].status \in FinalStatuses \/ ToldFinal(fs, p)
    <2>1. CASE book.child[p].status \in FinalStatuses
      BY <1>5, <1>7, <2>1 DEF EventTrue
    <2>2. CASE ToldFinal(events, p)
      <3>1. PICK i \in 1..Len(events) :
                events[i].order = p /\ events[i].status \in FinalStatuses
        BY <2>2 DEF ToldFinal
      <3>2. CASE events[i] = e
        BY <1>4, <1>5, <3>1, <3>2 DEF o
      <3>3. CASE events[i] # e
        BY <1>9, <3>1, <3>3 DEF ToldFinal
      <3> QED
        BY <3>2, <3>3
    <2> QED
      BY <1>11, <2>1, <2>2 DEF CaughtUp
  <1>12. CaughtUp(c, fs, w)
    BY <1>5, <1>6, <1>10, <1>11 DEF CaughtUp
  <1> QED
    BY <1>1, <1>12

LEMMA VenueLosesNothing ==
    ASSUME SystemInv, Venue, logged_on, CaughtUp(book, events, venue)
    PROVE  CaughtUp(book', events', venue')
  <1>1. PICK o \in AtVenue("sent") \cup AtVenue("working"), status \in OrderStatus :
            /\ venue' = [venue EXCEPT ![o] = venue'[o]]
            /\ Reported(o, status)
            /\ venue'[o].state = "gone" => status \in FinalStatuses
            /\ venue[o].state # "gone"
            /\ UNCHANGED book
    <2>1. /\ venue \in [Orders(book) -> VenueOrder] /\ UNCHANGED book
          /\ \A o \in AtVenue("sent") \cup AtVenue("working") :
                o \in Orders(book) /\ venue[o].state # "gone" /\ venue[o] \in VenueOrder
      BY DEF SystemInv, Linked, Venue, AtVenue
    <2>2. ASSUME NEW o \in AtVenue("sent"), VenueAccept(o)
          PROVE  /\ venue' = [venue EXCEPT ![o] = venue'[o]]
                 /\ Reported(o, "NOTTRADED")
                 /\ venue'[o].state # "gone"
      BY <2>1, <2>2 DEF VenueAccept, VenueOrder
    <2>3. ASSUME NEW o \in AtVenue("sent"), VenueReject(o)
          PROVE  venue' = [venue EXCEPT ![o] = venue'[o]] /\ Reported(o, "REJECTED")
      BY <2>1, <2>3 DEF VenueReject
    <2>4. ASSUME NEW o \in AtVenue("working"), VenueCancel(o) \/ VenueCancelsItself(o)
          PROVE  venue' = [venue EXCEPT ![o] = venue'[o]] /\ Reported(o, "CANCELLED")
      BY <2>1, <2>4 DEF VenueCancel, VenueCancelsItself
    <2>5. ASSUME NEW o \in AtVenue("working"), NEW quantity, VenueFill(o, quantity)
          PROVE  /\ venue' = [venue EXCEPT ![o] = venue'[o]]
                 /\ \/ Reported(o, "ALLTRADED")
                    \/ Reported(o, "PARTTRADED") /\ venue'[o].state # "gone"
      <3> DEFINE executed == venue[o].executed + quantity
                 all == executed = book.child[o].volume
                 x == [venue[o] EXCEPT !.executed = executed,
                                       !.state = IF all THEN "gone" ELSE @]
      <3>1. /\ venue' = [venue EXCEPT ![o] = x]
            /\ Reported(o, IF all THEN "ALLTRADED" ELSE "PARTTRADED")
        BY <2>5, Zenon DEF VenueFill
      <3> HIDE DEF executed
      <3>2. ~all => x.state # "gone"
        BY <2>1 DEF VenueOrder
      <3> HIDE DEF x
      <3>3. venue'[o] = x
        BY <2>1, <3>1
      <3> QED
        BY <3>1, <3>2, <3>3
    <2>6. "NOTTRADED" \in OrderStatus /\ "PARTTRADED" \in OrderStatus
          /\ FinalStatuses \subseteq OrderStatus
          /\ {"ALLTRADED", "CANCELLED", "REJECTED"} = FinalStatuses
      BY DEF OrderStatus, ActiveStatuses, FinalStatuses
    <2> QED
      BY <2>1, <2>2, <2>3, <2>4, <2>5, <2>6 DEF Venue
  <1> DEFINE w  == venue'
             e  == OrderEvent(o, w[o].executed, status)
             fs == Append(events, e)
  <1>2. /\ events \in Seq(Event) /\ Len(events) \in Nat
        /\ venue \in [Orders(book) -> VenueOrder] /\ o \in Orders(book)
        /\ \A p \in Orders(book) \ {o} : w[p] = venue[p]
    BY <1>1, LenProperties DEF SystemInv, Linked, AtVenue
  <1>3. Linked(book', events', venue')
    BY VenueKeepsLink
  <1>4. events' = fs
    BY <1>1 DEF Reported
  <1>5. fs \in Seq(Event) /\ e \in Event
    <2>1. w[o] \in VenueOrder /\ o \in Nat
      BY <1>1, <1>2, <1>3, OrdersAreNumbered DEF Linked, SystemInv, IInv, Sound, WellFormed
    <2>2. e \in Event
      BY <2>1 DEF OrderEvent, Event, VenueOrder
    <2> QED
      BY <1>2, <2>2, AppendProperties
  <1>6. e.order = o /\ e.traded = w[o].executed /\ e.status = status
    BY DEF OrderEvent
  <1> HIDE DEF e
  <1>7. /\ Len(fs) = Len(events) + 1
        /\ \A i \in 1..Len(events) : fs[i] = events[i]
        /\ fs[Len(events) + 1] = e
    BY <1>2, <1>5, AppendProperties
  <1> HIDE DEF fs, w
  <1>8. Told(fs, o, w[o].executed) /\ (status \in FinalStatuses => ToldFinal(fs, o))
    <2>1. Len(fs) \in 1..Len(fs) /\ fs[Len(fs)] = e
      BY <1>2, <1>7
    <2> QED
      BY <1>6, <2>1 DEF Told, ToldFinal
  <1>9. ASSUME NEW p \in Orders(book) \ {o}
        PROVE  /\ Told(events, p, venue[p].executed) => Told(fs, p, venue[p].executed)
               /\ ToldFinal(events, p) => ToldFinal(fs, p)
    <2>1. Len(events) <= Len(fs)
      BY <1>2, <1>7
    <2> QED
      BY <1>2, <1>5, <1>7, <2>1, ToldInMore
  <1>10. ASSUME NEW p \in Orders(book)
         PROVE  /\ book.child[p].traded = w[p].executed \/ Told(fs, p, w[p].executed)
                /\ w[p].state = "gone" => book.child[p].status \in FinalStatuses
                                          \/ ToldFinal(fs, p)
    <2>1. CASE p = o
      BY <1>1, <1>8, <2>1 DEF w
    <2>2. CASE p # o
      BY <1>2, <1>9, <2>2 DEF CaughtUp
    <2> QED
      BY <2>1, <2>2
  <1>11. CaughtUp(book, fs, w)
    BY <1>10 DEF CaughtUp
  <1> QED
    BY <1>1, <1>4, <1>11 DEF w

LEMMA StepLosesNothing ==
    ASSUME SystemInv, NothingLost, SystemNext
    PROVE  NothingLost'
  <1>1. ASSUME used'.outages = 0
        PROVE  used.outages = 0 /\ ~Outage
    <2>1. used \in Usage /\ used.outages \in Nat
      BY BoundAssumption DEF SystemInv, Typed, Usage
    <2>2. ~Outage
      <3>1. Outage => used' = [used EXCEPT !.outages = @ + 1]
        BY DEF Outage, Spend
      <3>2. Outage => used'.outages = used.outages + 1
        BY <2>1, <3>1 DEF Usage
      <3> QED
        BY <1>1, <2>1, <3>2
    <2>3. used'.outages = used.outages
      <3>1. CASE EventThread
        BY <3>1, EventThreadTyped
      <3>2. CASE User
        BY <2>1, <3>2 DEF User, Spend, Usage
      <3>3. CASE MarketMoves
        BY <2>1, <3>3 DEF MarketMoves, Spend, Usage
      <3>4. CASE Venue
        BY <2>1, <3>4 DEF Venue, VenueAccept, VenueReject, VenueFill, VenueCancel,
                          VenueCancelsItself, Spend, Usage
      <3>5. CASE Tock \/ Logon
        BY <3>5 DEF Tock, Logon
      <3> QED
        BY <2>2, <3>1, <3>2, <3>3, <3>4, <3>5 DEF SystemNext
    <2> QED
      BY <1>1, <2>2, <2>3
  <1> SUFFICES ASSUME used'.outages = 0
               PROVE  logged_on' /\ CaughtUp(book', events', venue')
    BY DEF NothingLost, CaughtUp, Told, ToldFinal, Orders
  <1>2. logged_on /\ CaughtUp(book, events, venue) /\ ~Outage
    BY <1>1 DEF NothingLost
  <1>3. Sound(book) /\ market.bid \in Bids
    BY DEF SystemInv, IInv, Typed
  <1>4. ASSUME NEW c, Sound(c), KeepsFills(book, c), Call(c)
        PROVE  CaughtUp(book', events', venue')
    BY <1>2, <1>4, CallLosesNothing
  <1>5. ASSUME UNCHANGED <<book, events, venue>>
        PROVE  CaughtUp(book', events', venue')
    BY <1>2, <1>5
  <1>6. ASSUME Call(Paused(book))
        PROVE  CaughtUp(book', events', venue')
    BY <1>3, <1>4, <1>6, MethodsKeepFills
  <1>7. CASE EventThread
    <2>1. logged_on'
      BY <1>2, <1>7, EventThreadTyped
    <2> SUFFICES CaughtUp(book', events', venue')
      BY <2>1
    <2>2. CASE TimerEvent
      BY <1>5, <1>6, <2>2 DEF TimerEvent
    <2>3. CASE FindDue \/ ScanTranche \/ FollowUp
      BY <1>5, <2>3 DEF FindDue, ScanTranche, FollowUp
    <2>4. CASE ActivateDue
      <3>1. PICK t \in thread.due :
                IF t \in Waiting(book) THEN Starts(t) /\ UNCHANGED <<events, venue>>
                ELSE Call(Paused(book))
        BY <2>4 DEF ActivateDue
      <3>2. t \in Tranches
        BY <3>1 DEF SystemInv, Typed, Thread
      <3> QED
        BY <1>2, <1>6, <3>1, <3>2, StartLosesNothing
    <2>5. CASE SweepTranche
      BY <1>2, <1>5, <2>5, StartLosesNothing DEF SweepTranche, SystemInv, AtTranche
    <2>6. CASE Operate
      <3>1. thread.k \in Tranches
        BY <2>6 DEF Operate, SystemInv, AtTranche
      <3>2. \/ Call(PendingReconciled(book, thread.k, market.bid))
            \/ Call(CloseContinued(book, thread.k, market.bid))
            \/ Call(CloseBegun(book, thread.k, market.bid))
            \/ \E intent \in Intents : Call(IntentApplied(book, thread.k, intent, market.bid))
        BY <2>6, Zenon DEF Operate
      <3> QED
        BY <1>3, <1>4, <3>1, <3>2, MethodsKeepFills
    <2>7. CASE WindowLost \/ RecordDecision
      BY <1>5, <1>6, <2>7 DEF WindowLost, RecordDecision
    <2>8. CASE OrderEventHandled
      BY <1>2, <2>8, HandledLosesNothing
    <2> QED
      BY <1>7, <2>2, <2>3, <2>4, <2>5, <2>6, <2>7, <2>8 DEF EventThread
  <1>8. CASE User
    <2>1. Call(Paused(book)) \/ Call(Resumed(book)) \/ Call(Cancelled(book))
      BY <1>8 DEF User, UserPause, UserResume, UserCancel
    <2>2. logged_on'
      BY <1>2, <1>8 DEF User
    <2> QED
      BY <1>3, <1>4, <2>1, <2>2, MethodsKeepFills
  <1>9. CASE Tock \/ MarketMoves \/ Logon
    BY <1>2, <1>5, <1>9 DEF Tock, MarketMoves, Logon
  <1>10. CASE Venue
    <2>1. logged_on'
      BY <1>2, <1>10 DEF Venue
    <2> QED
      BY <1>2, <1>10, <2>1, VenueLosesNothing
  <1> QED
    BY <1>2, <1>7, <1>8, <1>9, <1>10 DEF SystemNext

LEMMA NothingLostInvariant == SystemSpec => [](SystemInv /\ NothingLost)
  <1>1. SystemInit => NothingLost
    BY DEF SystemInit, Init, NothingLost, CaughtUp, Orders
  <1>2. SystemInv /\ NothingLost /\ [SystemNext]_vars => NothingLost'
    <2>1. SystemInv /\ NothingLost /\ UNCHANGED vars => NothingLost'
      BY DEF vars, NothingLost, CaughtUp, Told, ToldFinal, Orders
    <2> QED
      BY <2>1, StepLosesNothing
  <1> QED
    BY <1>1, <1>2, SystemInvariant, SystemSteps, PTL DEF SystemSpec

(***************************************************************************)
(* The book is never ahead of the venue: it counts no fill that did not    *)
(* happen, and releases an order's inventory only when the order is out of *)
(* the venue for good.  With no outage it catches up once the queue is     *)
(* empty.                                                                  *)
(***************************************************************************)
THEOREM BookFollowsVenueHolds == SystemSpec => []BookFollowsVenue
  <1>1. SystemInv /\ NothingLost => BookFollowsVenue
    <2> SUFFICES ASSUME SystemInv, NothingLost, NEW o \in Orders(book)
                 PROVE  /\ book.child[o].traded <= venue[o].executed
                        /\ book.child[o].status \in FinalStatuses => venue[o].state = "gone"
                        /\ events = <<>> /\ used.outages = 0 =>
                              /\ book.child[o].traded = venue[o].executed
                              /\ Open(book, {o}) = {} <=> venue[o].state = "gone"
      BY DEF BookFollowsVenue
    <2>1. /\ OrderLinked(book.child[o], venue[o])
          /\ venue[o] \in VenueOrder
          /\ book.child[o] \in ChildOrder
      BY ChildIsTyped DEF SystemInv, Linked, IInv, Sound
    <2>2. ASSUME events = <<>>, used.outages = 0
          PROVE  /\ book.child[o].traded = venue[o].executed
                 /\ Open(book, {o}) = {} <=> venue[o].state = "gone"
      <3>1. Len(events) = 0
        BY <2>2, EmptySeq
      <3>2. /\ book.child[o].traded = venue[o].executed
            /\ venue[o].state = "gone" => book.child[o].status \in FinalStatuses
        BY <2>2, <3>1 DEF NothingLost, CaughtUp, Told, ToldFinal
      <3>3. book.child[o].status \in FinalStatuses \/ book.child[o].status \in ActiveStatuses
        BY <2>1 DEF ChildOrder, OrderStatus
      <3>4. CASE venue[o].state = "gone"
        <4>1. Leaves(book.child[o]) = 0
          BY <3>2, <3>4 DEF Leaves, ActiveStatuses, FinalStatuses
        <4> QED
          BY <3>2, <3>4, <4>1 DEF Open
      <3>5. CASE venue[o].state # "gone"
        <4>1. /\ book.child[o].status \in ActiveStatuses
              /\ book.child[o].traded < book.child[o].volume
          BY <2>1, <3>2, <3>3, <3>5 DEF OrderLinked
        <4>2. book.child[o].traded \in Int /\ book.child[o].volume \in Int
          BY <2>1, VolumeAssumption DEF ChildOrder
        <4>3. Leaves(book.child[o]) > 0
          BY <4>1, <4>2 DEF Leaves, Greatest
        <4>4. o \in Open(book, {o})
          BY <4>3 DEF Open
        <4> QED
          BY <3>2, <3>5, <4>4
      <3> QED
        BY <3>4, <3>5
    <2> QED
      BY <2>1, <2>2 DEF OrderLinked
  <1> QED
    BY <1>1, NothingLostInvariant, PTL

-----------------------------------------------------------------------------
(***************************************************************************)
(* A cancelled parent sends nothing: only a running one reconciles, and    *)
(* the tranches of a cancelled one are over, so no close goes on.          *)
(***************************************************************************)
LEMMA CancelledStepSendsNothing ==
    ASSUME MandateInv, Next, book.parent.status = "CANCELLED"
    PROVE  Orders(book') = Orders(book)
  <1>1. Sound(book) /\ Ended(book)
    BY DEF MandateInv, IInv, WindsDown
  <1>2. ASSUME NEW t \in Tranches, Activate(t)
        PROVE  Orders(book') = Orders(book)
    BY <1>1, <1>2 DEF Activate, Orders, Sound, WellFormed, Books
  <1>3. ASSUME NEW t \in Tranches, NEW intent \in Intents, NEW bid \in Bids,
               ApplyIntent(t, intent, bid)
        PROVE  Orders(book') = Orders(book)
    BY <1>1, <1>3, IntentAppliedWorks DEF ApplyIntent, Becomes, Alike, Orders
  <1>4. ASSUME NEW t \in Tranches, NEW bid \in Bids, ReconcilePending(t, bid)
        PROVE  Orders(book') = Orders(book)
    BY <1>1, <1>4, PendingReconciledWorks DEF ReconcilePending, Becomes, Alike, Orders
  <1>5. ASSUME NEW t \in Tranches, NEW bid \in Bids, BeginTrancheClose(t, bid)
        PROVE  Orders(book') = Orders(book)
    BY <1>1, <1>5, CloseBegunWorks DEF BeginTrancheClose, Becomes, Ended
  <1>6. ASSUME NEW t \in Tranches, NEW bid \in Bids, ContinueTrancheClose(t, bid)
        PROVE  Orders(book') = Orders(book)
    BY <1>1, <1>6 DEF ContinueTrancheClose, CloseContinued, Becomes, Ended
  <1>7. PauseParent \/ ResumeParent \/ CancelParent => Orders(book') = Orders(book)
    BY <1>1, PausedSound, ResumedSound, CancelledSound
       DEF PauseParent, ResumeParent, CancelParent
  <1>8. ASSUME NEW o \in Orders(book), NEW traded \in 0..TrancheVolume,
               NEW status \in Reports, ProcessOrder(o, traded, status)
        PROVE  Orders(book') = Orders(book)
    BY <1>1, <1>8, OrderProcessedSound, ReportAssumption DEF ProcessOrder
  <1> QED
    BY <1>2, <1>3, <1>4, <1>5, <1>6, <1>7, <1>8 DEF Next

(***************************************************************************)
(* After the user's cancel no child order is sent, in whatever step of a   *)
(* handler the cancel falls: what a handler read before it was cancelled   *)
(* does not make it send afterwards.                                       *)
(***************************************************************************)
THEOREM CancelledSendsNothingHolds == SystemSpec => CancelledSendsNothing
  <1> DEFINE Silent == book.parent.status = "CANCELLED" => Orders(book') = Orders(book)
  <1>1. SystemInv /\ MandateInv /\ [SystemNext]_vars => [Silent]_vars
    <2> SUFFICES ASSUME SystemInv, MandateInv, SystemNext, book.parent.status = "CANCELLED"
                 PROVE  Orders(book') = Orders(book)
      OBVIOUS
    <2>1. CASE Next
      BY <2>1, CancelledStepSendsNothing
    <2>2. CASE book' = book
      BY <2>2
    <2> QED
      BY <2>1, <2>2, StepMovesBook
  <1> HIDE DEF Silent
  <1>2. SystemSpec => [][Silent]_vars
    BY <1>1, SystemInvariant, ImplementsCoordinatorHolds, MandateInvariant, PTL
       DEF SystemSpec, ImplementsCoordinator
  <1> QED
    BY <1>2 DEF CancelledSendsNothing, Silent

-----------------------------------------------------------------------------
(***************************************************************************)
(* What is sold out is completed.                                          *)
(***************************************************************************)
Completes(b) ==
    /\ b.parent.traded = TotalVolume => b.parent.status = "COMPLETED"
    /\ \A t \in Tranches :
          b.tranche[t].traded = TrancheVolume => b.tranche[t].status = "COMPLETED"

KeepsCompleted(b, c) ==
    /\ b.parent.status = "COMPLETED" => c.parent.status = "COMPLETED"
    /\ \A t \in Tranches :
          b.tranche[t].status = "COMPLETED" => c.tranche[t].status = "COMPLETED"

\* It does, and tranches out of T apart none becomes live.
MovesStatuses(b, c, T) == KeepsCompleted(b, c) /\ Live(c) \subseteq Live(b) \cup T

\* The statuses of parent and tranches are the same.
SameStatuses(b, c) == c.parent = b.parent /\ c.tranche = b.tranche

LEMMA KeptCompletes ==
    ASSUME NEW b, NEW c, Completes(b), KeepsFills(b, c), KeepsCompleted(b, c)
    PROVE  Completes(c)
  BY DEF Completes, KeepsFills, KeepsCompleted

LEMMA SendOrderSameStatuses ==
    ASSUME NEW b, WellFormed(b), NEW t, NEW quantity, NEW price, NEW aggressive
    PROVE  SameStatuses(b, SendOrder(b, t, quantity, price, aggressive))
  BY DEF SendOrder, SameStatuses, WellFormed, Books

LEMMA CancelOrdersSameStatuses ==
    ASSUME NEW b, WellFormed(b), NEW O
    PROVE  SameStatuses(b, CancelOrders(b, O))
  BY CancelOrdersAsks DEF SameStatuses

LEMMA DeploySameStatuses ==
    ASSUME NEW b, Sound(b), NEW t \in Tranches, NEW bid \in Int,
           NEW allocation \in Allocations
    PROVE  SameStatuses(b, Deploy(b, t, bid, allocation))
  <1> DEFINE b0 == FillBucket(b,  t, bid, allocation, 0)
             b1 == FillBucket(b0, t, bid, allocation, 1)
             b2 == FillBucket(b1, t, bid, allocation, 2)
             b3 == FillBucket(b2, t, bid, allocation, 3)
             b4 == FillBucket(b3, t, bid, allocation, 4)
             b5 == FillBucket(b4, t, bid, allocation, 5)
  <1>1. \A c : \A k \in Levels :
            Sound(c) => /\ Sound(FillBucket(c, t, bid, allocation, k))
                        /\ SameStatuses(c, FillBucket(c, t, bid, allocation, k))
    BY FillBucketSound, SendOrderSameStatuses, Zenon DEF FillBucket, Sound
  <1>2. 0 \in Levels /\ 1 \in Levels /\ 2 \in Levels /\ 3 \in Levels /\ 4 \in Levels
        /\ 5 \in Levels
    BY DEF Levels
  <1>3. Sound(b0) /\ SameStatuses(b, b0)
    BY <1>1, <1>2, Zenon
  <1> HIDE DEF b0
  <1>4. Sound(b1) /\ SameStatuses(b0, b1)
    BY <1>1, <1>2, <1>3, Zenon
  <1> HIDE DEF b1
  <1>5. Sound(b2) /\ SameStatuses(b1, b2)
    BY <1>1, <1>2, <1>4, Zenon
  <1> HIDE DEF b2
  <1>6. Sound(b3) /\ SameStatuses(b2, b3)
    BY <1>1, <1>2, <1>5, Zenon
  <1> HIDE DEF b3
  <1>7. Sound(b4) /\ SameStatuses(b3, b4)
    BY <1>1, <1>2, <1>6, Zenon
  <1> HIDE DEF b4
  <1>8. SameStatuses(b4, b5)
    BY <1>1, <1>2, <1>7, Zenon
  <1> HIDE DEF b5
  <1>9. SameStatuses(b, b5)
    BY <1>3, <1>4, <1>5, <1>6, <1>7, <1>8 DEF SameStatuses
  <1> QED
    BY <1>9, Zenon DEF Deploy, b0, b1, b2, b3, b4, b5

LEMMA ReconciledSameStatuses ==
    ASSUME NEW b, Sound(b), NEW t \in Tranches
    PROVE  SameStatuses(b, Reconciled(b, t))
  <1> DEFINE allocation == b.target[t].allocation
             bid == b.target[t].bid
             trimmed == CancelOrders(b, Excess(b, t, bid, allocation))
  <1>1. CASE b.target[t] = NoTarget \/ b.parent.status # "RUNNING"
    BY <1>1 DEF Reconciled, SameStatuses
  <1>2. CASE ~(b.target[t] = NoTarget \/ b.parent.status # "RUNNING")
    <2>1. bid \in Int /\ allocation \in Allocations
      BY <1>2, MarketAssumption DEF Sound, WellFormed, Books, Target
    <2>2. Sound(trimmed) /\ SameStatuses(b, trimmed)
      BY CancelOrdersSound, CancelOrdersSameStatuses DEF Sound
    <2>3. \/ Reconciled(b, t) = trimmed
          \/ Reconciled(b, t) = Deploy(trimmed, t, bid, allocation)
      BY <1>2, Zenon DEF Reconciled
    <2> HIDE DEF trimmed
    <2>4. SameStatuses(trimmed, Deploy(trimmed, t, bid, allocation))
      BY <2>1, <2>2, DeploySameStatuses
    <2> QED
      BY <2>2, <2>3, <2>4 DEF SameStatuses
  <1> QED
    BY <1>1, <1>2

LEMMA CloseFinishedStatuses ==
    ASSUME NEW b, Sound(b), NEW t \in Tranches, NEW bid \in Bids
    PROVE  MovesStatuses(b, CloseFinished(b, t, bid), {})
  <1> DEFINE c == CloseFinished(b, t, bid)
             open == Open(b, OrdersOf(b, t))
  <1>1. \/ c = [b EXCEPT !.tranche[t].status = "COMPLETED"]
        \/ c = CancelOrders(b, {o \in open : Bucket(b.child[o], bid) # 0})
        \/ c = SendOrder(b, t, Least(Remaining(b, t), Available(b, t)), bid, TRUE)
    BY Zenon DEF CloseFinished
  <1>2. CASE c = [b EXCEPT !.tranche[t].status = "COMPLETED"]
    BY <1>2 DEF MovesStatuses, KeepsCompleted, Live, Sound, WellFormed, Books
  <1>3. CASE c # [b EXCEPT !.tranche[t].status = "COMPLETED"]
    <2>1. WellFormed(b)
      BY DEF Sound
    <2>2. /\ SameStatuses(b, CancelOrders(b, {o \in open : Bucket(b.child[o], bid) # 0}))
          /\ SameStatuses(b, SendOrder(b, t, Least(Remaining(b, t), Available(b, t)), bid, TRUE))
      BY <2>1, CancelOrdersSameStatuses, SendOrderSameStatuses, Zenon
    <2> HIDE DEF c, open
    <2>3. SameStatuses(b, c)
      BY <1>1, <1>3, <2>2, Zenon
    <2>4. MovesStatuses(b, c, {})
      BY <2>3 DEF SameStatuses, MovesStatuses, KeepsCompleted, Live
    <2> QED
      BY <2>4 DEF c
  <1> QED
    BY <1>2, <1>3

LEMMA CloseBegunStatuses ==
    ASSUME NEW b, Sound(b), NEW t \in Tranches, NEW bid \in Bids
    PROVE  MovesStatuses(b, CloseBegun(b, t, bid), {t})
  <1> DEFINE closing == [b EXCEPT !.tranche[t].status = "CLOSING", !.target[t] = NoTarget]
             asked == CancelOrders(closing, OrdersOf(closing, t))
  <1>1. \/ CloseBegun(b, t, bid) = b
        \/ CloseBegun(b, t, bid) = CloseFinished(b, t, bid)
        \/ /\ b.tranche[t].status # "COMPLETED"
           /\ CloseBegun(b, t, bid) = CloseFinished(asked, t, bid)
    BY Zenon DEF CloseBegun
  <1>2. /\ WellFormed(closing)
        /\ closing.child = b.child
        /\ closing.parent = b.parent
        /\ \A s \in Tranches : /\ closing.tranche[s].traded = b.tranche[s].traded
                               /\ s # t => closing.tranche[s].status = b.tranche[s].status
    <2>1. PICK n \in Nat : b \in Books(n)
      BY DEF Sound, WellFormed
    <2>2. closing \in Books(n)
      BY <2>1 DEF Books, TrancheStatus
    <2> QED
      BY <2>1, <2>2 DEF WellFormed, Books
  <1>3. Sound(closing)
    BY <1>2, RelabelledSound
  <1>4. Sound(asked) /\ SameStatuses(closing, asked)
    BY <1>3, CancelOrdersSound, CancelOrdersSameStatuses DEF Sound
  <1> HIDE DEF closing, asked
  <1>5. MovesStatuses(asked, CloseFinished(asked, t, bid), {})
    BY <1>4, CloseFinishedStatuses
  <1>6. b.tranche[t].status # "COMPLETED" =>
          MovesStatuses(b, CloseFinished(asked, t, bid), {t})
    BY <1>2, <1>4, <1>5 DEF MovesStatuses, KeepsCompleted, SameStatuses, Live
  <1>7. MovesStatuses(b, b, {t})
    BY DEF MovesStatuses, KeepsCompleted
  <1>8. MovesStatuses(b, CloseFinished(b, t, bid), {t})
    BY CloseFinishedStatuses DEF MovesStatuses
  <1> QED
    BY <1>1, <1>6, <1>7, <1>8

LEMMA PausedStatuses ==
    ASSUME NEW b, Sound(b)
    PROVE  MovesStatuses(b, Paused(b), {})
  <1> DEFINE paused == [b EXCEPT !.parent.status = "PAUSED",
                                 !.target  = Untargeted,
                                 !.tranche = [t \in Tranches |->
                                    IF b.tranche[t].status = "ACTIVE"
                                    THEN [b.tranche[t] EXCEPT !.status = "CLOSING"]
                                    ELSE b.tranche[t]]]
  <1>1. CASE b.parent.status \notin {"RUNNING", "WAITING"}
    BY <1>1 DEF Paused, MovesStatuses, KeepsCompleted
  <1>2. CASE b.parent.status \in {"RUNNING", "WAITING"}
    <2>1. Paused(b) = CancelOrders(paused, Orders(b))
      BY <1>2, Zenon DEF Paused
    <2>2. /\ paused.tranche = [t \in Tranches |->
                IF b.tranche[t].status = "ACTIVE"
                THEN [b.tranche[t] EXCEPT !.status = "CLOSING"]
                ELSE b.tranche[t]]
      BY DEF Sound, WellFormed, Books
    <2>3. Paused(b).tranche = paused.tranche
      BY <2>1 DEF CancelOrders, Sound, WellFormed, Books
    <2> HIDE DEF paused
    <2> QED
      BY <1>2, <2>2, <2>3 DEF MovesStatuses, KeepsCompleted, Live
  <1> QED
    BY <1>1, <1>2

LEMMA CancelledStatuses ==
    ASSUME NEW b, Sound(b)
    PROVE  MovesStatuses(b, Cancelled(b), {})
  <1> DEFINE over == [b EXCEPT !.parent.status = "CANCELLED",
                               !.target  = Untargeted,
                               !.tranche = [t \in Tranches |->
                                  IF b.tranche[t].status \in {"COMPLETED", "ERROR"}
                                  THEN b.tranche[t]
                                  ELSE [b.tranche[t] EXCEPT !.status = "CANCELLED"]]]
  <1>1. CASE b.parent.status \in {"COMPLETED", "CANCELLED"}
    BY <1>1 DEF Cancelled, MovesStatuses, KeepsCompleted
  <1>2. CASE b.parent.status \notin {"COMPLETED", "CANCELLED"}
    <2>1. Cancelled(b) = CancelOrders(over, Orders(b))
      BY <1>2, Zenon DEF Cancelled
    <2>2. over.tranche = [t \in Tranches |->
                IF b.tranche[t].status \in {"COMPLETED", "ERROR"}
                THEN b.tranche[t]
                ELSE [b.tranche[t] EXCEPT !.status = "CANCELLED"]]
      BY DEF Sound, WellFormed, Books
    <2>3. Cancelled(b).tranche = over.tranche
      BY <2>1 DEF CancelOrders, Sound, WellFormed, Books
    <2> HIDE DEF over
    <2> QED
      BY <1>2, <2>2, <2>3 DEF MovesStatuses, KeepsCompleted, Live
  <1> QED
    BY <1>1, <1>2

LEMMA ResumedStatuses ==
    ASSUME NEW b, Sound(b), MayResume(b)
    PROVE  MovesStatuses(b, Resumed(b), {})
  <1>1. /\ Resumed(b).tranche = [t \in Tranches |->
                IF t \in Restarted(b)
                THEN [b.tranche[t] EXCEPT !.status = "WAITING"]
                ELSE b.tranche[t]]
    BY DEF Resumed, Sound, WellFormed, Books
  <1> QED
    BY <1>1 DEF MovesStatuses, KeepsCompleted, Live, MayResume, Restarted

\* Every step of the coordinator but a report.
LEMMA WorkStatuses ==
    ASSUME Sound(book), NEW t \in Tranches, NEW bid \in Bids
    PROVE  /\ \A intent \in Intents : MovesStatuses(book, IntentApplied(book, t, intent, bid), {})
           /\ MovesStatuses(book, PendingReconciled(book, t, bid), {})
           /\ MovesStatuses(book, CloseBegun(book, t, bid), {t})
           /\ MovesStatuses(book, CloseContinued(book, t, bid), {})
  <1>1. ASSUME NEW target \in Target \cup {NoTarget}
        PROVE  MovesStatuses(book, Reconciled([book EXCEPT !.target[t] = target], t), {})
    <2> DEFINE c == [book EXCEPT !.target[t] = target]
    <2>1. /\ WellFormed(c)
          /\ c.child = book.child /\ c.parent = book.parent /\ c.tranche = book.tranche
      <3>1. PICK n \in Nat : book \in Books(n)
        BY DEF Sound, WellFormed
      <3>2. c \in Books(n)
        BY <3>1 DEF Books
      <3> QED
        BY <3>1, <3>2 DEF WellFormed, Books
    <2> HIDE DEF c
    <2>2. Sound(c)
      BY <2>1, RelabelledSound
    <2>3. SameStatuses(c, Reconciled(c, t))
      BY <2>2, ReconciledSameStatuses
    <2>4. MovesStatuses(book, Reconciled(c, t), {})
      BY <2>1, <2>3 DEF SameStatuses, MovesStatuses, KeepsCompleted, Live
    <2> QED
      BY <2>4 DEF c
  <1>2. ASSUME NEW intent \in Intents
        PROVE  MovesStatuses(book, IntentApplied(book, t, intent, bid), {})
    <2> DEFINE target == [allocation |-> TargetQuantities(intent, Remaining(book, t)),
                          bid |-> bid]
    <2>1. target \in Target
      <3>1. Remaining(book, t) \in Nat
        BY RemainingIsNat DEF Sound
      <3>2. intent \in [Buckets -> 0..Scale]
        BY IntentAssumption
      <3>3. TargetQuantities(intent, Remaining(book, t)) \in Allocations
        BY <3>1, <3>2, TargetQuantitiesDivide
      <3> QED
        BY <3>3 DEF Target
    <2>2. IntentApplied(book, t, intent, bid) =
            Reconciled([book EXCEPT !.target[t] = target], t)
      BY Zenon DEF IntentApplied
    <2> HIDE DEF target
    <2> QED
      BY <1>1, <2>1, <2>2
  <1>3. MovesStatuses(book, PendingReconciled(book, t, bid), {})
    <2>1. CASE book.target[t] = NoTarget \/ book.tranche[t].status # "ACTIVE"
      BY <2>1 DEF PendingReconciled, MovesStatuses, KeepsCompleted
    <2>2. CASE ~(book.target[t] = NoTarget \/ book.tranche[t].status # "ACTIVE")
      <3> DEFINE target == [book.target[t] EXCEPT !.bid = bid]
      <3>1. target \in Target
        BY <2>2 DEF Sound, WellFormed, Books, Target
      <3>2. PendingReconciled(book, t, bid) =
              Reconciled([book EXCEPT !.target[t] = target], t)
        <4>1. PendingReconciled(book, t, bid) =
                Reconciled([book EXCEPT !.target[t] = [@ EXCEPT !.bid = bid]], t)
          BY <2>2, Zenon DEF PendingReconciled
        <4>2. [book EXCEPT !.target[t] = [@ EXCEPT !.bid = bid]] =
                [book EXCEPT !.target[t] = target]
          BY DEF Sound, WellFormed, Books
        <4> QED
          BY <4>1, <4>2
      <3> HIDE DEF target
      <3> QED
        BY <1>1, <3>1, <3>2
    <2> QED
      BY <2>1, <2>2
  <1>4. MovesStatuses(book, CloseBegun(book, t, bid), {t})
    BY CloseBegunStatuses
  <1>5. MovesStatuses(book, CloseContinued(book, t, bid), {})
    <2>1. \/ CloseContinued(book, t, bid) = CloseFinished(book, t, bid)
          \/ CloseContinued(book, t, bid) = book
      BY Zenon DEF CloseContinued
    <2> QED
      BY <2>1, CloseFinishedStatuses DEF MovesStatuses, KeepsCompleted
  <1> QED
    BY <1>2, <1>3, <1>4, <1>5

\* The settlement after a report completes what it finds sold out, and starts nothing.
LEMMA SettledStatuses ==
    ASSUME NEW b, Sound(b), NEW t \in Tranches
    PROVE  /\ Live(Settled(b, t)) \subseteq Live(b)
           /\ (\A s \in Tranches \ {t} :
                  b.tranche[s].traded = TrancheVolume => b.tranche[s].status = "COMPLETED")
              => Completes(Settled(b, t))
  <1> DEFINE others ==
                \A s \in Tranches \ {t} :
                   b.tranche[s].traded = TrancheVolume => b.tranche[s].status = "COMPLETED"
             done == [b EXCEPT !.tranche[t].status = "COMPLETED", !.target[t] = NoTarget]
             filled == IF Remaining(b, t) # 0 THEN b
                       ELSE CancelOrders(done, OrdersOf(b, t))
             c == Settled(b, t)
  <1>1. c = IF ParentRemaining(b) # 0 THEN filled
            ELSE [filled EXCEPT !.parent.status = "COMPLETED"]
    BY Zenon DEF Settled
  <1>2. PICK n \in Nat : b \in Books(n)
    BY DEF Sound, WellFormed
  <1>3. /\ done \in Books(n)
        /\ done.parent = b.parent
        /\ done.tranche[t].status = "COMPLETED"
        /\ \A s \in Tranches \ {t} : done.tranche[s] = b.tranche[s]
    <2>1. done \in Books(n)
      BY <1>2 DEF Books, TrancheStatus
    <2> QED
      BY <1>2, <2>1 DEF Books
  <1> HIDE DEF done
  <1>4. /\ filled \in Books(n)
        /\ filled.parent = b.parent
        /\ \A s \in Tranches \ {t} : filled.tranche[s] = b.tranche[s]
        /\ IF Remaining(b, t) = 0 THEN filled.tranche[t].status = "COMPLETED"
           ELSE filled.tranche[t] = b.tranche[t]
    <2>1. CASE Remaining(b, t) # 0
      BY <1>2, <2>1
    <2>2. CASE Remaining(b, t) = 0
      <3>1. filled = CancelOrders(done, OrdersOf(b, t))
        BY <2>2
      <3>2. filled \in Books(n)
        BY <1>3, <3>1, CancelOrdersTyped
      <3>3. filled.parent = done.parent /\ filled.tranche = done.tranche
        BY <1>3, <3>1 DEF CancelOrders, Books
      <3> QED
        BY <1>3, <3>2, <3>3
    <2> QED
      BY <2>1, <2>2
  <1> HIDE DEF filled
  <1>5. /\ c.tranche = filled.tranche
        /\ ParentRemaining(b) = 0 => c.parent.status = "COMPLETED"
    BY <1>1, <1>4 DEF Books
  <1>6. /\ c.parent.traded = b.parent.traded
        /\ \A s \in Tranches : c.tranche[s].traded = b.tranche[s].traded
    BY SettledKeeps DEF Keeps, KeepsFills
  <1> HIDE DEF c
  <1>7. ASSUME others, NEW s \in Tranches, c.tranche[s].traded = TrancheVolume
        PROVE  c.tranche[s].status = "COMPLETED"
    <2>1. CASE s # t
      BY <1>4, <1>5, <1>6, <1>7, <2>1
    <2>2. CASE s = t
      <3>1. Remaining(b, t) = TrancheVolume - b.tranche[t].traded
        BY RemainingIsNat DEF Sound
      <3>2. Remaining(b, t) = 0
        BY <1>6, <1>7, <2>2, <3>1, VolumeAssumption
      <3> QED
        BY <1>4, <1>5, <2>2, <3>2
    <2> QED
      BY <2>1, <2>2
  <1>8. ASSUME c.parent.traded = TotalVolume
        PROVE  c.parent.status = "COMPLETED"
    <2>1. ParentRemaining(b) = 0
      BY <1>6, <1>8, VolumeAssumption DEF ParentRemaining, Greatest
    <2> QED
      BY <1>5, <2>1
  <1>9. others => Completes(c)
    <2> HIDE DEF others
    <2> QED
      BY <1>7, <1>8 DEF Completes
  <1>10. Live(c) \subseteq Live(b)
    BY <1>4, <1>5 DEF Live
  <1> QED
    BY <1>9, <1>10, Zenon DEF c, others

\* A report leaves the statuses of parent and tranches to the settlement.
LEMMA RecordedStatuses ==
    ASSUME NEW b, WellFormed(b), NEW o \in Orders(b), NEW traded, NEW status
    PROVE  LET r == Recorded(b, o, traded, status)
           IN  /\ r.parent.status = b.parent.status
               /\ \A s \in Tranches : r.tranche[s].status = b.tranche[s].status
  <1> DEFINE t == b.child[o].tranche
             d == Delta(b, o, traded)
             x == Least(b.tranche[t].traded + d, TrancheVolume)
             y == Least(b.parent.traded + d, TotalVolume)
             z == TargetAfterFill(b, o, traded)
             w == IF Accepts(b, o, status) THEN status ELSE b.child[o].status
             r == Recorded(b, o, traded, status)
  <1>1. r = [b EXCEPT !.child[o].traded = @ + d,
                      !.child[o].status = IF Accepts(b, o, status) THEN status ELSE @,
                      !.tranche[t].traded = Least(@ + d, TrancheVolume),
                      !.parent.traded = Least(@ + d, TotalVolume),
                      !.target[t] = z]
    BY Zenon DEF Recorded
  <1> HIDE DEF d, z
  <1>2. r.parent = [b.parent EXCEPT !.traded = y]
    BY <1>1 DEF WellFormed, Books
  <1>3. r.tranche = [b.tranche EXCEPT ![t].traded = x]
    BY <1>1 DEF WellFormed, Books
  <1> HIDE DEF r, x, y
  <1>4. r.parent.status = b.parent.status
    BY <1>2 DEF WellFormed, Books
  <1>5. \A s \in Tranches : r.tranche[s].status = b.tranche[s].status
    BY <1>3 DEF WellFormed, Books
  <1> QED
    BY <1>4, <1>5 DEF r

(***************************************************************************)
(* An order that is not executed in full when it is done leaves something  *)
(* of its tranche and of the parent unsold.                                *)
(***************************************************************************)
LEMMA PartialFillLeavesSome ==
    ASSUME NEW b, Sound(b), NEW o \in Orders(b), NEW traded \in 0..TrancheVolume,
           b.child[o].status \notin FinalStatuses,
           traded < b.child[o].volume, Delta(b, o, traded) # 0
    PROVE  /\ Delta(b, o, traded) \in Nat
           /\ b.parent.traded + Delta(b, o, traded) < TotalVolume
           /\ b.tranche[b.child[o].tranche].traded + Delta(b, o, traded) < TrancheVolume
  <1> DEFINE t == b.child[o].tranche
             d == Delta(b, o, traded)
             next == traded + 1
             r == Recorded(b, o, next, "PARTTRADED")
             O == OrdersOf(b, t)
  <1>1. b.child[o] \in ChildOrder /\ b.child[o].traded \in Nat
        /\ b.child[o].volume \in 1..TrancheVolume /\ t \in Tranches
    BY ChildIsTyped, VolumeAssumption DEF Sound, ChildOrder
  <1>2. next \in 0..TrancheVolume /\ "PARTTRADED" \in OrderStatus
        /\ Reportable(b, o, next, "PARTTRADED")
    BY <1>1, VolumeAssumption DEF Reportable, OrderStatus, ActiveStatuses
  <1>3. d \in Nat /\ Delta(b, o, next) = d + 1
    BY <1>1 DEF Delta, Greatest
  <1>4. o \in O /\ O \in SUBSET Orders(b)
    BY DEF OrdersOf
  <1>5. WellFormed(r) /\ Orders(r) = Orders(b)
    BY <1>2, RecordedChild DEF Sound
  <1>6. /\ Potential(r, Orders(b)) \in Nat /\ Potential(r, O) \in Nat
        /\ Potential(b, Orders(b)) \in Nat /\ Potential(b, O) \in Nat
    BY <1>4, <1>5, PotentialIsNat DEF Sound
  <1>7. /\ Delta(b, o, next) + Potential(r, Orders(b)) <= Potential(b, Orders(b))
        /\ Delta(b, o, next) + Potential(r, O) <= Potential(b, O)
    BY <1>2, <1>4, FillComesFromOpenLots
  <1>8. /\ b.parent.traded + Potential(b, Orders(b)) <= TotalVolume
        /\ b.tranche[t].traded + Potential(b, O) <= TrancheVolume
        /\ b.parent.traded \in Nat /\ b.tranche[t].traded \in Nat
    BY <1>1, VolumeAssumption DEF Sound, Limits, WellFormed, Books
  <1> HIDE DEF d, next, r, O, t
  <1>9. /\ d \in Nat
        /\ b.parent.traded + d < TotalVolume
        /\ b.tranche[t].traded + d < TrancheVolume
    BY <1>3, <1>6, <1>7, <1>8, VolumeAssumption
  <1> QED
    BY <1>9 DEF d, t

LEMMA HandledCompletes ==
    ASSUME SystemInv, Divides(book), Completes(book), OrderEventHandled
    PROVE  Completes(book')
  <1> DEFINE e == Head(events)
             o == e.order
             t == book.child[o].tranche
             d == Delta(book, o, e.traded)
             r == Recorded(book, o, e.traded, e.status)
             c == OrderProcessed(book, o, e.traded, e.status)
  <1>1. events # <<>> /\ book' = c
    BY DEF OrderEventHandled
  <1>2. Sound(book) /\ WellFormed(book) /\ Linked(book, events, venue)
    BY DEF SystemInv, IInv, Sound
  <1>3. 1 \in 1..Len(events) /\ e = events[1]
    BY <1>1, <1>2, EmptySeq DEF Linked
  <1>4. /\ o \in Orders(book)
        /\ e.traded \in 0..TrancheVolume
        /\ e.status \in OrderStatus
        /\ Reportable(book, o, e.traded, e.status)
        /\ Accepts(book, o, e.status)
    BY <1>2, <1>3, EventIsReportable
  <1>5. EventTrue(book.child[o], venue[o], e)
    BY <1>2, <1>3 DEF Linked
  <1>6. /\ ~FillExceedsTarget(book, o, e.traded) /\ d \in Nat /\ t \in Tranches
    BY <1>2, <1>4, FillFitsTarget
  <1>7. Sound(r)
    BY <1>2, <1>4, RecordedSound
  <1>8. /\ r.parent.status = book.parent.status
        /\ \A s \in Tranches : r.tranche[s].status = book.tranche[s].status
    BY <1>2, <1>4, RecordedStatuses
  <1>9. /\ r.parent.traded = Least(book.parent.traded + d, TotalVolume)
        /\ \A s \in Tranches :
              r.tranche[s].traded = IF s = t THEN Least(book.tranche[t].traded + d, TrancheVolume)
                                    ELSE book.tranche[s].traded
    BY <1>2, <1>4, RecordedChild
  <1>10. /\ book.parent.traded \in 0..TotalVolume
         /\ \A s \in Tranches : book.tranche[s].traded \in 0..TrancheVolume
    BY <1>2 DEF WellFormed, Books
  <1> HIDE DEF r
  <1>11. CASE c = Settled(r, t)
    <2>1. \A s \in Tranches \ {t} :
             r.tranche[s].traded = TrancheVolume => r.tranche[s].status = "COMPLETED"
      BY <1>8, <1>9 DEF Completes
    <2> QED
      BY <1>1, <1>6, <1>7, <1>11, <2>1, SettledStatuses
  <1>12. CASE c # Settled(r, t)
    <2>1. c = Paused(r) /\ e.status \in {"CANCELLED", "REJECTED"}
      BY <1>6, <1>12, Zenon DEF OrderProcessed, r
    <2>2. Completes(r)
      <3>1. CASE d = 0
        BY <1>6, <1>8, <1>9, <1>10, <3>1, VolumeAssumption DEF Completes, Least
      <3>2. CASE d # 0
        <4>1. /\ book.child[o].status \notin FinalStatuses
              /\ e.traded # book.child[o].volume
              /\ e.traded <= book.child[o].volume
          BY <1>4, <1>5, <2>1 DEF EventTrue, FinalStatuses, Reportable
        <4>2. e.traded < book.child[o].volume
          <5>1. e.traded \in Int /\ book.child[o].volume \in Int
            BY <1>2, <1>4, ChildIsTyped DEF ChildOrder
          <5> QED
            BY <4>1, <5>1
        <4>3. /\ book.parent.traded + d < TotalVolume
              /\ book.tranche[t].traded + d < TrancheVolume
          BY <1>2, <1>4, <3>2, <4>1, <4>2, PartialFillLeavesSome
        <4> HIDE DEF d, t
        <4>4. r.parent.traded # TotalVolume /\ r.tranche[t].traded # TrancheVolume
          BY <1>6, <1>9, <1>10, <4>3, VolumeAssumption DEF Least
        <4> QED
          BY <1>8, <1>9, <4>4 DEF Completes
      <3> QED
        BY <3>1, <3>2
    <2>3. KeepsFills(r, Paused(r)) /\ KeepsCompleted(r, Paused(r))
      BY <1>7, PausedKeeps, PausedStatuses DEF Keeps, MovesStatuses
    <2>4. Completes(Paused(r))
      BY <2>2, <2>3, KeptCompletes
    <2> QED
      BY <1>1, <2>1, <2>4
  <1> QED
    BY <1>11, <1>12

LEMMA StepCompletes ==
    ASSUME SystemInv, Divides(book), Completes(book), SystemNext
    PROVE  Completes(book')
  <1>1. Sound(book) /\ market.bid \in Bids
    BY DEF SystemInv, IInv, Typed
  <1>2. ASSUME NEW c, NEW T, KeepsFills(book, c), MovesStatuses(book, c, T), Call(c)
        PROVE  Completes(book')
    <2>1. book' = c /\ Completes(c)
      BY <1>2, KeptCompletes DEF Call, Becomes, MovesStatuses
    <2> QED
      BY <2>1
  <1>3. ASSUME Call(Paused(book))
        PROVE  Completes(book')
    BY <1>1, <1>2, <1>3, MethodsKeepFills, PausedStatuses
  <1>4. ASSUME NEW t \in Tranches, t \in Waiting(book), Starts(t)
        PROVE  Completes(book')
    <2>1. /\ book'.parent = book.parent
          /\ \A s \in Tranches : book'.tranche[s].traded = book.tranche[s].traded
          /\ \A s \in Tranches \ {t} : book'.tranche[s].status = book.tranche[s].status
      BY <1>1, <1>4 DEF Starts, Sound, WellFormed, Books
    <2>2. book.tranche[t].traded # TrancheVolume
      BY <1>4 DEF Completes, Waiting
    <2> QED
      BY <2>1, <2>2 DEF Completes
  <1>5. ASSUME book' = book
        PROVE  Completes(book')
    BY <1>5
  <1>6. CASE EventThread
    <2>1. CASE TimerEvent
      BY <1>3, <1>5, <2>1 DEF TimerEvent
    <2>2. CASE FindDue \/ ScanTranche \/ FollowUp
      BY <1>5, <2>2 DEF FindDue, ScanTranche, FollowUp
    <2>3. CASE ActivateDue
      <3>1. PICK t \in thread.due :
                IF t \in Waiting(book) THEN Starts(t) ELSE Call(Paused(book))
        BY <2>3 DEF ActivateDue
      <3>2. t \in Tranches
        BY <3>1 DEF SystemInv, Typed, Thread
      <3> QED
        BY <1>3, <1>4, <3>1, <3>2
    <2>4. CASE SweepTranche
      BY <1>4, <1>5, <2>4 DEF SweepTranche, SystemInv, AtTranche
    <2>5. CASE Operate
      <3>1. thread.k \in Tranches
        BY <2>5 DEF Operate, SystemInv, AtTranche
      <3>2. \/ Call(PendingReconciled(book, thread.k, market.bid))
            \/ Call(CloseContinued(book, thread.k, market.bid))
            \/ Call(CloseBegun(book, thread.k, market.bid))
            \/ \E intent \in Intents : Call(IntentApplied(book, thread.k, intent, market.bid))
        BY <2>5, Zenon DEF Operate
      <3> QED
        BY <1>1, <1>2, <3>1, <3>2, MethodsKeepFills, WorkStatuses
    <2>6. CASE WindowLost \/ RecordDecision
      BY <1>3, <1>5, <2>6 DEF WindowLost, RecordDecision
    <2>7. CASE OrderEventHandled
      BY <2>7, HandledCompletes
    <2> QED
      BY <1>6, <2>1, <2>2, <2>3, <2>4, <2>5, <2>6, <2>7 DEF EventThread
  <1>7. CASE User
    <2>1. CASE Call(Paused(book))
      BY <1>3, <2>1
    <2>2. CASE MayResume(book) /\ Call(Resumed(book))
      BY <1>1, <1>2, <2>2, MethodsKeepFills, ResumedStatuses
    <2>3. CASE Call(Cancelled(book))
      BY <1>1, <1>2, <2>3, MethodsKeepFills, CancelledStatuses
    <2> QED
      BY <1>7, <2>1, <2>2, <2>3 DEF User, UserPause, UserResume, UserCancel
  <1>8. CASE Tock \/ MarketMoves \/ Venue \/ Outage \/ Logon
    BY <1>5, <1>8 DEF Tock, MarketMoves, Venue, Outage, Logon
  <1> QED
    BY <1>6, <1>7, <1>8 DEF SystemNext

(***************************************************************************)
(* A parent that has sold its volume is COMPLETED, even when the last fill *)
(* arrives for a paused or cancelled one; so is each tranche.  A reject or *)
(* an unrequested cancel, which pauses the parent instead of settling it,  *)
(* cannot carry that last fill: of an order that is gone unfilled some lot *)
(* is left.                                                                *)
(***************************************************************************)
THEOREM SoldOutIsCompletedHolds == SystemSpec => []SoldOutIsCompleted
  <1>1. SystemInit => Completes(book)
    BY VolumeAssumption DEF SystemInit, Init, Completes
  <1>2. SystemInv /\ TargetInv /\ Completes(book) /\ [SystemNext]_vars => Completes(book)'
    <2>1. Completes(book) /\ UNCHANGED vars => Completes(book)'
      BY DEF vars, Completes
    <2>2. Completes(book') => Completes(book)'
      BY DEF Completes
    <2> QED
      BY <2>1, <2>2, StepCompletes DEF TargetInv
  <1>3. SystemSpec => []Completes(book)
    BY <1>1, <1>2, SystemInvariant, ImplementsCoordinatorHolds, TargetInvariant, PTL
       DEF SystemSpec, ImplementsCoordinator
  <1>4. Completes(book) => SoldOutIsCompleted
    BY DEF Completes, SoldOutIsCompleted
  <1> QED
    BY <1>3, <1>4, PTL

-----------------------------------------------------------------------------
(***************************************************************************)
(* The schedule.  What is live, or about to be started, is past its start; *)
(* so is a tranche that a handler works on, as a close may make it live.   *)
(***************************************************************************)
OnTime(b, handler, at) ==
    /\ \A t \in Live(b) \cup handler.due : StartOffset[t] <= at
    /\ handler.at = "sweep" => at >= Duration
    /\ handler.at = "operate" => StartOffset[handler.k] <= at

LEMMA HandledOpensNone ==
    ASSUME SystemInv, OrderEventHandled
    PROVE  Live(book') \subseteq Live(book)
  <1> DEFINE e == Head(events)
             o == e.order
             t == book.child[o].tranche
             r == Recorded(book, o, e.traded, e.status)
  <1>1. events # <<>> /\ book' = OrderProcessed(book, o, e.traded, e.status)
    BY DEF OrderEventHandled
  <1>2. Sound(book) /\ WellFormed(book) /\ Linked(book, events, venue)
    BY DEF SystemInv, IInv, Sound
  <1>3. 1 \in 1..Len(events) /\ e = events[1]
    BY <1>1, <1>2, EmptySeq DEF Linked
  <1>4. /\ o \in Orders(book)
        /\ e.traded \in 0..TrancheVolume
        /\ e.status \in OrderStatus
        /\ Reportable(book, o, e.traded, e.status)
    BY <1>2, <1>3, EventIsReportable
  <1>5. Sound(r) /\ t \in Tranches
    BY <1>2, <1>4, RecordedSound, ChildIsTyped DEF ChildOrder
  <1>6. \A s \in Tranches : r.tranche[s].status = book.tranche[s].status
    BY <1>2, <1>4, RecordedStatuses
  <1>7. book' = Paused(r) \/ book' = Settled(r, t)
    BY <1>1, Zenon DEF OrderProcessed
  <1> HIDE DEF r, t
  <1>8. Live(r) = Live(book)
    BY <1>6 DEF Live
  <1>9. Live(Paused(r)) \subseteq Live(r) /\ Live(Settled(r, t)) \subseteq Live(r)
    BY <1>5, PausedStatuses, SettledStatuses DEF MovesStatuses
  <1> QED
    BY <1>7, <1>8, <1>9

LEMMA ActivatingOnTime ==
    ASSUME Typed, NEW b, NEW T \in SUBSET Tranches,
           \A t \in Live(b) \cup T : StartOffset[t] <= now
    PROVE  OnTime(b, Activating(T), now)
  <1>1. CASE T # {}
    <2>1. Activating(T) = [thread EXCEPT !.at = "activate", !.due = T]
      BY <1>1 DEF Activating
    <2> QED
      BY <2>1 DEF OnTime, Typed, Thread
  <1>2. CASE T = {}
    <2> DEFINE at == IF now >= Duration THEN "sweep" ELSE "scan"
    <2>1. Activating(T) = [thread EXCEPT !.at = at, !.k = 1, !.due = {}]
      BY <1>2 DEF Activating
    <2> QED
      BY <1>2, <2>1 DEF OnTime, Typed, Thread
  <1> QED
    BY <1>1, <1>2

LEMMA OnwardOnTime ==
    ASSUME Typed, NEW b, NEW k, Onward(k),
           \A t \in Live(b) \cup thread.due : StartOffset[t] <= now
    PROVE  OnTime(b, thread', now)
  <1>1. CASE thread' = Idle
    BY <1>1 DEF OnTime, Idle
  <1>2. CASE thread' # Idle
    <2> DEFINE at == IF now >= Duration THEN "sweep" ELSE "scan"
    <2>1. thread' = [thread EXCEPT !.at = at, !.k = k + 1, !.job = "none"]
      BY <1>2, Zenon DEF Onward
    <2> QED
      BY <2>1 DEF OnTime, Typed, Thread
  <1> QED
    BY <1>1, <1>2

LEMMA CallOnTime ==
    ASSUME Typed, NEW c, NEW T, MovesStatuses(book, c, T), Call(c),
           \A t \in Live(book) \cup T : StartOffset[t] <= now
    PROVE  \A t \in Live(book') : StartOffset[t] <= now
  BY DEF MovesStatuses, Call, Becomes

LEMMA EventThreadOnTime ==
    ASSUME SystemInv, OnTime(book, thread, now), EventThread
    PROVE  OnTime(book', thread', now)
  <1>1. Sound(book) /\ market.bid \in Bids /\ Typed
    BY DEF SystemInv, IInv, Typed
  <1>2. /\ \A t \in Live(book) \cup thread.due : StartOffset[t] <= now
        /\ thread.at = "sweep" => now >= Duration
        /\ thread.at = "operate" => StartOffset[thread.k] <= now
    BY DEF OnTime
  <1>3. ASSUME Call(Paused(book)), thread' = Idle
        PROVE  OnTime(book', thread', now)
    <2>1. \A t \in Live(book') : StartOffset[t] <= now
      BY <1>1, <1>2, <1>3, PausedStatuses, CallOnTime
    <2> QED
      BY <1>3, <2>1 DEF OnTime, Idle
  <1>4. ASSUME NEW t \in Tranches, Starts(t)
        PROVE  Live(book') \subseteq Live(book) \cup {t}
    BY <1>1, <1>4 DEF Starts, Live, Sound, WellFormed, Books
  <1>5. CASE TimerEvent
    <2>1. CASE book' = book /\ thread' = [Idle EXCEPT !.at = "schedule", !.source = "timer"]
      BY <1>2, <2>1 DEF OnTime, Idle
    <2>2. CASE Call(Paused(book)) /\ thread' = Idle
      BY <1>3, <2>2
    <2> QED
      BY <1>5, <2>1, <2>2 DEF TimerEvent
  <1>6. CASE FindDue
    <2>1. DueToStart \subseteq Due
      BY DEF DueToStart, Soonest
    <2>2. /\ DueToStart \in SUBSET Tranches
          /\ \A t \in Live(book) \cup DueToStart : StartOffset[t] <= now
      BY <1>2, <2>1 DEF Due, Waiting
    <2> QED
      BY <1>1, <1>6, <2>2, ActivatingOnTime DEF FindDue
  <1>7. CASE ActivateDue
    <2>1. PICK t \in thread.due :
              \/ Starts(t) /\ thread' = Activating(thread.due \ {t})
              \/ Call(Paused(book)) /\ thread' = Idle
      BY <1>7, Zenon DEF ActivateDue
    <2>2. t \in Tranches /\ thread.due \ {t} \in SUBSET Tranches
      BY <1>1, <2>1 DEF Typed, Thread
    <2>3. CASE Starts(t) /\ thread' = Activating(thread.due \ {t})
      <3>1. \A s \in Live(book') \cup (thread.due \ {t}) : StartOffset[s] <= now
        BY <1>2, <1>4, <2>1, <2>2, <2>3
      <3> QED
        BY <1>1, <2>2, <2>3, <3>1, ActivatingOnTime
    <2> QED
      BY <1>3, <2>1, <2>3
  <1>8. CASE SweepTranche
    <2>1. thread.k \in Tranches /\ now >= Duration
      BY <1>2, <1>8 DEF SweepTranche, SystemInv, AtTranche
    <2>2. StartOffset[thread.k] <= now
      BY <1>1, <2>1, ScheduleAssumption, WindowAssumption DEF Typed
    <2>3. thread' = [thread EXCEPT !.at = "operate", !.job = "close"]
      BY <1>8 DEF SweepTranche
    <2>4. Live(book') \subseteq Live(book) \cup {thread.k}
      BY <1>4, <1>8, <2>1 DEF SweepTranche
    <2> QED
      BY <1>1, <1>2, <2>2, <2>3, <2>4 DEF OnTime, Typed, Thread
  <1>9. CASE ScanTranche
    <2>1. book' = book
      BY <1>9 DEF ScanTranche
    <2>2. CASE thread.k \in Live(book)
      <3>1. thread' = [thread EXCEPT !.at = "operate", !.job = Job(thread.k)]
        BY <1>9, <2>2 DEF ScanTranche
      <3> QED
        BY <1>1, <1>2, <2>1, <2>2, <3>1 DEF OnTime, Typed, Thread
    <2>3. CASE thread.k \notin Live(book)
      <3>1. Onward(thread.k)
        BY <1>9, <2>3 DEF ScanTranche
      <3> QED
        BY <1>1, <1>2, <2>1, <3>1, OnwardOnTime
    <2> QED
      BY <2>2, <2>3
  <1>10. CASE Operate
    <2>1. thread.k \in Tranches /\ StartOffset[thread.k] <= now
      BY <1>2, <1>10 DEF Operate, SystemInv, AtTranche
    <2>2. \/ Call(PendingReconciled(book, thread.k, market.bid))
          \/ Call(CloseContinued(book, thread.k, market.bid))
          \/ Call(CloseBegun(book, thread.k, market.bid))
          \/ \E intent \in Intents : Call(IntentApplied(book, thread.k, intent, market.bid))
      BY <1>10, Zenon DEF Operate
    <2>3. \A t \in Live(book') : StartOffset[t] <= now
      <3>1. \A t \in Live(book) \cup {} : StartOffset[t] <= now
        BY <1>2
      <3>2. \A t \in Live(book) \cup {thread.k} : StartOffset[t] <= now
        BY <1>2, <2>1
      <3> QED
        BY <1>1, <2>1, <2>2, <3>1, <3>2, WorkStatuses, CallOnTime
    <2>4. Onward(thread.k) \/ thread' = [thread EXCEPT !.at = "record"]
      BY <1>10, Zenon DEF Operate
    <2>5. CASE Onward(thread.k)
      BY <1>1, <1>2, <2>3, <2>5, OnwardOnTime
    <2>6. CASE thread' = [thread EXCEPT !.at = "record"]
      BY <1>1, <1>2, <2>3, <2>6 DEF OnTime, Typed, Thread
    <2> QED
      BY <2>4, <2>5, <2>6
  <1>11. CASE RecordDecision
    <2>1. \/ Call(Paused(book)) /\ thread' = Idle
          \/ book' = book /\ Onward(thread.k)
      BY <1>11, Zenon DEF RecordDecision
    <2> QED
      BY <1>1, <1>2, <1>3, <2>1, OnwardOnTime
  <1>12. CASE OrderEventHandled
    <2>1. Live(book') \subseteq Live(book)
      BY <1>12, HandledOpensNone
    <2>2. thread'.at = "followup" /\ thread'.due = {}
      BY <1>12 DEF OrderEventHandled, Idle
    <2> QED
      BY <1>2, <2>1, <2>2 DEF OnTime
  <1>13. CASE FollowUp
    <2>1. book' = book
      BY <1>13 DEF FollowUp
    <2>2. CASE thread' = Idle
      BY <1>2, <2>1, <2>2 DEF OnTime, Idle
    <2>3. CASE thread' # Idle
      <3>1. thread.k \in Live(book)
        BY <1>13, <2>3 DEF FollowUp
      <3>2. \E job \in {"reconcile", "continue"} :
               thread' = [thread EXCEPT !.at = "operate", !.job = job]
        BY <1>13, <2>3 DEF FollowUp
      <3> QED
        BY <1>1, <1>2, <2>1, <3>1, <3>2 DEF OnTime, Typed, Thread
    <2> QED
      BY <2>2, <2>3
  <1>14. CASE WindowLost
    BY <1>3, <1>14 DEF WindowLost
  <1> QED
    BY <1>5, <1>6, <1>7, <1>8, <1>9, <1>10, <1>11, <1>12, <1>13, <1>14 DEF EventThread

LEMMA StepOnTime ==
    ASSUME SystemInv, OnTime(book, thread, now), SystemNext
    PROVE  OnTime(book', thread', now')
  <1>1. Sound(book) /\ Typed
    BY DEF SystemInv, IInv
  <1>2. \A t \in Live(book) \cup {} : StartOffset[t] <= now
    BY DEF OnTime
  <1>3. CASE EventThread
    <2>1. now' = now
      BY <1>3 DEF EventThread, TimerEvent, FindDue, ActivateDue, SweepTranche, ScanTranche,
                  Operate, WindowLost, RecordDecision, OrderEventHandled, FollowUp
    <2> QED
      BY <1>3, <2>1, EventThreadOnTime
  <1>4. CASE User
    <2>1. \/ Call(Paused(book))
          \/ MayResume(book) /\ Call(Resumed(book))
          \/ Call(Cancelled(book))
      BY <1>4 DEF User, UserPause, UserResume, UserCancel
    <2>2. \A t \in Live(book') : StartOffset[t] <= now
      BY <1>1, <1>2, <2>1, PausedStatuses, ResumedStatuses, CancelledStatuses, CallOnTime
    <2>3. now' = now /\ thread' = thread
      BY <1>4 DEF User
    <2> QED
      BY <2>2, <2>3 DEF OnTime
  <1>5. CASE Tock
    <2>1. book' = book /\ now' = now + 1 /\ thread' = Idle
      BY <1>5 DEF Tock
    <2>2. \A t \in Live(book) : StartOffset[t] <= now + 1
      BY <1>1, <1>2, ScheduleAssumption DEF Live, Typed
    <2> QED
      BY <2>1, <2>2 DEF OnTime, Idle
  <1>6. CASE MarketMoves \/ Venue \/ Outage \/ Logon
    <2>1. book' = book /\ now' = now /\ thread' = thread
      BY <1>6 DEF MarketMoves, Venue, Outage, Logon
    <2> QED
      BY <2>1
  <1> QED
    BY <1>3, <1>4, <1>5, <1>6 DEF SystemNext

LEMMA OnTimeInvariant == SystemSpec => [](SystemInv /\ OnTime(book, thread, now))
  <1>1. SystemInit => OnTime(book, thread, now)
    BY DEF SystemInit, Init, OnTime, Idle, Live
  <1>2. SystemInv /\ OnTime(book, thread, now) /\ [SystemNext]_vars
          => OnTime(book, thread, now)'
    <2>1. OnTime(book, thread, now) /\ UNCHANGED vars => OnTime(book, thread, now)'
      BY DEF vars, OnTime
    <2>2. OnTime(book', thread', now') => OnTime(book, thread, now)'
      BY DEF OnTime
    <2> QED
      BY <2>1, <2>2, StepOnTime
  <1> QED
    BY <1>1, <1>2, SystemInvariant, PTL DEF SystemSpec

LEMMA LeastNumber ==
    ASSUME NEW N \in SUBSET Nat, N # {}
    PROVE  \E n \in N : \A m \in N : n <= m
  <1>1. \E n \in N : \A m \in N : ~(<<m, n>> \in OpToRel(<, Nat))
    BY NatLessThanWellFounded, WFMin, Zenon
  <1>2. \A n, m \in Nat : m < n => <<m, n>> \in OpToRel(<, Nat)
    BY Zenon DEF OpToRel
  <1>3. \A n, m \in Nat : ~(m < n) => n <= m
    OBVIOUS
  <1> QED
    BY <1>1, <1>2, <1>3

LEMMA DisjointCardinality ==
    ASSUME NEW S, IsFiniteSet(S), NEW T, IsFiniteSet(T), S \cap T = {}
    PROVE  Cardinality(S \cup T) = Cardinality(S) + Cardinality(T)
  <1>1. Cardinality(S \cup T) = Cardinality(S) + Cardinality(T) - Cardinality(S \cap T)
    BY FS_Union
  <1>2. Cardinality(S) \in Nat /\ Cardinality(T) \in Nat /\ Cardinality(S \cap T) = 0
    BY FS_CardinalityType, FS_EmptySet
  <1> QED
    BY <1>1, <1>2

\* The order of due_to_start has a first element in every set of tranches.
LEMMA SoonestExists ==
    ASSUME NEW T \in SUBSET Tranches, T # {}
    PROVE  \E t \in T : \A s \in T \ {t} : Sooner(t, s)
  <1>1. Tranches \subseteq Nat
    BY TranchesAreNumbered, FS_CardinalityType
  <1> DEFINE ends == {DeadlineOffset[t] : t \in T}
  <1>2. ends \in SUBSET Nat /\ ends # {}
    BY ScheduleAssumption
  <1> HIDE DEF ends
  <1>3. PICK d \in ends : \A e \in ends : d <= e
    BY <1>2, LeastNumber
  <1> USE DEF ends
  <1>4. {t \in T : DeadlineOffset[t] = d} # {}
    BY <1>3
  <1>5. PICK t \in {s \in T : DeadlineOffset[s] = d} :
                \A s \in {s \in T : DeadlineOffset[s] = d} : t <= s
    BY <1>1, <1>4, LeastNumber
  <1>6. ASSUME NEW s \in T \ {t}
        PROVE  Sooner(t, s)
    <2>1. DeadlineOffset[t] = d /\ d \in Nat /\ DeadlineOffset[s] \in Nat
      BY <1>2, <1>3, <1>5, ScheduleAssumption
    <2>2. d <= DeadlineOffset[s]
      BY <1>3
    <2>3. t \in Nat /\ s \in Nat /\ (DeadlineOffset[s] = d => t <= s)
      BY <1>1, <1>5
    <2> QED
      BY <1>6, <2>1, <2>2, <2>3 DEF Sooner
  <1> QED
    BY <1>5, <1>6

\* The slots that are left are all used.
LEMMA SlotsAreUsed ==
    ASSUME NEW n \in Int, Due \ Soonest(n) # {}
    PROVE  Cardinality(Due \ Soonest(n)) <= Cardinality(Due) - n
  <1> DEFINE late == Due \ Soonest(n)
  <1>1. Due \in SUBSET Tranches /\ IsFiniteSet(Due)
    BY TranchesAreNumbered, FS_Subset DEF Due, Waiting
  <1>2. PICK t \in late : \A s \in late \ {t} : Sooner(t, s)
    BY <1>1, SoonestExists
  <1> DEFINE before == {s \in Due : Sooner(s, t)}
  <1>3. /\ IsFiniteSet(before) /\ before \subseteq Due
        /\ IsFiniteSet(late) /\ late \subseteq Due
        /\ Cardinality(before) \in Nat /\ Cardinality(late) \in Nat
    BY <1>1, FS_Subset, FS_CardinalityType
  <1>4. Cardinality(before) >= n
    BY <1>2, <1>3 DEF Soonest
  <1>5. before \cap late = {}
    <2> SUFFICES ASSUME NEW s \in before, s \in late
                 PROVE  FALSE
      OBVIOUS
    <2>1. Sooner(s, t) /\ (s # t => Sooner(t, s))
      BY <1>2
    <2>2. /\ s \in Nat /\ t \in Nat
          /\ DeadlineOffset[s] \in Nat /\ DeadlineOffset[t] \in Nat
      BY <1>1, <1>2, TranchesAreNumbered, FS_CardinalityType, ScheduleAssumption
    <2> QED
      BY <2>1, <2>2 DEF Sooner
  <1> HIDE DEF before, late
  <1>6. Cardinality(before \cup late) = Cardinality(before) + Cardinality(late)
    BY <1>3, <1>5, DisjointCardinality
  <1>7. /\ Cardinality(before \cup late) <= Cardinality(Due)
        /\ Cardinality(Due) \in Nat
    BY <1>1, <1>3, FS_Subset, FS_CardinalityType
  <1> QED
    BY <1>3, <1>4, <1>6, <1>7 DEF late

\* TrancheScheduler.capacity looks at the starts only, and bounds the windows open at any time.
LEMMA OpenWindowsFit ==
    ASSUME NEW at \in Nat
    PROVE  Cardinality({t \in Tranches : StartOffset[t] <= at /\ at < DeadlineOffset[t]})
             <= MaxActive
  <1> DEFINE open == {t \in Tranches : StartOffset[t] <= at /\ at < DeadlineOffset[t]}
  <1>1. CASE open = {}
    BY <1>1, FS_EmptySet, ScheduleAssumption
  <1>2. CASE open # {}
    <2>1. \A t \in Tranches : /\ StartOffset[t] \in Nat /\ DeadlineOffset[t] \in Nat
                              /\ Duration - StartOffset[t] \in Nat
      BY ScheduleAssumption, WindowAssumption
    <2> DEFINE left == {Duration - StartOffset[t] : t \in open}
    <2>2. left \in SUBSET Nat /\ left # {}
      BY <1>2, <2>1
    <2> HIDE DEF left
    <2>3. PICK d \in left : \A e \in left : d <= e
      BY <2>2, LeastNumber
    <2> USE DEF left
    <2>4. PICK u \in open : d = Duration - StartOffset[u]
      BY <2>3
    <2>5. \A t \in open : StartOffset[t] <= StartOffset[u]
      <3> TAKE t \in open
      <3>1. d <= Duration - StartOffset[t]
        BY <2>3
      <3> QED
        BY <2>1, <2>4, <3>1, ScheduleAssumption
    <2> DEFINE started == {t \in Tranches : StartOffset[t] <= StartOffset[u]}
               ended   == {t \in Tranches : DeadlineOffset[t] <= StartOffset[u]}
    <2>6. ended \subseteq started /\ open \subseteq started \ ended
      BY <2>1, <2>4, <2>5, WindowAssumption
    <2>7. /\ IsFiniteSet(started)
          /\ Cardinality(started) - Cardinality(ended) <= MaxActive
      BY <2>4, TranchesAreNumbered, FS_Subset, CapacityAssumption DEF OpenFrom
    <2> HIDE DEF started, ended, open
    <2>8. Cardinality(started \ ended) = Cardinality(started) - Cardinality(ended)
      <3>1. started \cap ended = ended
        BY <2>6
      <3> QED
        BY <2>7, <3>1, FS_Difference
    <2>9. Cardinality(open) <= Cardinality(started \ ended)
      <3>1. IsFiniteSet(started \ ended)
        BY <2>7, FS_Difference
      <3> QED
        BY <2>6, <3>1, FS_Subset
    <2>10. /\ Cardinality(open) \in Nat /\ MaxActive \in Nat
           /\ Cardinality(started) \in Nat /\ Cardinality(ended) \in Nat
      BY <2>6, <2>7, FS_Subset, FS_CardinalityType, ScheduleAssumption
    <2> QED
      BY <2>7, <2>8, <2>9, <2>10 DEF open
  <1> QED
    BY <1>1, <1>2

LEMMA WaitForTheLate ==
    ASSUME Typed, OnTime(book, thread, now)
    PROVE  Cardinality(Due \ DueToStart)
             <= Cardinality({t \in Due \cup Live(book) : DeadlineOffset[t] <= now})
  <1> DEFINE begun   == Due \cup Live(book)
             expired == {t \in begun : DeadlineOffset[t] <= now}
             open    == {t \in Tranches : StartOffset[t] <= now /\ now < DeadlineOffset[t]}
             slots   == MaxActive - Cardinality(Live(book))
             late    == Due \ DueToStart
  <1>1. now \in Nat /\ \A t \in Tranches : StartOffset[t] \in Nat /\ DeadlineOffset[t] \in Nat
    BY ScheduleAssumption DEF Typed
  <1>2. begun \ expired \subseteq open
    BY <1>1 DEF OnTime, Due, Waiting, Live
  <1>3. Cardinality(open) <= MaxActive
    BY <1>1, OpenWindowsFit
  <1>4. /\ Due \subseteq Tranches /\ Live(book) \subseteq Tranches /\ open \subseteq Tranches
        /\ Due \cap Live(book) = {}
    BY DEF Due, Waiting, Live
  <1>5. /\ IsFiniteSet(Due) /\ IsFiniteSet(Live(book)) /\ IsFiniteSet(open)
        /\ IsFiniteSet(begun) /\ IsFiniteSet(expired) /\ IsFiniteSet(begun \ expired)
    BY <1>4, TranchesAreNumbered, FS_Subset, FS_Union
  <1>6. expired \subseteq begun /\ late = Due \ Soonest(slots)
    BY DEF DueToStart
  <1> HIDE DEF open, expired, late
  <1>7. Cardinality(begun) = Cardinality(Due) + Cardinality(Live(book))
    BY <1>4, <1>5, DisjointCardinality
  <1> HIDE DEF begun
  <1>8. Cardinality(begun \ expired) = Cardinality(begun) - Cardinality(expired)
    <2>1. begun \cap expired = expired
      BY <1>6
    <2> QED
      BY <1>5, <2>1, FS_Difference
  <1>9. Cardinality(begun \ expired) <= Cardinality(open)
    BY <1>2, <1>5, FS_Subset
  <1>10. /\ Cardinality(Due) \in Nat /\ Cardinality(Live(book)) \in Nat
         /\ Cardinality(expired) \in Nat /\ Cardinality(begun) \in Nat
         /\ Cardinality(open) \in Nat /\ MaxActive \in Nat
    BY <1>5, FS_CardinalityType, ScheduleAssumption
  <1>11. CASE late = {}
    BY <1>10, <1>11, FS_EmptySet DEF late, expired, begun
  <1>12. CASE late # {}
    <2>1. Cardinality(late) <= Cardinality(Due) - slots
      BY <1>6, <1>10, <1>12, SlotsAreUsed
    <2>2. IsFiniteSet(late) /\ Cardinality(late) \in Nat
      BY <1>5, <1>6, FS_Subset, FS_CardinalityType
    <2>3. Cardinality(late) <= Cardinality(expired)
      BY <1>3, <1>7, <1>8, <1>9, <1>10, <2>1, <2>2
    <2> QED
      BY <2>3 DEF late, expired, begun
  <1> QED
    BY <1>11, <1>12

(***************************************************************************)
(* The capacity that start_parent checks suffices: a tranche whose start   *)
(* has come waits only for one that has outlived its own deadline, one     *)
(* waits for one.  The tranches that are due or live have all reached      *)
(* their start; those within their window are open together, so no more    *)
(* than max_active_tranches; and due_to_start uses every slot.             *)
(***************************************************************************)
THEOREM StartsInTimeHolds == SystemSpec => StartsInTime
  <1> DEFINE InTime ==
        FindDue => Cardinality(Due \ DueToStart)
                     <= Cardinality({t \in Due \cup Live(book) : DeadlineOffset[t] <= now})
  <1>1. SystemInv /\ OnTime(book, thread, now) /\ [SystemNext]_vars => [InTime]_vars
    BY WaitForTheLate DEF SystemInv
  <1> HIDE DEF InTime
  <1>2. SystemSpec => [][InTime]_vars
    BY <1>1, OnTimeInvariant, PTL DEF SystemSpec
  <1> QED
    BY <1>2, PTL DEF StartsInTime, InTime
=============================================================================
