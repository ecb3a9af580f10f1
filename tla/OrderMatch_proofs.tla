------------------------- MODULE OrderMatch_proofs -------------------------
(***************************************************************************)
(* The demo counterparty, for every number of orders, clients, prices and  *)
(* quantities: matching stops with nothing left to trade, in the order of  *)
(* price and time, and the owners are told the truth.                      *)
(***************************************************************************)
EXTENDS OrderMatch, FiniteSetTheorems, SequenceTheorems, WellFoundedInduction, TLAPS

(***************************************************************************)
(* The turns of Market::match: the recursive function exists, so what each *)
(* turn keeps holds when the loop is done.                                 *)
(***************************************************************************)
\* A set of natural numbers that is not empty has a least one.
LEMMA LeastTurn ==
    ASSUME NEW T \in SUBSET Nat, T # {}
    PROVE  \E x \in T : \A y \in T : x <= y
<1>1. \E x \in T : \A y \in T : ~(<<y, x>> \in OpToRel(<, Nat))
  BY NatLessThanWellFounded, WFMin, Zenon
<1>2. \A x, y \in Nat : y < x => <<y, x>> \in OpToRel(<, Nat)
  BY Zenon DEF OpToRel
<1>3. \A x, y \in Nat : ~(y < x) => x <= y
  OBVIOUS
<1> QED BY <1>1, <1>2, <1>3

\* A set that has 0 and every successor of its own has every natural number.
LEMMA EveryTurn ==
    ASSUME NEW S, 0 \in S, \A k \in Nat : k \in S => k + 1 \in S
    PROVE  Nat \subseteq S
<1> SUFFICES ASSUME Nat \ S # {} PROVE FALSE
  OBVIOUS
<1>1. PICK x \in Nat \ S : \A y \in Nat \ S : x <= y
  BY LeastTurn
<1>2. x - 1 \in Nat /\ x = (x - 1) + 1
  BY <1>1
<1>3. x - 1 \in S
  BY <1>1, <1>2
<1> QED BY <1>1, <1>2, <1>3

\* The first n turns, from m on.
Turns(m, n, f) ==
    /\ f = [k \in 0..n |-> f[k]]
    /\ f[0] = m
    /\ \A k \in Nat : k < n => f[k + 1] = MatchOnce(f[k])

LEMMA TurnsAgree ==
    ASSUME NEW m, NEW n \in Nat, NEW f, NEW g, Turns(m, n, f), Turns(m, n + 1, g)
    PROVE  \A k \in 0..n : f[k] = g[k]
<1> DEFINE S == {k \in Nat : k <= n => f[k] = g[k]}
<1>1. 0 \in S
  BY DEF Turns
<1>2. ASSUME NEW k \in Nat, k \in S PROVE k + 1 \in S
  <2> SUFFICES ASSUME k + 1 <= n PROVE f[k + 1] = g[k + 1]
    OBVIOUS
  <2>1. k < n /\ k < n + 1 /\ f[k] = g[k]
    BY <1>2
  <2>2. f[k + 1] = MatchOnce(f[k]) /\ g[k + 1] = MatchOnce(g[k])
    BY <2>1, Zenon DEF Turns
  <2> QED BY <2>1, <2>2
<1>3. Nat \subseteq S
  <2> HIDE DEF S
  <2> QED BY <1>1, <1>2, EveryTurn
<1> QED BY <1>3

LEMMA TurnsExist ==
    ASSUME NEW m, NEW n \in Nat
    PROVE  \E f : Turns(m, n, f)
<1> DEFINE S == {k \in Nat : \E f : Turns(m, k, f)}
<1>1. 0 \in S
  <2>1. Turns(m, 0, [k \in 0..0 |-> m])
    BY DEF Turns
  <2> QED BY <2>1
<1>2. ASSUME NEW k \in Nat, k \in S PROVE k + 1 \in S
  <2>1. PICK f : Turns(m, k, f)
    BY <1>2
  <2> DEFINE g == [j \in 0..(k + 1) |-> IF j = k + 1 THEN MatchOnce(f[k]) ELSE f[j]]
  <2>2. g[0] = m
    BY <2>1 DEF Turns
  <2>3. g = [j \in 0..(k + 1) |-> g[j]]
    OBVIOUS
  <2>4. ASSUME NEW j \in Nat, j < k + 1 PROVE g[j + 1] = MatchOnce(g[j])
    <3>1. g[j] = f[j]
      BY <2>4
    <3>2. CASE j = k
      BY <3>1, <3>2
    <3>3. CASE j < k
      <4>1. g[j + 1] = f[j + 1]
        BY <3>3
      <4>2. f[j + 1] = MatchOnce(f[j])
        BY <2>1, <3>3, Zenon DEF Turns
      <4> QED BY <3>1, <4>1, <4>2
    <3> QED BY <2>4, <3>2, <3>3
  <2>5. Turns(m, k + 1, g)
    <3> HIDE DEF g
    <3> QED BY <2>2, <2>3, <2>4 DEF Turns
  <2> QED BY <2>5
<1>3. Nat \subseteq S
  <2> HIDE DEF S
  <2> QED BY <1>1, <1>2, EveryTurn
<1> QED BY <1>3

\* Every turn of the loop follows from the one before.
LEMMA MatchedByTurns ==
    ASSUME NEW m
    PROVE  \E turn : /\ turn[0] = m
                     /\ \A k \in Nat : turn[k + 1] = MatchOnce(turn[k])
                     /\ Matched(m) = turn[Len(m.book["buy"]) + Len(m.book["sell"])]
<1> DEFINE first(n) == CHOOSE f : Turns(m, n, f)
           G == [n \in Nat |-> first(n)[n]]
           Body(turn) == [k \in Nat |-> IF k = 0 THEN m ELSE MatchOnce(turn[k - 1])]
           H == CHOOSE turn : turn = Body(turn)
<1>1. \A n \in Nat : Turns(m, n, first(n))
  BY TurnsExist, Zenon
<1>2. G[0] = m
  BY <1>1 DEF Turns
<1>3. ASSUME NEW k \in Nat PROVE G[k + 1] = MatchOnce(G[k])
  <2> HIDE DEF first
  <2>1. k + 1 \in Nat /\ k \in 0..k /\ k < k + 1
    OBVIOUS
  <2>2. Turns(m, k, first(k)) /\ Turns(m, k + 1, first(k + 1))
    BY <1>1, <2>1
  <2>3. \A j \in 0..k : first(k)[j] = first(k + 1)[j]
    BY <2>2, TurnsAgree
  <2>4. first(k + 1)[k + 1] = MatchOnce(first(k + 1)[k])
    BY <2>1, <2>2, Zenon DEF Turns
  <2> QED BY <2>1, <2>3, <2>4
<1>4. G = Body(G)
  <2> HIDE DEF first
  <2>1. \A k \in Nat : G[k] = IF k = 0 THEN m ELSE MatchOnce(G[k - 1])
    <3> TAKE k \in Nat
    <3>1. CASE k = 0
      BY <1>2, <3>1
    <3>2. CASE k # 0
      <4>1. k - 1 \in Nat /\ (k - 1) + 1 = k
        BY <3>2
      <4>2. G[(k - 1) + 1] = MatchOnce(G[k - 1])
        BY <1>3, <4>1, Zenon
      <4> QED BY <3>2, <4>1, <4>2
    <3> QED BY <3>1, <3>2
  <2>2. G = [k \in Nat |-> G[k]]
    OBVIOUS
  <2> HIDE DEF G
  <2> QED BY <2>1, <2>2
<1>5. H = Body(H)
  <2> HIDE DEF G, Body
  <2> QED BY <1>4, Zenon
<1>6. H[0] = m /\ \A k \in Nat : H[k + 1] = MatchOnce(H[k])
  <2> HIDE DEF H
  <2>1. \A k \in Nat : H[k] = IF k = 0 THEN m ELSE MatchOnce(H[k - 1])
    BY <1>5
  <2>2. ASSUME NEW k \in Nat PROVE H[k + 1] = MatchOnce(H[k])
    <3>1. k + 1 \in Nat /\ k + 1 # 0 /\ (k + 1) - 1 = k
      OBVIOUS
    <3> QED BY <2>1, <3>1
  <2> QED BY <2>1, <2>2
<1>7. Matched(m) = H[Len(m.book["buy"]) + Len(m.book["sell"])]
  BY Zenon DEF Matched
<1> HIDE DEF H
<1> QED BY <1>6, <1>7

(***************************************************************************)
(* What holds of a book with its reports, between any two trades.          *)
(***************************************************************************)
\* The two together, as Market::match has them.
Both == [book |-> book, reports |-> reports]

Typed(m) == m.book \in [Sides -> Seq(Order)] /\ m.reports \in Seq(Seq(Report))

\* An order stands on its side, and something was told about it.
Stands(m) ==
    \A s \in Sides : \A i \in DOMAIN m.book[s] :
        LET o == m.book[s][i]
        IN  /\ o.side = s /\ o.open + o.executed = o.quantity
            /\ o.arrival \in DOMAIN m.reports

\* Price first, then time.
Ranked(m) ==
    \A s \in Sides : \A i, j \in DOMAIN m.book[s] : i < j => Precedes(m.book[s][i], m.book[s][j])

\* An order is in one place.
Apart(m) ==
    \A s, t \in Sides : \A i \in DOMAIN m.book[s], j \in DOMAIN m.book[t] :
        m.book[s][i].arrival = m.book[t][j].arrival => s = t /\ i = j

TrueOf(o, told) ==
    told.status \in {"NEW", "PARTIALLY_FILLED"} /\ told.leaves = o.open /\ told.cum = o.executed

LastIsTrue(m) ==
    \A s \in Sides : \A i \in DOMAIN m.book[s] :
        TrueOf(m.book[s][i], Last(m.reports[m.book[s][i].arrival]))

\* A report may follow another one.
Follows(later, earlier) ==
    /\ earlier.status \in {"NEW", "PARTIALLY_FILLED"}
    /\ later.leaves + later.cum = earlier.leaves + earlier.cum \/ later.status = "CANCELED"

Story(told) == told # <<>> /\ \A i \in 1 .. Len(told) - 1 : Follows(told[i + 1], told[i])

OneStory(m) == \A n \in DOMAIN m.reports : Story(m.reports[n])

Sound(m) == Typed(m) /\ Stands(m) /\ Ranked(m) /\ Apart(m) /\ LastIsTrue(m) /\ OneStory(m)

Rests(m, n) == \E s \in Sides : \E i \in DOMAIN m.book[s] : m.book[s][i].arrival = n

Finished(told) == told.status \in {"FILLED", "CANCELED", "REJECTED"} /\ told.leaves = 0

\* An order that is not in the book is known to be finished.
Accounted(m) == \A n \in DOMAIN m.reports : Rests(m, n) \/ Finished(Last(m.reports[n]))

\* Nothing below zero was told of an order, and what was executed only grew.
Grown(told) ==
    /\ \A i \in 1 .. Len(told) : told[i].leaves >= 0 /\ told[i].cum >= 0
    /\ \A i \in 1 .. Len(told) - 1 : told[i].cum <= told[i + 1].cum

NoneBelowZero(m) ==
    /\ \A s \in Sides : \A i \in DOMAIN m.book[s] :
           m.book[s][i].open >= 0 /\ m.book[s][i].executed >= 0
    /\ \A n \in DOMAIN m.reports : Grown(m.reports[n])

\* One negative order may spoil the quantities of the others.
Unspoilt(m) == NoNegativeOrder(m.reports) => NoneBelowZero(m)

(***************************************************************************)
(* Sequences of orders and of reports.                                     *)
(***************************************************************************)
LEMMA BookIs ==
    ASSUME NEW m, Typed(m), NEW s \in Sides
    PROVE  /\ m.book[s] \in Seq(Order) /\ Len(m.book[s]) \in Nat
           /\ DOMAIN m.book[s] = 1 .. Len(m.book[s])
           /\ \A i \in DOMAIN m.book[s] : m.book[s][i] \in Order
<1>1. m.book[s] \in Seq(Order)
  BY DEF Typed
<1> QED BY <1>1, LenProperties, ElementOfSeq

LEMMA OrderIs ==
    ASSUME NEW o \in Order
    PROVE  /\ o.arrival \in Nat /\ o.id \in ClientIds /\ o.side \in Sides /\ o.price \in Int
           /\ o.price \in Prices /\ o.quantity \in Quantities /\ o.quantity \in Int
           /\ o.open \in Int /\ o.executed \in Int
  BY OrdersAssumption DEF Order

LEMMA ReportsAre ==
    ASSUME NEW all \in Seq(Seq(Report)), NEW n \in DOMAIN all
    PROVE  /\ all[n] \in Seq(Report) /\ Len(all[n]) \in Nat
           /\ DOMAIN all = 1 .. Len(all) /\ Len(all) \in Nat /\ n \in Nat
           /\ all[n] # <<>> => Len(all[n]) >= 1 /\ Last(all[n]) \in Report
<1>1. DOMAIN all = 1 .. Len(all) /\ Len(all) \in Nat
  BY LenProperties
<1>2. all[n] \in Seq(Report)
  BY <1>1, ElementOfSeq
<1>3. Len(all[n]) \in Nat
  BY <1>2, LenProperties
<1>4. ASSUME all[n] # <<>> PROVE Len(all[n]) >= 1 /\ Last(all[n]) \in Report
  <2>1. Len(all[n]) >= 1
    BY <1>2, <1>4, EmptySeq
  <2>2. Len(all[n]) \in 1 .. Len(all[n])
    BY <1>3, <2>1
  <2> QED BY <1>2, <2>1, <2>2, ElementOfSeq DEF Last
<1> QED BY <1>1, <1>2, <1>3, <1>4

LEMMA Appended ==
    ASSUME NEW S, NEW told \in Seq(S), NEW r \in S
    PROVE  /\ Append(told, r) \in Seq(S) /\ Append(told, r) # <<>>
           /\ Len(told) \in Nat /\ Len(Append(told, r)) = Len(told) + 1
           /\ \A i \in 1 .. Len(told) : Append(told, r)[i] = told[i]
           /\ Append(told, r)[Len(told) + 1] = r
           /\ Last(Append(told, r)) = r
<1>1. Len(told) \in Nat
  BY LenProperties
<1>2. /\ Append(told, r) \in Seq(S)
      /\ Len(Append(told, r)) = Len(told) + 1
      /\ Append(told, r)[Len(told) + 1] = r
      /\ \A i \in 1 .. Len(told) : Append(told, r)[i] = told[i]
  BY AppendProperties
<1>3. Append(told, r) # <<>>
  BY <1>1, <1>2, EmptySeq
<1> QED BY <1>1, <1>2, <1>3 DEF Last

\* A report that follows the last one keeps the story.
LEMMA StoryGoesOn ==
    ASSUME NEW told \in Seq(Report), NEW r \in Report, Story(told), Follows(r, Last(told))
    PROVE  Story(Append(told, r))
<1> DEFINE all == Append(told, r)
<1>1. /\ all # <<>> /\ Len(told) \in Nat /\ Len(all) = Len(told) + 1
      /\ \A i \in 1 .. Len(told) : all[i] = told[i]
      /\ all[Len(told) + 1] = r
  BY Appended
<1> HIDE DEF all
<1>2. \A i \in 1 .. Len(told) - 1 : Follows(told[i + 1], told[i])
  BY DEF Story
<1>3. ASSUME NEW i \in 1 .. Len(all) - 1 PROVE Follows(all[i + 1], all[i])
  <2>1. i \in 1 .. Len(told) /\ all[i] = told[i]
    BY <1>1
  <2>2. CASE i = Len(told)
    <3>1. all[i + 1] = r /\ told[i] = Last(told)
      BY <1>1, <2>2 DEF Last
    <3> QED BY <2>1, <3>1
  <2>3. CASE i # Len(told)
    <3>1. i \in 1 .. Len(told) - 1 /\ i + 1 \in 1 .. Len(told)
      BY <1>1, <2>1, <2>3
    <3>2. all[i + 1] = told[i + 1]
      BY <1>1, <3>1
    <3> QED BY <1>2, <2>1, <3>1, <3>2
  <2> QED BY <2>2, <2>3
<1>4. Story(all)
  BY <1>1, <1>3 DEF Story
<1> QED BY <1>4 DEF all

\* A report that takes nothing back keeps the executed quantity growing.
LEMMA GrowsOn ==
    ASSUME NEW told \in Seq(Report), NEW r \in Report, Story(told), Grown(told),
           r.leaves >= 0, r.cum >= 0, Last(told).cum <= r.cum
    PROVE  Grown(Append(told, r))
<1> DEFINE all == Append(told, r)
<1>1. /\ Len(told) \in Nat /\ Len(all) = Len(told) + 1
      /\ \A i \in 1 .. Len(told) : all[i] = told[i]
      /\ all[Len(told) + 1] = r
  BY Appended
<1> HIDE DEF all
<1>2. ASSUME NEW i \in 1 .. Len(all) PROVE all[i].leaves >= 0 /\ all[i].cum >= 0
  <2>1. CASE i = Len(told) + 1
    BY <1>1, <2>1
  <2>2. CASE i # Len(told) + 1
    <3>1. i \in 1 .. Len(told)
      BY <1>1, <2>2
    <3> QED BY <1>1, <3>1 DEF Grown
  <2> QED BY <2>1, <2>2
<1>3. ASSUME NEW i \in 1 .. Len(all) - 1 PROVE all[i].cum <= all[i + 1].cum
  <2>1. i \in 1 .. Len(told) /\ all[i] = told[i]
    BY <1>1
  <2>2. CASE i = Len(told)
    BY <1>1, <2>1, <2>2 DEF Last
  <2>3. CASE i # Len(told)
    <3>1. i \in 1 .. Len(told) - 1 /\ i + 1 \in 1 .. Len(told)
      BY <1>1, <2>1, <2>3
    <3>2. all[i + 1] = told[i + 1]
      BY <1>1, <3>1
    <3> QED BY <2>1, <3>1, <3>2 DEF Grown
  <2> QED BY <2>2, <2>3
<1>4. Grown(all)
  BY <1>2, <1>3 DEF Grown
<1> QED BY <1>4 DEF all

\* The first report of every order is the one it had: m.reports continue in n.
LEMMA FirstStays ==
    ASSUME NEW all \in Seq(Seq(Report)), NEW new, DOMAIN new = DOMAIN all,
           \A k \in DOMAIN all :
               /\ Story(all[k])
               /\ \/ new[k] = all[k]
                  \/ \E r \in Report : new[k] = Append(all[k], r),
           NoNegativeOrder(new)
    PROVE  NoNegativeOrder(all)
<1> SUFFICES ASSUME NEW k \in DOMAIN all PROVE new[k][1] = all[k][1]
  BY DEF NoNegativeOrder
<1>1. all[k] \in Seq(Report) /\ all[k] # <<>>
  BY ReportsAre DEF Story
<1>2. Len(all[k]) \in Nat /\ 1 \in 1 .. Len(all[k])
  BY <1>1, ReportsAre
<1>3. CASE new[k] = all[k]
  BY <1>3
<1>4. CASE \E r \in Report : new[k] = Append(all[k], r)
  <2>1. PICK r \in Report : new[k] = Append(all[k], r)
    BY <1>4
  <2> QED BY <1>1, <1>2, <2>1, Appended
<1> QED BY <1>3, <1>4

LEMMA ToldIs ==
    ASSUME NEW all \in Seq(Seq(Report)), NEW o, o.arrival \in DOMAIN all, NEW r \in Report
    PROVE  /\ Told(all, o, r) \in Seq(Seq(Report))
           /\ DOMAIN Told(all, o, r) = DOMAIN all
           /\ \A n \in DOMAIN all : Told(all, o, r)[n] =
                  IF n = o.arrival THEN Append(all[n], r) ELSE all[n]
<1> DEFINE a == o.arrival
           e == Append(all[a], r)
<1>1. all[a] \in Seq(Report) /\ DOMAIN all = 1 .. Len(all)
  BY ReportsAre
<1>2. e \in Seq(Report)
  BY <1>1, Appended
<1>3. Told(all, o, r) = [all EXCEPT ![a] = e]
  BY DEF Told
<1> HIDE DEF e
<1>4. a \in 1 .. Len(all)
  BY <1>1
<1> HIDE DEF a
<1>5. [all EXCEPT ![a] = e] \in Seq(Seq(Report))
  BY <1>2, <1>4, ExceptSeq
<1> QED BY <1>1, <1>3, <1>5 DEF a, e

\* new is all after the reports r and t on two orders.
Tells(new, all, o, r, p, t) ==
    /\ new \in Seq(Seq(Report)) /\ DOMAIN new = DOMAIN all
    /\ new[o.arrival] = Append(all[o.arrival], r)
    /\ new[p.arrival] = Append(all[p.arrival], t)
    /\ \A k \in DOMAIN all : k # o.arrival /\ k # p.arrival => new[k] = all[k]

LEMMA ToldTwice ==
    ASSUME NEW all \in Seq(Seq(Report)), NEW o, NEW p, NEW r \in Report, NEW t \in Report,
           o.arrival \in DOMAIN all, p.arrival \in DOMAIN all, o.arrival # p.arrival
    PROVE  Tells(Told(Told(all, o, r), p, t), all, o, r, p, t)
<1> DEFINE first == Told(all, o, r)
<1>1. /\ first \in Seq(Seq(Report)) /\ DOMAIN first = DOMAIN all
      /\ \A n \in DOMAIN all : first[n] = IF n = o.arrival THEN Append(all[n], r) ELSE all[n]
  BY ToldIs
<1> HIDE DEF first
<1>2. /\ Told(first, p, t) \in Seq(Seq(Report)) /\ DOMAIN Told(first, p, t) = DOMAIN first
      /\ \A n \in DOMAIN first :
             Told(first, p, t)[n] = IF n = p.arrival THEN Append(first[n], t) ELSE first[n]
  BY <1>1, ToldIs
<1>3. /\ Told(first, p, t) \in Seq(Seq(Report))
      /\ DOMAIN Told(first, p, t) = DOMAIN all
      /\ Told(first, p, t)[o.arrival] = Append(all[o.arrival], r)
      /\ Told(first, p, t)[p.arrival] = Append(all[p.arrival], t)
      /\ \A k \in DOMAIN all :
             k # o.arrival /\ k # p.arrival => Told(first, p, t)[k] = all[k]
  BY <1>1, <1>2
<1> QED BY <1>3 DEF first, Tells

(***************************************************************************)
(* One trade.                                                              *)
(***************************************************************************)
Same(o, p) ==
    /\ o.arrival = p.arrival /\ o.id = p.id /\ o.side = p.side /\ o.price = p.price
    /\ o.quantity = p.quantity

\* n is m after the best orders were executed, leaving e, and d of them closed.
TradeOf(m, n, e, d) ==
    /\ \A s \in Sides :
           /\ m.book[s] # <<>>
           /\ e[s] \in Order /\ Same(e[s], m.book[s][1])
           /\ e[s].open + e[s].executed = m.book[s][1].open + m.book[s][1].executed
           /\ (\A t \in Sides : m.book[t][1].open >= 0) =>
                  e[s].open >= 0 /\ e[s].executed >= m.book[s][1].executed
           /\ d[s] \in {0, 1} /\ (d[s] = 1 <=> e[s].open = 0)
           /\ n.book[s] \in Seq(Order)
           /\ Len(n.book[s]) = Len(m.book[s]) - d[s]
           /\ \A i \in 1 .. Len(n.book[s]) :
                  n.book[s][i] = IF i = 1 /\ d[s] = 0 THEN e[s] ELSE m.book[s][i + d[s]]
    /\ d["buy"] = 1 \/ d["sell"] = 1
    /\ n.book = [s \in Sides |-> n.book[s]]
    /\ n.reports \in Seq(Seq(Report)) /\ DOMAIN n.reports = DOMAIN m.reports
    /\ \A s \in Sides :
           n.reports[e[s].arrival] = Append(m.reports[e[s].arrival], fillOrder(e[s]))
    /\ \A k \in DOMAIN m.reports :
           (\A s \in Sides : k # e[s].arrival) => n.reports[k] = m.reports[k]

\* The quantity of a trade is all that is open on one side, and open on the
\* other one too, unless the order is negative.
LEMMA TradedIs ==
    ASSUME NEW bid \in Order, NEW ask \in Order
    PROVE  /\ Traded(bid, ask) \in Int
           /\ Traded(bid, ask) <= bid.open /\ Traded(bid, ask) <= ask.open
           /\ Traded(bid, ask) = bid.open \/ Traded(bid, ask) = ask.open
  BY OrderIs DEF Traded

LEMMA ExecutedIs ==
    ASSUME NEW o \in Order, NEW q \in Int
    PROVE  /\ Executed(o, q) \in Order /\ Same(Executed(o, q), o)
           /\ Executed(o, q).open = o.open - q /\ Executed(o, q).executed = o.executed + q
<1>1. o.open \in Int /\ o.executed \in Int
  BY OrderIs
<1>2. o.open - q \in Int /\ o.executed + q \in Int
  BY <1>1
<1>3. Executed(o, q) = [o EXCEPT !.open = o.open - q, !.executed = o.executed + q]
  BY DEF Executed
<1> QED BY <1>2, <1>3 DEF Order, Same

LEMMA ReplacedIs ==
    ASSUME NEW q \in Seq(Order), q # <<>>, NEW o \in Order
    PROVE  /\ Replaced(q, o) \in Seq(Order)
           /\ Len(Replaced(q, o)) = Len(q) - (IF o.open = 0 THEN 1 ELSE 0)
           /\ \A i \in 1 .. Len(Replaced(q, o)) : Replaced(q, o)[i] =
                  IF i = 1 /\ o.open # 0 THEN o ELSE q[i + (IF o.open = 0 THEN 1 ELSE 0)]
<1>1. /\ Tail(q) \in Seq(Order) /\ Len(Tail(q)) = Len(q) - 1 /\ Len(q) \in Nat
      /\ \A i \in 1 .. Len(Tail(q)) : Tail(q)[i] = q[i + 1]
  BY HeadTailProperties, LenProperties
<1>2. CASE o.open = 0
  <2>1. Replaced(q, o) = Tail(q)
    BY <1>2 DEF Replaced, isClosed
  <2> QED BY <1>1, <1>2, <2>1
<1>3. CASE o.open # 0
  <2>1. Replaced(q, o) = <<o>> \o Tail(q)
    BY <1>3 DEF Replaced, isClosed
  <2>2. <<o>> \in Seq(Order) /\ Len(<<o>>) = 1 /\ <<o>>[1] = o
    OBVIOUS
  <2>3. /\ <<o>> \o Tail(q) \in Seq(Order)
        /\ Len(<<o>> \o Tail(q)) = Len(<<o>>) + Len(Tail(q))
        /\ \A i \in 1 .. Len(<<o>>) + Len(Tail(q)) : (<<o>> \o Tail(q))[i] =
               IF i <= Len(<<o>>) THEN <<o>>[i] ELSE Tail(q)[i - Len(<<o>>)]
    BY <1>1, <2>2, ConcatProperties
  <2>4. Len(Replaced(q, o)) = Len(q)
    BY <1>1, <2>1, <2>2, <2>3
  <2>5. ASSUME NEW i \in 1 .. Len(Replaced(q, o))
        PROVE  Replaced(q, o)[i] = IF i = 1 THEN o ELSE q[i]
    <3>1. i \in 1 .. Len(<<o>>) + Len(Tail(q))
      BY <1>1, <2>2, <2>4
    <3>2. CASE i = 1
      BY <2>1, <2>2, <2>3, <3>1, <3>2
    <3>3. CASE i # 1
      <4>1. i - 1 \in 1 .. Len(Tail(q)) /\ (i - 1) + 1 = i
        BY <1>1, <2>4, <3>3
      <4>2. Replaced(q, o)[i] = Tail(q)[i - 1]
        BY <2>1, <2>2, <2>3, <3>1, <3>3
      <4>3. Tail(q)[i - 1] = q[(i - 1) + 1]
        BY <1>1, <4>1
      <4> QED BY <3>3, <4>1, <4>2, <4>3
    <3> QED BY <3>2, <3>3
  <2> QED BY <1>3, <2>1, <2>3, <2>4, <2>5
<1> QED BY <1>2, <1>3

LEMMA FillIs ==
    ASSUME NEW o \in Order, o.open + o.executed = o.quantity
    PROVE  /\ fillOrder(o) \in Report
           /\ fillOrder(o).leaves = o.open /\ fillOrder(o).cum = o.executed
           /\ o.open = 0 => fillOrder(o).status = "FILLED"
           /\ o.open # 0 => fillOrder(o).status = "PARTIALLY_FILLED"
<1>1. o.open \in Int /\ o.executed \in Int
  BY OrderIs
<1>2. isFilled(o) <=> o.open = 0
  BY <1>1 DEF isFilled
<1> QED BY <1>1, <1>2 DEF fillOrder, updateOrder, Report, Statuses

LEMMA FirstStands ==
    ASSUME NEW m, Sound(m), NEW s \in Sides, m.book[s] # <<>>
    PROVE  /\ 1 \in DOMAIN m.book[s] /\ Head(m.book[s]) = m.book[s][1]
           /\ m.book[s][1] \in Order
           /\ m.book[s][1].arrival \in DOMAIN m.reports
           /\ m.book[s][1].open + m.book[s][1].executed = m.book[s][1].quantity
<1>1. m.book[s] \in Seq(Order) /\ Len(m.book[s]) \in Nat /\ DOMAIN m.book[s] = 1 .. Len(m.book[s])
  BY BookIs DEF Sound
<1>2. 1 \in DOMAIN m.book[s]
  BY <1>1, EmptySeq
<1> QED BY <1>1, <1>2, BookIs DEF Sound, Stands

LEMMA TradeIs ==
    ASSUME NEW m, Sound(m), CanTrade(m.book)
    PROVE  \E e, d : TradeOf(m, Trade(m), e, d)
<1> DEFINE h(s) == m.book[s][1]
           q == Traded(h("buy"), h("sell"))
           e == [s \in Sides |-> Executed(h(s), q)]
           d == [s \in Sides |-> IF e[s].open = 0 THEN 1 ELSE 0]
           n == Trade(m)
<1>1. "buy" \in Sides /\ "sell" \in Sides /\ \A s \in Sides : s = "buy" \/ s = "sell"
  BY DEF Sides
<1>2. \A s \in Sides : m.book[s] # <<>>
  BY <1>1 DEF CanTrade
<1>3. \A s \in Sides : /\ h(s) \in Order /\ Head(m.book[s]) = h(s)
                       /\ h(s).arrival \in DOMAIN m.reports /\ 1 \in DOMAIN m.book[s]
                       /\ h(s).open + h(s).executed = h(s).quantity
  BY <1>2, FirstStands
<1>4. /\ q \in Int /\ \A s \in Sides : q <= h(s).open
      /\ q = h("buy").open \/ q = h("sell").open
  BY <1>1, <1>3, TradedIs
<1>5. \A s \in Sides : /\ e[s] \in Order /\ Same(e[s], h(s))
                       /\ e[s].open = h(s).open - q /\ e[s].executed = h(s).executed + q
  BY <1>3, <1>4, ExecutedIs
<1>6. \A s \in Sides : h(s).open \in Int /\ h(s).executed \in Int
  BY <1>3, OrderIs
<1>7. \A s \in Sides : /\ e[s].open + e[s].executed = h(s).open + h(s).executed
                       /\ e[s].open + e[s].executed = e[s].quantity
                       /\ e[s].arrival = h(s).arrival
  <2> HIDE DEF q, h, e
  <2> QED BY <1>3, <1>4, <1>5, <1>6 DEF Same
<1>23. ASSUME \A t \in Sides : h(t).open >= 0, NEW s \in Sides
       PROVE  e[s].open >= 0 /\ e[s].executed >= h(s).executed
  <2> HIDE DEF q, h, e
  <2>1. q >= 0 /\ q <= h(s).open
    BY <1>1, <1>4, <1>23
  <2> QED BY <1>4, <1>5, <1>6, <2>1
<1>8. e["buy"].open = 0 \/ e["sell"].open = 0
  <2> HIDE DEF q, h, e
  <2> QED BY <1>1, <1>4, <1>5, <1>6
<1>9. n = [book    |-> [s \in Sides |-> Replaced(m.book[s], e[s])],
           reports |-> Told(Told(m.reports, e["buy"], fillOrder(e["buy"])),
                            e["sell"], fillOrder(e["sell"]))]
  BY <1>1, <1>3 DEF Trade
<1>10. \A s \in Sides :
          /\ n.book[s] \in Seq(Order)
          /\ Len(n.book[s]) = Len(m.book[s]) - d[s]
          /\ \A i \in 1 .. Len(n.book[s]) :
                 n.book[s][i] = IF i = 1 /\ d[s] = 0 THEN e[s] ELSE m.book[s][i + d[s]]
  <2> TAKE s \in Sides
  <2>1. n.book[s] = Replaced(m.book[s], e[s]) /\ d[s] = IF e[s].open = 0 THEN 1 ELSE 0
    BY <1>9
  <2>2. m.book[s] \in Seq(Order)
    BY BookIs DEF Sound
  <2>3. m.book[s] # <<>> /\ e[s] \in Order
    BY <1>2, <1>5
  <2> HIDE DEF n, e, d
  <2> DEFINE b == m.book[s]
             o == e[s]
  <2>4. b \in Seq(Order) /\ b # <<>> /\ o \in Order
    BY <2>2, <2>3
  <2>5. n.book[s] = Replaced(b, o) /\ d[s] = IF o.open = 0 THEN 1 ELSE 0
    BY <2>1
  <2> HIDE DEF b, o
  <2>6. /\ Replaced(b, o) \in Seq(Order)
        /\ Len(Replaced(b, o)) = Len(b) - (IF o.open = 0 THEN 1 ELSE 0)
        /\ \A i \in 1 .. Len(Replaced(b, o)) : Replaced(b, o)[i] =
               IF i = 1 /\ o.open # 0 THEN o ELSE b[i + (IF o.open = 0 THEN 1 ELSE 0)]
    BY <2>4, ReplacedIs
  <2>7. /\ n.book[s] \in Seq(Order)
        /\ Len(n.book[s]) = Len(b) - d[s]
        /\ \A i \in 1 .. Len(n.book[s]) : n.book[s][i] = IF i = 1 /\ d[s] = 0 THEN o ELSE b[i + d[s]]
    BY <2>5, <2>6
  <2> QED BY <2>7 DEF b, o
<1> DEFINE r(s) == fillOrder(e[s])
<1>11. n.reports = Told(Told(m.reports, e["buy"], r("buy")), e["sell"], r("sell"))
  BY <1>9
<1>12. \A s \in Sides : r(s) \in Report
  <2> HIDE DEF e
  <2> QED BY <1>5, <1>7, FillIs
<1>13. \A s \in Sides : e[s].arrival \in DOMAIN m.reports
  <2> HIDE DEF e, h
  <2> QED BY <1>3, <1>7
<1>14. e["buy"].arrival # e["sell"].arrival
  <2>1. h("buy").arrival # h("sell").arrival
    BY <1>1, <1>3 DEF Sound, Apart
  <2> HIDE DEF e, h
  <2> QED BY <1>1, <1>7, <2>1
<1>15. m.reports \in Seq(Seq(Report))
  BY DEF Sound, Typed
<1>18. /\ n.reports \in Seq(Seq(Report)) /\ DOMAIN n.reports = DOMAIN m.reports
       /\ \A s \in Sides : n.reports[e[s].arrival] = Append(m.reports[e[s].arrival], r(s))
       /\ \A k \in DOMAIN m.reports :
              (\A s \in Sides : k # e[s].arrival) => n.reports[k] = m.reports[k]
  <2> DEFINE o == e["buy"]
             p == e["sell"]
             t == r("buy")
             u == r("sell")
             all == m.reports
  <2>1. /\ all \in Seq(Seq(Report)) /\ t \in Report /\ u \in Report
        /\ o.arrival \in DOMAIN all /\ p.arrival \in DOMAIN all /\ o.arrival # p.arrival
    <3> HIDE DEF e, r
    <3> QED BY <1>1, <1>12, <1>13, <1>14, <1>15
  <2>2. n.reports = Told(Told(all, o, t), p, u)
    BY <1>11
  <2> HIDE DEF o, p, t, u, all, n
  <2>3. Tells(Told(Told(all, o, t), p, u), all, o, t, p, u)
    BY <2>1, ToldTwice, Zenon
  <2>4. /\ n.reports \in Seq(Seq(Report)) /\ DOMAIN n.reports = DOMAIN all
        /\ n.reports[o.arrival] = Append(all[o.arrival], t)
        /\ n.reports[p.arrival] = Append(all[p.arrival], u)
        /\ \A k \in DOMAIN all : k # o.arrival /\ k # p.arrival => n.reports[k] = all[k]
    BY <2>2, <2>3 DEF Tells
  <2>5. \A s \in Sides : \/ e[s] = o /\ r(s) = t
                         \/ e[s] = p /\ r(s) = u
    BY <1>1 DEF o, p, t, u
  <2>6. o = e["buy"] /\ p = e["sell"] /\ all = m.reports
    BY DEF o, p, all
  <2> HIDE DEF e, r
  <2> QED BY <1>1, <2>4, <2>5, <2>6
<1>19. n.book = [s \in Sides |-> n.book[s]]
  BY <1>9
<1>20. \A s \in Sides : d[s] \in {0, 1} /\ (d[s] = 1 <=> e[s].open = 0)
  OBVIOUS
<1>21. d["buy"] = 1 \/ d["sell"] = 1
  BY <1>1, <1>8
<1>22. TradeOf(m, n, e, d)
  <2>1. \A s \in Sides : /\ e[s] \in Order /\ Same(e[s], m.book[s][1])
                         /\ e[s].open + e[s].executed = m.book[s][1].open + m.book[s][1].executed
                         /\ (\A t \in Sides : m.book[t][1].open >= 0) =>
                                e[s].open >= 0 /\ e[s].executed >= m.book[s][1].executed
    BY <1>5, <1>7, <1>23
  <2> HIDE DEF e, d, n
  <2> QED BY <1>2, <2>1, <1>10, <1>18, <1>19, <1>20, <1>21, Zenon DEF TradeOf
<1> QED BY <1>22

\* Where an order of the book after a trade stood before it: at the head, and
\* then it is what was executed, or further back, and then nothing was told.
LEMMA TradeMoves ==
    ASSUME NEW m, NEW n, NEW e, NEW d, Sound(m), TradeOf(m, n, e, d),
           NEW s \in Sides, NEW i \in DOMAIN n.book[s]
    PROVE  /\ i \in Nat /\ i + d[s] \in DOMAIN m.book[s]
           /\ Same(n.book[s][i], m.book[s][i + d[s]])
           /\ \/ i = 1 /\ d[s] = 0 /\ n.book[s][i] = e[s] /\ e[s].open # 0
              \/ /\ i + d[s] > 1 /\ n.book[s][i] = m.book[s][i + d[s]]
                 /\ n.reports[n.book[s][i].arrival] = m.reports[n.book[s][i].arrival]
<1>1. /\ m.book[s] # <<>> /\ m.book[s] \in Seq(Order) /\ Len(m.book[s]) \in Nat
      /\ DOMAIN m.book[s] = 1 .. Len(m.book[s])
  BY BookIs DEF Sound, TradeOf
<1>2. /\ e[s] \in Order /\ Same(e[s], m.book[s][1]) /\ d[s] \in {0, 1} /\ (d[s] = 1 <=> e[s].open = 0)
      /\ n.book[s] \in Seq(Order) /\ Len(n.book[s]) = Len(m.book[s]) - d[s]
      /\ n.book[s][i] = IF i = 1 /\ d[s] = 0 THEN e[s] ELSE m.book[s][i + d[s]]
  <2>1. n.book[s] \in Seq(Order)
    BY DEF TradeOf
  <2>2. i \in 1 .. Len(n.book[s])
    BY <2>1, LenProperties
  <2> QED BY <2>1, <2>2 DEF TradeOf
<1>3. i \in 1 .. Len(n.book[s])
  BY <1>2, LenProperties
<1>4. i \in Nat /\ i >= 1 /\ i + d[s] \in DOMAIN m.book[s]
  BY <1>1, <1>2, <1>3
<1>5. CASE i = 1 /\ d[s] = 0
  BY <1>2, <1>4, <1>5
<1>6. CASE ~(i = 1 /\ d[s] = 0)
  <2>1. i + d[s] > 1 /\ n.book[s][i] = m.book[s][i + d[s]]
    BY <1>2, <1>4, <1>6
  <2>2. m.book[s][i + d[s]].arrival \in DOMAIN m.reports
    BY <1>4 DEF Sound, Stands
  <2>3. ASSUME NEW t \in Sides PROVE m.book[s][i + d[s]].arrival # e[t].arrival
    <3>1. m.book[t] # <<>> /\ e[t].arrival = m.book[t][1].arrival
      BY DEF TradeOf, Same
    <3>2. 1 \in DOMAIN m.book[t]
      BY <3>1, FirstStands
    <3>3. i + d[s] # 1
      BY <1>2, <1>4, <2>1
    <3> QED BY <1>4, <3>1, <3>2, <3>3 DEF Sound, Apart
  <2>4. n.reports[n.book[s][i].arrival] = m.reports[n.book[s][i].arrival]
    <3>1. \A k \in DOMAIN m.reports :
             (\A t \in Sides : k # e[t].arrival) => n.reports[k] = m.reports[k]
      BY DEF TradeOf
    <3> QED BY <2>1, <2>2, <2>3, <3>1
  <2>5. Same(n.book[s][i], m.book[s][i + d[s]])
    BY <2>1 DEF Same
  <2> QED BY <1>4, <2>1, <2>4, <2>5
<1> QED BY <1>5, <1>6

LEMMA TradeKeepsSound ==
    ASSUME NEW m, NEW n, NEW e, NEW d, Sound(m), TradeOf(m, n, e, d)
    PROVE  Sound(n)
<1> DEFINE from(s, i) == m.book[s][i + d[s]]
<1>1. \A s \in Sides : \A i \in DOMAIN n.book[s] :
          /\ i \in Nat /\ i + d[s] \in DOMAIN m.book[s] /\ d[s] \in {0, 1}
          /\ Same(n.book[s][i], from(s, i))
          /\ \/ i = 1 /\ d[s] = 0 /\ n.book[s][i] = e[s] /\ e[s].open # 0
             \/ /\ n.book[s][i] = from(s, i)
                /\ n.reports[n.book[s][i].arrival] = m.reports[n.book[s][i].arrival]
  <2> TAKE s \in Sides
  <2> TAKE i \in DOMAIN n.book[s]
  <2>1. d[s] \in {0, 1}
    BY DEF TradeOf
  <2> QED BY <2>1, TradeMoves
<1> HIDE DEF from
<1>2. Typed(n)
  <2>1. n.book \in [Sides -> Seq(Order)]
    BY DEF TradeOf
  <2> QED BY <2>1 DEF Typed, TradeOf
<1>3. \A s \in Sides : /\ e[s] \in Order /\ Same(e[s], m.book[s][1])
                       /\ e[s].open + e[s].executed = e[s].quantity
                       /\ e[s].arrival \in DOMAIN m.reports
                       /\ 1 \in DOMAIN m.book[s]
  <2> TAKE s \in Sides
  <2>1. m.book[s] # <<>> /\ e[s] \in Order /\ Same(e[s], m.book[s][1])
        /\ e[s].open + e[s].executed = m.book[s][1].open + m.book[s][1].executed
    BY DEF TradeOf
  <2>2. /\ 1 \in DOMAIN m.book[s] /\ m.book[s][1].arrival \in DOMAIN m.reports
        /\ m.book[s][1].open + m.book[s][1].executed = m.book[s][1].quantity
    BY <2>1, FirstStands
  <2> QED BY <2>1, <2>2 DEF Same
<1>4. Stands(n)
  <2>1. SUFFICES ASSUME NEW s \in Sides, NEW i \in DOMAIN n.book[s]
                 PROVE  /\ n.book[s][i].side = s
                        /\ n.book[s][i].open + n.book[s][i].executed = n.book[s][i].quantity
                        /\ n.book[s][i].arrival \in DOMAIN n.reports
    BY DEF Stands
  <2>2. /\ from(s, i).side = s /\ from(s, i).arrival \in DOMAIN m.reports
        /\ from(s, i).open + from(s, i).executed = from(s, i).quantity
    BY <1>1 DEF Sound, Stands, from
  <2>3. DOMAIN n.reports = DOMAIN m.reports
    BY DEF TradeOf
  <2>4. /\ n.book[s][i].side = s /\ n.book[s][i].arrival \in DOMAIN n.reports
    BY <1>1, <2>2, <2>3 DEF Same
  <2>5. n.book[s][i].open + n.book[s][i].executed = n.book[s][i].quantity
    BY <1>1, <1>3, <2>2
  <2> QED BY <2>4, <2>5
<1>5. Ranked(n)
  <2>1. SUFFICES ASSUME NEW s \in Sides, NEW i \in DOMAIN n.book[s], NEW j \in DOMAIN n.book[s], i < j
                 PROVE  Precedes(n.book[s][i], n.book[s][j])
    BY DEF Ranked
  <2>2. i + d[s] < j + d[s]
    BY <1>1, <2>1
  <2>3. Precedes(from(s, i), from(s, j))
    BY <1>1, <2>2 DEF Sound, Ranked, from
  <2> QED BY <1>1, <2>3 DEF Precedes, BetterPrice, Same
<1>6. Apart(n)
  <2>1. SUFFICES ASSUME NEW s \in Sides, NEW t \in Sides,
                        NEW i \in DOMAIN n.book[s], NEW j \in DOMAIN n.book[t],
                        n.book[s][i].arrival = n.book[t][j].arrival
                 PROVE  s = t /\ i = j
    BY DEF Apart
  <2>2. from(s, i).arrival = from(t, j).arrival
    BY <1>1, <2>1 DEF Same
  <2>3. s = t /\ i + d[s] = j + d[t]
    <3>1. \A i1 \in DOMAIN m.book[s], j1 \in DOMAIN m.book[t] :
             m.book[s][i1].arrival = m.book[t][j1].arrival => s = t /\ i1 = j1
      BY DEF Sound, Apart
    <3>2. m.book[s][i + d[s]].arrival = m.book[t][j + d[t]].arrival
      BY <2>2 DEF from
    <3>3. i + d[s] \in DOMAIN m.book[s] /\ j + d[t] \in DOMAIN m.book[t]
      BY <1>1
    <3> QED BY <3>1, <3>2, <3>3
  <2> QED BY <1>1, <2>3
<1>7. LastIsTrue(n)
  <2>1. SUFFICES ASSUME NEW s \in Sides, NEW i \in DOMAIN n.book[s]
                 PROVE  TrueOf(n.book[s][i], Last(n.reports[n.book[s][i].arrival]))
    BY DEF LastIsTrue
  <2>2. CASE n.book[s][i] = e[s] /\ e[s].open # 0
    <3>1. n.reports[e[s].arrival] = Append(m.reports[e[s].arrival], fillOrder(e[s]))
      BY DEF TradeOf
    <3>2. fillOrder(e[s]) \in Report /\ TrueOf(e[s], fillOrder(e[s]))
      BY <1>3, <2>2, FillIs DEF TrueOf
    <3>3. m.reports[e[s].arrival] \in Seq(Report)
      BY <1>3, ReportsAre DEF Sound, Typed
    <3>4. Last(n.reports[e[s].arrival]) = fillOrder(e[s])
      BY <3>1, <3>2, <3>3, Appended
    <3> QED BY <2>2, <3>2, <3>4
  <2>3. CASE /\ n.book[s][i] = from(s, i)
             /\ n.reports[n.book[s][i].arrival] = m.reports[n.book[s][i].arrival]
    <3>1. TrueOf(from(s, i), Last(m.reports[from(s, i).arrival]))
      BY <1>1 DEF Sound, LastIsTrue, from
    <3> QED BY <2>3, <3>1
  <2> QED BY <1>1, <2>2, <2>3
<1>8. OneStory(n)
  <2>1. SUFFICES ASSUME NEW k \in DOMAIN m.reports PROVE Story(n.reports[k])
    BY DEF OneStory, TradeOf
  <2>2. Story(m.reports[k])
    BY DEF Sound, OneStory
  <2>3. CASE \E s \in Sides : k = e[s].arrival
    <3>1. PICK s \in Sides : k = e[s].arrival
      BY <2>3
    <3>2. n.reports[k] = Append(m.reports[k], fillOrder(e[s]))
      BY <3>1 DEF TradeOf
    <3>3. /\ fillOrder(e[s]) \in Report
          /\ fillOrder(e[s]).leaves = e[s].open /\ fillOrder(e[s]).cum = e[s].executed
      BY <1>3, FillIs
    <3>4. m.book[s][1].arrival = k /\ m.book[s][1].quantity = e[s].quantity
      BY <1>3, <3>1 DEF Same
    <3>5. /\ TrueOf(m.book[s][1], Last(m.reports[k]))
          /\ m.book[s][1].open + m.book[s][1].executed = m.book[s][1].quantity
      BY <1>3, <3>4 DEF Sound, LastIsTrue, Stands
    <3>6. Follows(fillOrder(e[s]), Last(m.reports[k]))
      BY <1>3, <3>3, <3>4, <3>5 DEF Follows, TrueOf
    <3>7. m.reports[k] \in Seq(Report)
      BY ReportsAre DEF Sound, Typed
    <3> QED BY <2>2, <3>2, <3>3, <3>6, <3>7, StoryGoesOn
  <2>4. CASE \A s \in Sides : k # e[s].arrival
    BY <2>2, <2>4 DEF TradeOf
  <2> QED BY <2>3, <2>4
<1> QED BY <1>2, <1>4, <1>5, <1>6, <1>7, <1>8 DEF Sound

\* A trade between orders that are not negative makes none of them so.
LEMMA TradeKeepsUnspoilt ==
    ASSUME NEW m, NEW n, NEW e, NEW d, Sound(m), Unspoilt(m), TradeOf(m, n, e, d)
    PROVE  Unspoilt(n)
<1> SUFFICES ASSUME NoNegativeOrder(n.reports) PROVE NoneBelowZero(n)
  BY DEF Unspoilt
<1>1. \A s \in Sides : /\ m.book[s] # <<>> /\ e[s] \in Order /\ Same(e[s], m.book[s][1])
                       /\ e[s].open + e[s].executed = m.book[s][1].open + m.book[s][1].executed
                       /\ n.reports[e[s].arrival] = Append(m.reports[e[s].arrival], fillOrder(e[s]))
  BY DEF TradeOf
<1>2. \A s \in Sides : /\ 1 \in DOMAIN m.book[s] /\ m.book[s][1] \in Order
                       /\ m.book[s][1].arrival \in DOMAIN m.reports
                       /\ m.book[s][1].open + m.book[s][1].executed = m.book[s][1].quantity
  BY <1>1, FirstStands
<1>3. \A s \in Sides : /\ fillOrder(e[s]) \in Report
                       /\ fillOrder(e[s]).leaves = e[s].open /\ fillOrder(e[s]).cum = e[s].executed
  <2> TAKE s \in Sides
  <2>1. e[s].open + e[s].executed = e[s].quantity
    BY <1>1, <1>2 DEF Same
  <2> QED BY <1>1, <2>1, FillIs
<1>4. m.reports \in Seq(Seq(Report)) /\ DOMAIN n.reports = DOMAIN m.reports
  BY DEF Sound, Typed, TradeOf
<1>5. \A k \in DOMAIN m.reports :
          /\ Story(m.reports[k])
          /\ \/ n.reports[k] = m.reports[k]
             \/ \E s \in Sides : k = e[s].arrival
  BY DEF Sound, OneStory, TradeOf
<1>6. NoNegativeOrder(m.reports)
  <2>1. \A k \in DOMAIN m.reports :
            /\ Story(m.reports[k])
            /\ \/ n.reports[k] = m.reports[k]
               \/ \E r \in Report : n.reports[k] = Append(m.reports[k], r)
    BY <1>1, <1>3, <1>5
  <2> QED BY <1>4, <2>1, FirstStays
<1>7. NoneBelowZero(m)
  BY <1>6 DEF Unspoilt
<1>8. \A s \in Sides : m.book[s][1].open >= 0 /\ m.book[s][1].executed >= 0
  BY <1>2, <1>7 DEF NoneBelowZero
<1>9. \A s \in Sides : /\ e[s].open >= 0 /\ e[s].executed >= m.book[s][1].executed
                       /\ e[s].executed >= 0
  <2>1. \A s \in Sides : e[s].open >= 0 /\ e[s].executed >= m.book[s][1].executed
    BY <1>8 DEF TradeOf
  <2>2. \A s \in Sides : e[s].executed \in Int /\ m.book[s][1].executed \in Int
    BY <1>1, <1>2, OrderIs
  <2> QED BY <1>8, <2>1, <2>2
<1>10. ASSUME NEW s \in Sides, NEW i \in DOMAIN n.book[s]
       PROVE  n.book[s][i].open >= 0 /\ n.book[s][i].executed >= 0
  <2>1. /\ i + d[s] \in DOMAIN m.book[s]
        /\ n.book[s][i] = e[s] \/ n.book[s][i] = m.book[s][i + d[s]]
    BY TradeMoves
  <2> QED BY <1>7, <1>9, <2>1 DEF NoneBelowZero
<1>11. ASSUME NEW k \in DOMAIN m.reports PROVE Grown(n.reports[k])
  <2>1. Grown(m.reports[k])
    BY <1>7 DEF NoneBelowZero
  <2>2. CASE \E s \in Sides : k = e[s].arrival
    <3>1. PICK s \in Sides : k = e[s].arrival
      BY <2>2
    <3>2. m.book[s][1].arrival = k
      BY <1>1, <3>1 DEF Same
    <3>3. Last(m.reports[k]).cum = m.book[s][1].executed
      BY <1>2, <3>2 DEF Sound, LastIsTrue, TrueOf
    <3>4. m.reports[k] \in Seq(Report)
      BY <1>4, ReportsAre
    <3>5. m.book[s][1].executed \in Int /\ e[s].executed \in Int
      BY <1>1, <1>2, OrderIs
    <3>6. Last(m.reports[k]).cum <= fillOrder(e[s]).cum
      BY <1>3, <1>9, <3>3, <3>5
    <3>7. fillOrder(e[s]).leaves >= 0 /\ fillOrder(e[s]).cum >= 0 /\ fillOrder(e[s]) \in Report
      BY <1>3, <1>9
    <3>8. Grown(Append(m.reports[k], fillOrder(e[s])))
      BY <1>5, <2>1, <3>4, <3>6, <3>7, GrowsOn
    <3> QED BY <1>1, <3>1, <3>8
  <2>3. CASE n.reports[k] = m.reports[k]
    BY <2>1, <2>3
  <2> QED BY <1>5, <2>2, <2>3
<1> QED BY <1>4, <1>10, <1>11 DEF NoneBelowZero

LEMMA TradeKeepsAccounted ==
    ASSUME NEW m, NEW n, NEW e, NEW d, Sound(m), Accounted(m), TradeOf(m, n, e, d)
    PROVE  Accounted(n)
<1>1. SUFFICES ASSUME NEW k \in DOMAIN m.reports
               PROVE  Rests(n, k) \/ Finished(Last(n.reports[k]))
  BY DEF Accounted, TradeOf
<1>2. CASE \E s \in Sides : k = e[s].arrival
  <2>1. PICK s \in Sides : k = e[s].arrival
    BY <1>2
  <2>2. /\ m.book[s] # <<>> /\ e[s] \in Order /\ Same(e[s], m.book[s][1])
        /\ e[s].open + e[s].executed = m.book[s][1].open + m.book[s][1].executed
        /\ d[s] \in {0, 1} /\ (d[s] = 1 <=> e[s].open = 0)
        /\ n.reports[k] = Append(m.reports[k], fillOrder(e[s]))
    BY <2>1 DEF TradeOf
  <2>3. m.book[s][1].open + m.book[s][1].executed = m.book[s][1].quantity /\ 1 \in DOMAIN m.book[s]
    BY <2>2, FirstStands
  <2>4. CASE e[s].open = 0
    <3>1. /\ fillOrder(e[s]) \in Report /\ fillOrder(e[s]).status = "FILLED"
          /\ fillOrder(e[s]).leaves = 0
      BY <2>2, <2>3, <2>4, FillIs DEF Same
    <3>2. m.reports[k] \in Seq(Report)
      BY ReportsAre DEF Sound, Typed
    <3>3. Last(n.reports[k]) = fillOrder(e[s])
      BY <2>2, <3>1, <3>2, Appended
    <3> QED BY <3>1, <3>3 DEF Finished
  <2>5. CASE e[s].open # 0
    <3>1. /\ m.book[s] \in Seq(Order) /\ DOMAIN m.book[s] = 1 .. Len(m.book[s]) /\ Len(m.book[s]) \in Nat
          /\ n.book[s] \in Seq(Order) /\ Len(n.book[s]) = Len(m.book[s]) - d[s]
      BY BookIs DEF Sound, TradeOf
    <3>2. d[s] = 0 /\ 1 \in 1 .. Len(n.book[s])
      BY <2>2, <2>3, <2>5, <3>1
    <3>3. n.book[s][1] = e[s]
      BY <3>2 DEF TradeOf
    <3>4. 1 \in DOMAIN n.book[s]
      BY <3>1, <3>2, LenProperties
    <3> QED BY <2>1, <3>3, <3>4 DEF Rests
  <2> QED BY <2>4, <2>5
<1>3. CASE \A s \in Sides : k # e[s].arrival
  <2>1. n.reports[k] = m.reports[k]
    BY <1>3 DEF TradeOf
  <2>2. CASE Finished(Last(m.reports[k]))
    BY <2>1, <2>2
  <2>3. CASE Rests(m, k)
    <3>1. PICK s \in Sides : \E j \in DOMAIN m.book[s] : m.book[s][j].arrival = k
      BY <2>3 DEF Rests
    <3>2. PICK i \in DOMAIN m.book[s] : m.book[s][i].arrival = k
      BY <3>1
    <3>3. /\ m.book[s] \in Seq(Order) /\ DOMAIN m.book[s] = 1 .. Len(m.book[s]) /\ Len(m.book[s]) \in Nat
          /\ n.book[s] \in Seq(Order) /\ Len(n.book[s]) = Len(m.book[s]) - d[s]
          /\ d[s] \in {0, 1} /\ e[s].arrival = m.book[s][1].arrival
      BY BookIs DEF Sound, TradeOf, Same
    <3>4. i # 1 /\ i \in 1 .. Len(m.book[s])
      BY <1>3, <3>2, <3>3
    <3>5. i - d[s] \in 1 .. Len(n.book[s]) /\ ~(i - d[s] = 1 /\ d[s] = 0) /\ (i - d[s]) + d[s] = i
      BY <3>3, <3>4
    <3>6. n.book[s][i - d[s]] = m.book[s][(i - d[s]) + d[s]]
      BY <3>5 DEF TradeOf
    <3>7. i - d[s] \in DOMAIN n.book[s]
      BY <3>3, <3>5, LenProperties
    <3> QED BY <3>2, <3>5, <3>6, <3>7 DEF Rests
  <2> QED BY <2>2, <2>3 DEF Accounted
<1> QED BY <1>2, <1>3

(***************************************************************************)
(* The whole loop.                                                         *)
(***************************************************************************)
\* m has been reached from first by trades that closed D orders of each side:
\* the best ones, and no owner of one behind the next best was told anything.
Reached(first, m, D) ==
    /\ D \in [Sides -> Nat]
    /\ DOMAIN m.reports = DOMAIN first.reports
    /\ \A s \in Sides :
           /\ Len(m.book[s]) = Len(first.book[s]) - D[s]
           /\ \A i \in DOMAIN m.book[s] :
                  i + D[s] \in DOMAIN first.book[s] /\ Same(m.book[s][i], first.book[s][i + D[s]])
           /\ \A i \in DOMAIN first.book[s] :
                  Len(m.reports[first.book[s][i].arrival])
                      > Len(first.reports[first.book[s][i].arrival]) => i <= D[s] + 1

LEMMA StartReached ==
    ASSUME NEW first, Sound(first)
    PROVE  Reached(first, first, [s \in Sides |-> 0])
<1> DEFINE D == [s \in Sides |-> 0]
<1>1. D \in [Sides -> Nat] /\ \A s \in Sides : D[s] = 0
  OBVIOUS
<1> HIDE DEF D
<1>2. ASSUME NEW s \in Sides
      PROVE  /\ Len(first.book[s]) = Len(first.book[s]) - D[s]
             /\ \A i \in DOMAIN first.book[s] :
                    i + D[s] \in DOMAIN first.book[s] /\ Same(first.book[s][i], first.book[s][i + D[s]])
  <2>1. Len(first.book[s]) \in Nat /\ DOMAIN first.book[s] = 1 .. Len(first.book[s])
    BY BookIs DEF Sound
  <2>2. \A i \in DOMAIN first.book[s] : i + D[s] = i
    BY <1>1, <2>1
  <2> QED BY <1>1, <2>1, <2>2 DEF Same
<1>3. ASSUME NEW s \in Sides, NEW i \in DOMAIN first.book[s]
      PROVE  ~(Len(first.reports[first.book[s][i].arrival])
                   > Len(first.reports[first.book[s][i].arrival]))
  <2>1. first.book[s][i].arrival \in DOMAIN first.reports /\ first.reports \in Seq(Seq(Report))
    BY DEF Sound, Stands, Typed
  <2>2. Len(first.reports[first.book[s][i].arrival]) \in Nat
    BY <2>1, ReportsAre
  <2> QED BY <2>2
<1>4. Reached(first, first, D)
  BY <1>1, <1>2, <1>3 DEF Reached
<1> QED BY <1>4 DEF D

LEMMA TradeReaches ==
    ASSUME NEW first, NEW m, NEW n, NEW e, NEW d, NEW D,
           Sound(first), Sound(m), Sound(n), Reached(first, m, D), TradeOf(m, n, e, d)
    PROVE  Reached(first, n, [s \in Sides |-> D[s] + d[s]])
<1> DEFINE E == [s \in Sides |-> D[s] + d[s]]
<1>1. \A s \in Sides : d[s] \in {0, 1} /\ D[s] \in Nat /\ E[s] = D[s] + d[s] /\ E[s] \in Nat
  <2>1. \A s \in Sides : d[s] \in {0, 1} /\ D[s] \in Nat
    BY DEF TradeOf, Reached
  <2> QED BY <2>1
<1>2. E \in [Sides -> Nat]
  BY <1>1
<1> HIDE DEF E
<1>3. DOMAIN n.reports = DOMAIN first.reports
  BY DEF TradeOf, Reached
<1>4. ASSUME NEW s \in Sides
      PROVE  Len(n.book[s]) = Len(first.book[s]) - E[s]
  <2>1. /\ Len(n.book[s]) = Len(m.book[s]) - d[s]
        /\ Len(m.book[s]) = Len(first.book[s]) - D[s]
    BY DEF TradeOf, Reached
  <2>2. Len(first.book[s]) \in Nat
    BY BookIs DEF Sound
  <2> QED BY <1>1, <2>1, <2>2
<1>5. ASSUME NEW s \in Sides, NEW i \in DOMAIN n.book[s]
      PROVE  i + E[s] \in DOMAIN first.book[s] /\ Same(n.book[s][i], first.book[s][i + E[s]])
  <2>1. /\ i \in Nat /\ i + d[s] \in DOMAIN m.book[s]
        /\ Same(n.book[s][i], m.book[s][i + d[s]])
    BY TradeMoves
  <2>2. /\ (i + d[s]) + D[s] \in DOMAIN first.book[s]
        /\ Same(m.book[s][i + d[s]], first.book[s][(i + d[s]) + D[s]])
    BY <2>1 DEF Reached
  <2>3. (i + d[s]) + D[s] = i + E[s]
    BY <1>1, <2>1
  <2> QED BY <2>1, <2>2, <2>3 DEF Same
<1>6. ASSUME NEW s \in Sides, NEW i \in DOMAIN first.book[s],
             Len(n.reports[first.book[s][i].arrival])
                 > Len(first.reports[first.book[s][i].arrival])
      PROVE  i <= E[s] + 1
  <2> DEFINE a == first.book[s][i].arrival
  <2>1. a \in DOMAIN m.reports
    BY DEF Sound, Stands, Reached
  <2>2. i \in Nat
    BY BookIs DEF Sound
  <2>3. CASE \A t \in Sides : a # e[t].arrival
    <3>1. n.reports[a] = m.reports[a]
      BY <2>1, <2>3 DEF TradeOf
    <3>2. i <= D[s] + 1
      BY <1>6, <3>1 DEF Reached
    <3> QED BY <1>1, <2>2, <3>2
  <2>4. CASE \E t \in Sides : a = e[t].arrival
    <3>1. PICK t \in Sides : a = e[t].arrival
      BY <2>4
    <3>2. m.book[t] # <<>> /\ e[t].arrival = m.book[t][1].arrival
      BY DEF TradeOf, Same
    <3>3. 1 \in DOMAIN m.book[t]
      BY <3>2, FirstStands
    <3>4. 1 + D[t] \in DOMAIN first.book[t] /\ a = first.book[t][1 + D[t]].arrival
      BY <3>1, <3>2, <3>3 DEF Reached, Same
    <3>5. s = t /\ i = 1 + D[t]
      BY <3>4 DEF Sound, Apart
    <3> QED BY <1>1, <2>2, <3>5
  <2> QED BY <2>3, <2>4
<1>7. Reached(first, n, E)
  BY <1>2, <1>3, <1>4, <1>5, <1>6 DEF Reached
<1> QED BY <1>7 DEF E

\* After k turns k orders have been closed, or the loop has ended.
AtTurn(first, m, k) ==
    /\ Sound(m)
    /\ Accounted(first) => Accounted(m)
    /\ Unspoilt(first) => Unspoilt(m)
    /\ \E D : Reached(first, m, D) /\ (CanTrade(m.book) => D["buy"] + D["sell"] >= k)

LEMMA TurnAdvances ==
    ASSUME NEW first, NEW m, NEW k \in Nat, Sound(first), AtTurn(first, m, k)
    PROVE  AtTurn(first, MatchOnce(m), k + 1)
<1>1. PICK D : Reached(first, m, D) /\ (CanTrade(m.book) => D["buy"] + D["sell"] >= k)
  BY DEF AtTurn
<1>2. CASE ~CanTrade(m.book)
  <2>1. MatchOnce(m) = m
    BY <1>2 DEF MatchOnce
  <2> QED BY <1>1, <1>2, <2>1 DEF AtTurn
<1>3. CASE CanTrade(m.book)
  <2> DEFINE n == Trade(m)
  <2>1. MatchOnce(m) = n
    BY <1>3 DEF MatchOnce
  <2>2. Sound(m)
    BY DEF AtTurn
  <2>3. PICK e, d : TradeOf(m, n, e, d)
    BY <1>3, <2>2, TradeIs
  <2> HIDE DEF n
  <2>4. Sound(n)
    BY <2>2, <2>3, TradeKeepsSound
  <2>5. Accounted(first) => Accounted(n)
    BY <2>2, <2>3, TradeKeepsAccounted DEF AtTurn
  <2>8. Unspoilt(first) => Unspoilt(n)
    BY <2>2, <2>3, TradeKeepsUnspoilt DEF AtTurn
  <2> DEFINE E == [s \in Sides |-> D[s] + d[s]]
  <2>6. Reached(first, n, E)
    BY <1>1, <2>2, <2>3, <2>4, TradeReaches
  <2>7. E["buy"] + E["sell"] >= k + 1
    <3>1. "buy" \in Sides /\ "sell" \in Sides
      BY DEF Sides
    <3>2. /\ d["buy"] \in {0, 1} /\ d["sell"] \in {0, 1} /\ (d["buy"] = 1 \/ d["sell"] = 1)
          /\ D["buy"] \in Nat /\ D["sell"] \in Nat
      BY <1>1, <2>3, <3>1 DEF TradeOf, Reached
    <3> QED BY <1>1, <1>3, <3>1, <3>2
  <2> HIDE DEF E
  <2> QED BY <2>1, <2>4, <2>5, <2>6, <2>7, <2>8 DEF AtTurn
<1> QED BY <1>2, <1>3

\* When the loop is done nothing can trade, and what held before it holds.
LEMMA MatchedIs ==
    ASSUME NEW m, Sound(m)
    PROVE  /\ Sound(Matched(m)) /\ ~CanTrade(Matched(m).book)
           /\ Accounted(m) => Accounted(Matched(m))
           /\ Unspoilt(m) => Unspoilt(Matched(m))
           /\ \E D : Reached(m, Matched(m), D)
<1>1. PICK turn : /\ turn[0] = m
                  /\ \A k \in Nat : turn[k + 1] = MatchOnce(turn[k])
                  /\ Matched(m) = turn[Len(m.book["buy"]) + Len(m.book["sell"])]
  BY MatchedByTurns
<1> DEFINE S == {k \in Nat : AtTurn(m, turn[k], k)}
<1>2. 0 \in S
  <2> DEFINE D == [s \in Sides |-> 0]
  <2>1. Reached(m, m, D)
    BY StartReached
  <2>2. D["buy"] + D["sell"] >= 0
    BY DEF Sides
  <2> HIDE DEF D
  <2> QED BY <1>1, <2>1, <2>2 DEF AtTurn
<1>3. ASSUME NEW k \in Nat, k \in S PROVE k + 1 \in S
  <2>1. turn[k + 1] = MatchOnce(turn[k])
    BY <1>1
  <2> QED BY <1>3, <2>1, TurnAdvances
<1>4. Nat \subseteq S
  <2> HIDE DEF S
  <2> QED BY <1>2, <1>3, EveryTurn
<1>5. "buy" \in Sides /\ "sell" \in Sides
  BY DEF Sides
<1>6. Len(m.book["buy"]) \in Nat /\ Len(m.book["sell"]) \in Nat
  BY <1>5, BookIs DEF Sound
<1> DEFINE N == Len(m.book["buy"]) + Len(m.book["sell"])
<1>7. N \in Nat
  <2>1. \A x, y \in Nat : x + y \in Nat
    OBVIOUS
  <2> QED BY <1>6, <2>1, Zenon
<1>8. AtTurn(m, Matched(m), N)
  BY <1>1, <1>4, <1>7
<1>9. PICK D : Reached(m, Matched(m), D) /\ (CanTrade(Matched(m).book) => D["buy"] + D["sell"] >= N)
  BY <1>8 DEF AtTurn
<1>10. ~CanTrade(Matched(m).book)
  <2> SUFFICES ASSUME CanTrade(Matched(m).book) PROVE FALSE
    OBVIOUS
  <2>1. Sound(Matched(m))
    BY <1>8 DEF AtTurn
  <2>2. ASSUME NEW s \in Sides PROVE D[s] < Len(m.book[s]) /\ D[s] \in Nat
    <3>1. Matched(m).book[s] # <<>>
      BY DEF CanTrade, Sides
    <3>2. Matched(m).book[s] \in Seq(Order) /\ Len(Matched(m).book[s]) \in Nat
      BY <2>1, BookIs DEF Sound
    <3>3. Len(Matched(m).book[s]) >= 1
      BY <3>1, <3>2, EmptySeq
    <3>4. Len(Matched(m).book[s]) = Len(m.book[s]) - D[s] /\ D[s] \in Nat
      BY <1>9 DEF Reached
    <3>5. Len(m.book[s]) \in Nat
      BY BookIs DEF Sound
    <3> QED BY <3>2, <3>3, <3>4, <3>5
  <2>3. /\ D["buy"] < Len(m.book["buy"]) /\ D["sell"] < Len(m.book["sell"])
        /\ D["buy"] \in Nat /\ D["sell"] \in Nat
    BY <1>5, <2>2
  <2>4. D["buy"] + D["sell"] >= N
    BY <1>9
  <2>5. \A x, y, a, b \in Nat : a < x /\ b < y => ~(a + b >= x + y)
    OBVIOUS
  <2> QED BY <1>6, <2>3, <2>4, <2>5, Zenon
<1> QED BY <1>8, <1>9, <1>10 DEF AtTurn

(***************************************************************************)
(* A new order takes its place, and a cancelled one leaves it.             *)
(***************************************************************************)
LEMMA Joined ==
    ASSUME NEW S, NEW p \in Seq(S), NEW q \in Seq(S)
    PROVE  /\ p \o q \in Seq(S) /\ Len(p) \in Nat /\ Len(q) \in Nat
           /\ Len(p \o q) = Len(p) + Len(q)
           /\ \A i \in 1 .. Len(p) : (p \o q)[i] = p[i]
           /\ \A i \in 1 .. Len(q) : (p \o q)[Len(p) + i] = q[i]
<1>1. Len(p) \in Nat /\ Len(q) \in Nat
  BY LenProperties
<1>2. /\ p \o q \in Seq(S) /\ Len(p \o q) = Len(p) + Len(q)
      /\ \A i \in 1 .. Len(p) + Len(q) :
             (p \o q)[i] = IF i <= Len(p) THEN p[i] ELSE q[i - Len(p)]
  BY ConcatProperties
<1>3. ASSUME NEW i \in 1 .. Len(p) PROVE (p \o q)[i] = p[i]
  <2>1. i \in 1 .. Len(p) + Len(q) /\ i <= Len(p)
    BY <1>1
  <2> QED BY <1>2, <2>1
<1>4. ASSUME NEW i \in 1 .. Len(q) PROVE (p \o q)[Len(p) + i] = q[i]
  <2>1. /\ Len(p) + i \in 1 .. Len(p) + Len(q) /\ ~(Len(p) + i <= Len(p))
        /\ (Len(p) + i) - Len(p) = i
    BY <1>1
  <2> QED BY <1>2, <2>1
<1> QED BY <1>1, <1>2, <1>3, <1>4

\* A part of a sequence.
LEMMA PartIs ==
    ASSUME NEW S, NEW q \in Seq(S), NEW a \in Nat, NEW b \in Nat, a >= 1, b <= Len(q), a <= b + 1
    PROVE  /\ SubSeq(q, a, b) \in Seq(S) /\ Len(SubSeq(q, a, b)) = b - a + 1
           /\ \A i \in 1 .. b - a + 1 : SubSeq(q, a, b)[i] = q[a + i - 1]
<1>1. Len(q) \in Nat
  BY LenProperties
<1>2. \A i \in a .. b : q[i] \in S
  BY <1>1, ElementOfSeq
<1>3. /\ SubSeq(q, a, b) \in Seq(S)
      /\ Len(SubSeq(q, a, b)) = IF a <= b THEN b - a + 1 ELSE 0
      /\ \A i \in 1 .. b - a + 1 : SubSeq(q, a, b)[i] = q[a + i - 1]
  BY <1>2, SubSeqProperties
<1> QED BY <1>1, <1>3

\* r is q with o after the first a.
Inserted(r, q, a, o, S) ==
    /\ r \in Seq(S) /\ Len(q) \in Nat /\ Len(r) = Len(q) + 1
    /\ \A i \in 1 .. a : r[i] = q[i]
    /\ r[a + 1] = o
    /\ \A i \in a + 1 .. Len(q) : r[i + 1] = q[i]

LEMMA InsertAtIs ==
    ASSUME NEW S, NEW q \in Seq(S), NEW a \in 0 .. Len(q), NEW o \in S
    PROVE  Inserted(InsertAt(q, a + 1, o), q, a, o, S)
<1> DEFINE p == SubSeq(q, 1, a)
           r == SubSeq(q, a + 1, Len(q))
           f == p \o <<o>>
           g == f \o r
<1>1. Len(q) \in Nat /\ a \in Nat /\ a <= Len(q) /\ (a + 1) - 1 = a /\ a + 1 \in Nat
  BY LenProperties
<1>2. InsertAt(q, a + 1, o) = g
  BY <1>1 DEF InsertAt
<1>3. p \in Seq(S) /\ Len(p) = a /\ \A i \in 1 .. a : p[i] = q[i]
  <2>1. /\ p \in Seq(S) /\ Len(p) = a - 1 + 1
        /\ \A i \in 1 .. a - 1 + 1 : p[i] = q[1 + i - 1]
    BY <1>1, PartIs
  <2> HIDE DEF p
  <2>2. \A i \in 1 .. a : p[i] = q[i]
    <3> TAKE i \in 1 .. a
    <3>1. i \in 1 .. a - 1 + 1 /\ 1 + i - 1 = i
      BY <1>1
    <3> QED BY <2>1, <3>1
  <2> QED BY <1>1, <2>1, <2>2
<1>4. r \in Seq(S) /\ Len(r) = Len(q) - a /\ \A i \in 1 .. Len(q) - a : r[i] = q[a + i]
  <2>1. /\ r \in Seq(S) /\ Len(r) = Len(q) - (a + 1) + 1
        /\ \A i \in 1 .. Len(q) - (a + 1) + 1 : r[i] = q[(a + 1) + i - 1]
    BY <1>1, PartIs
  <2> HIDE DEF r
  <2>2. \A i \in 1 .. Len(q) - a : r[i] = q[a + i]
    <3> TAKE i \in 1 .. Len(q) - a
    <3>1. i \in 1 .. Len(q) - (a + 1) + 1 /\ (a + 1) + i - 1 = a + i
      BY <1>1
    <3> QED BY <2>1, <3>1
  <2> QED BY <1>1, <2>1, <2>2
<1>5. <<o>> \in Seq(S) /\ Len(<<o>>) = 1 /\ <<o>>[1] = o
  OBVIOUS
<1> HIDE DEF p, r
<1>6. /\ f \in Seq(S) /\ Len(f) = a + 1 /\ f[a + 1] = o
      /\ \A i \in 1 .. a : f[i] = q[i]
  <2>1. /\ f \in Seq(S) /\ Len(f) = Len(p) + Len(<<o>>)
        /\ \A i \in 1 .. Len(p) : f[i] = p[i]
        /\ \A i \in 1 .. Len(<<o>>) : f[Len(p) + i] = <<o>>[i]
    BY <1>3, <1>5, Joined
  <2>2. 1 \in 1 .. Len(<<o>>)
    BY <1>5
  <2> HIDE DEF f
  <2> QED BY <1>1, <1>3, <1>5, <2>1, <2>2
<1> HIDE DEF f
<1>7. /\ g \in Seq(S) /\ Len(g) = Len(f) + Len(r)
      /\ \A i \in 1 .. Len(f) : g[i] = f[i]
      /\ \A i \in 1 .. Len(r) : g[Len(f) + i] = r[i]
  <2>1. f \in Seq(S) /\ r \in Seq(S)
    BY <1>4, <1>6
  <2> QED BY <2>1, Joined
<1> HIDE DEF g
<1>8. Len(g) = Len(q) + 1
  BY <1>1, <1>4, <1>6, <1>7
<1>9. ASSUME NEW i \in 1 .. a PROVE g[i] = q[i]
  <2>1. i \in 1 .. Len(f)
    BY <1>1, <1>6
  <2> QED BY <1>6, <1>7, <2>1
<1>10. g[a + 1] = o
  <2>1. a + 1 \in 1 .. Len(f)
    BY <1>1, <1>6
  <2> QED BY <1>6, <1>7, <2>1
<1>11. ASSUME NEW i \in a + 1 .. Len(q) PROVE g[i + 1] = q[i]
  <2>1. /\ i - a \in 1 .. Len(q) - a /\ i - a \in 1 .. Len(r)
        /\ Len(f) + (i - a) = i + 1 /\ a + (i - a) = i
    BY <1>1, <1>4, <1>6
  <2>2. g[Len(f) + (i - a)] = r[i - a] /\ r[i - a] = q[a + (i - a)]
    BY <1>4, <1>7, <2>1
  <2> QED BY <2>1, <2>2
<1>12. Inserted(g, q, a, o, S)
  BY <1>1, <1>7, <1>8, <1>9, <1>10, <1>11 DEF Inserted
<1> QED BY <1>2, <1>12

\* r is q without the one at a.
Removed(r, q, a, S) ==
    /\ r \in Seq(S) /\ Len(q) \in Nat /\ Len(r) = Len(q) - 1
    /\ \A i \in 1 .. Len(q) - 1 : r[i] = q[IF i < a THEN i ELSE i + 1]

LEMMA RemoveAtIs ==
    ASSUME NEW S, NEW q \in Seq(S), NEW a \in 1 .. Len(q)
    PROVE  Removed(RemoveAt(q, a), q, a, S)
<1> DEFINE p == SubSeq(q, 1, a - 1)
           r == SubSeq(q, a + 1, Len(q))
           g == p \o r
<1>1. Len(q) \in Nat /\ a \in Nat /\ a >= 1 /\ a <= Len(q) /\ a + 1 \in Nat /\ a - 1 \in Nat
  BY LenProperties
<1>2. RemoveAt(q, a) = g
  BY DEF RemoveAt
<1>3. p \in Seq(S) /\ Len(p) = a - 1 /\ \A i \in 1 .. a - 1 : p[i] = q[i]
  <2>1. /\ p \in Seq(S) /\ Len(p) = (a - 1) - 1 + 1
        /\ \A i \in 1 .. (a - 1) - 1 + 1 : p[i] = q[1 + i - 1]
    BY <1>1, PartIs
  <2> HIDE DEF p
  <2>2. \A i \in 1 .. a - 1 : p[i] = q[i]
    <3> TAKE i \in 1 .. a - 1
    <3>1. i \in 1 .. (a - 1) - 1 + 1 /\ 1 + i - 1 = i
      BY <1>1
    <3> QED BY <2>1, <3>1
  <2> QED BY <1>1, <2>1, <2>2
<1>4. r \in Seq(S) /\ Len(r) = Len(q) - a /\ \A i \in 1 .. Len(q) - a : r[i] = q[a + i]
  <2>1. /\ r \in Seq(S) /\ Len(r) = Len(q) - (a + 1) + 1
        /\ \A i \in 1 .. Len(q) - (a + 1) + 1 : r[i] = q[(a + 1) + i - 1]
    BY <1>1, PartIs
  <2> HIDE DEF r
  <2>2. \A i \in 1 .. Len(q) - a : r[i] = q[a + i]
    <3> TAKE i \in 1 .. Len(q) - a
    <3>1. i \in 1 .. Len(q) - (a + 1) + 1 /\ (a + 1) + i - 1 = a + i
      BY <1>1
    <3> QED BY <2>1, <3>1
  <2> QED BY <1>1, <2>1, <2>2
<1> HIDE DEF p, r
<1>5. /\ g \in Seq(S) /\ Len(g) = Len(p) + Len(r)
      /\ \A i \in 1 .. Len(p) : g[i] = p[i]
      /\ \A i \in 1 .. Len(r) : g[Len(p) + i] = r[i]
  <2>1. p \in Seq(S) /\ r \in Seq(S)
    BY <1>3, <1>4
  <2> QED BY <2>1, Joined
<1> HIDE DEF g
<1>6. Len(g) = Len(q) - 1
  BY <1>1, <1>3, <1>4, <1>5
<1>7. ASSUME NEW i \in 1 .. Len(q) - 1 PROVE g[i] = q[IF i < a THEN i ELSE i + 1]
  <2>1. CASE i < a
    <3>1. i \in 1 .. Len(p) /\ i \in 1 .. a - 1
      BY <1>1, <1>3, <2>1
    <3> QED BY <1>3, <1>5, <2>1, <3>1
  <2>2. CASE ~(i < a)
    <3>1. /\ i - (a - 1) \in 1 .. Len(r) /\ i - (a - 1) \in 1 .. Len(q) - a
          /\ Len(p) + (i - (a - 1)) = i /\ a + (i - (a - 1)) = i + 1
      BY <1>1, <1>3, <1>4, <2>2
    <3>2. g[Len(p) + (i - (a - 1))] = r[i - (a - 1)] /\ r[i - (a - 1)] = q[a + (i - (a - 1))]
      BY <1>4, <1>5, <3>1
    <3> QED BY <2>2, <3>1, <3>2
  <2> QED BY <2>1, <2>2
<1>8. Removed(g, q, a, S)
  BY <1>1, <1>5, <1>6, <1>7 DEF Removed
<1> QED BY <1>2, <1>8

\* The orders that are ahead of a new one are the first ones.
LEMMA AheadIs ==
    ASSUME NEW q \in Seq(Order), NEW o \in Order, NEW s \in Sides, o.side = s,
           \A i \in DOMAIN q : q[i].side = s,
           \A i, j \in DOMAIN q : i < j => Precedes(q[i], q[j])
    PROVE  \E a \in 0 .. Len(q) : /\ {i \in DOMAIN q : ~BetterPrice(o, q[i])} = 1 .. a
                                  /\ Cardinality({i \in DOMAIN q : ~BetterPrice(o, q[i])}) = a
<1> DEFINE A == {i \in DOMAIN q : ~BetterPrice(o, q[i])}
           W == {i \in DOMAIN q : BetterPrice(o, q[i])}
<1>1. Len(q) \in Nat /\ DOMAIN q = 1 .. Len(q)
  BY LenProperties
<1>2. \A i \in DOMAIN q : q[i] \in Order /\ q[i].price \in Int /\ q[i].arrival \in Nat
  BY <1>1, ElementOfSeq, OrderIs
<1>3. \E a \in 0 .. Len(q) : A = 1 .. a
  <2>1. CASE W = {}
    <3>1. A = 1 .. Len(q)
      BY <1>1, <2>1
    <3>2. Len(q) \in 0 .. Len(q)
      BY <1>1
    <3> QED BY <3>1, <3>2
  <2>2. CASE W # {}
    <3>1. W \in SUBSET Nat
      BY <1>1
    <3>2. PICK w \in W : \A i \in W : w <= i
      BY <2>2, <3>1, LeastTurn
    <3>3. w \in DOMAIN q /\ BetterPrice(o, q[w]) /\ w \in 1 .. Len(q)
      BY <1>1, <3>2
    <3>4. ASSUME NEW i \in DOMAIN q, i < w PROVE i \in A
      <4>1. i \in Nat /\ ~(w <= i)
        BY <1>1, <3>3, <3>4
      <4>2. i \notin W
        BY <3>2, <4>1
      <4> QED BY <4>2
    <3>5. ASSUME NEW i \in DOMAIN q, ~(i < w) PROVE i \notin A
      <4>1. CASE i = w
        BY <3>3, <4>1
      <4>2. CASE i # w
        <5>1. w < i
          BY <1>1, <3>3, <3>5, <4>2
        <5>2. Precedes(q[w], q[i])
          BY <3>3, <5>1
        <5>3. q[w].side = s /\ q[i].side = s /\ o.price \in Int
          BY <3>3, OrderIs
        <5>4. BetterPrice(o, q[i])
          BY <1>2, <3>3, <5>2, <5>3 DEF Precedes, BetterPrice
        <5> QED BY <5>4
      <4> QED BY <4>1, <4>2
    <3>6. w - 1 \in 0 .. Len(q)
      BY <1>1, <3>3
    <3>7. A = 1 .. (w - 1)
      <4>1. \A i \in A : i \in 1 .. (w - 1)
        BY <1>1, <3>3, <3>5
      <4>2. \A i \in 1 .. (w - 1) : i \in DOMAIN q /\ i < w
        BY <1>1, <3>3
      <4> HIDE DEF A
      <4> QED BY <3>4, <4>1, <4>2
    <3> QED BY <3>6, <3>7
  <2> QED BY <2>1, <2>2
<1>4. PICK a \in 0 .. Len(q) : A = 1 .. a
  BY <1>3
<1>5. Cardinality(1 .. a) = a
  <2>1. a \in Nat /\ 1 \in Int /\ a \in Int
    BY <1>1
  <2>2. Cardinality(1 .. a) = IF 1 > a THEN 0 ELSE a - 1 + 1
    BY <2>1, FS_Interval
  <2> QED BY <2>1, <2>2
<1> QED BY <1>4, <1>5

\* q is p with o at the place after the first a, which are not behind it.
Placed(q, p, o, a) ==
    /\ a \in Nat /\ a <= Len(p) /\ Len(p) \in Nat
    /\ q \in Seq(Order) /\ DOMAIN q = 1 .. Len(p) + 1 /\ DOMAIN p = 1 .. Len(p)
    /\ \A i \in DOMAIN p : i <= a => q[i] = p[i] /\ ~BetterPrice(o, p[i])
    /\ q[a + 1] = o
    /\ \A i \in DOMAIN p : i > a => q[i + 1] = p[i] /\ BetterPrice(o, p[i])

LEMMA InsertPlaces ==
    ASSUME NEW p \in Seq(Order), NEW o \in Order, NEW s \in Sides, o.side = s,
           \A i \in DOMAIN p : p[i].side = s,
           \A i, j \in DOMAIN p : i < j => Precedes(p[i], p[j])
    PROVE  \E a : Placed(Insert(p, o), p, o, a)
<1>1. Len(p) \in Nat /\ DOMAIN p = 1 .. Len(p)
  BY LenProperties
<1>2. PICK a \in 0 .. Len(p) : /\ {i \in DOMAIN p : ~BetterPrice(o, p[i])} = 1 .. a
                               /\ Cardinality({i \in DOMAIN p : ~BetterPrice(o, p[i])}) = a
  BY AheadIs
<1> DEFINE q == InsertAt(p, a + 1, o)
<1>3. Insert(p, o) = q
  BY <1>2 DEF Insert, PlaceBefore
<1>4. /\ q \in Seq(Order) /\ Len(q) = Len(p) + 1
      /\ \A i \in 1 .. a : q[i] = p[i]
      /\ q[a + 1] = o
      /\ \A i \in a + 1 .. Len(p) : q[i + 1] = p[i]
  <2>1. Inserted(q, p, a, o, Order)
    BY InsertAtIs, Zenon
  <2> HIDE DEF q
  <2> QED BY <2>1 DEF Inserted
<1> HIDE DEF q
<1>5. DOMAIN q = 1 .. Len(p) + 1
  BY <1>4, LenProperties
<1>6. a \in Nat /\ a <= Len(p)
  BY <1>1
<1>7. ASSUME NEW i \in DOMAIN p, i <= a PROVE q[i] = p[i] /\ ~BetterPrice(o, p[i])
  <2>1. i \in 1 .. a
    BY <1>1, <1>6, <1>7
  <2> QED BY <1>2, <1>4, <2>1
<1>8. ASSUME NEW i \in DOMAIN p, i > a PROVE q[i + 1] = p[i] /\ BetterPrice(o, p[i])
  <2>1. i \in a + 1 .. Len(p) /\ i \notin 1 .. a
    BY <1>1, <1>6, <1>8
  <2> QED BY <1>2, <1>4, <2>1
<1>9. Placed(q, p, o, a)
  BY <1>1, <1>4, <1>5, <1>6, <1>7, <1>8 DEF Placed
<1> QED BY <1>3, <1>9

\* n is m with a new order in its place.
Enters(m, n, o) ==
    /\ o \in Order /\ o.open + o.executed = o.quantity /\ o.executed = 0
    /\ o.arrival = Len(m.reports) + 1
    /\ n.book = [m.book EXCEPT ![o.side] = Insert(@, o)]
    /\ n.reports = Append(m.reports, <<updateOrder(o, "NEW")>>)

\* Every order of the new book was in the old one, or is the new one.
LEMMA EnteredFrom ==
    ASSUME NEW m, NEW n, NEW o, Sound(m), Enters(m, n, o)
    PROVE  \E a : /\ Placed(n.book[o.side], m.book[o.side], o, a)
                  /\ \A t \in Sides : t # o.side => n.book[t] = m.book[t]
                  /\ n.book \in [Sides -> Seq(Order)]
<1> DEFINE s == o.side
           p == m.book[s]
<1>1. s \in Sides /\ o \in Order
  BY OrderIs DEF Enters
<1>2. p \in Seq(Order) /\ m.book \in [Sides -> Seq(Order)]
  BY <1>1, BookIs DEF Sound, Typed
<1>3. /\ \A i \in DOMAIN p : p[i].side = s
      /\ \A i, j \in DOMAIN p : i < j => Precedes(p[i], p[j])
  BY <1>1 DEF Sound, Stands, Ranked
<1>4. \E a : Placed(Insert(p, o), p, o, a)
  <2>1. o.side = s
    OBVIOUS
  <2> HIDE DEF p, s
  <2> QED BY <1>1, <1>2, <1>3, <2>1, InsertPlaces
<1>5. PICK a : Placed(Insert(p, o), p, o, a)
  BY <1>4
<1>6. Insert(p, o) \in Seq(Order)
  BY <1>5 DEF Placed
<1>7. n.book = [m.book EXCEPT ![s] = Insert(p, o)]
  BY DEF Enters
<1>8. /\ n.book[s] = Insert(p, o) /\ n.book \in [Sides -> Seq(Order)]
      /\ \A t \in Sides : t # s => n.book[t] = m.book[t]
  BY <1>1, <1>2, <1>6, <1>7
<1> QED BY <1>5, <1>8

\* Where an order of the new book is from.
LEMMA EntersMoves ==
    ASSUME NEW m, NEW n, NEW o, Sound(m), Enters(m, n, o)
    PROVE  \E a \in Nat :
               \A t \in Sides : \A i \in DOMAIN n.book[t] :
                   /\ i \in Nat
                   /\ \/ t = o.side /\ i = a + 1 /\ n.book[t][i] = o
                      \/ \E j \in DOMAIN m.book[t] :
                             /\ n.book[t][i] = m.book[t][j] /\ j \in Nat
                             /\ t = o.side => (i = IF j <= a THEN j ELSE j + 1)
                             /\ t = o.side /\ j <= a => ~BetterPrice(o, m.book[t][j])
                             /\ t = o.side /\ j > a => BetterPrice(o, m.book[t][j])
                             /\ t # o.side => i = j
<1>1. PICK a : /\ Placed(n.book[o.side], m.book[o.side], o, a)
               /\ \A t \in Sides : t # o.side => n.book[t] = m.book[t]
  BY EnteredFrom
<1>2. a \in Nat
  BY <1>1 DEF Placed
<1>3. ASSUME NEW t \in Sides, NEW i \in DOMAIN n.book[t]
      PROVE  /\ i \in Nat
             /\ \/ t = o.side /\ i = a + 1 /\ n.book[t][i] = o
                \/ \E j \in DOMAIN m.book[t] :
                       /\ n.book[t][i] = m.book[t][j] /\ j \in Nat
                       /\ t = o.side => (i = IF j <= a THEN j ELSE j + 1)
                       /\ t = o.side /\ j <= a => ~BetterPrice(o, m.book[t][j])
                       /\ t = o.side /\ j > a => BetterPrice(o, m.book[t][j])
                       /\ t # o.side => i = j
  <2>1. CASE t # o.side
    <3>1. n.book[t] = m.book[t] /\ i \in DOMAIN m.book[t]
      BY <1>1, <2>1
    <3>2. i \in Nat
      BY <3>1, BookIs DEF Sound
    <3> QED BY <2>1, <3>1, <3>2
  <2>2. CASE t = o.side
    <3> DEFINE q == n.book[t]
               p == m.book[t]
    <3>1. Placed(q, p, o, a)
      BY <1>1, <2>2
    <3>2. i \in DOMAIN q
      OBVIOUS
    <3> HIDE DEF q, p
    <3>3. i \in 1 .. Len(p) + 1 /\ Len(p) \in Nat /\ DOMAIN p = 1 .. Len(p)
      BY <3>1, <3>2 DEF Placed
    <3>4. i \in Nat
      BY <3>3
    <3>5. CASE i = a + 1
      <4>1. q[i] = o
        BY <3>1, <3>5 DEF Placed
      <4> QED BY <2>2, <3>4, <3>5, <4>1 DEF q
    <3>6. CASE i <= a
      <4>1. i \in DOMAIN p
        BY <1>2, <3>1, <3>3, <3>6 DEF Placed
      <4>2. q[i] = p[i] /\ ~BetterPrice(o, p[i])
        BY <3>1, <3>6, <4>1 DEF Placed
      <4>3. ~(i > a) /\ (i = IF i <= a THEN i ELSE i + 1)
        BY <1>2, <3>4, <3>6
      <4> QED BY <2>2, <3>4, <4>1, <4>2, <4>3 DEF p, q
    <3>7. CASE i > a + 1
      <4> DEFINE j == i - 1
      <4>1. j \in DOMAIN p /\ j > a /\ j + 1 = i /\ j \in Nat /\ ~(j <= a)
        BY <1>2, <3>3, <3>7
      <4> HIDE DEF j
      <4>2. q[j + 1] = p[j] /\ BetterPrice(o, p[j])
        BY <3>1, <4>1 DEF Placed
      <4>3. i = IF j <= a THEN j ELSE j + 1
        BY <4>1
      <4> QED BY <2>2, <3>4, <4>1, <4>2, <4>3 DEF p, q
    <3> QED BY <1>2, <3>4, <3>5, <3>6, <3>7
  <2> QED BY <2>1, <2>2
<1> QED BY <1>2, <1>3

\* An order stays in the book when another one comes.
LEMMA EntersKeeps ==
    ASSUME NEW m, NEW n, NEW o, Sound(m), Enters(m, n, o), NEW t \in Sides, NEW j \in DOMAIN m.book[t]
    PROVE  \E i \in DOMAIN n.book[t] : n.book[t][i] = m.book[t][j]
<1>1. PICK a : /\ Placed(n.book[o.side], m.book[o.side], o, a)
               /\ \A u \in Sides : u # o.side => n.book[u] = m.book[u]
  BY EnteredFrom
<1>2. CASE t # o.side
  BY <1>1, <1>2
<1>3. CASE t = o.side
  <2> DEFINE q == n.book[t]
             p == m.book[t]
  <2>1. Placed(q, p, o, a) /\ j \in DOMAIN p
    BY <1>1, <1>3
  <2> HIDE DEF q, p
  <2>2. /\ a \in Nat /\ Len(p) \in Nat /\ DOMAIN p = 1 .. Len(p) /\ DOMAIN q = 1 .. Len(p) + 1
    BY <2>1 DEF Placed
  <2>3. j \in DOMAIN q /\ j + 1 \in DOMAIN q /\ (j <= a \/ j > a)
    BY <2>1, <2>2
  <2>4. q[j] = p[j] \/ q[j + 1] = p[j]
    BY <2>1, <2>3 DEF Placed
  <2>5. \E i \in DOMAIN q : q[i] = p[j]
    BY <2>3, <2>4
  <2> QED BY <2>5 DEF q, p
<1> QED BY <1>2, <1>3

\* The first report of a new order starts a story.
LEMMA StoryStarts ==
    ASSUME NEW r \in Report
    PROVE  <<r>> \in Seq(Report) /\ Story(<<r>>) /\ Last(<<r>>) = r /\ Len(<<r>>) = 1
<1>1. <<r>> \in Seq(Report) /\ Len(<<r>>) = 1 /\ <<r>>[1] = r
  OBVIOUS
<1>2. <<r>> # <<>>
  BY <1>1, EmptySeq
<1>3. \A i \in 1 .. Len(<<r>>) - 1 : FALSE
  BY <1>1
<1> QED BY <1>1, <1>2, <1>3 DEF Story, Last

\* all with the first report r of a new order.
LEMMA FirstReport ==
    ASSUME NEW all \in Seq(Seq(Report)), NEW r \in Report
    PROVE  /\ Append(all, <<r>>) \in Seq(Seq(Report))
           /\ Len(all) \in Nat /\ DOMAIN all = 1 .. Len(all)
           /\ DOMAIN Append(all, <<r>>) = 1 .. Len(all) + 1
           /\ Append(all, <<r>>)[Len(all) + 1] = <<r>>
           /\ \A n \in DOMAIN all : Append(all, <<r>>)[n] = all[n]
<1>1. <<r>> \in Seq(Report)
  BY StoryStarts
<1>2. Len(all) \in Nat /\ DOMAIN all = 1 .. Len(all)
  BY LenProperties
<1>3. /\ Append(all, <<r>>) \in Seq(Seq(Report))
      /\ Len(Append(all, <<r>>)) = Len(all) + 1
      /\ \A n \in 1 .. Len(all) : Append(all, <<r>>)[n] = all[n]
      /\ Append(all, <<r>>)[Len(all) + 1] = <<r>>
  BY <1>1, Appended
<1>4. DOMAIN Append(all, <<r>>) = 1 .. Len(Append(all, <<r>>))
  BY <1>3, LenProperties
<1> QED BY <1>2, <1>3, <1>4

LEMMA NewIs ==
    ASSUME NEW o \in Order, o.executed = 0
    PROVE  /\ updateOrder(o, "NEW") \in Report
           /\ TrueOf(o, updateOrder(o, "NEW"))
<1>1. o.open \in Int /\ o.executed \in Int
  BY OrderIs
<1> QED BY <1>1 DEF updateOrder, Report, Statuses, TrueOf

\* What holds of the reports when an order has come.
LEMMA EntersTells ==
    ASSUME NEW m, NEW n, NEW o, Sound(m), Enters(m, n, o)
    PROVE  /\ n.reports \in Seq(Seq(Report)) /\ o.arrival \in DOMAIN n.reports
           /\ o.arrival \notin DOMAIN m.reports /\ o.arrival \in Nat
           /\ DOMAIN n.reports = DOMAIN m.reports \cup {o.arrival}
           /\ n.reports[o.arrival] = <<updateOrder(o, "NEW")>>
           /\ \A k \in DOMAIN m.reports : n.reports[k] = m.reports[k] /\ k < o.arrival /\ k \in Nat
<1> DEFINE all == m.reports
           r == updateOrder(o, "NEW")
<1>1. all \in Seq(Seq(Report)) /\ r \in Report
  BY NewIs DEF Sound, Typed, Enters
<1>2. n.reports = Append(all, <<r>>) /\ o.arrival = Len(all) + 1
  BY DEF Enters
<1> HIDE DEF all, r
<1>3. /\ Append(all, <<r>>) \in Seq(Seq(Report))
      /\ Len(all) \in Nat /\ DOMAIN all = 1 .. Len(all)
      /\ DOMAIN Append(all, <<r>>) = 1 .. Len(all) + 1
      /\ Append(all, <<r>>)[Len(all) + 1] = <<r>>
      /\ \A k \in DOMAIN all : Append(all, <<r>>)[k] = all[k]
  BY <1>1, FirstReport
<1>4. /\ n.reports \in Seq(Seq(Report))
      /\ o.arrival \notin DOMAIN all /\ o.arrival \in Nat
      /\ DOMAIN n.reports = DOMAIN all \cup {o.arrival}
      /\ n.reports[o.arrival] = <<r>>
      /\ \A k \in DOMAIN all : n.reports[k] = all[k] /\ k < o.arrival /\ k \in Nat
  BY <1>2, <1>3
<1> QED BY <1>4 DEF all, r

LEMMA EntersKeepsSound ==
    ASSUME NEW m, NEW n, NEW o, Sound(m), Enters(m, n, o)
    PROVE  Sound(n)
<1>1. PICK a \in Nat :
          \A t \in Sides : \A i \in DOMAIN n.book[t] :
              /\ i \in Nat
              /\ \/ t = o.side /\ i = a + 1 /\ n.book[t][i] = o
                 \/ \E j \in DOMAIN m.book[t] :
                        /\ n.book[t][i] = m.book[t][j] /\ j \in Nat
                        /\ t = o.side => (i = IF j <= a THEN j ELSE j + 1)
                        /\ t = o.side /\ j <= a => ~BetterPrice(o, m.book[t][j])
                        /\ t = o.side /\ j > a => BetterPrice(o, m.book[t][j])
                        /\ t # o.side => i = j
  BY EntersMoves
<1>2. /\ n.reports \in Seq(Seq(Report)) /\ o.arrival \in DOMAIN n.reports
      /\ o.arrival \notin DOMAIN m.reports /\ o.arrival \in Nat
      /\ DOMAIN n.reports = DOMAIN m.reports \cup {o.arrival}
      /\ n.reports[o.arrival] = <<updateOrder(o, "NEW")>>
      /\ \A k \in DOMAIN m.reports : n.reports[k] = m.reports[k] /\ k < o.arrival /\ k \in Nat
  BY EntersTells
<1>3. /\ o \in Order /\ o.open + o.executed = o.quantity /\ o.executed = 0 /\ o.side \in Sides
      /\ o.price \in Int
  BY OrderIs DEF Enters
<1>4. Typed(n)
  BY <1>2, EnteredFrom DEF Typed
<1>5. \A t \in Sides : \A j \in DOMAIN m.book[t] :
          LET p == m.book[t][j]
          IN  /\ p \in Order /\ p.price \in Int /\ p.side = t /\ p.open + p.executed = p.quantity
              /\ p.arrival \in DOMAIN m.reports
              /\ TrueOf(p, Last(m.reports[p.arrival]))
  <2> TAKE t \in Sides
  <2> TAKE j \in DOMAIN m.book[t]
  <2>1. m.book[t][j] \in Order
    BY BookIs DEF Sound
  <2> QED BY <2>1, OrderIs DEF Sound, Stands, LastIsTrue
<1>6. Stands(n)
  <2>1. SUFFICES ASSUME NEW t \in Sides, NEW i \in DOMAIN n.book[t]
                 PROVE  /\ n.book[t][i].side = t
                        /\ n.book[t][i].open + n.book[t][i].executed = n.book[t][i].quantity
                        /\ n.book[t][i].arrival \in DOMAIN n.reports
    BY DEF Stands
  <2>2. CASE t = o.side /\ n.book[t][i] = o
    BY <1>2, <1>3, <2>2
  <2>3. CASE \E j \in DOMAIN m.book[t] : n.book[t][i] = m.book[t][j]
    BY <1>2, <1>5, <2>3
  <2> QED BY <1>1, <2>2, <2>3
<1>7. Ranked(n)
  <2>1. SUFFICES ASSUME NEW t \in Sides, NEW i1 \in DOMAIN n.book[t], NEW i2 \in DOMAIN n.book[t],
                        i1 < i2
                 PROVE  Precedes(n.book[t][i1], n.book[t][i2])
    BY DEF Ranked
  <2> DEFINE New(i) == t = o.side /\ i = a + 1 /\ n.book[t][i] = o
             Old(i, j) == /\ n.book[t][i] = m.book[t][j] /\ j \in Nat
                          /\ t = o.side => (i = IF j <= a THEN j ELSE j + 1)
                          /\ t = o.side /\ j <= a => ~BetterPrice(o, m.book[t][j])
                          /\ t = o.side /\ j > a => BetterPrice(o, m.book[t][j])
                          /\ t # o.side => i = j
  <2>2. /\ i1 \in Nat /\ (New(i1) \/ \E j \in DOMAIN m.book[t] : Old(i1, j))
        /\ i2 \in Nat /\ (New(i2) \/ \E j \in DOMAIN m.book[t] : Old(i2, j))
    BY <1>1
  <2>3. CASE New(i1)
    <3>1. ~New(i2)
      BY <2>1, <2>3
    <3>2. PICK j \in DOMAIN m.book[t] : Old(i2, j)
      BY <2>2, <3>1
    <3>3. j > a
      BY <2>1, <2>2, <2>3, <3>2
    <3>4. BetterPrice(o, m.book[t][j]) /\ t = o.side
      BY <2>3, <3>2, <3>3
    <3>5. m.book[t][j].side = t
      BY <1>5
    <3> QED BY <2>3, <3>2, <3>4, <3>5 DEF Precedes
  <2>4. CASE ~New(i1) /\ New(i2)
    <3>1. PICK j \in DOMAIN m.book[t] : Old(i1, j)
      BY <2>2, <2>4
    <3>2. j <= a
      BY <2>1, <2>2, <2>4, <3>1
    <3>3. ~BetterPrice(o, m.book[t][j]) /\ t = o.side
      BY <2>4, <3>1, <3>2
    <3>4. /\ m.book[t][j].side = t /\ m.book[t][j].price \in Int
          /\ m.book[t][j].arrival < o.arrival
      BY <1>2, <1>5
    <3>5. Precedes(m.book[t][j], o)
      BY <1>3, <3>3, <3>4 DEF Precedes, BetterPrice, Sides
    <3> QED BY <2>4, <3>1, <3>5
  <2>5. CASE ~New(i1) /\ ~New(i2)
    <3>1. PICK j1 \in DOMAIN m.book[t] : Old(i1, j1)
      BY <2>2, <2>5
    <3>2. PICK j2 \in DOMAIN m.book[t] : Old(i2, j2)
      BY <2>2, <2>5
    <3>3. j1 < j2
      BY <2>1, <2>2, <3>1, <3>2
    <3>4. Precedes(m.book[t][j1], m.book[t][j2])
      BY <3>3 DEF Sound, Ranked
    <3> QED BY <3>1, <3>2, <3>4
  <2> QED BY <2>3, <2>4, <2>5
<1>8. Apart(n)
  <2>1. SUFFICES ASSUME NEW t \in Sides, NEW u \in Sides,
                        NEW i1 \in DOMAIN n.book[t], NEW i2 \in DOMAIN n.book[u],
                        n.book[t][i1].arrival = n.book[u][i2].arrival
                 PROVE  t = u /\ i1 = i2
    BY DEF Apart
  <2> DEFINE New(s, i) == s = o.side /\ i = a + 1 /\ n.book[s][i] = o
             Old(s, i, j) == /\ n.book[s][i] = m.book[s][j]
                             /\ s = o.side => (i = IF j <= a THEN j ELSE j + 1)
                             /\ s # o.side => i = j
  <2>2. /\ New(t, i1) \/ \E j \in DOMAIN m.book[t] : Old(t, i1, j)
        /\ New(u, i2) \/ \E j \in DOMAIN m.book[u] : Old(u, i2, j)
    <3>1. New(t, i1) \/ \E j \in DOMAIN m.book[t] : Old(t, i1, j)
      BY <1>1
    <3>2. New(u, i2) \/ \E j \in DOMAIN m.book[u] : Old(u, i2, j)
      BY <1>1
    <3> QED BY <3>1, <3>2
  <2>3. CASE New(t, i1) /\ New(u, i2)
    BY <2>3
  <2>4. CASE New(t, i1) /\ \E j \in DOMAIN m.book[u] : Old(u, i2, j)
    BY <1>2, <1>5, <2>1, <2>4
  <2>5. CASE New(u, i2) /\ \E j \in DOMAIN m.book[t] : Old(t, i1, j)
    BY <1>2, <1>5, <2>1, <2>5
  <2>6. CASE /\ \E j \in DOMAIN m.book[t] : Old(t, i1, j)
             /\ \E j \in DOMAIN m.book[u] : Old(u, i2, j)
    <3>1. PICK j1 \in DOMAIN m.book[t] : Old(t, i1, j1)
      BY <2>6
    <3>2. PICK j2 \in DOMAIN m.book[u] : Old(u, i2, j2)
      BY <2>6
    <3>3. m.book[t][j1].arrival = m.book[u][j2].arrival
      BY <2>1, <3>1, <3>2
    <3>4. t = u /\ j1 = j2
      BY <3>3 DEF Sound, Apart
    <3> QED BY <3>1, <3>2, <3>4
  <2> QED BY <2>2, <2>3, <2>4, <2>5, <2>6
<1>9. LastIsTrue(n)
  <2>1. SUFFICES ASSUME NEW t \in Sides, NEW i \in DOMAIN n.book[t]
                 PROVE  TrueOf(n.book[t][i], Last(n.reports[n.book[t][i].arrival]))
    BY DEF LastIsTrue
  <2>2. CASE n.book[t][i] = o
    <3>1. /\ Last(<<updateOrder(o, "NEW")>>) = updateOrder(o, "NEW")
          /\ TrueOf(o, updateOrder(o, "NEW"))
      BY <1>3, NewIs, StoryStarts
    <3> QED BY <1>2, <2>2, <3>1
  <2>3. CASE \E j \in DOMAIN m.book[t] : n.book[t][i] = m.book[t][j]
    BY <1>2, <1>5, <2>3
  <2> QED BY <1>1, <2>2, <2>3
<1>10. OneStory(n)
  <2>1. SUFFICES ASSUME NEW k \in DOMAIN n.reports PROVE Story(n.reports[k])
    BY DEF OneStory
  <2>2. CASE k = o.arrival
    BY <1>2, <1>3, <2>2, NewIs, StoryStarts
  <2>3. CASE k \in DOMAIN m.reports
    BY <1>2, <2>3 DEF Sound, OneStory
  <2> QED BY <1>2, <2>2, <2>3
<1> QED BY <1>4, <1>6, <1>7, <1>8, <1>9, <1>10 DEF Sound

LEMMA EntersKeepsAccounted ==
    ASSUME NEW m, NEW n, NEW o, Sound(m), Accounted(m), Enters(m, n, o)
    PROVE  Accounted(n)
<1>1. SUFFICES ASSUME NEW k \in DOMAIN n.reports
               PROVE  Rests(n, k) \/ Finished(Last(n.reports[k]))
  BY DEF Accounted
<1>2. /\ DOMAIN n.reports = DOMAIN m.reports \cup {o.arrival}
      /\ \A j \in DOMAIN m.reports : n.reports[j] = m.reports[j]
  BY EntersTells
<1>3. CASE k = o.arrival
  <2>1. PICK a : Placed(n.book[o.side], m.book[o.side], o, a)
    BY EnteredFrom
  <2>2. a + 1 \in DOMAIN n.book[o.side] /\ n.book[o.side][a + 1] = o
    BY <2>1 DEF Placed
  <2>3. o.side \in Sides
    BY OrderIs DEF Enters
  <2> QED BY <1>3, <2>2, <2>3 DEF Rests
<1>4. CASE k \in DOMAIN m.reports /\ Finished(Last(m.reports[k]))
  BY <1>2, <1>4
<1>5. CASE k \in DOMAIN m.reports /\ Rests(m, k)
  <2>1. PICK t \in Sides : \E j \in DOMAIN m.book[t] : m.book[t][j].arrival = k
    BY <1>5 DEF Rests
  <2>2. PICK j \in DOMAIN m.book[t] : m.book[t][j].arrival = k
    BY <2>1
  <2>3. \E i \in DOMAIN n.book[t] : n.book[t][i] = m.book[t][j]
    BY EntersKeeps
  <2> QED BY <2>2, <2>3 DEF Rests
<1> QED BY <1>2, <1>3, <1>4, <1>5 DEF Accounted

LEMMA EntersKeepsUnspoilt ==
    ASSUME NEW m, NEW n, NEW o, Sound(m), Unspoilt(m), Enters(m, n, o)
    PROVE  Unspoilt(n)
<1> SUFFICES ASSUME NoNegativeOrder(n.reports) PROVE NoneBelowZero(n)
  BY DEF Unspoilt
<1> DEFINE r == updateOrder(o, "NEW")
<1>1. /\ o.arrival \in DOMAIN n.reports
      /\ DOMAIN n.reports = DOMAIN m.reports \cup {o.arrival}
      /\ n.reports[o.arrival] = <<r>>
      /\ \A k \in DOMAIN m.reports : n.reports[k] = m.reports[k]
  BY EntersTells
<1>2. r.leaves = o.open /\ r.cum = 0 /\ o.executed = 0
  BY DEF Enters, updateOrder
<1> HIDE DEF r
<1>3. NoneBelowZero(m)
  BY <1>1 DEF NoNegativeOrder, Unspoilt
<1>4. o.open >= 0
  BY <1>1, <1>2 DEF NoNegativeOrder
<1>5. Len(<<r>>) = 1 /\ <<r>>[1] = r
  OBVIOUS
<1>6. Grown(<<r>>)
  BY <1>2, <1>4, <1>5 DEF Grown
<1>7. ASSUME NEW t \in Sides, NEW i \in DOMAIN n.book[t]
      PROVE  n.book[t][i].open >= 0 /\ n.book[t][i].executed >= 0
  <2>1. n.book[t][i] = o \/ \E j \in DOMAIN m.book[t] : n.book[t][i] = m.book[t][j]
    BY EntersMoves
  <2> QED BY <1>2, <1>3, <1>4, <2>1 DEF NoneBelowZero
<1>8. ASSUME NEW k \in DOMAIN n.reports PROVE Grown(n.reports[k])
  BY <1>1, <1>3, <1>6 DEF NoneBelowZero
<1> QED BY <1>7, <1>8 DEF NoneBelowZero

\* n is m without the order at place c of side s, and its owner was told.
Leaves(m, n, s, c) ==
    /\ s \in Sides /\ c \in DOMAIN m.book[s]
    /\ n.book = [m.book EXCEPT ![s] = RemoveAt(@, c)]
    /\ n.reports = Told(m.reports, m.book[s][c], CancelReport(m.book[s][c]))

\* Where the order at place i of side t was, before the one at c of s left.
Before(t, i, s, c) == IF t = s /\ i >= c THEN i + 1 ELSE i

\* The book of n is that of m without the order at place c of side s.
Without(m, n, s, c) ==
    /\ n.book \in [Sides -> Seq(Order)]
    /\ \A t \in Sides : \A i \in DOMAIN n.book[t] :
           /\ i \in Nat /\ Before(t, i, s, c) \in DOMAIN m.book[t]
           /\ n.book[t][i] = m.book[t][Before(t, i, s, c)]
           /\ ~(t = s /\ Before(t, i, s, c) = c)
    /\ \A t \in Sides : \A j \in DOMAIN m.book[t] :
           ~(t = s /\ j = c) => \E i \in DOMAIN n.book[t] : n.book[t][i] = m.book[t][j]

LEMMA LeavesFrom ==
    ASSUME NEW m, NEW n, NEW s, NEW c, Sound(m), Leaves(m, n, s, c)
    PROVE  Without(m, n, s, c)
<1> DEFINE p == m.book[s]
           q == RemoveAt(p, c)
<1>1. /\ s \in Sides /\ p \in Seq(Order) /\ Len(p) \in Nat /\ DOMAIN p = 1 .. Len(p)
      /\ m.book \in [Sides -> Seq(Order)] /\ c \in 1 .. Len(p)
  BY BookIs DEF Sound, Typed, Leaves
<1>2. Removed(q, p, c, Order)
  <2> HIDE DEF p
  <2> QED BY <1>1, RemoveAtIs, Zenon
<1>3. n.book = [m.book EXCEPT ![s] = q]
  BY DEF Leaves
<1> HIDE DEF q
<1>4. q \in Seq(Order) /\ Len(q) = Len(p) - 1
      /\ \A i \in 1 .. Len(p) - 1 : q[i] = p[IF i < c THEN i ELSE i + 1]
  BY <1>2 DEF Removed
<1>5. /\ n.book[s] = q /\ n.book \in [Sides -> Seq(Order)]
      /\ \A t \in Sides : t # s => n.book[t] = m.book[t]
  BY <1>1, <1>3, <1>4
<1>6. DOMAIN q = 1 .. Len(p) - 1
  BY <1>4, LenProperties
<1> HIDE DEF p
<1>7. ASSUME NEW t \in Sides, NEW i \in DOMAIN n.book[t]
      PROVE  /\ i \in Nat /\ Before(t, i, s, c) \in DOMAIN m.book[t]
             /\ n.book[t][i] = m.book[t][Before(t, i, s, c)]
             /\ ~(t = s /\ Before(t, i, s, c) = c)
  <2>1. CASE t # s
    <3>1. n.book[t] = m.book[t] /\ i \in DOMAIN m.book[t]
      BY <1>5, <2>1
    <3>2. i \in Nat
      BY <3>1, BookIs DEF Sound
    <3> QED BY <2>1, <3>1, <3>2 DEF Before
  <2>2. CASE t = s
    <3>1. i \in 1 .. Len(p) - 1 /\ n.book[t] = q
      BY <1>5, <1>6, <2>2
    <3> DEFINE j == IF i < c THEN i ELSE i + 1
    <3>2. /\ j \in DOMAIN p /\ i \in Nat /\ j # c
          /\ j = Before(t, i, s, c)
      BY <1>1, <2>2, <3>1 DEF Before
    <3>3. q[i] = p[j]
      BY <1>4, <3>1
    <3> HIDE DEF j
    <3>4. m.book[t] = p
      BY <2>2 DEF p
    <3> QED BY <2>2, <3>1, <3>2, <3>3, <3>4
  <2> QED BY <2>1, <2>2
<1>8. ASSUME NEW t \in Sides, NEW j \in DOMAIN m.book[t], ~(t = s /\ j = c)
      PROVE  \E i \in DOMAIN n.book[t] : n.book[t][i] = m.book[t][j]
  <2>1. CASE t # s
    BY <1>5, <2>1
  <2>2. CASE t = s
    <3>1. m.book[t] = p /\ n.book[t] = q /\ j \in 1 .. Len(p) /\ j # c
      BY <1>1, <1>5, <1>8, <2>2 DEF p
    <3>2. CASE j < c
      <4>1. j \in 1 .. Len(p) - 1
        BY <1>1, <3>1, <3>2
      <4>2. q[j] = p[j]
        BY <1>4, <3>2, <4>1
      <4> QED BY <1>6, <3>1, <4>1, <4>2
    <3>3. CASE j > c
      <4>1. j - 1 \in 1 .. Len(p) - 1 /\ ~(j - 1 < c) /\ (j - 1) + 1 = j
        BY <1>1, <3>1, <3>3
      <4>2. q[j - 1] = p[j]
        BY <1>4, <4>1
      <4> QED BY <1>6, <3>1, <4>1, <4>2
    <3> QED BY <1>1, <3>1, <3>2, <3>3
  <2> QED BY <2>1, <2>2
<1> QED BY <1>5, <1>7, <1>8 DEF Without

\* The owner of order a, and nobody else, was told of its cancel.
ToldOfCancel(new, all, a) ==
    /\ new \in Seq(Seq(Report)) /\ DOMAIN new = DOMAIN all /\ a \in DOMAIN all
    /\ \E r \in Report : /\ new[a] = Append(all[a], r)
                         /\ r.leaves = 0 /\ r.cum = Last(all[a]).cum
    /\ Story(new[a]) /\ Finished(Last(new[a])) /\ Last(new[a]).status = "CANCELED"
    /\ \A k \in DOMAIN all : k # a => new[k] = all[k]

LEMMA LeavesTells ==
    ASSUME NEW m, NEW n, NEW s, NEW c, Sound(m), Leaves(m, n, s, c)
    PROVE  ToldOfCancel(n.reports, m.reports, m.book[s][c].arrival)
<1> DEFINE o == m.book[s][c]
           r == CancelReport(o)
           all == m.reports
<1>1. /\ o \in Order /\ o.arrival \in DOMAIN all /\ TrueOf(o, Last(all[o.arrival]))
      /\ all \in Seq(Seq(Report)) /\ Story(all[o.arrival])
  BY BookIs DEF Leaves, Sound, Stands, LastIsTrue, Typed, OneStory
<1>2. n.reports = Told(all, o, r)
  BY DEF Leaves
<1>3. r = [status |-> "CANCELED", leaves |-> 0, cum |-> o.executed]
  BY <1>1 DEF CancelReport, Cancelled, updateOrder, Order
<1> HIDE DEF o, r, all
<1>4. o.executed \in Int
  BY <1>1, OrderIs
<1>5. r \in Report /\ Finished(r)
  BY <1>3, <1>4 DEF Report, Statuses, Finished
<1>6. /\ Told(all, o, r) \in Seq(Seq(Report)) /\ DOMAIN Told(all, o, r) = DOMAIN all
      /\ \A k \in DOMAIN all :
             Told(all, o, r)[k] = IF k = o.arrival THEN Append(all[k], r) ELSE all[k]
  BY <1>1, <1>5, ToldIs
<1>7. all[o.arrival] \in Seq(Report)
  BY <1>1, ReportsAre
<1>8. Follows(r, Last(all[o.arrival]))
  BY <1>1, <1>3, <1>4 DEF Follows, TrueOf
<1>9. Story(Append(all[o.arrival], r)) /\ Last(Append(all[o.arrival], r)) = r
  BY <1>1, <1>5, <1>7, <1>8, StoryGoesOn, Appended
<1>10. \E t \in Report : /\ n.reports[o.arrival] = Append(all[o.arrival], t)
                         /\ t.leaves = 0 /\ t.cum = Last(all[o.arrival]).cum
  <2>1. r.leaves = 0 /\ r.cum = Last(all[o.arrival]).cum
    BY <1>1, <1>3 DEF TrueOf
  <2>2. n.reports[o.arrival] = Append(all[o.arrival], r)
    BY <1>1, <1>2, <1>6
  <2> QED BY <1>5, <2>1, <2>2
<1>11. ToldOfCancel(n.reports, all, o.arrival)
  <2>1. /\ n.reports \in Seq(Seq(Report)) /\ DOMAIN n.reports = DOMAIN all
        /\ \A k \in DOMAIN all : k # o.arrival => n.reports[k] = all[k]
    BY <1>2, <1>6
  <2>2. /\ Story(n.reports[o.arrival]) /\ Finished(Last(n.reports[o.arrival]))
        /\ Last(n.reports[o.arrival]).status = "CANCELED"
    BY <1>1, <1>2, <1>3, <1>5, <1>6, <1>9
  <2> QED BY <1>1, <1>10, <2>1, <2>2 DEF ToldOfCancel
<1> QED BY <1>11 DEF o, all

LEMMA LeavesKeepsSound ==
    ASSUME NEW m, NEW n, NEW s, NEW c, Sound(m), Leaves(m, n, s, c)
    PROVE  Sound(n) /\ (Accounted(m) => Accounted(n))
<1> DEFINE from(t, i) == Before(t, i, s, c)
           a == m.book[s][c].arrival
<1>1. \A t \in Sides : \A i \in DOMAIN n.book[t] :
          /\ i \in Nat /\ from(t, i) \in DOMAIN m.book[t] /\ n.book[t][i] = m.book[t][from(t, i)]
          /\ ~(t = s /\ from(t, i) = c)
  BY LeavesFrom DEF Without
<1>2. \A t \in Sides : \A i, j \in DOMAIN n.book[t] :
          /\ i < j => from(t, i) < from(t, j)
          /\ from(t, i) = from(t, j) => i = j
  <2>1. c \in Nat
    BY BookIs DEF Leaves, Sound
  <2> QED BY <1>1, <2>1 DEF Before
<1>3. n.book \in [Sides -> Seq(Order)]
  BY LeavesFrom DEF Without
<1>4. /\ n.reports \in Seq(Seq(Report)) /\ DOMAIN n.reports = DOMAIN m.reports
      /\ a \in DOMAIN m.reports
      /\ Story(n.reports[a]) /\ Finished(Last(n.reports[a]))
      /\ \A k \in DOMAIN m.reports : k # a => n.reports[k] = m.reports[k]
  BY LeavesTells DEF ToldOfCancel
<1>5. s \in Sides /\ c \in DOMAIN m.book[s]
  BY DEF Leaves
<1> HIDE DEF from
<1>6. \A t \in Sides : \A i \in DOMAIN n.book[t] : n.book[t][i].arrival # a
  BY <1>1, <1>5 DEF Sound, Apart
<1>7. Typed(n) /\ Stands(n)
  <2>1. Typed(n)
    BY <1>3, <1>4 DEF Typed
  <2>2. \A t \in Sides : \A j \in DOMAIN m.book[t] :
            /\ m.book[t][j].side = t /\ m.book[t][j].arrival \in DOMAIN m.reports
            /\ m.book[t][j].open + m.book[t][j].executed = m.book[t][j].quantity
    BY DEF Stands, Sound
  <2>3. ASSUME NEW t \in Sides, NEW i \in DOMAIN n.book[t]
        PROVE  /\ n.book[t][i].side = t /\ n.book[t][i].arrival \in DOMAIN n.reports
               /\ n.book[t][i].open + n.book[t][i].executed = n.book[t][i].quantity
    <3>1. n.book[t][i] = m.book[t][from(t, i)] /\ from(t, i) \in DOMAIN m.book[t]
      BY <1>1
    <3> QED BY <1>4, <2>2, <3>1
  <2>4. Stands(n)
    BY <2>3 DEF Stands
  <2> QED BY <2>1, <2>4
<1>8. Ranked(n)
  BY <1>1, <1>2 DEF Ranked, Sound
<1>9. Apart(n)
  <2>1. SUFFICES ASSUME NEW t \in Sides, NEW u \in Sides,
                        NEW i \in DOMAIN n.book[t], NEW j \in DOMAIN n.book[u],
                        n.book[t][i].arrival = n.book[u][j].arrival
                 PROVE  t = u /\ i = j
    BY DEF Apart
  <2>2. t = u /\ from(t, i) = from(u, j)
    BY <1>1, <2>1 DEF Sound, Apart
  <2> QED BY <1>2, <2>2
<1>10. LastIsTrue(n)
  <2>1. SUFFICES ASSUME NEW t \in Sides, NEW i \in DOMAIN n.book[t]
                 PROVE  TrueOf(n.book[t][i], Last(n.reports[n.book[t][i].arrival]))
    BY DEF LastIsTrue
  <2>2. /\ n.book[t][i].arrival \in DOMAIN m.reports
        /\ TrueOf(n.book[t][i], Last(m.reports[n.book[t][i].arrival]))
    BY <1>1 DEF Sound, Stands, LastIsTrue
  <2> QED BY <1>4, <1>6, <2>2
<1>11. OneStory(n)
  BY <1>4 DEF OneStory, Sound
<1>12. ASSUME Accounted(m) PROVE Accounted(n)
  <2>1. SUFFICES ASSUME NEW k \in DOMAIN m.reports, k # a
                 PROVE  Rests(n, k) \/ Finished(Last(n.reports[k]))
    BY <1>4 DEF Accounted
  <2>2. CASE Finished(Last(m.reports[k]))
    BY <1>4, <2>1, <2>2
  <2>3. CASE Rests(m, k)
    <3>1. PICK t \in Sides : \E j \in DOMAIN m.book[t] : m.book[t][j].arrival = k
      BY <2>3 DEF Rests
    <3>2. PICK j \in DOMAIN m.book[t] : m.book[t][j].arrival = k
      BY <3>1
    <3>3. ~(t = s /\ j = c)
      BY <2>1, <3>2
    <3>4. \E i \in DOMAIN n.book[t] : n.book[t][i] = m.book[t][j]
      BY <3>3, LeavesFrom DEF Without
    <3> QED BY <3>2, <3>4 DEF Rests
  <2> QED BY <1>12, <2>2, <2>3 DEF Accounted
<1> QED BY <1>7, <1>8, <1>9, <1>10, <1>11, <1>12 DEF Sound

LEMMA LeavesKeepsUnspoilt ==
    ASSUME NEW m, NEW n, NEW s, NEW c, Sound(m), Unspoilt(m), Leaves(m, n, s, c)
    PROVE  Unspoilt(n)
<1> SUFFICES ASSUME NoNegativeOrder(n.reports) PROVE NoneBelowZero(n)
  BY DEF Unspoilt
<1> DEFINE a == m.book[s][c].arrival
<1>1. ToldOfCancel(n.reports, m.reports, a)
  BY LeavesTells
<1> HIDE DEF a
<1>2. /\ DOMAIN n.reports = DOMAIN m.reports /\ a \in DOMAIN m.reports
      /\ \A k \in DOMAIN m.reports : k # a => n.reports[k] = m.reports[k]
  BY <1>1 DEF ToldOfCancel
<1>3. PICK r \in Report : /\ n.reports[a] = Append(m.reports[a], r)
                         /\ r.leaves = 0 /\ r.cum = Last(m.reports[a]).cum
  BY <1>1 DEF ToldOfCancel
<1>4. m.reports \in Seq(Seq(Report)) /\ \A k \in DOMAIN m.reports : Story(m.reports[k])
  BY DEF Sound, Typed, OneStory
<1>5. NoNegativeOrder(m.reports)
  <2>1. \A k \in DOMAIN m.reports :
            /\ Story(m.reports[k])
            /\ \/ n.reports[k] = m.reports[k]
               \/ \E t \in Report : n.reports[k] = Append(m.reports[k], t)
    BY <1>2, <1>3, <1>4
  <2> QED BY <1>2, <1>4, <2>1, FirstStays
<1>6. NoneBelowZero(m)
  BY <1>5 DEF Unspoilt
<1>7. ASSUME NEW t \in Sides, NEW i \in DOMAIN n.book[t]
      PROVE  n.book[t][i].open >= 0 /\ n.book[t][i].executed >= 0
  <2>1. \E j \in DOMAIN m.book[t] : n.book[t][i] = m.book[t][j]
    BY LeavesFrom DEF Without
  <2> QED BY <1>6, <2>1 DEF NoneBelowZero
<1>8. Grown(n.reports[a])
  <2>1. Grown(m.reports[a]) /\ Story(m.reports[a]) /\ m.reports[a] \in Seq(Report)
    BY <1>2, <1>4, <1>6, ReportsAre DEF NoneBelowZero
  <2>2. Len(m.reports[a]) \in 1 .. Len(m.reports[a]) /\ Last(m.reports[a]) \in Report
    BY <1>2, <1>4, <2>1, ReportsAre DEF Story
  <2>3. r.cum \in Int /\ r.cum >= 0
    BY <1>3, <2>1, <2>2 DEF Grown, Last, Report
  <2>4. Last(m.reports[a]).cum <= r.cum /\ r.leaves >= 0
    BY <1>3, <2>3
  <2> QED BY <1>3, <2>1, <2>3, <2>4, GrowsOn
<1>9. ASSUME NEW k \in DOMAIN n.reports PROVE Grown(n.reports[k])
  BY <1>2, <1>6, <1>8 DEF NoneBelowZero
<1> QED BY <1>7, <1>9 DEF NoneBelowZero

(***************************************************************************)
(* The state between two requests.                                         *)
(***************************************************************************)
\* Nothing in the book could trade.
Quiet(m) ==
    \A i \in DOMAIN m.book["buy"], j \in DOMAIN m.book["sell"] :
        m.book["buy"][i].price < m.book["sell"][j].price

MatchInv ==
    /\ Sound(Both) /\ Quiet(Both) /\ Unspoilt(Both)
    /\ restarts \in Nat /\ (restarts = 0 => Accounted(Both))

\* When the best orders do not trade, no orders would.
LEMMA BestDecide ==
    ASSUME NEW m, Sound(m), ~CanTrade(m.book)
    PROVE  Quiet(m)
<1>1. SUFFICES ASSUME NEW i \in DOMAIN m.book["buy"], NEW j \in DOMAIN m.book["sell"]
               PROVE  m.book["buy"][i].price < m.book["sell"][j].price
  BY DEF Quiet
<1>2. "buy" \in Sides /\ "sell" \in Sides /\ "buy" # "sell"
  BY DEF Sides
<1>3. \A s \in Sides : \A k \in DOMAIN m.book[s] :
          /\ m.book[s][k].price \in Int /\ m.book[s][k].side = s
          /\ k \in Nat /\ m.book[s] # <<>>
  <2> TAKE s \in Sides
  <2> TAKE k \in DOMAIN m.book[s]
  <2>1. m.book[s][k] \in Order /\ k \in 1 .. Len(m.book[s]) /\ m.book[s] \in Seq(Order)
    BY BookIs DEF Sound
  <2>2. m.book[s] # <<>>
    BY <2>1, EmptySeq
  <2> QED BY <2>1, <2>2, OrderIs DEF Sound, Stands
<1>4. /\ m.book["buy"] # <<>> /\ m.book["sell"] # <<>>
      /\ 1 \in DOMAIN m.book["buy"] /\ Head(m.book["buy"]) = m.book["buy"][1]
      /\ 1 \in DOMAIN m.book["sell"] /\ Head(m.book["sell"]) = m.book["sell"][1]
  BY <1>2, <1>3, FirstStands
<1>5. m.book["buy"][1].price < m.book["sell"][1].price
  BY <1>2, <1>3, <1>4 DEF CanTrade, Crosses
<1>6. m.book["buy"][i].price <= m.book["buy"][1].price
  <2>1. i = 1 \/ 1 < i
    BY <1>2, BookIs DEF Sound
  <2>2. 1 < i => Precedes(m.book["buy"][1], m.book["buy"][i])
    BY <1>2, <1>4 DEF Sound, Ranked
  <2> QED BY <1>2, <1>3, <1>4, <2>1, <2>2 DEF Precedes, BetterPrice
<1>7. m.book["sell"][1].price <= m.book["sell"][j].price
  <2>1. j = 1 \/ 1 < j
    BY <1>2, BookIs DEF Sound
  <2>2. 1 < j => Precedes(m.book["sell"][1], m.book["sell"][j])
    BY <1>2, <1>4 DEF Sound, Ranked
  <2> QED BY <1>2, <1>3, <1>4, <2>1, <2>2 DEF Precedes, BetterPrice
<1> QED BY <1>2, <1>3, <1>4, <1>5, <1>6, <1>7

\* An empty book.
LEMMA EmptyBook ==
    /\ [s \in Sides |-> <<>>] \in [Sides -> Seq(Order)]
    /\ \A t \in Sides : DOMAIN [s \in Sides |-> <<>>][t] = {}
<1>1. <<>> \in Seq(Order) /\ DOMAIN <<>> = {}
  BY EmptySeq
<1> QED BY <1>1

LEMMA InitMatchInv == Init => MatchInv
<1> SUFFICES ASSUME Init PROVE MatchInv
  OBVIOUS
<1>1. /\ Both.book \in [Sides -> Seq(Order)] /\ \A t \in Sides : DOMAIN Both.book[t] = {}
      /\ Both.reports = <<>> /\ restarts = 0
  BY EmptyBook DEF Init, Both
<1>2. Both.reports \in Seq(Seq(Report)) /\ DOMAIN Both.reports = {}
  BY <1>1, EmptySeq
<1>3. "buy" \in Sides
  BY DEF Sides
<1>4. Sound(Both)
  BY <1>1, <1>2 DEF Sound, Typed, Stands, Ranked, Apart, LastIsTrue, OneStory
<1>5. Quiet(Both) /\ Accounted(Both) /\ Unspoilt(Both)
  BY <1>1, <1>2, <1>3 DEF Quiet, Accounted, Unspoilt, NoneBelowZero
<1> QED BY <1>1, <1>4, <1>5 DEF MatchInv

\* What processOrder does, as the loop sees it.
LEMMA OrderMatches ==
    ASSUME Sound(Both), NEW id \in ClientIds, NEW side \in Sides, NEW price \in Prices,
           NEW quantity \in Quantities, processOrder(id, side, price, quantity)
    PROVE  \E m, o : /\ Enters(Both, m, o) /\ Sound(m)
                     /\ Both'.book = Matched(m).book /\ Both'.reports = Matched(m).reports
                     /\ restarts' = restarts
<1> DEFINE o == NewOrder(Arrivals + 1, id, side, price, quantity)
           m == [book    |-> [book EXCEPT ![side] = Insert(@, o)],
                 reports |-> Append(reports, <<updateOrder(o, "NEW")>>)]
<1>1. Both.book = book /\ Both.reports = reports
  BY DEF Both
<1>2. Arrivals \in Nat
  BY <1>1, LenProperties DEF Sound, Typed, Arrivals
<1>3. Arrivals + 1 \in Nat \ {0} /\ quantity \in Int /\ price \in Int
  BY <1>2, OrdersAssumption
<1>4. /\ o \in Order /\ o.open + o.executed = o.quantity /\ o.executed = 0
      /\ o.arrival = Len(reports) + 1 /\ o.side = side
  BY <1>2, <1>3 DEF NewOrder, Order, Arrivals
<1>5. book' = Matched(m).book /\ reports' = Matched(m).reports /\ restarts' = restarts
  BY DEF processOrder
<1> HIDE DEF o
<1>6. Enters(Both, m, o)
  BY <1>1, <1>4 DEF Enters
<1> HIDE DEF m
<1>7. Sound(m)
  BY <1>6, EntersKeepsSound
<1>8. Both'.book = book' /\ Both'.reports = reports'
  BY DEF Both
<1> QED BY <1>5, <1>6, <1>7, <1>8

\* What is known of the two parts is known of the record of them.
LEMMA SoundParts ==
    ASSUME NEW m, NEW n, n.book = m.book, n.reports = m.reports
    PROVE  /\ Sound(m) <=> Sound(n)
           /\ Accounted(m) <=> Accounted(n)
           /\ Quiet(m) <=> Quiet(n)
           /\ Unspoilt(m) <=> Unspoilt(n)
<1>1. /\ Typed(m) <=> Typed(n)
      /\ Stands(m) <=> Stands(n)
      /\ Ranked(m) <=> Ranked(n)
      /\ Apart(m) <=> Apart(n)
      /\ LastIsTrue(m) <=> LastIsTrue(n)
      /\ OneStory(m) <=> OneStory(n)
  BY DEF Typed, Stands, Ranked, Apart, LastIsTrue, OneStory
<1>2. (Accounted(m) <=> Accounted(n)) /\ (Quiet(m) <=> Quiet(n))
  BY DEF Accounted, Rests, Quiet
<1>3. Unspoilt(m) <=> Unspoilt(n)
  BY DEF Unspoilt, NoneBelowZero
<1> QED BY <1>1, <1>2, <1>3 DEF Sound

LEMMA processOrderKeepsMatchInv ==
    ASSUME MatchInv, NEW id \in ClientIds, NEW side \in Sides, NEW price \in Prices,
           NEW quantity \in Quantities, processOrder(id, side, price, quantity)
    PROVE  MatchInv'
<1>1. PICK m, o : /\ Enters(Both, m, o) /\ Sound(m)
                  /\ Both'.book = Matched(m).book /\ Both'.reports = Matched(m).reports
                  /\ restarts' = restarts
  BY OrderMatches DEF MatchInv
<1>2. /\ Sound(Matched(m)) /\ ~CanTrade(Matched(m).book)
      /\ Accounted(m) => Accounted(Matched(m))
      /\ Unspoilt(m) => Unspoilt(Matched(m))
  BY <1>1, MatchedIs
<1>3. Quiet(Matched(m))
  BY <1>2, BestDecide
<1>4. (Accounted(Both) => Accounted(m)) /\ Unspoilt(m)
  BY <1>1, EntersKeepsAccounted, EntersKeepsUnspoilt DEF MatchInv
<1>5. /\ Sound(Matched(m)) <=> Sound(Both')
      /\ Accounted(Matched(m)) <=> Accounted(Both')
      /\ Quiet(Matched(m)) <=> Quiet(Both')
      /\ Unspoilt(Matched(m)) <=> Unspoilt(Both')
  BY <1>1, SoundParts
<1>6. Sound(Both') /\ Quiet(Both') /\ Unspoilt(Both') /\ (restarts = 0 => Accounted(Both'))
  BY <1>2, <1>3, <1>4, <1>5 DEF MatchInv
<1> QED BY <1>1, <1>6 DEF MatchInv

\* All that the owner of a refused order is told.
Refused(told) == Story(told) /\ Finished(Last(told)) /\ Grown(told)

\* What reject does to the reports.
LEMMA RejectTells ==
    ASSUME NEW all \in Seq(Seq(Report)), NEW new,
           new = Append(all, <<[status |-> "REJECTED", leaves |-> 0, cum |-> 0]>>)
    PROVE  /\ new \in Seq(Seq(Report)) /\ DOMAIN all \subseteq DOMAIN new
           /\ \A k \in DOMAIN all : new[k] = all[k]
           /\ \A k \in DOMAIN new : k \notin DOMAIN all => Refused(new[k])
<1> DEFINE r == [status |-> "REJECTED", leaves |-> 0, cum |-> 0]
<1>1. r \in Report /\ Finished(r) /\ new = Append(all, <<r>>) /\ r.leaves = 0 /\ r.cum = 0
  BY DEF Report, Statuses, Finished
<1> HIDE DEF r
<1>6. Len(<<r>>) = 1 /\ <<r>>[1] = r
  OBVIOUS
<1>7. Grown(<<r>>)
  BY <1>1, <1>6 DEF Grown
<1>2. Story(<<r>>) /\ Finished(Last(<<r>>))
  BY <1>1, StoryStarts
<1>3. /\ Append(all, <<r>>) \in Seq(Seq(Report))
      /\ Len(all) \in Nat /\ DOMAIN all = 1 .. Len(all)
      /\ DOMAIN Append(all, <<r>>) = 1 .. Len(all) + 1
      /\ Append(all, <<r>>)[Len(all) + 1] = <<r>>
      /\ \A n \in DOMAIN all : Append(all, <<r>>)[n] = all[n]
  BY <1>1, FirstReport
<1>4. DOMAIN all \subseteq DOMAIN new /\ \A k \in DOMAIN all : new[k] = all[k]
  BY <1>1, <1>3
<1>5. ASSUME NEW k \in DOMAIN new, k \notin DOMAIN all PROVE new[k] = <<r>>
  <2>1. k = Len(all) + 1
    BY <1>1, <1>3, <1>5
  <2> QED BY <1>1, <1>3, <2>1
<1> QED BY <1>1, <1>2, <1>3, <1>4, <1>5, <1>7 DEF Refused

LEMMA rejectOrderKeepsMatchInv ==
    ASSUME MatchInv, rejectOrder
    PROVE  MatchInv'
<1>1. /\ book' = book /\ restarts' = restarts
      /\ reports' = Append(reports, <<[status |-> "REJECTED", leaves |-> 0, cum |-> 0]>>)
  BY DEF rejectOrder
<1>2. reports \in Seq(Seq(Report))
  BY DEF MatchInv, Sound, Typed, Both
<1>3. /\ reports' \in Seq(Seq(Report)) /\ DOMAIN reports \subseteq DOMAIN reports'
      /\ \A k \in DOMAIN reports : reports'[k] = reports[k]
      /\ \A k \in DOMAIN reports' : k \notin DOMAIN reports => Refused(reports'[k])
  BY <1>1, <1>2, RejectTells
<1>4. /\ Both.book = book /\ Both.reports = reports
      /\ Both'.book = book /\ Both'.reports = reports'
  BY <1>1 DEF Both
<1>5. Typed(Both') /\ Ranked(Both') /\ Apart(Both')
  BY <1>3, <1>4 DEF MatchInv, Sound, Typed, Ranked, Apart
<1>6. Stands(Both')
  BY <1>3, <1>4 DEF MatchInv, Sound, Stands
<1>7. LastIsTrue(Both')
  BY <1>3, <1>4 DEF MatchInv, Sound, LastIsTrue, Stands
<1>8. OneStory(Both')
  BY <1>3, <1>4 DEF MatchInv, Sound, OneStory, Refused
<1>9. Quiet(Both')
  BY <1>4 DEF MatchInv, Quiet
<1>10. Accounted(Both) => Accounted(Both')
  <2>1. \A k : Rests(Both, k) <=> Rests(Both', k)
    BY <1>4 DEF Rests
  <2>2. SUFFICES ASSUME Accounted(Both), NEW k \in DOMAIN reports'
                 PROVE  Rests(Both', k) \/ Finished(Last(reports'[k]))
    BY <1>4 DEF Accounted
  <2>3. CASE k \in DOMAIN reports
    <3>1. Rests(Both, k) \/ Finished(Last(reports[k]))
      BY <1>4, <2>2, <2>3 DEF Accounted
    <3> QED BY <1>3, <2>1, <2>3, <3>1
  <2>4. CASE k \notin DOMAIN reports
    BY <1>3, <2>2, <2>4 DEF Refused
  <2> QED BY <2>3, <2>4
<1>11. Sound(Both')
  BY <1>5, <1>6, <1>7, <1>8 DEF Sound
<1>12. Unspoilt(Both')
  <2>1. NoNegativeOrder(reports') => NoNegativeOrder(reports)
    BY <1>3 DEF NoNegativeOrder
  <2>2. NoneBelowZero(Both) => NoneBelowZero(Both')
    BY <1>3, <1>4 DEF NoneBelowZero, Refused
  <2> QED BY <1>4, <2>1, <2>2 DEF MatchInv, Unspoilt
<1> QED BY <1>1, <1>9, <1>10, <1>11, <1>12 DEF MatchInv

\* Market::find finds an order of that side.
LEMMA FoundIs ==
    ASSUME NEW side \in Sides, NEW id, Sound(Both), Found(side, id) # 0
    PROVE  Found(side, id) \in DOMAIN book[side]
<1> DEFINE I == {i \in 1 .. Len(book[side]) : book[side][i].id = id}
<1>1. Found(side, id) = IF I # {} THEN Min(I) ELSE 0
  BY DEF Found, SelectInSeq
<1>2. Len(book[side]) \in Nat /\ DOMAIN book[side] = 1 .. Len(book[side])
  BY BookIs DEF Both
<1>3. I # {} /\ Found(side, id) = Min(I)
  BY <1>1
<1>4. I \in SUBSET Nat /\ I \subseteq DOMAIN book[side]
  BY <1>2
<1> HIDE DEF I
<1>5. \E x \in I : \A y \in I : x <= y
  BY <1>3, <1>4, LeastTurn
<1> DEFINE x == CHOOSE x \in I : \A y \in I : x <= y
<1>6. x \in I
  BY <1>5
<1>7. Min(I) = x
  BY DEF Min
<1> HIDE DEF x
<1> QED BY <1>3, <1>4, <1>6, <1>7

LEMMA CancelLeaves ==
    ASSUME Sound(Both), NEW side \in Sides, NEW id \in ClientIds, processCancel(side, id)
    PROVE  Leaves(Both, Both', side, Found(side, id)) /\ restarts' = restarts
<1> DEFINE c == Found(side, id)
<1>1. /\ c # 0
      /\ reports' = Told(reports, book[side][c], CancelReport(book[side][c]))
      /\ book' = [book EXCEPT ![side] = RemoveAt(@, c)]
      /\ restarts' = restarts
  BY DEF processCancel
<1>2. c \in DOMAIN book[side]
  BY <1>1, FoundIs
<1> HIDE DEF c
<1>3. /\ Both.book = book /\ Both.reports = reports
      /\ Both'.book = book' /\ Both'.reports = reports'
  BY DEF Both
<1>4. Leaves(Both, Both', side, c)
  BY <1>1, <1>2, <1>3 DEF Leaves
<1> QED BY <1>1, <1>4 DEF c

LEMMA processCancelKeepsMatchInv ==
    ASSUME MatchInv, NEW side \in Sides, NEW id \in ClientIds, processCancel(side, id)
    PROVE  MatchInv'
<1> DEFINE c == Found(side, id)
<1>1. Leaves(Both, Both', side, c) /\ restarts' = restarts /\ Sound(Both)
  BY CancelLeaves DEF MatchInv
<1> HIDE DEF c
<1>2. Sound(Both') /\ (Accounted(Both) => Accounted(Both'))
  BY <1>1, LeavesKeepsSound
<1>3. Without(Both, Both', side, c)
  BY <1>1, LeavesFrom
<1>4. Quiet(Both')
  <2>1. "buy" \in Sides /\ "sell" \in Sides
    BY DEF Sides
  <2>2. \A t \in Sides : \A i \in DOMAIN Both'.book[t] :
            \E j \in DOMAIN Both.book[t] : Both'.book[t][i] = Both.book[t][j]
    BY <1>3 DEF Without
  <2> QED BY <2>1, <2>2 DEF MatchInv, Quiet
<1>5. Unspoilt(Both')
  BY <1>1, LeavesKeepsUnspoilt DEF MatchInv
<1> QED BY <1>1, <1>2, <1>4, <1>5 DEF MatchInv

LEMMA RestartKeepsMatchInv ==
    ASSUME MatchInv, Restart
    PROVE  MatchInv'
<1>1. /\ Both'.book \in [Sides -> Seq(Order)] /\ \A t \in Sides : DOMAIN Both'.book[t] = {}
      /\ Both'.reports = Both.reports /\ restarts' = restarts + 1
  BY EmptyBook DEF Restart, Both
<1>2. restarts' \in Nat /\ restarts' # 0 /\ "buy" \in Sides
  BY <1>1 DEF MatchInv, Sides
<1>3. Sound(Both')
  BY <1>1 DEF MatchInv, Sound, Typed, Stands, Ranked, Apart, LastIsTrue, OneStory
<1>4. Quiet(Both')
  BY <1>1, <1>2 DEF Quiet
<1>5. Unspoilt(Both')
  BY <1>1 DEF MatchInv, Unspoilt, NoneBelowZero
<1> QED BY <1>2, <1>3, <1>4, <1>5 DEF MatchInv

LEMMA MatchInvariant == Spec => []MatchInv
<1>1. Init => MatchInv
  BY InitMatchInv
<1>2. MatchInv /\ [Next]_vars => MatchInv'
  <2> SUFFICES ASSUME MatchInv, [Next]_vars PROVE MatchInv'
    OBVIOUS
  <2>1. ASSUME NEW id \in ClientIds, NEW side \in Sides, NEW price \in Prices,
               NEW quantity \in Quantities, processOrder(id, side, price, quantity)
        PROVE  MatchInv'
    BY <2>1, processOrderKeepsMatchInv
  <2>2. CASE rejectOrder
    BY <2>2, rejectOrderKeepsMatchInv
  <2>3. ASSUME NEW side \in Sides, NEW id \in ClientIds, processCancel(side, id)
        PROVE  MatchInv'
    BY <2>3, processCancelKeepsMatchInv
  <2>4. CASE Restart
    BY <2>4, RestartKeepsMatchInv
  <2>5. CASE UNCHANGED vars
    <3>1. Both' = Both /\ restarts' = restarts
      BY <2>5 DEF vars, Both
    <3> QED BY <3>1 DEF MatchInv
  <2> QED BY <2>1, <2>2, <2>3, <2>4, <2>5 DEF Next
<1> QED BY <1>1, <1>2, PTL DEF Spec

\* Every part of the state has its type, whatever is ordered and cancelled, and
\* no quantity falls below zero in the book or in a report before somebody has
\* ordered a negative quantity.
THEOREM MatchTypesHold == Spec => []MatchTypeOK
<1>1. MatchInv => MatchTypeOK
  <2> SUFFICES ASSUME MatchInv PROVE MatchTypeOK
    OBVIOUS
  <2>1. Both.book = book /\ Both.reports = reports
    BY DEF Both
  <2>2. /\ book \in [Sides -> Seq(Order)] /\ reports \in Seq(Seq(Report)) /\ restarts \in Nat
    BY <2>1 DEF MatchInv, Sound, Typed
  <2>3. ASSUME NoNegativeOrder(reports), NEW o \in Resting PROVE o.open >= 0 /\ o.executed >= 0
    <3>1. NoneBelowZero(Both)
      BY <2>1, <2>3 DEF MatchInv, Unspoilt
    <3>2. PICK s \in Sides : \E i \in DOMAIN book[s] : o = book[s][i]
      BY DEF Resting, ToSet, Sides
    <3> QED BY <2>1, <3>1, <3>2 DEF NoneBelowZero
  <2>4. ASSUME NoNegativeOrder(reports), NEW n \in DOMAIN reports, NEW told \in ToSet(reports[n])
        PROVE  told.leaves >= 0 /\ told.cum >= 0
    <3>1. Grown(reports[n])
      BY <2>1, <2>4 DEF MatchInv, Unspoilt, NoneBelowZero
    <3>2. reports[n] \in Seq(Report)
      BY <2>2, ReportsAre
    <3>3. \E i \in 1 .. Len(reports[n]) : told = reports[n][i]
      BY <3>2, LenProperties DEF ToSet
    <3> QED BY <3>1, <3>3 DEF Grown
  <2> QED BY <2>2, <2>3, <2>4 DEF MatchTypeOK
<1> QED BY <1>1, MatchInvariant, PTL

\* When a request has been handled no bid reaches an offer: the turns of
\* Market::match are enough, and the best orders decide for all.
THEOREM NothingLeftToTradeHolds == Spec => []NothingLeftToTrade
<1>1. MatchInv => NothingLeftToTrade
  BY DEF MatchInv, Quiet, Both, NothingLeftToTrade, ToSet
<1> QED BY <1>1, MatchInvariant, PTL

\* The owner of an order knows how it stands, to the quantity.
THEOREM LastReportIsTrueHolds == Spec => []LastReportIsTrue
<1>1. MatchInv => LastReportIsTrue
  <2> SUFFICES ASSUME MatchInv PROVE LastReportIsTrue
    OBVIOUS
  <2>1. Both.book = book /\ Both.reports = reports
    BY DEF Both
  <2>2. ASSUME NEW o \in Resting
        PROVE  /\ Last(reports[o.arrival]).status \in {"NEW", "PARTIALLY_FILLED"}
               /\ Last(reports[o.arrival]).leaves = o.open
               /\ Last(reports[o.arrival]).cum = o.executed
    <3>1. PICK s \in Sides : \E i \in DOMAIN book[s] : o = book[s][i]
      BY DEF Resting, ToSet, Sides
    <3> QED BY <2>1, <3>1 DEF MatchInv, Sound, LastIsTrue, TrueOf
  <2>3. ASSUME NEW n \in DOMAIN reports, restarts = 0, \A o \in Resting : o.arrival # n
        PROVE  /\ Last(reports[n]).status \in {"FILLED", "CANCELED", "REJECTED"}
               /\ Last(reports[n]).leaves = 0
    <3>1. ~Rests(Both, n)
      BY <2>1, <2>3 DEF Rests, Resting, ToSet, Sides
    <3> QED BY <2>1, <2>3, <3>1 DEF MatchInv, Accounted, Finished
  <2> QED BY <2>2, <2>3 DEF LastReportIsTrue
<1> QED BY <1>1, MatchInvariant, PTL

\* No report follows a final one and the quantities of an order add up, whatever
\* is ordered; the reports take no execution back before somebody has ordered a
\* negative quantity.
THEOREM ReportsTellOneStoryHolds == Spec => []ReportsTellOneStory
<1>1. MatchInv => ReportsTellOneStory
  <2> SUFFICES ASSUME MatchInv, NEW n \in DOMAIN reports, NEW i \in 1 .. Len(reports[n]) - 1
               PROVE  /\ Follows(reports[n][i + 1], reports[n][i])
                      /\ NoNegativeOrder(reports) => reports[n][i].cum <= reports[n][i + 1].cum
    BY DEF ReportsTellOneStory, Follows
  <2>1. Both.reports = reports
    BY DEF Both
  <2>2. Story(reports[n])
    BY <2>1 DEF MatchInv, Sound, OneStory
  <2>3. ASSUME NoNegativeOrder(reports) PROVE Grown(reports[n])
    BY <2>1, <2>3 DEF MatchInv, Unspoilt, NoneBelowZero
  <2> QED BY <2>2, <2>3 DEF Story, Grown
<1> QED BY <1>1, MatchInvariant, PTL

(***************************************************************************)
(* The order of trades.                                                    *)
(***************************************************************************)
\* An order of the book has one place, and the ones that precede it stand
\* before it.
LEMMA PrecedesIsBefore ==
    ASSUME NEW m, Sound(m), NEW s \in Sides, NEW i \in DOMAIN m.book[s], NEW j \in DOMAIN m.book[s],
           Precedes(m.book[s][i], m.book[s][j])
    PROVE  i < j
<1>1. i \in Nat /\ j \in Nat /\ m.book[s][i] \in Order /\ m.book[s][j] \in Order
  BY BookIs DEF Sound
<1>2. /\ m.book[s][i].price \in Int /\ m.book[s][i].arrival \in Nat
      /\ m.book[s][j].price \in Int /\ m.book[s][j].arrival \in Nat
      /\ m.book[s][i].side \in Sides
  BY <1>1, OrderIs
<1>3. i # j
  BY <1>2 DEF Precedes, BetterPrice
<1>4. ~(j < i)
  <2> SUFFICES ASSUME j < i PROVE FALSE
    OBVIOUS
  <2>1. Precedes(m.book[s][j], m.book[s][i])
    BY DEF Sound, Ranked
  <2> QED BY <1>2, <2>1 DEF Precedes, BetterPrice
<1> QED BY <1>1, <1>3, <1>4

\* When the loop has told the owner of p of a trade, no order that preceded p
\* is in the book.
LEMMA LoopKeepsOrder ==
    ASSUME NEW first, NEW m, NEW D, Sound(first), Sound(m), Reached(first, m, D),
           NEW s \in Sides, NEW i \in DOMAIN first.book[s], NEW j \in DOMAIN first.book[s],
           Precedes(first.book[s][i], first.book[s][j]),
           Len(m.reports[first.book[s][j].arrival]) > Len(first.reports[first.book[s][j].arrival]),
           NEW t \in Sides, NEW k \in DOMAIN m.book[t]
    PROVE  m.book[t][k].arrival # first.book[s][i].arrival
<1>1. i < j /\ i \in Nat /\ j \in Nat
  BY PrecedesIsBefore, BookIs DEF Sound
<1>2. j <= D[s] + 1 /\ D[s] \in Nat
  BY DEF Reached
<1>3. /\ k + D[t] \in DOMAIN first.book[t]
      /\ m.book[t][k].arrival = first.book[t][k + D[t]].arrival
  BY DEF Reached, Same
<1>4. k \in Nat /\ k >= 1
  BY BookIs DEF Sound
<1>5. ~(t = s /\ k + D[t] = i)
  BY <1>1, <1>2, <1>4
<1> QED BY <1>3, <1>5 DEF Sound, Apart

\* Every step keeps the priority of price, then time.
LEMMA StepsKeepPriority ==
    ASSUME MatchInv, [Next]_vars, NEW o \in Resting, NEW p \in Resting,
           Trades(p), Precedes(o, p), NEW q \in Resting'
    PROVE  q.arrival # o.arrival
<1>1. Both.book = book /\ Both.reports = reports /\ Both'.book = book' /\ Both'.reports = reports'
  BY DEF Both
<1>2. Sound(Both)
  BY DEF MatchInv
<1>3. PICK s \in Sides : \E i \in DOMAIN book[s] : o = book[s][i]
  BY DEF Resting, ToSet, Sides
<1>4. PICK i \in DOMAIN book[s] : o = book[s][i]
  BY <1>3
<1>5. PICK u \in Sides : \E j \in DOMAIN book[u] : p = book[u][j]
  BY DEF Resting, ToSet, Sides
<1>6. PICK j \in DOMAIN book[u] : p = book[u][j]
  BY <1>5
<1>7. PICK t \in Sides : \E k \in DOMAIN book'[t] : q = book'[t][k]
  BY DEF Resting, ToSet, Sides
<1>8. PICK k \in DOMAIN book'[t] : q = book'[t][k]
  BY <1>7
<1>9. u = s /\ p.arrival \in DOMAIN reports /\ reports \in Seq(Seq(Report))
  <2>1. o.side = s /\ p.side = u /\ p.arrival \in DOMAIN reports
    BY <1>1, <1>2, <1>4, <1>6 DEF Sound, Stands
  <2> QED BY <1>1, <1>2, <2>1 DEF Precedes, Sound, Typed
<1>10. Len(reports[p.arrival]) \in Nat /\ ~(Len(reports[p.arrival]) > Len(reports[p.arrival]))
  BY <1>9, ReportsAre
<1>11. /\ Len(reports'[p.arrival]) > Len(reports[p.arrival])
       /\ Last(reports'[p.arrival]).status \in {"PARTIALLY_FILLED", "FILLED"}
  BY DEF Trades
<1>12. reports'[p.arrival] # reports[p.arrival]
  BY <1>10, <1>11
<1>13. ASSUME NEW id \in ClientIds, NEW side \in Sides, NEW price \in Prices,
              NEW quantity \in Quantities, processOrder(id, side, price, quantity)
       PROVE  q.arrival # o.arrival
  <2>1. PICK first, new : /\ Enters(Both, first, new) /\ Sound(first)
                          /\ Both'.book = Matched(first).book
                          /\ Both'.reports = Matched(first).reports
    BY <1>2, <1>13, OrderMatches
  <2> DEFINE m == Matched(first)
  <2>2. Sound(m) /\ \E D : Reached(first, m, D)
    BY <2>1, MatchedIs
  <2>3. book' = m.book /\ reports' = m.reports
    BY <1>1, <2>1
  <2> HIDE DEF m
  <2>4. PICK D : Reached(first, m, D)
    BY <2>2
  <2>5. PICK i1 \in DOMAIN first.book[s] : first.book[s][i1] = o
    BY <1>1, <1>2, <1>4, <2>1, EntersKeeps
  <2>6. PICK j1 \in DOMAIN first.book[s] : first.book[s][j1] = p
    BY <1>1, <1>2, <1>6, <1>9, <2>1, EntersKeeps
  <2>7. first.reports[p.arrival] = reports[p.arrival]
    BY <1>1, <1>2, <1>9, <2>1, EntersTells
  <2>8. Len(m.reports[p.arrival]) > Len(first.reports[p.arrival])
    BY <1>11, <2>3, <2>7
  <2>9. k \in DOMAIN m.book[t] /\ m.book[t][k] = q
    BY <1>8, <2>3
  <2>10. m.book[t][k].arrival # first.book[s][i1].arrival
    BY <2>1, <2>2, <2>4, <2>5, <2>6, <2>8, <2>9, LoopKeepsOrder
  <2> QED BY <2>5, <2>9, <2>10
<1>14. CASE rejectOrder
  <2>1. reports'[p.arrival] = reports[p.arrival]
    BY <1>9, <1>14, RejectTells DEF rejectOrder
  <2> QED BY <1>12, <2>1
<1>15. ASSUME NEW side \in Sides, NEW id \in ClientIds, processCancel(side, id)
       PROVE  q.arrival # o.arrival
  <2> DEFINE a == book[side][Found(side, id)].arrival
  <2>1. ToldOfCancel(reports', reports, a)
    <3>1. Leaves(Both, Both', side, Found(side, id))
      BY <1>2, <1>15, CancelLeaves
    <3> QED BY <1>1, <1>2, <3>1, LeavesTells
  <2> HIDE DEF a
  <2>2. p.arrival = a
    BY <1>9, <1>12, <2>1 DEF ToldOfCancel
  <2> QED BY <1>11, <2>1, <2>2 DEF ToldOfCancel
<1>16. CASE Restart
  BY <1>12, <1>16 DEF Restart
<1>17. CASE UNCHANGED vars
  BY <1>12, <1>17 DEF vars
<1> QED BY <1>13, <1>14, <1>15, <1>16, <1>17 DEF Next

\* No order trades while one of its side that precedes it, by price and then by
\* arrival, stays in the book, however many trades one request makes.
THEOREM PriceTimePriorityHolds == Spec => PriceTimePriority
<1>1. MatchInv /\ [Next]_vars =>
          [\A o \in Resting, p \in Resting :
              Trades(p) /\ Precedes(o, p) => \A q \in Resting' : q.arrival # o.arrival]_vars
  BY StepsKeepPriority
<1> QED BY <1>1, MatchInvariant, PTL DEF Spec, PriceTimePriority

============================================================================
