------------------------ MODULE ExecutionModels_proofs ------------------------
(***************************************************************************)
(* What the arithmetic of module ExecutionModels computes: an allocation   *)
(* divides exactly the lots it was made for, and a fill takes exactly its  *)
(* quantity out of one.                                                    *)
(***************************************************************************)
EXTENDS ExecutionModels, TLAPS

\* A share rounded to the nearest integer is a natural number.
LEMMA RoundHalfEvenIsNat ==
    ASSUME NEW n \in Nat, NEW d \in Nat \ {0}
    PROVE  RoundHalfEven(n, d) \in Nat
  <1>1. n \div d \in Nat /\ n % d \in Nat
    OBVIOUS
  <1> QED
    BY <1>1 DEF RoundHalfEven

\* A total of natural numbers is one.
LEMMA TotalIsNat ==
    ASSUME NEW a \in Allocations
    PROVE  Total(a) \in Nat
  BY DEF Allocations, Buckets, Total

(***************************************************************************)
(* The quantities an intent is rounded to are never negative, and together *)
(* are exactly what remains.                                               *)
(***************************************************************************)
THEOREM TargetQuantitiesDivide ==
    ASSUME NEW intent \in [Buckets -> 0..Scale], NEW remaining \in Nat
    PROVE  /\ TargetQuantities(intent, remaining) \in Allocations
           /\ Total(TargetQuantities(intent, remaining)) = remaining
  <1> DEFINE share == [b \in Buckets |-> RoundHalfEven(intent[b] * remaining, Scale)]
             Wanted(b) == Total([c \in Buckets |-> IF c <= b THEN share[c] ELSE 0])
             Given(b) == Least(Wanted(b), remaining)
  <1>1. \A b \in Buckets : share[b] \in Nat
    <2>1. ASSUME NEW b \in Buckets
          PROVE  intent[b] * remaining \in Nat
      BY ScaleAssumption
    <2> QED
      BY <2>1, RoundHalfEvenIsNat, ScaleAssumption
  <1> HIDE DEF share
  <1>2. \A b \in Levels : Wanted(b) \in Nat
    BY <1>1 DEF Levels, Buckets, Total
  <1>3. \A b \in 1..5 : Wanted(b - 1) <= Wanted(b)
    BY <1>1 DEF Buckets, Total
  <1> HIDE DEF Wanted
  <1>4. /\ \A b \in Levels : Given(b) \in 0..remaining
        /\ \A b \in 1..5 : Given(b - 1) <= Given(b)
    BY <1>2, <1>3 DEF Levels, Least
  <1>5. TargetQuantities(intent, remaining) =
          [b \in Buckets |->
              IF b = Inactive THEN remaining - Given(b - 1)
              ELSE IF b = 0   THEN Given(0)
              ELSE Given(b) - Given(b - 1)]
    BY Zenon DEF TargetQuantities, share, Wanted
  <1> HIDE DEF Given
  <1>6. TargetQuantities(intent, remaining) \in Allocations
    BY <1>4, <1>5 DEF Allocations, Buckets, Levels, Inactive
  <1>7. Total(TargetQuantities(intent, remaining)) = remaining
    BY <1>4, <1>5 DEF Total, Buckets, Levels, Inactive
  <1> QED
    BY <1>6, <1>7

(***************************************************************************)
(* A fill takes its quantity out of an allocation, or all there is, and    *)
(* leaves an allocation.                                                   *)
(***************************************************************************)
THEOREM ConsumedTakesTheFill ==
    ASSUME NEW a \in Allocations, NEW preferred \in Buckets, NEW quantity \in Nat
    PROVE  /\ Consumed(a, preferred, quantity) \in Allocations
           /\ quantity <= Total(a) =>
                Total(Consumed(a, preferred, quantity)) = Total(a) - quantity
  <1> DEFINE Before(b) == Total([c \in Buckets |->
                 IF Rank(c, preferred) < Rank(b, preferred) THEN a[c] ELSE 0])
             Taken(b) == Least(a[b], Greatest(quantity - Before(b), 0))
  <1>1. Consumed(a, preferred, quantity) = [b \in Buckets |-> a[b] - Taken(b)]
    BY Zenon DEF Consumed
  <1>2. \A b \in Buckets : a[b] \in Nat
    BY DEF Allocations
  <1>3. \A b \in Buckets : Before(b) \in Nat
    <2>1. ASSUME NEW b \in Buckets
          PROVE  [c \in Buckets |-> IF Rank(c, preferred) < Rank(b, preferred)
                                    THEN a[c] ELSE 0] \in Allocations
      BY <1>2 DEF Allocations
    <2> QED
      BY <2>1, TotalIsNat
  <1> HIDE DEF Before
  <1>4. \A b \in Buckets : Taken(b) \in 0..a[b]
    BY <1>2, <1>3 DEF Least, Greatest
  <1> DEFINE Upto(n) == Least(n, quantity)
  <1>5. \A b \in Buckets : Taken(b) = Upto(Before(b) + a[b]) - Upto(Before(b))
    BY <1>2, <1>3 DEF Least, Greatest
  <1>6. /\ \A n \in Nat : Upto(n) \in Nat
        /\ Upto(0) = 0
    BY DEF Least
  <1>7. ASSUME quantity <= Total(a)
        PROVE  Taken(0) + Taken(1) + Taken(2) + Taken(3) + Taken(4) + Taken(5) + Taken(6)
                 = quantity
    (***********************************************************************)
    (* The preferred bucket first, then the others in a fixed order, as if *)
    (* the preferred one, met again, were empty.                           *)
    (***********************************************************************)
    <2> DEFINE x == a[preferred]
               y == [b \in Buckets |-> IF b = preferred THEN 0 ELSE a[b]]
               Other(b) == IF b = preferred THEN 0 ELSE Taken(b)
    <2>1. x \in Nat /\ \A b \in Buckets : y[b] \in Nat
      BY <1>2
    <2>2. x + Total(y) = Total(a)
      BY <1>2 DEF Total, Buckets
    <2>3. Upto(Total(a)) = quantity
      BY <1>2, <1>7, TotalIsNat DEF Least
    <2>4. \A b \in Buckets : Before(b) =
            (IF Rank(0, preferred) < Rank(b, preferred) THEN a[0] ELSE 0)
            + (IF Rank(1, preferred) < Rank(b, preferred) THEN a[1] ELSE 0)
            + (IF Rank(2, preferred) < Rank(b, preferred) THEN a[2] ELSE 0)
            + (IF Rank(3, preferred) < Rank(b, preferred) THEN a[3] ELSE 0)
            + (IF Rank(4, preferred) < Rank(b, preferred) THEN a[4] ELSE 0)
            + (IF Rank(5, preferred) < Rank(b, preferred) THEN a[5] ELSE 0)
            + (IF Rank(6, preferred) < Rank(b, preferred) THEN a[6] ELSE 0)
      BY DEF Before, Total, Buckets
    <2>5. Before(preferred) = 0
      BY <1>2, <2>4 DEF Rank, Buckets, Inactive
    <2>6. /\ preferred # 6 => Before(6) = x
          /\ preferred # 0 => Before(0) = x + y[6]
          /\ preferred # 1 => Before(1) = x + y[6] + y[0]
          /\ preferred # 2 => Before(2) = x + y[6] + y[0] + y[1]
          /\ preferred # 3 => Before(3) = x + y[6] + y[0] + y[1] + y[2]
          /\ preferred # 4 => Before(4) = x + y[6] + y[0] + y[1] + y[2] + y[3]
          /\ preferred # 5 => Before(5) = x + y[6] + y[0] + y[1] + y[2] + y[3] + y[4]
      BY <1>2, <2>4 DEF Rank, Buckets, Inactive
    <2> HIDE DEF x, y, Taken, Upto
    <2>7. /\ Other(6) = Upto(x + y[6]) - Upto(x)
          /\ Other(0) = Upto(x + y[6] + y[0]) - Upto(x + y[6])
          /\ Other(1) = Upto(x + y[6] + y[0] + y[1]) - Upto(x + y[6] + y[0])
          /\ Other(2) = Upto(x + y[6] + y[0] + y[1] + y[2]) - Upto(x + y[6] + y[0] + y[1])
          /\ Other(3) = Upto(x + y[6] + y[0] + y[1] + y[2] + y[3]) - Upto(x + y[6] + y[0] + y[1] + y[2])
          /\ Other(4) = Upto(x + y[6] + y[0] + y[1] + y[2] + y[3] + y[4]) - Upto(x + y[6] + y[0] + y[1] + y[2] + y[3])
          /\ Other(5) = Upto(x + y[6] + y[0] + y[1] + y[2] + y[3] + y[4] + y[5]) - Upto(x + y[6] + y[0] + y[1] + y[2] + y[3] + y[4])
      BY <1>2, <1>5, <1>6, <2>1, <2>6 DEF Buckets, y
    <2>8. Taken(preferred) = Upto(x)
      BY <1>2, <1>4, <1>5, <1>6, <2>5 DEF x
    <2>9. Upto(x + y[6] + y[0] + y[1] + y[2] + y[3] + y[4] + y[5]) = quantity
      BY <2>1, <2>2, <2>3 DEF Total, Buckets
    <2>10. /\ Upto(x) \in Nat
           /\ Upto(x + y[6]) \in Nat
           /\ Upto(x + y[6] + y[0]) \in Nat
           /\ Upto(x + y[6] + y[0] + y[1]) \in Nat
           /\ Upto(x + y[6] + y[0] + y[1] + y[2]) \in Nat
           /\ Upto(x + y[6] + y[0] + y[1] + y[2] + y[3]) \in Nat
           /\ Upto(x + y[6] + y[0] + y[1] + y[2] + y[3] + y[4]) \in Nat
      BY <1>6, <2>1 DEF Buckets
    <2>11. Taken(preferred) + Other(6) + Other(0) + Other(1) + Other(2) + Other(3)
             + Other(4) + Other(5) = quantity
      BY <2>7, <2>8, <2>9, <2>10
    <2> QED
      BY <1>4, <2>11, <1>2 DEF Buckets
  <1> HIDE DEF Taken
  <1>8. Consumed(a, preferred, quantity) \in Allocations
    BY <1>1, <1>2, <1>4 DEF Allocations
  <1>9. ASSUME quantity <= Total(a)
        PROVE  Total(Consumed(a, preferred, quantity)) = Total(a) - quantity
    BY <1>1, <1>2, <1>4, <1>7, <1>9 DEF Total, Buckets
  <1> QED
    BY <1>8, <1>9

\* A fill that its preferred bucket can bear comes out of that bucket alone.
LEMMA ConsumedFromPreferred ==
    ASSUME NEW a \in Allocations, NEW preferred \in Buckets, NEW quantity \in Nat,
           quantity <= a[preferred]
    PROVE  Consumed(a, preferred, quantity) = [a EXCEPT ![preferred] = @ - quantity]
  <1> DEFINE Before(b) == Total([c \in Buckets |->
                 IF Rank(c, preferred) < Rank(b, preferred) THEN a[c] ELSE 0])
             Taken(b) == Least(a[b], Greatest(quantity - Before(b), 0))
  <1>1. Consumed(a, preferred, quantity) = [b \in Buckets |-> a[b] - Taken(b)]
    BY Zenon DEF Consumed
  <1>2. \A b \in Buckets : a[b] \in Nat
    BY DEF Allocations
  <1>3. \A b \in Buckets : Before(b) =
          (IF Rank(0, preferred) < Rank(b, preferred) THEN a[0] ELSE 0)
          + (IF Rank(1, preferred) < Rank(b, preferred) THEN a[1] ELSE 0)
          + (IF Rank(2, preferred) < Rank(b, preferred) THEN a[2] ELSE 0)
          + (IF Rank(3, preferred) < Rank(b, preferred) THEN a[3] ELSE 0)
          + (IF Rank(4, preferred) < Rank(b, preferred) THEN a[4] ELSE 0)
          + (IF Rank(5, preferred) < Rank(b, preferred) THEN a[5] ELSE 0)
          + (IF Rank(6, preferred) < Rank(b, preferred) THEN a[6] ELSE 0)
    BY DEF Before, Total, Buckets
  <1> HIDE DEF Before
  <1>4. Before(preferred) = 0
    BY <1>2, <1>3 DEF Rank, Buckets, Inactive
  <1>5. ASSUME NEW b \in Buckets, b # preferred
        PROVE  Before(b) \in Nat /\ a[preferred] <= Before(b)
    <2>1. Rank(preferred, preferred) < Rank(b, preferred)
      BY <1>5 DEF Rank, Buckets, Inactive
    <2> DEFINE Ahead(c) == IF Rank(c, preferred) < Rank(b, preferred) THEN a[c] ELSE 0
    <2>2. \A c \in Buckets : Ahead(c) \in Nat
      BY <1>2
    <2>3. Ahead(preferred) = a[preferred]
      BY <2>1
    <2>4. Before(b) = Ahead(0) + Ahead(1) + Ahead(2) + Ahead(3) + Ahead(4) + Ahead(5) + Ahead(6)
      BY <1>3
    <2>5. preferred \in Buckets
      OBVIOUS
    <2> HIDE DEF Ahead
    <2> QED
      BY <2>2, <2>3, <2>4, <2>5 DEF Buckets
  <1>6. Taken(preferred) = quantity
    BY <1>2, <1>4 DEF Least, Greatest
  <1>7. \A b \in Buckets : b # preferred => Taken(b) = 0
    BY <1>2, <1>5 DEF Least, Greatest
  <1> HIDE DEF Taken
  <1>8. a \in [Buckets -> Nat]
    BY DEF Allocations
  <1>9. \A b \in Buckets : a[b] - Taken(b) = [a EXCEPT ![preferred] = @ - quantity][b]
    BY <1>2, <1>6, <1>7, <1>8
  <1> QED
    BY <1>1, <1>8, <1>9
=============================================================================
