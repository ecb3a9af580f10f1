-------------------------- MODULE OrderedDelivery --------------------------
(***************************************************************************)
(* What a FIX session promises the applications at its two ends: messages  *)
(* arrive in the order in which they were sent.  A message may be left     *)
(* out, when the sequence numbers are reset before it was delivered, and   *)
(* the last one may be handed over again, flagged as a possible duplicate. *)
(***************************************************************************)
EXTENDS Naturals, Sequences

Sides == {"initiator", "acceptor"}

Peer(s) == IF s = "initiator" THEN "acceptor" ELSE "initiator"

VARIABLES
    accepted,    \* how many messages each side's application has sent
    delivered    \* what was handed to each side's application, in order

vars == <<accepted, delivered>>

Delivery == [id : Nat, dup : BOOLEAN]

LastDelivered(s) ==
    IF delivered[s] = <<>> THEN 0 ELSE delivered[s][Len(delivered[s])].id

HandOver(s, d) == delivered' = [delivered EXCEPT ![s] = Append(@, d)]

Init ==
    /\ accepted = [s \in Sides |-> 0]
    /\ delivered = [s \in Sides |-> <<>>]

Accept(s) ==
    /\ accepted' = [accepted EXCEPT ![s] = @ + 1]
    /\ UNCHANGED delivered

Deliver(s) ==
    /\ \E id \in LastDelivered(s) + 1 .. accepted[Peer(s)], dup \in BOOLEAN :
           HandOver(s, [id |-> id, dup |-> dup])
    /\ UNCHANGED accepted

Repeat(s) ==
    /\ delivered[s] # <<>>
    /\ HandOver(s, [id |-> LastDelivered(s), dup |-> TRUE])
    /\ UNCHANGED accepted

Next == \E s \in Sides : Accept(s) \/ Deliver(s) \/ Repeat(s)

Spec == Init /\ [][Next]_vars
============================================================================
