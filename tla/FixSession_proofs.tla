------------------------ MODULE FixSession_proofs ------------------------
(***************************************************************************)
(* Proofs about module FixSession, for every configuration, every number   *)
(* of messages and of disturbances: each part of the state has its type,   *)
(* and while numbers are never reset no session is ahead of its peer, the  *)
(* applications see ordered delivery, and a message is passed over only by *)
(* a Logout or a Reject that is counted unchecked.                         *)
(*                                                                         *)
(* The handlers first: each keeps a session fine in the context of a step. *)
(* Then a step of one side, which keeps both sides in step; then the       *)
(* actions, each of them such a step.                                      *)
(***************************************************************************)
EXTENDS FixSession, SequenceTheorems, FiniteSetTheorems, WellFoundedInduction, TLAPS

(***************************************************************************)
(* Messages.  Reach is the number that a session expects once it has       *)
(* counted a message.                                                      *)
(***************************************************************************)
Reach(m) == IF m.type = SequenceReset THEN m.arg ELSE m.num + 1

Sendable ==
    {m \in Message : /\ m.type = ResendRequest => m.arg >= 1
                     /\ m.type = SequenceReset => m.dup
                     /\ m.dup => m.type \in {App, SequenceReset}}

Given == [id : Nat, dup : BOOLEAN]

(***************************************************************************)
(* What a session sent since it had the number floor and before it has the *)
(* number sender: nothing reaches beyond sender, and a message that is not *)
(* sent again has a number that nothing before it reaches beyond.  No      *)
(* logon resets the numbers.                                               *)
(***************************************************************************)
Orderly(msgs, floor, sender) ==
    \A j \in 1 .. Len(msgs) :
        /\ Reach(msgs[j]) <= sender
        /\ ~msgs[j].dup => /\ floor <= msgs[j].num
                           /\ \A i \in 1 .. j - 1 : Reach(msgs[i]) <= msgs[j].num
        /\ msgs[j].type = Logon => msgs[j].arg = 0

(***************************************************************************)
(* What a message says of the store of its sender: a gap fill that it      *)
(* passes over nothing of the application, any other message that it is    *)
(* the one stored under its number.                                        *)
(***************************************************************************)
Apps(stored, sender) == {n \in 1 .. sender - 1 : stored[n].type = App}

Tells(m, stored, sender) ==
    IF m.type = SequenceReset
    THEN \A n \in m.num .. m.arg - 1 : n \notin Apps(stored, sender)
    ELSE m.num < sender /\ stored[m.num] = [type |-> m.type, arg |-> m.arg]

LEMMA TellsLater ==
    ASSUME NEW m \in Sendable, NEW stored, NEW sender \in Nat, NEW now, NEW later \in Nat,
           Reach(m) <= sender, sender <= later,
           \A n \in 1 .. sender - 1 : now[n] = stored[n],
           Tells(m, stored, sender)
    PROVE  Tells(m, now, later)
  <1>1. m.num \in Nat /\ m.num >= 1 /\ m.arg \in Nat
    BY DEF Sendable, Message, Positive
  <1>2. CASE m.type = SequenceReset
    <2>1. m.arg <= sender
      BY <1>2 DEF Reach
    <2>2. \A n \in m.num .. m.arg - 1 : n \in 1 .. sender - 1 /\ n \notin Apps(stored, sender)
      BY <1>1, <1>2, <2>1 DEF Tells
    <2> QED
      BY <1>2, <2>2 DEF Tells, Apps
  <1>3. CASE m.type # SequenceReset
    BY <1>1, <1>3 DEF Tells
  <1> QED
    BY <1>2, <1>3

LEMMA ReachIsNat ==
    ASSUME NEW m \in Sendable
    PROVE  Reach(m) \in Nat
  BY DEF Reach, Sendable, Message, Positive

LEMMA OrderlyConcat ==
    ASSUME NEW a \in Seq(Sendable), NEW b \in Seq(Sendable),
           NEW floor \in Nat, NEW between \in Nat, NEW sender \in Nat,
           floor <= between, between <= sender,
           Orderly(a, floor, between), Orderly(b, between, sender)
    PROVE  Orderly(a \o b, floor, sender)
  <1> DEFINE c == a \o b
  <1>1. /\ c \in Seq(Sendable)
        /\ Len(a) \in Nat /\ Len(b) \in Nat /\ Len(c) = Len(a) + Len(b)
        /\ \A i \in 1 .. Len(a) : c[i] = a[i]
        /\ \A i \in 1 .. Len(b) : c[Len(a) + i] = b[i]
    BY ConcatProperties, LenProperties
  <1>2. /\ \A i \in 1 .. Len(a) : a[i] \in Sendable
        /\ \A i \in 1 .. Len(b) : b[i] \in Sendable
    BY ElementOfSeq
  <1> HIDE DEF c
  <1>3. ASSUME NEW i \in 1 .. Len(a)
        PROVE  Reach(a[i]) \in Nat /\ Reach(a[i]) <= between
    BY <1>2, ReachIsNat DEF Orderly
  <1> SUFFICES ASSUME NEW j \in 1 .. Len(c)
               PROVE  /\ Reach(c[j]) <= sender
                      /\ ~c[j].dup => /\ floor <= c[j].num
                                      /\ \A i \in 1 .. j - 1 : Reach(c[i]) <= c[j].num
                      /\ c[j].type = Logon => c[j].arg = 0
    BY Zenon DEF Orderly, c
  <1>4. CASE j <= Len(a)
    <2>1. j \in 1 .. Len(a) /\ \A i \in 1 .. j - 1 : i \in 1 .. Len(a)
      BY <1>1, <1>4
    <2>2. c[j] = a[j] /\ \A i \in 1 .. j - 1 : c[i] = a[i]
      BY <1>1, <2>1
    <2> QED
      BY <1>3, <2>1, <2>2 DEF Orderly
  <1>5. CASE ~(j <= Len(a))
    <2>1. PICK k \in 1 .. Len(b) : j = Len(a) + k /\ c[j] = b[k]
      <3>1. j - Len(a) \in 1 .. Len(b) /\ j = Len(a) + (j - Len(a))
        BY <1>1, <1>5
      <3> QED
        BY <1>1, <3>1
    <2>2. b[k].num \in Nat
      BY <1>2, <2>1 DEF Sendable, Message, Positive
    <2>3. ASSUME ~b[k].dup, NEW i \in 1 .. j - 1
          PROVE  Reach(c[i]) <= b[k].num
      <3>1. between <= b[k].num /\ \A n \in 1 .. k - 1 : Reach(b[n]) <= b[k].num
        BY <2>3 DEF Orderly
      <3>2. CASE i <= Len(a)
        <4>1. i \in 1 .. Len(a) /\ c[i] = a[i]
          BY <1>1, <3>2
        <4> QED
          BY <1>3, <2>2, <3>1, <4>1
      <3>3. CASE ~(i <= Len(a))
        <4>1. i - Len(a) \in 1 .. k - 1 /\ i = Len(a) + (i - Len(a))
          BY <1>1, <2>1, <3>3
        <4>2. i - Len(a) \in 1 .. Len(b)
          BY <1>1, <2>1, <4>1
        <4>3. c[i] = b[i - Len(a)]
          BY <1>1, <4>1, <4>2
        <4> QED
          BY <3>1, <4>1, <4>3
      <3> QED
        BY <3>2, <3>3
    <2>4. floor <= b[k].num \/ b[k].dup
      BY <2>2 DEF Orderly
    <2> QED
      BY <2>1, <2>3, <2>4 DEF Orderly
  <1> QED
    BY <1>4, <1>5

LEMMA OrderlyLater ==
    ASSUME NEW msgs \in Seq(Sendable), NEW floor, NEW sender \in Nat, NEW later \in Nat,
           sender <= later, Orderly(msgs, floor, sender)
    PROVE  Orderly(msgs, floor, later)
  <1>1. \A j \in 1 .. Len(msgs) : Reach(msgs[j]) \in Nat
    BY ElementOfSeq, ReachIsNat
  <1> QED
    BY <1>1 DEF Orderly

LEMMA OrderlyEmpty ==
    ASSUME NEW floor, NEW sender
    PROVE  Orderly(<<>>, floor, sender)
  BY DEF Orderly

\* A message that is sent for the first time.
LEMMA OrderlyFresh ==
    ASSUME NEW m \in Sendable, ~m.dup, m.type = Logon => m.arg = 0
    PROVE  Orderly(<<m>>, m.num, m.num + 1)
  <1>1. m.num \in Nat /\ Reach(m) = m.num + 1
    BY DEF Reach, Sendable, Message, Positive
  <1> QED
    BY <1>1 DEF Orderly

\* Messages that are sent again.
LEMMA OrderlyAgain ==
    ASSUME NEW msgs \in Seq(Sendable), NEW sender,
           \A i \in 1 .. Len(msgs) : msgs[i].dup /\ Reach(msgs[i]) <= sender
    PROVE  Orderly(msgs, sender, sender)
  <1>1. \A i \in 1 .. Len(msgs) : msgs[i].type # Logon
    BY ElementOfSeq DEF Sendable, Logon, App, SequenceReset
  <1> QED
    BY <1>1 DEF Orderly

-----------------------------------------------------------------------------
(***************************************************************************)
(* A session in the middle of a handler: what it sends and hands over      *)
(* collects in out and got.  A context says what surrounds the handler:    *)
(* the session's configuration, whether numbers are kept for ever, the     *)
(* number floor the session had when the step began, and a limit: what the *)
(* peer has sent, or a number that is still to come.  mine is the store    *)
(* when the step began; peer and used are the store and the next number of *)
(* the other side; start is the number expected when the step began and    *)
(* again whether its message was handed over already.  sends says whether  *)
(* the application sends the message id; unchecked, whether the message    *)
(* that is read is counted wherever it arrives.                            *)
(***************************************************************************)
Context ==
    {c \in [resets : SUBSET ResetEvents, keep : BOOLEAN, floor : Positive, limit : Nat,
            mine : Seq(Stored), peer : Seq(Stored), used : Nat, start : Nat,
            again : BOOLEAN, sends : BOOLEAN, id : Nat, unchecked : BOOLEAN] :
        c.keep => c.resets = {}}

Coming(c) == Apps(c.peer, c.used)

Machine ==
    [initiate : BOOLEAN, resets : SUBSET ResetEvents,
     stored : Seq(Stored), sender : Positive, target : Positive,
     open : BOOLEAN, enabled : BOOLEAN,
     receivedLogon : BOOLEAN, sentLogon : BOOLEAN, sentLogout : BOOLEAN,
     sentReset : BOOLEAN, receivedReset : BOOLEAN,
     queue : SUBSET Sendable, range : [first : Nat, second : Nat],
     out : Seq(Sendable), got : Seq(Given)]

\* Every number that was used is in the store.
Working == {e \in Machine : e.sender - 1 <= Len(e.stored)}

Calm(e, c) ==
    /\ c.floor <= e.sender
    /\ e.target <= c.limit
    /\ \A q \in e.queue : Reach(q) <= c.limit
    /\ ~e.sentReset /\ ~e.receivedReset

\* What was stored stays, what is added is no message of the application but
\* the one it sends, and what is sent tells what is stored.
Truthful(e, c) ==
    /\ \A n \in 1 .. c.floor - 1 : e.stored[n] = c.mine[n]
    /\ \A n \in c.floor .. e.sender - 1 :
          e.stored[n].type = App => c.sends /\ n = c.floor /\ e.stored[n].arg = c.id
    /\ \A i \in 1 .. Len(e.out) : Tells(e.out[i], e.stored, e.sender)

\* The application was handed nothing, or the message that was expected.
Handed(e, c) ==
    \/ e.got = <<>>
    \/ /\ c.start < e.target \/ (~e.open /\ e.queue = {})
       /\ c.start \in Coming(c)
       /\ \E dup \in BOOLEAN :
             /\ e.got = <<[id |-> c.peer[c.start].arg, dup |-> dup]>>
             /\ dup \/ ~c.again

\* What is queued tells what the peer has stored, and the expected number moves
\* on over what was handed to the application, or is none of its business.
Follows(e, c) ==
    /\ \A q \in e.queue : Tells(q, c.peer, c.used)
    /\ c.start <= e.target
    /\ Handed(e, c)
    /\ e.target = c.start /\ c.again => \A q \in e.queue : q.num = c.start => q.dup
    /\ \A n \in Coming(c) :
          c.start <= n /\ n < e.target => c.unchecked \/ (e.got # <<>> /\ n = c.start)

Fine(e, c) ==
    /\ e \in Working
    /\ e.resets = c.resets
    /\ c.keep => /\ Calm(e, c) /\ Orderly(e.out, c.floor, e.sender)
                 /\ Truthful(e, c) /\ Follows(e, c)

\* A message that has arrived, at the beginning of its step.
Arrived(e, m, c) ==
    /\ m \in Sendable
    /\ c.keep => /\ Reach(m) <= c.limit /\ Tells(m, c.peer, c.used)
                 /\ ~m.dup => e.target <= m.num
                 /\ m.type = Logon => m.arg = 0
                 /\ e.got = <<>> /\ e.target = c.start
                 /\ c.again /\ m.num = c.start => m.dup
                 /\ m.type \in {Logout, Reject} /\ e.target < m.num => c.unchecked

SameNumbers(e, f) ==
    /\ f.resets = e.resets
    /\ f.stored = e.stored
    /\ f.sender = e.sender
    /\ f.target = e.target
    /\ f.queue \subseteq e.queue
    /\ f.out = e.out
    /\ f.got = e.got
    /\ f.open => e.open

LEMMA SameNumbersFine ==
    ASSUME NEW c \in Context, NEW e, NEW f \in Working, Fine(e, c), SameNumbers(e, f),
           c.keep => ~f.sentReset /\ ~f.receivedReset
    PROVE  Fine(f, c)
  <1>1. f.queue = {} \/ e.queue # {}
    BY DEF SameNumbers
  <1>2. c.keep => Truthful(f, c)
    BY DEF Fine, Truthful, SameNumbers
  <1>3. c.keep => Handed(f, c)
    BY <1>1 DEF Fine, Follows, Handed, SameNumbers
  <1>4. c.keep => Follows(f, c)
    BY <1>3 DEF Fine, Follows, SameNumbers
  <1> QED
    BY <1>2, <1>4 DEF Fine, Calm, SameNumbers

\* The flags and the range.
LEMMA FlagsFine ==
    ASSUME NEW c \in Context, NEW e, Fine(e, c)
    PROVE  /\ Fine([e EXCEPT !.sentLogon = TRUE], c)
           /\ Fine([e EXCEPT !.sentLogout = TRUE], c)
           /\ Fine([e EXCEPT !.receivedLogon = TRUE], c)
           /\ Fine([e EXCEPT !.sentReset = FALSE, !.receivedReset = FALSE], c)
           /\ Fine([e EXCEPT !.range = NoRange], c)
           /\ \A first, second \in Nat :
                 Fine([e EXCEPT !.range = [first |-> first, second |-> second]], c)
  <1>1. e \in Working
    BY DEF Fine
  <1>2. ASSUME NEW f \in Working, SameNumbers(e, f),
               f.sentReset = e.sentReset \/ f.sentReset = FALSE,
               f.receivedReset = e.receivedReset \/ f.receivedReset = FALSE
        PROVE  Fine(f, c)
    <2>1. c.keep => ~f.sentReset /\ ~f.receivedReset
      BY <1>2 DEF Fine, Calm
    <2> QED
      BY <1>2, <2>1, SameNumbersFine
  <1> DEFINE f1 == [e EXCEPT !.sentLogon = TRUE]
             f2 == [e EXCEPT !.sentLogout = TRUE]
             f3 == [e EXCEPT !.receivedLogon = TRUE]
             f4 == [e EXCEPT !.sentReset = FALSE, !.receivedReset = FALSE]
             f5 == [e EXCEPT !.range = NoRange]
  <1>3. f1 \in Working /\ SameNumbers(e, f1) /\ f1.sentReset = e.sentReset
        /\ f1.receivedReset = e.receivedReset
    BY <1>1 DEF Working, Machine, SameNumbers
  <1>4. f2 \in Working /\ SameNumbers(e, f2) /\ f2.sentReset = e.sentReset
        /\ f2.receivedReset = e.receivedReset
    BY <1>1 DEF Working, Machine, SameNumbers
  <1>5. f3 \in Working /\ SameNumbers(e, f3) /\ f3.sentReset = e.sentReset
        /\ f3.receivedReset = e.receivedReset
    BY <1>1 DEF Working, Machine, SameNumbers
  <1>6. f4 \in Working /\ SameNumbers(e, f4) /\ f4.sentReset = FALSE
        /\ f4.receivedReset = FALSE
    BY <1>1 DEF Working, Machine, SameNumbers
  <1>7. f5 \in Working /\ SameNumbers(e, f5) /\ f5.sentReset = e.sentReset
        /\ f5.receivedReset = e.receivedReset
    BY <1>1 DEF Working, Machine, SameNumbers, NoRange
  <1>9. ASSUME NEW first \in Nat, NEW second \in Nat
        PROVE  Fine([e EXCEPT !.range = [first |-> first, second |-> second]], c)
    <2> DEFINE f == [e EXCEPT !.range = [first |-> first, second |-> second]]
    <2>1. f \in Working /\ SameNumbers(e, f) /\ f.sentReset = e.sentReset
          /\ f.receivedReset = e.receivedReset
      BY <1>1 DEF Working, Machine, SameNumbers
    <2> QED
      BY <1>2, <2>1
  <1> HIDE DEF f1, f2, f3, f4, f5
  <1>10. Fine(f1, c) /\ Fine(f2, c) /\ Fine(f3, c) /\ Fine(f4, c) /\ Fine(f5, c)
    BY <1>2, <1>3, <1>4, <1>5, <1>6, <1>7
  <1> QED
    BY <1>9, <1>10 DEF f1, f2, f3, f4, f5

LEMMA ResetStoreFine ==
    ASSUME NEW c \in Context, NEW e, Fine(e, c), ~c.keep
    PROVE  Fine(ResetStore(e), c)
  <1>1. <<>> \in Seq(Stored) /\ Len(<<>>) = 0
    BY EmptySeq
  <1>2. e \in Machine /\ 1 \in Positive
    BY DEF Fine, Working, Positive
  <1>3. /\ ResetStore(e) \in Machine
        /\ ResetStore(e).stored = <<>> /\ ResetStore(e).sender = 1
        /\ ResetStore(e).resets = e.resets
    BY <1>1, <1>2 DEF ResetStore, Machine
  <1> QED
    BY <1>1, <1>3 DEF Fine, Working

LEMMA IncrTargetFine ==
    ASSUME NEW c \in Context, NEW e, Fine(e, c),
           c.keep => /\ e.target + 1 <= c.limit
                     /\ e.target \in Coming(c) =>
                            c.unchecked \/ (e.got # <<>> /\ e.target = c.start)
    PROVE  Fine(IncrTarget(e), c)
  <1>1. /\ e \in Machine /\ e.sender - 1 <= Len(e.stored)
        /\ e.target + 1 \in Positive /\ e.target \in Nat /\ c.start \in Nat
    BY DEF Fine, Working, Machine, Positive, Context
  <1>2. /\ IncrTarget(e) \in Machine
        /\ IncrTarget(e).resets = e.resets /\ IncrTarget(e).sender = e.sender
        /\ IncrTarget(e).stored = e.stored
        /\ IncrTarget(e).target = e.target + 1
        /\ IncrTarget(e).queue = e.queue /\ IncrTarget(e).out = e.out
        /\ IncrTarget(e).got = e.got
        /\ IncrTarget(e).sentReset = e.sentReset
        /\ IncrTarget(e).receivedReset = e.receivedReset
    BY <1>1 DEF IncrTarget, Machine
  <1> DEFINE f == IncrTarget(e)
  <1> HIDE DEF f
  <1>3. ASSUME c.keep
        PROVE  Calm(f, c) /\ Truthful(f, c) /\ Follows(f, c)
    <2>1. c.start <= e.target /\ f.target = e.target + 1
      BY <1>2, <1>3 DEF Fine, Follows, f
    <2>2. Handed(f, c)
      BY <1>1, <1>2, <1>3, <2>1 DEF Fine, Follows, Handed, f
    <2>3. \A n \in Coming(c) : n < f.target => n < e.target \/ n = e.target
      BY <1>1, <2>1 DEF Coming, Apps
    <2>4. f.target # c.start /\ c.start <= f.target
      BY <1>1, <2>1
    <2>5. Follows(f, c)
      BY <1>2, <1>3, <2>2, <2>3, <2>4 DEF Fine, Follows, f
    <2>6. Truthful(f, c)
      BY <1>2, <1>3 DEF Fine, Truthful, f
    <2> QED
      BY <1>2, <1>3, <2>5, <2>6 DEF Fine, Calm, f
  <1> QED
    BY <1>1, <1>2, <1>3 DEF Fine, Working, f

LEMMA PersistWorks ==
    ASSUME NEW e \in Working, NEW type \in Types, NEW arg \in Nat
    PROVE  LET f == Persist(e, type, arg)
           IN  /\ StoreSet(e, type, arg) \in Working
               /\ f \in Working
               /\ f.sender = e.sender + 1
               /\ f.stored = StoreSet(e, type, arg).stored
               /\ \A n \in 1 .. e.sender - 1 : f.stored[n] = e.stored[n]
               /\ f.stored[e.sender] = [type |-> type, arg |-> arg]
               /\ f.resets = e.resets /\ f.target = e.target
               /\ f.queue = e.queue /\ f.out = e.out
               /\ f.got = e.got /\ f.open = e.open
               /\ f.sentReset = e.sentReset /\ f.receivedReset = e.receivedReset
  <1> DEFINE stored == SubSeq(e.stored, 1, e.sender - 1) \o <<[type |-> type, arg |-> arg]>>
  <1>1. e.stored \in Seq(Stored) /\ e.sender \in Nat /\ e.sender >= 1
        /\ e.sender - 1 <= Len(e.stored)
    BY DEF Working, Machine, Positive
  <1>2. /\ SubSeq(e.stored, 1, e.sender - 1) \in Seq(Stored)
        /\ Len(SubSeq(e.stored, 1, e.sender - 1)) = e.sender - 1
        /\ \A n \in 1 .. e.sender - 1 : SubSeq(e.stored, 1, e.sender - 1)[n] = e.stored[n]
    BY <1>1, SubSeqProperties
  <1>3. /\ stored \in Seq(Stored) /\ Len(stored) = e.sender
        /\ \A n \in 1 .. e.sender - 1 : stored[n] = e.stored[n]
        /\ stored[e.sender] = [type |-> type, arg |-> arg]
    <2> DEFINE old == SubSeq(e.stored, 1, e.sender - 1)
               new == <<[type |-> type, arg |-> arg]>>
    <2>1. new \in Seq(Stored) /\ Len(new) = 1 /\ new[1] = [type |-> type, arg |-> arg]
      BY DEF Stored
    <2> HIDE DEF old, new
    <2>2. /\ old \o new \in Seq(Stored) /\ Len(old \o new) = Len(old) + Len(new)
          /\ \A n \in 1 .. Len(old) + Len(new) :
                (old \o new)[n] = IF n <= Len(old) THEN old[n] ELSE new[n - Len(old)]
      BY <1>2, <2>1, ConcatProperties DEF old
    <2>3. Len(old) = e.sender - 1 /\ \A n \in 1 .. e.sender - 1 : old[n] = e.stored[n]
      BY <1>2 DEF old
    <2>4. stored = old \o new
      BY DEF old, new
    <2> HIDE DEF stored
    <2>5. Len(stored) = e.sender /\ stored \in Seq(Stored)
      BY <1>1, <2>1, <2>2, <2>3, <2>4
    <2>6. \A n \in 1 .. e.sender - 1 : stored[n] = e.stored[n]
      BY <1>1, <2>1, <2>2, <2>3, <2>4
    <2>7. stored[e.sender] = [type |-> type, arg |-> arg]
      <3>1. e.sender \in 1 .. Len(old) + Len(new) /\ ~(e.sender <= Len(old))
            /\ e.sender - Len(old) = 1
        BY <1>1, <2>1, <2>3
      <3> QED
        BY <2>1, <2>2, <2>4, <3>1
    <2> QED
      BY <2>5, <2>6, <2>7
  <1> HIDE DEF stored
  <1>4. e \in Machine /\ e.sender + 1 \in Positive
    BY <1>1 DEF Working, Positive
  <1>5. /\ StoreSet(e, type, arg) \in Machine
        /\ StoreSet(e, type, arg).stored = stored
        /\ StoreSet(e, type, arg).sender = e.sender
        /\ Persist(e, type, arg) = [e EXCEPT !.stored = stored, !.sender = e.sender + 1]
    BY <1>3, <1>4 DEF StoreSet, Persist, Machine, stored
  <1> DEFINE f == Persist(e, type, arg)
  <1>6. /\ f \in Machine /\ f.stored = stored
        /\ f.sender = e.sender + 1
        /\ f.resets = e.resets /\ f.target = e.target
        /\ f.queue = e.queue /\ f.out = e.out
        /\ f.got = e.got /\ f.open = e.open
        /\ f.sentReset = e.sentReset /\ f.receivedReset = e.receivedReset
    BY <1>3, <1>4, <1>5 DEF Machine
  <1> HIDE DEF f
  <1>7. StoreSet(e, type, arg) \in Working /\ f \in Working
    BY <1>1, <1>3, <1>5, <1>6 DEF Working
  <1> QED
    BY <1>3, <1>5, <1>6, <1>7 DEF f

LEMMA AllOfConcat ==
    ASSUME NEW a \in Seq(Sendable), NEW b \in Seq(Sendable), NEW stored, NEW sender,
           \A i \in 1 .. Len(a) : Tells(a[i], stored, sender),
           \A i \in 1 .. Len(b) : Tells(b[i], stored, sender)
    PROVE  \A i \in 1 .. Len(a \o b) : Tells((a \o b)[i], stored, sender)
  <1>1. /\ Len(a) \in Nat /\ Len(b) \in Nat /\ Len(a \o b) = Len(a) + Len(b)
        /\ \A i \in 1 .. Len(a) + Len(b) :
              (a \o b)[i] = IF i <= Len(a) THEN a[i] ELSE b[i - Len(a)]
    BY ConcatProperties, LenProperties
  <1> SUFFICES ASSUME NEW i \in 1 .. Len(a \o b)
               PROVE  Tells((a \o b)[i], stored, sender)
    OBVIOUS
  <1>2. CASE i <= Len(a)
    <2>1. i \in 1 .. Len(a) /\ (a \o b)[i] = a[i]
      BY <1>1, <1>2
    <2> QED
      BY <2>1
  <1>3. CASE ~(i <= Len(a))
    <2>1. i - Len(a) \in 1 .. Len(b) /\ (a \o b)[i] = b[i - Len(a)]
      BY <1>1, <1>3
    <2> QED
      BY <2>1
  <1> QED
    BY <1>2, <1>3

LEMMA TransmitFine ==
    ASSUME NEW c \in Context, NEW e \in Working, e.resets = c.resets,
           NEW msgs \in Seq(Sendable),
           c.keep => /\ Calm(e, c) /\ Truthful(e, c) /\ Follows(e, c)
                     /\ Orderly(e.out, c.floor, e.sender)
                     /\ Orderly(e.out \o msgs, c.floor, e.sender)
                     /\ \A i \in 1 .. Len(msgs) : Tells(msgs[i], e.stored, e.sender)
    PROVE  Fine(Transmit(e, msgs), c)
  <1> DEFINE f == [e EXCEPT !.out = @ \o msgs]
  <1>1. e.out \o msgs \in Seq(Sendable)
    BY ConcatProperties DEF Working, Machine
  <1>2. f \in Working
    BY <1>1 DEF Working, Machine
  <1>3. /\ f.resets = e.resets /\ f.sender = e.sender /\ f.target = e.target
        /\ f.stored = e.stored /\ f.got = e.got /\ f.open = e.open
        /\ f.queue = e.queue /\ f.out = e.out \o msgs
        /\ f.sentReset = e.sentReset /\ f.receivedReset = e.receivedReset
    BY DEF Working, Machine
  <1>4. Transmit(e, msgs) = e \/ Transmit(e, msgs) = f
    BY Zenon DEF Transmit
  <1>5. c.keep => \A i \in 1 .. Len(e.out \o msgs) : Tells((e.out \o msgs)[i], e.stored, e.sender)
    <2>1. e.out \in Seq(Sendable)
      BY DEF Working, Machine
    <2>2. c.keep => \A i \in 1 .. Len(e.out) : Tells(e.out[i], e.stored, e.sender)
      BY DEF Truthful
    <2> QED
      BY <2>1, <2>2, AllOfConcat
  <1> HIDE DEF f
  <1>6. c.keep => Truthful(f, c)
    BY <1>3, <1>5 DEF Truthful
  <1>7. c.keep => Follows(f, c)
    BY <1>3 DEF Follows, Handed
  <1> QED
    BY <1>2, <1>3, <1>4, <1>6, <1>7 DEF Fine, Calm

(***************************************************************************)
(* Sending                                                                 *)
(***************************************************************************)
LEMMA MarkResetFine ==
    ASSUME NEW c \in Context, NEW e, Fine(e, c), NEW type, NEW arg,
           c.keep /\ type = Logon => arg = 0
    PROVE  LET marked == MarkReset(e, type, arg)
           IN  /\ Fine(marked, c)
               /\ c.keep => /\ marked.target = e.target
                            /\ marked.queue = e.queue
                            /\ marked.got = e.got
                            /\ marked.sender = e.sender
  <1>1. e \in Working
    BY DEF Fine
  <1>2. CASE ~(type = Logon /\ ~e.receivedReset)
    BY <1>2, Zenon DEF MarkReset
  <1>3. CASE type = Logon /\ ~e.receivedReset /\ arg = 1
    <2>1. ~c.keep
      BY <1>3
    <2>2. Fine(ResetStore(e), c)
      BY <2>1, ResetStoreFine
    <2>3. MarkReset(e, type, arg) = [ResetStore(e) EXCEPT !.sentReset = TRUE]
      BY <1>3 DEF MarkReset
    <2>4. \A f \in Working : /\ [f EXCEPT !.sentReset = TRUE] \in Working
                             /\ [f EXCEPT !.sentReset = TRUE].resets = f.resets
      BY DEF Working, Machine
    <2> QED
      BY <2>1, <2>2, <2>3, <2>4 DEF Fine
  <1>4. CASE type = Logon /\ ~e.receivedReset /\ arg # 1
    <2> DEFINE f == [e EXCEPT !.sentReset = FALSE]
    <2>1. MarkReset(e, type, arg) = f
      BY <1>4 DEF MarkReset
    <2>2. f \in Working /\ SameNumbers(e, f) /\ ~f.sentReset
          /\ f.receivedReset = e.receivedReset /\ f.queue = e.queue
      BY <1>1 DEF Working, Machine, SameNumbers
    <2>3. c.keep => ~f.receivedReset
      BY <2>2 DEF Fine, Calm
    <2> HIDE DEF f
    <2>4. Fine(f, c)
      BY <2>2, <2>3, SameNumbersFine
    <2> QED
      BY <2>1, <2>2, <2>4 DEF SameNumbers
  <1> QED
    BY <1>2, <1>3, <1>4

LEMMA SendRawFine ==
    ASSUME NEW c \in Context, NEW e, Fine(e, c),
           NEW type \in Types \ {SequenceReset}, NEW arg \in Nat,
           type = ResendRequest => arg >= 1,
           c.keep /\ type = Logon => arg = 0,
           c.keep /\ type = App => c.sends /\ e.sender = c.floor /\ arg = c.id
    PROVE  LET f == SendRaw(e, type, arg)
           IN  /\ Fine(f, c)
               /\ c.keep => /\ f.target = e.target
                            /\ f.queue = e.queue
                            /\ f.got = e.got
  <1> DEFINE marked == MarkReset(e, type, arg)
             kept == Persist(marked, type, arg)
             m == [type |-> type, num |-> marked.sender, dup |-> FALSE, arg |-> arg]
  <1>1. /\ Fine(marked, c)
        /\ c.keep => /\ marked.target = e.target /\ marked.queue = e.queue
                     /\ marked.got = e.got /\ marked.sender = e.sender
    BY MarkResetFine
  <1>2. SendRaw(e, type, arg) = Transmit(kept, <<m>>) \/ SendRaw(e, type, arg) = kept
    BY Zenon DEF SendRaw
  <1> HIDE DEF marked
  <1>3. marked \in Working /\ marked.resets = c.resets /\ marked.sender \in Positive
    BY <1>1 DEF Fine, Working, Machine
  <1>4. /\ kept \in Working
        /\ kept.sender = marked.sender + 1
        /\ \A n \in 1 .. marked.sender - 1 : kept.stored[n] = marked.stored[n]
        /\ kept.stored[marked.sender] = [type |-> type, arg |-> arg]
        /\ kept.got = marked.got /\ kept.open = marked.open
        /\ kept.resets = marked.resets /\ kept.target = marked.target
        /\ kept.queue = marked.queue /\ kept.out = marked.out
        /\ kept.sentReset = marked.sentReset /\ kept.receivedReset = marked.receivedReset
    BY <1>3, PersistWorks
  <1>5. m \in Sendable /\ ~m.dup /\ m.num = marked.sender /\ <<m>> \in Seq(Sendable)
    <2>1. m \in Sendable
      BY <1>3 DEF Sendable, Message
    <2> QED
      BY <2>1
  <1>6. Orderly(<<m>>, marked.sender, kept.sender) \/ ~c.keep
    BY <1>4, <1>5, OrderlyFresh
  <1>11. Tells(m, kept.stored, kept.sender)
    <2>1. m.type # SequenceReset
      OBVIOUS
    <2> QED
      BY <1>3, <1>4, <2>1 DEF Tells, Positive
  <1> HIDE DEF kept, m
  <1>7. ASSUME c.keep
        PROVE  /\ Calm(kept, c) /\ Truthful(kept, c) /\ Follows(kept, c)
               /\ Orderly(kept.out, c.floor, kept.sender)
               /\ Orderly(kept.out \o <<m>>, c.floor, kept.sender)
    <2>1. /\ Calm(marked, c) /\ Orderly(marked.out, c.floor, marked.sender)
          /\ Truthful(marked, c) /\ Follows(marked, c)
      BY <1>1, <1>7 DEF Fine
    <2>2. /\ c.floor \in Nat /\ c.limit \in Nat /\ marked.sender \in Nat /\ kept.sender \in Nat
          /\ c.floor <= marked.sender /\ marked.sender <= kept.sender
          /\ marked.out \in Seq(Sendable)
      BY <1>3, <1>4, <2>1 DEF Context, Calm, Positive, Working, Machine
    <2>3. Calm(kept, c)
      BY <1>4, <2>1, <2>2 DEF Calm
    <2>4. Orderly(kept.out, c.floor, kept.sender)
      BY <1>4, <2>1, <2>2, OrderlyLater
    <2>5. Orderly(kept.out \o <<m>>, c.floor, kept.sender)
      BY <1>4, <1>5, <1>6, <1>7, <2>1, <2>2, OrderlyConcat
    <2>6. Follows(kept, c)
      BY <1>4, <2>1 DEF Follows, Handed
    <2>7. Truthful(kept, c)
      <3>1. \A n \in 1 .. c.floor - 1 : kept.stored[n] = c.mine[n]
        <4>1. \A n \in 1 .. c.floor - 1 : n \in 1 .. marked.sender - 1
          BY <2>2
        <4> QED
          BY <1>4, <2>1, <4>1 DEF Truthful
      <3>2. ASSUME NEW n \in c.floor .. kept.sender - 1, kept.stored[n].type = App
            PROVE  c.sends /\ n = c.floor /\ kept.stored[n].arg = c.id
        <4>1. CASE n = marked.sender
          <5>1. type = App /\ kept.stored[n].arg = arg
            BY <1>4, <3>2, <4>1
          <5> QED
            BY <1>1, <1>7, <4>1, <5>1
        <4>2. CASE n # marked.sender
          <5>1. n \in c.floor .. marked.sender - 1 /\ n \in 1 .. marked.sender - 1
            <6>1. c.floor >= 1
              BY DEF Context, Positive
            <6> QED
              BY <1>4, <2>2, <4>2, <6>1
          <5> QED
            BY <1>4, <2>1, <3>2, <5>1 DEF Truthful
        <4> QED
          BY <4>1, <4>2
      <3>3. ASSUME NEW i \in 1 .. Len(kept.out)
            PROVE  Tells(kept.out[i], kept.stored, kept.sender)
        <4>1. kept.out = marked.out /\ i \in 1 .. Len(marked.out)
          BY <1>4
        <4>2. /\ marked.out[i] \in Sendable
              /\ Reach(marked.out[i]) <= marked.sender
              /\ Tells(marked.out[i], marked.stored, marked.sender)
          BY <2>1, <2>2, <4>1, ElementOfSeq DEF Truthful, Orderly
        <4> QED
          BY <1>4, <2>2, <4>1, <4>2, TellsLater
      <3> QED
        BY <3>1, <3>2, <3>3 DEF Truthful
    <2> QED
      BY <2>3, <2>4, <2>5, <2>6, <2>7
  <1>8. Fine(kept, c) /\ Fine(Transmit(kept, <<m>>), c)
    <2>1. \A i \in 1 .. Len(<<m>>) : Tells(<<m>>[i], kept.stored, kept.sender)
      BY <1>11
    <2> QED
      BY <1>3, <1>4, <1>5, <1>7, <2>1, TransmitFine DEF Fine
  <1>9. /\ Transmit(kept, <<m>>).target = kept.target
        /\ Transmit(kept, <<m>>).queue = kept.queue
        /\ Transmit(kept, <<m>>).got = kept.got
    BY <1>4 DEF Transmit, Working, Machine
  <1> QED
    BY <1>1, <1>2, <1>4, <1>8, <1>9

-----------------------------------------------------------------------------
(***************************************************************************)
(* Sending again                                                           *)
(***************************************************************************)
LEMMA LeastNumber ==
    ASSUME NEW N \in SUBSET Nat, N # {}
    PROVE  \E n \in N : \A m \in N : n <= m
  <1>1. \E n \in N : \A m \in N : ~(<<m, n>> \in OpToRel(<, Nat))
    BY NatLessThanWellFounded, WFMin, Zenon
  <1>2. \A n, m \in Nat : m < n => <<m, n>> \in OpToRel(<, Nat)
    BY Zenon DEF OpToRel
  <1>3. \A n, m \in Nat : ~(m < n) => n <= m
    OBVIOUS
  <1> QED
    BY <1>1, <1>2, <1>3

\* The counts of what a set has up to a number of its own are all counts from 1 on.
LEMMA NthExists ==
    ASSUME NEW last \in Nat, NEW S \in SUBSET (0 .. last), NEW i \in 1 .. Cardinality(S)
    PROVE  \E n \in S : Cardinality({k \in S : k <= n}) = i
  <1> DEFINE upTo(n) == {k \in S : k <= n}
             below(n) == {k \in S : k < n}
             enough == {n \in Nat : Cardinality(upTo(n)) >= i}
  <1>0. \A k \in S : k \in Nat /\ k <= last
    <2>1. \A k \in 0 .. last : k \in Nat /\ k <= last
      OBVIOUS
    <2> QED
      BY <2>1
  <1>1. IsFiniteSet(S) /\ Cardinality(S) \in Nat /\ i \in Nat /\ i >= 1 /\ i <= Cardinality(S)
    <2>1. 0 \in Int /\ last \in Int
      OBVIOUS
    <2>2. IsFiniteSet(0 .. last)
      BY <2>1, FS_Interval
    <2>3. IsFiniteSet(S)
      BY <2>2, FS_Subset
    <2>4. Cardinality(S) \in Nat
      BY <2>3, FS_CardinalityType
    <2> QED
      BY <2>3, <2>4
  <1>2. ASSUME NEW n \in Nat
        PROVE  /\ IsFiniteSet(upTo(n)) /\ Cardinality(upTo(n)) \in Nat
               /\ IsFiniteSet(below(n)) /\ Cardinality(below(n)) \in Nat
    <2>1. upTo(n) \in SUBSET S /\ below(n) \in SUBSET S
      OBVIOUS
    <2> HIDE DEF upTo, below
    <2> QED
      BY <1>1, <2>1, FS_Subset, FS_CardinalityType
  <1>3. last \in enough
    <2>1. upTo(last) = S
      BY <1>0
    <2> HIDE DEF upTo
    <2> QED
      BY <1>1, <2>1
  <1>4. PICK n \in enough : \A m \in enough : n <= m
    <2> HIDE DEF enough
    <2>1. enough \in SUBSET Nat
      BY DEF enough
    <2> QED
      BY <1>3, <2>1, LeastNumber
  <1>5. n \in Nat /\ Cardinality(upTo(n)) >= i
    BY <1>4
  <1>6. Cardinality(below(n)) < i
    <2>1. CASE n = 0
      <3>1. below(n) = {}
        <4>1. \A k \in S : ~(k < n)
          BY <1>0, <2>1
        <4> QED
          BY <4>1
      <3> QED
        BY <1>1, <3>1, FS_EmptySet
    <2>2. CASE n # 0
      <3>1. n - 1 \in Nat /\ ~(n <= n - 1)
        BY <1>5, <2>2
      <3>2. below(n) = upTo(n - 1)
        <4>1. \A k \in S : k < n <=> k <= n - 1
          BY <1>0, <1>5
        <4> QED
          BY <4>1
      <3>3. n - 1 \notin enough
        <4> HIDE DEF enough
        <4> QED
          BY <1>4, <3>1
      <3> HIDE DEF upTo, below
      <3>4. ~(Cardinality(upTo(n - 1)) >= i)
        BY <3>1, <3>3
      <3> QED
        BY <1>1, <1>2, <3>1, <3>2, <3>4
    <2> QED
      BY <2>1, <2>2
  <1>7. n \in S
    <2>1. n \notin S => upTo(n) = below(n)
      <3>1. n \notin S => \A k \in S : k < n <=> k <= n
        BY <1>0, <1>5
      <3> QED
        BY <3>1
    <2> HIDE DEF upTo, below
    <2> QED
      BY <1>1, <1>2, <1>5, <1>6, <2>1
  <1>8. upTo(n) = below(n) \cup {n} /\ n \notin below(n)
    <2>1. \A k \in S : k <= n <=> (k < n \/ k = n)
      BY <1>0, <1>5
    <2>2. ~(n < n)
      BY <1>5
    <2> QED
      BY <1>7, <2>1, <2>2
  <1> HIDE DEF upTo, below
  <1>9. Cardinality(upTo(n)) = Cardinality(below(n)) + 1
    BY <1>2, <1>5, <1>8, FS_AddElement
  <1>10. Cardinality(upTo(n)) = i
    BY <1>1, <1>2, <1>5, <1>6, <1>9
  <1> QED
    BY <1>7, <1>10 DEF upTo

(***************************************************************************)
(* What answers a resend request is all sent again, reaches no further     *)
(* than what was sent, and tells what is stored.                           *)
(***************************************************************************)
LEMMA RetransmitsAgain ==
    ASSUME NEW e \in Working, NEW begin \in Nat, begin >= 1
    PROVE  LET msgs == Retransmits(e, begin)
           IN  /\ msgs \in Seq(Sendable)
               /\ \A i \in 1 .. Len(msgs) : /\ msgs[i].dup /\ Reach(msgs[i]) <= e.sender
                                            /\ Tells(msgs[i], e.stored, e.sender)
  <1> DEFINE last == e.sender - 1
             IsApp(n) == e.stored[n].type = App
             Answered == {n \in begin .. last : IsApp(n) \/ n = last \/ IsApp(n + 1)}
             RunStart(n) == CHOOSE j \in begin .. n :
                               /\ \A k \in j .. n : ~IsApp(k)
                               /\ j = begin \/ IsApp(j - 1)
             GapFill(from, to) == [type |-> SequenceReset, num |-> from, dup |-> TRUE, arg |-> to]
             Answer(n) ==
                IF IsApp(n) THEN [type |-> App, num |-> n, dup |-> TRUE, arg |-> e.stored[n].arg]
                ELSE GapFill(RunStart(n), n + 1)
             Nth(i) == CHOOSE n \in Answered : Cardinality({k \in Answered : k <= n}) = i
             fill == GapFill(begin, e.sender)
             msgs == Retransmits(e, begin)
             Good(m) == m.dup /\ Reach(m) <= e.sender /\ Tells(m, e.stored, e.sender)
  <1>1. msgs = IF begin > last THEN <<fill>>
               ELSE [i \in 1 .. Cardinality(Answered) |-> Answer(Nth(i))]
    BY DEF Retransmits, Resent
  <1>2. /\ e.sender \in Nat /\ e.sender >= 1 /\ last \in Nat /\ last + 1 = e.sender
        /\ e.stored \in Seq(Stored) /\ last <= Len(e.stored)
    BY DEF Working, Machine, Positive
  <1>3. \A n \in begin .. last : e.stored[n] \in Stored
    BY <1>2, ElementOfSeq
  <1>4. ASSUME NEW from \in Nat, from >= 1, NEW to \in Nat, to <= e.sender,
               \A k \in from .. to - 1 : ~IsApp(k)
        PROVE  GapFill(from, to) \in Sendable /\ Good(GapFill(from, to))
    <2>1. /\ GapFill(from, to) \in Sendable
          /\ GapFill(from, to).dup /\ Reach(GapFill(from, to)) <= e.sender
      BY <1>4 DEF Sendable, Message, Types, Positive, Reach, SequenceReset, ResendRequest
    <2>2. Tells(GapFill(from, to), e.stored, e.sender)
      BY <1>4 DEF Tells, Apps
    <2> QED
      BY <2>1, <2>2
  <1>5. CASE begin > last
    <2>1. fill \in Sendable /\ Good(fill)
      <3>1. \A k \in begin .. e.sender - 1 : ~IsApp(k)
        BY <1>2, <1>5
      <3> HIDE DEF GapFill, Good, IsApp
      <3> QED
        BY <1>2, <1>4, <3>1
    <2> HIDE DEF fill, msgs
    <2>2. msgs = <<fill>>
      BY <1>1, <1>5
    <2>3. msgs \in Seq(Sendable) /\ \A i \in 1 .. Len(msgs) : Good(msgs[i])
      <3> HIDE DEF Good
      <3> QED
        BY <2>1, <2>2
    <2> QED
      BY <2>3 DEF msgs
  <1>6. CASE ~(begin > last)
    <2>1. msgs = [i \in 1 .. Cardinality(Answered) |-> Answer(Nth(i))]
      BY <1>1, <1>6
    <2>2. ASSUME NEW n \in begin .. last, ~IsApp(n)
          PROVE  /\ RunStart(n) \in begin .. n
                 /\ \A k \in RunStart(n) .. n : ~IsApp(k)
      <3> DEFINE quiet == {j \in begin .. n : \A k \in j .. n : ~IsApp(k)}
      <3>1. n \in quiet
        BY <2>2
      <3>2. PICK j \in quiet : \A i \in quiet : j <= i
        <4>1. quiet \in SUBSET Nat
          OBVIOUS
        <4> HIDE DEF quiet
        <4> QED
          BY <3>1, <4>1, LeastNumber
      <3>3. j = begin \/ IsApp(j - 1)
        <4> SUFFICES ASSUME j # begin, ~IsApp(j - 1)
                     PROVE  FALSE
          OBVIOUS
        <4>1. j - 1 \in begin .. n /\ \A k \in j - 1 .. n : k = j - 1 \/ k \in j .. n
          BY <3>2
        <4>2. j - 1 \in quiet
          BY <3>2, <4>1
        <4> QED
          BY <3>2, <4>1, <4>2
      <3>4. \E i \in begin .. n : (\A k \in i .. n : ~IsApp(k)) /\ (i = begin \/ IsApp(i - 1))
        BY <3>2, <3>3
      <3> QED
        BY <3>4, Zenon
    <2>3. ASSUME NEW n \in begin .. last
          PROVE  Answer(n) \in Sendable /\ Good(Answer(n))
      <3>1. CASE IsApp(n)
        <4> DEFINE again == [type |-> App, num |-> n, dup |-> TRUE, arg |-> e.stored[n].arg]
        <4>1. Answer(n) = again
          BY <3>1
        <4>2. n \in Nat /\ n >= 1 /\ n + 1 <= e.sender
          BY <1>2
        <4>3. e.stored[n].arg \in Nat
          BY <1>3 DEF Stored
        <4>4. again \in Sendable /\ again.dup /\ Reach(again) <= e.sender
          BY <4>2, <4>3
             DEF Sendable, Message, Types, Positive, Reach, App, SequenceReset,
                 ResendRequest
        <4>5. Tells(again, e.stored, e.sender)
          <5>1. e.stored[n] = [type |-> App, arg |-> e.stored[n].arg]
            BY <1>3, <3>1 DEF Stored
          <5>2. n < e.sender /\ App # SequenceReset
            BY <1>2 DEF App, SequenceReset
          <5> QED
            BY <5>1, <5>2 DEF Tells
        <4> HIDE DEF again, Answer
        <4> QED
          BY <4>1, <4>4, <4>5
      <3>2. CASE ~IsApp(n)
        <4>1. Answer(n) = GapFill(RunStart(n), n + 1)
          BY <3>2
        <4>2. /\ RunStart(n) \in begin .. n
              /\ \A k \in RunStart(n) .. n : ~IsApp(k)
          BY <2>2, <3>2
        <4> HIDE DEF RunStart, GapFill, Answer, Good, IsApp
        <4>3. /\ RunStart(n) \in Nat /\ RunStart(n) >= 1
              /\ n + 1 \in Nat /\ n + 1 <= e.sender
              /\ \A k \in RunStart(n) .. (n + 1) - 1 : ~IsApp(k)
          BY <1>2, <4>2
        <4> QED
          BY <1>4, <4>1, <4>3
      <3> QED
        BY <3>1, <3>2
    <2>4. Cardinality(Answered) \in Nat
      <3>1. Answered \in SUBSET (begin .. last)
        OBVIOUS
      <3>2. begin \in Int /\ last \in Int
        BY <1>2
      <3> HIDE DEF Answered, last
      <3>3. IsFiniteSet(begin .. last)
        BY <3>2, FS_Interval
      <3>4. IsFiniteSet(Answered)
        BY <3>1, <3>3, FS_Subset
      <3> QED
        BY <3>4, FS_CardinalityType
    <2>5. ASSUME NEW i \in 1 .. Cardinality(Answered)
          PROVE  Nth(i) \in begin .. last
      <3>1. Answered \in SUBSET (0 .. last)
        OBVIOUS
      <3>2. \E n \in Answered : Cardinality({k \in Answered : k <= n}) = i
        <4> HIDE DEF Answered
        <4> QED
          BY <1>2, <3>1, NthExists
      <3>3. Nth(i) \in Answered
        <4> HIDE DEF Answered
        <4> QED
          BY <3>2, Zenon
      <3> QED
        BY <3>3
    <2> HIDE DEF Answered, Nth, Answer, msgs, Good
    <2>6. /\ msgs \in Seq(Sendable) /\ Len(msgs) = Cardinality(Answered)
          /\ \A i \in 1 .. Cardinality(Answered) : msgs[i] = Answer(Nth(i))
      BY <2>1, <2>3, <2>4, <2>5
    <2>7. \A i \in 1 .. Len(msgs) : Good(msgs[i])
      <3> HIDE DEF Good
      <3> QED
        BY <2>3, <2>5, <2>6
    <2> QED
      BY <2>6, <2>7 DEF msgs, Good
  <1> QED
    BY <1>5, <1>6

-----------------------------------------------------------------------------
(***************************************************************************)
(* The steps of a handler                                                  *)
(***************************************************************************)
Known(m, c) ==
    m \in Sendable /\ (c.keep => Reach(m) <= c.limit /\ Tells(m, c.peer, c.used))

SameCounted(e, f) == f.target = e.target /\ f.queue = e.queue /\ f.got = e.got

LEMMA FineParts ==
    ASSUME NEW c \in Context, NEW e, Fine(e, c)
    PROVE  /\ e \in Working /\ e \in Machine
           /\ e.resets = c.resets
           /\ e.target \in Nat /\ e.target >= 1
           /\ e.sender \in Nat /\ e.sender >= 1
           /\ c.limit \in Nat /\ c.floor \in Nat /\ c.keep \in BOOLEAN
           /\ c.start \in Nat
           /\ c.keep => /\ e.resets = {}
                        /\ ~e.sentReset /\ ~e.receivedReset
                        /\ e.target <= c.limit
                        /\ \A q \in e.queue : Reach(q) <= c.limit
                        /\ Orderly(e.out, c.floor, e.sender)
                        /\ c.floor <= e.sender
                        /\ Truthful(e, c) /\ Follows(e, c)
  BY DEF Fine, Calm, Context, Working, Machine, Positive

LEMMA TypesApart ==
    /\ Types \ {SequenceReset} = {App, Logon, Logout, Heartbeat, ResendRequest, Reject}
    /\ Logon # ResendRequest /\ App # ResendRequest /\ Logout # ResendRequest
    /\ Heartbeat # ResendRequest /\ Reject # ResendRequest
    /\ App # Logon /\ Logout # Logon /\ Heartbeat # Logon
    /\ ResendRequest # Logon /\ Reject # Logon
    /\ Logout # App /\ Heartbeat # App /\ ResendRequest # App /\ Reject # App
    /\ SequenceReset \notin {App, Logon, Logout, Heartbeat, ResendRequest, Reject}
  BY DEF Types, App, Logon, Logout, Heartbeat, ResendRequest, SequenceReset, Reject

LEMMA SendPlainFine ==
    ASSUME NEW c \in Context, NEW e, Fine(e, c), NEW arg \in Nat,
           NEW type \in {Logout, Heartbeat, Reject}
    PROVE  /\ Fine(SendRaw(e, type, arg), c)
           /\ c.keep => SameCounted(e, SendRaw(e, type, arg))
  <1>1. /\ type \in Types \ {SequenceReset} /\ type # ResendRequest
        /\ type # Logon /\ type # App
    BY TypesApart
  <1> QED
    BY <1>1, SendRawFine DEF SameCounted

\* The application sends a message.
LEMMA SendAppFine ==
    ASSUME NEW c \in Context, NEW e, Fine(e, c), NEW arg \in Nat,
           c.sends, e.sender = c.floor, arg = c.id
    PROVE  /\ Fine(SendRaw(e, App, arg), c)
           /\ c.keep => SameCounted(e, SendRaw(e, App, arg))
  <1>1. App \in Types \ {SequenceReset} /\ App # ResendRequest /\ App # Logon
    BY TypesApart
  <1> QED
    BY <1>1, SendRawFine DEF SameCounted

LEMMA SendLogonFine ==
    ASSUME NEW c \in Context, NEW e, Fine(e, c), NEW arg \in Nat, c.keep => arg = 0
    PROVE  /\ Fine(SendRaw(e, Logon, arg), c)
           /\ c.keep => SameCounted(e, SendRaw(e, Logon, arg))
  <1>1. Logon \in Types \ {SequenceReset} /\ Logon # ResendRequest /\ Logon # App
    BY TypesApart
  <1> QED
    BY <1>1, SendRawFine DEF SameCounted

LEMMA GenerateLogonFine ==
    ASSUME NEW c \in Context, NEW e, Fine(e, c)
    PROVE  Fine(GenerateLogon(e), c)
  <1> DEFINE fresh == IF "logon" \in e.resets THEN ResetStore(e) ELSE e
             flag == IF ShouldSendReset(fresh) THEN 1 ELSE 0
             flagged == [fresh EXCEPT !.sentLogon = TRUE]
  <1>1. Fine(fresh, c)
    <2>1. CASE "logon" \in e.resets
      <3>1. ~c.keep
        BY <2>1, FineParts
      <3> QED
        BY <2>1, <3>1, ResetStoreFine
    <2>2. CASE "logon" \notin e.resets
      BY <2>2
    <2> QED
      BY <2>1, <2>2
  <1>2. GenerateLogon(e) = SendRaw(flagged, Logon, flag)
    BY Zenon DEF GenerateLogon
  <1> HIDE DEF fresh
  <1>3. flag \in Nat /\ (c.keep => flag = 0)
    <2>1. c.keep => ~ShouldSendReset(fresh)
      BY <1>1, FineParts DEF ShouldSendReset
    <2> QED
      BY <2>1
  <1>4. Fine(flagged, c)
    BY <1>1, FlagsFine
  <1> HIDE DEF flag, flagged
  <1> QED
    BY <1>2, <1>3, <1>4, SendLogonFine

\* Setting a flag disturbs neither the expected number nor the queue.
LEMMA FlagsSame ==
    ASSUME NEW e \in Machine
    PROVE  /\ SameCounted(e, [e EXCEPT !.sentLogon = TRUE])
           /\ SameCounted(e, [e EXCEPT !.sentLogout = TRUE])
           /\ SameCounted(e, [e EXCEPT !.receivedLogon = TRUE])
           /\ SameCounted(e, [e EXCEPT !.sentReset = FALSE, !.receivedReset = FALSE])
           /\ SameCounted(e, [e EXCEPT !.range = NoRange])
  BY DEF SameCounted, Machine

LEMMA AnswerLogonFine ==
    ASSUME NEW c \in Context, NEW e, Fine(e, c)
    PROVE  /\ Fine(AnswerLogon(e), c)
           /\ c.keep => SameCounted(e, AnswerLogon(e))
  <1> DEFINE flag == IF e.receivedReset THEN 1 ELSE 0
             sent == SendRaw(e, Logon, flag)
             answered == [sent EXCEPT !.sentLogon = TRUE]
  <1>1. flag \in Nat /\ (c.keep => flag = 0)
    <2>1. c.keep => ~e.receivedReset
      BY FineParts
    <2> QED
      BY <2>1
  <1>2. AnswerLogon(e) = answered
    BY Zenon DEF AnswerLogon
  <1> HIDE DEF flag
  <1>3. Fine(sent, c) /\ (c.keep => SameCounted(e, sent))
    BY <1>1, SendLogonFine
  <1> HIDE DEF sent
  <1>4. Fine(answered, c) /\ SameCounted(sent, answered)
    BY <1>3, FlagsFine, FlagsSame, FineParts
  <1> HIDE DEF answered
  <1> QED
    BY <1>2, <1>3, <1>4 DEF SameCounted

LEMMA GenerateLogoutFine ==
    ASSUME NEW c \in Context, NEW e, Fine(e, c)
    PROVE  /\ Fine(GenerateLogout(e), c)
           /\ c.keep => SameCounted(e, GenerateLogout(e))
  <1> DEFINE sent == SendRaw(e, Logout, 0)
             flagged == [sent EXCEPT !.sentLogout = TRUE]
  <1>1. Fine(sent, c) /\ (c.keep => SameCounted(e, sent))
    BY SendPlainFine
  <1>2. GenerateLogout(e) = flagged
    BY Zenon DEF GenerateLogout
  <1> HIDE DEF sent
  <1>3. Fine(flagged, c) /\ SameCounted(sent, flagged)
    BY <1>1, FlagsFine, FlagsSame, FineParts
  <1> HIDE DEF flagged
  <1> QED
    BY <1>1, <1>2, <1>3 DEF SameCounted

\* A reject that counts nothing.
LEMMA GenerateRejectFine ==
    ASSUME NEW c \in Context, NEW e, Fine(e, c), NEW m, m.type = SequenceReset
    PROVE  Fine(GenerateReject(e, m), c)
  <1>1. GenerateReject(e, m) = SendRaw(e, Reject, 0)
    BY DEF GenerateReject
  <1> QED
    BY <1>1, SendPlainFine

LEMMA GenerateResendRequestFine ==
    ASSUME NEW c \in Context, NEW e, Fine(e, c), NEW m \in Sendable
    PROVE  Fine(GenerateResendRequest(e, m), c)
  <1> DEFINE sent == SendRaw(e, ResendRequest, e.target)
  <1>1. e.target \in Nat /\ e.target >= 1
    BY FineParts
  <1>2. Fine(sent, c)
    <2>1. /\ ResendRequest \in Types \ {SequenceReset}
          /\ ResendRequest # Logon /\ ResendRequest # App
      BY TypesApart
    <2> QED
      BY <1>1, <2>1, SendRawFine
  <1>3. m.num - 1 \in Nat
    BY DEF Sendable, Message, Positive
  <1>4. GenerateResendRequest(e, m)
          = [sent EXCEPT !.range = [first |-> e.target, second |-> m.num - 1]]
    BY Zenon DEF GenerateResendRequest
  <1> HIDE DEF sent
  <1>5. \A first, second \in Nat :
           Fine([sent EXCEPT !.range = [first |-> first, second |-> second]], c)
    BY <1>2, FlagsFine, Zenon
  <1> QED
    BY <1>1, <1>3, <1>4, <1>5, Zenon

LEMMA DisconnectFine ==
    ASSUME NEW c \in Context, NEW e, Fine(e, c)
    PROVE  Fine(Disconnect(e), c)
  <1> DEFINE down == [Disconnected(e) EXCEPT !.sentLogon = FALSE]
  <1>1. e \in Machine /\ e \in Working
    BY FineParts
  <1>2. /\ down \in Machine /\ down.stored = e.stored
        /\ SameNumbers(e, down) /\ ~down.sentReset /\ ~down.receivedReset
    BY <1>1 DEF Disconnected, Machine, SameNumbers, NoRange
  <1>3. Disconnect(e) = IF "disconnect" \in e.resets THEN ResetStore(down) ELSE down
    BY Zenon DEF Disconnect
  <1> HIDE DEF down
  <1>4. down \in Working
    BY <1>1, <1>2 DEF Working, SameNumbers
  <1>5. Fine(down, c)
    BY <1>2, <1>4, SameNumbersFine
  <1>6. CASE "disconnect" \in e.resets
    <2>1. ~c.keep
      BY <1>6, FineParts
    <2> QED
      BY <1>3, <1>5, <1>6, <2>1, ResetStoreFine
  <1> QED
    BY <1>3, <1>5, <1>6

LEMMA SatisfiedFine ==
    ASSUME NEW c \in Context, NEW e, Fine(e, c), NEW m
    PROVE  Fine(Satisfied(e, m), c) /\ SameCounted(e, Satisfied(e, m))
  <1>1. Satisfied(e, m) = e \/ Satisfied(e, m) = [e EXCEPT !.range = NoRange]
    BY Zenon DEF Satisfied
  <1>2. Fine([e EXCEPT !.range = NoRange], c) /\ SameCounted(e, [e EXCEPT !.range = NoRange])
    BY FlagsFine, FlagsSame, FineParts
  <1> QED
    BY <1>1, <1>2 DEF SameCounted

LEMMA PostponeFine ==
    ASSUME NEW c \in Context, NEW e, Fine(e, c), NEW m, Known(m, c),
           TooHigh(e, m), c.keep => e.got = <<>>
    PROVE  Fine(Postpone(e, m), c)
  <1> DEFINE queue == {q \in e.queue : q.num # m.num} \cup {m}
             queued == [e EXCEPT !.queue = queue]
  <1>1. e \in Machine /\ e \in Working /\ m \in Sendable
    BY FineParts DEF Known
  <1>2. queue \in SUBSET Sendable
    BY <1>1 DEF Machine
  <1>3. c.keep => \A q \in queue : Reach(q) <= c.limit /\ Tells(q, c.peer, c.used)
    BY FineParts DEF Known, Follows
  <1>4. Postpone(e, m) = queued \/ Postpone(e, m) = GenerateResendRequest(queued, m)
    BY Zenon DEF Postpone
  <1>5. c.keep /\ e.target = c.start /\ c.again => \A q \in queue : q.num = c.start => q.dup
    <2>1. m.num # e.target
      BY <1>1 DEF TooHigh, Sendable, Message, Machine, Positive
    <2> QED
      BY <2>1 DEF Fine, Follows
  <1> HIDE DEF queue
  <1>6. /\ queued \in Machine /\ queued.queue = queue
        /\ queued.resets = e.resets /\ queued.sender = e.sender
        /\ queued.stored = e.stored /\ queued.target = e.target
        /\ queued.out = e.out /\ queued.got = e.got
        /\ queued.sentReset = e.sentReset /\ queued.receivedReset = e.receivedReset
    BY <1>1, <1>2 DEF Machine
  <1> HIDE DEF queued
  <1>7. c.keep => Follows(queued, c) /\ Truthful(queued, c)
    BY <1>3, <1>5, <1>6 DEF Fine, Follows, Handed, Truthful
  <1>8. Fine(queued, c)
    BY <1>1, <1>3, <1>6, <1>7 DEF Fine, Calm, Working
  <1> QED
    BY <1>1, <1>4, <1>8, GenerateResendRequestFine

LEMMA RefusedFine ==
    ASSUME NEW c \in Context, NEW e, Fine(e, c), NEW m, Known(m, c), NEW checkTooHigh,
           c.keep => e.got = <<>>
    PROVE  Fine(Refused(e, m, checkTooHigh), c)
  <1>1. \/ Refused(e, m, checkTooHigh) = Disconnect(e)
        \/ TooHigh(e, m) /\ Refused(e, m, checkTooHigh) = Postpone(e, m)
        \/ Refused(e, m, checkTooHigh) = e
        \/ Refused(e, m, checkTooHigh) = Disconnect(GenerateLogout(e))
    BY DEF Refused
  <1>2. Fine(GenerateLogout(e), c)
    BY GenerateLogoutFine
  <1> QED
    BY <1>1, <1>2, DisconnectFine, PostponeFine

-----------------------------------------------------------------------------
(***************************************************************************)
(* The handlers                                                            *)
(***************************************************************************)
\* A message of the session that may be counted: it is the expected one, or is
\* counted wherever it arrives.
LEMMA CountFine ==
    ASSUME NEW c \in Context, NEW e, Fine(e, c), NEW m, Known(m, c),
           m.type \notin {SequenceReset, App},
           c.keep => e.target <= m.num /\ (m.num = e.target \/ c.unchecked)
    PROVE  Fine(IncrTarget(e), c)
  <1>1. m.num \in Nat /\ Reach(m) = m.num + 1
    BY DEF Known, Sendable, Message, Positive, Reach
  <1>2. c.keep => e.target + 1 <= c.limit
    BY <1>1, FineParts DEF Known
  <1>3. c.keep /\ m.num = e.target => e.target \notin Coming(c)
    BY DEF Known, Tells, Coming, Apps
  <1> QED
    BY <1>2, <1>3, IncrTargetFine

LEMMA AcceptedParts ==
    ASSUME NEW e \in Machine, NEW m \in Sendable, NEW checkTooHigh,
           Accepts(e, m, checkTooHigh, TRUE)
    PROVE  e.target <= m.num /\ (checkTooHigh => m.num = e.target)
  BY DEF Accepts, TooHigh, TooLow, Machine, Sendable, Message, Positive

LEMMA CompleteLogonFine ==
    ASSUME NEW c \in Context, NEW e, Fine(e, c), NEW m, Known(m, c),
           m.type = Logon, c.keep => m.arg = 0 /\ e.target <= m.num /\ e.got = <<>>
    PROVE  Fine(CompleteLogon(e, m), c)
  <1> DEFINE logged == [e EXCEPT !.receivedLogon = TRUE]
             answered == IF ~e.initiate \/ (e.receivedReset /\ ~e.sentReset)
                         THEN AnswerLogon(logged) ELSE logged
             settled == [answered EXCEPT !.sentReset = FALSE, !.receivedReset = FALSE]
  <1>1. Fine(logged, c) /\ SameCounted(e, logged)
    BY FlagsFine, FlagsSame, FineParts
  <1>2. CompleteLogon(e, m) =
            IF TooHigh(settled, m) /\ m.arg = 0 THEN Postpone(settled, m) ELSE IncrTarget(settled)
    BY Zenon DEF CompleteLogon
  <1> HIDE DEF logged
  <1>3. Fine(answered, c) /\ (c.keep => SameCounted(logged, answered))
    <2>1. Fine(AnswerLogon(logged), c) /\ (c.keep => SameCounted(logged, AnswerLogon(logged)))
      BY <1>1, AnswerLogonFine
    <2> QED
      BY <1>1, <2>1 DEF SameCounted
  <1> HIDE DEF answered
  <1>4. Fine(settled, c) /\ SameCounted(answered, settled)
    BY <1>3, FlagsFine, FlagsSame, FineParts
  <1> HIDE DEF settled
  <1>5. c.keep => settled.target <= m.num /\ settled.got = <<>>
    BY <1>1, <1>3, <1>4 DEF SameCounted
  <1>6. TooHigh(settled, m) => Fine(Postpone(settled, m), c)
    BY <1>4, <1>5, PostponeFine
  <1>7. m.type \notin {SequenceReset, App}
    BY TypesApart
  <1>8. ~(TooHigh(settled, m) /\ m.arg = 0) => Fine(IncrTarget(settled), c)
    <2>1. m.num \in Nat /\ settled.target \in Nat
      BY <1>4, FineParts DEF Known, Sendable, Message, Positive
    <2>2. ~TooHigh(settled, m) /\ c.keep => m.num = settled.target
      BY <1>5, <2>1 DEF TooHigh
    <2> QED
      BY <1>4, <1>5, <1>7, <2>2, CountFine
  <1> QED
    BY <1>2, <1>6, <1>8

LEMMA NextLogonFine ==
    ASSUME NEW c \in Context, NEW e, Fine(e, c), NEW m, Arrived(e, m, c), m.type = Logon
    PROVE  Fine(NextLogon(e, m), c)
  <1> DEFINE flag == m.arg = 1
             first == IF flag /\ ~e.sentReset THEN ResetStore(e) ELSE e
             noted == [first EXCEPT !.receivedReset = flag]
             ready == IF ~e.initiate /\ "logon" \in e.resets THEN ResetStore(noted) ELSE noted
  <1>1. Known(m, c) /\ m \in Sendable
    BY DEF Arrived, Known
  <1>2. c.keep => ~flag /\ first = e
    BY DEF Arrived
  <1>3. Fine(first, c)
    <2>1. ~c.keep => Fine(ResetStore(e), c)
      BY ResetStoreFine
    <2> QED
      BY <1>2, <2>1, FineParts
  <1>4. \/ NextLogon(e, m) = Disconnect(e)
        \/ /\ Accepts(ready, m, FALSE, TRUE)
           /\ NextLogon(e, m) = CompleteLogon(Satisfied(ready, m), m)
        \/ NextLogon(e, m) = Refused(ready, m, FALSE)
    BY Zenon DEF NextLogon
  <1>5. Fine(noted, c) /\ SameCounted(first, noted)
    <2> HIDE DEF first
    <2>1. first \in Machine /\ flag \in BOOLEAN
      BY <1>3, FineParts
    <2> HIDE DEF flag
    <2>2. /\ noted \in Machine /\ noted.stored = first.stored
          /\ SameNumbers(first, noted) /\ noted.queue = first.queue /\ noted.got = first.got
          /\ noted.receivedReset = flag /\ noted.sentReset = first.sentReset
      BY <2>1 DEF Machine, SameNumbers
    <2> HIDE DEF noted
    <2>3. noted \in Working
      BY <1>3, <2>2 DEF Fine, Working, SameNumbers
    <2>4. c.keep => ~noted.sentReset /\ ~noted.receivedReset
      BY <1>2, <1>3, <2>2, FineParts
    <2> QED
      BY <1>3, <2>2, <2>3, <2>4, SameNumbersFine DEF SameCounted, SameNumbers
  <1> HIDE DEF first, noted
  <1>6. Fine(ready, c) /\ (c.keep => ready = noted)
    <2>1. c.keep => "logon" \notin e.resets
      BY FineParts
    <2>2. ~c.keep => Fine(ResetStore(noted), c)
      BY <1>5, ResetStoreFine
    <2> QED
      BY <1>5, <2>1, <2>2, FineParts
  <1> HIDE DEF ready, flag
  <1>7. c.keep => ready.got = <<>>
    BY <1>2, <1>5, <1>6 DEF Arrived, SameCounted
  <1>8. ASSUME Accepts(ready, m, FALSE, TRUE)
        PROVE  Fine(CompleteLogon(Satisfied(ready, m), m), c)
    <2>1. ready.target <= m.num
      BY <1>1, <1>6, <1>8, AcceptedParts, FineParts
    <2>2. /\ Fine(Satisfied(ready, m), c)
          /\ Satisfied(ready, m).target = ready.target
          /\ Satisfied(ready, m).got = ready.got
      BY <1>6, SatisfiedFine DEF SameCounted
    <2>3. c.keep => m.arg = 0 /\ Satisfied(ready, m).target <= m.num /\ Satisfied(ready, m).got = <<>>
      BY <1>7, <2>1, <2>2 DEF Arrived
    <2>4. Fine(CompleteLogon(Satisfied(ready, m), m), c)
      BY <1>1, <2>2, <2>3, CompleteLogonFine
    <2> QED
      BY <2>4
  <1>9. Fine(Disconnect(e), c) /\ Fine(Refused(ready, m, FALSE), c)
    BY <1>1, <1>6, <1>7, DisconnectFine, RefusedFine
  <1> QED
    BY <1>4, <1>8, <1>9, Zenon

\* The handlers that count what they accept.
LEMMA AcceptedCountFine ==
    ASSUME NEW c \in Context, NEW e, Fine(e, c), NEW m, Arrived(e, m, c),
           NEW checkTooHigh \in BOOLEAN, Accepts(e, m, checkTooHigh, TRUE),
           m.type \notin {SequenceReset, App}, checkTooHigh \/ m.type = Reject
    PROVE  Fine(IncrTarget(Satisfied(e, m)), c)
  <1> DEFINE a == Satisfied(e, m)
  <1>1. Known(m, c) /\ m \in Sendable
    BY DEF Arrived, Known
  <1>2. Fine(a, c) /\ a.target = e.target
    BY SatisfiedFine DEF SameCounted
  <1>3. e.target <= m.num /\ (checkTooHigh => m.num = e.target)
    BY <1>1, AcceptedParts, FineParts
  <1>4. e.target \in Nat /\ m.num \in Nat
    BY <1>1, FineParts DEF Sendable, Message, Positive
  <1>5. c.keep => m.num = e.target \/ c.unchecked
    BY <1>3, <1>4 DEF Arrived
  <1> HIDE DEF a
  <1>6. Fine(IncrTarget(a), c)
    BY <1>1, <1>2, <1>3, <1>5, CountFine
  <1> QED
    BY <1>6 DEF a

\* The application is handed the message that was expected, and the expected
\* number moves on.
LEMMA GivenFine ==
    ASSUME NEW c \in Context, NEW e, Fine(e, c), NEW m, Arrived(e, m, c),
           m.type = App, Accepts(e, m, TRUE, TRUE)
    PROVE  /\ Fine(IncrTarget(GiveToApp(e, m)), c)
           /\ GiveToApp(e, m).target = m.num
           /\ GiveToApp(e, m).got \in Seq(Given)
           /\ c.keep => GiveToApp(e, m).got = <<[id |-> m.arg, dup |-> m.dup]>>
           /\ c.keep => c.start \in Coming(c) /\ m.arg = c.peer[c.start].arg
                        /\ (m.dup \/ ~c.again)
  <1> DEFINE given == [id |-> m.arg, dup |-> m.dup]
             a == Satisfied(e, m)
             g == [a EXCEPT !.got = Append(@, given)]
             f == IncrTarget(g)
  <1>1. /\ m \in Sendable /\ given \in Given
        /\ m.num \in Nat /\ m.num >= 1 /\ m.dup \in BOOLEAN /\ Reach(m) = m.num + 1
    BY TypesApart DEF Arrived, Given, Sendable, Message, Positive, Reach
  <1>2. Fine(a, c) /\ a.target = e.target /\ a.queue = e.queue /\ a.got = e.got
    BY SatisfiedFine DEF SameCounted
  <1>3. m.num = e.target /\ e.target \in Nat
    BY <1>1, AcceptedParts, FineParts
  <1>4. GiveToApp(e, m) = g
    BY Zenon DEF GiveToApp
  <1> HIDE DEF a
  <1>5. /\ a \in Machine /\ a \in Working /\ a.got \in Seq(Given)
        /\ a.sender - 1 <= Len(a.stored) /\ a.target + 1 \in Positive
    BY <1>2, <1>3, FineParts DEF Machine, Working, Positive
  <1>6. Append(a.got, given) \in Seq(Given)
    BY <1>1, <1>5, AppendProperties
  <1>7. /\ g \in Machine /\ g.got = Append(a.got, given) /\ g.target = a.target
    BY <1>5, <1>6 DEF Machine
  <1>8. /\ f \in Machine
        /\ f.resets = a.resets /\ f.sender = a.sender /\ f.stored = a.stored
        /\ f.target = a.target + 1 /\ f.queue = a.queue /\ f.out = a.out
        /\ f.got = Append(a.got, given) /\ f.open = a.open
        /\ f.sentReset = a.sentReset /\ f.receivedReset = a.receivedReset
    BY <1>5, <1>6 DEF IncrTarget, Machine
  <1>9. ASSUME c.keep
        PROVE  /\ c.start \in Coming(c) /\ m.arg = c.peer[c.start].arg
               /\ m.num = c.start
               /\ m.dup \/ ~c.again
               /\ Append(a.got, given) = <<given>>
    <2>1. m.num = c.start /\ a.got = <<>> /\ (m.dup \/ ~c.again)
      BY <1>2, <1>3, <1>9 DEF Arrived
    <2>2. Tells(m, c.peer, c.used) /\ m.type # SequenceReset
      BY <1>9, TypesApart DEF Arrived
    <2>3. m.num < c.used /\ c.peer[m.num] = [type |-> m.type, arg |-> m.arg]
      BY <2>2 DEF Tells
    <2>4. c.used \in Nat
      BY DEF Context
    <2>5. c.start \in Coming(c) /\ m.arg = c.peer[c.start].arg
      BY <1>1, <2>1, <2>3, <2>4 DEF Coming, Apps
    <2>6. Append(a.got, given) = <<given>>
      <3> HIDE DEF given
      <3> QED
        BY <2>1
    <2> QED
      BY <2>1, <2>5, <2>6
  <1> HIDE DEF f, g
  <1>10. ASSUME c.keep
         PROVE  Calm(f, c) /\ Truthful(f, c) /\ Follows(f, c) /\ Orderly(f.out, c.floor, f.sender)
    <2>1. /\ Calm(a, c) /\ Truthful(a, c) /\ Follows(a, c)
          /\ Orderly(a.out, c.floor, a.sender)
      BY <1>2, <1>10 DEF Fine
    <2>2. f.target = c.start + 1 /\ c.start \in Nat
      BY <1>2, <1>3, <1>8, <1>9, <1>10
    <2>3. Calm(f, c)
      <3>1. f.target <= c.limit
        BY <1>1, <1>9, <1>10, <2>2 DEF Arrived
      <3> QED
        BY <1>8, <2>1, <3>1 DEF Calm
    <2>4. Truthful(f, c)
      BY <1>8, <2>1 DEF Truthful
    <2>5. Handed(f, c)
      <3>1. f.got = <<[id |-> c.peer[c.start].arg, dup |-> m.dup]>>
        BY <1>8, <1>9, <1>10
      <3>2. c.start < f.target
        BY <2>2
      <3> QED
        BY <1>1, <1>9, <1>10, <3>1, <3>2 DEF Handed
    <2>6. f.got # <<>>
      BY <1>8, <1>9, <1>10
    <2>7. \A n \in Coming(c) : c.start <= n /\ n < f.target => n = c.start
      BY <2>2 DEF Coming, Apps
    <2>8. c.start <= f.target /\ f.target # c.start
      BY <2>2
    <2>9. Follows(f, c)
      BY <1>8, <2>1, <2>5, <2>6, <2>7, <2>8 DEF Follows
    <2> QED
      BY <1>8, <2>1, <2>3, <2>4, <2>9
  <1>11. Fine(f, c)
    BY <1>2, <1>5, <1>8, <1>10 DEF Fine, Working
  <1> QED
    BY <1>1, <1>2, <1>3, <1>4, <1>6, <1>7, <1>9, <1>11 DEF f, SameCounted

LEMMA RejectGivenFine ==
    ASSUME NEW c \in Context, NEW e, Fine(e, c), NEW m, Arrived(e, m, c),
           m.type = App, Accepts(e, m, TRUE, TRUE)
    PROVE  Fine(GenerateReject(GiveToApp(e, m), m), c)
  <1> DEFINE g == GiveToApp(e, m)
  <1>1. Fine(IncrTarget(g), c) /\ g.target = m.num
    BY GivenFine
  <1> HIDE DEF g
  <1>2. m.type \notin {Logon, SequenceReset}
    BY TypesApart
  <1>3. GenerateReject(g, m) = SendRaw(IncrTarget(g), Reject, 0)
    BY <1>1, <1>2 DEF GenerateReject
  <1>4. Fine(GenerateReject(g, m), c)
    BY <1>1, <1>3, SendPlainFine
  <1> QED
    BY <1>4 DEF g

LEMMA NextAppFine ==
    ASSUME NEW c \in Context, NEW e, Fine(e, c), NEW m, Arrived(e, m, c), m.type = App
    PROVE  Fine(NextApp(e, m), c)
  <1>1. Known(m, c) /\ (c.keep => e.got = <<>>)
    BY DEF Arrived, Known
  <1>2. Accepts(e, m, TRUE, TRUE) => Fine(IncrTarget(GiveToApp(e, m)), c)
    BY GivenFine
  <1> QED
    BY <1>1, <1>2, RefusedFine DEF NextApp

LEMMA NextHeartbeatFine ==
    ASSUME NEW c \in Context, NEW e, Fine(e, c), NEW m, Arrived(e, m, c), m.type = Heartbeat
    PROVE  Fine(NextHeartbeat(e, m), c)
  <1>1. Known(m, c) /\ (c.keep => e.got = <<>>) /\ m.type \notin {SequenceReset, App}
    BY TypesApart DEF Arrived, Known
  <1>2. Accepts(e, m, TRUE, TRUE) => Fine(IncrTarget(Satisfied(e, m)), c)
    BY <1>1, AcceptedCountFine
  <1> QED
    BY <1>1, <1>2, RefusedFine DEF NextHeartbeat

LEMMA NextRejectFine ==
    ASSUME NEW c \in Context, NEW e, Fine(e, c), NEW m, Arrived(e, m, c), m.type = Reject
    PROVE  Fine(NextReject(e, m), c)
  <1>1. Known(m, c) /\ (c.keep => e.got = <<>>) /\ m.type \notin {SequenceReset, App}
    BY TypesApart DEF Arrived, Known
  <1>2. Accepts(e, m, FALSE, TRUE) => Fine(IncrTarget(Satisfied(e, m)), c)
    BY <1>1, AcceptedCountFine
  <1> QED
    BY <1>1, <1>2, RefusedFine DEF NextReject

LEMMA NextLogoutFine ==
    ASSUME NEW c \in Context, NEW e, Fine(e, c), NEW m, Arrived(e, m, c), m.type = Logout
    PROVE  Fine(NextLogout(e, m), c)
  <1> DEFINE answered == IF e.sentLogout THEN e ELSE GenerateLogout(e)
             counted == IncrTarget(answered)
             cleared == IF "logout" \in e.resets THEN ResetStore(counted) ELSE counted
  <1>1. Known(m, c) /\ m \in Sendable /\ m.type \notin {SequenceReset, App}
    BY TypesApart DEF Arrived, Known
  <1>2. ~m.dup
    BY <1>1 DEF Sendable, Logout, App, SequenceReset
  <1>3. Fine(answered, c) /\ (c.keep => answered.target = e.target)
    BY GenerateLogoutFine DEF SameCounted
  <1>4. NextLogout(e, m) = Disconnect(cleared) \/ NextLogout(e, m) = Disconnect(e)
    BY Zenon DEF NextLogout
  <1> HIDE DEF answered
  <1>5. Fine(counted, c)
    <2>1. c.keep => answered.target <= m.num /\ (m.num = answered.target \/ c.unchecked)
      <3>1. e.target \in Nat /\ m.num \in Nat
        BY <1>1, FineParts DEF Sendable, Message, Positive
      <3> QED
        BY <1>2, <1>3, <3>1 DEF Arrived
    <2> QED
      BY <1>1, <1>3, <2>1, CountFine
  <1> HIDE DEF counted
  <1>6. Fine(cleared, c)
    <2>1. c.keep => "logout" \notin e.resets
      BY FineParts
    <2>2. ~c.keep => Fine(ResetStore(counted), c)
      BY <1>5, ResetStoreFine
    <2> QED
      BY <1>5, <2>1, <2>2, FineParts
  <1> HIDE DEF cleared
  <1> QED
    BY <1>4, <1>6, DisconnectFine

LEMMA NextSequenceResetFine ==
    ASSUME NEW c \in Context, NEW e, Fine(e, c), NEW m, Arrived(e, m, c),
           m.type = SequenceReset
    PROVE  Fine(NextSequenceReset(e, m), c)
  <1> DEFINE a == Satisfied(e, m)
             queue == {q \in a.queue : q.num >= m.arg}
             moved == [a EXCEPT !.target = m.arg, !.queue = queue]
  <1>1. Known(m, c) /\ m \in Sendable /\ (c.keep => e.got = <<>>)
    BY DEF Arrived, Known
  <1>2. Fine(a, c) /\ a.target = e.target /\ a.got = e.got
    BY SatisfiedFine DEF SameCounted
  <1>3. \/ NextSequenceReset(e, m) = Refused(e, m, TRUE)
        \/ /\ Accepts(e, m, TRUE, TRUE) /\ m.arg > a.target
           /\ NextSequenceReset(e, m) = moved
        \/ NextSequenceReset(e, m) = GenerateReject(a, m)
        \/ NextSequenceReset(e, m) = a
    <2>1. NextSequenceReset(e, m) =
             IF ~Accepts(e, m, TRUE, TRUE) THEN Refused(e, m, TRUE)
             ELSE CASE m.arg > a.target -> moved
                    [] m.arg < a.target -> GenerateReject(a, m)
                    [] OTHER -> a
      BY Zenon DEF NextSequenceReset
    <2> HIDE DEF moved, a
    <2> QED
      BY <2>1
  <1>4. queue \subseteq a.queue
    OBVIOUS
  <1> HIDE DEF a, queue
  <1>5. ASSUME Accepts(e, m, TRUE, TRUE), m.arg > a.target
        PROVE  Fine(moved, c)
    <2>1. a \in Machine /\ a.target \in Nat /\ a.target >= 1
      BY <1>2, FineParts
    <2>2. m.arg \in Positive /\ (c.keep => m.arg <= c.limit)
      BY <1>1, <1>5, <2>1 DEF Known, Reach, Positive, Sendable, Message
    <2>3. queue \in SUBSET Sendable
      BY <1>4, <2>1 DEF Machine
    <2>4. /\ moved \in Machine /\ moved.queue = queue /\ moved.target = m.arg
          /\ moved.resets = a.resets /\ moved.sender = a.sender
          /\ moved.stored = a.stored /\ moved.out = a.out
          /\ moved.got = a.got
          /\ moved.sentReset = a.sentReset /\ moved.receivedReset = a.receivedReset
      BY <2>1, <2>2, <2>3 DEF Machine
    <2> HIDE DEF moved
    <2>5. ASSUME c.keep
          PROVE  Follows(moved, c) /\ Truthful(moved, c)
      <3>1. a.target = m.num /\ a.target = c.start /\ a.got = <<>> /\ m.num \in Nat
        BY <1>1, <1>2, <1>5, <2>1, <2>5, AcceptedParts, FineParts DEF Arrived
      <3>2. \A n \in Coming(c) : c.start <= n => ~(n < m.arg)
        <4>1. \A n \in m.num .. m.arg - 1 : n \notin Coming(c)
          BY <1>1, <2>5 DEF Known, Tells, Coming
        <4>2. \A n \in Coming(c) : n \in Nat
          BY DEF Coming, Apps
        <4> QED
          BY <2>2, <3>1, <4>1, <4>2 DEF Positive
      <3>3. c.start < m.arg
        BY <1>5, <2>1, <3>1
      <3>4. c.start <= m.arg /\ m.arg # c.start
        BY <2>2, <3>1, <3>3 DEF Positive
      <3>5. Follows(a, c) /\ Truthful(a, c)
        BY <1>2, <2>5 DEF Fine
      <3>6. Handed(moved, c)
        BY <2>4, <3>1 DEF Handed
      <3>7. Follows(moved, c)
        BY <1>4, <2>4, <3>2, <3>4, <3>5, <3>6 DEF Follows
      <3> QED
        BY <2>4, <3>5, <3>7 DEF Truthful
    <2> QED
      BY <1>2, <1>4, <2>2, <2>4, <2>5 DEF Fine, Calm, Working
  <1> QED
    BY <1>1, <1>2, <1>3, <1>5, RefusedFine, GenerateRejectFine

LEMMA RetransmitFine ==
    ASSUME NEW c \in Context, NEW e, Fine(e, c), NEW begin \in Nat, begin >= 1
    PROVE  /\ Fine(Transmit(e, Retransmits(e, begin)), c)
           /\ Transmit(e, Retransmits(e, begin)).target = e.target
  <1> DEFINE msgs == Retransmits(e, begin)
  <1>1. /\ e \in Working /\ e \in Machine /\ e.resets = c.resets
        /\ e.sender \in Nat /\ c.floor \in Nat /\ e.out \in Seq(Sendable)
    BY FineParts DEF Machine
  <1>2. /\ msgs \in Seq(Sendable)
        /\ \A i \in 1 .. Len(msgs) : /\ msgs[i].dup /\ Reach(msgs[i]) <= e.sender
                                     /\ Tells(msgs[i], e.stored, e.sender)
    BY <1>1, RetransmitsAgain
  <1> HIDE DEF msgs
  <1>3. Orderly(msgs, e.sender, e.sender)
    BY <1>1, <1>2, OrderlyAgain
  <1>4. c.keep => /\ Calm(e, c) /\ Truthful(e, c) /\ Follows(e, c)
                  /\ Orderly(e.out, c.floor, e.sender)
                  /\ Orderly(e.out \o msgs, c.floor, e.sender)
    <2>1. ASSUME c.keep
          PROVE  Orderly(e.out, c.floor, e.sender) /\ c.floor <= e.sender /\ e.sender <= e.sender
      BY <1>1, <2>1 DEF Fine, Calm
    <2>2. c.keep => Orderly(e.out \o msgs, c.floor, e.sender)
      BY <1>1, <1>2, <1>3, <2>1, OrderlyConcat
    <2> QED
      BY <2>1, <2>2 DEF Fine
  <1>5. Fine(Transmit(e, msgs), c)
    BY <1>1, <1>2, <1>4, TransmitFine
  <1>6. Transmit(e, msgs).target = e.target
    BY <1>1 DEF Transmit, Machine
  <1> QED
    BY <1>5, <1>6 DEF msgs

LEMMA NextResendRequestFine ==
    ASSUME NEW c \in Context, NEW e, Fine(e, c), NEW m, Arrived(e, m, c),
           m.type = ResendRequest
    PROVE  Fine(NextResendRequest(e, m), c)
  <1> DEFINE answered == Transmit(e, Retransmits(e, m.arg))
  <1>1. Known(m, c) /\ m.arg \in Nat /\ m.arg >= 1 /\ m.num \in Nat /\ m.type \notin {SequenceReset, App}
    BY TypesApart DEF Arrived, Known, Sendable, Message, Positive
  <1>2. Fine(answered, c) /\ answered.target = e.target
    BY <1>1, RetransmitFine
  <1>3. \/ NextResendRequest(e, m) = Disconnect(e)
        \/ m.num = e.target /\ NextResendRequest(e, m) = IncrTarget(answered)
        \/ NextResendRequest(e, m) = answered
    BY Zenon DEF NextResendRequest
  <1> HIDE DEF answered
  <1>4. ASSUME m.num = e.target
        PROVE  Fine(IncrTarget(answered), c)
    <2>1. answered.target <= m.num /\ m.num = answered.target
      BY <1>1, <1>2, <1>4
    <2> QED
      BY <1>1, <1>2, <2>1, CountFine
  <1> QED
    BY <1>2, <1>3, <1>4, DisconnectFine

LEMMA ProcessFine ==
    ASSUME NEW c \in Context, NEW e, Fine(e, c), NEW m, Arrived(e, m, c)
    PROVE  Fine(Process(e, m), c)
  <1>1. m.type \in Types
    BY DEF Arrived, Sendable, Message
  <1>2. CASE m.type = Logon
    <2>1. Process(e, m) = NextLogon(e, m)
      BY <1>2 DEF Process, Logon, Heartbeat, Logout, ResendRequest, Reject, App, SequenceReset
    <2> QED
      BY <1>2, <2>1, NextLogonFine
  <1>3. CASE m.type = SequenceReset
    <2>1. Process(e, m) = NextSequenceReset(e, m)
      BY <1>3 DEF Process, Logon, Heartbeat, Logout, ResendRequest, Reject, App, SequenceReset
    <2> QED
      BY <1>3, <2>1, NextSequenceResetFine
  <1>4. CASE m.type = Logout
    <2>1. Process(e, m) = NextLogout(e, m)
      BY <1>4 DEF Process, Logon, Heartbeat, Logout, ResendRequest, Reject, App, SequenceReset
    <2> QED
      BY <1>4, <2>1, NextLogoutFine
  <1>5. CASE m.type = ResendRequest
    <2>1. Process(e, m) = NextResendRequest(e, m)
      BY <1>5 DEF Process, Logon, Heartbeat, Logout, ResendRequest, Reject, App, SequenceReset
    <2> QED
      BY <1>5, <2>1, NextResendRequestFine
  <1>6. CASE m.type = Heartbeat
    <2>1. Process(e, m) = NextHeartbeat(e, m)
      BY <1>6 DEF Process, Logon, Heartbeat, Logout, ResendRequest, Reject, App, SequenceReset
    <2> QED
      BY <1>6, <2>1, NextHeartbeatFine
  <1>7. CASE m.type = Reject
    <2>1. Process(e, m) = NextReject(e, m)
      BY <1>7 DEF Process, Logon, Heartbeat, Logout, ResendRequest, Reject, App, SequenceReset
    <2> QED
      BY <1>7, <2>1, NextRejectFine
  <1>8. CASE m.type = App
    <2>1. Process(e, m) = NextApp(e, m)
      BY <1>8 DEF Process, Logon, Heartbeat, Logout, ResendRequest, Reject, App, SequenceReset
    <2> QED
      BY <1>8, <2>1, NextAppFine
  <1> QED
    BY <1>1, <1>2, <1>3, <1>4, <1>5, <1>6, <1>7, <1>8 DEF Types

-----------------------------------------------------------------------------
(***************************************************************************)
(* The two sessions and their links.  What s may have to expect: the next  *)
(* number of its peer and the numbers, not sent again, in its inbox.       *)
(***************************************************************************)
Expected(s, inbox) ==
    {session[Peer(s)].sender} \cup
        {inbox[i].num : i \in {j \in 1 .. Len(inbox) : ~inbox[j].dup}}

Within(e, limit) == e.target <= limit /\ \A q \in e.queue : Reach(q) <= limit

PartsOK ==
    /\ session \in [Sides -> Working]
    /\ \A s \in Sides : session[s].out = <<>> /\ session[s].got = <<>>
    /\ link \in [Sides -> Seq(Sendable)]
    /\ accepted \in [Sides -> Nat]
    /\ delivered \in [Sides -> Seq(Given)]
    /\ disturbed \in Nat

\* Whatever s counts or has queued lies below every number that it may have
\* to expect; what is on its way to it is in order.
InStep(s) ==
    /\ ~session[s].sentReset /\ ~session[s].receivedReset
    /\ Orderly(link[s], 0, session[Peer(s)].sender)
    /\ \A limit \in Expected(s, link[s]) : Within(session[s], limit)

\* The messages of the application of s are stored in the order in which they
\* were accepted.
Sent(s) == Apps(session[s].stored, session[s].sender)

Numbered(s) ==
    \A n \in Sent(s) :
        /\ session[s].stored[n].arg \in 1 .. accepted[s]
        /\ \A k \in Sent(s) : n < k => session[s].stored[n].arg < session[s].stored[k].arg

\* What is on its way to s and what it has queued tells what its peer stored.
Told(s) ==
    LET p == session[Peer(s)]
    IN  /\ \A i \in 1 .. Len(link[s]) : Tells(link[s][i], p.stored, p.sender)
        /\ \A q \in session[s].queue : Tells(q, p.stored, p.sender)

\* The last message that the application of s was given comes before all those
\* that s expects.  Only a crash leaves s expecting that message again, and then
\* whatever brings it is marked.
LastId(s) == Delivery!LastDelivered(s)

Repeats(s) ==
    /\ session[s].target \in Sent(Peer(s))
    /\ session[Peer(s)].stored[session[s].target].arg = LastId(s)

Placed(s) ==
    /\ LastId(s) <= accepted[Peer(s)]
    /\ LastId(s) = 0 <=> delivered[s] = <<>>
    /\ \A n \in Sent(Peer(s)) :
          /\ n > session[s].target => session[Peer(s)].stored[n].arg > LastId(s)
          /\ n = session[s].target => session[Peer(s)].stored[n].arg >= LastId(s)
    /\ Repeats(s) =>
          /\ \A i \in 1 .. Len(link[s]) : link[s][i].num = session[s].target => link[s][i].dup
          /\ \A q \in session[s].queue : q.num = session[s].target => q.dup

NumbersOK == NeverReset => \A s \in Sides : InStep(s) /\ Numbered(s) /\ Told(s) /\ Placed(s)

SessionInv == PartsOK /\ NumbersOK

\* What surrounds a step of s.
Here(s, limit, sends) ==
    [resets |-> session[s].resets, keep |-> NeverReset,
     floor |-> session[s].sender, limit |-> limit,
     mine |-> session[s].stored,
     peer |-> session[Peer(s)].stored, used |-> session[Peer(s)].sender,
     start |-> session[s].target, again |-> Repeats(s),
     sends |-> sends, id |-> accepted[s] + 1, unchecked |-> UncheckedCount(s)]

LEMMA Peers ==
    ASSUME NEW s \in Sides
    PROVE  /\ Peer(s) \in Sides /\ Peer(s) # s /\ Peer(Peer(s)) = s
           /\ Sides = {s, Peer(s)}
  BY DEF Sides, Peer

LEMMA ExpectedIsNat ==
    ASSUME PartsOK, NEW s \in Sides, NEW inbox \in Seq(Sendable)
    PROVE  Expected(s, inbox) \in SUBSET Nat
  <1>1. session[Peer(s)].sender \in Nat
    BY Peers DEF PartsOK, Working, Machine, Positive
  <1>2. \A i \in 1 .. Len(inbox) : inbox[i].num \in Nat
    BY ElementOfSeq DEF Sendable, Message, Positive
  <1> QED
    BY <1>1, <1>2 DEF Expected

\* Less is expected of an emptier inbox.
LEMMA ExpectedOfLess ==
    ASSUME PartsOK, NEW s \in Sides
    PROVE  /\ \A inbox : Expected(s, <<>>) \subseteq Expected(s, inbox)
           /\ link[s] # <<>> => Expected(s, Tail(link[s])) \subseteq Expected(s, link[s])
  <1>1. \A inbox : Expected(s, <<>>) \subseteq Expected(s, inbox)
    BY DEF Expected
  <1>2. ASSUME link[s] # <<>>
        PROVE  Expected(s, Tail(link[s])) \subseteq Expected(s, link[s])
    <2> DEFINE t == Tail(link[s])
    <2>1. /\ Len(t) = Len(link[s]) - 1 /\ Len(link[s]) \in Nat
          /\ \A i \in 1 .. Len(t) : t[i] = link[s][i + 1]
      BY <1>2, HeadTailProperties, LenProperties DEF PartsOK
    <2> HIDE DEF t
    <2>2. \A i \in 1 .. Len(t) : i + 1 \in 1 .. Len(link[s]) /\ t[i] = link[s][i + 1]
      BY <2>1
    <2> QED
      BY <2>2 DEF Expected, t
  <1> QED
    BY <1>1, <1>2

LEMMA HereIs ==
    ASSUME NEW s \in Sides, NEW limit, NEW sends
    PROVE  LET c == Here(s, limit, sends)
           IN  /\ c.resets = session[s].resets /\ c.keep = NeverReset
               /\ c.floor = session[s].sender /\ c.limit = limit
               /\ c.mine = session[s].stored
               /\ c.peer = session[Peer(s)].stored /\ c.used = session[Peer(s)].sender
               /\ c.start = session[s].target /\ c.again = Repeats(s)
               /\ c.sends = sends /\ c.id = accepted[s] + 1
               /\ c.unchecked = UncheckedCount(s)
               /\ Coming(c) = Sent(Peer(s))
  BY DEF Here, Coming, Sent

LEMMA HereIsContext ==
    ASSUME PartsOK, NEW s \in Sides, NEW limit \in Nat, NEW sends \in BOOLEAN
    PROVE  Here(s, limit, sends) \in Context
  <1>1. session[s] \in Machine /\ session[Peer(s)] \in Machine /\ accepted[s] + 1 \in Nat
    BY Peers DEF PartsOK, Working
  <1>2. /\ session[s].resets \in SUBSET ResetEvents /\ session[s].sender \in Positive
        /\ session[s].stored \in Seq(Stored) /\ session[Peer(s)].stored \in Seq(Stored)
        /\ session[Peer(s)].sender \in Nat /\ session[s].target \in Nat
    BY <1>1 DEF Machine, Positive
  <1>3. NeverReset \in BOOLEAN /\ (NeverReset => session[s].resets = {})
    BY DEF NeverReset
  <1>4. Repeats(s) \in BOOLEAN /\ UncheckedCount(s) \in BOOLEAN
    BY DEF Repeats, UncheckedCount
  <1> QED
    BY <1>1, <1>2, <1>3, <1>4, Zenon DEF Here, Context

\* A session between two steps.
LEMMA RestsFine ==
    ASSUME SessionInv, NEW s \in Sides, NEW limit \in Nat, NEW sends \in BOOLEAN,
           limit \in Expected(s, link[s])
    PROVE  Fine(session[s], Here(s, limit, sends))
  <1> DEFINE c == Here(s, limit, sends)
             e == session[s]
  <1>1. /\ e \in Working /\ e.out = <<>> /\ e.got = <<>>
        /\ e.sender \in Nat /\ e.target \in Nat /\ e.sender >= 1
    BY DEF SessionInv, PartsOK, Working, Machine, Positive
  <1>2. /\ c.resets = e.resets /\ c.keep = NeverReset
        /\ c.floor = e.sender /\ c.limit = limit /\ c.mine = e.stored
        /\ c.peer = session[Peer(s)].stored /\ c.used = session[Peer(s)].sender
        /\ c.start = e.target /\ c.again = Repeats(s)
        /\ Coming(c) = Sent(Peer(s))
    BY HereIs
  <1>3. NeverReset => /\ ~e.sentReset /\ ~e.receivedReset /\ Within(e, limit)
                      /\ Told(s) /\ Placed(s)
    BY DEF SessionInv, NumbersOK, InStep
  <1>4. Orderly(e.out, e.sender, e.sender)
    BY <1>1, OrderlyEmpty
  <1>5. ASSUME NeverReset
        PROVE  /\ \A q \in e.queue : Tells(q, c.peer, c.used)
               /\ c.again => \A q \in e.queue : q.num = c.start => q.dup
    BY <1>2, <1>3, <1>5 DEF Told, Placed
  <1>6. \A n \in Coming(c) : n \in Nat
    BY DEF Coming, Apps
  <1> HIDE DEF c, e
  <1>7. c.keep => Follows(e, c)
    <2>1. Handed(e, c)
      BY <1>1 DEF Handed
    <2>2. \A n \in Coming(c) : ~(c.start <= n /\ n < e.target)
      BY <1>1, <1>2, <1>6
    <2>3. c.start <= e.target
      BY <1>1, <1>2
    <2> QED
      BY <1>2, <1>5, <2>1, <2>2, <2>3 DEF Follows
  <1>8. Truthful(e, c)
    <2>1. \A n : n \notin c.floor .. e.sender - 1
      BY <1>1, <1>2
    <2>2. \A i : i \notin 1 .. Len(e.out)
      BY <1>1
    <2> QED
      BY <1>2, <2>1, <2>2 DEF Truthful
  <1>9. Fine(e, c)
    BY <1>1, <1>2, <1>3, <1>4, <1>7, <1>8 DEF Fine, Calm, Within
  <1> QED
    BY <1>9 DEF c, e

LEMMA OrderlyTail ==
    ASSUME NEW msgs \in Seq(Sendable), msgs # <<>>, NEW floor, NEW sender,
           Orderly(msgs, floor, sender)
    PROVE  Orderly(Tail(msgs), floor, sender)
  <1> DEFINE t == Tail(msgs)
  <1>1. /\ Len(t) = Len(msgs) - 1 /\ Len(msgs) \in Nat
        /\ \A i \in 1 .. Len(t) : t[i] = msgs[i + 1]
    BY HeadTailProperties, LenProperties
  <1> HIDE DEF t
  <1> SUFFICES ASSUME NEW j \in 1 .. Len(t)
               PROVE  /\ Reach(t[j]) <= sender
                      /\ ~t[j].dup => /\ floor <= t[j].num
                                      /\ \A i \in 1 .. j - 1 : Reach(t[i]) <= t[j].num
                      /\ t[j].type = Logon => t[j].arg = 0
    BY DEF Orderly, t
  <1>2. j + 1 \in 1 .. Len(msgs) /\ t[j] = msgs[j + 1]
    BY <1>1
  <1>3. \A i \in 1 .. j - 1 : i + 1 \in 1 .. (j + 1) - 1 /\ t[i] = msgs[i + 1]
    BY <1>1
  <1> QED
    BY <1>2, <1>3 DEF Orderly

\* The first message of the link, once it is taken out.
LEMMA HeadArrives ==
    ASSUME SessionInv, NEW s \in Sides, link[s] # <<>>,
           NEW limit \in Nat, limit \in Expected(s, Tail(link[s])), NEW sends \in BOOLEAN,
           Readable(s)
    PROVE  Arrived(session[s], Head(link[s]), Here(s, limit, sends))
  <1> DEFINE m == Head(link[s])
             t == Tail(link[s])
  <1>1. /\ link[s] \in Seq(Sendable) /\ Len(link[s]) \in Nat /\ Len(link[s]) >= 1
        /\ m = link[s][1]
        /\ Len(t) = Len(link[s]) - 1
        /\ \A i \in 1 .. Len(t) : t[i] = link[s][i + 1]
    BY HeadTailProperties, EmptySeq, LenProperties DEF SessionInv, PartsOK
  <1> HIDE DEF t, m
  <1>2. m \in Sendable
    BY <1>1, ElementOfSeq
  <1> DEFINE c == Here(s, limit, sends)
  <1>3. /\ c.keep = NeverReset /\ c.limit = limit
        /\ c.peer = session[Peer(s)].stored /\ c.used = session[Peer(s)].sender
        /\ c.start = session[s].target /\ c.again = Repeats(s)
        /\ c.unchecked = UncheckedCount(s)
    BY HereIs
  <1> HIDE DEF c
  <1>4. ASSUME NeverReset
        PROVE  /\ Reach(m) <= limit
               /\ ~m.dup => session[s].target <= m.num
               /\ m.type = Logon => m.arg = 0
    <2>1. Orderly(link[s], 0, session[Peer(s)].sender)
      BY <1>4 DEF SessionInv, NumbersOK, InStep
    <2>2. 1 \in 1 .. Len(link[s])
      BY <1>1
    <2>3. Reach(m) <= session[Peer(s)].sender /\ (m.type = Logon => m.arg = 0)
      BY <1>1, <2>1, <2>2 DEF Orderly
    <2>4. ASSUME NEW i \in 1 .. Len(t), ~t[i].dup
          PROVE  Reach(m) <= t[i].num
      <3>1. i + 1 \in 1 .. Len(link[s]) /\ t[i] = link[s][i + 1] /\ 1 \in 1 .. (i + 1) - 1
        BY <1>1
      <3> QED
        BY <1>1, <2>1, <2>4, <3>1 DEF Orderly
    <2>5. Reach(m) <= limit
      BY <2>3, <2>4 DEF Expected, t
    <2>6. ~m.dup => m.num \in Expected(s, link[s])
      BY <1>1, <2>2 DEF Expected
    <2>7. ~m.dup => session[s].target <= m.num
      BY <1>4, <2>6 DEF SessionInv, NumbersOK, InStep, Within
    <2> QED
      BY <2>3, <2>5, <2>7
  <1>5. ASSUME NeverReset
        PROVE  /\ Tells(m, c.peer, c.used)
               /\ c.again /\ m.num = c.start => m.dup
    <2>1. Told(s) /\ Placed(s) /\ 1 \in 1 .. Len(link[s])
      BY <1>1, <1>5 DEF SessionInv, NumbersOK
    <2> QED
      BY <1>1, <1>3, <2>1 DEF Told, Placed
  <1>6. m.type \in {Logout, Reject} /\ session[s].target < m.num => UncheckedCount(s)
    <2>1. m.num \in Nat /\ session[s].target \in Nat
      BY <1>2 DEF Sendable, Message, Positive, SessionInv, PartsOK, Working, Machine
    <2> QED
      BY <2>1 DEF UncheckedCount, TooHigh, m
  <1>7. session[s].got = <<>>
    BY DEF SessionInv, PartsOK
  <1>8. Arrived(session[s], m, c)
    BY <1>2, <1>3, <1>4, <1>5, <1>6, <1>7 DEF Arrived
  <1> QED
    BY <1>8 DEF c, m

-----------------------------------------------------------------------------
(***************************************************************************)
(* A step of s: fine for every number it may have to expect, it keeps both *)
(* sessions in step.                                                       *)
(***************************************************************************)
Settled(e) == [e EXCEPT !.out = <<>>, !.got = <<>>]

LEMMA SettledWorks ==
    ASSUME NEW e \in Working
    PROVE  LET f == Settled(e)
           IN  /\ f \in Working
               /\ f.out = <<>> /\ f.got = <<>>
               /\ f.resets = e.resets /\ f.stored = e.stored
               /\ f.sender = e.sender /\ f.target = e.target /\ f.queue = e.queue
               /\ f.sentReset = e.sentReset /\ f.receivedReset = e.receivedReset
  <1> DEFINE f == Settled(e)
  <1>1. <<>> \in Seq(Sendable) /\ <<>> \in Seq(Given)
    BY EmptySeq
  <1>2. /\ f \in Machine /\ f.stored = e.stored /\ f.open = e.open
        /\ f.out = <<>> /\ f.got = <<>>
        /\ f.resets = e.resets
        /\ f.sender = e.sender /\ f.target = e.target /\ f.queue = e.queue
        /\ f.sentReset = e.sentReset /\ f.receivedReset = e.receivedReset
    BY <1>1 DEF Settled, Working, Machine
  <1> HIDE DEF f
  <1>3. f \in Working
    BY <1>2 DEF Working
  <1> QED
    BY <1>2, <1>3 DEF f

LEMMA BecomesParts ==
    ASSUME PartsOK, NEW s \in Sides, NEW e \in Working, NEW inbox \in Seq(Sendable),
           Becomes(s, e, inbox)
    PROVE  /\ session' \in [Sides -> Working]
           /\ session'[s] = Settled(e)
           /\ session'[Peer(s)] = session[Peer(s)]
           /\ link' \in [Sides -> Seq(Sendable)]
           /\ link'[s] \in {inbox, <<>>} /\ (~e.open => link'[s] = <<>>)
           /\ link'[Peer(s)] \in {link[Peer(s)] \o e.out, <<>>}
           /\ delivered' \in [Sides -> Seq(Given)]
           /\ delivered' = [delivered EXCEPT ![s] = @ \o e.got]
           /\ delivered'[s] = delivered[s] \o e.got
           /\ delivered'[Peer(s)] = delivered[Peer(s)]
  <1> DEFINE p == Peer(s)
             mine == IF e.open THEN inbox ELSE <<>>
             theirs == IF session[p].open THEN link[p] \o e.out ELSE <<>>
             given == delivered[s] \o e.got
  <1>1. p \in Sides /\ p # s /\ Sides = {s, p}
    BY Peers
  <1>2. /\ session \in [Sides -> Working] /\ link \in [Sides -> Seq(Sendable)]
        /\ delivered \in [Sides -> Seq(Given)]
    BY DEF PartsOK
  <1>3. e.out \in Seq(Sendable) /\ e.got \in Seq(Given)
    BY DEF Working, Machine
  <1>4. <<>> \in Seq(Sendable)
    BY EmptySeq
  <1>5. mine \in Seq(Sendable) /\ mine \in {inbox, <<>>} /\ (~e.open => mine = <<>>)
    BY <1>4
  <1>6. theirs \in Seq(Sendable) /\ theirs \in {link[p] \o e.out, <<>>}
    <2>1. link[p] \o e.out \in Seq(Sendable)
      BY <1>1, <1>2, <1>3, ConcatProperties
    <2> QED
      BY <1>4, <2>1
  <1>7. given \in Seq(Given)
    BY <1>2, <1>3, ConcatProperties
  <1>8. /\ session' = [session EXCEPT ![s] = Settled(e)]
        /\ link' = [link EXCEPT ![s] = mine, ![p] = theirs]
        /\ delivered' = [delivered EXCEPT ![s] = given]
    <2>1. link' = [link EXCEPT ![s] = mine,
                               ![p] = IF session[p].open THEN @ \o e.out ELSE <<>>]
      BY Zenon DEF Becomes
    <2> HIDE DEF mine
    <2>2. link' = [link EXCEPT ![s] = mine, ![p] = theirs]
      BY <1>1, <1>2, <2>1
    <2> QED
      BY <2>2, Zenon DEF Becomes, Settled, mine
  <1>9. Settled(e) \in Working
    BY SettledWorks
  <1> HIDE DEF mine, theirs, given, p
  <1>10. session' \in [Sides -> Working] /\ session'[s] = Settled(e) /\ session'[p] = session[p]
    BY <1>1, <1>2, <1>8, <1>9
  <1>11. link' \in [Sides -> Seq(Sendable)] /\ link'[s] = mine /\ link'[p] = theirs
    BY <1>1, <1>2, <1>5, <1>6, <1>8
  <1>12. /\ delivered' \in [Sides -> Seq(Given)]
         /\ delivered'[s] = given /\ delivered'[p] = delivered[p]
    BY <1>1, <1>2, <1>7, <1>8
  <1>13. delivered' = [delivered EXCEPT ![s] = @ \o e.got]
    BY Zenon DEF Becomes
  <1> QED
    BY <1>5, <1>6, <1>10, <1>11, <1>12, <1>13 DEF p, given

\* A step of s, in which it becomes e and has inbox left to read; sends says
\* whether its application sends a message.
Step(s, e, inbox, sends) ==
    /\ sends \in BOOLEAN
    /\ \/ inbox = <<>>
       \/ inbox = link[s]
       \/ link[s] # <<>> /\ inbox = Tail(link[s])
    /\ \A limit \in Expected(s, inbox) : Fine(e, Here(s, limit, sends))
    /\ NeverReset /\ sends => e.got = <<>>
    /\ Becomes(s, e, inbox)
    /\ accepted' = IF sends THEN [accepted EXCEPT ![s] = @ + 1] ELSE accepted
    /\ disturbed' \in Nat

\* What it leaves.
Stepped(s, e, inbox, sends) ==
    /\ inbox \in Seq(Sendable)
    /\ session[Peer(s)].sender \in Expected(s, inbox)
    /\ session[Peer(s)].sender \in Nat
    /\ e \in Working /\ e.resets = session[s].resets
    /\ e.sender \in Nat /\ e.target \in Nat
    /\ e.out \in Seq(Sendable) /\ e.got \in Seq(Given) /\ e.queue \subseteq Sendable
    /\ session' \in [Sides -> Working]
    /\ session'[Peer(s)] = session[Peer(s)]
    /\ session'[s].out = <<>> /\ session'[s].got = <<>>
    /\ session'[s].resets = session[s].resets
    /\ session'[s].stored = e.stored
    /\ session'[s].sender = e.sender
    /\ session'[s].target = e.target /\ session'[s].queue = e.queue
    /\ session'[s].sentReset = e.sentReset
    /\ session'[s].receivedReset = e.receivedReset
    /\ link' \in [Sides -> Seq(Sendable)]
    /\ link'[s] \in {inbox, <<>>} /\ (~e.open => link'[s] = <<>>)
    /\ link'[Peer(s)] \in {link[Peer(s)] \o e.out, <<>>}
    /\ delivered' \in [Sides -> Seq(Given)]
    /\ delivered' = [delivered EXCEPT ![s] = @ \o e.got]
    /\ delivered'[s] = delivered[s] \o e.got
    /\ delivered'[Peer(s)] = delivered[Peer(s)]
    /\ accepted' \in [Sides -> Nat]
    /\ accepted'[s] = IF sends THEN accepted[s] + 1 ELSE accepted[s]
    /\ accepted'[Peer(s)] = accepted[Peer(s)]
    /\ PartsOK'
    /\ NeverReset' = NeverReset

LEMMA StepParts ==
    ASSUME SessionInv, NEW s \in Sides, NEW e, NEW inbox, NEW sends,
           Step(s, e, inbox, sends)
    PROVE  Stepped(s, e, inbox, sends)
  <1> DEFINE p == Peer(s)
             mark == session[p].sender
  <1>1. p \in Sides /\ p # s /\ Peer(p) = s /\ Sides = {s, p}
    BY Peers
  <1>2. PartsOK
    BY DEF SessionInv
  <1>3. inbox \in Seq(Sendable)
    <2>1. link[s] \in Seq(Sendable) /\ <<>> \in Seq(Sendable)
      BY <1>2, EmptySeq DEF PartsOK
    <2>2. link[s] # <<>> => Tail(link[s]) \in Seq(Sendable)
      BY <2>1, HeadTailProperties
    <2> QED
      BY <2>1, <2>2 DEF Step
  <1>4. mark \in Expected(s, inbox) /\ mark \in Nat
    <2>1. mark \in Expected(s, inbox)
      BY DEF Expected
    <2> QED
      BY <1>2, <1>3, <2>1, ExpectedIsNat
  <1>5. /\ e \in Working /\ e.resets = session[s].resets
        /\ e.sender \in Nat /\ e.target \in Nat
        /\ e.out \in Seq(Sendable) /\ e.got \in Seq(Given) /\ e.queue \subseteq Sendable
    <2>1. Fine(e, Here(s, mark, sends))
      BY <1>4 DEF Step
    <2>2. e \in Working /\ e.resets = session[s].resets
      BY <2>1, HereIs DEF Fine
    <2> QED
      BY <2>2 DEF Working, Machine, Positive
  <1>6. /\ session' \in [Sides -> Working]
        /\ session'[s] = Settled(e)
        /\ session'[p] = session[p]
        /\ link' \in [Sides -> Seq(Sendable)]
        /\ link'[s] \in {inbox, <<>>} /\ (~e.open => link'[s] = <<>>)
        /\ link'[p] \in {link[p] \o e.out, <<>>}
        /\ delivered' \in [Sides -> Seq(Given)]
        /\ delivered' = [delivered EXCEPT ![s] = @ \o e.got]
        /\ delivered'[s] = delivered[s] \o e.got
        /\ delivered'[p] = delivered[p]
    <2>1. Becomes(s, e, inbox)
      BY DEF Step
    <2> QED
      BY <1>2, <1>3, <1>5, <2>1, BecomesParts, Zenon
  <1>7. /\ session'[s].out = <<>> /\ session'[s].got = <<>>
        /\ session'[s].resets = session[s].resets
        /\ session'[s].stored = e.stored
        /\ session'[s].sender = e.sender
        /\ session'[s].target = e.target /\ session'[s].queue = e.queue
        /\ session'[s].sentReset = e.sentReset
        /\ session'[s].receivedReset = e.receivedReset
    BY <1>5, <1>6, SettledWorks
  <1> HIDE DEF p, mark
  <1>8. /\ accepted' \in [Sides -> Nat]
        /\ accepted'[s] = IF sends THEN accepted[s] + 1 ELSE accepted[s]
        /\ accepted'[p] = accepted[p]
    <2>1. accepted \in [Sides -> Nat] /\ accepted[s] + 1 \in Nat
      BY <1>2 DEF PartsOK
    <2> QED
      BY <1>1, <2>1 DEF Step
  <1>9. PartsOK'
    <2>1. disturbed' \in Nat
      BY DEF Step
    <2>2. \A t \in Sides : session'[t].out = <<>> /\ session'[t].got = <<>>
      BY <1>1, <1>2, <1>6, <1>7 DEF PartsOK
    <2> QED
      BY <1>6, <1>8, <2>1, <2>2 DEF PartsOK
  <1>10. NeverReset' = NeverReset
    BY <1>1, <1>6, <1>7 DEF NeverReset
  <1> QED
    BY <1>3, <1>4, <1>5, <1>6, <1>7, <1>8, <1>9, <1>10, Zenon DEF Stepped, p, mark

\* What a step does to what is stored and handed over, while numbers are kept.
LEMMA StepKeptParts ==
    ASSUME SessionInv, NeverReset, NEW s \in Sides, NEW e, NEW inbox, NEW sends,
           Step(s, e, inbox, sends)
    PROVE  LET p == session[Peer(s)]
               start == session[s].target
               floor == session[s].sender
           IN  /\ floor \in Nat /\ floor >= 1 /\ floor <= e.sender
               /\ Orderly(e.out, floor, e.sender)
               /\ \A n \in 1 .. floor - 1 : e.stored[n] = session[s].stored[n]
               /\ \A n \in floor .. e.sender - 1 :
                     e.stored[n].type = App =>
                        sends /\ n = floor /\ e.stored[n].arg = accepted[s] + 1
               /\ \A i \in 1 .. Len(e.out) : Tells(e.out[i], e.stored, e.sender)
               /\ \A q \in e.queue : Tells(q, p.stored, p.sender)
               /\ start \in Nat /\ start <= e.target
               /\ e.target = start /\ Repeats(s) => \A q \in e.queue : q.num = start => q.dup
               /\ \A n \in Sent(Peer(s)) :
                     start <= n /\ n < e.target =>
                        UncheckedCount(s) \/ (e.got # <<>> /\ n = start)
               /\ \/ e.got = <<>>
                  \/ /\ start < e.target \/ (~e.open /\ e.queue = {})
                     /\ start \in Sent(Peer(s))
                     /\ \E dup \in BOOLEAN :
                           /\ e.got = <<[id |-> p.stored[start].arg, dup |-> dup]>>
                           /\ dup \/ ~Repeats(s)
  <1> DEFINE mark == session[Peer(s)].sender
             c == Here(s, mark, sends)
  <1>1. Fine(e, c)
    <2>1. Stepped(s, e, inbox, sends)
      BY StepParts, Zenon
    <2> QED
      BY <2>1 DEF Step, Stepped
  <1> HIDE DEF mark
  <1>2. /\ c.keep = NeverReset
        /\ c.floor = session[s].sender
        /\ c.mine = session[s].stored
        /\ c.peer = session[Peer(s)].stored /\ c.used = session[Peer(s)].sender
        /\ c.start = session[s].target /\ c.again = Repeats(s)
        /\ c.sends = sends /\ c.id = accepted[s] + 1
        /\ c.unchecked = UncheckedCount(s)
        /\ Coming(c) = Sent(Peer(s))
    BY DEF Here, Coming, Sent
  <1>3. session[s].sender \in Nat /\ session[s].sender >= 1 /\ session[s].target \in Nat
    BY DEF SessionInv, PartsOK, Working, Machine, Positive
  <1> HIDE DEF c
  <1>4. Calm(e, c) /\ Orderly(e.out, c.floor, e.sender) /\ Truthful(e, c) /\ Follows(e, c)
    BY <1>1, <1>2 DEF Fine
  <1>5. Handed(e, c)
    BY <1>4 DEF Follows
  <1> QED
    BY <1>2, <1>3, <1>4, <1>5 DEF Calm, Truthful, Follows, Handed

LEMMA ConcatElement ==
    ASSUME NEW a \in Seq(Sendable), NEW b \in Seq(Sendable), NEW i \in 1 .. Len(a \o b)
    PROVE  \/ \E j \in 1 .. Len(a) : (a \o b)[i] = a[j]
           \/ \E j \in 1 .. Len(b) : (a \o b)[i] = b[j]
  <1>1. /\ Len(a) \in Nat /\ Len(b) \in Nat /\ Len(a \o b) = Len(a) + Len(b)
        /\ \A k \in 1 .. Len(a) + Len(b) :
              (a \o b)[k] = IF k <= Len(a) THEN a[k] ELSE b[k - Len(a)]
    BY ConcatProperties, LenProperties
  <1>2. CASE i <= Len(a)
    <2>1. i \in 1 .. Len(a) /\ (a \o b)[i] = a[i]
      BY <1>1, <1>2
    <2> QED
      BY <2>1
  <1>3. CASE ~(i <= Len(a))
    <2>1. i - Len(a) \in 1 .. Len(b) /\ (a \o b)[i] = b[i - Len(a)]
      BY <1>1, <1>3
    <2> QED
      BY <2>1
  <1> QED
    BY <1>2, <1>3

\* What is on its way to s after its step was on its way before.
LEMMA StepInbox ==
    ASSUME SessionInv, NEW s \in Sides, NEW e, NEW inbox, NEW sends,
           Step(s, e, inbox, sends), NEW i \in 1 .. Len(link'[s])
    PROVE  \E j \in 1 .. Len(link[s]) : link'[s][i] = link[s][j]
  <1>1. link'[s] # <<>>
    <2>1. link'[s] = <<>> => Len(link'[s]) = 0
      BY EmptySeq
    <2> QED
      BY <2>1
  <1>2. link'[s] = inbox
    <2>1. Stepped(s, e, inbox, sends)
      BY StepParts, Zenon
    <2> QED
      BY <1>1, <2>1 DEF Stepped
  <1>3. CASE inbox = link[s]
    BY <1>2, <1>3
  <1>4. CASE link[s] # <<>> /\ inbox = Tail(link[s])
    <2>1. /\ Len(inbox) = Len(link[s]) - 1 /\ Len(link[s]) \in Nat
          /\ \A k \in 1 .. Len(inbox) : inbox[k] = link[s][k + 1]
      BY <1>4, HeadTailProperties, LenProperties DEF SessionInv, PartsOK
    <2>2. i + 1 \in 1 .. Len(link[s]) /\ link'[s][i] = link[s][i + 1]
      BY <1>2, <2>1
    <2> QED
      BY <2>2
  <1> QED
    BY <1>1, <1>2, <1>3, <1>4 DEF Step

\* What s stored for its application, and what it then stores.
LEMMA StepStores ==
    ASSUME SessionInv, NeverReset, NEW s \in Sides, NEW e, NEW inbox, NEW sends,
           Step(s, e, inbox, sends)
    PROVE  /\ Sent(Peer(s))' = Sent(Peer(s))
           /\ \A n \in Sent(s) : /\ n \in Nat /\ n < session[s].sender
                                 /\ n \in Sent(s)'
                                 /\ session'[s].stored[n] = session[s].stored[n]
           /\ \A n \in Sent(s)' :
                 \/ n \in Sent(s)
                 \/ /\ n = session[s].sender /\ sends
                    /\ session'[s].stored[n].arg = accepted[s] + 1
  <1> DEFINE floor == session[s].sender
             old == session[s].stored
  <1>1. /\ session'[Peer(s)] = session[Peer(s)]
        /\ session'[s].stored = e.stored /\ session'[s].sender = e.sender /\ e.sender \in Nat
    <2>1. Stepped(s, e, inbox, sends)
      BY StepParts, Zenon
    <2> QED
      BY <2>1 DEF Stepped
  <1>2. /\ floor \in Nat /\ floor >= 1 /\ floor <= e.sender
        /\ \A n \in 1 .. floor - 1 : e.stored[n] = old[n]
        /\ \A n \in floor .. e.sender - 1 :
              e.stored[n].type = App => sends /\ n = floor /\ e.stored[n].arg = accepted[s] + 1
    BY StepKeptParts
  <1>3. Sent(s)' = {n \in 1 .. e.sender - 1 : e.stored[n].type = App}
    BY <1>1 DEF Sent, Apps
  <1>4. Sent(s) = {n \in 1 .. floor - 1 : old[n].type = App}
    BY DEF Sent, Apps
  <1>5. Sent(Peer(s))' = Sent(Peer(s))
    BY <1>1 DEF Sent
  <1> HIDE DEF floor, old
  <1>6. ASSUME NEW n \in Sent(s)
        PROVE  n \in Nat /\ n < floor /\ n \in Sent(s)' /\ e.stored[n] = old[n]
    <2>1. n \in 1 .. floor - 1 /\ old[n].type = App
      BY <1>4
    <2>2. n \in 1 .. e.sender - 1 /\ e.stored[n] = old[n]
      BY <1>1, <1>2, <2>1
    <2> QED
      BY <1>2, <1>3, <2>1, <2>2
  <1>7. ASSUME NEW n \in Sent(s)'
        PROVE  \/ n \in Sent(s)
               \/ n = floor /\ sends /\ e.stored[n].arg = accepted[s] + 1
    <2>1. n \in 1 .. e.sender - 1 /\ e.stored[n].type = App
      BY <1>3
    <2>2. n \in 1 .. floor - 1 \/ n \in floor .. e.sender - 1
      BY <1>1, <1>2, <2>1
    <2>3. n \in 1 .. floor - 1 => n \in Sent(s)
      BY <1>2, <1>4, <2>1
    <2> QED
      BY <1>2, <2>1, <2>2, <2>3
  <1> QED
    BY <1>1, <1>5, <1>6, <1>7 DEF floor, old

LEMMA LastIsNat ==
    ASSUME PartsOK, NEW s \in Sides
    PROVE  LastId(s) \in Nat
  <1>1. delivered[s] \in Seq(Given)
    BY DEF PartsOK
  <1>2. CASE delivered[s] = <<>>
    BY <1>2 DEF LastId, Delivery!LastDelivered
  <1>3. CASE delivered[s] # <<>>
    <2>1. Len(delivered[s]) \in 1 .. Len(delivered[s])
      BY <1>1, <1>3, EmptySeq, LenProperties
    <2>2. delivered[s][Len(delivered[s])] \in Given
      BY <1>1, <2>1, ElementOfSeq
    <2> QED
      BY <1>3, <2>2 DEF LastId, Delivery!LastDelivered, Given
  <1> QED
    BY <1>2, <1>3

LEMMA LastSame ==
    ASSUME NEW s \in Sides, delivered'[s] = delivered[s]
    PROVE  LastId(s)' = LastId(s)
  BY DEF LastId, Delivery!LastDelivered

LEMMA StepLast ==
    ASSUME SessionInv, NEW s \in Sides, NEW e, NEW inbox, NEW sends,
           Step(s, e, inbox, sends)
    PROVE  /\ LastId(Peer(s))' = LastId(Peer(s))
           /\ e.got = <<>> => delivered' = delivered /\ LastId(s)' = LastId(s)
           /\ \A given \in Given :
                 e.got = <<given>> =>
                    /\ delivered' = [delivered EXCEPT ![s] = Append(@, given)]
                    /\ delivered'[s] # <<>> /\ LastId(s)' = given.id
  <1>1. /\ delivered' = [delivered EXCEPT ![s] = @ \o e.got]
        /\ delivered'[s] = delivered[s] \o e.got
        /\ delivered'[Peer(s)] = delivered[Peer(s)]
    <2>1. Stepped(s, e, inbox, sends)
      BY StepParts, Zenon
    <2> QED
      BY <2>1 DEF Stepped
  <1>2. delivered \in [Sides -> Seq(Given)] /\ delivered[s] \in Seq(Given)
    BY DEF SessionInv, PartsOK
  <1>3. LastId(Peer(s))' = LastId(Peer(s))
    BY <1>1, LastSame, Peers
  <1>4. ASSUME e.got = <<>>
        PROVE  delivered' = delivered /\ LastId(s)' = LastId(s)
    <2>1. delivered[s] \o e.got = delivered[s]
      BY <1>2, <1>4, ConcatEmptySeq
    <2>2. delivered' = delivered
      BY <1>1, <1>2, <2>1
    <2> QED
      BY <2>2 DEF LastId, Delivery!LastDelivered
  <1>5. ASSUME NEW given \in Given, e.got = <<given>>
        PROVE  /\ delivered' = [delivered EXCEPT ![s] = Append(@, given)]
               /\ delivered'[s] # <<>> /\ LastId(s)' = given.id
    <2>1. delivered[s] \o <<given>> = Append(delivered[s], given)
      BY <1>2
    <2>2. delivered'[s] = Append(delivered[s], given)
      BY <1>1, <1>5, <2>1
    <2>3. /\ Append(delivered[s], given) # <<>>
          /\ Len(Append(delivered[s], given)) = Len(delivered[s]) + 1
          /\ Append(delivered[s], given)[Len(delivered[s]) + 1] = given
      BY <1>2, AppendProperties
    <2>4. LastId(s)' = given.id
      BY <2>2, <2>3 DEF LastId, Delivery!LastDelivered
    <2>5. delivered' = [delivered EXCEPT ![s] = Append(@, given)]
      BY <1>1, <1>5, <2>1
    <2> QED
      BY <2>2, <2>3, <2>4, <2>5
  <1> QED
    BY <1>3, <1>4, <1>5

\* A message on its way to the peer of s after the step of s was on its way
\* before or is sent in the step.
OldOrNew(s, e) ==
    \A i \in 1 .. Len(link'[Peer(s)]) :
        \/ \E j \in 1 .. Len(link[Peer(s)]) : link'[Peer(s)][i] = link[Peer(s)][j]
        \/ \E j \in 1 .. Len(e.out) : link'[Peer(s)][i] = e.out[j]

LEMMA StepOutbox ==
    ASSUME SessionInv, NEW s \in Sides, NEW e, NEW inbox, NEW sends,
           Step(s, e, inbox, sends)
    PROVE  OldOrNew(s, e)
  <1> SUFFICES ASSUME NEW i \in 1 .. Len(link'[Peer(s)])
               PROVE  \/ \E j \in 1 .. Len(link[Peer(s)]) :
                            link'[Peer(s)][i] = link[Peer(s)][j]
                      \/ \E j \in 1 .. Len(e.out) : link'[Peer(s)][i] = e.out[j]
    BY DEF OldOrNew
  <1> DEFINE old == link[Peer(s)]
  <1>1. link'[Peer(s)] # <<>>
    <2>1. link'[Peer(s)] = <<>> => Len(link'[Peer(s)]) = 0
      BY EmptySeq
    <2> QED
      BY <2>1
  <1>2. Stepped(s, e, inbox, sends)
    BY StepParts, Zenon
  <1>3. link'[Peer(s)] = old \o e.out /\ e.out \in Seq(Sendable) /\ old \in Seq(Sendable)
    BY <1>1, <1>2, Peers DEF Stepped, SessionInv, PartsOK
  <1>4. i \in 1 .. Len(old \o e.out)
    BY <1>3
  <1> HIDE DEF old
  <1>5. \/ \E j \in 1 .. Len(old) : (old \o e.out)[i] = old[j]
        \/ \E j \in 1 .. Len(e.out) : (old \o e.out)[i] = e.out[j]
    BY <1>3, <1>4, ConcatElement
  <1> QED
    BY <1>3, <1>5 DEF old

\* The numbers stay in step.
LEMMA StepNumbers ==
    ASSUME SessionInv, NeverReset, NEW s \in Sides, NEW e, NEW inbox, NEW sends,
           Step(s, e, inbox, sends)
    PROVE  InStep(s)' /\ InStep(Peer(s))'
  <1> DEFINE p == Peer(s)
             mark == session[p].sender
             floor == session[s].sender
  <1>1. p \in Sides /\ p # s /\ Peer(p) = s /\ Sides = {s, p}
    BY Peers
  <1>2. InStep(s) /\ InStep(p) /\ PartsOK
    BY <1>1 DEF SessionInv, NumbersOK
  <1>3. /\ mark \in Expected(s, inbox) /\ mark \in Nat
        /\ e.sender \in Nat /\ e.out \in Seq(Sendable)
        /\ session'[p] = session[p]
        /\ session'[s].sender = e.sender
        /\ session'[s].target = e.target /\ session'[s].queue = e.queue
        /\ session'[s].sentReset = e.sentReset
        /\ session'[s].receivedReset = e.receivedReset
        /\ link'[s] \in {inbox, <<>>}
        /\ link'[p] \in {link[p] \o e.out, <<>>}
    <2>1. Stepped(s, e, inbox, sends)
      BY StepParts, Zenon
    <2> QED
      BY <2>1 DEF Stepped
  <1>4. /\ floor \in Nat /\ floor <= e.sender
        /\ Orderly(e.out, floor, e.sender)
    BY StepKeptParts
  <1>5. \A limit \in Expected(s, inbox) : Within(e, limit) /\ ~e.sentReset /\ ~e.receivedReset
    <2> SUFFICES ASSUME NEW limit \in Expected(s, inbox)
                 PROVE  Within(e, limit) /\ ~e.sentReset /\ ~e.receivedReset
      OBVIOUS
    <2> DEFINE c == Here(s, limit, sends)
    <2>1. Fine(e, c)
      BY DEF Step
    <2>2. c.keep = NeverReset /\ c.limit = limit
      BY DEF Here
    <2> HIDE DEF c
    <2> QED
      BY <2>1, <2>2 DEF Fine, Calm, Within
  <1>6. \A i \in 1 .. Len(link'[p]) :
           \/ \E j \in 1 .. Len(link[p]) : link'[p][i] = link[p][j]
           \/ \E j \in 1 .. Len(e.out) : link'[p][i] = e.out[j]
    <2>1. OldOrNew(s, e)
      BY StepOutbox, Zenon
    <2> QED
      BY <2>1 DEF OldOrNew
  <1> HIDE DEF p, mark, floor
  <1>7. InStep(s)'
    <2>1. Orderly(link'[s], 0, mark)
      <3>1. Orderly(<<>>, 0, mark)
        BY OrderlyEmpty
      <3>2. Orderly(link[s], 0, mark)
        BY <1>2 DEF InStep, mark, p
      <3>3. Orderly(inbox, 0, mark)
        BY <1>2, <3>1, <3>2, OrderlyTail DEF PartsOK, Step
      <3> QED
        BY <1>3, <3>1, <3>3
    <2>2. \A limit \in Expected(s, link[s])' : limit \in Expected(s, inbox)
      <3>1. Expected(s, link[s])' =
               {mark} \cup {link'[s][i].num : i \in {j \in 1 .. Len(link'[s]) : ~link'[s][j].dup}}
        BY <1>3 DEF Expected, mark, p
      <3>2. CASE link'[s] = inbox
        BY <3>1, <3>2 DEF Expected, mark, p
      <3>3. CASE link'[s] = <<>>
        BY <3>1, <3>3 DEF Expected, mark, p
      <3> QED
        BY <1>3, <3>2, <3>3
    <2>3. \A limit \in Expected(s, link[s])' : Within(session[s], limit)'
      BY <1>3, <1>5, <2>2 DEF Within
    <2>4. session'[Peer(s)].sender = mark
      BY <1>3 DEF mark, p
    <2> QED
      BY <1>3, <1>5, <2>1, <2>3, <2>4 DEF InStep
  <1>8. InStep(p)'
    <2>1. /\ Orderly(link[p], 0, floor)
          /\ ~session[p].sentReset /\ ~session[p].receivedReset
          /\ \A limit \in Expected(p, link[p]) : Within(session[p], limit)
      BY <1>1, <1>2 DEF InStep, floor
    <2>2. link[p] \in Seq(Sendable)
      BY <1>1, <1>2 DEF PartsOK
    <2>3. Orderly(link'[p], 0, e.sender)
      <3>1. Orderly(link[p] \o e.out, 0, e.sender)
        BY <1>3, <1>4, <2>1, <2>2, OrderlyConcat
      <3> QED
        BY <1>3, <3>1, OrderlyEmpty
    <2>4. Within(session[p], floor)
      BY <1>1, <2>1 DEF Expected, floor
    <2>5. /\ session[p].target \in Nat
          /\ \A q \in session[p].queue : Reach(q) \in Nat
      BY <1>1, <1>2, ReachIsNat DEF PartsOK, Working, Machine, Positive
    <2>6. ASSUME NEW limit \in Nat, floor <= limit
          PROVE  Within(session[p], limit)
      BY <1>4, <2>4, <2>5, <2>6 DEF Within
    <2>7. ASSUME NEW i \in 1 .. Len(link'[p]), ~link'[p][i].dup
          PROVE  Within(session[p], link'[p][i].num)
      <3>1. CASE \E j \in 1 .. Len(link[p]) : link'[p][i] = link[p][j]
        <4>1. link'[p][i].num \in Expected(p, link[p])
          BY <2>7, <3>1 DEF Expected
        <4> QED
          BY <2>1, <4>1
      <3>2. ASSUME NEW j \in 1 .. Len(e.out), link'[p][i] = e.out[j]
            PROVE  Within(session[p], link'[p][i].num)
        <4>1. floor <= e.out[j].num
          BY <1>4, <2>7, <3>2 DEF Orderly
        <4>2. e.out[j].num \in Nat
          BY <1>3, ElementOfSeq DEF Sendable, Message, Positive
        <4> QED
          BY <2>6, <3>2, <4>1, <4>2
      <3> QED
        BY <1>6, <3>1, <3>2
    <2>8. Within(session[p], e.sender)
      BY <1>3, <1>4, <2>6
    <2>9. Expected(p, link[p])' =
             {e.sender} \cup {link'[p][i].num : i \in {j \in 1 .. Len(link'[p]) : ~link'[p][j].dup}}
      BY <1>1, <1>3 DEF Expected
    <2>10. \A limit \in Expected(p, link[p])' : Within(session[p], limit)'
      BY <1>3, <2>7, <2>8, <2>9 DEF Within
    <2> QED
      BY <1>1, <1>3, <2>1, <2>3, <2>10 DEF InStep
  <1> QED
    BY <1>7, <1>8 DEF p

\* The messages of the applications keep their order.
LEMMA StepNumbered ==
    ASSUME SessionInv, NeverReset, NEW s \in Sides, NEW e, NEW inbox, NEW sends,
           Step(s, e, inbox, sends)
    PROVE  Numbered(s)' /\ Numbered(Peer(s))'
  <1> DEFINE p == Peer(s)
             old == session[s].stored
             new == session'[s].stored
  <1>1. p \in Sides /\ p # s /\ Peer(p) = s
    BY Peers
  <1>2. Numbered(s) /\ Numbered(p) /\ accepted[s] \in Nat
    BY <1>1 DEF SessionInv, NumbersOK, PartsOK
  <1>3. /\ session'[p] = session[p]
        /\ accepted'[s] = (IF sends THEN accepted[s] + 1 ELSE accepted[s])
        /\ accepted'[p] = accepted[p]
    <2>1. Stepped(s, e, inbox, sends)
      BY StepParts, Zenon
    <2> QED
      BY <2>1 DEF Stepped
  <1>4. /\ Sent(p)' = Sent(p)
        /\ \A n \in Sent(s) : n \in Nat /\ n < session[s].sender /\ new[n] = old[n]
        /\ \A n \in Sent(s)' :
              \/ n \in Sent(s)
              \/ n = session[s].sender /\ sends /\ new[n].arg = accepted[s] + 1
    BY StepStores
  <1>5. \A n \in Sent(s) : old[n].arg \in 1 .. accepted[s]
    BY <1>2 DEF Numbered
  <1>6. \A n, k \in Sent(s) : n < k => old[n].arg < old[k].arg
    BY <1>2 DEF Numbered
  <1>7. Numbered(p)'
    BY <1>1, <1>2, <1>3, <1>4 DEF Numbered
  <1> DEFINE sent == Sent(s)'
  <1> HIDE DEF old, new, sent, p
  <1>8. ASSUME NEW n \in sent
        PROVE  new[n].arg \in 1 .. accepted'[s]
    <2>1. CASE n \in Sent(s)
      BY <1>2, <1>3, <1>4, <1>5, <2>1
    <2>2. CASE n \notin Sent(s)
      BY <1>2, <1>3, <1>4, <2>2 DEF sent
    <2> QED
      BY <2>1, <2>2
  <1>9. ASSUME NEW n \in sent, NEW k \in sent, n < k
        PROVE  new[n].arg < new[k].arg
    <2>1. session[s].sender \in Nat
      BY DEF SessionInv, PartsOK, Working, Machine, Positive
    <2>2. n \in Sent(s)
      <3>1. n = session[s].sender => k \notin Sent(s) /\ k # session[s].sender
        BY <1>4, <1>9, <2>1
      <3> QED
        BY <1>4, <3>1 DEF sent
    <2>3. CASE k \in Sent(s)
      BY <1>4, <1>6, <1>9, <2>2, <2>3
    <2>4. CASE k \notin Sent(s)
      <3>1. new[k].arg = accepted[s] + 1
        BY <1>4, <2>4 DEF sent
      <3>2. new[n].arg \in 1 .. accepted[s]
        BY <1>4, <1>5, <2>2
      <3> QED
        BY <1>2, <3>1, <3>2
    <2> QED
      BY <2>3, <2>4
  <1>10. Numbered(s)'
    BY <1>8, <1>9 DEF Numbered, sent, new
  <1> QED
    BY <1>7, <1>10 DEF p

\* What is on its way and queued goes on telling what is stored.
LEMMA StepTold ==
    ASSUME SessionInv, NeverReset, NEW s \in Sides, NEW e, NEW inbox, NEW sends,
           Step(s, e, inbox, sends)
    PROVE  Told(s)' /\ Told(Peer(s))'
  <1> DEFINE p == Peer(s)
             floor == session[s].sender
             old == session[s].stored
  <1>1. p \in Sides /\ p # s /\ Peer(p) = s
    BY Peers
  <1>2. Told(s) /\ Told(p) /\ InStep(p) /\ PartsOK
    BY <1>1 DEF SessionInv, NumbersOK
  <1>3. /\ session'[p] = session[p] /\ session'[s].queue = e.queue
        /\ session'[s].stored = e.stored /\ session'[s].sender = e.sender
        /\ e.sender \in Nat
    <2>1. Stepped(s, e, inbox, sends)
      BY StepParts, Zenon
    <2> QED
      BY <2>1 DEF Stepped
  <1>4. /\ floor \in Nat /\ floor <= e.sender
        /\ \A n \in 1 .. floor - 1 : e.stored[n] = old[n]
        /\ \A i \in 1 .. Len(e.out) : Tells(e.out[i], e.stored, e.sender)
        /\ \A q \in e.queue : Tells(q, session[p].stored, session[p].sender)
    BY StepKeptParts
  <1>5. Told(s)'
    <2>1. ASSUME NEW i \in 1 .. Len(link'[s])
          PROVE  Tells(link'[s][i], session[p].stored, session[p].sender)
      <3>1. \E j \in 1 .. Len(link[s]) : link'[s][i] = link[s][j]
        BY StepInbox, Zenon
      <3> QED
        BY <1>2, <3>1 DEF Told
    <2> QED
      BY <1>3, <1>4, <2>1 DEF Told
  <1>6. ASSUME NEW m \in Sendable, Reach(m) <= floor, Tells(m, old, floor)
        PROVE  Tells(m, e.stored, e.sender)
    <2> HIDE DEF floor, old
    <2> QED
      BY <1>3, <1>4, <1>6, TellsLater
  <1>7. ASSUME NEW i \in 1 .. Len(link'[p])
        PROVE  Tells(link'[p][i], e.stored, e.sender)
    <2>1. \A k \in 1 .. Len(link'[p]) :
             \/ \E j \in 1 .. Len(link[p]) : link'[p][k] = link[p][j]
             \/ \E j \in 1 .. Len(e.out) : link'[p][k] = e.out[j]
      <3>1. OldOrNew(s, e)
        BY StepOutbox, Zenon
      <3> QED
        BY <3>1 DEF OldOrNew
    <2>2. ASSUME NEW j \in 1 .. Len(link[p])
          PROVE  Tells(link[p][j], e.stored, e.sender)
      <3>1. link[p][j] \in Sendable
        BY <1>1, <1>2, ElementOfSeq DEF PartsOK
      <3>2. Reach(link[p][j]) <= floor
        BY <1>1, <1>2 DEF InStep, Orderly
      <3>3. Tells(link[p][j], old, floor)
        BY <1>1, <1>2 DEF Told
      <3> QED
        BY <1>6, <3>1, <3>2, <3>3
    <2> QED
      BY <1>4, <2>1, <2>2
  <1>8. ASSUME NEW q \in session[p].queue
        PROVE  Tells(q, e.stored, e.sender)
    <2>1. q \in Sendable
      BY <1>1, <1>2 DEF PartsOK, Working, Machine
    <2>2. Reach(q) <= floor
      BY <1>1, <1>2 DEF InStep, Expected, Within
    <2>3. Tells(q, old, floor)
      BY <1>1, <1>2 DEF Told
    <2> QED
      BY <1>6, <2>1, <2>2, <2>3
  <1>9. Told(p)'
    BY <1>1, <1>3, <1>7, <1>8 DEF Told
  <1> QED
    BY <1>5, <1>9

\* What the application of s is given in a step, if anything: the message that
\* was expected, and marked if it had it before.
GivenId(s) == session[Peer(s)].stored[session[s].target].arg

Gives(s, e) ==
    /\ session[s].target \in Sent(Peer(s))
    /\ session[s].target < e.target \/ (e.queue = {} /\ link'[s] = <<>>)
    /\ GivenId(s) \in 1 .. accepted[Peer(s)] /\ LastId(s) <= GivenId(s)
    /\ LastId(s)' = GivenId(s) /\ delivered'[s] # <<>>
    /\ \E dup \in BOOLEAN :
          /\ e.got = <<[id |-> GivenId(s), dup |-> dup]>>
          /\ delivered' = [delivered EXCEPT ![s] = Append(@, [id |-> GivenId(s), dup |-> dup])]
          /\ LastId(s) = GivenId(s) => dup

LEMMA StepGives ==
    ASSUME SessionInv, NeverReset, NEW s \in Sides, NEW e, NEW inbox, NEW sends,
           Step(s, e, inbox, sends), e.got # <<>>
    PROVE  Gives(s, e)
  <1> DEFINE start == session[s].target
             id == session[Peer(s)].stored[start].arg
  <1>1. /\ start < e.target \/ (~e.open /\ e.queue = {})
        /\ start \in Sent(Peer(s)) /\ start \in Nat
        /\ \E dup \in BOOLEAN :
              /\ e.got = <<[id |-> id, dup |-> dup]>>
              /\ dup \/ ~Repeats(s)
    BY StepKeptParts
  <1>2. ~e.open => link'[s] = <<>>
    <2>1. Stepped(s, e, inbox, sends)
      BY StepParts, Zenon
    <2> QED
      BY <2>1 DEF Stepped
  <1>3. id \in 1 .. accepted[Peer(s)] /\ accepted[Peer(s)] \in Nat
    BY <1>1, Peers DEF SessionInv, PartsOK, NumbersOK, Numbered
  <1>4. LastId(s) <= id /\ (LastId(s) = id => Repeats(s))
    <2>1. Placed(s)
      BY DEF SessionInv, NumbersOK
    <2> QED
      BY <1>1, <2>1 DEF Placed, Repeats
  <1> HIDE DEF start, id
  <1>5. PICK dup \in BOOLEAN : e.got = <<[id |-> id, dup |-> dup]>> /\ (dup \/ ~Repeats(s))
    BY <1>1
  <1> DEFINE given == [id |-> id, dup |-> dup]
  <1>6. given \in Given /\ given.id = id
    BY <1>3 DEF Given
  <1>7. e.got = <<given>>
    BY <1>5
  <1> HIDE DEF given
  <1>8. /\ delivered' = [delivered EXCEPT ![s] = Append(@, given)]
        /\ delivered'[s] # <<>> /\ LastId(s)' = id
    BY <1>6, <1>7, StepLast
  <1> QED
    BY <1>1, <1>2, <1>3, <1>4, <1>5, <1>8 DEF start, id, given, Gives, GivenId

\* The position of s among the messages of its peer.
LEMMA StepPlacedHere ==
    ASSUME SessionInv, NeverReset, NEW s \in Sides, NEW e, NEW inbox, NEW sends,
           Step(s, e, inbox, sends)
    PROVE  Placed(s)'
  <1> DEFINE p == Peer(s)
             start == session[s].target
             arg(n) == session[p].stored[n].arg
             sent == Sent(p)
             last == LastId(s)
  <1>1. p \in Sides /\ p # s /\ Peer(p) = s
    BY Peers
  <1>2. Placed(s) /\ Numbered(p) /\ PartsOK
    BY <1>1 DEF SessionInv, NumbersOK
  <1>3. /\ session'[p] = session[p] /\ accepted'[p] = accepted[p]
        /\ session'[s].queue = e.queue /\ session'[s].target = e.target /\ e.target \in Nat
    <2>1. Stepped(s, e, inbox, sends)
      BY StepParts, Zenon
    <2> QED
      BY <2>1 DEF Stepped
  <1>4. /\ start \in Nat /\ start <= e.target
        /\ e.target = start /\ Repeats(s) => \A q \in e.queue : q.num = start => q.dup
    BY StepKeptParts
  <1>5. Sent(p)' = sent
    BY StepStores
  <1>6. /\ last <= accepted[p] /\ last \in Nat /\ accepted[p] \in Nat
        /\ (last = 0 <=> delivered[s] = <<>>)
        /\ \A n \in sent : /\ n > start => arg(n) > last
                           /\ n = start => arg(n) >= last
        /\ Repeats(s) => \A i \in 1 .. Len(link[s]) : link[s][i].num = start => link[s][i].dup
    BY <1>1, <1>2, LastIsNat DEF Placed, PartsOK
  <1>7. /\ \A n \in sent : n \in Nat /\ arg(n) \in Nat
        /\ \A n, k \in sent : n < k => arg(n) < arg(k)
    BY <1>2 DEF Numbered, Sent, Apps
  <1>8. Repeats(s) <=> start \in sent /\ arg(start) = last
    BY DEF Repeats
  <1>9. ASSUME NEW i \in 1 .. Len(link'[s])
        PROVE  \E j \in 1 .. Len(link[s]) : link'[s][i] = link[s][j]
    BY StepInbox, Zenon
  <1> DEFINE Goal ==
        /\ LastId(s)' <= accepted[p]
        /\ LastId(s)' = 0 <=> delivered'[s] = <<>>
        /\ \A n \in sent : /\ n > e.target => arg(n) > LastId(s)'
                           /\ n = e.target => arg(n) >= LastId(s)'
        /\ e.target \in sent /\ arg(e.target) = LastId(s)' =>
             /\ \A i \in 1 .. Len(link'[s]) : link'[s][i].num = e.target => link'[s][i].dup
             /\ \A q \in e.queue : q.num = e.target => q.dup
  <1>10. ASSUME Goal
         PROVE  Placed(s)'
    <2>1. Repeats(s)' <=> e.target \in sent /\ arg(e.target) = LastId(s)'
      BY <1>3, <1>5 DEF Repeats
    <2> QED
      BY <1>3, <1>5, <1>10, <2>1 DEF Placed
  <1>11. CASE e.got = <<>>
    <2>1. LastId(s)' = last /\ delivered'[s] = delivered[s]
      BY <1>11, StepLast
    <2> HIDE DEF p, start, arg, sent, last
    <2>2. \A n \in sent : /\ n > e.target => arg(n) > last
                          /\ n = e.target => arg(n) >= last
      <3> SUFFICES ASSUME NEW n \in sent
                   PROVE  /\ n > e.target => arg(n) > last
                          /\ n = e.target => arg(n) >= last
        OBVIOUS
      <3>1. n > e.target => n > start
        BY <1>3, <1>4, <1>7
      <3>2. n = e.target => n > start \/ n = start
        BY <1>3, <1>4, <1>7
      <3>3. arg(n) > last => arg(n) >= last
        BY <1>6, <1>7
      <3> QED
        BY <1>6, <3>1, <3>2, <3>3
    <2>3. e.target \in sent /\ arg(e.target) = last => e.target = start
      <3>1. e.target \in sent /\ e.target > start => arg(e.target) # last
        BY <1>6, <1>7
      <3> QED
        BY <1>3, <1>4, <3>1
    <2>4. ASSUME e.target \in sent, arg(e.target) = last
          PROVE  /\ \A i \in 1 .. Len(link'[s]) : link'[s][i].num = e.target => link'[s][i].dup
                 /\ \A q \in e.queue : q.num = e.target => q.dup
      <3>1. Repeats(s) /\ e.target = start
        BY <1>8, <2>3, <2>4
      <3> QED
        BY <1>4, <1>6, <1>9, <3>1
    <2> QED
      BY <1>6, <1>10, <2>1, <2>2, <2>4
  <1>12. CASE e.got # <<>>
    <2>1. /\ start \in sent
          /\ start < e.target \/ (e.queue = {} /\ link'[s] = <<>>)
          /\ arg(start) \in 1 .. accepted[p]
          /\ LastId(s)' = arg(start) /\ delivered'[s] # <<>>
      <3>1. Gives(s, e)
        BY <1>12, StepGives, Zenon
      <3> QED
        BY <3>1 DEF Gives, GivenId
    <2> HIDE DEF p, start, arg, sent, last
    <2>2. \A n \in sent : /\ n > e.target => arg(n) > arg(start)
                          /\ n = e.target => arg(n) >= arg(start)
      <3> SUFFICES ASSUME NEW n \in sent
                   PROVE  /\ n > e.target => arg(n) > arg(start)
                          /\ n = e.target => arg(n) >= arg(start)
        OBVIOUS
      <3>1. n > e.target => start < n
        BY <1>3, <1>4, <1>7
      <3>2. n = e.target => start < n \/ n = start
        BY <1>3, <1>4, <1>7
      <3>3. start < n => arg(start) < arg(n)
        BY <1>7, <2>1
      <3>4. arg(start) \in Nat /\ arg(n) \in Nat
        BY <1>7, <2>1
      <3> QED
        BY <3>1, <3>2, <3>3, <3>4
    <2>3. ASSUME e.target \in sent, arg(e.target) = arg(start)
          PROVE  e.queue = {} /\ link'[s] = <<>>
      <3>1. start < e.target => arg(start) < arg(e.target)
        BY <1>7, <2>1, <2>3
      <3>2. arg(start) \in Nat
        BY <1>7, <2>1
      <3> QED
        BY <2>1, <2>3, <3>1, <3>2
    <2>4. link'[s] = <<>> => \A i : i \notin 1 .. Len(link'[s])
      BY EmptySeq
    <2>5. LastId(s)' # 0 /\ LastId(s)' <= accepted[p]
      BY <1>6, <2>1
    <2> QED
      BY <1>10, <2>1, <2>2, <2>3, <2>4, <2>5
  <1> QED
    BY <1>11, <1>12

\* The position of the peer among the messages of s.
LEMMA StepPlacedThere ==
    ASSUME SessionInv, NeverReset, NEW s \in Sides, NEW e, NEW inbox, NEW sends,
           Step(s, e, inbox, sends)
    PROVE  Placed(Peer(s))'
  <1> DEFINE p == Peer(s)
             goal == session[p].target
             floor == session[s].sender
             old(n) == session[s].stored[n].arg
             new(n) == session'[s].stored[n].arg
             sent == Sent(s)
             now == Sent(s)'
             last == LastId(p)
  <1>1. p \in Sides /\ p # s /\ Peer(p) = s
    BY Peers
  <1>2. Placed(p) /\ InStep(p) /\ PartsOK
    BY <1>1 DEF SessionInv, NumbersOK
  <1>3. /\ session'[p] = session[p]
        /\ accepted'[s] = (IF sends THEN accepted[s] + 1 ELSE accepted[s])
        /\ accepted[s] \in Nat
        /\ delivered'[p] = delivered[p]
        /\ e.out \in Seq(Sendable)
    <2>1. Stepped(s, e, inbox, sends)
      BY StepParts, Zenon
    <2> QED
      BY <2>1 DEF Stepped, SessionInv, PartsOK
  <1>4. floor \in Nat /\ Orderly(e.out, floor, e.sender)
    BY StepKeptParts
  <1>5. /\ \A n \in sent : n \in Nat /\ n < floor /\ n \in now /\ new(n) = old(n)
        /\ \A n \in now : n \in sent \/ (n = floor /\ sends /\ new(n) = accepted[s] + 1)
    BY StepStores
  <1>6. LastId(p)' = last
    BY StepLast
  <1>7. /\ last <= accepted[s] /\ last \in Nat
        /\ (last = 0 <=> delivered[p] = <<>>)
        /\ \A n \in sent : /\ n > goal => old(n) > last
                           /\ n = goal => old(n) >= last
        /\ goal \in sent /\ old(goal) = last =>
              /\ \A i \in 1 .. Len(link[p]) : link[p][i].num = goal => link[p][i].dup
              /\ \A q \in session[p].queue : q.num = goal => q.dup
    BY <1>1, <1>2, LastIsNat DEF Placed, Repeats
  <1>8. OldOrNew(s, e)
    BY StepOutbox, Zenon
  <1>9. accepted'[s] \in Nat /\ accepted[s] <= accepted'[s]
    BY <1>3
  <1>10. Placed(p)' <=>
            /\ last <= accepted'[s]
            /\ last = 0 <=> delivered[p] = <<>>
            /\ \A n \in now : /\ n > goal => new(n) > last
                              /\ n = goal => new(n) >= last
            /\ goal \in now /\ new(goal) = last =>
                 /\ \A i \in 1 .. Len(link'[p]) : link'[p][i].num = goal => link'[p][i].dup
                 /\ \A q \in session[p].queue : q.num = goal => q.dup
    <2>1. Repeats(p)' <=> goal \in now /\ new(goal) = last
      BY <1>1, <1>3, <1>6 DEF Repeats
    <2> QED
      BY <1>1, <1>3, <1>6, <2>1 DEF Placed
  <1>11. \A i \in 1 .. Len(link'[p]) :
            \/ \E j \in 1 .. Len(link[p]) : link'[p][i] = link[p][j]
            \/ \E j \in 1 .. Len(e.out) : link'[p][i] = e.out[j]
    BY <1>8 DEF OldOrNew
  <1>12. \A j \in 1 .. Len(e.out) : ~e.out[j].dup => floor <= e.out[j].num
    BY <1>4 DEF Orderly
  <1>13. \A j \in 1 .. Len(e.out) : e.out[j].num \in Nat
    BY <1>3, ElementOfSeq DEF Sendable, Message, Positive
  <1> HIDE DEF p, goal, floor, old, new, sent, now, last
  <1>14. ASSUME NEW n \in now
         PROVE  /\ n > goal => new(n) > last
                /\ n = goal => new(n) >= last
    <2>1. CASE n \in sent
      BY <1>5, <1>7, <2>1
    <2>2. CASE n \notin sent
      BY <1>3, <1>5, <1>7, <2>2
    <2> QED
      BY <2>1, <2>2
  <1>15. ASSUME goal \in now, new(goal) = last
         PROVE  /\ \A i \in 1 .. Len(link'[p]) : link'[p][i].num = goal => link'[p][i].dup
                /\ \A q \in session[p].queue : q.num = goal => q.dup
    <2>1. goal \in sent
      <3>1. goal \notin sent => new(goal) = accepted[s] + 1
        BY <1>5, <1>15
      <3> QED
        BY <1>3, <1>7, <1>15, <3>1
    <2>2. old(goal) = last /\ goal < floor /\ goal \in Nat
      BY <1>5, <1>15, <2>1
    <2>3. \A j \in 1 .. Len(e.out) : e.out[j].num = goal => e.out[j].dup
      BY <1>4, <1>12, <1>13, <2>2
    <2> QED
      BY <1>7, <1>11, <2>1, <2>2, <2>3
  <1>16. last <= accepted'[s]
    BY <1>3, <1>7, <1>9
  <1>17. Placed(p)'
    BY <1>7, <1>10, <1>14, <1>15, <1>16
  <1> QED
    BY <1>17 DEF p

LEMMA StepKeeps ==
    ASSUME SessionInv, NEW s \in Sides, NEW e, NEW inbox, NEW sends,
           Step(s, e, inbox, sends)
    PROVE  SessionInv'
  <1>1. PartsOK' /\ NeverReset' = NeverReset
    <2>1. Stepped(s, e, inbox, sends)
      BY StepParts, Zenon
    <2> QED
      BY <2>1 DEF Stepped
  <1>2. ASSUME NeverReset
        PROVE  /\ InStep(s)' /\ InStep(Peer(s))' /\ Numbered(s)' /\ Numbered(Peer(s))'
               /\ Told(s)' /\ Told(Peer(s))' /\ Placed(s)' /\ Placed(Peer(s))'
    BY <1>2, StepNumbers, StepNumbered, StepTold, StepPlacedHere, StepPlacedThere, Zenon
  <1>3. Sides = {s, Peer(s)}
    BY Peers
  <1> QED
    BY <1>1, <1>2, <1>3 DEF SessionInv, NumbersOK

\* To the applications a step is one of ordered delivery: a message is accepted,
\* delivered or repeated, or nothing happens.
LEMMA StepDelivers ==
    ASSUME SessionInv, NeverReset, NEW s \in Sides, NEW e, NEW inbox, NEW sends,
           Step(s, e, inbox, sends)
    PROVE  [Delivery!Next]_(Delivery!vars)
  <1> DEFINE p == Peer(s)
  <1>1. s \in Delivery!Sides /\ Delivery!Peer(s) = p
    BY DEF Sides, Delivery!Sides, Peer, Delivery!Peer
  <1>2. /\ sends \in BOOLEAN /\ (sends => e.got = <<>>)
        /\ accepted' = IF sends THEN [accepted EXCEPT ![s] = @ + 1] ELSE accepted
    BY DEF Step
  <1>3. e.got = <<>> => delivered' = delivered
    BY StepLast
  <1>4. CASE sends
    <2>1. Delivery!Accept(s)
      BY <1>2, <1>3, <1>4 DEF Delivery!Accept
    <2> QED
      BY <1>1, <2>1 DEF Delivery!Next
  <1>5. CASE ~sends /\ e.got = <<>>
    BY <1>2, <1>3, <1>5 DEF Delivery!vars
  <1>6. CASE ~sends /\ e.got # <<>>
    <2> DEFINE id == GivenId(s)
    <2>1. /\ id \in 1 .. accepted[p] /\ LastId(s) <= id
          /\ \E dup \in BOOLEAN :
                /\ delivered' = [delivered EXCEPT ![s] = Append(@, [id |-> id, dup |-> dup])]
                /\ LastId(s) = id => dup
      <3>1. Gives(s, e)
        BY <1>6, StepGives, Zenon
      <3> QED
        BY <3>1, Zenon DEF Gives
    <2>2. LastId(s) \in Nat /\ accepted[p] \in Nat /\ (LastId(s) = 0 <=> delivered[s] = <<>>)
      BY LastIsNat, Peers DEF SessionInv, PartsOK, NumbersOK, Placed
    <2> HIDE DEF id
    <2>3. PICK dup \in BOOLEAN :
             /\ delivered' = [delivered EXCEPT ![s] = Append(@, [id |-> id, dup |-> dup])]
             /\ LastId(s) = id => dup
      BY <2>1
    <2>4. Delivery!HandOver(s, [id |-> id, dup |-> dup])
      BY <2>3, Zenon DEF Delivery!HandOver
    <2>5. accepted' = accepted
      BY <1>2, <1>6
    <2>6. CASE LastId(s) = id
      <3>1. dup = TRUE
        BY <2>3, <2>6
      <3>2. Delivery!HandOver(s, [id |-> LastId(s), dup |-> TRUE])
        BY <2>4, <2>6, <3>1
      <3>3. delivered[s] # <<>>
        BY <2>1, <2>2, <2>6
      <3>4. Delivery!Repeat(s)
        BY <2>5, <3>2, <3>3, Zenon DEF Delivery!Repeat, LastId
      <3> QED
        BY <1>1, <3>4 DEF Delivery!Next
    <2>7. CASE LastId(s) # id
      <3>1. id \in LastId(s) + 1 .. accepted[p]
        BY <2>1, <2>2, <2>7
      <3>2. \E i \in LastId(s) + 1 .. accepted[p], d \in BOOLEAN :
               Delivery!HandOver(s, [id |-> i, dup |-> d])
        BY <2>4, <3>1, Zenon
      <3>3. Delivery!Deliver(s)
        BY <1>1, <2>5, <3>2, Zenon DEF Delivery!Deliver, LastId
      <3> QED
        BY <1>1, <3>3 DEF Delivery!Next
    <2> QED
      BY <2>6, <2>7
  <1> QED
    BY <1>2, <1>4, <1>5, <1>6

\* What a side has counted and never given to its application.
LEMMA SkippedIs ==
    ASSUME NEW s \in Sides, NEW x
    PROVE  x \in Skipped(s) <=>
              /\ \E n \in Sent(Peer(s)) :
                    n < session[s].target /\ x = session[Peer(s)].stored[n].arg
              /\ \A d \in ToSet(delivered[s]) : x # d.id
  BY DEF Skipped, Sent, Apps

LEMMA ConcatContains ==
    ASSUME NEW a \in Seq(Given), NEW b \in Seq(Given)
    PROVE  /\ \A d \in ToSet(a) : d \in ToSet(a \o b)
           /\ \A d \in ToSet(b) : d \in ToSet(a \o b)
  <1>1. /\ Len(a) \in Nat /\ Len(b) \in Nat /\ Len(a \o b) = Len(a) + Len(b)
        /\ a \o b \in Seq(Given)
        /\ \A k \in 1 .. Len(a) + Len(b) :
              (a \o b)[k] = IF k <= Len(a) THEN a[k] ELSE b[k - Len(a)]
    BY ConcatProperties, LenProperties
  <1>2. DOMAIN a = 1 .. Len(a) /\ DOMAIN b = 1 .. Len(b) /\ DOMAIN (a \o b) = 1 .. Len(a \o b)
    BY <1>1, LenProperties
  <1> DEFINE c == a \o b
  <1> HIDE DEF c
  <1>3. ASSUME NEW i \in DOMAIN a
        PROVE  a[i] \in ToSet(c)
    <2>1. i \in DOMAIN c /\ c[i] = a[i]
      BY <1>1, <1>2 DEF c
    <2> QED
      BY <2>1 DEF ToSet
  <1>4. ASSUME NEW i \in DOMAIN b
        PROVE  b[i] \in ToSet(c)
    <2>1. Len(a) + i \in DOMAIN c /\ c[Len(a) + i] = b[i]
      <3>1. i \in 1 .. Len(b) /\ (Len(a) + i) - Len(a) = i /\ Len(a) + i \in 1 .. Len(a) + Len(b)
            /\ ~(Len(a) + i <= Len(a))
        BY <1>1, <1>2
      <3> QED
        BY <1>1, <1>2, <3>1 DEF c
    <2> QED
      BY <2>1 DEF ToSet
  <1> QED
    BY <1>3, <1>4 DEF ToSet, c

LEMMA StepSkips ==
    ASSUME SessionInv, NeverReset, NEW s \in Sides, NEW e, NEW inbox, NEW sends,
           Step(s, e, inbox, sends)
    PROVE  /\ Skipped(s)' \subseteq Skipped(s) \/ UncheckedCount(s)
           /\ Skipped(Peer(s))' \subseteq Skipped(Peer(s))
  <1> DEFINE p == Peer(s)
             start == session[s].target
             floor == session[s].sender
  <1>1. p \in Sides /\ p # s /\ Peer(p) = s
    BY Peers
  <1>2. /\ session'[p] = session[p]
        /\ session'[s].target = e.target /\ e.target \in Nat
        /\ delivered'[s] = delivered[s] \o e.got /\ e.got \in Seq(Given)
        /\ delivered'[p] = delivered[p]
    <2>1. Stepped(s, e, inbox, sends)
      BY StepParts, Zenon
    <2> QED
      BY <2>1 DEF Stepped
  <1>3. /\ Sent(p)' = Sent(p)
        /\ \A n \in Sent(s) : session'[s].stored[n] = session[s].stored[n]
        /\ \A n \in Sent(s)' : n \in Sent(s) \/ n = floor
    BY StepStores
  <1>4. /\ delivered[s] \in Seq(Given) /\ start \in Nat /\ floor \in Nat
        /\ session[p].target \in Nat
    BY <1>1 DEF SessionInv, PartsOK, Working, Machine, Positive
  <1>5. ASSUME ~UncheckedCount(s), NEW x \in Skipped(s)'
        PROVE  x \in Skipped(s)
    <2>1. PICK n \in Sent(p) : n < e.target /\ x = session[p].stored[n].arg
      BY <1>2, <1>3, <1>5 DEF Skipped, Sent, Apps
    <2>2. \A d \in ToSet(delivered'[s]) : x # d.id
      BY <1>5 DEF Skipped
    <2>3. /\ \A d \in ToSet(delivered[s]) : d \in ToSet(delivered'[s])
          /\ \A d \in ToSet(e.got) : d \in ToSet(delivered'[s])
      BY <1>2, <1>4, ConcatContains
    <2>4. n \in Nat
      BY DEF Sent, Apps
    <2>5. CASE n < start
      BY <1>5, <2>1, <2>2, <2>3, <2>5, SkippedIs
    <2>6. CASE start <= n
      <3>1. e.got # <<>> /\ n = start
        BY <1>5, <2>1, <2>6, StepKeptParts
      <3>2. \E dup \in BOOLEAN : e.got = <<[id |-> session[p].stored[start].arg, dup |-> dup]>>
        <4>1. Gives(s, e)
          BY <3>1, StepGives, Zenon
        <4> QED
          BY <4>1, Zenon DEF Gives, GivenId
      <3>3. \E d \in ToSet(e.got) : d.id = x
        BY <2>1, <3>1, <3>2 DEF ToSet
      <3> QED
        BY <2>2, <2>3, <3>3
    <2> QED
      BY <1>4, <2>4, <2>5, <2>6
  <1>6. ASSUME NEW x \in Skipped(p)'
        PROVE  x \in Skipped(p)
    <2>1. session[p].target <= floor
      <3>1. InStep(p) /\ floor \in Expected(p, link[p])
        BY <1>1 DEF SessionInv, NumbersOK, Expected
      <3> QED
        BY <3>1 DEF InStep, Within
    <2>2. PICK n \in Sent(s)' : n < session[p].target /\ x = session'[s].stored[n].arg
      BY <1>1, <1>2, <1>6 DEF Skipped, Sent, Apps
    <2>3. n \in Sent(s) /\ x = session[s].stored[n].arg
      BY <1>3, <1>4, <2>1, <2>2
    <2>4. \A d \in ToSet(delivered[p]) : x # d.id
      BY <1>2, <1>6 DEF Skipped
    <2> QED
      BY <1>1, <2>2, <2>3, <2>4, SkippedIs
  <1> QED
    BY <1>5, <1>6


-----------------------------------------------------------------------------
(***************************************************************************)
(* The steps of the system.  Either one side moves, or a user or a new     *)
(* connection sets flags and everyone idles.                               *)
(***************************************************************************)
Moves(s) == \E e, inbox, sends : Step(s, e, inbox, sends)

LEMMA AnyLimitFine ==
    ASSUME SessionInv, NEW s \in Sides, NEW inbox, NEW sends \in BOOLEAN,
           \/ inbox = <<>>
           \/ inbox = link[s]
           \/ link[s] # <<>> /\ inbox = Tail(link[s]),
           NEW limit \in Expected(s, inbox)
    PROVE  /\ limit \in Nat
           /\ Here(s, limit, sends) \in Context
           /\ Fine(session[s], Here(s, limit, sends))
  <1>1. PartsOK
    BY DEF SessionInv
  <1>2. limit \in Expected(s, link[s])
    BY <1>1, ExpectedOfLess
  <1>3. link[s] \in Seq(Sendable)
    BY <1>1 DEF PartsOK
  <1>4. limit \in Nat
    BY <1>1, <1>2, <1>3, ExpectedIsNat
  <1> QED
    BY <1>1, <1>2, <1>4, HereIsContext, RestsFine

\* A step in which the application of s sends nothing.
LEMMA MovesQuietly ==
    ASSUME SessionInv, NEW s \in Sides, NEW e, NEW inbox,
           \/ inbox = <<>>
           \/ inbox = link[s]
           \/ link[s] # <<>> /\ inbox = Tail(link[s]),
           \A limit \in Expected(s, inbox) : Fine(e, Here(s, limit, FALSE)),
           Becomes(s, e, inbox),
           accepted' = accepted, disturbed' \in {disturbed, disturbed + 1}
    PROVE  Moves(s)
  <1>1. disturbed' \in Nat
    BY DEF SessionInv, PartsOK
  <1>2. Step(s, e, inbox, FALSE)
    BY <1>1 DEF Step
  <1> QED
    BY <1>2 DEF Moves

LEMMA ReceiveMoves ==
    ASSUME SessionInv, NEW s \in Sides, Receive(s)
    PROVE  Moves(s)
  <1> DEFINE e == Process(session[s], Head(link[s]))
  <1>1. /\ Readable(s) /\ link[s] # <<>> /\ Becomes(s, e, Tail(link[s]))
        /\ accepted' = accepted /\ disturbed' = disturbed
    BY DEF Receive, Readable
  <1>2. ASSUME NEW limit \in Expected(s, Tail(link[s]))
        PROVE  Fine(e, Here(s, limit, FALSE))
    <2> DEFINE c == Here(s, limit, FALSE)
    <2>1. limit \in Nat /\ c \in Context /\ Fine(session[s], c)
      BY <1>1, AnyLimitFine
    <2>2. Arrived(session[s], Head(link[s]), c)
      BY <1>1, <2>1, HeadArrives
    <2> HIDE DEF c
    <2>3. Fine(e, c)
      BY <2>1, <2>2, ProcessFine
    <2> QED
      BY <2>3 DEF c
  <1> HIDE DEF e
  <1> QED
    BY <1>1, <1>2, MovesQuietly

\* A queued message with the number that comes next stands like one that arrives,
\* whether it has been taken out of the queue or is lost with it.
LEMMA QueuedArrives ==
    ASSUME SessionInv, NEW s \in Sides, Draining(session[s]),
           NEW limit \in Expected(s, link[s])
    PROVE  LET e == session[s]
               m == NextQueued(e)
               c == Here(s, limit, FALSE)
           IN  /\ m.num = e.target /\ Taken(e).target = e.target
               /\ Fine(Taken(e), c) /\ Known(m, c)
               /\ m.type # Logon => Arrived(Taken(e), m, c) /\ Arrived(e, m, c)
  <1> DEFINE e == session[s]
             m == NextQueued(e)
             taken == Taken(e)
             c == Here(s, limit, FALSE)
  <1>1. m \in e.queue /\ m.num = e.target
    BY Zenon DEF Draining, NextQueued
  <1>2. taken = [e EXCEPT !.queue = @ \ {m}]
    BY DEF Taken
  <1>3. e \in Working /\ e.got = <<>>
    BY DEF SessionInv, PartsOK
  <1>4. limit \in Nat /\ c \in Context /\ Fine(e, c)
    BY AnyLimitFine
  <1>5. c.start = e.target
    BY DEF Here
  <1> HIDE DEF e, m, taken, c
  <1>6. /\ taken \in Machine /\ taken.stored = e.stored
        /\ SameNumbers(e, taken)
        /\ taken.sentReset = e.sentReset
        /\ taken.receivedReset = e.receivedReset
    BY <1>2, <1>3 DEF Working, Machine, SameNumbers
  <1>7. taken \in Working
    BY <1>3, <1>6 DEF Working, SameNumbers
  <1>8. Fine(taken, c)
    BY <1>4, <1>6, <1>7, SameNumbersFine, FineParts
  <1>9. m \in Sendable /\ m.num \in Nat /\ taken.target = m.num
    BY <1>1, <1>3, <1>6 DEF Working, Machine, SameNumbers, Sendable, Message, Positive
  <1>10. c.keep => Reach(m) <= c.limit /\ Follows(e, c)
    BY <1>1, <1>4, FineParts
  <1>11. c.keep => /\ Tells(m, c.peer, c.used)
                   /\ c.again /\ m.num = c.start => m.dup
    BY <1>1, <1>5, <1>10 DEF Follows
  <1>12. taken.got = <<>> /\ taken.target = c.start
    BY <1>3, <1>5, <1>6 DEF SameNumbers
  <1>13. Known(m, c)
    BY <1>9, <1>10, <1>11 DEF Known
  <1>14. ASSUME m.type # Logon
         PROVE  Arrived(taken, m, c) /\ Arrived(e, m, c)
    <2>1. e.target = m.num /\ e.target <= m.num /\ ~(e.target < m.num)
      BY <1>1, <1>9
    <2> QED
      BY <1>3, <1>5, <1>9, <1>10, <1>11, <1>12, <1>14, <2>1 DEF Arrived
  <1> QED
    BY <1>1, <1>8, <1>9, <1>13, <1>14 DEF e, m, taken, c

LEMMA ThrowsMoves ==
    ASSUME SessionInv, NEW s \in Sides, NEW e, NEW m, NEW inbox, Throws(s, e, m, inbox),
           \/ inbox = link[s]
           \/ link[s] # <<>> /\ inbox = Tail(link[s]),
           \A limit \in Expected(s, inbox) :
               Fine(e, Here(s, limit, FALSE)) /\ Arrived(e, m, Here(s, limit, FALSE))
    PROVE  Moves(s)
  <1> DEFINE f == GenerateReject(GiveToApp(e, m), m)
  <1>1. /\ m.type = App /\ Accepts(e, m, TRUE, TRUE)
        /\ Becomes(s, f, inbox)
        /\ accepted' = accepted /\ disturbed' = disturbed + 1
    BY DEF Throws, Deliverable, Disturb
  <1>2. ASSUME NEW limit \in Expected(s, inbox)
        PROVE  Fine(f, Here(s, limit, FALSE))
    <2> DEFINE c == Here(s, limit, FALSE)
    <2>1. c \in Context
      BY AnyLimitFine
    <2>2. Fine(e, c) /\ Arrived(e, m, c)
      OBVIOUS
    <2> HIDE DEF c
    <2>3. Fine(f, c)
      BY <1>1, <2>1, <2>2, RejectGivenFine
    <2> QED
      BY <2>3 DEF c
  <1> HIDE DEF f
  <1> QED
    BY <1>1, <1>2, MovesQuietly

LEMMA ReceiveRejectedMoves ==
    ASSUME SessionInv, NEW s \in Sides, ReceiveRejected(s)
    PROVE  Moves(s)
  <1>1. /\ Readable(s) /\ link[s] # <<>>
        /\ Throws(s, session[s], Head(link[s]), Tail(link[s]))
    BY DEF ReceiveRejected, Readable
  <1>2. ASSUME NEW limit \in Expected(s, Tail(link[s]))
        PROVE  /\ Fine(session[s], Here(s, limit, FALSE))
               /\ Arrived(session[s], Head(link[s]), Here(s, limit, FALSE))
    BY <1>1, AnyLimitFine, HeadArrives
  <1> QED
    BY <1>1, <1>2, ThrowsMoves

LEMMA QueuedRejectedMoves ==
    ASSUME SessionInv, NEW s \in Sides, QueuedRejected(s)
    PROVE  Moves(s)
  <1> DEFINE e == Taken(session[s])
             m == NextQueued(session[s])
  <1>1. Draining(session[s]) /\ Throws(s, e, m, link[s])
    BY DEF QueuedRejected
  <1>2. m.type # Logon
    BY <1>1, TypesApart DEF Throws, Deliverable
  <1>3. ASSUME NEW limit \in Expected(s, link[s])
        PROVE  Fine(e, Here(s, limit, FALSE)) /\ Arrived(e, m, Here(s, limit, FALSE))
    BY <1>1, <1>2, QueuedArrives
  <1> HIDE DEF e, m
  <1> QED
    BY <1>1, <1>3, ThrowsMoves

LEMMA ProcessQueuedMoves ==
    ASSUME SessionInv, NEW s \in Sides, ProcessQueued(s)
    PROVE  Moves(s)
  <1> DEFINE m == NextQueued(session[s])
             taken == Taken(session[s])
             e == IF m.type \in {Logon, ResendRequest} THEN IncrTarget(taken) ELSE Process(taken, m)
  <1>1. /\ Draining(session[s])
        /\ Becomes(s, e, link[s])
        /\ accepted' = accepted /\ disturbed' = disturbed
    BY Zenon DEF ProcessQueued
  <1>2. ASSUME NEW limit \in Expected(s, link[s])
        PROVE  Fine(e, Here(s, limit, FALSE))
    <2> DEFINE c == Here(s, limit, FALSE)
    <2>1. limit \in Nat /\ c \in Context
      BY AnyLimitFine
    <2>2. /\ taken.target = m.num /\ Fine(taken, c) /\ Known(m, c)
          /\ m.type # Logon => Arrived(taken, m, c)
      BY <1>1, QueuedArrives
    <2> HIDE DEF c, m, taken
    <2>3. CASE m.type \in {Logon, ResendRequest}
      <3>1. m.type \notin {SequenceReset, App}
        BY <2>3, TypesApart
      <3>2. taken.target <= m.num
        BY <2>2 DEF Known, Sendable, Message, Positive
      <3>3. Fine(IncrTarget(taken), c)
        BY <2>1, <2>2, <3>1, <3>2, CountFine
      <3> QED
        BY <2>3, <3>3 DEF c
    <2>4. CASE m.type \notin {Logon, ResendRequest}
      <3>1. Fine(Process(taken, m), c)
        BY <2>1, <2>2, <2>4, ProcessFine
      <3> QED
        BY <2>4, <3>1 DEF c
    <2> QED
      BY <2>3, <2>4
  <1> HIDE DEF e
  <1> QED
    BY <1>1, <1>2, MovesQuietly

LEMMA SendAppMoves ==
    ASSUME SessionInv, NEW s \in Sides, SendApp(s)
    PROVE  Moves(s)
  <1> DEFINE e == SendRaw(session[s], App, accepted[s] + 1)
  <1>1. accepted[s] + 1 \in Nat /\ disturbed \in Nat /\ session[s].got = <<>>
    BY DEF SessionInv, PartsOK
  <1>2. /\ Becomes(s, e, link[s]) /\ accepted' = [accepted EXCEPT ![s] = @ + 1]
        /\ disturbed' = disturbed
    BY DEF SendApp
  <1>3. ASSUME NEW limit \in Expected(s, link[s])
        PROVE  /\ Fine(e, Here(s, limit, TRUE))
               /\ NeverReset => e.got = <<>>
    <2> DEFINE c == Here(s, limit, TRUE)
    <2>1. limit \in Nat /\ c \in Context /\ Fine(session[s], c)
      BY AnyLimitFine
    <2>2. c.keep = NeverReset /\ c.sends = TRUE /\ session[s].sender = c.floor /\ accepted[s] + 1 = c.id
      BY DEF Here
    <2> HIDE DEF c
    <2>3. Fine(e, c) /\ (c.keep => SameCounted(session[s], e))
      BY <1>1, <2>1, <2>2, SendAppFine
    <2>4. Fine(e, c) /\ (NeverReset => e.got = <<>>)
      BY <1>1, <2>2, <2>3 DEF SameCounted
    <2> QED
      BY <2>4 DEF c
  <1>4. session[Peer(s)].sender \in Expected(s, link[s])
    BY DEF Expected
  <1> HIDE DEF e
  <1>5. Step(s, e, link[s], TRUE)
    BY <1>1, <1>2, <1>3, <1>4 DEF Step
  <1> QED
    BY <1>5 DEF Moves

LEMMA TimersMove ==
    ASSUME SessionInv, NEW s \in Sides, Timers(s)
    PROVE  Moves(s)
  <1> DEFINE e1 == GenerateLogon(session[s])
             e2 == GenerateLogout(session[s])
             e3 == Disconnect(session[s])
             e4 == SendRaw(session[s], Heartbeat, 0)
  <1>1. /\ accepted' = accepted /\ disturbed' = disturbed
        /\ \/ Becomes(s, e1, link[s]) \/ Becomes(s, e2, link[s])
           \/ Becomes(s, e3, <<>>) \/ Becomes(s, e4, link[s])
    BY Zenon DEF Timers, SendLogon, SendLogout, LogoutTimeout, SendHeartbeat
  <1>2. ASSUME NEW limit \in Expected(s, link[s])
        PROVE  /\ Fine(e1, Here(s, limit, FALSE))
               /\ Fine(e2, Here(s, limit, FALSE))
               /\ Fine(e4, Here(s, limit, FALSE))
    <2>1. Here(s, limit, FALSE) \in Context /\ Fine(session[s], Here(s, limit, FALSE))
      BY AnyLimitFine
    <2> QED
      BY <2>1, GenerateLogonFine, GenerateLogoutFine, SendPlainFine
  <1>3. ASSUME NEW limit \in Expected(s, <<>>)
        PROVE  Fine(e3, Here(s, limit, FALSE))
    <2>1. Here(s, limit, FALSE) \in Context /\ Fine(session[s], Here(s, limit, FALSE))
      BY AnyLimitFine
    <2> QED
      BY <2>1, DisconnectFine
  <1> HIDE DEF e1, e2, e3, e4
  <1> QED
    BY <1>1, <1>2, <1>3, MovesQuietly

\* A session that is constructed anew on the store of the one that crashed; got
\* is what the application may have been given before.
LEMMA RestartedFine ==
    ASSUME NEW c \in Context, NEW s \in Sides, NEW e, Fine(e, c), e.got = <<>>,
           NEW f \in Working, f.resets = e.resets, f.sender = e.sender, f.target = e.target,
           \A n \in 1 .. e.sender - 1 : f.stored[n] = e.stored[n],
           NEW got \in Seq(Given),
           c.keep => \/ got = <<>>
                     \/ /\ c.start \in Coming(c)
                        /\ \E dup \in BOOLEAN :
                              /\ got = <<[id |-> c.peer[c.start].arg, dup |-> dup]>>
                              /\ dup \/ ~c.again
    PROVE  Fine([Restarted(s, f) EXCEPT !.got = got], c)
  <1> DEFINE g == [Restarted(s, f) EXCEPT !.got = got]
  <1>1. f \in Machine /\ f.sender - 1 <= Len(f.stored)
    BY DEF Working
  <1>2. <<>> \in Seq(Sendable) /\ <<>> \in Seq(Given)
    BY EmptySeq
  <1>3. /\ g \in Machine /\ g.stored = f.stored
        /\ g.resets = f.resets /\ g.sender = f.sender /\ g.target = f.target
        /\ g.queue = {} /\ g.out = <<>> /\ g.got = got
        /\ ~g.open /\ ~g.sentReset /\ ~g.receivedReset
    BY <1>1, <1>2 DEF Restarted, NewSession, Machine, NoRange
  <1> HIDE DEF g
  <1>4. g \in Working
    BY <1>1, <1>3 DEF Working
  <1>5. ASSUME c.keep
        PROVE  /\ Calm(g, c) /\ Orderly(g.out, c.floor, g.sender)
               /\ Truthful(g, c) /\ Follows(g, c)
    <2>1. /\ Calm(e, c) /\ Truthful(e, c) /\ Follows(e, c)
          /\ e.sender \in Nat /\ c.floor \in Nat /\ c.floor <= e.sender /\ c.floor >= 1
      <3>1. c.floor >= 1
        BY DEF Context, Positive
      <3>2. Calm(e, c)
        BY <1>5 DEF Fine
      <3> QED
        BY <1>5, <3>1, <3>2, FineParts
    <2>2. Calm(g, c)
      BY <1>3, <2>1 DEF Calm
    <2>3. Truthful(g, c)
      <3>1. \A n \in 1 .. c.floor - 1 : n \in 1 .. e.sender - 1
        BY <2>1
      <3>2. \A n \in c.floor .. e.sender - 1 : n \in 1 .. e.sender - 1
        BY <2>1
      <3>3. \A i : i \notin 1 .. Len(g.out)
        BY <1>3
      <3> QED
        BY <1>3, <2>1, <3>1, <3>2, <3>3 DEF Truthful
    <2>4. Follows(g, c)
      <3>1. Handed(g, c)
        BY <1>3, <1>5 DEF Handed
      <3> QED
        BY <1>3, <2>1, <3>1 DEF Follows
    <2> QED
      BY <1>3, <2>2, <2>3, <2>4, OrderlyEmpty
  <1>6. Fine(g, c)
    BY <1>3, <1>4, <1>5 DEF Fine
  <1> QED
    BY <1>6 DEF g

LEMMA StoreSetWorks ==
    ASSUME NEW e \in Working
    PROVE  LET f == StoreSet(e, App, 0)
           IN  /\ f \in Working
               /\ f.resets = e.resets /\ f.sender = e.sender /\ f.target = e.target
               /\ \A n \in 1 .. e.sender - 1 : f.stored[n] = e.stored[n]
  <1> DEFINE f == StoreSet(e, App, 0)
  <1>1. f \in Working
    BY PersistWorks DEF Types
  <1>2. f.resets = e.resets /\ f.sender = e.sender /\ f.target = e.target
    BY DEF StoreSet, Working, Machine
  <1>3. \A n \in 1 .. e.sender - 1 : f.stored[n] = e.stored[n]
    <2> DEFINE kept == SubSeq(e.stored, 1, e.sender - 1)
               last == <<[type |-> App, arg |-> 0]>>
    <2>1. /\ e.stored \in Seq(Stored) /\ e.sender \in Nat /\ e.sender >= 1
          /\ e.sender - 1 <= Len(e.stored) /\ Len(e.stored) \in Nat
      BY LenProperties DEF Working, Machine, Positive
    <2>2. f.stored = kept \o last
      BY DEF StoreSet, Working, Machine
    <2>3. /\ kept \in Seq(Stored) /\ Len(kept) = e.sender - 1
          /\ \A n \in 1 .. e.sender - 1 : kept[n] = e.stored[n]
      BY <2>1, SubSeqProperties
    <2>4. last \in Seq(Stored)
      BY DEF Stored, Types
    <2> HIDE DEF kept, last, f
    <2>5. \A n \in 1 .. Len(kept) : (kept \o last)[n] = kept[n]
      BY <2>3, <2>4, ConcatProperties, LenProperties
    <2> QED
      BY <2>2, <2>3, <2>5
  <1> QED
    BY <1>1, <1>2, <1>3

LEMMA RestartedGaveNothing ==
    ASSUME NEW s \in Sides, NEW f \in Working
    PROVE  Restarted(s, f) = [Restarted(s, f) EXCEPT !.got = <<>>]
  <1> DEFINE r == Restarted(s, f)
  <1>1. r \in Machine /\ r.got = <<>>
    BY EmptySeq DEF Restarted, NewSession, Working, Machine, NoRange
  <1> HIDE DEF r
  <1>2. r = [r EXCEPT !.got = <<>>]
    BY <1>1 DEF Machine
  <1> QED
    BY <1>2 DEF r

LEMMA FaultsMove ==
    ASSUME SessionInv, NEW s \in Sides, Faults(s)
    PROVE  Moves(s)
  <1> DEFINE now == session[s]
             m == IF Draining(now) THEN NextQueued(now) ELSE Head(link[s])
             half == StoreSet(now, App, 0)
             e1 == Disconnect(now)
             e2 == Restarted(s, now)
             e3 == Restarted(s, half)
             e4 == [Restarted(s, now) EXCEPT !.got = GiveToApp(now, m).got]
             Read == /\ Draining(now) \/ (Readable(s) /\ link[s] # <<>>)
                     /\ m.type = App /\ Accepts(now, m, TRUE, TRUE)
  <1>1. /\ accepted' = accepted /\ disturbed' \in {disturbed, disturbed + 1}
        /\ \/ Becomes(s, e1, <<>>) \/ Becomes(s, e2, <<>>) \/ Becomes(s, e3, <<>>)
           \/ Becomes(s, e4, <<>>) /\ Read
    BY DEF Faults, ConnectionLost, EndOfStream, Crash, CrashInSend, CrashInReceive,
           Deliverable, Disturb, Readable
  <1>2. now \in Working /\ now.out = <<>> /\ now.got = <<>> /\ <<>> \in Seq(Given)
    BY EmptySeq DEF SessionInv, PartsOK
  <1>3. /\ half \in Working
        /\ half.resets = now.resets /\ half.sender = now.sender /\ half.target = now.target
        /\ \A n \in 1 .. now.sender - 1 : half.stored[n] = now.stored[n]
    BY <1>2, StoreSetWorks
  <1>4. /\ e2 = [e2 EXCEPT !.got = <<>>]
        /\ e3 = [e3 EXCEPT !.got = <<>>]
    BY <1>2, <1>3, RestartedGaveNothing
  <1>5. ASSUME NEW limit \in Expected(s, <<>>)
        PROVE  /\ Fine(e1, Here(s, limit, FALSE))
               /\ Fine(e2, Here(s, limit, FALSE))
               /\ Fine(e3, Here(s, limit, FALSE))
               /\ Read => Fine(e4, Here(s, limit, FALSE))
    <2> DEFINE c == Here(s, limit, FALSE)
    <2>1. limit \in Nat /\ c \in Context /\ Fine(now, c)
      BY AnyLimitFine
    <2>2. ASSUME Read
          PROVE  Arrived(now, m, c)
      <3>1. \A inbox : limit \in Expected(s, inbox)
        BY ExpectedOfLess DEF SessionInv
      <3>2. CASE Draining(now)
        <4>1. m = NextQueued(now) /\ m.type # Logon
          BY <2>2, <3>2, TypesApart
        <4> QED
          BY <3>1, <3>2, <4>1, QueuedArrives
      <3>3. CASE ~Draining(now)
        BY <2>1, <2>2, <3>1, <3>3, HeadArrives
      <3> QED
        BY <3>2, <3>3
    <2> HIDE DEF now, m, half, c
    <2>3. Fine(e1, c)
      BY <2>1, DisconnectFine
    <2>4. Fine([Restarted(s, now) EXCEPT !.got = <<>>], c)
      BY <1>2, <2>1, RestartedFine
    <2>5. Fine([Restarted(s, half) EXCEPT !.got = <<>>], c)
      BY <1>2, <1>3, <2>1, RestartedFine
    <2>6. ASSUME Read
          PROVE  Fine(e4, c)
      <3> DEFINE got == GiveToApp(now, m).got
      <3>1. /\ got \in Seq(Given)
            /\ c.keep => /\ got = <<[id |-> m.arg, dup |-> m.dup]>>
                         /\ c.start \in Coming(c) /\ m.arg = c.peer[c.start].arg
                         /\ (m.dup \/ ~c.again)
        BY <2>1, <2>2, <2>6, GivenFine
      <3>2. m.dup \in BOOLEAN
        BY <2>2, <2>6 DEF Arrived, Sendable, Message
      <3> HIDE DEF got
      <3>3. c.keep => /\ c.start \in Coming(c)
                      /\ \E dup \in BOOLEAN :
                            /\ got = <<[id |-> c.peer[c.start].arg, dup |-> dup]>>
                            /\ dup \/ ~c.again
        BY <3>1, <3>2
      <3>4. Fine([Restarted(s, now) EXCEPT !.got = got], c)
        BY <1>2, <2>1, <3>1, <3>3, RestartedFine
      <3> QED
        BY <3>4 DEF got
    <2> QED
      BY <1>4, <2>3, <2>4, <2>5, <2>6 DEF c
  <1> HIDE DEF e1, e2, e3, e4, Read
  <1> QED
    BY <1>1, <1>5, MovesQuietly

\* The steps that leave the numbers, the queues and the stores alone, and at most
\* take away what is on its way.
Resting(e, f) ==
    /\ f.resets = e.resets /\ f.stored = e.stored
    /\ f.sender = e.sender /\ f.target = e.target
    /\ f.queue = e.queue /\ f.out = e.out /\ f.got = e.got
    /\ f.sentReset = e.sentReset /\ f.receivedReset = e.receivedReset

Idles ==
    /\ session' \in [Sides -> Working]
    /\ \A s \in Sides : Resting(session[s], session'[s])
    /\ link' \in [Sides -> Seq(Sendable)]
    /\ \A s \in Sides : link'[s] \in {link[s], <<>>}
    /\ accepted' = accepted /\ delivered' = delivered /\ disturbed' \in Nat

LEMMA ConnectIdles ==
    ASSUME SessionInv, Connect
    PROVE  Idles
  <1>1. /\ session' = [s \in Sides |-> [session[s] EXCEPT !.open = TRUE]]
        /\ link' = [s \in Sides |-> <<>>]
        /\ accepted' = accepted /\ delivered' = delivered
        /\ disturbed' \in {disturbed, disturbed + 1}
    BY DEF Connect, Disturb
  <1>2. disturbed' \in Nat
    BY <1>1 DEF SessionInv, PartsOK
  <1>3. ASSUME NEW s \in Sides
        PROVE  session'[s] \in Working /\ Resting(session[s], session'[s]) /\ link'[s] = <<>>
    <2>1. session[s] \in Working
      BY DEF SessionInv, PartsOK
    <2>2. session'[s] = [session[s] EXCEPT !.open = TRUE] /\ link'[s] = <<>>
      BY <1>1
    <2> QED
      BY <2>1, <2>2 DEF Working, Machine, Resting
  <1>4. session' \in [Sides -> Working] /\ link' \in [Sides -> Seq(Sendable)]
    BY <1>1, <1>3, EmptySeq
  <1> QED
    BY <1>1, <1>2, <1>3, <1>4 DEF Idles

LEMMA UserSwitchIdles ==
    ASSUME SessionInv, NEW s \in Sides, UserLogout(s) \/ UserLogon(s)
    PROVE  Idles
  <1>1. PICK on \in BOOLEAN :
          /\ session' = [session EXCEPT ![s].enabled = on]
          /\ link' = link /\ accepted' = accepted /\ delivered' = delivered
          /\ disturbed' \in {disturbed, disturbed + 1}
    BY DEF UserLogout, UserLogon, Disturb
  <1>2. /\ session \in [Sides -> Working] /\ link \in [Sides -> Seq(Sendable)]
        /\ disturbed' \in Nat
    BY <1>1 DEF SessionInv, PartsOK
  <1> DEFINE e == [session[s] EXCEPT !.enabled = on]
  <1>3. e \in Working /\ Resting(session[s], e)
    <2>1. session[s] \in Working
      BY <1>2
    <2> QED
      BY <2>1 DEF Working, Machine, Resting
  <1>4. session' = [session EXCEPT ![s] = e]
    BY <1>1, <1>2
  <1> HIDE DEF e
  <1>5. session' \in [Sides -> Working]
    BY <1>2, <1>3, <1>4
  <1>6. ASSUME NEW t \in Sides
        PROVE  Resting(session[t], session'[t])
    <2>1. CASE t = s
      BY <1>2, <1>3, <1>4, <2>1
    <2>2. CASE t # s
      BY <1>2, <1>4, <2>2 DEF Resting
    <2> QED
      BY <2>1, <2>2
  <1> QED
    BY <1>1, <1>2, <1>5, <1>6 DEF Idles

LEMMA StutterIdles ==
    ASSUME SessionInv, UNCHANGED vars
    PROVE  Idles
  BY DEF vars, SessionInv, PartsOK, Idles, Resting

LEMMA IdlesOrMoves ==
    ASSUME SessionInv, [Next]_vars
    PROVE  Idles \/ \E s \in Sides : Moves(s)
  <1>1. ASSUME NEW s \in Sides, Handles(s) \/ Timers(s) \/ Faults(s) \/ SendApp(s)
        PROVE  Moves(s)
    <2>1. Receive(s) => Moves(s)
      BY ReceiveMoves, Zenon
    <2>2. ReceiveRejected(s) => Moves(s)
      BY ReceiveRejectedMoves, Zenon
    <2>3. ProcessQueued(s) => Moves(s)
      BY ProcessQueuedMoves, Zenon
    <2>4. QueuedRejected(s) => Moves(s)
      BY QueuedRejectedMoves, Zenon
    <2>5. Timers(s) => Moves(s)
      BY TimersMove, Zenon
    <2>6. Faults(s) => Moves(s)
      BY FaultsMove, Zenon
    <2>7. SendApp(s) => Moves(s)
      BY SendAppMoves, Zenon
    <2> QED
      BY <1>1, <2>1, <2>2, <2>3, <2>4, <2>5, <2>6, <2>7, Zenon DEF Handles
  <1>2. ASSUME NEW s \in Sides, UserLogout(s) \/ UserLogon(s)
        PROVE  Idles
    BY <1>2, UserSwitchIdles, Zenon
  <1>3. Connect => Idles
    BY ConnectIdles, Zenon
  <1>4. UNCHANGED vars => Idles
    BY StutterIdles, Zenon
  <1> QED
    BY <1>1, <1>2, <1>3, <1>4, Zenon DEF Next, Users

LEMMA IdlesSame ==
    ASSUME SessionInv, Idles
    PROVE  /\ PartsOK' /\ NeverReset' = NeverReset
           /\ \A s \in Sides : /\ Sent(s)' = Sent(s)
                               /\ session'[s].stored = session[s].stored
                               /\ session'[s].sender = session[s].sender
                               /\ session'[s].target = session[s].target
                               /\ session'[s].queue = session[s].queue
                               /\ LastId(s)' = LastId(s)
                               /\ Skipped(s)' = Skipped(s)
  <1>1. PartsOK'
    BY DEF SessionInv, PartsOK, Idles, Resting
  <1>2. NeverReset' = NeverReset
    BY DEF NeverReset, Idles, Resting
  <1>3. ASSUME NEW s \in Sides
        PROVE  /\ session'[s].stored = session[s].stored
               /\ session'[s].sender = session[s].sender
               /\ session'[s].target = session[s].target
               /\ session'[s].queue = session[s].queue
    BY DEF Idles, Resting
  <1>4. ASSUME NEW s \in Sides
        PROVE  Sent(s)' = Sent(s) /\ LastId(s)' = LastId(s) /\ Skipped(s)' = Skipped(s)
    <2>1. Peer(s) \in Sides /\ delivered' = delivered
      BY Peers DEF Idles
    <2>2. Sent(s)' = Sent(s)
      BY <1>3 DEF Sent
    <2>3. LastId(s)' = LastId(s)
      BY <2>1 DEF LastId, Delivery!LastDelivered
    <2>4. Skipped(s)' = Skipped(s)
      BY <1>3, <2>1 DEF Skipped
    <2> QED
      BY <2>2, <2>3, <2>4
  <1> QED
    BY <1>1, <1>2, <1>3, <1>4

LEMMA IdlesKeeps ==
    ASSUME SessionInv, Idles
    PROVE  SessionInv'
  <1>1. /\ PartsOK' /\ NeverReset' = NeverReset
        /\ \A s \in Sides : /\ Sent(s)' = Sent(s)
                            /\ session'[s].stored = session[s].stored
                            /\ session'[s].sender = session[s].sender
                            /\ session'[s].target = session[s].target
                            /\ session'[s].queue = session[s].queue
                            /\ LastId(s)' = LastId(s)
    BY IdlesSame
  <1>2. ASSUME NeverReset, NEW s \in Sides
        PROVE  InStep(s)' /\ Numbered(s)' /\ Told(s)' /\ Placed(s)'
    <2> DEFINE p == Peer(s)
    <2>1. InStep(s) /\ Numbered(s) /\ Told(s) /\ Placed(s) /\ p \in Sides
      BY <1>2, Peers DEF SessionInv, NumbersOK
    <2>2. /\ link'[s] \in {link[s], <<>>} /\ accepted' = accepted /\ delivered' = delivered
          /\ ~session[s].sentReset => ~session'[s].sentReset
          /\ ~session[s].receivedReset => ~session'[s].receivedReset
      BY DEF Idles, Resting
    <2>3. Len(<<>>) = 0
      BY EmptySeq
    <2>4. \A i \in 1 .. Len(link'[s]) : i \in 1 .. Len(link[s]) /\ link'[s][i] = link[s][i]
      BY <2>2, <2>3
    <2>5. InStep(s)'
      <3>1. Orderly(link'[s], 0, session[p].sender)
        BY <2>1, <2>2, OrderlyEmpty DEF InStep
      <3>2. Expected(s, link[s])' =
               {session[p].sender} \cup
                  {link'[s][i].num : i \in {j \in 1 .. Len(link'[s]) : ~link'[s][j].dup}}
        BY <1>1, <2>1 DEF Expected
      <3>3. Expected(s, link[s])' \subseteq Expected(s, link[s])
        <4>1. ASSUME NEW x \in Expected(s, link[s])'
              PROVE  x \in Expected(s, link[s])
          <5>1. CASE x = session[p].sender
            BY <5>1 DEF Expected
          <5>2. CASE \E i \in 1 .. Len(link'[s]) : ~link'[s][i].dup /\ x = link'[s][i].num
            BY <2>4, <5>2 DEF Expected
          <5> QED
            BY <3>2, <4>1, <5>1, <5>2
        <4> QED
          BY <4>1
      <3>4. \A limit \in Expected(s, link[s]) : Within(session'[s], limit)
        BY <1>1, <2>1 DEF InStep, Within
      <3> QED
        BY <1>1, <2>1, <2>2, <3>1, <3>3, <3>4 DEF InStep, Within
    <2>6. Numbered(s)'
      BY <1>1, <2>1, <2>2 DEF Numbered
    <2>7. Told(s)'
      BY <1>1, <2>1, <2>4 DEF Told
    <2>8. Placed(s)'
      <3>1. Repeats(s)' = Repeats(s)
        BY <1>1, <2>1 DEF Repeats
      <3> QED
        BY <1>1, <2>1, <2>2, <2>4, <3>1 DEF Placed
    <2> QED
      BY <2>5, <2>6, <2>7, <2>8
  <1> QED
    BY <1>1, <1>2 DEF SessionInv, NumbersOK

LEMMA SessionInvInit == Init => SessionInv
  <1> SUFFICES ASSUME Init
               PROVE  SessionInv
    OBVIOUS
  <1>1. PICK c \in Configs : session = [s \in Sides |-> NewSession(s, c[s], <<>>, 1, 1)]
    BY DEF Init
  <1>2. c \in [Sides -> SUBSET ResetEvents]
    BY ConfigsAssumption
  <1>3. <<>> \in Seq(Sendable) /\ <<>> \in Seq(Given) /\ <<>> \in Seq(Stored) /\ Len(<<>>) = 0
    BY EmptySeq
  <1>4. ASSUME NEW s \in Sides
        PROVE  /\ session[s] \in Working
               /\ session[s].out = <<>> /\ session[s].got = <<>>
               /\ session[s].sender = 1 /\ session[s].target = 1
               /\ session[s].queue = {}
               /\ ~session[s].sentReset /\ ~session[s].receivedReset
    <2> DEFINE n == NewSession(s, c[s], <<>>, 1, 1)
    <2>1. 1 \in Positive /\ c[s] \in SUBSET ResetEvents
      BY <1>2 DEF Positive
    <2>2. /\ n \in Machine /\ n.stored = <<>>
          /\ n.out = <<>> /\ n.got = <<>>
          /\ n.sender = 1 /\ n.target = 1 /\ n.queue = {}
          /\ ~n.sentReset /\ ~n.receivedReset
      BY <1>3, <2>1 DEF NewSession, Machine, NoRange
    <2>3. session[s] = n
      BY <1>1
    <2> HIDE DEF n
    <2>4. n \in Working
      BY <1>3, <2>2 DEF Working
    <2> QED
      BY <2>2, <2>3, <2>4
  <1>5. PartsOK
    <2>1. DOMAIN session = Sides /\ session = [s \in Sides |-> session[s]]
      BY <1>1
    <2>2. session \in [Sides -> Working]
      BY <1>4, <2>1
    <2> QED
      BY <1>3, <1>4, <2>2 DEF PartsOK, Init
  <1>6. ASSUME NEW s \in Sides
        PROVE  InStep(s) /\ Numbered(s) /\ Told(s) /\ Placed(s)
    <2>1. /\ link[s] = <<>> /\ Peer(s) \in Sides
          /\ accepted[Peer(s)] = 0 /\ delivered[s] = <<>>
      BY Peers DEF Init
    <2>2. Expected(s, link[s]) = {1}
      BY <1>3, <1>4, <2>1 DEF Expected
    <2>3. InStep(s)
      BY <1>4, <2>1, <2>2, OrderlyEmpty DEF InStep, Within
    <2>4. \A t \in Sides : Sent(t) = {}
      BY <1>4 DEF Sent, Apps
    <2>5. Numbered(s)
      BY <2>4 DEF Numbered
    <2>6. \A i : i \notin 1 .. Len(link[s])
      BY <1>3, <2>1
    <2>7. Told(s)
      BY <1>4, <2>6 DEF Told
    <2>8. LastId(s) = 0
      BY <2>1 DEF LastId, Delivery!LastDelivered
    <2>9. Placed(s)
      BY <2>1, <2>4, <2>8 DEF Placed, Repeats
    <2> QED
      BY <2>3, <2>5, <2>7, <2>9
  <1> QED
    BY <1>5, <1>6 DEF SessionInv, NumbersOK

LEMMA SessionInvNext == SessionInv /\ [Next]_vars => SessionInv'
  <1> SUFFICES ASSUME SessionInv, [Next]_vars
               PROVE  SessionInv'
    OBVIOUS
  <1>1. Idles => SessionInv'
    BY IdlesKeeps, Zenon
  <1>2. ASSUME NEW s \in Sides, Moves(s)
        PROVE  SessionInv'
    <2>1. PICK e, inbox, sends : Step(s, e, inbox, sends)
      BY <1>2 DEF Moves
    <2> QED
      BY <2>1, StepKeeps, Zenon
  <1>3. Idles \/ \E s \in Sides : Moves(s)
    BY IdlesOrMoves, Zenon
  <1> QED
    BY <1>1, <1>2, <1>3, Zenon

\* The configuration is for ever.
LEMMA NeverResetStays ==
    ASSUME SessionInv, [Next]_vars
    PROVE  NeverReset' = NeverReset
  <1>1. Idles => NeverReset' = NeverReset
    BY IdlesSame
  <1>2. ASSUME NEW s \in Sides, Moves(s)
        PROVE  NeverReset' = NeverReset
    <2>1. PICK e, inbox, sends : Step(s, e, inbox, sends)
      BY <1>2 DEF Moves
    <2>2. Stepped(s, e, inbox, sends)
      BY <2>1, StepParts, Zenon
    <2> QED
      BY <2>2 DEF Stepped
  <1>3. Idles \/ \E s \in Sides : Moves(s)
    BY IdlesOrMoves, Zenon
  <1> QED
    BY <1>1, <1>2, <1>3, Zenon

LEMMA NextDelivers ==
    ASSUME SessionInv, NeverReset, [Next]_vars
    PROVE  [Delivery!Next]_(Delivery!vars)
  <1>1. Idles => [Delivery!Next]_(Delivery!vars)
    BY DEF Idles, Delivery!vars
  <1>2. ASSUME NEW s \in Sides, Moves(s)
        PROVE  [Delivery!Next]_(Delivery!vars)
    <2>1. PICK e, inbox, sends : Step(s, e, inbox, sends)
      BY <1>2 DEF Moves
    <2> QED
      BY <2>1, StepDelivers, Zenon
  <1>3. Idles \/ \E s \in Sides : Moves(s)
    BY IdlesOrMoves, Zenon
  <1> QED
    BY <1>1, <1>2, <1>3, Zenon

LEMMA NextSkips ==
    ASSUME SessionInv, NeverReset, [Next]_vars, NEW t \in Sides
    PROVE  Skipped(t)' \subseteq Skipped(t) \/ UncheckedCount(t)
  <1>1. Idles => Skipped(t)' \subseteq Skipped(t)
    BY IdlesSame
  <1>2. ASSUME NEW s \in Sides, Moves(s)
        PROVE  Skipped(t)' \subseteq Skipped(t) \/ UncheckedCount(t)
    <2>1. PICK e, inbox, sends : Step(s, e, inbox, sends)
      BY <1>2 DEF Moves
    <2>2. /\ Skipped(s)' \subseteq Skipped(s) \/ UncheckedCount(s)
          /\ Skipped(Peer(s))' \subseteq Skipped(Peer(s))
      BY <2>1, StepSkips, Zenon
    <2>3. t = s \/ t = Peer(s)
      BY Peers
    <2> QED
      BY <2>2, <2>3
  <1>3. Idles \/ \E s \in Sides : Moves(s)
    BY IdlesOrMoves, Zenon
  <1> QED
    BY <1>1, <1>2, <1>3, Zenon

-----------------------------------------------------------------------------
(***************************************************************************)
(* The theorems                                                            *)
(***************************************************************************)
LEMMA SessionInvHolds == Spec => []SessionInv
  BY SessionInvInit, SessionInvNext, PTL DEF Spec

LEMMA PartsAreTyped == PartsOK => SessionTypeOK
  <1> SUFFICES ASSUME PartsOK
               PROVE  SessionTypeOK
    OBVIOUS
  <1>1. Sendable \subseteq Message
    BY DEF Sendable
  <1>2. ASSUME NEW s \in Sides
        PROVE  session[s] \in SessionType /\ link[s] \in Seq(Message)
    <2>1. session[s] \in Machine /\ session[s].out = <<>> /\ session[s].got = <<>>
      BY DEF PartsOK, Working
    <2>2. session[s] \in SessionType
      BY <1>1, <2>1 DEF Machine, SessionType
    <2>3. link[s] \in Seq(Sendable)
      BY DEF PartsOK
    <2>4. link[s] \in Seq(Message)
      BY <1>1, <2>3, SeqMonotonic
    <2> QED
      BY <2>2, <2>4
  <1>3. session \in [Sides -> SessionType] /\ link \in [Sides -> Seq(Message)]
    BY <1>2 DEF PartsOK
  <1> QED
    BY <1>3 DEF PartsOK, SessionTypeOK, Given

\* Every part of the state has its type, whatever the two sides reset and
\* whatever is lost or crashes: Session.cpp never leaves a number at zero, and
\* collects nothing that it does not send or hand over.
THEOREM SessionTypesHold == Spec => []SessionTypeOK
  <1>1. SessionInv => SessionTypeOK
    BY PartsAreTyped DEF SessionInv
  <1> QED
    BY <1>1, SessionInvHolds, PTL

\* While numbers are never reset, no session expects a number that the other
\* end has not used yet, across gaps, resends, gap fills, logouts, broken
\* connections and crashes.
THEOREM NeverAheadHolds == Spec => []NeverAhead
  <1>1. SessionInv => NeverAhead
    <2> SUFFICES ASSUME SessionInv, NeverReset, NEW s \in Sides
                 PROVE  session[s].target <= session[Peer(s)].sender
      BY DEF NeverAhead
    <2>1. session[Peer(s)].sender \in Expected(s, link[s])
      BY DEF Expected
    <2> QED
      BY <2>1 DEF SessionInv, NumbersOK, InStep, Within
  <1> QED
    BY <1>1, SessionInvHolds, PTL

\* Then no message that arrives is found too low, except one that is marked as
\* sent again, which doTargetTooLow forgives: Session::verify never ends a
\* session for a number it has counted.
THEOREM OnlyResentIsTooLow ==
    Spec => [](NeverReset => \A s \in Sides : \A i \in 1 .. Len(link[s]) :
                                TooLow(session[s], link[s][i]) => link[s][i].dup)
  <1> DEFINE Forgiven == NeverReset => \A s \in Sides : \A i \in 1 .. Len(link[s]) :
                                          TooLow(session[s], link[s][i]) => link[s][i].dup
  <1>1. SessionInv => Forgiven
    <2> SUFFICES ASSUME SessionInv, NeverReset, NEW s \in Sides, NEW i \in 1 .. Len(link[s]),
                        ~link[s][i].dup
                 PROVE  ~TooLow(session[s], link[s][i])
      OBVIOUS
    <2>1. link[s][i].num \in Expected(s, link[s])
      BY DEF Expected
    <2>2. session[s].target <= link[s][i].num
      BY <2>1 DEF SessionInv, NumbersOK, InStep, Within
    <2>3. link[s][i] \in Sendable /\ session[s] \in Machine
      BY ElementOfSeq DEF SessionInv, PartsOK, Working
    <2> QED
      BY <2>2, <2>3 DEF TooLow, Sendable, Message, Machine, Positive
  <1> HIDE DEF Forgiven
  <1>2. Spec => []Forgiven
    BY <1>1, SessionInvHolds, PTL
  <1> QED
    BY <1>2 DEF Forgiven


\* While numbers are never reset, two sessions do what ordered delivery asks:
\* across gaps, resends, gap fills, logouts, broken connections and crashes the
\* application is given what was sent, in the order in which it was accepted,
\* and a message twice only in direct succession and marked as sent again.
THEOREM ImplementsDeliveryHolds == Spec => (NeverReset => ImplementsDelivery)
  <1>1. Init => Delivery!Init
    BY DEF Init, Delivery!Init, Sides, Delivery!Sides
  <1>2. SessionInv /\ NeverReset /\ [Next]_vars => [Delivery!Next]_(Delivery!vars)
    BY NextDelivers, Zenon
  <1>3. SessionInv /\ NeverReset /\ [Next]_vars => NeverReset'
    BY NeverResetStays, Zenon
  <1> QED
    BY <1>1, <1>2, <1>3, SessionInvHolds, PTL DEF Spec, ImplementsDelivery, Delivery!Spec

\* Then the expected number moves on over a message of the application only with
\* that message, or when nextLogout or nextReject counts a number that arrived
\* ahead of a gap.
THEOREM SkipsOnlyUncheckedHolds == Spec => SkipsOnlyUnchecked
  <1>1. SessionInv /\ [Next]_vars =>
           [NeverReset => \A s \in Sides : Skipped(s)' \subseteq Skipped(s) \/ UncheckedCount(s)]_vars
    BY NextSkips, Zenon
  <1> QED
    BY <1>1, SessionInvHolds, PTL DEF Spec, SkipsOnlyUnchecked

=============================================================================
