---------------------------- MODULE FixSession ----------------------------
(***************************************************************************)
(* Two QuickFIX sessions, an initiator and an acceptor, over connections   *)
(* that may break: QuickFIX/src/C++/Session.cpp and SessionState.h.  Both   *)
(* number what they send, store it before sending it, queue what arrives   *)
(* ahead of a gap and ask for the missing messages again.                  *)
(*                                                                         *)
(* A handler is an operator from a session and a message to the session it *)
(* leaves; what it sends and hands to the application is collected in out   *)
(* and got, empty between the steps.  Times are left out: a timer may act   *)
(* whenever the flags it reads allow it.                                   *)
(***************************************************************************)
EXTENDS Integers, Sequences, FiniteSets, SequencesExt

CONSTANTS
    Configs,         \* choices of the events on which each side resets its numbers
    MaxSends,        \* messages of the two applications in all
    MaxDisturbances  \* broken connections, crashes, logouts asked for by the
                     \* users and messages refused by an application, in all

Sides == {"initiator", "acceptor"}

Peer(s) == IF s = "initiator" THEN "acceptor" ELSE "initiator"

ResetEvents == {"logon", "logout", "disconnect"}

ASSUME ConfigsAssumption == Configs \subseteq [Sides -> SUBSET ResetEvents]
ASSUME BoundsAssumption ==
    /\ MaxSends \in Nat
    /\ MaxDisturbances \in Nat

VARIABLES
    session,     \* the two Session objects with their stores
    link,        \* link[s]: what is on its way to s
    accepted,    \* how many messages each application has sent
    delivered,   \* what each application was given
    disturbed    \* how many disturbances there have been

vars == <<session, link, accepted, delivered, disturbed>>

(***************************************************************************)
(* Messages.  arg is the payload of an application message, the BeginSeqNo *)
(* of a resend request, the NewSeqNo of a gap fill, 1 for a logon with     *)
(* ResetSeqNumFlag; dup is PossDupFlag.                                    *)
(***************************************************************************)
App == "App"
Logon == "Logon"
Logout == "Logout"
Heartbeat == "Heartbeat"
ResendRequest == "ResendRequest"
SequenceReset == "SequenceReset"
Reject == "Reject"

Types == {App, Logon, Logout, Heartbeat, ResendRequest, SequenceReset, Reject}

Positive == Nat \ {0}

Message == [type : Types, num : Positive, dup : BOOLEAN, arg : Nat]
Stored == [type : Types, arg : Nat]

NoRange == [first |-> 0, second |-> 0]

(***************************************************************************)
(* The state of a session: its store, which survives a crash, and the rest *)
(***************************************************************************)
NewSession(s, resets, stored, sender, target) ==
    [initiate |-> s = "initiator", resets |-> resets,
     stored |-> stored, sender |-> sender, target |-> target,
     open |-> FALSE, enabled |-> TRUE,
     receivedLogon |-> FALSE, sentLogon |-> FALSE, sentLogout |-> FALSE,
     sentReset |-> FALSE, receivedReset |-> FALSE,
     queue |-> {}, range |-> NoRange, out |-> <<>>, got |-> <<>>]

SessionType ==
    [initiate : BOOLEAN, resets : SUBSET ResetEvents,
     stored : Seq(Stored), sender : Positive, target : Positive,
     open : BOOLEAN, enabled : BOOLEAN,
     receivedLogon : BOOLEAN, sentLogon : BOOLEAN, sentLogout : BOOLEAN,
     sentReset : BOOLEAN, receivedReset : BOOLEAN,
     queue : SUBSET Message, range : [first : Nat, second : Nat],
     out : {<<>>}, got : {<<>>}]

LoggedOn(e) == e.receivedLogon /\ e.sentLogon

ResendRequested(e) == e.range # NoRange

ShouldSendReset(e) == e.resets # {} /\ e.sender = 1 /\ e.target = 1

\* Mutant: the numbers start at zero.
ResetStoreToZero(e) == [e EXCEPT !.stored = <<>>, !.sender = 0, !.target = 0]

ResetStore(e) == [e EXCEPT !.stored = <<>>, !.sender = 1, !.target = 1]

IncrTarget(e) == [e EXCEPT !.target = @ + 1]

(***************************************************************************)
(* Sending                                                                 *)
(***************************************************************************)

Transmit(e, msgs) == IF e.open THEN [e EXCEPT !.out = @ \o msgs] ELSE e

\* MessageStore::set: a number that is taken is overwritten.
StoreSet(e, type, arg) ==
    [e EXCEPT !.stored = SubSeq(@, 1, e.sender - 1) \o <<[type |-> type, arg |-> arg]>>]

Persist(e, type, arg) == [StoreSet(e, type, arg) EXCEPT !.sender = @ + 1]

\* A Logon with ResetSeqNumFlag clears the store of its sender, unless it
\* answers one.
MarkReset(e, type, arg) ==
    IF type = Logon /\ ~e.receivedReset
    THEN [IF arg = 1 THEN ResetStore(e) ELSE e EXCEPT !.sentReset = (arg = 1)]
    ELSE e

SendRaw(e, type, arg) ==
    LET marked == MarkReset(e, type, arg)
        kept == Persist(marked, type, arg)
    IN  IF type \in {Logon, Logout, ResendRequest} \/ LoggedOn(e)
        THEN Transmit(kept, <<[type |-> type, num |-> marked.sender, dup |-> FALSE, arg |-> arg]>>)
        ELSE kept

GenerateLogon(e) ==
    LET fresh == IF "logon" \in e.resets THEN ResetStore(e) ELSE e
        flag == IF ShouldSendReset(fresh) THEN 1 ELSE 0
    IN  SendRaw([fresh EXCEPT !.sentLogon = TRUE], Logon, flag)

AnswerLogon(e) ==
    [SendRaw(e, Logon, IF e.receivedReset THEN 1 ELSE 0) EXCEPT !.sentLogon = TRUE]

GenerateLogout(e) == [SendRaw(e, Logout, 0) EXCEPT !.sentLogout = TRUE]

\* Without a received logon the code throws; nothing it would reject comes before.
GenerateReject(e, m) ==
    SendRaw(IF m.type \notin {Logon, SequenceReset} /\ m.num = e.target THEN IncrTarget(e) ELSE e,
            Reject, 0)

GenerateResendRequest(e, m) ==
    [SendRaw(e, ResendRequest, e.target)
        EXCEPT !.range = [first |-> e.target, second |-> m.num - 1]]

\* What answers a request for all messages from begin on: application
\* messages again, each run of other messages as one gap fill.
Resent(e, begin, flag) ==
    LET last == e.sender - 1
        IsApp(n) == e.stored[n].type = App
        Answered == {n \in begin .. last : IsApp(n) \/ n = last \/ IsApp(n + 1)}
        RunStart(n) ==
            CHOOSE j \in begin .. n :
                /\ \A k \in j .. n : ~IsApp(k)
                /\ j = begin \/ IsApp(j - 1)
        GapFill(from, to) == [type |-> SequenceReset, num |-> from, dup |-> TRUE, arg |-> to]
        Answer(n) ==
            IF IsApp(n) THEN [type |-> App, num |-> n, dup |-> flag, arg |-> e.stored[n].arg]
            ELSE GapFill(RunStart(n), n + 1)
        Nth(i) == CHOOSE n \in Answered : Cardinality({k \in Answered : k <= n}) = i
    IN  IF begin > last THEN <<GapFill(begin, e.sender)>>
        ELSE [i \in 1 .. Cardinality(Answered) |-> Answer(Nth(i))]

\* Mutant: messages are sent again without PossDupFlag.
RetransmitsUnflagged(e, begin) == Resent(e, begin, FALSE)

Retransmits(e, begin) == Resent(e, begin, TRUE)

Disconnected(e) ==
    [e EXCEPT !.open = FALSE, !.receivedLogon = FALSE, !.sentLogout = FALSE,
              !.receivedReset = FALSE, !.sentReset = FALSE,
              !.queue = {}, !.range = NoRange]

\* Mutant: the logon of the lost connection counts as sent on the next one.
DisconnectKeepingLogon(e) ==
    IF "disconnect" \in e.resets THEN ResetStore(Disconnected(e)) ELSE Disconnected(e)

Disconnect(e) ==
    LET down == [Disconnected(e) EXCEPT !.sentLogon = FALSE]
    IN  IF "disconnect" \in e.resets THEN ResetStore(down) ELSE down

(***************************************************************************)
(* Session::verify: either the message is accepted and the pending resend  *)
(* request may be satisfied, or it is refused in one of four ways          *)
(***************************************************************************)
ValidLogonState(e, type) ==
    \/ type = Logon /\ e.sentReset
    \/ e.receivedReset
    \/ type = Logon /\ ~e.receivedLogon
    \/ type # Logon /\ e.receivedLogon
    \/ type = Logout /\ e.sentLogon
    \/ type # Logout /\ e.sentLogout
    \/ type \in {SequenceReset, Reject}

TooHigh(e, m) == m.num > e.target
TooLow(e, m) == m.num < e.target

\* doTargetTooHigh
Postpone(e, m) ==
    LET queued == [e EXCEPT !.queue = {q \in @ : q.num # m.num} \cup {m}]
    IN  IF ResendRequested(e) /\ m.num >= e.range.first THEN queued
        ELSE GenerateResendRequest(queued, m)

Accepts(e, m, checkTooHigh, checkTooLow) ==
    /\ ValidLogonState(e, m.type)
    /\ ~(checkTooHigh /\ TooHigh(e, m))
    /\ ~(checkTooLow /\ TooLow(e, m))

Refused(e, m, checkTooHigh) ==
    CASE ~ValidLogonState(e, m.type) -> Disconnect(e)
      [] ValidLogonState(e, m.type) /\ checkTooHigh /\ TooHigh(e, m) -> Postpone(e, m)
      [] OTHER -> IF m.dup THEN e ELSE Disconnect(GenerateLogout(e))

Satisfied(e, m) ==
    IF ResendRequested(e) /\ m.num >= e.range.second THEN [e EXCEPT !.range = NoRange] ELSE e

(***************************************************************************)
(* The handlers of Session::next                                           *)
(***************************************************************************)
CompleteLogon(e, m) ==
    LET logged == [e EXCEPT !.receivedLogon = TRUE]
        answered == IF ~e.initiate \/ (e.receivedReset /\ ~e.sentReset)
                    THEN AnswerLogon(logged) ELSE logged
        settled == [answered EXCEPT !.sentReset = FALSE, !.receivedReset = FALSE]
    IN  IF TooHigh(settled, m) /\ m.arg = 0 THEN Postpone(settled, m) ELSE IncrTarget(settled)

NextLogon(e, m) ==
    LET flag == m.arg = 1
        noted == [IF flag /\ ~e.sentReset THEN ResetStore(e) ELSE e EXCEPT !.receivedReset = flag]
        ready == IF ~e.initiate /\ "logon" \in e.resets THEN ResetStore(noted) ELSE noted
    IN  CASE ~e.enabled \/ (e.initiate /\ ~e.sentLogon /\ ~flag) -> Disconnect(e)
          [] OTHER -> IF Accepts(ready, m, FALSE, TRUE)
                      THEN CompleteLogon(Satisfied(ready, m), m)
                      ELSE Refused(ready, m, FALSE)

\* Mutant: a heartbeat is counted wherever it arrives.
NextHeartbeatUnchecked(e, m) ==
    IF Accepts(e, m, FALSE, TRUE) THEN IncrTarget(Satisfied(e, m)) ELSE Refused(e, m, FALSE)

NextHeartbeat(e, m) ==
    IF Accepts(e, m, TRUE, TRUE) THEN IncrTarget(Satisfied(e, m)) ELSE Refused(e, m, TRUE)

\* Session::fromCallback: the application sees the message before the
\* expected number moves on.
GiveToApp(e, m) ==
    [Satisfied(e, m) EXCEPT !.got = Append(@, [id |-> m.arg, dup |-> m.dup])]

NextApp(e, m) ==
    IF Accepts(e, m, TRUE, TRUE) THEN IncrTarget(GiveToApp(e, m)) ELSE Refused(e, m, TRUE)

NextReject(e, m) ==
    IF Accepts(e, m, FALSE, TRUE) THEN IncrTarget(Satisfied(e, m)) ELSE Refused(e, m, FALSE)

NextLogout(e, m) ==
    LET answered == IF e.sentLogout THEN e ELSE GenerateLogout(e)
        counted == IncrTarget(answered)
        cleared == IF "logout" \in e.resets THEN ResetStore(counted) ELSE counted
    IN  Disconnect(IF Accepts(e, m, FALSE, FALSE) THEN cleared ELSE e)

NextSequenceReset(e, m) ==
    LET a == Satisfied(e, m)
    IN  IF ~Accepts(e, m, TRUE, TRUE) THEN Refused(e, m, TRUE)
        ELSE CASE m.arg > a.target ->
                    [a EXCEPT !.target = m.arg, !.queue = {q \in @ : q.num >= m.arg}]
               [] m.arg < a.target -> GenerateReject(a, m)
               [] OTHER -> a

NextResendRequest(e, m) ==
    LET answered == Transmit(e, Retransmits(e, m.arg))
    IN  IF ~Accepts(e, m, FALSE, FALSE) THEN Disconnect(e)
        ELSE IF m.num = e.target THEN IncrTarget(answered) ELSE answered

Process(e, m) ==
    CASE m.type = Logon -> NextLogon(e, m)
      [] m.type = Heartbeat -> NextHeartbeat(e, m)
      [] m.type = SequenceReset -> NextSequenceReset(e, m)
      [] m.type = Logout -> NextLogout(e, m)
      [] m.type = ResendRequest -> NextResendRequest(e, m)
      [] m.type = Reject -> NextReject(e, m)
      [] m.type = App -> NextApp(e, m)

(***************************************************************************)
(* Steps.  After each message the queue is drained before the next one is  *)
(* read; an application's send may fall in between.                        *)
(***************************************************************************)
Draining(e) == \E q \in e.queue : q.num = e.target

Readable(s) == session[s].open /\ link[s] # <<>> /\ ~Draining(session[s])

\* s becomes e, having sent and handed over what e collected.
Becomes(s, e, inbox) ==
    /\ session' = [session EXCEPT ![s] = [e EXCEPT !.out = <<>>, !.got = <<>>]]
    /\ link' = [link EXCEPT ![s] = IF e.open THEN inbox ELSE <<>>,
                            ![Peer(s)] = IF session[Peer(s)].open THEN @ \o e.out ELSE <<>>]
    /\ delivered' = [delivered EXCEPT ![s] = @ \o e.got]

Disturb == disturbed < MaxDisturbances /\ disturbed' = disturbed + 1

Receive(s) ==
    /\ Readable(s)
    /\ Becomes(s, Process(session[s], Head(link[s])), Tail(link[s]))
    /\ UNCHANGED <<accepted, disturbed>>

\* Session::nextQueued: the message that comes next, and the session without it.
NextQueued(e) == CHOOSE q \in e.queue : q.num = e.target
Taken(e) == [e EXCEPT !.queue = @ \ {NextQueued(e)}]

ProcessQueued(s) ==
    LET m == NextQueued(session[s])
        taken == Taken(session[s])
    IN  /\ Draining(session[s])
        /\ Becomes(s, IF m.type \in {Logon, ResendRequest} THEN IncrTarget(taken) ELSE Process(taken, m),
                   link[s])
        /\ UNCHANGED <<accepted, disturbed>>

Deliverable(e, m) == m.type = App /\ Accepts(e, m, TRUE, TRUE)

\* The application throws: the message counts as seen, and is rejected.
Throws(s, e, m, inbox) ==
    /\ Deliverable(e, m)
    /\ Disturb
    /\ Becomes(s, GenerateReject(GiveToApp(e, m), m), inbox)
    /\ UNCHANGED accepted

ReceiveRejected(s) == Readable(s) /\ Throws(s, session[s], Head(link[s]), Tail(link[s]))

QueuedRejected(s) ==
    /\ Draining(session[s])
    /\ Throws(s, Taken(session[s]), NextQueued(session[s]), link[s])

\* Session::send, from any thread of the application.  While the numbers are
\* about to be reset the message is refused.
MaySend(s) ==
    /\ accepted[s] + accepted[Peer(s)] < MaxSends
    /\ LoggedOn(session[s]) \/ ~ShouldSendReset(session[s])

SendApp(s) ==
    /\ MaySend(s)
    /\ Becomes(s, SendRaw(session[s], App, accepted[s] + 1), link[s])
    /\ accepted' = [accepted EXCEPT ![s] = @ + 1]
    /\ UNCHANGED disturbed

\* Session::next(now)
SendLogon(s) ==
    LET e == session[s]
    IN  /\ e.open /\ e.enabled /\ ~e.receivedLogon /\ e.initiate /\ ~e.sentLogon
        /\ Becomes(s, GenerateLogon(e), link[s])
        /\ UNCHANGED <<accepted, disturbed>>

SendLogout(s) ==
    LET e == session[s]
    IN  /\ ~e.enabled /\ LoggedOn(e) /\ ~e.sentLogout
        /\ Becomes(s, GenerateLogout(e), link[s])
        /\ UNCHANGED <<accepted, disturbed>>

LogoutTimeout(s) ==
    /\ session[s].sentLogout
    /\ Becomes(s, Disconnect(session[s]), <<>>)
    /\ UNCHANGED <<accepted, disturbed>>

\* Only heartbeats that can show the peer a gap, on an idle connection.
SendHeartbeat(s) ==
    /\ LoggedOn(session[s])
    /\ session[Peer(s)].open /\ link[s] = <<>> /\ link[Peer(s)] = <<>>
    /\ session[Peer(s)].target < session[s].sender
    /\ Becomes(s, SendRaw(session[s], Heartbeat, 0), link[s])
    /\ UNCHANGED <<accepted, disturbed>>

\* Session::logout and Session::logon
UserLogout(s) ==
    /\ session[s].enabled
    /\ Disturb
    /\ session' = [session EXCEPT ![s].enabled = FALSE]
    /\ UNCHANGED <<link, accepted, delivered>>

UserLogon(s) ==
    /\ ~session[s].enabled
    /\ session' = [session EXCEPT ![s].enabled = TRUE]
    /\ UNCHANGED <<link, accepted, delivered, disturbed>>

(***************************************************************************)
(* The connection, and crashes                                             *)
(***************************************************************************)
\* Initiator::connect; nothing of an earlier connection is left.  A logged-out
\* acceptor refuses any number of attempts, each of which takes a number: they
\* count as disturbances.
Connect ==
    /\ \A s \in Sides : ~session[s].open
    /\ session["initiator"].enabled
    /\ IF session["acceptor"].enabled THEN UNCHANGED disturbed ELSE Disturb
    /\ session' = [s \in Sides |-> [session[s] EXCEPT !.open = TRUE]]
    /\ link' = [s \in Sides |-> <<>>]
    /\ UNCHANGED <<accepted, delivered>>

\* One end notices a broken connection or times out; what it has not read is lost.
ConnectionLost(s) ==
    /\ session[s].open
    /\ Disturb
    /\ Becomes(s, Disconnect(session[s]), <<>>)
    /\ UNCHANGED accepted

\* The other end has closed; the rest of what it sent may be lost too.
EndOfStream(s) ==
    /\ session[s].open /\ ~session[Peer(s)].open
    /\ Becomes(s, Disconnect(session[s]), <<>>)
    /\ UNCHANGED <<accepted, disturbed>>

\* Mutant: the last sender number had not been written.
RestartedBehind(s, e) ==
    NewSession(s, e.resets, e.stored, IF e.sender > 1 THEN e.sender - 1 ELSE 1, e.target)

Restarted(s, e) == NewSession(s, e.resets, e.stored, e.sender, e.target)

Crash(s) ==
    /\ Disturb
    /\ Becomes(s, Restarted(s, session[s]), <<>>)
    /\ UNCHANGED accepted

\* After MessageStore::set and before incrNextSenderMsgSeqNum: the number will
\* be used again.  0 stands for the message of which the sender heard nothing.
CrashInSend(s) ==
    /\ MaySend(s)
    /\ Disturb
    /\ Becomes(s, Restarted(s, StoreSet(session[s], App, 0)), <<>>)
    /\ UNCHANGED accepted

\* After the application was given a message, read off the connection or taken from
\* the queue, and before incrNextTargetMsgSeqNum.
CrashInReceive(s) ==
    LET m == IF Draining(session[s]) THEN NextQueued(session[s]) ELSE Head(link[s])
    IN  /\ Draining(session[s]) \/ Readable(s)
        /\ Deliverable(session[s], m)
        /\ Disturb
        /\ Becomes(s, [Restarted(s, session[s]) EXCEPT !.got = GiveToApp(session[s], m).got], <<>>)
        /\ UNCHANGED accepted

Init ==
    /\ \E c \in Configs : session = [s \in Sides |-> NewSession(s, c[s], <<>>, 1, 1)]
    /\ link = [s \in Sides |-> <<>>]
    /\ accepted = [s \in Sides |-> 0]
    /\ delivered = [s \in Sides |-> <<>>]
    /\ disturbed = 0

Handles(s) == Receive(s) \/ ReceiveRejected(s) \/ ProcessQueued(s) \/ QueuedRejected(s)

Timers(s) == SendLogon(s) \/ SendLogout(s) \/ LogoutTimeout(s) \/ SendHeartbeat(s)

Users(s) == SendApp(s) \/ UserLogout(s) \/ UserLogon(s)

Faults(s) ==
    ConnectionLost(s) \/ EndOfStream(s) \/ Crash(s) \/ CrashInSend(s) \/ CrashInReceive(s)

Next == Connect \/ \E s \in Sides : Handles(s) \/ Timers(s) \/ Users(s) \/ Faults(s)

Spec == Init /\ [][Next]_vars

(***************************************************************************)
(* The thread of a connection reads what arrives, drains the queue and     *)
(* notices the end of the stream; the timer of the session acts on what is *)
(* due; the initiator reconnects.  Nothing is assumed of users, nor of a   *)
(* single one of the steps of a thread.                                    *)
(***************************************************************************)
Reading(s) == Receive(s) \/ ProcessQueued(s) \/ EndOfStream(s)

Fairness ==
    /\ WF_vars(Connect)
    /\ \A s \in Sides : WF_vars(Reading(s)) /\ WF_vars(Timers(s))

FairSpec == Spec /\ Fairness

(***************************************************************************)
(* Properties                                                              *)
(***************************************************************************)
\* Every part of the state has its type.
SessionTypeOK ==
    /\ session \in [Sides -> SessionType]
    /\ link \in [Sides -> Seq(Message)]
    /\ accepted \in [Sides -> Nat]
    /\ delivered \in [Sides -> Seq([id : Nat, dup : BOOLEAN])]
    /\ disturbed \in Nat

\* Applications are given only what was sent, in order, and a message twice
\* only in direct succession and flagged: across gaps, resends, reconnects,
\* crashes and resets.
Delivery == INSTANCE OrderedDelivery
ImplementsDelivery == Delivery!Spec

NeverReset == \A s \in Sides : session[s].resets = {}

\* While numbers are never reset, no session expects a number that the other
\* end has not used yet, so no message is ever found too low and no session
\* ended for it.
NeverAhead ==
    NeverReset => \A s \in Sides : session[s].target <= session[Peer(s)].sender

\* The messages of the other application that s has counted but never given
\* to its own.
Skipped(s) ==
    LET sent == session[Peer(s)]
        given == {d.id : d \in ToSet(delivered[s])}
        counted == {n \in 1 .. sent.sender - 1 : n < session[s].target}
    IN  {sent.stored[n].arg : n \in {k \in counted : sent.stored[k].type = App}} \ given

\* A message is passed over only when a Logout or a Reject arrives ahead of a
\* gap: nextLogout and nextReject count whatever number they carry.
UncheckedCount(s) ==
    /\ Readable(s)
    /\ Head(link[s]).type \in {Logout, Reject}
    /\ TooHigh(session[s], Head(link[s]))

SkipsOnlyUnchecked ==
    [][NeverReset => \A s \in Sides : Skipped(s)' \subseteq Skipped(s) \/ UncheckedCount(s)]_vars

\* A message that was accepted is delivered, unless it was passed over or
\* forgotten in a reset, or a user keeps a session logged out.
Outstanding(s, id) ==
    /\ \A t \in Sides : session[t].enabled
    /\ id \notin {d.id : d \in ToSet(delivered[Peer(s)])}
    /\ \E n \in 1 .. session[s].sender - 1 :
        /\ n >= session[Peer(s)].target
        /\ session[s].stored[n] = [type |-> App, arg |-> id]

EventuallyDelivered ==
    \A s \in Sides : \A id \in 1 .. MaxSends :
        accepted[s] >= id ~> ~Outstanding(s, id)
============================================================================
