-------------------------- MODULE FileStore_proofs --------------------------
(***************************************************************************)
(* The store of a session, for every length of the day, window and bound.  *)
(* First the windows of TimeRange, then the clock: the file with the time  *)
(* of creation outlives the numbers that were counted since.  Then the     *)
(* contents: cache and files agree, write by write, and what was counted   *)
(* reads as it was stored.                                                 *)
(***************************************************************************)
EXTENDS FileStore, SequenceTheorems, WellFoundedInduction, TLAPS

(***************************************************************************)
(* The window test of TimeRange agrees with the sessions it stands for, for *)
(* every length of the day, every window and all times.                    *)
(***************************************************************************)
\* The day starts over after Day ticks.
LEMMA DayParts ==
    ASSUME NEW t \in Int
    PROVE  /\ Date(t) \in Int /\ TimeOfDay(t) \in 0 .. Day - 1
           /\ t = Day * Date(t) + TimeOfDay(t)
  BY DayAssumption DEF Date, TimeOfDay

\* Dates apart are at least a day apart.
LEMMA DatesApart ==
    ASSUME NEW p \in Int, NEW q \in Int, p < q
    PROVE  Day * p + Day <= Day * q
  BY DayAssumption

\* There is only one way to divide a time into a date and a time of the day.
LEMMA OneDivision ==
    ASSUME NEW t \in Int, NEW q \in Int, NEW r \in 0 .. Day - 1, t = Day * q + r
    PROVE  t \div Day = q
<1>1. t \div Day \in Int /\ TimeOfDay(t) \in 0 .. Day - 1 /\ t = Day * (t \div Day) + TimeOfDay(t)
  BY DayParts DEF Date
<1>2. Day * q \in Int /\ Day * (t \div Day) \in Int /\ Day \in Int
  BY <1>1, DayAssumption
<1>3. ~(q < t \div Day)
  BY <1>1, <1>2, DatesApart
<1>4. ~(t \div Day < q)
  BY <1>1, <1>2, DatesApart
<1> QED BY <1>1, <1>3, <1>4

\* The session of a time is that of its date, or of the day before if the time
\* of the day is earlier than the start.
LEMMA SessionByDate ==
    ASSUME NEW w \in Windows, NEW t \in Int
    PROVE  SessionOf(w, t) = IF TimeOfDay(t) >= w.start THEN Date(t) ELSE Date(t) - 1
<1>1. /\ Date(t) \in Int /\ TimeOfDay(t) \in 0 .. Day - 1
      /\ t = Day * Date(t) + TimeOfDay(t)
  BY DayParts
<1>2. w.start \in 0 .. Day - 1 /\ Day \in Nat
  BY DayAssumption DEF Windows
<1>3. CASE TimeOfDay(t) >= w.start
  <2>1. t - w.start = Day * Date(t) + (TimeOfDay(t) - w.start)
    BY <1>1, <1>2
  <2>2. TimeOfDay(t) - w.start \in 0 .. Day - 1 /\ t - w.start \in Int
    BY <1>1, <1>2, <1>3
  <2>3. (t - w.start) \div Day = Date(t)
    BY <1>1, <2>1, <2>2, OneDivision
  <2> QED BY <1>3, <2>3 DEF SessionOf
<1>4. CASE ~(TimeOfDay(t) >= w.start)
  <2>1. Day * (Date(t) - 1) = Day * Date(t) - Day
    BY <1>1, <1>2
  <2>2. t - w.start = Day * (Date(t) - 1) + (TimeOfDay(t) - w.start + Day)
    BY <1>1, <1>2, <2>1
  <2>3. TimeOfDay(t) - w.start + Day \in 0 .. Day - 1 /\ t - w.start \in Int /\ Date(t) - 1 \in Int
    BY <1>1, <1>2, <1>4
  <2>4. (t - w.start) \div Day = Date(t) - 1
    BY <2>2, <2>3, OneDivision
  <2> QED BY <1>4, <2>4 DEF SessionOf
<1> QED BY <1>3, <1>4

\* Where a time lies in an overnight session.
LEMMA OvernightParts ==
    ASSUME NEW w \in Windows, Overnight(w), NEW t \in Int
    PROVE  /\ SessionOf(w, t) \in Int /\ Elapsed(w, t) \in 0 .. Day - 1
           /\ t = Day * SessionOf(w, t) + w.start + Elapsed(w, t)
           /\ SessionLength(w) \in 1 .. Day - 1
           /\ isInRange(w, t) <=> Elapsed(w, t) <= SessionLength(w)
           /\ ClosingTick(w, t) <=> Elapsed(w, t) = SessionLength(w)
<1>1. /\ Date(t) \in Int /\ TimeOfDay(t) \in 0 .. Day - 1
      /\ t = Day * Date(t) + TimeOfDay(t)
  BY DayParts
<1>2. /\ w.start \in 0 .. Day - 1 /\ w.end \in 0 .. Day - 1 /\ w.start > w.end
      /\ Day \in Nat
  BY DayAssumption DEF Windows, Overnight
<1>3. SessionOf(w, t) = IF TimeOfDay(t) >= w.start THEN Date(t) ELSE Date(t) - 1
  BY SessionByDate
<1>4. Elapsed(w, t) = IF TimeOfDay(t) >= w.start THEN TimeOfDay(t) - w.start
                      ELSE Day + (TimeOfDay(t) - w.start)
  BY <1>1, <1>2 DEF Elapsed
<1>5. SessionOf(w, t) \in Int /\ Elapsed(w, t) \in 0 .. Day - 1
  BY <1>1, <1>2, <1>3, <1>4
<1>6. t = Day * SessionOf(w, t) + w.start + Elapsed(w, t)
  <2>1. Day * (Date(t) - 1) = Day * Date(t) - Day /\ Day * Date(t) \in Int
    BY <1>1, <1>2
  <2>2. CASE TimeOfDay(t) >= w.start
    BY <1>1, <1>2, <1>3, <1>4, <2>1, <2>2
  <2>3. CASE ~(TimeOfDay(t) >= w.start)
    <3>1. Day * SessionOf(w, t) = Day * Date(t) - Day
      BY <1>3, <2>1, <2>3
    <3> QED BY <1>1, <1>2, <1>4, <2>1, <2>3, <3>1
  <2> QED BY <2>2, <2>3
<1>7. SessionLength(w) \in 1 .. Day - 1
  BY <1>2 DEF SessionLength
<1>8. isInRange(w, t) <=> Elapsed(w, t) <= SessionLength(w)
  BY <1>1, <1>2, <1>4 DEF isInRange, SessionLength
<1>9. ClosingTick(w, t) <=> Elapsed(w, t) = SessionLength(w)
  BY <1>1, <1>2, <1>4 DEF ClosingTick, Overnight, SessionLength
<1> QED BY <1>5, <1>6, <1>7, <1>8, <1>9

\* A window inside one date: its sessions are the dates.
LEMMA DayTimeSession ==
    ASSUME NEW w \in Windows, ~Overnight(w), NEW t \in Int, isInRange(w, t)
    PROVE  SessionOf(w, t) = Date(t)
<1>1. TimeOfDay(t) \in 0 .. Day - 1
  BY DayParts
<1>2. TimeOfDay(t) >= w.start
  BY <1>1, DayAssumption DEF Windows, Overnight, isInRange
<1> QED BY <1>2, SessionByDate

\* Times are in the order of their overnight sessions.
LEMMA SessionsInOrder ==
    ASSUME NEW w \in Windows, Overnight(w), NEW t1 \in Int, NEW t2 \in Int, t2 <= t1
    PROVE  SessionOf(w, t2) <= SessionOf(w, t1)
<1> DEFINE s1 == SessionOf(w, t1)
           s2 == SessionOf(w, t2)
<1>1. /\ s1 \in Int /\ s2 \in Int
      /\ Elapsed(w, t1) \in 0 .. Day - 1 /\ Elapsed(w, t2) \in 0 .. Day - 1
      /\ t1 = Day * s1 + w.start + Elapsed(w, t1)
      /\ t2 = Day * s2 + w.start + Elapsed(w, t2)
  BY OvernightParts
<1>2. w.start \in Int /\ Day \in Int /\ Day * s1 \in Int /\ Day * s2 \in Int
  BY <1>1, DayAssumption DEF Windows
<1>3. s1 < s2 => Day * s1 + Day <= Day * s2
  BY <1>1, DatesApart
<1> HIDE DEF s1, s2
<1>4. s2 <= s1
  BY <1>1, <1>2, <1>3
<1> QED BY <1>4 DEF s1, s2

\* TimeRange::isInSameRange holds of two times exactly when they lie in the same
\* session, but for the closing tick of an overnight session, which it takes
\* for the start of the next one.
THEOREM SameRangeIsSameSession ==
    ASSUME NEW w \in Windows, NEW t1 \in Nat, NEW t2 \in Nat, t2 <= t1
    PROVE  isInSameRange(w, t1, t2) <=>
               SameSession(w, t1, t2) /\ (t1 = t2 \/ ~ClosingTick(w, t1))
<1>1. CASE ~(isInRange(w, t1) /\ isInRange(w, t2))
  BY <1>1 DEF isInSameRange, SameSession
<1>2. CASE isInRange(w, t1) /\ isInRange(w, t2) /\ ~Overnight(w)
  <2>1. SessionOf(w, t1) = Date(t1) /\ SessionOf(w, t2) = Date(t2)
    BY <1>2, DayTimeSession
  <2>2. ~ClosingTick(w, t1)
    BY <1>2 DEF ClosingTick
  <2> QED BY <1>2, <2>1, <2>2 DEF isInSameRange, SameSession
<1>3. CASE isInRange(w, t1) /\ isInRange(w, t2) /\ Overnight(w)
  <2> DEFINE s1 == SessionOf(w, t1)
             s2 == SessionOf(w, t2)
             e1 == Elapsed(w, t1)
             e2 == Elapsed(w, t2)
             length == SessionLength(w)
  <2>1. /\ s1 \in Int /\ s2 \in Int /\ s2 <= s1
        /\ e1 \in 0 .. length /\ e2 \in 0 .. length /\ length \in 1 .. Day - 1
        /\ t1 = Day * s1 + w.start + e1 /\ t2 = Day * s2 + w.start + e2
        /\ ClosingTick(w, t1) <=> e1 = length
    BY <1>3, OvernightParts, SessionsInOrder
  <2>2. w.start \in Int /\ Day \in Int /\ Day * s1 \in Int /\ Day * s2 \in Int
    BY <2>1, DayAssumption DEF Windows
  <2>3. s2 < s1 => Day * s2 + Day <= Day * s1
    BY <2>1, DatesApart
  <2>4. isInSameRange(w, t1, t2) <=> t1 = t2 \/ (t1 > t2 /\ t1 - t2 < length - e2)
    BY <1>3 DEF isInSameRange
  <2>5. SameSession(w, t1, t2) <=> s1 = s2
    BY <1>3 DEF SameSession
  <2> HIDE DEF s1, s2, e1, e2, length
  <2>6. CASE s1 = s2
    BY <2>1, <2>2, <2>4, <2>5, <2>6
  <2>7. CASE s2 < s1
    <3>1. t1 - t2 >= Day + e1 - e2
      BY <2>1, <2>2, <2>3, <2>7
    <3>2. t1 # t2 /\ ~(t1 - t2 < length - e2)
      BY <2>1, <2>2, <3>1
    <3> QED BY <2>1, <2>4, <2>5, <2>7, <3>2
  <2> QED BY <2>1, <2>6, <2>7
<1> QED BY <1>1, <1>2, <1>3

\* What lies between two times of a session is of the same session.
THEOREM SessionIsAnInterval ==
    ASSUME NEW w \in Windows, NEW t1 \in Nat, NEW t2 \in Nat, NEW t \in Nat,
           t2 <= t, t <= t1, SameSession(w, t1, t2)
    PROVE  SameSession(w, t, t1)
<1>1. CASE Overnight(w)
  <2>1. SessionOf(w, t) = SessionOf(w, t1)
    <3>1. SessionOf(w, t2) <= SessionOf(w, t) /\ SessionOf(w, t) <= SessionOf(w, t1)
      BY <1>1, SessionsInOrder
    <3>2. SessionOf(w, t) \in Int /\ SessionOf(w, t1) \in Int
      BY <1>1, OvernightParts
    <3> QED BY <3>1, <3>2 DEF SameSession
  <2>2. Elapsed(w, t) <= Elapsed(w, t1) /\ Elapsed(w, t1) <= SessionLength(w)
    <3>1. t = Day * SessionOf(w, t1) + w.start + Elapsed(w, t) /\ Elapsed(w, t) \in Int
      BY <1>1, <2>1, OvernightParts
    <3>2. /\ t1 = Day * SessionOf(w, t1) + w.start + Elapsed(w, t1)
          /\ Elapsed(w, t1) \in Int /\ SessionOf(w, t1) \in Int
          /\ Elapsed(w, t1) <= SessionLength(w)
      BY <1>1, OvernightParts DEF SameSession
    <3>3. Day * SessionOf(w, t1) + w.start \in Int
      BY <3>2, DayAssumption DEF Windows
    <3> QED BY <3>1, <3>2, <3>3
  <2>3. isInRange(w, t)
    BY <1>1, <2>2, OvernightParts
  <2> QED BY <2>1, <2>3 DEF SameSession
<1>2. CASE ~Overnight(w)
  <2>1. /\ Date(t) \in Int /\ Date(t1) \in Int /\ Date(t2) \in Int
        /\ TimeOfDay(t) \in 0 .. Day - 1 /\ t = Day * Date(t) + TimeOfDay(t)
        /\ TimeOfDay(t1) \in 0 .. Day - 1 /\ t1 = Day * Date(t1) + TimeOfDay(t1)
        /\ TimeOfDay(t2) \in 0 .. Day - 1 /\ t2 = Day * Date(t2) + TimeOfDay(t2)
    BY DayParts
  <2>2. Date(t2) = Date(t1)
    BY <1>2, DayTimeSession DEF SameSession
  <2>3. Day * Date(t) \in Int /\ Day * Date(t1) \in Int /\ Day \in Int
    BY <2>1, DayAssumption
  <2>4. ~(Date(t) < Date(t1)) /\ ~(Date(t1) < Date(t))
    <3>1. Date(t) < Date(t1) => Day * Date(t) + Day <= Day * Date(t1)
      BY <2>1, DatesApart
    <3>2. Date(t1) < Date(t) => Day * Date(t1) + Day <= Day * Date(t)
      BY <2>1, DatesApart
    <3>3. t2 = Day * Date(t1) + TimeOfDay(t2)
      BY <2>1, <2>2
    <3>4. ~(Date(t) < Date(t1))
      BY <2>1, <2>3, <3>1, <3>3
    <3>5. ~(Date(t1) < Date(t))
      BY <2>1, <2>3, <3>2
    <3> QED BY <3>4, <3>5
  <2>5. Date(t) = Date(t1)
    BY <2>1, <2>4
  <2>6. TimeOfDay(t2) <= TimeOfDay(t) /\ TimeOfDay(t) <= TimeOfDay(t1)
    BY <2>1, <2>2, <2>3, <2>5
  <2>7. isInRange(w, t)
    BY <1>2, <2>1, <2>6, DayAssumption DEF SameSession, isInRange, Overnight, Windows
  <2>8. SessionOf(w, t) = Date(t) /\ SessionOf(w, t1) = Date(t1)
    BY <1>2, <2>7, DayTimeSession DEF SameSession
  <2> QED BY <2>5, <2>7, <2>8 DEF SameSession
<1> QED BY <1>1, <1>2

-----------------------------------------------------------------------------
(***************************************************************************)
(* The state of the store                                                  *)
(***************************************************************************)
Records ==
    /\ memory = [offsets |-> memory.offsets, numbers |-> memory.numbers, created |-> memory.created]
    /\ files = [body |-> files.body, header |-> files.header,
                seqnums |-> files.seqnums, session |-> files.session]

Clock ==
    /\ now \in Nat /\ window \in Windows
    /\ memory.created \in Nat /\ memory.created <= now
    /\ \/ files.session = Missing
       \/ files.session = Empty
       \/ files.session \in Nat /\ files.session <= now

\* The session file is missing only after the numbers have gone.
SessionGoesLast ==
    /\ pc \in {"unlink session", "create session", "write session"} => files.seqnums = NoNumbers
    /\ files.session = Missing => files.seqnums = NoNumbers
    /\ pc \notin {"down", "create session"} => files.session # Missing

\* Nothing on disk was counted before the store was created.
CountedSince ==
    files.seqnums # NoNumbers /\ files.session # Empty =>
        counted \in Nat /\ files.session <= counted /\ counted <= now

\* The constructor compares the clock with the time in the session file.
BootsFromFile ==
    pc = "check time" /\ files.session \notin {Missing, Empty} => memory.created = files.session

TimesInv == Clock /\ SessionGoesLast /\ CountedSince /\ BootsFromFile

ClockInv == Records /\ TimesInv

\* What is not a time is told from every time.
LEMMA NotATime == Missing \notin Nat /\ Empty \notin Nat /\ Missing # Empty
  BY DEF Missing, Empty

\* No time is later than itself.
LEMMA NotLater == \A n \in Nat : n <= n
  OBVIOUS

LEMMA InitClockInv == Init => ClockInv
  BY DEF Init, ClockInv, Records, TimesInv, Clock, SessionGoesLast, CountedSince,
         BootsFromFile, NoMemory, NoFiles, Missing, Empty

LEMMA BeginResetKeepsClockInv ==
    ASSUME ClockInv, BeginReset, pc \in {"idle", "check time", "reset"}
    PROVE  ClockInv'
<1>1. /\ memory'.created = now /\ files'.session = files.session
      /\ files'.seqnums = files.seqnums /\ counted' = counted
      /\ now' = now /\ window' = window /\ pc' = "unlink header"
  BY DEF ClockInv, Records, BeginReset, BeginResetOf
<1>2. Records'
  BY DEF ClockInv, Records, BeginReset, BeginResetOf
<1>3. TimesInv'
  <2>1. Clock'
    <3>1. now \in Nat
      BY DEF ClockInv, TimesInv, Clock
    <3>2. now <= now
      BY <3>1, NotLater
    <3>3. memory'.created \in Nat /\ memory'.created <= now'
      BY <1>1, <3>1, <3>2
    <3> QED BY <1>1, <3>3 DEF ClockInv, TimesInv, Clock
  <2>2. SessionGoesLast'
    BY <1>1 DEF ClockInv, TimesInv, SessionGoesLast
  <2>3. CountedSince'
    BY <1>1 DEF ClockInv, TimesInv, CountedSince
  <2>4. BootsFromFile'
    BY <1>1 DEF BootsFromFile
  <2> QED BY <2>1, <2>2, <2>3, <2>4 DEF TimesInv
<1> QED BY <1>2, <1>3 DEF ClockInv

LEMMA WriteBodyKeepsClockInv ==
    ASSUME NEW purpose, ClockInv, WriteBodyFor(purpose)
    PROVE  ClockInv'
<1> USE DEF ClockInv
<1>1. /\ memory'.created = memory.created
      /\ files'.session = files.session
      /\ files'.seqnums = files.seqnums
      /\ counted' = counted
      /\ now' = now /\ window' = window
  BY DEF WriteBodyFor, StoreUnder, Records
<1>2. Records'
  BY DEF WriteBodyFor, StoreUnder, Records
<1>3. Clock'
  BY <1>1 DEF TimesInv, Clock
<1>4. SessionGoesLast'
  BY <1>1, NotATime DEF WriteBodyFor, StoreUnder, TimesInv, Clock, SessionGoesLast
<1>5. CountedSince'
  BY <1>1, NotATime DEF WriteBodyFor, StoreUnder, TimesInv, Clock, SessionGoesLast, CountedSince
<1>6. BootsFromFile'
  BY <1>1 DEF WriteBodyFor, StoreUnder, TimesInv, BootsFromFile
<1> QED BY <1>2, <1>3, <1>4, <1>5, <1>6 DEF TimesInv

LEMMA StoringKeepsClockInv ==
    ASSUME ClockInv, Storing
    PROVE  ClockInv'
<1> USE DEF ClockInv
<1>1. CASE WriteBody
  BY <1>1, WriteBodyKeepsClockInv DEF WriteBody
<1>2. CASE WriteHeader
  <2>1. /\ memory'.created = memory.created
        /\ files'.session = files.session
        /\ files'.seqnums = files.seqnums
        /\ counted' = counted
        /\ now' = now /\ window' = window
    BY <1>2 DEF WriteHeader, history, Records
  <2>2. Records'
    BY <1>2 DEF WriteHeader, history, Records
  <2>3. Clock'
    BY <2>1 DEF TimesInv, Clock
  <2>4. SessionGoesLast'
    BY <1>2, <2>1, NotATime DEF WriteHeader, TimesInv, Clock, SessionGoesLast
  <2>5. CountedSince'
    BY <1>2, <2>1, NotATime DEF WriteHeader, TimesInv, Clock, SessionGoesLast, CountedSince
  <2>6. BootsFromFile'
    BY <1>2, <2>1 DEF WriteHeader, TimesInv, BootsFromFile
  <2> QED BY <2>2, <2>3, <2>4, <2>5, <2>6 DEF TimesInv
<1>3. CASE CountSent
  <2>1. /\ memory'.created = memory.created
        /\ files'.session = files.session
        /\ counted' = IF files.seqnums = NoNumbers THEN now ELSE counted
        /\ now' = now /\ window' = window
    BY <1>3 DEF CountSent, SaveNumbers, Records
  <2>2. Records'
    BY <1>3 DEF CountSent, SaveNumbers, Records
  <2>3. Clock'
    BY <2>1 DEF TimesInv, Clock
  <2>4. SessionGoesLast'
    BY <1>3, <2>1, NotATime DEF CountSent, SaveNumbers, TimesInv, Clock, SessionGoesLast
  <2>5. CountedSince'
    <3>1. files.session # Missing
      BY <1>3 DEF CountSent, TimesInv, SessionGoesLast
    <3>2. files.session # Empty => files.session \in Nat /\ files.session <= now /\ now \in Nat
      BY <3>1 DEF TimesInv, Clock
    <3>3. CASE files.seqnums = NoNumbers
      BY <2>1, <3>2, <3>3 DEF TimesInv, Clock, CountedSince
    <3>4. CASE files.seqnums # NoNumbers
      BY <2>1, <3>2, <3>4 DEF TimesInv, CountedSince
    <3> QED BY <3>3, <3>4
  <2>6. BootsFromFile'
    BY <1>3, <2>1 DEF CountSent, SaveNumbers, TimesInv, BootsFromFile
  <2> QED BY <2>2, <2>3, <2>4, <2>5, <2>6 DEF TimesInv
<1>4. CASE CountReceived
  <2>1. /\ memory'.created = memory.created
        /\ files'.session = files.session
        /\ counted' = IF files.seqnums = NoNumbers THEN now ELSE counted
        /\ now' = now /\ window' = window
    BY <1>4 DEF CountReceived, SaveNumbers, Records
  <2>2. Records'
    BY <1>4 DEF CountReceived, SaveNumbers, Records
  <2>3. Clock'
    BY <2>1 DEF TimesInv, Clock
  <2>4. SessionGoesLast'
    BY <1>4, <2>1, NotATime DEF CountReceived, SaveNumbers, TimesInv, Clock, SessionGoesLast
  <2>5. CountedSince'
    BY <1>4, <2>1, NotATime DEF CountReceived, SaveNumbers, TimesInv, Clock, SessionGoesLast, CountedSince
  <2>6. BootsFromFile'
    BY <1>4, <2>1 DEF CountReceived, SaveNumbers, TimesInv, BootsFromFile
  <2> QED BY <2>2, <2>3, <2>4, <2>5, <2>6 DEF TimesInv
<1> QED BY <1>1, <1>2, <1>3, <1>4 DEF Storing

LEMMA ResettingKeepsClockInv ==
    ASSUME ClockInv, Resetting
    PROVE  ClockInv'
<1> USE DEF ClockInv
<1>1. CASE ResetStore
  BY <1>1, BeginResetKeepsClockInv DEF ResetStore
<1>2. CASE UnlinkHeader
  <2>1. /\ memory'.created = memory.created
        /\ files'.session = files.session
        /\ files'.seqnums = files.seqnums
        /\ counted' = counted
        /\ now' = now /\ window' = window
    BY <1>2 DEF UnlinkHeader, history, Records
  <2>2. Records'
    BY <1>2 DEF UnlinkHeader, history, Records
  <2>3. Clock'
    BY <2>1 DEF TimesInv, Clock
  <2>4. SessionGoesLast'
    BY <1>2, <2>1, NotATime DEF UnlinkHeader, TimesInv, Clock, SessionGoesLast
  <2>5. CountedSince'
    BY <1>2, <2>1, NotATime DEF UnlinkHeader, TimesInv, Clock, SessionGoesLast, CountedSince
  <2>6. BootsFromFile'
    BY <1>2, <2>1 DEF UnlinkHeader, TimesInv, BootsFromFile
  <2> QED BY <2>2, <2>3, <2>4, <2>5, <2>6 DEF TimesInv
<1>3. CASE UnlinkSeqnums
  <2>1. /\ memory'.created = memory.created
        /\ files'.session = files.session
        /\ files'.seqnums = NoNumbers
        /\ counted' = counted
        /\ now' = now /\ window' = window
    BY <1>3 DEF UnlinkSeqnums, UnlinkSeqnumsLeaving, Records
  <2>2. Records'
    BY <1>3 DEF UnlinkSeqnums, UnlinkSeqnumsLeaving, Records
  <2>3. Clock'
    BY <2>1 DEF TimesInv, Clock
  <2>4. SessionGoesLast'
    BY <1>3, <2>1, NotATime DEF UnlinkSeqnums, UnlinkSeqnumsLeaving, TimesInv, Clock, SessionGoesLast
  <2>5. CountedSince'
    BY <1>3, <2>1, NotATime DEF UnlinkSeqnums, UnlinkSeqnumsLeaving, TimesInv, Clock, SessionGoesLast, CountedSince
  <2>6. BootsFromFile'
    BY <1>3, <2>1 DEF UnlinkSeqnums, UnlinkSeqnumsLeaving, TimesInv, BootsFromFile
  <2> QED BY <2>2, <2>3, <2>4, <2>5, <2>6 DEF TimesInv
<1>4. CASE UnlinkSession
  <2>1. /\ memory'.created = memory.created
        /\ files'.session = Missing
        /\ files'.seqnums = files.seqnums
        /\ counted' = counted
        /\ now' = now /\ window' = window
    BY <1>4 DEF UnlinkSession, history, Records
  <2>2. Records'
    BY <1>4 DEF UnlinkSession, history, Records
  <2>3. Clock'
    BY <2>1 DEF TimesInv, Clock
  <2>4. SessionGoesLast'
    BY <1>4, <2>1, NotATime DEF UnlinkSession, TimesInv, Clock, SessionGoesLast
  <2>5. CountedSince'
    BY <1>4, <2>1, NotATime DEF UnlinkSession, TimesInv, Clock, SessionGoesLast, CountedSince
  <2>6. BootsFromFile'
    BY <1>4, <2>1 DEF UnlinkSession, TimesInv, BootsFromFile
  <2> QED BY <2>2, <2>3, <2>4, <2>5, <2>6 DEF TimesInv
<1>5. CASE CreateSession
  <2>1. /\ memory'.created = memory.created
        /\ files'.session = Empty
        /\ files'.seqnums = files.seqnums
        /\ counted' = counted
        /\ now' = now /\ window' = window
    BY <1>5 DEF CreateSession, history, Records
  <2>2. Records'
    BY <1>5 DEF CreateSession, history, Records
  <2>3. Clock'
    BY <2>1 DEF TimesInv, Clock
  <2>4. SessionGoesLast'
    BY <1>5, <2>1, NotATime DEF CreateSession, TimesInv, Clock, SessionGoesLast
  <2>5. CountedSince'
    BY <1>5, <2>1, NotATime DEF CreateSession, TimesInv, Clock, SessionGoesLast, CountedSince
  <2>6. BootsFromFile'
    BY <1>5, <2>1 DEF CreateSession, TimesInv, BootsFromFile
  <2> QED BY <2>2, <2>3, <2>4, <2>5, <2>6 DEF TimesInv
<1>6. CASE WriteSession
  <2>1. /\ memory'.created = memory.created
        /\ files'.session = memory.created
        /\ files'.seqnums = files.seqnums
        /\ counted' = counted
        /\ now' = now /\ window' = window
    BY <1>6 DEF WriteSession, history, Records
  <2>2. Records'
    BY <1>6 DEF WriteSession, history, Records
  <2>3. Clock'
    BY <2>1 DEF TimesInv, Clock
  <2>4. SessionGoesLast'
    BY <1>6, <2>1, NotATime DEF WriteSession, TimesInv, Clock, SessionGoesLast
  <2>5. CountedSince'
    BY <1>6, <2>1, NotATime DEF WriteSession, TimesInv, Clock, SessionGoesLast, CountedSince
  <2>6. BootsFromFile'
    BY <1>6, <2>1 DEF WriteSession, TimesInv, BootsFromFile
  <2> QED BY <2>2, <2>3, <2>4, <2>5, <2>6 DEF TimesInv
<1> QED BY <1>1, <1>2, <1>3, <1>4, <1>5, <1>6 DEF Resetting

\* The time of creation that is loaded is that of the file, or the present.
LEMMA LoadedTime ==
    ASSUME ClockInv, memory' = LoadedFrom(files)
    PROVE  /\ memory'.created \in Nat /\ memory'.created <= now
           /\ files.session # Missing /\ files.session # Empty => memory'.created = files.session
           /\ memory' = [offsets |-> memory'.offsets, numbers |-> memory'.numbers,
                         created |-> memory'.created]
<1>1. memory'.created = CreationTime(files)
  BY DEF LoadedFrom
<1>2. CreationTime(files) \in Nat /\ CreationTime(files) <= now
  BY DEF CreationTime, ClockInv, TimesInv, Clock
<1>3. files.session # Missing /\ files.session # Empty => CreationTime(files) = files.session
  BY DEF CreationTime
<1>4. memory' = [offsets |-> memory'.offsets, numbers |-> memory'.numbers,
                 created |-> memory'.created]
  BY DEF LoadedFrom
<1> QED BY <1>1, <1>2, <1>3, <1>4

LEMMA OthersKeepClockInv ==
    ASSUME ClockInv, Starting \/ Clocked \/ Refresh \/ Crash \/ Tick \/ UNCHANGED vars
    PROVE  ClockInv'
<1> USE DEF ClockInv
<1>1. CASE Start
  <2>1. memory' = LoadedFrom(files) /\ files' = files /\ counted' = counted /\ now' = now /\ window' = window
    BY <1>1 DEF Start, history
  <2>2. Records'
    BY <2>1, LoadedTime DEF Records
  <2>3. Clock'
    <3>1. memory'.created \in Nat /\ memory'.created <= now
      BY <2>1, LoadedTime
    <3> QED BY <2>1, <3>1 DEF TimesInv, Clock
  <2>4. SessionGoesLast'
    BY <1>1, <2>1 DEF Start, TimesInv, SessionGoesLast
  <2>5. CountedSince'
    BY <1>1, <2>1 DEF Start, TimesInv, Clock, CountedSince
  <2>6. BootsFromFile'
    BY <2>1, LoadedTime DEF BootsFromFile
  <2> QED BY <2>2, <2>3, <2>4, <2>5, <2>6 DEF TimesInv
<1>2. CASE Started
  BY <1>2 DEF Started, history, Records, TimesInv, Clock, SessionGoesLast, CountedSince, BootsFromFile
<1>3. CASE ResetAtStart
  BY <1>3, BeginResetKeepsClockInv DEF ResetAtStart
<1>4. CASE Clocked
  BY <1>4, BeginResetKeepsClockInv, WriteBodyKeepsClockInv
     DEF Clocked, LogoutByClock, ResetByClock
<1>5. CASE Refresh
  <2>1. memory' = LoadedFrom(files) /\ files' = files /\ counted' = counted /\ now' = now /\ window' = window /\ pc' = pc
    BY <1>5 DEF Refresh, history
  <2>2. Records'
    BY <2>1, LoadedTime DEF Records
  <2>3. Clock'
    <3>1. memory'.created \in Nat /\ memory'.created <= now
      BY <2>1, LoadedTime
    <3> QED BY <2>1, <3>1 DEF TimesInv, Clock
  <2>4. SessionGoesLast'
    BY <1>5, <2>1 DEF Refresh, TimesInv, SessionGoesLast
  <2>5. CountedSince'
    BY <1>5, <2>1 DEF Refresh, TimesInv, Clock, CountedSince
  <2>6. BootsFromFile'
    BY <1>5, <2>1 DEF Refresh, TimesInv, BootsFromFile
  <2> QED BY <2>2, <2>3, <2>4, <2>5, <2>6 DEF TimesInv
<1>6. CASE Crash
  <2>1. memory'.created = 0 /\ files' = files /\ counted' = counted /\ now' = now /\ window' = window
    BY <1>6 DEF Crash, NoMemory
  <2>2. Records'
    BY <1>6 DEF Crash, NoMemory, Records
  <2>3. Clock'
    <3>1. now \in Nat /\ 0 <= now
      BY DEF TimesInv, Clock
    <3> QED BY <2>1, <3>1 DEF TimesInv, Clock
  <2>4. SessionGoesLast'
    BY <1>6, <2>1 DEF Crash, TimesInv, SessionGoesLast
  <2>5. CountedSince'
    BY <1>6, <2>1 DEF Crash, TimesInv, Clock, CountedSince
  <2>6. BootsFromFile'
    BY <1>6, <2>1 DEF Crash, TimesInv, BootsFromFile
  <2> QED BY <2>2, <2>3, <2>4, <2>5, <2>6 DEF TimesInv
<1>7. CASE Tick
  <2>1. memory' = memory /\ files' = files /\ counted' = counted /\ now' = now + 1 /\ window' = window /\ pc' = pc
    BY <1>7 DEF Tick, history
  <2>2. Records'
    BY <2>1 DEF Records
  <2>3. Clock'
    BY <2>1 DEF TimesInv, Clock
  <2>4. SessionGoesLast'
    BY <2>1 DEF TimesInv, SessionGoesLast
  <2>5. CountedSince'
    BY <2>1 DEF TimesInv, Clock, CountedSince
  <2>6. BootsFromFile'
    BY <2>1 DEF TimesInv, BootsFromFile
  <2> QED BY <2>2, <2>3, <2>4, <2>5, <2>6 DEF TimesInv
<1>8. CASE UNCHANGED vars
  BY <1>8 DEF vars, history, Records, TimesInv, Clock, SessionGoesLast, CountedSince, BootsFromFile
<1> QED BY <1>1, <1>2, <1>3, <1>4, <1>5, <1>6, <1>7, <1>8 DEF Starting

\* The store is never older than its files say, and its numbers never older than
\* the store.
THEOREM ClockInvariant == Spec => []ClockInv
<1>1. ClockInv /\ [Next]_vars => ClockInv'
  BY StoringKeepsClockInv, ResettingKeepsClockInv, OthersKeepClockInv DEF Next
<1> QED BY InitClockInv, <1>1, PTL DEF Spec

\* The clock ends a session, and resets its store, only when its time is over,
\* or in the closing tick of an overnight session.
THEOREM StoreKeptThroughSession == Spec => KeptThroughSession
<1>1. ASSUME ClockInv, LogoutByClock \/ ResetAtStart
      PROVE  ~SameSession(window, memory.created, now) \/ ClosingTick(window, now)
  <2>1. ~isInSameRange(window, now, memory.created)
    BY <1>1 DEF LogoutByClock, ResetAtStart, checkSessionTime
  <2>2. window \in Windows /\ now \in Nat /\ memory.created \in Nat /\ memory.created <= now
    BY <1>1 DEF ClockInv, TimesInv, Clock
  <2>3. ~SameSession(window, now, memory.created) \/ ClosingTick(window, now)
    BY <2>1, <2>2, SameRangeIsSameSession
  <2> QED BY <2>3 DEF SameSession
<1>2. ClockInv /\ [Next]_vars =>
        [LogoutByClock \/ ResetAtStart
            => ~SameSession(window, memory.created, now) \/ ClosingTick(window, now)]_vars
  BY <1>1
<1> QED BY ClockInvariant, <1>2, PTL DEF Spec, KeptThroughSession

\* A session that starts over finds no numbers of an earlier session, although a
\* reset may have been interrupted anywhere.
THEOREM StartsWithoutOldNumbers == Spec => OldNumbersForgotten
<1>1. ASSUME ClockInv, Started, files.seqnums # NoNumbers, files.session # Empty
      PROVE  SameSession(window, counted, now)
  <2>1. /\ files.session \in Nat /\ now \in Nat /\ counted \in Nat
        /\ files.session <= counted /\ counted <= now
    BY <1>1 DEF ClockInv, TimesInv, CountedSince, Clock, SessionGoesLast
  <2>2. memory.created = files.session /\ window \in Windows
    <3>1. files.session # Missing /\ files.session # Empty
      BY <1>1 DEF ClockInv, TimesInv, SessionGoesLast
    <3> QED BY <1>1, <3>1 DEF ClockInv, TimesInv, BootsFromFile, Clock, Started
  <2>3. isInSameRange(window, now, files.session)
    BY <1>1, <2>2 DEF Started, checkSessionTime
  <2>4. SameSession(window, now, files.session)
    BY <2>1, <2>2, <2>3, SameRangeIsSameSession
  <2> QED BY <2>1, <2>2, <2>4, SessionIsAnInterval
<1>2. ClockInv /\ [Next]_vars =>
        [Started /\ files.seqnums # NoNumbers /\ files.session # Empty
            => SameSession(window, counted, now)]_vars
  BY <1>1
<1> QED BY ClockInvariant, <1>2, PTL DEF Spec, OldNumbersForgotten

-----------------------------------------------------------------------------
(***************************************************************************)
(* What the files hold.                                                    *)
(***************************************************************************)
Entry == [num : Positive, offset : Positive]

\* The offsets of a header that gets an entry.
WithSlot(offsets, n, slot) ==
    [k \in DOMAIN offsets \cup {n} |-> IF k = n THEN slot ELSE offsets[k]]

\* Counting up.
LEMMA NextNatural == \A n \in Nat : n + 1 \in Nat
  OBVIOUS

\* A set of natural numbers that is not empty has a least one.
LEMMA LeastNatural ==
    ASSUME NEW T \in SUBSET Nat, T # {}
    PROVE  \E x \in T : \A y \in T : x <= y
<1>1. \E x \in T : \A y \in T : ~(<<y, x>> \in OpToRel(<, Nat))
  BY NatLessThanWellFounded, WFMin, Zenon
<1>2. \A x, y \in Nat : y < x => <<y, x>> \in OpToRel(<, Nat)
  BY Zenon DEF OpToRel
<1>3. \A x, y \in Nat : ~(y < x) => x <= y
  OBVIOUS
<1> QED BY <1>1, <1>2, <1>3

\* A set of positions that is not empty has a last one.
LEMMA LastPosition ==
    ASSUME NEW L \in Nat, NEW S \in SUBSET (1..L), S # {}
    PROVE  Max(S) \in S /\ \A i \in S : i <= Max(S)
<1> DEFINE T == {L - i : i \in S}
<1>1. T \in SUBSET Nat /\ T # {}
  OBVIOUS
<1>2. PICK x \in T : \A y \in T : x <= y
  BY <1>1, LeastNatural
<1>3. PICK m \in S : x = L - m
  BY <1>2
<1>4. \A i \in S : m >= i
  <2> TAKE i \in S
  <2>1. L - m <= L - i
    BY <1>2, <1>3
  <2> QED BY <2>1
<1>5. \E n \in S : \A i \in S : n >= i
  BY <1>4
<1> DEFINE n == CHOOSE n \in S : \A i \in S : n >= i
<1>6. n \in S /\ \A i \in S : n >= i
  BY <1>5
<1>7. Max(S) = n
  BY DEF Max
<1> HIDE DEF n
<1> QED BY <1>6, <1>7

LEMMA LastOccurrence ==
    ASSUME NEW h \in Seq(Entry), NEW n \in {h[i].num : i \in DOMAIN h}
    PROVE  /\ Max(Occurrences(h, n)) \in DOMAIN h
           /\ h[Max(Occurrences(h, n))].num = n
           /\ \A i \in DOMAIN h : h[i].num = n => i <= Max(Occurrences(h, n))
<1>1. Len(h) \in Nat /\ DOMAIN h = 1..Len(h)
  BY LenProperties
<1>2. Occurrences(h, n) \in SUBSET (1..Len(h)) /\ Occurrences(h, n) # {}
  BY <1>1 DEF Occurrences
<1>3. Max(Occurrences(h, n)) \in Occurrences(h, n)
      /\ \A i \in Occurrences(h, n) : i <= Max(Occurrences(h, n))
  BY <1>1, <1>2, LastPosition
<1> QED BY <1>3, Zenon DEF Occurrences

LEMMA OffsetsAre ==
    ASSUME NEW h
    PROVE  /\ DOMAIN Offsets(h) = {h[i].num : i \in DOMAIN h}
           /\ \A n \in {h[i].num : i \in DOMAIN h} :
                  Offsets(h)[n] = h[Max(Occurrences(h, n))].offset
           /\ Offsets(h) = [n \in DOMAIN Offsets(h) |-> Offsets(h)[n]]
  BY Zenon DEF Offsets, OffsetsBy

\* Populating the cache keeps the last entry of every number.
LEMMA OffsetsOfAppend ==
    ASSUME NEW h \in Seq(Entry), NEW e \in Entry
    PROVE  Offsets(Append(h, e)) = WithSlot(Offsets(h), e.num, e.offset)
<1> DEFINE g == Append(h, e)
<1> DEFINE L == Len(h)
<1>1. L \in Nat /\ DOMAIN h = 1..L /\ DOMAIN g = 1..(L + 1) /\ g \in Seq(Entry)
  BY LenProperties, AppendProperties
<1>2. g[L + 1] = e /\ \A i \in 1..L : g[i] = h[i]
  BY AppendProperties
<1> HIDE DEF g, L
<1>3. \A i : i \in 1..(L + 1) <=> (i \in 1..L \/ i = L + 1)
  BY <1>1
<1>4. {g[i].num : i \in DOMAIN g} = {h[i].num : i \in DOMAIN h} \cup {e.num}
  <2>1. \A n \in {g[i].num : i \in DOMAIN g} : n \in {h[i].num : i \in DOMAIN h} \cup {e.num}
    BY <1>1, <1>2, <1>3, Zenon
  <2>2. \A n \in {h[i].num : i \in DOMAIN h} : n \in {g[i].num : i \in DOMAIN g}
    BY <1>1, <1>2, <1>3, Zenon
  <2>3. e.num \in {g[i].num : i \in DOMAIN g}
    BY <1>1, <1>2, <1>3, Zenon
  <2> QED BY <2>1, <2>2, <2>3
<1>5. ASSUME NEW n \in {h[i].num : i \in DOMAIN h} \cup {e.num}
      PROVE  Offsets(g)[n] = WithSlot(Offsets(h), e.num, e.offset)[n]
  <2> DEFINE m == Max(Occurrences(g, n))
  <2>1. /\ Offsets(g)[n] = g[m].offset
        /\ m \in DOMAIN g /\ g[m].num = n
        /\ \A i \in DOMAIN g : g[i].num = n => i <= m
    BY <1>1, <1>4, OffsetsAre, LastOccurrence
  <2>2. WithSlot(Offsets(h), e.num, e.offset)[n] =
          IF n = e.num THEN e.offset ELSE Offsets(h)[n]
    BY OffsetsAre, Zenon DEF WithSlot
  <2>3. CASE n = e.num
    <3> HIDE DEF m
    <3>1. L + 1 <= m
      BY <1>1, <1>2, <1>3, <2>1, <2>3
    <3>2. m = L + 1
      BY <1>1, <2>1, <3>1
    <3> QED BY <1>2, <2>1, <2>2, <2>3, <3>2
  <2>4. CASE n # e.num
    <3>1. \A i : i \in DOMAIN g /\ g[i].num = n <=> i \in DOMAIN h /\ h[i].num = n
      BY <1>1, <1>2, <1>3, <2>4, Zenon
    <3>2. Occurrences(g, n) = Occurrences(h, n)
      BY <3>1 DEF Occurrences
    <3>3. Offsets(h)[n] = h[m].offset
      BY <2>4, <3>2, OffsetsAre, Zenon
    <3>4. m \in 1..L
      BY <1>1, <2>1, <3>1, Zenon
    <3> QED BY <1>2, <2>1, <2>2, <2>4, <3>3, <3>4, Zenon
  <2> QED BY <2>3, <2>4
<1>6. DOMAIN Offsets(g) = DOMAIN WithSlot(Offsets(h), e.num, e.offset)
  BY <1>4, OffsetsAre, Zenon DEF WithSlot
<1>7. WithSlot(Offsets(h), e.num, e.offset) =
        [k \in DOMAIN Offsets(h) \cup {e.num} |-> WithSlot(Offsets(h), e.num, e.offset)[k]]
  BY Zenon DEF WithSlot
<1>8. DOMAIN Offsets(g) = {h[i].num : i \in DOMAIN h} \cup {e.num}
  <2>1. DOMAIN Offsets(g) = {g[i].num : i \in DOMAIN g}
    BY OffsetsAre
  <2> HIDE DEF g
  <2> QED BY <2>1, <1>4
<1>9. Offsets(g) = [k \in DOMAIN Offsets(g) |-> Offsets(g)[k]]
  BY OffsetsAre, Zenon
<1>10. DOMAIN Offsets(h) = {h[i].num : i \in DOMAIN h}
  BY OffsetsAre, Zenon
<1>11. Offsets(g) = WithSlot(Offsets(h), e.num, e.offset)
  BY <1>5, <1>7, <1>8, <1>9, <1>10
<1> QED BY <1>11 DEF g

\* Every offset is a place in the body.
LEMMA OffsetsTyped ==
    ASSUME NEW h \in Seq(Entry)
    PROVE  \A n \in DOMAIN Offsets(h) : n \in Positive /\ Offsets(h)[n] \in Positive
<1> TAKE n \in DOMAIN Offsets(h)
<1>1. n \in {h[i].num : i \in DOMAIN h} /\ Offsets(h)[n] = h[Max(Occurrences(h, n))].offset
  BY OffsetsAre, Zenon
<1>2. Max(Occurrences(h, n)) \in DOMAIN h /\ h[Max(Occurrences(h, n))].num = n
  BY <1>1, LastOccurrence
<1>3. \A i \in DOMAIN h : h[i] \in Entry
  BY LenProperties, ElementOfSeq
<1> QED BY <1>1, <1>2, <1>3 DEF Entry

(***************************************************************************)
(* The invariant of the contents.  Numbers are those on disk.              *)
(***************************************************************************)
OnFile(body, offsets, stored, n) ==
    /\ n \in DOMAIN offsets
    /\ offsets[n] \in DOMAIN body
    /\ body[offsets[n]] = stored[n]

\* The cache is what the files say, but for the message that is being stored and
\* the files that a reset has still to remove.
Cached ==
    /\ pc \in {"idle", "check time", "write number", "reset", "unlink session",
               "create session", "write session"}
         => memory.offsets = Offsets(files.header)
    /\ pc = "write header"
         => memory.offsets = WithSlot(Offsets(files.header), memory.numbers.sender, Len(files.body))
    /\ pc \notin {"down", "unlink header", "unlink seqnums"} => memory.numbers = files.seqnums
    /\ pc \in {"idle", "check time", "write header", "write number", "reset"}
         => files.session = Empty \/ memory.created = files.session

\* While a reset removes the files, nothing is stored any more.
Emptied ==
    /\ pc \in {"unlink header", "unlink seqnums", "unlink session"}
         => memory.offsets = <<>> /\ memory.numbers = NoNumbers /\ last = <<>>
    /\ pc = "unlink seqnums" => files.header = <<>>

\* A number that was counted has its message, or a reset was interrupted.
Filed ==
    \A n \in 1 .. files.seqnums.sender - 1 :
        IF n \in DOMAIN last THEN OnFile(files.body, Offsets(files.header), last, n)
        ELSE torn \/ pc \in {"unlink header", "unlink seqnums"}

\* So has the number that is about to be counted.
BeingStored ==
    LET n == memory.numbers.sender
    IN  /\ pc \in {"write header", "write number"}
             => /\ n \in DOMAIN last
                /\ Len(files.body) \in DOMAIN files.body
                /\ files.body[Len(files.body)] = last[n]
        /\ pc = "write number" => OnFile(files.body, Offsets(files.header), last, n)

DataInv == StoreTypeOK /\ Cached /\ Emptied /\ Filed /\ BeingStored

LEMMA OffsetsOfNone == Offsets(<<>>) = <<>>
  BY DEF Offsets, OffsetsBy

LEMMA SlotsTyped ==
    ASSUME NEW offsets, NEW n \in Positive, NEW slot \in Positive,
           \A k \in DOMAIN offsets : k \in Positive /\ offsets[k] \in Positive
    PROVE  \A k \in DOMAIN WithSlot(offsets, n, slot) :
               k \in Positive /\ WithSlot(offsets, n, slot)[k] \in Positive
  BY Zenon DEF WithSlot

\* A new message leaves the others where they are ...
LEMMA BodyGrows ==
    ASSUME NEW body \in Seq(Positive), NEW m \in Positive, NEW offsets, NEW stored, NEW k,
           NEW n \in DOMAIN stored, n # k, OnFile(body, offsets, stored, n)
    PROVE  OnFile(Append(body, m), offsets, WithSlot(stored, k, m), n)
<1>1. DOMAIN body = 1..Len(body) /\ Len(body) \in Nat
  BY LenProperties
<1>2. /\ Append(body, m) \in Seq(Positive) /\ Len(Append(body, m)) = Len(body) + 1
      /\ \A i \in 1..Len(body) : Append(body, m)[i] = body[i]
  BY AppendProperties
<1>3. DOMAIN Append(body, m) = 1..(Len(body) + 1)
  BY <1>2, LenProperties
<1>4. \A i \in DOMAIN body : i \in DOMAIN Append(body, m) /\ Append(body, m)[i] = body[i]
  BY <1>1, <1>2, <1>3
<1>5. WithSlot(stored, k, m)[n] = stored[n]
  BY Zenon DEF WithSlot
<1> QED BY <1>4, <1>5, Zenon DEF OnFile

\* ... and so does an entry for another number.
LEMMA HeaderGrows ==
    ASSUME NEW body, NEW slot, NEW offsets, NEW stored, NEW k, NEW n, n # k,
           OnFile(body, offsets, stored, n)
    PROVE  OnFile(body, WithSlot(offsets, k, slot), stored, n)
<1>1. n \in DOMAIN offsets
  BY DEF OnFile
<1>2. n \in DOMAIN WithSlot(offsets, k, slot) /\ WithSlot(offsets, k, slot)[n] = offsets[n]
  BY <1>1, Zenon DEF WithSlot
<1> QED BY <1>2, Zenon DEF OnFile

\* What the invariant needs of the types.
LEMMA FileTypes ==
    ASSUME StoreTypeOK
    PROVE  /\ files.body \in Seq(Positive) /\ files.header \in Seq(Entry)
           /\ files.seqnums \in Numbers /\ memory.numbers \in Numbers
           /\ files.seqnums.sender \in Positive /\ memory.numbers.sender \in Positive
           /\ files.seqnums.target \in Positive /\ memory.numbers.target \in Positive
  BY DEF StoreTypeOK, Entry, Numbers

LEMMA InitDataInv == Init => DataInv
<1> SUFFICES ASSUME Init PROVE DataInv
  OBVIOUS
<1>1. 0 \in Nat /\ 1 \in Positive /\ <<>> \in Seq(Positive) /\ <<>> \in Seq(Entry)
  BY EmptySeq DEF Positive
<1>2. DOMAIN <<>> = {}
  OBVIOUS
<1>3. StoreTypeOK
  BY <1>1, <1>2 DEF Init, StoreTypeOK, NoFiles, NoMemory, NoNumbers, Numbers, Entry, Points
<1>4. Cached
  BY DEF Init, Cached
<1>5. Filed
  <2>1. 1 .. files.seqnums.sender - 1 = {}
    BY DEF Init, NoFiles, NoNumbers
  <2> QED BY <2>1, Zenon DEF Filed
<1>6. BeingStored
  BY DEF Init, BeingStored
<1>7. Emptied
  BY DEF Init, Emptied
<1> QED BY <1>3, <1>4, <1>5, <1>6, <1>7 DEF DataInv

LEMMA WriteBodyKeepsData ==
    ASSUME NEW purpose \in {"none", "clock"}, Records, DataInv, WriteBodyFor(purpose)
    PROVE  DataInv'
<1> DEFINE n == memory.numbers.sender
<1> DEFINE m == sets + 1
<1> DEFINE b == files.body
<1>1. /\ pc = "idle" /\ pc' = "write header" /\ task' = purpose /\ sets' = m
      /\ files'.body = Append(b, m) /\ files'.header = files.header
      /\ files'.seqnums = files.seqnums /\ files'.session = files.session
      /\ memory'.offsets = WithSlot(memory.offsets, n, Len(b) + 1)
      /\ memory'.numbers = memory.numbers /\ memory'.created = memory.created
      /\ last' = WithSlot(last, n, m) /\ torn' = torn /\ counted' = counted
      /\ window' = window /\ now' = now /\ crashes' = crashes
  BY DEF WriteBodyFor, StoreUnder, Records, WithSlot
<1>2. StoreTypeOK /\ Cached /\ Filed /\ BeingStored
  BY DEF DataInv
<1>3. /\ m \in Positive /\ n \in Positive /\ b \in Seq(Positive)
      /\ Len(b) \in Nat /\ Len(b) + 1 \in Positive
  BY <1>2, FileTypes, LenProperties DEF StoreTypeOK, Positive
<1>4. /\ Append(b, m) \in Seq(Positive) /\ Len(Append(b, m)) = Len(b) + 1
      /\ Append(b, m)[Len(b) + 1] = m /\ Len(b) + 1 \in DOMAIN Append(b, m)
  BY <1>3, AppendProperties, LenProperties
<1>5. /\ memory.offsets = Offsets(files.header) /\ memory.numbers = files.seqnums
      /\ files.session = Empty \/ memory.created = files.session
  BY <1>1, <1>2 DEF Cached
<1> HIDE DEF m, n, b
<1>6. /\ n \in DOMAIN last' /\ last'[n] = m
      /\ \A k : k # n => (k \in DOMAIN last' <=> k \in DOMAIN last)
  <2>1. DOMAIN last' = DOMAIN last \cup {n} /\ last'[n] = m
    BY <1>1, Zenon DEF WithSlot
  <2> QED BY <2>1
<1>7. StoreTypeOK'
  <2>1. /\ \A k \in DOMAIN memory'.offsets : k \in Positive /\ memory'.offsets[k] \in Positive
        /\ \A k \in DOMAIN last' : k \in Positive /\ last'[k] \in Positive
    <3>1. /\ \A k \in DOMAIN memory.offsets : k \in Positive /\ memory.offsets[k] \in Positive
          /\ \A k \in DOMAIN last : k \in Positive /\ last[k] \in Positive
      BY <1>2 DEF StoreTypeOK
    <3>2. \A k \in DOMAIN WithSlot(memory.offsets, n, Len(b) + 1) :
              k \in Positive /\ WithSlot(memory.offsets, n, Len(b) + 1)[k] \in Positive
      BY <1>3, <3>1, SlotsTyped
    <3>3. \A k \in DOMAIN WithSlot(last, n, m) :
              k \in Positive /\ WithSlot(last, n, m)[k] \in Positive
      BY <1>3, <3>1, SlotsTyped
    <3> QED BY <1>1, <3>2, <3>3
  <2>2. sets' \in Nat
    BY <1>1, <1>3 DEF Positive
  <2> QED BY <1>1, <1>2, <1>4, <2>1, <2>2 DEF StoreTypeOK, Points
<1>8. Cached'
  BY <1>1, <1>4, <1>5 DEF Cached, n
<1>9. Filed'
  <2> SUFFICES ASSUME NEW k \in 1 .. files.seqnums.sender - 1
               PROVE  IF k \in DOMAIN last'
                      THEN OnFile(files'.body, Offsets(files'.header), last', k)
                      ELSE torn' \/ pc' \in {"unlink header", "unlink seqnums"}
    BY <1>1 DEF Filed
  <2>1. k # n
    BY <1>5, <1>3 DEF n, Positive
  <2>2. IF k \in DOMAIN last THEN OnFile(b, Offsets(files.header), last, k) ELSE torn
    BY <1>1, <1>2 DEF Filed, b
  <2>3. CASE k \in DOMAIN last
    <3>1. OnFile(Append(b, m), Offsets(files.header), WithSlot(last, n, m), k)
      BY <1>3, <2>1, <2>2, <2>3, BodyGrows
    <3>2. k \in DOMAIN last'
      BY <1>6, <2>1, <2>3
    <3> QED BY <1>1, <3>1, <3>2
  <2>4. CASE k \notin DOMAIN last
    BY <1>1, <1>6, <2>1, <2>2, <2>4
  <2> QED BY <2>3, <2>4
<1>10. BeingStored'
  <2>1. memory'.numbers.sender = n
    BY <1>1 DEF n
  <2> QED BY <1>1, <1>4, <1>6, <2>1 DEF BeingStored
<1>11. Emptied'
  BY <1>1 DEF Emptied
<1> QED BY <1>7, <1>8, <1>9, <1>10, <1>11 DEF DataInv

LEMMA WriteHeaderKeepsData ==
    ASSUME Records, DataInv, WriteHeader
    PROVE  DataInv'
<1> DEFINE n == memory.numbers.sender
<1> DEFINE h == files.header
<1> DEFINE slot == Len(files.body)
<1> DEFINE e == [num |-> n, offset |-> slot]
<1>1. StoreTypeOK /\ Cached /\ Filed /\ BeingStored
  BY DEF DataInv
<1>2. memory.offsets = WithSlot(Offsets(h), n, slot) /\ memory.numbers = files.seqnums
      /\ (files.session = Empty \/ memory.created = files.session)
  BY <1>1 DEF WriteHeader, Cached
<1>3. memory.offsets[n] = slot
  BY <1>2, Zenon DEF WithSlot
<1>4. /\ pc = "write header" /\ pc' = "write number" /\ task' = task /\ sets' = sets
      /\ files'.body = files.body /\ files'.header = Append(h, e)
      /\ files'.seqnums = files.seqnums /\ files'.session = files.session
      /\ memory' = memory /\ last' = last /\ torn' = torn /\ counted' = counted
      /\ window' = window /\ now' = now /\ crashes' = crashes
  BY <1>3 DEF WriteHeader, history, Records
<1>5. /\ n \in DOMAIN last /\ slot \in DOMAIN files.body /\ files.body[slot] = last[n]
  BY <1>1, <1>4 DEF BeingStored
<1>6. /\ n \in Positive /\ slot \in Positive /\ h \in Seq(Entry)
  BY <1>1, <1>5, FileTypes, LenProperties DEF Positive
<1>7. e \in Entry /\ e.num = n /\ e.offset = slot
  BY <1>6 DEF Entry
<1> HIDE DEF e
<1>8. Offsets(files'.header) = WithSlot(Offsets(h), n, slot) /\ files'.header \in Seq(Entry)
  <2>1. Offsets(Append(h, e)) = WithSlot(Offsets(h), e.num, e.offset)
    BY <1>6, <1>7, OffsetsOfAppend
  <2>2. Append(h, e) \in Seq(Entry)
    BY <1>6, <1>7, AppendProperties
  <2> QED BY <1>4, <1>7, <2>1, <2>2
<1> HIDE DEF n, h, slot
<1>9. StoreTypeOK'
  BY <1>1, <1>4, <1>8 DEF StoreTypeOK, Points, Entry
<1>10. Cached'
  BY <1>2, <1>4, <1>8 DEF Cached
<1>11. OnFile(files'.body, Offsets(files'.header), last', n)
  <2>1. n \in DOMAIN WithSlot(Offsets(h), n, slot) /\ WithSlot(Offsets(h), n, slot)[n] = slot
    BY Zenon DEF WithSlot
  <2> QED BY <1>4, <1>5, <1>8, <2>1 DEF OnFile
<1>12. Filed'
  <2> SUFFICES ASSUME NEW k \in 1 .. files.seqnums.sender - 1
               PROVE  IF k \in DOMAIN last
                      THEN OnFile(files.body, Offsets(files'.header), last, k)
                      ELSE torn \/ pc' \in {"unlink header", "unlink seqnums"}
    BY <1>4 DEF Filed
  <2>1. k # n
    BY <1>2, <1>6 DEF n, Positive
  <2>2. IF k \in DOMAIN last THEN OnFile(files.body, Offsets(h), last, k) ELSE torn
    BY <1>1, <1>4 DEF Filed, h
  <2>3. CASE k \in DOMAIN last
    BY <1>8, <2>1, <2>2, <2>3, HeaderGrows
  <2> QED BY <2>2, <2>3
<1>13. BeingStored'
  <2>1. memory'.numbers.sender = n
    BY <1>4 DEF n
  <2> QED BY <1>4, <1>5, <1>11, <2>1 DEF BeingStored, slot
<1>14. Emptied'
  BY <1>4 DEF Emptied
<1> QED BY <1>9, <1>10, <1>12, <1>13, <1>14 DEF DataInv

\* The numbers on disk go up.
LEMMA CountsTyped ==
    ASSUME NEW numbers \in Numbers
    PROVE  /\ [numbers EXCEPT !.sender = @ + 1] \in Numbers
           /\ [numbers EXCEPT !.target = @ + 1] \in Numbers
           /\ [numbers EXCEPT !.sender = @ + 1].sender = numbers.sender + 1
           /\ [numbers EXCEPT !.target = @ + 1].sender = numbers.sender
  BY DEF Numbers, Positive

LEMMA CountSentKeepsData ==
    ASSUME Records, DataInv, CountSent
    PROVE  DataInv'
<1> DEFINE n == memory.numbers.sender
<1> DEFINE numbers == [memory.numbers EXCEPT !.sender = @ + 1]
<1>1. StoreTypeOK /\ Cached /\ Filed /\ BeingStored
  BY DEF DataInv
<1>2. /\ pc = "write number" /\ pc' \in {"reset", "idle"} /\ task' = task /\ sets' = sets
      /\ files'.body = files.body /\ files'.header = files.header
      /\ files'.seqnums = numbers /\ files'.session = files.session
      /\ memory'.offsets = memory.offsets /\ memory'.numbers = numbers
      /\ memory'.created = memory.created
      /\ last' = last /\ torn' = torn /\ (counted' = now \/ counted' = counted)
      /\ window' = window /\ now' = now /\ crashes' = crashes
  BY DEF CountSent, SaveNumbers, Records
<1>3. numbers \in Numbers /\ numbers.sender = n + 1 /\ n \in Positive
  BY <1>1, FileTypes, CountsTyped
<1>4. memory.numbers = files.seqnums /\ memory.offsets = Offsets(files.header)
      /\ (files.session = Empty \/ memory.created = files.session)
  BY <1>1, <1>2 DEF Cached
<1>5. n \in DOMAIN last /\ OnFile(files.body, Offsets(files.header), last, n)
  BY <1>1, <1>2 DEF BeingStored
<1> HIDE DEF numbers, n
<1>6. StoreTypeOK'
  BY <1>1, <1>2, <1>3 DEF StoreTypeOK, Points
<1>7. Cached'
  BY <1>2, <1>4 DEF Cached
<1>8. Filed'
  <2> SUFFICES ASSUME NEW k \in 1 .. (n + 1) - 1
               PROVE  IF k \in DOMAIN last
                      THEN OnFile(files.body, Offsets(files.header), last, k)
                      ELSE torn
    BY <1>2, <1>3 DEF Filed
  <2>1. k = n \/ k \in 1 .. n - 1
    BY <1>3 DEF Positive
  <2>2. CASE k = n
    BY <1>5, <2>2
  <2>3. CASE k \in 1 .. n - 1
    BY <1>1, <1>2, <1>4, <2>3 DEF Filed, n
  <2> QED BY <2>1, <2>2, <2>3
<1>9. BeingStored'
  BY <1>2 DEF BeingStored
<1>10. Emptied'
  BY <1>2 DEF Emptied
<1> QED BY <1>6, <1>7, <1>8, <1>9, <1>10 DEF DataInv

LEMMA CountReceivedKeepsData ==
    ASSUME Records, DataInv, CountReceived
    PROVE  DataInv'
<1> DEFINE numbers == [memory.numbers EXCEPT !.target = @ + 1]
<1>1. StoreTypeOK /\ Cached /\ Filed /\ BeingStored
  BY DEF DataInv
<1>2. /\ pc = "idle" /\ pc' = pc /\ task' = task /\ sets' = sets
      /\ files'.body = files.body /\ files'.header = files.header
      /\ files'.seqnums = numbers /\ files'.session = files.session
      /\ memory'.offsets = memory.offsets /\ memory'.numbers = numbers
      /\ memory'.created = memory.created
      /\ last' = last /\ torn' = torn /\ (counted' = now \/ counted' = counted)
      /\ window' = window /\ now' = now /\ crashes' = crashes
  BY DEF CountReceived, SaveNumbers, Records
<1>3. numbers \in Numbers /\ numbers.sender = memory.numbers.sender
  BY <1>1, FileTypes, CountsTyped
<1>4. memory.numbers = files.seqnums /\ memory.offsets = Offsets(files.header)
      /\ (files.session = Empty \/ memory.created = files.session)
  BY <1>1, <1>2 DEF Cached
<1> HIDE DEF numbers
<1>5. StoreTypeOK'
  BY <1>1, <1>2, <1>3 DEF StoreTypeOK
<1>6. Cached'
  BY <1>2, <1>4 DEF Cached
<1>7. files'.seqnums.sender = files.seqnums.sender
  BY <1>2, <1>3, <1>4
<1>8. Filed'
  BY <1>1, <1>2, <1>7 DEF Filed
<1>9. BeingStored'
  BY <1>2 DEF BeingStored
<1>10. Emptied'
  BY <1>2 DEF Emptied
<1> QED BY <1>5, <1>6, <1>8, <1>9, <1>10 DEF DataInv

LEMMA NoNumberYet ==
    /\ DOMAIN <<>> = {}
    /\ NoNumbers \in Numbers /\ NoNumbers.sender = 1
    /\ <<>> \in Seq(Positive) /\ <<>> \in Seq([num : Positive, offset : Positive])
<1>1. NoNumbers \in Numbers /\ NoNumbers.sender = 1
  BY DEF NoNumbers, Numbers, Positive
<1> QED BY <1>1, EmptySeq

LEMMA BeginResetKeepsData ==
    ASSUME Records, DataInv, BeginReset
    PROVE  DataInv'
<1>1. /\ pc' = "unlink header" /\ task' = "none" /\ sets' = sets
      /\ files'.body = <<>> /\ files'.header = files.header
      /\ files'.seqnums = files.seqnums /\ files'.session = files.session
      /\ memory'.offsets = <<>> /\ memory'.numbers = NoNumbers /\ memory'.created = now
      /\ last' = <<>> /\ torn' = torn /\ counted' = counted
      /\ window' = window /\ now' = now /\ crashes' = crashes
  BY DEF BeginReset, BeginResetOf, Records
<1>2. DOMAIN last' = {} /\ DOMAIN memory'.offsets = {}
  BY <1>1, NoNumberYet, Zenon
<1>3. StoreTypeOK'
  <2>1. files'.body \in Seq(Positive) /\ NoNumbers \in Numbers
    BY <1>1, NoNumberYet
  <2> QED BY <1>1, <1>2, <2>1 DEF DataInv, StoreTypeOK, Points
<1>4. Cached'
  BY <1>1 DEF Cached
<1>5. Emptied'
  BY <1>1 DEF Emptied
<1>6. Filed'
  BY <1>1, <1>2 DEF Filed
<1>7. BeingStored'
  BY <1>1 DEF BeingStored
<1> QED BY <1>3, <1>4, <1>5, <1>6, <1>7 DEF DataInv

LEMMA UnlinksKeepData ==
    ASSUME Records, DataInv, UnlinkHeader \/ UnlinkSeqnums \/ UnlinkSession
    PROVE  DataInv'
<1>1. /\ task' = task /\ sets' = sets /\ memory' = memory /\ files'.body = files.body
      /\ last' = last /\ counted' = counted
      /\ window' = window /\ now' = now /\ crashes' = crashes
  BY DEF UnlinkHeader, UnlinkSeqnums, UnlinkSeqnumsLeaving, UnlinkSession, history, Records
<1>2. NoNumbers \in Numbers /\ <<>> \in Seq([num : Positive, offset : Positive])
      /\ 1 .. NoNumbers.sender - 1 = {} /\ DOMAIN <<>> = {}
  BY NoNumberYet
<1>3. StoreTypeOK /\ Cached /\ Emptied /\ Filed
  BY DEF DataInv
<1>4. CASE UnlinkHeader
  <2>1. /\ pc = "unlink header" /\ pc' = "unlink seqnums" /\ torn' = torn
        /\ files'.header = <<>> /\ files'.seqnums = files.seqnums
        /\ files'.session = files.session
    BY <1>4 DEF UnlinkHeader, history, Records
  <2>2. StoreTypeOK'
    BY <1>1, <1>2, <1>3, <2>1 DEF StoreTypeOK, Points
  <2>3. Cached' /\ Emptied' /\ BeingStored'
    BY <1>1, <1>3, <2>1 DEF Cached, Emptied, BeingStored
  <2>4. Filed'
    BY <1>1, <1>2, <1>3, <2>1 DEF Filed, Emptied
  <2> QED BY <2>2, <2>3, <2>4 DEF DataInv
<1>5. CASE UnlinkSeqnums
  <2>1. /\ pc = "unlink seqnums" /\ pc' = "unlink session" /\ torn' \in BOOLEAN
        /\ files'.header = files.header /\ files'.seqnums = NoNumbers
        /\ files'.session = files.session
    BY <1>5 DEF UnlinkSeqnums, UnlinkSeqnumsLeaving, Records
  <2>2. StoreTypeOK'
    BY <1>1, <1>2, <1>3, <2>1 DEF StoreTypeOK, Points
  <2>3. Cached'
    BY <1>1, <1>3, <2>1, OffsetsOfNone DEF Cached, Emptied
  <2>4. Emptied' /\ BeingStored'
    BY <1>1, <1>3, <2>1 DEF Emptied, BeingStored
  <2>5. Filed'
    BY <1>2, <2>1, Zenon DEF Filed
  <2> QED BY <2>2, <2>3, <2>4, <2>5 DEF DataInv
<1>6. CASE UnlinkSession
  <2>1. /\ pc = "unlink session" /\ pc' = "create session" /\ torn' = torn
        /\ files'.header = files.header /\ files'.seqnums = files.seqnums
        /\ files'.session = Missing
    BY <1>6 DEF UnlinkSession, history, Records
  <2>2. StoreTypeOK'
    BY <1>1, <1>3, <2>1 DEF StoreTypeOK, Points
  <2>3. Cached' /\ Emptied' /\ BeingStored'
    BY <1>1, <1>3, <2>1 DEF Cached, Emptied, BeingStored
  <2>4. Filed'
    BY <1>1, <1>3, <2>1 DEF Filed
  <2> QED BY <2>2, <2>3, <2>4 DEF DataInv
<1> QED BY <1>4, <1>5, <1>6

LEMMA SessionFileKeepsData ==
    ASSUME Records, DataInv, CreateSession \/ WriteSession
    PROVE  DataInv'
<1>1. /\ pc \in {"create session", "write session"} /\ task' = task /\ sets' = sets
      /\ memory' = memory /\ files'.body = files.body /\ files'.header = files.header
      /\ files'.seqnums = files.seqnums
      /\ last' = last /\ torn' = torn /\ counted' = counted
      /\ window' = window /\ now' = now /\ crashes' = crashes
      /\ \/ pc' = "write session" /\ files'.session = Empty
         \/ pc' \in {"check time", "idle"} /\ files'.session = memory.created
  BY DEF CreateSession, WriteSession, history, Records
<1>2. StoreTypeOK /\ Cached /\ Emptied /\ Filed
  BY DEF DataInv
<1>3. StoreTypeOK'
  BY <1>1, <1>2 DEF StoreTypeOK, Points
<1>4. Cached' /\ Emptied' /\ BeingStored'
  BY <1>1, <1>2 DEF Cached, Emptied, BeingStored
<1>5. Filed'
  BY <1>1, <1>2 DEF Filed
<1> QED BY <1>3, <1>4, <1>5 DEF DataInv

\* Loading the cache from the files.
LEMMA LoadingKeepsData ==
    ASSUME Clock, SessionGoesLast, Records, DataInv, Start \/ Refresh
    PROVE  DataInv'
<1>1. /\ memory' = LoadedFrom(files)
      /\ memory'.offsets = Offsets(files.header) /\ memory'.numbers = files.seqnums
      /\ memory'.created = CreationTime(files)
      /\ files' = files /\ sets' = sets /\ last' = last /\ torn' = torn /\ counted' = counted
      /\ window' = window /\ now' = now /\ crashes' = crashes
      /\ pc \in {"down", "idle"} /\ pc' \in {"create session", "check time", "idle"}
      /\ pc' # "create session" => files.session # Missing
      /\ task' \in {task, "constructor"}
  <2>1. CASE Start
    BY <2>1 DEF Start, history, LoadedFrom
  <2>2. CASE Refresh
    BY <2>2 DEF Refresh, history, LoadedFrom, SessionGoesLast
  <2> QED BY <2>1, <2>2
<1>2. StoreTypeOK /\ Cached /\ Emptied /\ Filed
  BY DEF DataInv
<1>3. StoreTypeOK'
  <2>1. \A n \in DOMAIN memory'.offsets : n \in Positive /\ memory'.offsets[n] \in Positive
    BY <1>1, <1>2, FileTypes, OffsetsTyped
  <2>2. memory'.created \in Nat
    BY <1>1, <1>2 DEF CreationTime, StoreTypeOK
  <2> QED BY <1>1, <1>2, <2>1, <2>2 DEF StoreTypeOK, Points
<1>4. Cached'
  BY <1>1, <1>2 DEF Cached, CreationTime
<1>5. Emptied' /\ BeingStored'
  BY <1>1 DEF Emptied, BeingStored
<1>6. Filed'
  BY <1>1, <1>2 DEF Filed
<1> QED BY <1>3, <1>4, <1>5, <1>6 DEF DataInv

\* A crash forgets the cache, and makes note of a reset it interrupts.
LEMMA CrashKeepsData ==
    ASSUME Records, DataInv, Crash
    PROVE  DataInv'
<1>1. /\ files' = files /\ memory' = NoMemory /\ sets' = sets /\ last' = last
      /\ counted' = counted /\ window' = window /\ now' = now /\ crashes' = crashes + 1
      /\ pc' = "down" /\ task' = "none"
      /\ torn' = (torn \/ pc \in {"unlink header", "unlink seqnums"})
  BY DEF Crash
<1>2. StoreTypeOK /\ Cached /\ Emptied /\ Filed
  BY DEF DataInv
<1>3. StoreTypeOK'
  <2>1. /\ NoMemory.numbers \in Numbers /\ NoMemory.created \in Nat
        /\ DOMAIN NoMemory.offsets = {}
    BY DEF NoMemory, NoNumbers, Numbers, Positive
  <2>2. torn' \in BOOLEAN
    BY <1>1
  <2>3. crashes' \in Nat
    <3>1. crashes \in Nat
      BY <1>2 DEF StoreTypeOK
    <3> QED BY <1>1, <3>1, NextNatural
  <2> QED BY <1>1, <1>2, <2>1, <2>2, <2>3 DEF StoreTypeOK, Points
<1>4. Cached' /\ Emptied' /\ BeingStored'
  BY <1>1 DEF Cached, Emptied, BeingStored
<1>5. Filed'
  BY <1>1, <1>2 DEF Filed
<1> QED BY <1>3, <1>4, <1>5 DEF DataInv

LEMMA QuietStepsKeepData ==
    ASSUME SessionGoesLast, Records, DataInv, Started \/ Tick \/ UNCHANGED vars
    PROVE  DataInv'
<1>1. /\ files' = files /\ memory' = memory /\ sets' = sets /\ last' = last
      /\ torn' = torn /\ counted' = counted /\ window' = window /\ crashes' = crashes
      /\ \/ pc = "check time" /\ pc' = "idle" /\ task' = "none" /\ now' = now
         \/ pc' = pc /\ task' = task /\ (now' = now + 1 \/ now' = now)
  BY DEF Started, Tick, history, vars
<1>2. StoreTypeOK /\ Cached /\ Emptied /\ Filed /\ BeingStored
  BY DEF DataInv
<1>3. StoreTypeOK'
  <2>1. now \in Nat /\ pc \in Points /\ task \in {"none", "constructor", "clock"}
    BY <1>2 DEF StoreTypeOK
  <2>2. now + 1 \in Nat /\ "idle" \in Points
    BY <2>1, NextNatural DEF Points
  <2>3. now' \in Nat /\ pc' \in Points /\ task' \in {"none", "constructor", "clock"}
    BY <1>1, <2>1, <2>2
  <2> QED BY <1>1, <1>2, <2>3 DEF StoreTypeOK
<1>4. Cached' /\ Emptied'
  BY <1>1, <1>2 DEF Cached, Emptied
<1>5. Filed'
  BY <1>1, <1>2 DEF Filed
<1>6. BeingStored'
  BY <1>1, <1>2 DEF BeingStored
<1> QED BY <1>3, <1>4, <1>5, <1>6 DEF DataInv

\* The files and the cache agree, write by write, and every message that was
\* counted is where they say.
LEMMA DataInvariant == Spec => []DataInv
<1>1. ASSUME ClockInv, DataInv, [Next]_vars
      PROVE  DataInv'
  <2>1. Records /\ Clock /\ SessionGoesLast
    BY <1>1 DEF ClockInv, TimesInv
  <2>2. CASE Storing
    BY <1>1, <2>1, <2>2, WriteBodyKeepsData, WriteHeaderKeepsData, CountSentKeepsData,
       CountReceivedKeepsData DEF Storing, WriteBody
  <2>3. CASE Resetting
    BY <1>1, <2>1, <2>3, BeginResetKeepsData, UnlinksKeepData, SessionFileKeepsData
       DEF Resetting, ResetStore
  <2>4. CASE Starting
    BY <1>1, <2>1, <2>4, LoadingKeepsData, QuietStepsKeepData, BeginResetKeepsData
       DEF Starting, ResetAtStart
  <2>5. CASE Clocked
    BY <1>1, <2>1, <2>5, WriteBodyKeepsData, BeginResetKeepsData
       DEF Clocked, LogoutByClock, ResetByClock
  <2>6. CASE Refresh
    BY <1>1, <2>1, <2>6, LoadingKeepsData
  <2>7. CASE Crash
    BY <1>1, <2>1, <2>7, CrashKeepsData
  <2>8. CASE Tick \/ UNCHANGED vars
    BY <1>1, <2>1, <2>8, QuietStepsKeepData
  <2> QED BY <1>1, <2>2, <2>3, <2>4, <2>5, <2>6, <2>7, <2>8 DEF Next
<1> QED BY InitDataInv, ClockInvariant, <1>1, PTL DEF Spec

\* The files, the cache and the history always have their types.
THEOREM StoreTypesHold == Spec => []StoreTypeOK
<1>1. DataInv => StoreTypeOK
  BY DEF DataInv
<1> QED BY DataInvariant, <1>1, PTL

\* Between operations a crash or a refresh loses nothing, whatever writes and
\* resets were interrupted before.
THEOREM NothingToLoseHolds == Spec => []NothingToLose
<1>1. ASSUME ClockInv, DataInv, pc = "idle"
      PROVE  LET loaded == LoadedFrom(files)
             IN  /\ loaded.offsets = memory.offsets /\ loaded.numbers = memory.numbers
                 /\ files.session = Empty \/ loaded.created = memory.created
  <2>1. /\ memory.offsets = Offsets(files.header) /\ memory.numbers = files.seqnums
        /\ files.session = Empty \/ memory.created = files.session
    BY <1>1 DEF DataInv, Cached
  <2>2. files.session # Missing
    BY <1>1 DEF ClockInv, TimesInv, SessionGoesLast
  <2> QED BY <2>1, <2>2 DEF LoadedFrom, CreationTime
<1>2. ClockInv /\ DataInv => NothingToLose
  BY <1>1 DEF NothingToLose
<1> QED BY ClockInvariant, DataInvariant, <1>2, PTL

\* A counted number reads as the message last stored under it, and has one
\* unless a reset was interrupted.
THEOREM ReadsLastStoredHolds == Spec => []ReadsLastStored
<1>1. ASSUME DataInv, pc = "idle", NEW n \in 1 .. memory.numbers.sender - 1
      PROVE  IF n \in DOMAIN last
             THEN Reads(n) /\ files.body[memory.offsets[n]] = last[n]
             ELSE torn
  <2>1. memory.offsets = Offsets(files.header) /\ memory.numbers = files.seqnums
    BY <1>1 DEF DataInv, Cached
  <2>2. IF n \in DOMAIN last THEN OnFile(files.body, memory.offsets, last, n) ELSE torn
    BY <1>1, <2>1 DEF DataInv, Filed
  <2> QED BY <2>2 DEF OnFile, Reads
<1>2. DataInv => ReadsLastStored
  BY <1>1 DEF ReadsLastStored
<1> QED BY DataInvariant, <1>2, PTL
=============================================================================
