----------------------------- MODULE TimeRange -----------------------------
(***************************************************************************)
(* The daily session windows of QuickFIX/src/C++/TimeRange.cpp.  A window  *)
(* with start > end runs over midnight.  Times count ticks, Day to a day;  *)
(* weekly windows are left out.                                            *)
(***************************************************************************)
EXTENDS Integers

CONSTANT Day

ASSUME DayAssumption == Day \in Nat \ {0}

TimeOfDay(t) == t % Day
Date(t) == t \div Day

\* A window with start = end goes round the clock; it is taken to begin at
\* midnight, which is when the code ends it.
Windows ==
    {w \in [start : 0 .. Day - 1, end : 0 .. Day - 1] : w.start = w.end => w.start = 0}

Overnight(w) == w.start > w.end

isInRange(w, t) ==
    IF w.start < w.end THEN TimeOfDay(t) >= w.start /\ TimeOfDay(t) <= w.end
    ELSE TimeOfDay(t) >= w.start \/ TimeOfDay(t) <= w.end

\* Mutant: the length of a window in the middle of the day.
SessionLengthOfDay(w) == w.start - w.end

SessionLength(w) == Day - (w.start - w.end)

\* How far into its session an overnight session's time t is.
Elapsed(w, t) ==
    LET delta == TimeOfDay(t) - w.start
    IN  IF delta < 0 THEN Day + delta ELSE delta

isInSameRange(w, t1, t2) ==
    /\ isInRange(w, t1) /\ isInRange(w, t2)
    /\ \/ t1 = t2
       \/ ~Overnight(w) /\ Date(t1) = Date(t2)
       \/ Overnight(w) /\ t1 > t2 /\ t1 - t2 < SessionLength(w) - Elapsed(w, t2)
       \/ Overnight(w) /\ t1 < t2 /\ t2 - t1 < SessionLength(w)

(***************************************************************************)
(* What the code is about: the number of the session that a time lies in.  *)
(***************************************************************************)
SessionOf(w, t) == (t - w.start) \div Day

SameSession(w, t1, t2) ==
    isInRange(w, t1) /\ isInRange(w, t2) /\ SessionOf(w, t1) = SessionOf(w, t2)

\* The last tick of an overnight session, which the code already takes for the
\* next session unless the store was created in that tick.
ClosingTick(w, t) == Overnight(w) /\ TimeOfDay(t) = w.end
=============================================================================
