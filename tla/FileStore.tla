----------------------------- MODULE FileStore -----------------------------
(***************************************************************************)
(* The message store of a QuickFIX session on disk,                        *)
(* QuickFIX/src/C++/FileStore.cpp: four files that are written one after    *)
(* the other, and the copy in memory that is loaded from them.  The process *)
(* may stop between any two writes.  The caller is a Session: it stores a   *)
(* message and then counts it, counts what it receives, and resets the      *)
(* store for a logon or, having stored a Logout, when the session time has  *)
(* passed.                                                                  *)
(*                                                                         *)
(* A message takes one slot of the body; a missing file counts as an empty  *)
(* one, but for the session file.                                           *)
(***************************************************************************)
EXTENDS Integers, Sequences, FiniteSetsExt, TimeRange

CONSTANTS
    MaxSets,       \* messages stored, Logouts included
    MaxTarget,     \* received messages counted
    MaxCrashes,
    MaxTime        \* ticks of the clock

ASSUME StoreBoundsAssumption == {MaxSets, MaxTarget, MaxCrashes, MaxTime} \subseteq Nat

VARIABLES
    files,     \* what is on disk
    memory,    \* m_cache and m_offsets
    pc,        \* which write comes next
    task,      \* what the writes are part of: the constructor of the session, or
               \* a reset by its clock
    window,    \* the session time
    now,
    sets, crashes,
    last,      \* (history) the message last stored under each number since the last reset
    torn,      \* (history) a reset was interrupted with the body gone and the numbers not
    counted    \* (history) when the oldest message was counted in the numbers on disk

history == <<last, torn, counted>>
vars == <<files, memory, pc, task, window, now, sets, crashes, last, torn, counted>>

\* What the session file may be instead of a time.
Missing == -1
Empty == -2

\* Mutant: the numbers start at zero.
NoNumbersZero == [sender |-> 0, target |-> 0]

NoNumbers == [sender |-> 1, target |-> 1]

NoFiles == [body |-> <<>>, header |-> <<>>, seqnums |-> NoNumbers, session |-> Missing]

NoMemory == [offsets |-> <<>>, numbers |-> NoNumbers, created |-> 0]

Positive == Nat \ {0}
Numbers == [sender : Positive, target : Positive]
Points ==
    {"down", "idle", "write header", "write number", "unlink header", "unlink seqnums",
     "unlink session", "create session", "write session", "check time", "reset"}

(***************************************************************************)
(* FileStore::populateCache                                                *)
(***************************************************************************)
\* A number that occurs twice in the header stands for its last message.
Occurrences(header, n) == {i \in DOMAIN header : header[i].num = n}

OffsetsBy(header, Choice(_)) ==
    [n \in {header[i].num : i \in DOMAIN header} |->
        header[Choice(Occurrences(header, n))].offset]

\* Mutant: the first entry of a number stays.
OffsetsFirst(header) == OffsetsBy(header, Min)

Offsets(header) == OffsetsBy(header, Max)

CreationTime(f) == IF f.session \in {Missing, Empty} THEN now ELSE f.session

LoadedFrom(f) ==
    [offsets |-> Offsets(f.header), numbers |-> f.seqnums, created |-> CreationTime(f)]

(***************************************************************************)
(* FileStore::set in Session::persist: body, header, numbers               *)
(***************************************************************************)
StoreUnder(n, slot) ==
    memory' = [memory EXCEPT !.offsets =
                  [k \in DOMAIN @ \cup {n} |-> IF k = n THEN slot ELSE @[k]]]

WriteBodyFor(purpose) ==
    LET n == memory.numbers.sender
        m == sets + 1
    IN  /\ pc = "idle" /\ sets < MaxSets
        /\ files' = [files EXCEPT !.body = Append(@, m)]
        /\ StoreUnder(n, Len(files.body) + 1)
        /\ last' = [k \in DOMAIN last \cup {n} |-> IF k = n THEN m ELSE last[k]]
        /\ sets' = sets + 1
        /\ pc' = "write header" /\ task' = purpose
        /\ UNCHANGED <<window, now, crashes, torn, counted>>

WriteBody == WriteBodyFor("none")

WriteHeader ==
    LET n == memory.numbers.sender
    IN  /\ pc = "write header"
        /\ files' = [files EXCEPT !.header = Append(@, [num |-> n, offset |-> memory.offsets[n]])]
        /\ pc' = "write number"
        /\ UNCHANGED <<memory, task, window, now, sets, crashes, history>>

\* setSeqNum
SaveNumbers(numbers) ==
    /\ memory' = [memory EXCEPT !.numbers = numbers]
    /\ files' = [files EXCEPT !.seqnums = numbers]
    /\ counted' = IF files.seqnums = NoNumbers THEN now ELSE counted

CountSent ==
    /\ pc = "write number"
    /\ SaveNumbers([memory.numbers EXCEPT !.sender = @ + 1])
    /\ pc' = IF task = "clock" THEN "reset" ELSE "idle"
    /\ UNCHANGED <<task, window, now, sets, crashes, last, torn>>

CountReceived ==
    /\ pc = "idle" /\ memory.numbers.target <= MaxTarget
    /\ SaveNumbers([memory.numbers EXCEPT !.target = @ + 1])
    /\ UNCHANGED <<pc, task, window, now, sets, crashes, last, torn>>

(***************************************************************************)
(* FileStore::reset: the files are unlinked one by one and made anew       *)
(***************************************************************************)
BeginResetOf(survivors) ==
    /\ memory' = [offsets |-> <<>>, numbers |-> NoNumbers, created |-> now]
    /\ files' = [survivors EXCEPT !.body = <<>>]
    /\ last' = <<>>
    /\ pc' = "unlink header"
    /\ task' = "none"
    /\ UNCHANGED <<window, now, sets, crashes, torn, counted>>

\* Mutant: the session file goes first.
BeginResetOfSession == BeginResetOf([files EXCEPT !.session = Missing])

BeginReset == BeginResetOf(files)

ResetStore == pc = "idle" /\ BeginReset

UnlinkHeader ==
    /\ pc = "unlink header"
    /\ files' = [files EXCEPT !.header = <<>>]
    /\ pc' = "unlink seqnums"
    /\ UNCHANGED <<memory, task, window, now, sets, crashes, history>>

UnlinkSeqnumsLeaving(numbers) ==
    /\ pc = "unlink seqnums"
    /\ files' = [files EXCEPT !.seqnums = numbers]
    /\ torn' = FALSE
    /\ pc' = "unlink session"
    /\ UNCHANGED <<memory, task, window, now, sets, crashes, last, counted>>

\* Mutant: the numbers are forgotten in memory only.
UnlinkSeqnumsNot == UnlinkSeqnumsLeaving(files.seqnums)

UnlinkSeqnums == UnlinkSeqnumsLeaving(NoNumbers)

UnlinkSession ==
    /\ pc = "unlink session"
    /\ files' = [files EXCEPT !.session = Missing]
    /\ pc' = "create session"
    /\ UNCHANGED <<memory, task, window, now, sets, crashes, history>>

CreateSession ==
    /\ pc = "create session"
    /\ files' = [files EXCEPT !.session = Empty]
    /\ pc' = "write session"
    /\ UNCHANGED <<memory, task, window, now, sets, crashes, history>>

\* setSession
WriteSession ==
    /\ pc = "write session"
    /\ files' = [files EXCEPT !.session = memory.created]
    /\ pc' = IF task = "constructor" THEN "check time" ELSE "idle"
    /\ UNCHANGED <<memory, task, window, now, sets, crashes, history>>

(***************************************************************************)
(* The session: its constructor, its clock and its refresh                 *)
(***************************************************************************)
checkSessionTime == isInSameRange(window, now, memory.created)

Start ==
    /\ pc = "down"
    /\ memory' = LoadedFrom(files)
    /\ task' = "constructor"
    /\ pc' = IF files.session = Missing THEN "create session" ELSE "check time"
    /\ UNCHANGED <<files, window, now, sets, crashes, history>>

Started ==
    /\ pc = "check time" /\ checkSessionTime
    /\ task' = "none" /\ pc' = "idle"
    /\ UNCHANGED <<files, memory, window, now, sets, crashes, history>>

ResetAtStart == pc = "check time" /\ ~checkSessionTime /\ BeginReset

\* Session::reset in Session::next and Session::setResponder: a Logout, then the
\* reset of the store.
LogoutByClock == ~checkSessionTime /\ WriteBodyFor("clock")

ResetByClock == pc = "reset" /\ BeginReset

Refresh ==
    /\ pc = "idle"
    /\ memory' = LoadedFrom(files)
    /\ UNCHANGED <<files, pc, task, window, now, sets, crashes, history>>

Crash ==
    /\ pc # "down" /\ crashes < MaxCrashes
    /\ crashes' = crashes + 1
    /\ torn' = (torn \/ pc \in {"unlink header", "unlink seqnums"})
    /\ pc' = "down" /\ task' = "none"
    /\ memory' = NoMemory
    /\ UNCHANGED <<files, window, now, sets, last, counted>>

Tick ==
    /\ now < MaxTime
    /\ now' = now + 1
    /\ UNCHANGED <<files, memory, pc, task, window, sets, crashes, history>>

Init ==
    /\ files = NoFiles
    /\ memory = NoMemory
    /\ pc = "down" /\ task = "none"
    /\ window \in Windows
    /\ now = 0
    /\ sets = 0 /\ crashes = 0
    /\ last = <<>> /\ torn = FALSE /\ counted = 0

Storing == WriteBody \/ WriteHeader \/ CountSent \/ CountReceived

Resetting ==
    \/ ResetStore \/ UnlinkHeader \/ UnlinkSeqnums \/ UnlinkSession
    \/ CreateSession \/ WriteSession

Starting == Start \/ Started \/ ResetAtStart

Clocked == LogoutByClock \/ ResetByClock

Next == Storing \/ Resetting \/ Starting \/ Clocked \/ Refresh \/ Crash \/ Tick

Spec == Init /\ [][Next]_vars

(***************************************************************************)
(* Properties                                                              *)
(***************************************************************************)
\* Every part of the state has its type.
StoreTypeOK ==
    /\ files.body \in Seq(Positive)
    /\ files.header \in Seq([num : Positive, offset : Positive])
    /\ files.seqnums \in Numbers /\ memory.numbers \in Numbers
    /\ files.session \in Nat \cup {Missing, Empty} /\ memory.created \in Nat
    /\ \A n \in DOMAIN memory.offsets : n \in Positive /\ memory.offsets[n] \in Positive
    /\ pc \in Points /\ task \in {"none", "constructor", "clock"} /\ torn \in BOOLEAN
    /\ window \in Windows /\ {now, sets, crashes, counted} \subseteq Nat
    /\ \A n \in DOMAIN last : n \in Positive /\ last[n] \in Positive

\* Between operations a crash or a refresh loses nothing: what would be loaded
\* is what is in memory, whatever was interrupted before.
NothingToLose ==
    pc = "idle" =>
        LET loaded == LoadedFrom(files)
        IN  /\ loaded.offsets = memory.offsets /\ loaded.numbers = memory.numbers
            /\ files.session = Empty \/ loaded.created = memory.created

Reads(n) == n \in DOMAIN memory.offsets /\ memory.offsets[n] \in DOMAIN files.body

\* A number that was counted reads as the message last stored under it, through
\* crashes between the writes and numbers used again; and unless a reset was
\* interrupted every counted number has one.
ReadsLastStored ==
    pc = "idle" =>
        \A n \in 1 .. memory.numbers.sender - 1 :
            IF n \in DOMAIN last
            THEN Reads(n) /\ files.body[memory.offsets[n]] = last[n]
            ELSE torn

\* A session that starts over finds no numbers of an earlier session, even when
\* the reset between them was interrupted: the file with the time of creation is
\* the last to go.  A crash that leaves this file empty is the exception: from
\* then on the store seems as young as the process.
OldNumbersForgotten ==
    [][Started /\ files.seqnums # NoNumbers /\ files.session # Empty
        => SameSession(window, counted, now)]_vars

\* The clock ends a session, and resets its store, only when its time is over,
\* or in the closing tick of an overnight session.
KeptThroughSession ==
    [][LogoutByClock \/ ResetAtStart
        => ~SameSession(window, memory.created, now) \/ ClosingTick(window, now)]_vars
============================================================================
