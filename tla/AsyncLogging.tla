----------------------------- MODULE AsyncLogging -----------------------------
(***************************************************************************)
(* AsyncLogging and the LogFile it writes.  Threads append lines to           *)
(* currentBuffer_ under mutex_; the back-end thread takes the filled buffers,  *)
(* writes them to the log file, rolls and flushes it, and gives two of the     *)
(* buffers back for the next turn.  main stops it at the end of the program.   *)
(*                                                                         *)
(* The model begins when start() has returned.  A line is its number, in the   *)
(* order of the calls to append, with its length.  Between fwrite and the file *)
(* is the buffer of stdio, which spills a prefix whenever it likes; writing,    *)
(* flushing and closing can fail.                                              *)
(***************************************************************************)
EXTENDS Integers, Sequences, FiniteSets, SequencesExt

CONSTANTS
    BufferSize,     \* kLargeBufferSize
    Lengths,        \* the lengths of lines; LogStream cuts them at kSmallBufferSize
    RollSize,       \* rollSize_
    FlushInterval,  \* flushInterval_ of the LogFile
    CheckEveryN,    \* checkEveryN_
    Day,            \* kRollPerSeconds_
    MaxLines,       \* bound: lines appended
    MaxTime,        \* bound: the clock
    MaxErrors       \* bound: failed writes, flushes and closes

ASSUME LinesFit == \A l \in Lengths : l \in Nat \ {0} /\ l < BufferSize
ASSUME LogLimits ==
    /\ RollSize \in Nat /\ FlushInterval \in Nat /\ CheckEveryN \in Nat \ {0}
    /\ Day \in Nat \ {0}

VARIABLES
    current, next,          \* currentBuffer_ and nextBuffer_
    buffers,                \* buffers_
    running,                \* running_
    appended,               \* the number of lines so far
    pc,                     \* where the back-end thread is
    newbuffer1, newbuffer2, \* its spare buffers
    toWrite, written,       \* buffersToWrite, and how many of them are written
    out,                    \* the LogFile
    clock, errors,
    caller                  \* main: "running", "stopping", "joining", "joined"

front == <<current, next, buffers, appended>>
back == <<newbuffer1, newbuffer2, toWrite, written>>
env == <<clock, errors>>
logVars == <<front, running, pc, back, out, env, caller>>

NoBuffer == << [n |-> 0, len |-> 0] >>      \* a BufferPtr that is null
Numbers(lines) == {lines[i].n : i \in DOMAIN lines}
Size(lines) == FoldLeft(LAMBDA sum, line : sum + line.len, 0, lines)
avail(buffer) == BufferSize - Size(buffer)

\* count_ is not initialised: any number, and only whether it has reached
\* checkEveryN_ matters.
LogInit ==
    /\ current = <<>> /\ next = <<>> /\ buffers = <<>>
    /\ running = TRUE
    /\ appended = 0
    /\ pc = "check"
    /\ newbuffer1 = <<>> /\ newbuffer2 = <<>>
    /\ toWrite = <<>> /\ written = 0
    /\ clock = 1 /\ errors = 0
    /\ \E c \in 0..CheckEveryN :
         out = [disk |-> <<>>, stdio |-> <<>>, lost |-> {}, bytes |-> 0, count |-> c,
                lastRoll |-> clock, lastFlush |-> clock, period |-> clock \div Day]
    /\ caller = "running"

-----------------------------------------------------------------------------
(* The front end.                                                            *)

\* notify_one wakes the back end if it waits.
Notified == IF pc = "wait" THEN "swap" ELSE pc

\* The I/O threads still run when main redirects the output and stops the
\* logging, so that a line can come until stop() has returned.
append ==
    /\ appended < MaxLines
    /\ caller # "joined"
    /\ appended' = appended + 1
    /\ \E len \in Lengths :
         LET line == [n |-> appended + 1, len |-> len] IN
         IF avail(current) > len
         THEN current' = Append(current, line) /\ UNCHANGED <<next, buffers, pc>>
         ELSE /\ buffers' = Append(buffers, current)
              /\ current' = IF next # NoBuffer THEN Append(next, line) ELSE <<line>>
              /\ next' = NoBuffer
              /\ pc' = Notified
    /\ UNCHANGED <<running, back, out, env, caller>>

\* stop(): exchange, notify_one without the lock, join.
StopRunning ==
    /\ caller = "running"
    /\ running' = FALSE
    /\ caller' = "stopping"
    /\ UNCHANGED <<front, pc, back, out, env>>

StopNotify ==
    /\ caller = "stopping"
    /\ pc' = Notified
    /\ caller' = "joining"
    /\ UNCHANGED <<front, running, back, out, env>>

Join ==
    /\ caller = "joining" /\ pc = "ended"
    /\ caller' = "joined"
    /\ UNCHANGED <<front, running, pc, back, out, env>>

-----------------------------------------------------------------------------
(* LogFile and FileUtil.  ok says that the flush or close that may be needed  *)
(* succeeds.                                                                   *)

\* fflush; what it cannot write stays in the buffer of stdio.
Flush(o, ok) ==
    IF ok THEN [o EXCEPT !.disk = @ \o o.stdio, !.stdio = <<>>] ELSE o

\* fclose: the last attempt to write what is buffered.
Close(o, ok) ==
    [Flush(o, ok) EXCEPT !.stdio = <<>>, !.lost = IF ok THEN @ ELSE @ \cup Numbers(o.stdio)]

\* Mutant: the old file is abandoned, not closed.
rollFile_Abandons(o, ok) ==
    IF clock <= o.lastRoll THEN o
    ELSE [o EXCEPT !.stdio = <<>>, !.bytes = 0, !.lastFlush = clock,
                   !.lastRoll = clock, !.period = clock \div Day]

\* A file is named after the second in which it is opened, so there is no
\* second roll in a second.
rollFile(o, ok) ==
    IF clock <= o.lastRoll THEN o
    ELSE [Close(o, ok) EXCEPT !.bytes = 0, !.lastFlush = clock,
                              !.lastRoll = clock, !.period = clock \div Day]

\* FileUtil::append: the lines that fwrite took go to the buffer of stdio, of
\* which the first few spill into the file; the others are given up after an error.
fileAppend(o, data, taken, spilled) ==
    LET pending == o.stdio \o SubSeq(data, 1, taken)
        rest == SubSeq(data, taken + 1, Len(data))
    IN  [o EXCEPT !.disk = @ \o SubSeq(pending, 1, spilled),
                  !.stdio = SubSeq(pending, spilled + 1, Len(pending)),
                  !.lost = @ \cup Numbers(rest),
                  !.bytes = @ + Size(SubSeq(data, 1, taken))]

\* A file that is too large rolls; every checkEveryN_ appends the day is looked at.
CheckRoll(o, ok) ==
    IF o.bytes > RollSize
    THEN rollFile([o EXCEPT !.count = IF @ < CheckEveryN THEN @ + 1 ELSE @], ok)
    ELSE IF o.count + 1 < CheckEveryN THEN [o EXCEPT !.count = @ + 1]
    ELSE IF clock \div Day # o.period THEN rollFile([o EXCEPT !.count = 0], ok)
    ELSE [o EXCEPT !.count = 0]

appendInlock(o, data, taken, spilled, ok) ==
    LET p == CheckRoll(fileAppend(o, data, taken, spilled), ok) IN
    IF clock - p.lastFlush > FlushInterval
    THEN [Flush(p, ok) EXCEPT !.lastFlush = clock] ELSE p

-----------------------------------------------------------------------------
(* The back end.                                                             *)

Wait ==
    /\ pc = "check"
    /\ buffers = <<>> /\ running
    /\ pc' = "wait"
    /\ UNCHANGED <<front, running, back, out, env, caller>>

\* Mutant: wait in place of wait_for.
WaitEnds_Never == FALSE /\ UNCHANGED logVars

\* wait_for times out, or wakes for no reason.
WaitEnds ==
    /\ pc = "wait"
    /\ pc' = "swap"
    /\ UNCHANGED <<front, running, back, out, env, caller>>

\* Under mutex_, after the wait or instead of it.  There is no second look at
\* the condition.
SwapBuffers ==
    /\ pc = "swap" \/ (pc = "check" /\ ~(buffers = <<>> /\ running))
    /\ toWrite' = Append(buffers, current)
    /\ buffers' = <<>>
    /\ current' = newbuffer1 /\ newbuffer1' = NoBuffer
    /\ IF next = NoBuffer THEN next' = newbuffer2 /\ newbuffer2' = NoBuffer
       ELSE UNCHANGED <<next, newbuffer2>>
    /\ written' = 0
    /\ pc' = "write"
    /\ UNCHANGED <<running, appended, out, env, caller>>

\* One file operation may fail in a step.
Fails(fault) ==
    /\ fault => errors < MaxErrors
    /\ errors' = IF fault THEN errors + 1 ELSE errors
    /\ UNCHANGED clock

WriteBuffer ==
    /\ pc = "write" /\ written < Len(toWrite)
    /\ LET data == toWrite[written + 1] IN
       \E taken \in 0..Len(data), ok \in BOOLEAN :
         /\ Fails(taken < Len(data) \/ ~ok)
         /\ \E spilled \in 0..(Len(out.stdio) + taken) :
              out' = appendInlock(out, data, taken, spilled, ok)
    /\ written' = written + 1
    /\ UNCHANGED <<front, running, pc, newbuffer1, newbuffer2, toWrite, caller>>

\* Mutant: one buffer is kept.
Kept_One == IF Len(toWrite) > 1 THEN SubSeq(toWrite, 1, 1) ELSE toWrite

\* resize(2) keeps the first two, where the comment says the last two.
Kept == IF Len(toWrite) > 2 THEN SubSeq(toWrite, 1, 2) ELSE toWrite

\* A buffer that is reset is empty.
reset(buffer) == <<>>

\* newbuffer1 is gone since SwapBuffers; newbuffer2 if it replaced nextBuffer_.
Recycle ==
    LET rest == Front(Kept) IN
    /\ pc = "write" /\ written = Len(toWrite)
    /\ newbuffer1' = reset(Last(Kept))
    /\ newbuffer2' = IF newbuffer2 = NoBuffer THEN reset(Last(rest)) ELSE newbuffer2
    /\ toWrite' = <<>> /\ written' = 0
    /\ pc' = "flush"
    /\ UNCHANGED <<front, running, out, env, caller>>

FlushFile ==
    /\ pc = "flush"
    /\ \E ok \in BOOLEAN : Fails(~ok) /\ out' = Flush(out, ok)
    /\ pc' = "test"
    /\ UNCHANGED <<front, running, back, caller>>

\* The thread ends with a last flush, and the LogFile goes with it.
Test ==
    /\ pc = "test"
    /\ IF running THEN pc' = "check" /\ UNCHANGED <<out, env>>
       ELSE /\ pc' = "ended"
            /\ \E ok \in BOOLEAN : Fails(~ok) /\ out' = Close(Flush(out, ok), ok)
    /\ UNCHANGED <<front, running, back, caller>>

Tick ==
    /\ clock < MaxTime
    /\ clock' = clock + 1
    /\ UNCHANGED <<front, running, pc, back, out, errors, caller>>

-----------------------------------------------------------------------------
threadFunc ==
    Wait \/ WaitEnds \/ SwapBuffers \/ WriteBuffer \/ Recycle \/ FlushFile \/ Test

stop == StopRunning \/ StopNotify \/ Join

LogNext ==
    append \/ stop \/ threadFunc \/ Tick \/ (caller = "joined" /\ UNCHANGED logVars)

\* The back end runs, wait_for among its steps; a stop() that has begun goes on.
LogFairness == WF_logVars(threadFunc) /\ WF_logVars(StopNotify \/ Join)

LogSpec == LogInit /\ [][LogNext]_logVars /\ LogFairness

-----------------------------------------------------------------------------
(* Properties.                                                               *)

\* The lines that are not with the LogFile yet: in the buffers that are taken but
\* not written, in those that are filled, and in the current one.
Waiting == SubSeq(toWrite, written + 1, Len(toWrite))
Unwritten == Waiting \o buffers \o <<current>>

\* All lines that there are, oldest first.
Log == <<out.disk, out.stdio>> \o Unwritten

\* The lines of a list of buffers are in the order of the calls to append.
InOrder(list) ==
    \A i, j \in DOMAIN list : \A x \in DOMAIN list[i], y \in DOMAIN list[j] :
        i < j \/ (i = j /\ x < y) => list[i][x].n < list[j][y].n

\* No line is duplicated, reordered or dropped while buffers are filled, swapped,
\* written and used again and files roll, except by a file operation that failed;
\* and when the back end has ended, nothing that it took is left unwritten.
LogIntact ==
    /\ InOrder(Log)
    /\ UNION {Numbers(Log[i]) : i \in DOMAIN Log} = (1..appended) \ out.lost
    /\ errors = 0 => out.lost = {}
    /\ pc = "ended" => out.stdio = <<>> /\ toWrite = <<>>

\* threadFunc calls buffersToWrite.back() twice without a test for empty: there
\* are always as many buffers as it needs, and both spare buffers are there
\* when it swaps.
SpareBuffers ==
    /\ pc = "write" => Len(Kept) >= (IF newbuffer2 = NoBuffer THEN 2 ELSE 1)
    /\ pc \in {"check", "wait", "swap"} => NoBuffer \notin {newbuffer1, newbuffer2}

\* A line reaches the file without another call to append, unless a file
\* operation fails or the thread ends; stop() returns, even when its notify_one
\* comes between the test of running_ and the wait.
LoggerProgress ==
    /\ \A n \in 1..MaxLines :
         appended >= n ~> \/ n \in Numbers(out.disk) \cup out.lost
                          \/ pc = "ended"
    /\ caller = "stopping" ~> caller = "joined"
=============================================================================
