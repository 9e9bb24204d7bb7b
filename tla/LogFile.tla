------------------------------- MODULE LogFile -------------------------------
(***************************************************************************)
(* zing::LogFile and the FileUtil::AppendFile it writes: log lines go to a *)
(* file named after the second in which it was opened; a new file is begun *)
(* when the old one is too long or another period has begun, but never     *)
(* twice within a second; the C library's buffer is flushed now and then.  *)
(* append and flush run under mutex_ and are one step each.                *)
(*                                                                         *)
(* The buffer is written out when a line does not fit, by fflush and by    *)
(* fclose, and any of these may fail (a full disk).  What is then not on   *)
(* disk is lost: the library drops it, append() gives up its own line and  *)
(* the results of fflush and fclose are not looked at (FileUtil.cpp).      *)
(***************************************************************************)
EXTENDS Naturals, Sequences

CONSTANTS
    rollSize_, flushInterval_, checkEveryN_,
    kRollPerSeconds_,
    Lengths,      \* the lengths of the lines
    MaxLines,     \* bound: how many lines are logged
    MaxNow        \* bound: the last second

SizeAssumption ==
    /\ rollSize_ \in Nat /\ flushInterval_ \in Nat
    /\ checkEveryN_ \in Nat \ {0} /\ kRollPerSeconds_ \in Nat \ {0}
    /\ Lengths \subseteq Nat /\ MaxLines \in Nat /\ MaxNow \in Nat \ {0}

VARIABLES
    now,                 \* time(NULL)
    count_, startOfPeriod_, lastRoll_, lastFlush_,
    files,               \* the files in the order of their creation; the last is file_:
                         \* [name, lines, flushed]: the lines on disk or in its buffer,
                         \* the first flushed of them on disk
    writtenBytes_,       \* of file_
    lineTime,            \* history: when each line was appended
    lost,                \* history: the lines that failed writes have cut short or lost
    late,                \* history: lines in file_ that are of a later period
    checkedAt,           \* history: when append last looked at the clock
    setBack              \* history: whether the clock has been set back

vars == <<now, count_, startOfPeriod_, lastRoll_, lastFlush_, files, writtenBytes_,
          lineTime, lost, late, checkedAt, setBack>>

Period(t) == (t \div kRollPerSeconds_) * kRollPerSeconds_

NewFile(t) == [name |-> t, lines |-> <<>>, flushed |-> 0]
File == files[Len(files)]
LinesOf(f) == {f.lines[a] : a \in 1..Len(f.lines)}

\* the constructor, which rolls for the first time
Init ==
    /\ now \in 1..MaxNow
    /\ count_ = 0
    /\ startOfPeriod_ = Period(now)
    /\ lastRoll_ = now /\ lastFlush_ = now
    /\ files = <<NewFile(now)>>
    /\ writtenBytes_ = 0
    /\ lineTime = <<>> /\ lost = {} /\ late = 0 /\ checkedAt = now
    /\ setBack = FALSE

-----------------------------------------------------------------------------
\* How far the buffer of the last file may get when it is written out: to its end, or
\* less far after an error.
Reached(fs) == fs[Len(fs)].flushed..Len(fs[Len(fs)].lines)

\* The buffer is written out up to line k, and empty; what comes after k is lost.
WrittenOut(fs, k) ==
    LET f == fs[Len(fs)]
    IN  [fs EXCEPT ![Len(fs)] = [f EXCEPT !.lines = SubSeq(f.lines, 1, k), !.flushed = k]]
LinesAfter(fs, k) == {fs[Len(fs)].lines[a] : a \in (k + 1)..Len(fs[Len(fs)].lines)}

NewLate == IF Period(now) # startOfPeriod_ THEN late + 1 ELSE late

\* In what follows fs are the files after the line was written and gone the lines lost so
\* far.  The line went into file_, which stays:
Stays(fs, gone, written) ==
    /\ files' = fs /\ lost' = gone
    /\ writtenBytes_' = writtenBytes_ + written
    /\ late' = NewLate

\* file_->flush(), whatever it returns
FlushFile(fs, gone) ==
    \E k \in Reached(fs) : files' = WrittenOut(fs, k) /\ lost' = gone \cup LinesAfter(fs, k)

\* file_.reset: the old file is closed, which writes its buffer out or loses it
NextFile(fs, gone, t) ==
    /\ \E k \in Reached(fs) :
        /\ files' = Append(WrittenOut(fs, k), NewFile(t))
        /\ lost' = gone \cup LinesAfter(fs, k)
    /\ writtenBytes_' = 0
    /\ late' = 0

\* mutant of RollFile: it may happen twice within a second
RollFileAlways(fs, gone, written, t) ==
    /\ lastRoll_' = t /\ lastFlush_' = t
    /\ startOfPeriod_' = Period(t)
    /\ NextFile(fs, gone, t)

\* rollFile: t is the time that getLogFileName reads
RollFile(fs, gone, written, t) ==
    IF t > lastRoll_
    THEN /\ lastRoll_' = t /\ lastFlush_' = t
         /\ startOfPeriod_' = Period(t)
         /\ NextFile(fs, gone, t)
    ELSE Stays(fs, gone, written) /\ UNCHANGED <<lastRoll_, lastFlush_, startOfPeriod_>>

NewLine == Len(lineTime) + 1

\* file_->writtenBytes() > rollSize_
TooLong(written) == writtenBytes_ + written > rollSize_

\* mutant of CheckTime: lastFlush_ is set and the file is not flushed
CheckTimeNoFlush(fs, gone, written, t) ==
    IF Period(now) # startOfPeriod_
    THEN RollFile(fs, gone, written, t)
    ELSE /\ Stays(fs, gone, written)
         /\ lastFlush_' = IF now > lastFlush_ + flushInterval_ THEN now ELSE lastFlush_
         /\ UNCHANGED <<lastRoll_, startOfPeriod_>>

\* every checkEveryN_ lines: roll if the period is over, else flush if it is time
CheckTime(fs, gone, written, t) ==
    IF Period(now) # startOfPeriod_
    THEN RollFile(fs, gone, written, t)
    ELSE /\ IF now > lastFlush_ + flushInterval_
            THEN /\ FlushFile(fs, gone) /\ lastFlush_' = now
                 /\ writtenBytes_' = writtenBytes_ + written /\ late' = NewLate
            ELSE Stays(fs, gone, written) /\ UNCHANGED lastFlush_
         /\ UNCHANGED <<lastRoll_, startOfPeriod_>>

\* ++count_; count_ >= checkEveryN_
Due == count_ + 1 >= checkEveryN_

\* append_unlocked after file_->append().  The clock may go on between the two calls of
\* time(NULL), now in append_unlocked and t in getLogFileName.
Appended(fs, gone, written, t) ==
    \/ /\ TooLong(written)
       /\ RollFile(fs, gone, written, t)
       /\ UNCHANGED <<count_, checkedAt>>
    \/ /\ ~TooLong(written) /\ Due
       /\ count_' = 0 /\ checkedAt' = now
       /\ CheckTime(fs, gone, written, t)
    \/ /\ ~TooLong(written) /\ ~Due
       /\ count_' = count_ + 1
       /\ Stays(fs, gone, written)
       /\ UNCHANGED <<startOfPeriod_, lastRoll_, lastFlush_, checkedAt>>

\* The files with the new line, of which the first k are on disk: none more than before if
\* it fits into the buffer, else those in the buffer and maybe the new one.
WithLine(k) ==
    [files EXCEPT ![Len(files)] =
        [File EXCEPT !.lines = Append(File.lines, NewLine), !.flushed = k]]

\* append_unlocked.  The loop over short writes of AppendFile::append ends with the line
\* written or, after an error, with a part of it and the buffer lost.
AppendLine(len, written, t) ==
    /\ NewLine <= MaxLines
    /\ written \in 0..len
    /\ lineTime' = Append(lineTime, now)
    /\ \/ /\ written = len
          /\ \E k \in {File.flushed, Len(File.lines), Len(File.lines) + 1} :
                Appended(WithLine(k), lost, written, t)
       \/ /\ written < len
          /\ \E k \in Reached(files) :
                Appended(WrittenOut(files, k), lost \cup LinesAfter(files, k) \cup {NewLine},
                         written, t)
    /\ now' = t
    /\ UNCHANGED setBack

\* flush
Flush ==
    /\ FlushFile(files, lost)
    /\ UNCHANGED <<now, count_, startOfPeriod_, lastRoll_, lastFlush_, writtenBytes_,
                   lineTime, late, checkedAt, setBack>>

\* rollFile called from outside, which takes no lock and is used by one thread; nothing
\* changes when it returns false
UserRolls(t) ==
    /\ t > lastRoll_
    /\ RollFile(files, lost, 0, t)
    /\ now' = t
    /\ UNCHANGED <<count_, lineTime, checkedAt, setBack>>

\* time goes on, or the clock is set back (bound: once)
Tick(t) ==
    /\ t = now + 1 \/ (t < now /\ ~setBack)
    /\ now' = t
    /\ setBack' = (setBack \/ t < now)
    /\ UNCHANGED <<count_, startOfPeriod_, lastRoll_, lastFlush_, files, writtenBytes_,
                   lineTime, lost, late, checkedAt>>

Next ==
    \/ \E len \in Lengths : \E written \in 0..len : \E t \in {now, now + 1} :
           t <= MaxNow /\ AppendLine(len, written, t)
    \/ Flush
    \/ \E t \in {now, now + 1} : t <= MaxNow /\ UserRolls(t)
    \/ \E t \in 1..MaxNow : Tick(t)

Spec == Init /\ [][Next]_vars

-----------------------------------------------------------------------------
\* Types of the variables.
TypeOK ==
    /\ now \in 1..MaxNow
    /\ count_ \in 0..(checkEveryN_ - 1)
    /\ startOfPeriod_ \in 0..MaxNow /\ lastRoll_ \in 1..MaxNow /\ lastFlush_ \in 1..MaxNow
    /\ \A k \in 1..Len(files) :
        /\ files[k].name \in 1..MaxNow
        /\ files[k].lines \in Seq(1..MaxLines)
        /\ files[k].flushed <= Len(files[k].lines)
    /\ writtenBytes_ \in Nat

\* Sorted by name the files give the lines in the order of their logging, each line
\* once, and every line but those that a failed write cut short or dropped with the
\* buffer; no file is opened a second time, also when the clock is set back (line 100).
LinesInOrder ==
    /\ \A j, k \in 1..Len(files) : j < k => files[j].name < files[k].name
    /\ \A j, k \in 1..Len(files) :
        \A a \in 1..Len(files[j].lines), b \in 1..Len(files[k].lines) :
            j < k \/ (j = k /\ a < b) => files[j].lines[a] < files[k].lines[b]
    /\ UNION {LinesOf(files[k]) : k \in 1..Len(files)} = (1..Len(lineTime)) \ lost

\* A file is longer than rollSize_ only when it got its last line in the second in
\* which it was opened (or the clock was before that second).
TooLongOnlyBriefly ==
    writtenBytes_ > rollSize_ => lineTime # <<>> /\ lineTime[Len(lineTime)] <= lastRoll_

\* At most checkEveryN_ lines of a later period get into a file (line 76; count_ goes
\* on across files).
PeriodKept == ~setBack => late <= checkEveryN_

\* At each look at the clock, no line older than flushInterval_ waits in the buffer.
FlushedInTime ==
    ~setBack =>
        \A k \in (File.flushed + 1)..Len(File.lines) :
            checkedAt <= lineTime[File.lines[k]] + flushInterval_

\* Nothing of a closed file waits in a buffer: it is on disk or was lost by a failed write.
ClosedIsFlushed ==
    \A k \in 1..(Len(files) - 1) : files[k].flushed = Len(files[k].lines)

=============================================================================
