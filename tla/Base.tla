--------------------------------- MODULE Base ---------------------------------
(***************************************************************************)
(* The components of base/, and Buffer and InetAddress, that share no      *)
(* state.  A behaviour is one of the part that it begins with; the parts   *)
(* take turns with the variables v1, v2, ... (each INSTANCE says which).   *)
(***************************************************************************)
EXTENDS Integers, Sequences

CONSTANTS
    Parts,                                              \* the parts that are looked at
    Bytes, kCheapPrepend, kInitialSize, ExtraBuf, Widths, MaxLen, MaxContent,     \* Buffer
    rollSize_, flushInterval_, checkEveryN_, kRollPerSeconds_, Lengths, MaxNow,   \* LogFile
    MaxLines,                                           \* LogFile, Logging
    kBufferSize, MaxFile,                               \* ReadSmallFile
    SIZE, kMaxNumericSize, Width, MaxText, MaxDouble,   \* LogStream
    UnitsSI, UnitsIEC, Values,                          \* LogFormat
    LogThreads, MaxSecond, MaxNested,                   \* Logging
    FirstYear, LastYear, TimesOfDay, MaxDays,           \* Date
    Hour, Offsets, TransitionTimes, Spacing, MaxTransitions, MaxTime,             \* TimeZone
    MaxCount, Garbage,                                  \* TimeZoneFile
    Chars, MaxPiece,                                    \* StringPiece
    Ips, PortRadix,                                     \* InetAddress
    Waiters, Counters, Count,                           \* CountDownLatch
    Owner, Child,                                       \* Thread
    Users, Rounds, MaxAgain                             \* Singleton

VARIABLES part, v1, v2, v3, v4, v5, v6, v7, v8, v9, v10, v11, v12

Buf == INSTANCE Buffer WITH
    buffer_ <- v1, readerIndex_ <- v2, writerIndex_ <- v3, ok <- v4, content <- v5

Lf == INSTANCE LogFile WITH
    now <- v1, count_ <- v2, startOfPeriod_ <- v3, lastRoll_ <- v4, lastFlush_ <- v5,
    files <- v6, writtenBytes_ <- v7, lineTime <- v8, lost <- v9, late <- v10,
    checkedAt <- v11, setBack <- v12

Rf == INSTANCE ReadSmallFile WITH
    kind <- v1, size <- v2, maxSize <- v3, content <- v4, fileSize <- v5, startSize <- v6,
    err <- v7, buf_ <- v8, pc <- v9

Ls == INSTANCE LogStream WITH length <- v1, overrun <- v2, last <- v3

Fm == INSTANCE LogFormat WITH s <- v1

Lg == INSTANCE Logging WITH
    Threads <- LogThreads, clock <- v1, g_logLevel <- v2, t_lastSecond <- v3, t_time <- v4, composing <- v5,
    stage <- v6, output <- v7, flushed <- v8, aborted <- v9

Dt == INSTANCE Date WITH today <- v1, count <- v2

Tz == INSTANCE TimeZone WITH localtimes <- v1, transitions <- v2, seconds <- v3

Tf == INSTANCE TimeZoneFile WITH
    isTZif <- v1, timecnt <- v2, indexes <- v3, typecnt <- v4, available <- v5, pos <- v6,
    trans <- v7, locals <- v8, type <- v9, data <- v10, caught <- v11

Sp == INSTANCE StringPiece WITH
    MaxText <- MaxPiece, text <- v1, ptr_ <- v2, length_ <- v3, other <- v4

Ia == INSTANCE InetAddress WITH Radix <- PortRadix, asked <- v1

La == INSTANCE CountDownLatch WITH mutex <- v1, holder_ <- v2, count_ <- v3, pc <- v4

Th == INSTANCE Thread WITH
    Waiters <- {Owner}, Counters <- {Child}, Count <- 1,
    mutex <- v1, holder_ <- v2, count_ <- v3, pc <- v4, started_ <- v5, joined_ <- v6,
    tid_ <- v7, owner <- v8, child <- v9, failed <- v10

Sg == INSTANCE Singleton WITH
    ponce_ <- v1, value_ <- v2, built <- v3, atexit_ <- v4, got <- v5, t_value_ <- v6,
    specific <- v7, alive <- v8, ending <- v9, pc <- v10, over <- v11, failed <- v12

\* The constants are sizes, counts and times, and nobody has the name of a state.
ASSUME BaseAssumption ==
    /\ Buf!SizeAssumption /\ Buf!ByteAssumption /\ Widths \subseteq Nat /\ Buf!PowerAssumption
    /\ Lf!SizeAssumption /\ Rf!SizeAssumption
    /\ Ls!SizeAssumption /\ Fm!FormatAssumption /\ Dt!YearAssumption /\ Dt!TimeAssumption
    /\ Tz!TimeAssumption /\ Tf!CountAssumption /\ Sp!TextAssumption /\ Ia!AddressAssumption
    /\ La!Nobody \notin La!Threads /\ Count \in Int /\ Waiters \cap Counters = {}
    /\ Th!LatchAssumption /\ Sg!RoundAssumption
    /\ Users \cap {"new", "done"} = {}

-----------------------------------------------------------------------------
\* variables n + 1 .. 12 are not used
Unused(n) ==
    /\ IF n < 2 THEN v2 = 0 ELSE TRUE
    /\ IF n < 3 THEN v3 = 0 ELSE TRUE
    /\ IF n < 4 THEN v4 = 0 ELSE TRUE
    /\ IF n < 5 THEN v5 = 0 ELSE TRUE
    /\ IF n < 6 THEN v6 = 0 ELSE TRUE
    /\ IF n < 7 THEN v7 = 0 ELSE TRUE
    /\ IF n < 8 THEN v8 = 0 ELSE TRUE
    /\ IF n < 9 THEN v9 = 0 ELSE TRUE
    /\ IF n < 10 THEN v10 = 0 ELSE TRUE
    /\ IF n < 11 THEN v11 = 0 ELSE TRUE
    /\ IF n < 12 THEN v12 = 0 ELSE TRUE

BaseInit ==
    /\ part \in Parts
    /\ \/ part = "Buffer" /\ Buf!Init /\ Unused(5)
       \/ part = "LogFile" /\ Lf!Init
       \/ part = "ReadSmallFile" /\ Rf!Init /\ Unused(9)
       \/ part = "LogStream" /\ Ls!Init /\ Unused(3)
       \/ part = "LogFormat" /\ Fm!Init /\ Unused(1)
       \/ part = "Logging" /\ Lg!Init /\ Unused(9)
       \/ part = "Date" /\ Dt!Init /\ Unused(2)
       \/ part = "TimeZone" /\ Tz!Init /\ Unused(3)
       \/ part = "TimeZoneFile" /\ Tf!Init /\ Unused(11)
       \/ part = "StringPiece" /\ Sp!Init /\ Unused(4)
       \/ part = "InetAddress" /\ Ia!Init /\ Unused(1)
       \/ part = "CountDownLatch" /\ La!LatchInit /\ Unused(4)
       \/ part = "Thread" /\ Th!ThreadInit /\ Unused(10)
       \/ part = "Singleton" /\ Sg!Init

Same(n) ==
    /\ IF n < 2 THEN UNCHANGED v2 ELSE TRUE
    /\ IF n < 3 THEN UNCHANGED v3 ELSE TRUE
    /\ IF n < 4 THEN UNCHANGED v4 ELSE TRUE
    /\ IF n < 5 THEN UNCHANGED v5 ELSE TRUE
    /\ IF n < 6 THEN UNCHANGED v6 ELSE TRUE
    /\ IF n < 7 THEN UNCHANGED v7 ELSE TRUE
    /\ IF n < 8 THEN UNCHANGED v8 ELSE TRUE
    /\ IF n < 9 THEN UNCHANGED v9 ELSE TRUE
    /\ IF n < 10 THEN UNCHANGED v10 ELSE TRUE
    /\ IF n < 11 THEN UNCHANGED v11 ELSE TRUE
    /\ IF n < 12 THEN UNCHANGED v12 ELSE TRUE

BaseNext ==
    /\ UNCHANGED part
    /\ \/ part = "Buffer" /\ Buf!Next /\ Same(5)
       \/ part = "LogFile" /\ Lf!Next
       \/ part = "ReadSmallFile" /\ Rf!Next /\ Same(9)
       \/ part = "LogStream" /\ Ls!Next /\ Same(3)
       \/ part = "LogFormat" /\ Fm!Next /\ Same(1)
       \/ part = "Logging" /\ Lg!Next /\ Same(9)
       \/ part = "Date" /\ Dt!Next /\ Same(2)
       \/ part = "TimeZone" /\ Tz!Next /\ Same(3)
       \/ part = "TimeZoneFile" /\ Tf!Next /\ Same(11)
       \/ part = "StringPiece" /\ Sp!Next /\ Same(4)
       \/ part = "InetAddress" /\ Ia!Next /\ Same(1)
       \/ part = "CountDownLatch" /\ La!LatchNext /\ Same(4)
       \/ part = "Thread" /\ Th!ThreadNext /\ Same(10)
       \/ part = "Singleton" /\ Sg!Next

baseVars == <<part, v1, v2, v3, v4, v5, v6, v7, v8, v9, v10, v11, v12>>

BaseSpec == BaseInit /\ [][BaseNext]_baseVars

-----------------------------------------------------------------------------
\* Buffer: the asserts of its arithmetic hold, and the bytes between the indexes are
\* those of a queue of bytes, whatever was moved, resized, read in two blocks or
\* prepended; line ends are found in them.
BufferContent ==
    part = "Buffer" => Buf!TypeOK /\ Buf!AssertsHold /\ Buf!ContentKept /\ Buf!LineEndsFound

\* What is written to files and read from them.  Logging and LogFile: a line shows the
\* second in which it was begun, and what was logged up to a FATAL line survives it; sorted
\* by name the files give the lines in the order of their logging, but for those that a
\* failed write has lost, a file is too long only if it was opened within the second (or the
\* clock set back), no line waits in the buffer for too long or beyond the closing of its
\* file, and few lines get into the file of an earlier period.  ReadSmallFile: what is
\* delivered of a file that grows or cannot be read is the beginning of it.  The file of a
\* time zone: no local time is half read, and transitions come all together or not at all.
FilesTruthful ==
    /\ part = "Logging" => Lg!TimesTruthful /\ Lg!FatalSurvives
    /\ part = "LogFile" =>
        /\ Lf!TypeOK /\ Lf!LinesInOrder /\ Lf!TooLongOnlyBriefly
        /\ Lf!FlushedInTime /\ Lf!ClosedIsFlushed /\ Lf!PeriodKept
    /\ part = "ReadSmallFile" => Rf!ContentIsBeginning /\ Rf!BufferTerminated /\ Rf!FailureReported
    /\ part = "TimeZoneFile" => Tf!NothingHalfRead

\* Integers: they are read back from the bytes of a Buffer and from the digits in a
\* LogStream, which is never overrun; formatSI and formatIEC print three digits and a unit.
IntegersExact ==
    /\ part = "Buffer" => Buf!IntsRead
    /\ part = "LogStream" => Ls!TypeOK /\ Ls!ReadsBack /\ Ls!NoOverrun /\ Ls!RoomForZero
    /\ part = "LogFormat" => Fm!ThreeDigitsSI /\ Fm!ThreeDigitsIEC

\* Dates, times, addresses and strings: dates agree with a calendar that counts days, times
\* convert to UTC and to the clock of a zone and back; addresses and ports come back from an
\* InetAddress; the comparisons of StringPiece mean one order.
ConversionsExact ==
    /\ part = "Date" => Dt!DaysCounted /\ Dt!WeekDaysFollow /\ Dt!UtcRoundTrip
    /\ part = "TimeZone" => Tz!LocalRoundTrip /\ Tz!ClockChanges
    /\ part = "StringPiece" => Sp!OneOrder /\ Sp!WithinText
    /\ part = "InetAddress" => Ia!AddressKept /\ Ia!TextIdentifies

\* Threads: holder_ is in step with the mutex, the latch opens once and for everybody, a
\* new thread does not need the Thread object any more when its owner goes on, and
\* objects made once or once per thread are; the latter outlive their thread only if
\* destructors make them anew in every round.
ThreadsInStep ==
    /\ part = "CountDownLatch" => La!HolderInStep /\ La!OpensOnce
    /\ part = "Thread" => Th!HolderInStep /\ Th!ObjectOutlived
    /\ part = "Singleton" => Sg!OneObject /\ Sg!OnePerThread

=============================================================================
