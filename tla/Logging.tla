-------------------------------- MODULE Logging --------------------------------
(***************************************************************************)
(* zing::Logger: a line is begun by the constructor, with the time of that *)
(* moment, and output by the destructor; between the two the thread may    *)
(* log other lines.  The text of the current second is cached per thread.  *)
(* g_output and g_flush are those of a file or of stdout: what is output   *)
(* but not flushed does not survive abort().                               *)
(***************************************************************************)
EXTENDS Naturals, Sequences, FiniteSets

CONSTANTS
    Threads,
    MaxSecond,   \* bound: the clock
    MaxLines,    \* bound: lines
    MaxNested    \* bound: lines that a thread is composing at once

Levels == <<"INFO", "WARN", "FATAL">>
Rank(l) == CHOOSE k \in DOMAIN Levels : Levels[k] = l
LevelNames == {Levels[k] : k \in DOMAIN Levels}

VARIABLES
    clock,          \* in seconds; not 0, which is the initial value of t_lastSecond
    g_logLevel,
    t_lastSecond,   \* of each thread
    t_time,         \* of each thread: the second that the cached text shows
    composing,      \* of each thread: the Loggers that exist, the innermost last
    stage,          \* of each thread: "user", "format", "append", "flush"
    output,         \* the lines that g_output was given
    flushed,        \* how many of them are safe
    aborted

vars == <<clock, g_logLevel, t_lastSecond, t_time, composing, stage, output, flushed, aborted>>

Init ==
    /\ clock = 1
    /\ g_logLevel \in LevelNames
    /\ t_lastSecond = [t \in Threads |-> 0] /\ t_time = [t \in Threads |-> 0]
    /\ composing = [t \in Threads |-> <<>>]
    /\ stage = [t \in Threads |-> "user"]
    /\ output = <<>> /\ flushed = 0
    /\ aborted = FALSE

Tick ==
    /\ clock < MaxSecond /\ ~aborted
    /\ clock' = clock + 1
    /\ UNCHANGED <<g_logLevel, t_lastSecond, t_time, composing, stage, output, flushed, aborted>>

SetLogLevel(level) ==
    /\ ~aborted
    /\ g_logLevel' = level
    /\ UNCHANGED <<clock, t_lastSecond, t_time, composing, stage, output, flushed, aborted>>

-----------------------------------------------------------------------------
Top(t) == composing[t][Len(composing[t])]
SetTop(t, line) == composing' = [composing EXCEPT ![t][Len(composing[t])] = line]
At(t, s) == stage[t] = s /\ ~aborted
Goes(t, s) == stage' = [stage EXCEPT ![t] = s]

Unfinished == Cardinality({line \in Threads \X (1..MaxNested) : line[2] <= Len(composing[line[1]])})

\* LOG_TRACE, LOG_DEBUG and LOG_INFO ask for the level; the others always log
IsLogged(level) == level # "INFO" \/ Rank(g_logLevel) <= Rank("INFO")

\* the macro and the constructor: time_ is now
LogLine(t, level) ==
    /\ At(t, "user")
    /\ Len(output) + Unfinished < MaxLines /\ Len(composing[t]) < MaxNested
    /\ IsLogged(level)
    /\ composing' = [composing EXCEPT ![t] =
                        Append(@, [level |-> level, time_ |-> clock, text |-> 0])]
    /\ Goes(t, "format")
    /\ UNCHANGED <<clock, g_logLevel, t_lastSecond, t_time, output, flushed, aborted>>

\* formatTime: a second that is not the last one is formatted ...
NewSecond(t) ==
    /\ At(t, "format") /\ Top(t).time_ # t_lastSecond[t]
    /\ t_lastSecond' = [t_lastSecond EXCEPT ![t] = Top(t).time_]
    /\ Goes(t, "print")
    /\ UNCHANGED <<clock, g_logLevel, t_time, composing, output, flushed, aborted>>

PrintTime(t) ==
    /\ At(t, "print")
    /\ t_time' = [t_time EXCEPT ![t] = Top(t).time_]
    /\ Goes(t, "append")
    /\ UNCHANGED <<clock, g_logLevel, t_lastSecond, composing, output, flushed, aborted>>

\* mutant of SameSecond: the text is printed for the first line only
SameSecondAlways(t) == t_lastSecond[t] # 0

SameSecond(t) == Top(t).time_ = t_lastSecond[t]

KeepTime(t) ==
    /\ At(t, "format") /\ SameSecond(t)
    /\ Goes(t, "append")
    /\ UNCHANGED <<clock, g_logLevel, t_lastSecond, t_time, composing, output, flushed, aborted>>

\* ... and the cached text is the beginning of the line
AppendTime(t) ==
    /\ At(t, "append")
    /\ SetTop(t, [Top(t) EXCEPT !.text = t_time[t]])
    /\ Goes(t, "user")
    /\ UNCHANGED <<clock, g_logLevel, t_lastSecond, t_time, output, flushed, aborted>>

\* mutant of FinishLine: abort() without g_flush()
FinishLineUnflushed(t) ==
    /\ At(t, "user") /\ composing[t] # <<>>
    /\ output' = Append(output, Top(t))
    /\ composing' = [composing EXCEPT ![t] = SubSeq(@, 1, Len(@) - 1)]
    /\ aborted' = (Top(t).level = "FATAL")
    /\ UNCHANGED <<clock, g_logLevel, t_lastSecond, t_time, stage, flushed>>

\* ~Logger: g_output takes the line; g_flush follows if it is FATAL
FinishLine(t) ==
    /\ At(t, "user") /\ composing[t] # <<>>
    /\ output' = Append(output, Top(t))
    /\ composing' = [composing EXCEPT ![t] = SubSeq(@, 1, Len(@) - 1)]
    /\ Goes(t, IF Top(t).level = "FATAL" THEN "flush" ELSE "user")
    /\ UNCHANGED <<clock, g_logLevel, t_lastSecond, t_time, flushed, aborted>>

\* g_flush()
Flush(t) ==
    /\ At(t, "flush")
    /\ flushed' = Len(output)
    /\ Goes(t, "abort")
    /\ UNCHANGED <<clock, g_logLevel, t_lastSecond, t_time, composing, output, aborted>>

Abort(t) ==
    /\ At(t, "abort")
    /\ aborted' = TRUE
    /\ UNCHANGED <<clock, g_logLevel, t_lastSecond, t_time, composing, stage, output, flushed>>

Next ==
    \/ Tick
    \/ \E level \in LevelNames : SetLogLevel(level)
    \/ \E t \in Threads :
        \/ \E level \in LevelNames : LogLine(t, level)
        \/ NewSecond(t) \/ PrintTime(t) \/ KeepTime(t) \/ AppendTime(t)
        \/ FinishLine(t) \/ Flush(t) \/ Abort(t)

Spec == Init /\ [][Next]_vars

-----------------------------------------------------------------------------
\* A line shows the second in which it was begun, although the text is cached and other
\* threads and nested lines use other seconds (lines 127-149).
TimesTruthful == \A k \in 1..Len(output) : output[k].text = output[k].time_

\* After a FATAL line the process ends, and that line and all that were output before it
\* are safe (lines 185-195).
FatalSurvives ==
    /\ aborted => \E k \in 1..flushed : output[k].level = "FATAL"
    /\ \A k \in 1..Len(output) :
          output[k].level = "FATAL" => k <= flushed \/ \E t \in Threads : stage[t] = "flush"

=============================================================================
