------------------------------- MODULE TimeZone -------------------------------
(***************************************************************************)
(* zing::TimeZone: conversion between UTC and the clock of a zone, which   *)
(* is a sequence of transitions between local times.  The specification    *)
(* walks through time in zones that change between standard time and       *)
(* summer time.                                                            *)
(*                                                                         *)
(* Time is counted in units of 1/Hour hours; a broken down time is the     *)
(* clock reading, as one number, and tm_isdst (gmtime_r and timegm take    *)
(* one to the other).                                                      *)
(***************************************************************************)
EXTENDS Integers, Sequences, FiniteSetsExt

CONSTANTS
    Hour,            \* the 3600 seconds of the code
    Offsets,         \* the standard offsets of the zones
    TransitionTimes, \* when the clock may be changed
    Spacing,         \* changes are at least that far from each other
    MaxTransitions,  \* bound: how many changes there are
    MaxTime          \* bound

TimeAssumption ==
    /\ Hour \in Nat \ {0} /\ Offsets \subseteq Int
    /\ TransitionTimes \subseteq Nat /\ Spacing \in Nat
    /\ MaxTransitions \in Nat /\ MaxTime \in Nat
    /\ Spacing > 2 * Hour

Day == 24 * Hour

VARIABLES
    localtimes,      \* [gmtOffset, isDst], the first is used before all transitions
    transitions,     \* [gmttime, localtime, localtimeIdx]
    seconds          \* the UTC time that is converted

vars == <<localtimes, transitions, seconds>>

\* the transition that readTimeZoneFile makes of a time and an index
Transition(lts, t, idx) ==
    [gmttime |-> t, localtime |-> t + lts[idx].gmtOffset, localtimeIdx |-> idx]

\* a zone of standard and summer time, in this or the other order, or a fixed one
Init ==
    /\ \E offset \in Offsets, firstIsDst \in BOOLEAN :
        LET Local(dst) == [gmtOffset |-> IF dst THEN offset + Hour ELSE offset, isDst |-> dst]
        IN  localtimes = <<Local(firstIsDst), Local(~firstIsDst)>>
    /\ \E n \in 0..MaxTransitions : \E times \in [1..n -> TransitionTimes] :
        /\ \A j, k \in 1..n : j < k => times[k] - times[j] >= Spacing
        /\ transitions = [k \in 1..n |->
                             Transition(localtimes, times[k], IF k % 2 = 1 THEN 2 ELSE 1)]
    /\ seconds = 0

Next ==
    /\ seconds < MaxTime
    /\ seconds' = seconds + 1
    /\ UNCHANGED <<localtimes, transitions>>

Spec == Init /\ [][Next]_vars

-----------------------------------------------------------------------------
\* Comp
Key(trans, compareGmt) == IF compareGmt THEN trans.gmttime ELSE trans.localtime

\* findLocaltime: lower_bound is the first transition that is not before the sentry
findLocaltime(sentry, compareGmt) ==
    LET from == {k \in 1..Len(transitions) : Key(transitions[k], compareGmt) >= sentry}
        transI == IF from = {} THEN Len(transitions) + 1 ELSE Min(from)
        k == IF from # {} /\ Key(transitions[transI], compareGmt) = sentry
             THEN transI ELSE transI - 1
    IN  IF transitions = <<>> \/ sentry < Key(transitions[1], compareGmt)
        THEN localtimes[1]
        ELSE localtimes[transitions[k].localtimeIdx]

toLocalTime(t) ==
    LET local == findLocaltime(t, TRUE)
    IN  [clock |-> t + local.gmtOffset, isDst |-> local.isDst]

\* mutant of fromLocalTime: the hour that the clock shows twice is always the second
fromLocalTimeSecond(tm) == tm.clock - findLocaltime(tm.clock, FALSE).gmtOffset

\* fromLocalTime; the two times are compared by their hours and minutes only
fromLocalTime(tm) ==
    LET local == findLocaltime(tm.clock, FALSE)
        tryTm == toLocalTime(tm.clock - local.gmtOffset)
        secs == IF tm.isDst /\ ~tryTm.isDst /\ tryTm.clock % Day = tm.clock % Day
                THEN tm.clock - Hour ELSE tm.clock
    IN  secs - local.gmtOffset

-----------------------------------------------------------------------------
\* Every moment is found again from what the clock showed and whether it was summer
\* time, also in the hour that the clock shows twice and at the transitions themselves
\* (lines 309-319).
LocalRoundTrip == fromLocalTime(toLocalTime(seconds)) = seconds

\* The clock is put forward or back by an hour at the transitions and at no other time
\* (lower_bound and the test for equality, lines 236-246).
ClockChanges ==
    toLocalTime(seconds + 1).clock - toLocalTime(seconds).clock =
        IF \E k \in 1..Len(transitions) : transitions[k].gmttime = seconds + 1
        THEN IF toLocalTime(seconds).isDst THEN 1 - Hour ELSE 1 + Hour
        ELSE 1

=============================================================================
