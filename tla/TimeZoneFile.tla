------------------------------ MODULE TimeZoneFile ------------------------------
(***************************************************************************)
(* readTimeZoneFile of TimeZone.cpp: a file, complete or cut short         *)
(* anywhere, with any counts and indexes in it, or one of another kind, is *)
(* read item by item; the first item that is not there ends the reading    *)
(* (logic_error, which a negative timecnt throws as well), whatever has    *)
(* got into Data stays, and the TimeZone is valid all the same: it may     *)
(* have some local times and no transitions.                               *)
(*                                                                         *)
(* An item is what one readBytes, readInt32 or readUInt8 reads.  A time    *)
(* is its number, an offset that of its local time.  The indexes are not   *)
(* checked: one that is too large reads behind the local times, which      *)
(* gives any number (the build may also end there).                        *)
(***************************************************************************)
EXTENDS Integers, Sequences

CONSTANTS
    MaxCount,        \* bound: timecnt, typecnt and the indexes
    Garbage          \* the numbers that may lie behind the end of a vector

CountAssumption == MaxCount \in Nat /\ Garbage \subseteq Int

Header == 9          \* head, version, the 15 bytes, six counts

VARIABLES
    isTZif, timecnt, indexes, typecnt,   \* what the file says; a negative typecnt is
                                         \* read as 0 is
    available,                           \* the items that it has
    pos,                                 \* the items that have been read
    trans, locals, type,                 \* the local vectors and a half read local time
    data,                                \* [localtimes, transitions, abbreviation]
    caught                               \* the logic_error

vars == <<isTZif, timecnt, indexes, typecnt, available, pos, trans, locals, type, data, caught>>

Times == IF timecnt > 0 THEN timecnt ELSE 0
Complete == Header + 2 * Times + 3 * typecnt + 1

\* the offset of a local time, in the same unit as the times
Offset(idx) == 10 * idx
LocalTime(idx) == [gmtOffset |-> Offset(idx), isDst |-> idx > 0, arrbIdx |-> idx]

Init ==
    /\ isTZif \in BOOLEAN
    /\ timecnt \in -1..MaxCount /\ typecnt \in 0..MaxCount
    /\ indexes \in [1..Times -> 0..MaxCount]
    /\ available \in 0..Complete
    /\ pos = 0 /\ trans = <<>> /\ locals = <<>> /\ type = <<>>
    /\ data = [localtimes |-> <<>>, transitions |-> <<>>, abbreviation |-> FALSE]
    /\ caught = FALSE

\* mutant of Read: fread's result is not looked at
ReadUnchecked(first, last) == ~caught /\ pos \in first..last /\ pos' = pos + 1

\* one of the items first..last, counted from 0, is read; trans.reserve(timecnt) comes
\* between the header and the times
Read(first, last) ==
    /\ ~caught /\ pos \in first..last /\ pos < available
    /\ pos >= Header => timecnt >= 0
    /\ pos' = pos + 1

file == <<isTZif, timecnt, indexes, typecnt, available>>

ReadHeader ==
    /\ Read(0, Header - 1)
    /\ pos = 0 => isTZif
    /\ UNCHANGED <<file, trans, locals, type, data, caught>>

ReadTime ==
    /\ Read(Header, Header + Times - 1)
    /\ trans' = Append(trans, Len(trans) + 1)
    /\ UNCHANGED <<file, locals, type, data, caught>>

ReadIndex ==
    /\ Read(Header + Times, Header + 2 * Times - 1)
    /\ locals' = Append(locals, indexes[Len(locals) + 1])
    /\ UNCHANGED <<file, trans, type, data, caught>>

\* gmtoff, isdst and abbrind; the third one makes the Localtime
ReadType ==
    /\ Read(Header + 2 * Times, Complete - 2)
    /\ IF Len(type) < 2
       THEN type' = Append(type, pos) /\ UNCHANGED data
       ELSE /\ type' = <<>>
            /\ data' = [data EXCEPT !.localtimes = Append(@, LocalTime(Len(@)))]
    /\ UNCHANGED <<file, trans, locals, caught>>

\* the loop that makes the transitions, when all local times have been read, before
\* data->abbreviation = f.readBytes(charcnt)
MakeTransitions ==
    /\ ~caught /\ pos = Complete - 1 /\ timecnt > 0 /\ data.transitions = <<>>
    /\ \E behind \in [1..Times -> Garbage] :
        data' = [data EXCEPT !.transitions =
                    [k \in 1..Times |->
                        [gmttime |-> trans[k],
                         localtime |-> trans[k] + (IF locals[k] < Len(data.localtimes)
                                                   THEN data.localtimes[locals[k] + 1].gmtOffset
                                                   ELSE behind[k]),
                         localtimeIdx |-> locals[k]]]]
    /\ UNCHANGED <<file, pos, trans, locals, type, caught>>

ReadAbbreviation ==
    /\ Len(data.transitions) = Times /\ Read(Complete - 1, Complete - 1)
    /\ data' = [data EXCEPT !.abbreviation = TRUE]
    /\ UNCHANGED <<file, trans, locals, type, caught>>

\* an item is missing, the head is another one, or vector::reserve throws length_error
LogicError ==
    /\ ~caught /\ pos < Complete
    /\ pos = available \/ (pos = 0 /\ ~isTZif) \/ (pos = Header /\ timecnt < 0)
    /\ pos = Complete - 1 => Len(data.transitions) = Times
    /\ caught' = TRUE
    /\ UNCHANGED <<file, pos, trans, locals, type, data>>

Next ==
    \/ ReadHeader \/ ReadTime \/ ReadIndex \/ ReadType \/ MakeTransitions \/ ReadAbbreviation
    \/ LogicError

Spec == Init /\ [][Next]_vars

-----------------------------------------------------------------------------
\* Whatever a file says and wherever it is cut short, no half read local time gets into
\* Data, and the transitions are there all or not at all, with every local time of the
\* file there before them: a transition has its own time, index and offset, unless its
\* index points behind the local times that the file itself announces.  A file of another
\* kind leaves nothing (lines 149-216).
NothingHalfRead ==
    /\ data.localtimes = [k \in 1..Len(data.localtimes) |-> LocalTime(k - 1)]
    /\ pos <= available
    /\ data.transitions # <<>> =>
        /\ Len(data.transitions) = Times /\ Len(data.localtimes) = typecnt
        /\ \A k \in 1..Times :
            LET t == data.transitions[k]
            IN  /\ t.gmttime = k /\ t.localtimeIdx = indexes[k]
                /\ indexes[k] < typecnt => t.localtime = k + Offset(indexes[k])
    /\ data.abbreviation => Len(data.transitions) = Times /\ pos = Complete
    /\ ~isTZif \/ timecnt < 0 =>
        data.localtimes = <<>> /\ data.transitions = <<>> /\ ~data.abbreviation

=============================================================================
