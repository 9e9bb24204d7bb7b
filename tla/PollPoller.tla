------------------------------ MODULE PollPoller ------------------------------
(***************************************************************************)
(* zing::net::PollPoller with the calls that Channel makes to it.  pollfds_*)
(* is compact: removal moves the last entry into the gap, and a channel    *)
(* without events keeps its entry under the descriptor -fd - 1, which      *)
(* poll(2) skips.  index_ is a position in that array.                     *)
(***************************************************************************)
EXTENDS Integers, Sequences, FiniteSets

CONSTANT Fds   \* descriptors, natural numbers; 0 is one of them

Events == {"read", "write"}

VARIABLES
    events_, index_,   \* of the channel of each descriptor; index_ is 0-based, -1 is none
    channels_,         \* the map: the descriptors it knows
    pollfds_,          \* a sequence of [fd, events]
    asserted           \* asserts that have failed

vars == <<events_, index_, channels_, pollfds_, asserted>>

Init ==
    /\ events_ = [fd \in Fds |-> {}]
    /\ index_ = [fd \in Fds |-> -1]
    /\ channels_ = {}
    /\ pollfds_ = <<>>
    /\ asserted = {}

-----------------------------------------------------------------------------
\* how the descriptor of a channel without events is stored, and back
Ignored(fd) == -fd - 1
Stored(fd) == IF fd < 0 THEN -fd - 1 ELSE fd

Valid(idx) == 0 <= idx /\ idx < Len(pollfds_)

Failed(condition, label) == IF condition THEN {} ELSE {label}

\* mutant of UpdateChannel: an ignored entry is not given its descriptor back
UpdateChannelStaysIgnored(fd, ev) ==
    IF index_[fd] < 0
    THEN /\ pollfds_' = Append(pollfds_, [fd |-> fd, events |-> ev])
         /\ index_' = [index_ EXCEPT ![fd] = Len(pollfds_)]
         /\ channels_' = channels_ \cup {fd}
         /\ UNCHANGED asserted
    ELSE /\ pollfds_' = [pollfds_ EXCEPT ![index_[fd] + 1] =
                            [fd |-> IF ev = {} THEN Ignored(fd) ELSE @.fd, events |-> ev]]
         /\ UNCHANGED <<index_, channels_, asserted>>

\* updateChannel: append an entry, or rewrite the one at index_.  A new entry has the
\* descriptor itself, whatever its events.
UpdateChannel(fd, ev) ==
    IF index_[fd] < 0
    THEN /\ pollfds_' = Append(pollfds_, [fd |-> fd, events |-> ev])
         /\ index_' = [index_ EXCEPT ![fd] = Len(pollfds_)]
         /\ channels_' = channels_ \cup {fd}
         /\ asserted' = asserted \cup Failed(fd \notin channels_, "new")
    ELSE /\ pollfds_' = [pollfds_ EXCEPT ![index_[fd] + 1] =
                            [fd |-> IF ev = {} THEN Ignored(fd) ELSE fd, events |-> ev]]
         /\ asserted' = asserted \cup
                Failed(/\ fd \in channels_ /\ Valid(index_[fd])
                       /\ pollfds_[index_[fd] + 1].fd \in {fd, Ignored(fd)}, "update")
         /\ UNCHANGED <<index_, channels_>>

\* Precondition: a channel is enabled before it is disabled.  Only the destructor of an
\* Acceptor that never listened does otherwise (Acceptor.cpp:38), and then fails the
\* assert of line 115.
EnabledFirst(fd, ev) == fd \in channels_ \/ ev # {}

\* enableReading, enableWriting, disableReading, disableWriting, disableAll of Channel
SetEvents(fd, ev) ==
    /\ EnabledFirst(fd, ev)
    /\ events_' = [events_ EXCEPT ![fd] = ev]
    /\ UpdateChannel(fd, ev)

Enable(fd, e) == SetEvents(fd, events_[fd] \cup {e})
Disable(fd, e) == SetEvents(fd, events_[fd] \ {e})
DisableAll(fd) == SetEvents(fd, {})

\* mutant of FillGap: the channel of the last entry is not told its new index
FillGapSilently(idx, last) == index_

\* the last entry moves to idx: its channel is told
FillGap(idx, last) == [index_ EXCEPT ![Stored(pollfds_[last].fd)] = idx]

\* removeChannel.  index_ of the removed channel keeps its value: the code does not
\* reset it, so a channel is not used again after remove().
RemoveChannel(fd) ==
    LET idx == index_[fd]
        last == Len(pollfds_)
    IN  /\ channels_' = channels_ \ {fd}
        /\ asserted' = asserted \cup
               Failed(pollfds_[idx + 1] = [fd |-> Ignored(fd), events |-> events_[fd]], "remove")
        /\ IF idx = last - 1
           THEN UNCHANGED index_
           ELSE index_' = FillGap(idx, last)
        /\ pollfds_' = SubSeq([pollfds_ EXCEPT ![idx + 1] = pollfds_[last]], 1, last - 1)

Remove(fd) ==
    /\ fd \in channels_ /\ events_[fd] = {}
    /\ RemoveChannel(fd)
    /\ UNCHANGED events_

\* the object is destroyed, and later a new Channel is made for the same descriptor
NewChannel(fd) ==
    /\ fd \notin channels_ /\ index_[fd] >= 0
    /\ index_' = [index_ EXCEPT ![fd] = -1]
    /\ UNCHANGED <<events_, channels_, pollfds_, asserted>>

\* poll: poll(2) skips the ignored entries; fillActiveChannels looks up the channel of
\* each entry with events
Poll(reported) ==
    /\ reported # {}
    /\ \A fd \in reported : \E i \in 1..Len(pollfds_) : pollfds_[i].fd = fd
    /\ asserted' = asserted \cup Failed(reported \subseteq channels_, "fillActiveChannels")
    /\ UNCHANGED <<events_, index_, channels_, pollfds_>>

InUse(fd) == fd \in channels_ \/ index_[fd] < 0

Next ==
    \/ \E fd \in Fds :
        \/ InUse(fd) /\ \E e \in Events : Enable(fd, e) \/ Disable(fd, e)
        \/ InUse(fd) /\ DisableAll(fd)
        \/ Remove(fd)
        \/ NewChannel(fd)
    \/ \E reported \in SUBSET Fds : Poll(reported)

Spec == Init /\ [][Next]_vars

-----------------------------------------------------------------------------
\* Types of the variables.
TypeOK ==
    /\ events_ \in [Fds -> SUBSET Events]
    /\ index_ \in [Fds -> -1..Cardinality(Fds)]
    /\ channels_ \subseteq Fds
    /\ Len(pollfds_) <= Cardinality(Fds)
    /\ \A i \in 1..Len(pollfds_) : Stored(pollfds_[i].fd) \in Fds

\* index_ of every known channel is the position of its own entry, and there are no
\* other entries, however often the last one has been moved into a gap.  poll(2) skips the
\* entry, whose descriptor is negative, exactly while the channel wants nothing, also that
\* of descriptor 0, which a plain -fd would not hide.
IndexInStep ==
    /\ TypeOK
    /\ Len(pollfds_) = Cardinality(channels_)
    /\ \A fd \in channels_ :
        /\ Valid(index_[fd])
        /\ pollfds_[index_[fd] + 1].fd \in {fd, Ignored(fd)}
        /\ pollfds_[index_[fd] + 1].events = events_[fd]
        /\ pollfds_[index_[fd] + 1].fd < 0 <=> events_[fd] = {}

\* No assert of the poller fails (lines 62-64, 77, 89-94, 109-117).
NoFailure == asserted = {}

\* What poll(2) is asked for each descriptor, as Poller sees it: nothing for a channel
\* that wants nothing.
Watched(fd) ==
    IF fd \notin channels_ THEN {"absent"}
    ELSE UNION {pollfds_[i].events : i \in {i \in 1..Len(pollfds_) : pollfds_[i].fd = fd}}

=============================================================================
