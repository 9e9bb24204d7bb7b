----------------------------- MODULE EPollPoller -----------------------------
(***************************************************************************)
(* zing::net::EPollPoller with the calls that Channel makes to it.  The    *)
(* index_ of a channel is the poller's memory of what it told the kernel;  *)
(* a wrong one makes epoll_ctl fail, which ends the process (ADD, MOD) or  *)
(* leaves a pointer to a deleted channel in the kernel (DEL).              *)
(***************************************************************************)
EXTENDS Naturals, FiniteSets

CONSTANTS
    Fds,                 \* descriptors; each has one channel at a time
    kInitEventListSize,
    MaxEventListSize     \* bound: the event list is not observed beyond this size

Events == {"read", "write"}

VARIABLES
    events_, addedToLoop_, index_,   \* of the channel of each descriptor
    channels_,                       \* the map: the descriptors it knows
    epoll,                           \* the kernel: events watched, {Absent} if not in the set
    listSize,                        \* events_.size() of the poller
    asserted                         \* asserts and epoll_ctl calls that have failed

vars == <<events_, addedToLoop_, index_, channels_, epoll, listSize, asserted>>

Absent == "absent"

Init ==
    /\ events_ = [fd \in Fds |-> {}]
    /\ addedToLoop_ = [fd \in Fds |-> FALSE]
    /\ index_ = [fd \in Fds |-> "kNew"]
    /\ channels_ = {}
    /\ epoll = [fd \in Fds |-> {Absent}]
    /\ listSize = kInitEventListSize
    /\ asserted = {}

-----------------------------------------------------------------------------
InKernel(fd) == epoll[fd] # {Absent}

\* EPollPoller::update: epoll_ctl, which fails with EEXIST or ENOENT
Ctl(operation, fd, ev) ==
    /\ epoll' = [epoll EXCEPT ![fd] = IF operation = "DEL" THEN {Absent} ELSE ev]
    /\ asserted' = asserted \cup
           (IF (operation = "ADD") = InKernel(fd) THEN {"epoll_ctl"} ELSE {})

\* mutant of UpdateChannel: DEL does not change index_
UpdateChannelKeepsIndex(fd, ev) ==
    IF index_[fd] \in {"kNew", "kDeleted"}
    THEN /\ channels_' = channels_ \cup {fd}
         /\ index_' = [index_ EXCEPT ![fd] = "kAdded"]
         /\ Ctl("ADD", fd, ev)
    ELSE /\ Ctl(IF ev = {} THEN "DEL" ELSE "MOD", fd, ev)
         /\ UNCHANGED <<channels_, index_>>

\* updateChannel: ADD a channel that is new or was deleted, whatever its events; DEL
\* one that has none left; MOD otherwise.  ev are the events the channel has now.
UpdateChannel(fd, ev) ==
    IF index_[fd] \in {"kNew", "kDeleted"}
    THEN /\ channels_' = channels_ \cup {fd}
         /\ index_' = [index_ EXCEPT ![fd] = "kAdded"]
         /\ Ctl("ADD", fd, ev)
    ELSE /\ UNCHANGED channels_
         /\ index_' = [index_ EXCEPT ![fd] = IF ev = {} THEN "kDeleted" ELSE "kAdded"]
         /\ Ctl(IF ev = {} THEN "DEL" ELSE "MOD", fd, ev)

\* enableReading, enableWriting, disableReading, disableWriting, disableAll of Channel
SetEvents(fd, ev) ==
    /\ events_' = [events_ EXCEPT ![fd] = ev]
    /\ addedToLoop_' = [addedToLoop_ EXCEPT ![fd] = TRUE]
    /\ UpdateChannel(fd, ev)
    /\ UNCHANGED listSize

Enable(fd, e) == SetEvents(fd, events_[fd] \cup {e})
Disable(fd, e) == SetEvents(fd, events_[fd] \ {e})
DisableAll(fd) == SetEvents(fd, {})

\* removeChannel
RemoveChannel(fd) ==
    /\ channels_' = channels_ \ {fd}
    /\ index_' = [index_ EXCEPT ![fd] = "kNew"]
    /\ IF index_[fd] = "kAdded" THEN Ctl("DEL", fd, {}) ELSE UNCHANGED <<epoll, asserted>>

\* Channel::remove, of a channel that is in the loop and wants nothing any more
Remove(fd) ==
    /\ fd \in channels_ /\ events_[fd] = {}
    /\ addedToLoop_' = [addedToLoop_ EXCEPT ![fd] = FALSE]
    /\ RemoveChannel(fd)
    /\ UNCHANGED <<events_, listSize>>

\* poll: the kernel reports up to listSize of the descriptors in its set, and the list
\* doubles when it was filled.  fillActiveChannels takes the Channel* out of each event.
Poll(reported) ==
    /\ reported # {}
    /\ \A fd \in reported : InKernel(fd)
    /\ Cardinality(reported) <= listSize
    /\ listSize' = IF Cardinality(reported) = listSize /\ 2 * listSize <= MaxEventListSize
                   THEN 2 * listSize ELSE listSize
    /\ asserted' = asserted \cup
           (IF reported \subseteq channels_ THEN {} ELSE {"fillActiveChannels"})
    /\ UNCHANGED <<events_, addedToLoop_, index_, channels_, epoll>>

Next ==
    \/ \E fd \in Fds :
        \/ \E e \in Events : Enable(fd, e) \/ Disable(fd, e)
        \/ DisableAll(fd)
        \/ Remove(fd)
    \/ \E reported \in SUBSET Fds : Poll(reported)

Spec == Init /\ [][Next]_vars

-----------------------------------------------------------------------------
\* Types of the variables; the event list is never longer than the bound.
TypeOK ==
    /\ events_ \in [Fds -> SUBSET Events]
    /\ addedToLoop_ \in [Fds -> BOOLEAN]
    /\ index_ \in [Fds -> {"kNew", "kAdded", "kDeleted"}]
    /\ channels_ \subseteq Fds
    /\ epoll \in [Fds -> (SUBSET Events) \cup {{Absent}}]
    /\ listSize \in kInitEventListSize..MaxEventListSize
    /\ asserted \subseteq {"epoll_ctl", "fillActiveChannels"}

\* A channel that is out of the loop leaves no pointer to it in the kernel (~Channel,
\* Channel.cpp:39-42).
RemovedIsForgotten ==
    \A fd \in Fds : ~addedToLoop_[fd] => ~InKernel(fd) /\ fd \notin channels_

\* index_ is what the kernel was told: kAdded is in the epoll set with the events of
\* the channel, kDeleted and kNew are not in it; the map has all but the kNew ones.
IndexInStep ==
    /\ TypeOK
    /\ RemovedIsForgotten
    /\ \A fd \in Fds :
          /\ index_[fd] = "kAdded" <=> InKernel(fd)
          /\ InKernel(fd) => epoll[fd] = events_[fd]
          /\ index_[fd] = "kDeleted" => events_[fd] = {}
          /\ index_[fd] # "kNew" <=> fd \in channels_

\* No epoll_ctl fails and no event of an unknown channel is reported, in any order of
\* calls: LOG_SYSFATAL of line 184 and the asserts of lines 96-97, 115-133 are
\* unreachable.
NoFailure == asserted = {}

\* What the operating system is asked for each descriptor, as Poller sees it.  The DEL
\* of a channel without events is a change of representation only.
Watched(fd) ==
    IF fd \notin channels_ THEN {Absent} ELSE IF InKernel(fd) THEN epoll[fd] ELSE {}

=============================================================================
