---------------------------- MODULE DefaultPoller ----------------------------
(***************************************************************************)
(* Poller::newDefaultPoller: the environment decides whether an EventLoop  *)
(* polls with PollPoller or with EPollPoller.  Channel sees one interface, *)
(* Poller, which both implement.  The members of the poller that was not   *)
(* made keep their initial values.                                         *)
(***************************************************************************)
EXTENDS Integers, FiniteSets

CONSTANTS
    Fds,                 \* descriptors, natural numbers; each has one channel at a time
    kInitEventListSize,
    MaxEventListSize     \* bound: the event list is not observed beyond this size

ASSUME FdAssumption == Fds \subseteq Nat /\ IsFiniteSet(Fds)
ASSUME SizeAssumption ==
    /\ kInitEventListSize \in Nat \ {0}
    /\ MaxEventListSize \in Nat /\ kInitEventListSize <= MaxEventListSize

VARIABLES
    usePoll,                             \* getenv("ZING_USE_POLL") was not nullptr
    events_, index_, channels_, asserted,
    addedToLoop_, epoll, listSize,       \* used by EPollPoller
    pollfds_                             \* used by PollPoller

ePollPoller == INSTANCE EPollPoller
pollPoller == INSTANCE PollPoller

vars == <<usePoll, events_, index_, channels_, asserted, addedToLoop_, epoll, listSize,
          pollfds_>>

\* newDefaultPoller, in the constructor of EventLoop
Init ==
    /\ usePoll \in BOOLEAN
    /\ IF usePoll THEN pollPoller!Init ELSE ePollPoller!Init
    /\ usePoll =>
           /\ addedToLoop_ = [fd \in Fds |-> FALSE]
           /\ epoll = [fd \in Fds |-> {"absent"}]
           /\ listSize = kInitEventListSize
    /\ ~usePoll => pollfds_ = <<>>

ePollPollerOnly == <<addedToLoop_, epoll, listSize>>

PollPollerStep ==
    /\ usePoll
    /\ pollPoller!Next
    /\ UNCHANGED <<usePoll, ePollPollerOnly>>

EPollPollerStep ==
    /\ ~usePoll
    /\ ePollPoller!Next
    /\ UNCHANGED <<usePoll, pollfds_>>

Next == PollPollerStep \/ EPollPollerStep

Spec == Init /\ [][Next]_vars

\* the calls of Channel and of EventLoop, whichever poller there is
SetEvents(fd, ev) ==
    /\ IF usePoll THEN pollPoller!SetEvents(fd, ev) /\ UNCHANGED ePollPollerOnly
                  ELSE ePollPoller!SetEvents(fd, ev) /\ UNCHANGED pollfds_
    /\ UNCHANGED usePoll

Remove(fd) ==
    /\ IF usePoll THEN pollPoller!Remove(fd) /\ UNCHANGED ePollPollerOnly
                  ELSE ePollPoller!Remove(fd) /\ UNCHANGED pollfds_
    /\ UNCHANGED usePoll

Poll(reported) ==
    /\ IF usePoll THEN pollPoller!Poll(reported) /\ UNCHANGED ePollPollerOnly
                  ELSE ePollPoller!Poll(reported) /\ UNCHANGED pollfds_
    /\ UNCHANGED usePoll

-----------------------------------------------------------------------------
\* index_ is always what the poller needs to know about the channel: its state in the
\* kernel for EPollPoller, the position of its entry for PollPoller.
IndexInStep == IF usePoll THEN pollPoller!IndexInStep ELSE ePollPoller!IndexInStep

\* No assert of a poller and no epoll_ctl fails, in any order of calls
\* (EPollPoller.cpp:96-133, 184, PollPoller.cpp:62-117).
NoFailure == IF usePoll THEN pollPoller!NoFailure ELSE ePollPoller!NoFailure

\* Whichever poller is made implements Poller: the operating system is asked for what
\* the channel of each descriptor wants, from the call until the removal.
Watched(fd) == IF usePoll THEN pollPoller!Watched(fd) ELSE ePollPoller!Watched(fd)

Abstract == INSTANCE Poller WITH
    Events <- {"read", "write"},
    wanted <- events_,
    interest <- [fd \in Fds |-> Watched(fd)]

PollerSpec == Abstract!Spec

=============================================================================
