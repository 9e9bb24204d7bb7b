-------------------------------- MODULE Poller --------------------------------
(***************************************************************************)
(* What zing::net::Poller promises to Channel: the operating system is     *)
(* asked for exactly the events that the channel of each descriptor wants, *)
(* from the call on, until the channel is removed.  EPollPoller and        *)
(* PollPoller implement it.                                                *)
(***************************************************************************)
CONSTANTS Fds, Events

VARIABLES
    wanted,      \* events_ of the channel of each descriptor
    interest     \* the events watched for each descriptor, {Absent} if it is unknown

Absent == "absent"

Init ==
    /\ wanted = [fd \in Fds |-> {}]
    /\ interest = [fd \in Fds |-> {Absent}]

\* updateChannel: a new channel, or new events for a known one
UpdateChannel(fd, ev) ==
    /\ wanted' = [wanted EXCEPT ![fd] = ev]
    /\ interest' = [interest EXCEPT ![fd] = ev]

\* removeChannel: only a known channel that wants no event
RemoveChannel(fd) ==
    /\ interest[fd] = {}
    /\ interest' = [interest EXCEPT ![fd] = {Absent}]
    /\ UNCHANGED wanted

Next ==
    \E fd \in Fds :
        \/ \E ev \in SUBSET Events : UpdateChannel(fd, ev)
        \/ RemoveChannel(fd)

Spec == Init /\ [][Next]_<<wanted, interest>>

=============================================================================
