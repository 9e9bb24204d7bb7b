------------------------------- MODULE Dispatch -------------------------------
(***************************************************************************)
(* How EventLoop::loop hands events to channels: the pollers of            *)
(* DefaultPoller, Channel::handleEvent, and the objects that own channels. *)
(* activeChannels_ holds plain pointers and revents_ is a snapshot, while  *)
(* each callback may change, close or create any other channel of the loop.*)
(* One listening channel and the connections of a TcpServer without io     *)
(* threads stand for the owners.                                           *)
(***************************************************************************)
EXTENDS DefaultPoller, FiniteSets

CONSTANT AcceptFd   \* the listening descriptor; the others are free for connections
ASSUME AcceptAssumption == AcceptFd \in Fds

None == -1

VARIABLES
    phase,                   \* of loop(): in poll(), calling handleEvent, or functors
    activeChannels_,         \* the pointers that poll() returned
    toHandle,                \* those that the for loop has not reached
    currentActiveChannel_,
    revents_,                \* what poll() reported and handleEvent has still to look at
    owner,                   \* of each channel: "up", "down" (closed), "dying" (in
                             \* connectDestroyed), "removed"; "none": free descriptor
    pendingFunctors_, functors,
    doomed,                  \* connections that ~TcpServer has still to destroy
    inCallback,              \* application code runs in a callback
    mayStopRead,             \* usage: the application calls stopRead(), not forceClose()
    failed                   \* asserts of EventLoop, Channel and TcpConnection that failed

loopVars == <<phase, activeChannels_, toHandle, currentActiveChannel_, revents_>>
ownerVars == <<owner, pendingFunctors_, functors, doomed, failed>>
allVars == <<vars, loopVars, ownerVars, inCallback, mayStopRead>>

Reportable == {"in", "out", "hup"}
Connections == Fds \ {AcceptFd}

\* the listening socket is in the poller before the first iteration
DispatchInit ==
    /\ Init
    /\ phase = "setup"
    /\ activeChannels_ = {} /\ toHandle = {} /\ currentActiveChannel_ = None
    /\ revents_ = [fd \in Fds |-> {}]
    /\ owner = [fd \in Fds |-> IF fd = AcceptFd THEN "up" ELSE "none"]
    /\ pendingFunctors_ = {} /\ functors = {} /\ doomed = {}
    /\ inCallback = FALSE
    /\ mayStopRead \in BOOLEAN
    /\ failed = {}

Fails(condition, label) == failed' = failed \cup (IF condition THEN {} ELSE {label})

Listen ==
    /\ phase = "setup"
    /\ SetEvents(AcceptFd, {"read"})
    /\ phase' = "poll"
    /\ UNCHANGED <<activeChannels_, toHandle, currentActiveChannel_, revents_, ownerVars,
                   inCallback, mayStopRead>>

-----------------------------------------------------------------------------
\* the loop

\* what the kernel may report of a descriptor: what was asked for, and a hangup always
Reports(fd) ==
    {r \in SUBSET Reportable :
        /\ r # {}
        /\ "in" \in r => "read" \in events_[fd]
        /\ "out" \in r => "write" \in events_[fd]
        /\ fd = AcceptFd => r = {"in"}}

PollReturns(reported) ==
    /\ phase = "poll"
    /\ Poll(reported)
    /\ revents_' \in [Fds -> SUBSET Reportable]
    /\ \A fd \in Fds : IF fd \in reported THEN revents_'[fd] \in Reports(fd)
                                           ELSE revents_'[fd] = revents_[fd]
    /\ activeChannels_' = reported /\ toHandle' = reported
    /\ phase' = "dispatch"
    /\ UNCHANGED <<currentActiveChannel_, ownerVars, inCallback, mayStopRead>>

PollTimeout ==
    /\ phase = "poll"
    /\ activeChannels_' = {}
    /\ phase' = "dispatch"
    /\ UNCHANGED <<vars, toHandle, currentActiveChannel_, revents_, ownerVars, inCallback,
                   mayStopRead>>

\* the next element of activeChannels_, in any order
NextChannel(fd) ==
    /\ phase = "dispatch" /\ currentActiveChannel_ = None
    /\ fd \in toHandle
    /\ toHandle' = toHandle \ {fd}
    /\ currentActiveChannel_' = fd
    /\ UNCHANGED <<vars, phase, activeChannels_, revents_, ownerVars, inCallback, mayStopRead>>

\* mutant of AllHandled: the functors are run between two channels
AllHandledOrNot == TRUE

\* the for loop is over
AllHandled == toHandle = {}

\* doPendingFunctors
EventsDone ==
    /\ phase = "dispatch" /\ currentActiveChannel_ = None
    /\ AllHandled
    /\ phase' = "functors"
    /\ functors' = pendingFunctors_ /\ pendingFunctors_' = {}
    /\ UNCHANGED <<vars, activeChannels_, toHandle, currentActiveChannel_, revents_, owner,
                   doomed, failed, inCallback, mayStopRead>>

\* connectDestroyed is not between its callback and Channel::remove
NotDestroying == \A fd \in Fds : owner[fd] # "dying"

FunctorsDone ==
    /\ phase = "functors" /\ functors = {} /\ doomed = {} /\ ~inCallback
    /\ NotDestroying
    /\ phase' = "poll"
    /\ UNCHANGED <<vars, activeChannels_, toHandle, currentActiveChannel_, revents_, ownerVars,
                   inCallback, mayStopRead>>

-----------------------------------------------------------------------------
\* Channel::handleEvent: the callbacks, in the order of the code

\* handleClose: the close callback queues connectDestroyed (TcpServer::removeConnection
\* in the loop of the server), with a reference to the connection
HandleClose(fd) ==
    /\ Fails(owner[fd] = "up", "handleClose")
    /\ owner' = [owner EXCEPT ![fd] = "down"]
    /\ SetEvents(fd, {})
    /\ pendingFunctors_' = pendingFunctors_ \cup {<<"connectDestroyed", fd>>}
    /\ inCallback' = TRUE

Handling(fd) ==
    /\ fd = currentActiveChannel_ /\ ~inCallback
    /\ UNCHANGED <<phase, activeChannels_, toHandle, currentActiveChannel_, mayStopRead>>

Handled(fd, r) == revents_' = [revents_ EXCEPT ![fd] = @ \ r]

CloseCallback(fd) ==
    /\ Handling(fd)
    /\ "hup" \in revents_[fd] /\ "in" \notin revents_[fd]
    /\ Handled(fd, {"hup"})
    /\ HandleClose(fd)
    /\ UNCHANGED <<functors, doomed>>

\* TcpConnection::handleRead: a message, or the end of the stream
ReadCallback(fd) ==
    /\ Handling(fd) /\ fd # AcceptFd
    /\ "in" \in revents_[fd]
    /\ Handled(fd, {"in", "hup"})
    /\ \/ inCallback' = TRUE /\ UNCHANGED <<vars, owner, pendingFunctors_, failed>>
       \/ HandleClose(fd)
    /\ UNCHANGED <<functors, doomed>>

\* Acceptor::handleRead, TcpServer::newConnection and connectEstablished, in this loop
AcceptCallback(conn) ==
    /\ Handling(AcceptFd) /\ conn # AcceptFd
    /\ "in" \in revents_[AcceptFd] /\ owner[conn] = "none"
    /\ Handled(AcceptFd, {"in"})
    /\ owner' = [owner EXCEPT ![conn] = "up"]
    /\ SetEvents(conn, {"read"})
    /\ inCallback' = TRUE
    /\ UNCHANGED <<pendingFunctors_, functors, doomed, failed>>

\* accept failed
AcceptNothing ==
    /\ Handling(AcceptFd)
    /\ "in" \in revents_[AcceptFd]
    /\ Handled(AcceptFd, {"in"})
    /\ UNCHANGED <<vars, ownerVars, inCallback>>

\* mutant of WriteCallback: revents_ is believed, isWriting() is not asked
WriteCallbackTrusting(fd) ==
    /\ Handling(fd)
    /\ revents_[fd] = {"out"}
    /\ Handled(fd, {"out"})
    /\ SetEvents(fd, events_[fd] \ {"write"})
    /\ Fails(owner[fd] = "up", "write")
    /\ UNCHANGED <<owner, pendingFunctors_, functors, doomed, inCallback>>

\* TcpConnection::handleWrite asks isWriting(): revents_ may be out of date
WriteCallback(fd) ==
    /\ Handling(fd)
    /\ revents_[fd] = {"out"}
    /\ Handled(fd, {"out"})
    /\ IF "write" \in events_[fd]
       THEN /\ Fails(owner[fd] = "up", "write")
            /\ UNCHANGED vars \/ SetEvents(fd, events_[fd] \ {"write"})
       ELSE UNCHANGED <<vars, failed>>
    /\ UNCHANGED <<owner, pendingFunctors_, functors, doomed, inCallback>>

\* handleEvent returns
HandleEventReturns(fd) ==
    /\ fd = currentActiveChannel_ /\ ~inCallback
    /\ revents_[fd] = {}
    /\ currentActiveChannel_' = None
    /\ UNCHANGED <<vars, phase, activeChannels_, toHandle, revents_, ownerVars, inCallback,
                   mayStopRead>>

-----------------------------------------------------------------------------
\* the application, in a callback: any call about any connection of the loop

InCallback ==
    /\ inCallback
    /\ UNCHANGED <<loopVars, owner, functors, doomed, failed, inCallback, mayStopRead>>

\* send() of more than the kernel takes
Send(conn) ==
    /\ InCallback /\ owner[conn] = "up" /\ "write" \notin events_[conn]
    /\ SetEvents(conn, events_[conn] \cup {"write"})
    /\ UNCHANGED pendingFunctors_

\* After stopRead() a hangup that follows a close is reported again (README, section 7),
\* so either stopRead() or forceClose() is used.
StartRead(conn) ==
    /\ InCallback /\ owner[conn] = "up" /\ mayStopRead
    /\ "read" \notin events_[conn]
    /\ SetEvents(conn, events_[conn] \cup {"read"})
    /\ UNCHANGED pendingFunctors_

StopRead(conn) ==
    /\ InCallback /\ owner[conn] = "up" /\ mayStopRead
    /\ "read" \in events_[conn]
    /\ SetEvents(conn, events_[conn] \ {"read"})
    /\ UNCHANGED pendingFunctors_

\* mutant of ForceClose: forceCloseInLoop runs at once
ForceCloseAtOnce(conn) ==
    /\ inCallback /\ owner[conn] = "up" /\ ~mayStopRead
    /\ HandleClose(conn)
    /\ UNCHANGED <<loopVars, functors, doomed, mayStopRead>>

\* forceClose() queues, in the loop thread too
ForceClose(conn) ==
    /\ InCallback /\ owner[conn] = "up" /\ ~mayStopRead
    /\ pendingFunctors_' = pendingFunctors_ \cup {<<"forceClose", conn>>}
    /\ UNCHANGED vars

\* the application queues a functor that destroys the server.  Not in the callback
\* itself: connectDestroyed would remove channels that are active.
QueueDestroyServer ==
    /\ InCallback /\ owner[AcceptFd] = "up"
    /\ pendingFunctors_' = pendingFunctors_ \cup {<<"destroyServer", AcceptFd>>}
    /\ UNCHANGED vars

CallbackReturns ==
    /\ inCallback /\ inCallback' = FALSE
    /\ UNCHANGED <<vars, loopVars, ownerVars, mayStopRead>>

-----------------------------------------------------------------------------
\* functors, in any order

Run(kind, fd) ==
    /\ phase = "functors" /\ ~inCallback /\ doomed = {}
    /\ NotDestroying
    /\ <<kind, fd>> \in functors
    /\ functors' = functors \ {<<kind, fd>>}
    /\ UNCHANGED <<loopVars, mayStopRead>>

\* forceCloseInLoop
RunForceClose(fd) ==
    /\ Run("forceClose", fd)
    /\ IF owner[fd] = "up"
       THEN HandleClose(fd)
       ELSE UNCHANGED <<vars, owner, pendingFunctors_, failed, inCallback>>
    /\ UNCHANGED doomed

\* connectDestroyed of a connection that has been closed
RunConnectDestroyed(fd) ==
    /\ Run("connectDestroyed", fd)
    /\ owner' = [owner EXCEPT ![fd] = "dying"]
    /\ UNCHANGED <<vars, pendingFunctors_, doomed, failed, inCallback>>

\* ~TcpServer: the connections in its map are those that are not closed
RunDestroyServer ==
    /\ Run("destroyServer", AcceptFd)
    /\ doomed' = {fd \in Fds : owner[fd] = "up"}
    /\ UNCHANGED <<vars, owner, pendingFunctors_, failed, inCallback>>

\* connectDestroyed of a connection that is up, and ~Acceptor: disableAll, the callback
DestroyDoomed(fd) ==
    /\ fd \in doomed /\ ~inCallback /\ NotDestroying
    /\ fd = AcceptFd => doomed = {AcceptFd}
    /\ doomed' = doomed \ {fd}
    /\ owner' = [owner EXCEPT ![fd] = "dying"]
    /\ SetEvents(fd, {})
    /\ inCallback' = (fd # AcceptFd)
    /\ UNCHANGED <<loopVars, pendingFunctors_, functors, failed, mayStopRead>>

\* Channel::remove with the assert of EventLoop::removeChannel
RemoveChannel(fd) ==
    /\ owner[fd] = "dying" /\ ~inCallback
    /\ Remove(fd)
    /\ owner' = [owner EXCEPT ![fd] = "removed"]
    /\ Fails(phase = "dispatch" => currentActiveChannel_ = fd \/ fd \notin activeChannels_,
             "removeChannel")
    /\ UNCHANGED <<loopVars, pendingFunctors_, functors, doomed, inCallback, mayStopRead>>

\* functors hold a reference to their connection, handleEvent one through tie_
Referenced(fd) ==
    \/ \E f \in pendingFunctors_ \cup functors : f[2] = fd
    \/ currentActiveChannel_ = fd

\* The last reference is dropped, by the library or later by the application: the channel
\* is deleted and the descriptor closed, which a new connection may get.
Destroyed(fd) ==
    /\ owner[fd] = "removed" /\ ~Referenced(fd)
    /\ owner' = [owner EXCEPT ![fd] = "none"]
    /\ IF usePoll THEN pollPoller!NewChannel(fd) /\ UNCHANGED <<usePoll, ePollPollerOnly>>
                  ELSE UNCHANGED vars
    /\ UNCHANGED <<loopVars, pendingFunctors_, functors, doomed, failed, inCallback, mayStopRead>>

Dispatched(fd) ==
    \/ NextChannel(fd) \/ HandleEventReturns(fd)
    \/ CloseCallback(fd) \/ ReadCallback(fd) \/ AcceptCallback(fd) \/ WriteCallback(fd)

Called(conn) == Send(conn) \/ StartRead(conn) \/ StopRead(conn) \/ ForceClose(conn)

FunctorStep(fd) ==
    \/ RunForceClose(fd) \/ RunConnectDestroyed(fd)
    \/ DestroyDoomed(fd) \/ RemoveChannel(fd) \/ Destroyed(fd)

DispatchNext ==
    \/ Listen \/ PollTimeout \/ EventsDone \/ FunctorsDone
    \/ \E reported \in SUBSET Fds : PollReturns(reported)
    \/ \E fd \in Fds : Dispatched(fd) \/ FunctorStep(fd)
    \/ AcceptNothing
    \/ \E conn \in Connections : Called(conn)
    \/ QueueDestroyServer \/ RunDestroyServer \/ CallbackReturns

DispatchSpec == DispatchInit /\ [][DispatchNext]_allVars

-----------------------------------------------------------------------------
\* Types of the variables.
DispatchTypeOK ==
    /\ phase \in {"setup", "poll", "dispatch", "functors"}
    /\ toHandle \subseteq activeChannels_ /\ activeChannels_ \subseteq Fds
    /\ currentActiveChannel_ \in activeChannels_ \cup {None}
    /\ revents_ \in [Fds -> SUBSET Reportable]
    /\ owner \in [Fds -> {"none", "up", "down", "dying", "removed"}]
    /\ pendingFunctors_ \cup functors \subseteq
           {"connectDestroyed", "forceClose", "destroyServer"} \X Fds
    /\ doomed \subseteq Fds

\* A closed connection waits for its one connectDestroyed; none else does.
ClosedIsQueued ==
    \A fd \in Connections :
        owner[fd] = "down" <=> <<"connectDestroyed", fd>> \in pendingFunctors_ \cup functors

\* Whatever the callbacks did, the pointers that the loop has still to follow are those of
\* live channels which the poller knows (EventLoop.cpp:119-123), each object that is not
\* removed has its channel in the poller, no assert of removeChannel or handleClose fails,
\* and a stale revents_ does not reach a closed connection.
ActiveAlive ==
    /\ DispatchTypeOK
    /\ \A fd \in toHandle \cup ({currentActiveChannel_} \ {None}) : owner[fd] \in {"up", "down"}
    /\ phase # "setup" =>
           \A fd \in Fds : owner[fd] \in {"up", "down", "dying"} <=> fd \in channels_
    /\ ClosedIsQueued
    /\ failed = {}

=============================================================================
