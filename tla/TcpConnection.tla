---------------------------- MODULE TcpConnection ----------------------------
(***************************************************************************)
(* One zing::net::TcpConnection, from connectEstablished to its            *)
(* destructor: its state machine, the channel it registers with the        *)
(* poller, its output buffer, and who calls it: the loop thread (events,   *)
(* functors, user callbacks), a user thread, the server and the peer.      *)
(*                                                                         *)
(* The loop is LoopExecutor's: functors run first in, first out.  The      *)
(* shared_ptrs are modelled by who holds one (Alive).  Several functors    *)
(* are bound to a plain `this` and hold none.  An assert that fails is     *)
(* recorded (the default build is a Debug build, where it would abort).    *)
(***************************************************************************)
EXTENDS Naturals, Sequences

CONSTANTS
    Messages,        \* what is sent; each message is ChunksPerMessage chunks long
    ChunksPerMessage,
    highWaterMark_,  \* in chunks
    MaxIn,           \* bound: messages the peer sends
    Usages           \* what the program around the connection may do: see UsageType

Calls == {"send", "shutdown", "forceClose", "forceCloseWithDelay", "startRead", "stopRead"}
Incidents == {
    "peerCloses",       \* the peer closes or resets the connection of its own accord
    "serverDestroyed",  \* the server is destroyed while it holds the connection
    "userDrops"}        \* the user thread drops its pointer

UsageType ==
    [callback : SUBSET Calls,      \* the calls of the user callbacks, in the loop thread
     user     : SUBSET Calls,      \* the calls of the user thread
     happens  : SUBSET Incidents,
     messages : SUBSET Messages,   \* bound: the messages it sends
     maxCalls : Nat]               \* bound: calls besides send

ASSUME UsageAssumption == Usages \subseteq UsageType
ASSUME SizeAssumption ==
    /\ ChunksPerMessage \in Nat \ {0} /\ highWaterMark_ \in Nat \ {0}
    /\ MaxIn \in Nat

VARIABLES
    state_, reading_,
    events_,         \* channel_->events_: a subset of {"read", "write"}
    added,           \* the poller watches the descriptor (index_ is kAdded)
    addedToLoop_,    \* of channel_
    outputBuffer_,
    queue,           \* the functors of the loop: <<kind, message>>
    batch,           \* how many of them doPendingFunctors has swapped out and not run
    held,            \* its vector still holds the shared_ptr of a functor that has run
    todo,            \* what the loop thread still has to do for the current event or functor
    user,            \* the user thread: <<"idle", "">> or <<call, next step>>
    keeps,           \* does the user thread hold a TcpConnectionPtr: "no", "yes", "dropped"
    timers,          \* pending timers of forceCloseWithDelay
    server,          \* "holds" the connection, is "removing" it, has "removed" it, is "gone"
    in, peer, wrShut,  \* the socket: unread messages, the peer's end, SHUT_WR done
    wire,            \* history: chunks given to the socket
    accepted,        \* history: chunks that sendInLoop took
    lost,            \* history: sendInLoop dropped chunks because of an error
    usage,           \* the member of Usages that this program follows
    sent, calls, received,  \* bounds
    asserted         \* the asserts that have failed

object == <<state_, reading_, events_, added, addedToLoop_, outputBuffer_>>
threads == <<queue, batch, held, todo, user, keeps, timers, server>>
socket == <<in, peer, wrShut>>
data == <<wire, accepted, lost>>
bounds == <<usage, sent, calls, received>>
vars == <<state_, reading_, events_, added, addedToLoop_, outputBuffer_, queue,
          batch, held, todo, user, keeps, timers, server, in, peer, wrShut, wire, accepted, lost,
          usage, sent, calls, received, asserted>>

Chunks(m) == [k \in 1..ChunksPerMessage |-> <<m, k>>]

\* TcpServer::newConnection has created the object and queued connectEstablished.
Init ==
    /\ state_ = "kConnecting" /\ reading_ = TRUE
    /\ events_ = {} /\ added = FALSE /\ addedToLoop_ = FALSE
    /\ outputBuffer_ = <<>>
    /\ queue = << <<"established", "">> >>
    /\ batch = 0 /\ held = FALSE
    /\ todo = <<>>
    /\ user = <<"idle", "">> /\ keeps = "no"
    /\ timers = 0
    /\ server = "holds"
    /\ in = 0 /\ peer = "open" /\ wrShut = FALSE
    /\ wire = <<>> /\ accepted = <<>> /\ lost = FALSE
    /\ usage \in Usages
    /\ sent = {} /\ calls = 0 /\ received = 0
    /\ asserted = {}

-----------------------------------------------------------------------------
(* Pieces of the handlers.                                                 *)

\* functors bound to shared_from_this() or to a TcpConnectionPtr; the others are
\* bound to a plain pointer
SharedFunctors == {"established", "destroyed", "forceClose", "writeComplete", "highWater"}

\* somebody holds a shared_ptr: otherwise ~TcpConnection has run
Alive ==
    \/ server \in {"holds", "removing"}
    \/ \E k \in 1..Len(queue) : queue[k][1] \in SharedFunctors
    \/ held
    \/ keeps = "yes"
    \/ user # <<"idle", "">>
    \/ todo # <<>>

Check(condition, label) ==
    asserted' = IF condition THEN asserted ELSE asserted \cup {label}

\* Channel::update with EPollPoller::updateChannel: ADD a descriptor that is not
\* watched (whatever its events), else DEL it when there is no event left, else MOD
Update(ev) ==
    /\ events_' = ev
    /\ added' = (~added \/ ev # {})
    /\ addedToLoop_' = TRUE

Queue(f) == queue' = Append(queue, f)

\* a write to the socket fails with EPIPE or ECONNRESET; otherwise it takes some
\* of the chunks, or none (EWOULDBLOCK)
Broken == wrShut \/ peer \in {"rst", "reset"}

\* mutant of ShutdownInLoop: SHUT_WR although output is still buffered
ShutdownInLoopNow(ev) == wrShut' = TRUE

\* shutdownInLoop: only when the channel is not writing
ShutdownInLoop(ev) == wrShut' = (wrShut \/ "write" \notin ev)

\* mutant of WritesDirectly: a direct write although older output is buffered
WritesDirectlyAlways == TRUE

\* sendInLoop writes directly only if nothing is waiting
WritesDirectly == "write" \notin events_ /\ outputBuffer_ = <<>>

\* what sendInLoop queues: writeCompleteCallback_, or highWaterMarkCallback_ when
\* the buffer grows past the mark
SendCallbacks(oldLen, left) ==
    IF left = 0 THEN << <<"writeComplete", "">> >>
    ELSE IF oldLen + left >= highWaterMark_ /\ oldLen < highWaterMark_
    THEN << <<"highWater", "">> >>
    ELSE <<>>

\* sendInLoop; q is the queue without the functor that is running
SendInLoop(m, q) ==
    IF state_ = "kDisconnected"
    THEN queue' = q /\ UNCHANGED <<object, data>>
    ELSE IF WritesDirectly /\ Broken
    THEN queue' = q /\ lost' = TRUE /\ UNCHANGED <<object, wire, accepted>>
    ELSE \E nwrote \in (IF WritesDirectly THEN 0..ChunksPerMessage ELSE {0}) :
         LET left == SubSeq(Chunks(m), nwrote + 1, ChunksPerMessage)
         IN  /\ wire' = wire \o SubSeq(Chunks(m), 1, nwrote)
             /\ accepted' = accepted \o Chunks(m)
             /\ outputBuffer_' = outputBuffer_ \o left
             /\ IF left # <<>> /\ "write" \notin events_
                THEN Update(events_ \cup {"write"})
                ELSE UNCHANGED <<events_, added, addedToLoop_>>
             /\ queue' = q \o SendCallbacks(Len(outputBuffer_), Len(left))
             /\ UNCHANGED <<state_, reading_, lost>>

\* handleClose up to connectionCallback_; closeCallback_ follows its return
HandleClose(rest) ==
    /\ Check(state_ \in {"kConnected", "kDisconnecting"}, "handleClose")
    /\ state_' = "kDisconnected"
    /\ Update({})
    /\ todo' = <<"callback", "closeCallback">> \o rest
    /\ UNCHANGED <<reading_, outputBuffer_>>

-----------------------------------------------------------------------------
(* The loop thread: events.                                                *)

Rest == Tail(todo)

\* between doPendingFunctors and the next poll
Idle == todo = <<>> /\ batch = 0 /\ ~held

If(condition, step) == IF condition THEN <<step>> ELSE <<>>

\* poll reports the descriptor; handleEvent (the tie keeps the object alive) will
\* call the close, error, read and write callbacks in this order
Poll(writable) ==
    LET POLLIN == "read" \in events_ /\ (in > 0 \/ peer # "open")
        POLLHUP == peer \in {"rst", "reset"} \/ (peer = "fin" /\ wrShut)
        POLLERR == peer = "rst"
        POLLOUT == "write" \in events_ /\ writable
    IN  /\ Idle
        /\ added /\ Alive
        /\ POLLIN \/ POLLHUP \/ POLLERR \/ POLLOUT
        /\ todo' = If(POLLHUP /\ ~POLLIN, "close") \o If(POLLERR, "error") \o If(POLLIN, "read")
                   \o If(POLLOUT, "write")
        /\ UNCHANGED <<batch, held, object, queue, user, keeps, timers, server, socket, data, bounds,
                       asserted>>

CloseEvent ==
    /\ todo # <<>> /\ Head(todo) = "close"
    /\ HandleClose(Rest)
    /\ UNCHANGED <<batch, held, queue, user, keeps, timers, server, socket, data, bounds>>

\* handleError: getsockopt(SO_ERROR) clears the error
HandleError ==
    /\ todo # <<>> /\ Head(todo) = "error"
    /\ peer' = "reset"
    /\ todo' = Rest
    /\ UNCHANGED <<batch, held, object, queue, user, keeps, timers, server, in, wrShut, data, bounds,
                   asserted>>

\* handleRead: data, end of file, or an error
HandleRead ==
    /\ todo # <<>> /\ Head(todo) = "read"
    /\ \/ /\ in > 0
          /\ in' = 0
          /\ todo' = <<"callback">> \o Rest
          /\ UNCHANGED <<object, peer, asserted>>
       \/ /\ in = 0 /\ peer \in {"fin", "reset"}
          /\ HandleClose(Rest)
          /\ UNCHANGED <<in, peer>>
       \/ /\ in = 0 /\ peer = "rst"   \* ECONNRESET: logged, reported once
          /\ peer' = "reset"
          /\ todo' = Rest
          /\ UNCHANGED <<object, in, asserted>>
    /\ UNCHANGED <<batch, held, queue, user, keeps, timers, server, wrShut, data, bounds>>

\* mutant of Drained: the deferred shutdown is forgotten
DrainedNoShutdown == Update(events_ \ {"write"}) /\ UNCHANGED wrShut

\* the buffer has been written out: disableWriting, and SHUT_WR if it was deferred
Drained ==
    /\ Update(events_ \ {"write"})
    /\ IF state_ = "kDisconnecting" THEN ShutdownInLoop(events_ \ {"write"})
       ELSE UNCHANGED wrShut

HandleWrite ==
    /\ todo # <<>> /\ Head(todo) = "write"
    /\ todo' = Rest
    /\ IF "write" \in events_
       THEN \E n \in (IF Broken THEN {0} ELSE 0..Len(outputBuffer_)) :
                LET left == SubSeq(outputBuffer_, n + 1, Len(outputBuffer_))
                IN  /\ wire' = wire \o SubSeq(outputBuffer_, 1, n)
                    /\ outputBuffer_' = left
                    /\ IF left = <<>> /\ n > 0
                       THEN Drained /\ Queue(<<"writeComplete", "">>)
                       ELSE UNCHANGED <<events_, added, addedToLoop_, wrShut, queue>>
       ELSE UNCHANGED <<wire, outputBuffer_, events_, added, addedToLoop_, wrShut, queue>>
    /\ UNCHANGED <<batch, held, state_, reading_, user, keeps, timers, server, in, peer, accepted,
                   lost, bounds, asserted>>

\* the user callback returns
CallbackReturns ==
    /\ todo # <<>> /\ Head(todo) = "callback"
    /\ todo' = Rest
    /\ UNCHANGED <<batch, held, object, queue, user, keeps, timers, server, socket, data, bounds,
                   asserted>>

\* mutant of CloseCallback: the server is not told
CloseCallbackNot ==
    /\ todo # <<>> /\ Head(todo) = "closeCallback"
    /\ todo' = Rest
    /\ UNCHANGED <<batch, held, object, queue, user, keeps, timers, server, socket, data,
                   bounds, asserted>>

\* closeCallback_: TcpServer::removeConnection, bound to a plain TcpServer*, hands
\* the pointer to the base loop
CloseCallback ==
    /\ todo # <<>> /\ Head(todo) = "closeCallback"
    /\ Check(server # "gone", "closeCallback")
    /\ server' = IF server = "holds" THEN "removing" ELSE server
    /\ todo' = Rest
    /\ UNCHANGED <<batch, held, object, queue, user, keeps, timers, socket, data, bounds>>

\* mutant of RemoveChannel: the channel stays in the loop
RemoveChannelNot ==
    /\ todo # <<>> /\ Head(todo) = "remove"
    /\ todo' = Rest
    /\ UNCHANGED <<batch, held, object, queue, user, keeps, timers, server, socket, data,
                   bounds, asserted>>

\* the end of connectDestroyed: channel_->remove()
RemoveChannel ==
    /\ todo # <<>> /\ Head(todo) = "remove"
    /\ Check(events_ = {}, "Channel::remove")
    /\ added' = FALSE
    /\ addedToLoop_' = FALSE
    /\ todo' = Rest
    /\ UNCHANGED <<batch, held, state_, reading_, events_, outputBuffer_, queue, user, keeps, timers,
                   server, socket, data, bounds>>

-----------------------------------------------------------------------------
(* The loop thread: functors.                                              *)

\* doPendingFunctors swaps the vector ...
SwapFunctors ==
    /\ Idle /\ queue # <<>>
    /\ batch' = Len(queue)
    /\ UNCHANGED <<object, queue, held, todo, user, keeps, timers, server, socket, data,
                   bounds, asserted>>

\* ... and destroys its functors, with their pointers, when all of them have run
FunctorsDone ==
    /\ todo = <<>> /\ batch = 0 /\ held
    /\ held' = FALSE
    /\ UNCHANGED <<object, queue, batch, todo, user, keeps, timers, server, socket, data,
                   bounds, asserted>>

\* the next functor of the batch is of this kind
Run(kind) ==
    /\ todo = <<>> /\ batch > 0
    /\ Head(queue)[1] = kind
    /\ batch' = batch - 1
    /\ held' = (held \/ kind \in SharedFunctors)

ConnectEstablished ==
    /\ Run("established")
    /\ queue' = Tail(queue)
    /\ Check(state_ = "kConnecting", "connectEstablished")
    /\ state_' = "kConnected"
    /\ Update(events_ \cup {"read"})
    /\ todo' = <<"callback">>
    /\ UNCHANGED <<reading_, outputBuffer_, user, keeps, timers, server, socket, data, bounds>>

\* connectDestroyed; its last step is RemoveChannel
ConnectDestroyed ==
    /\ Run("destroyed")
    /\ queue' = Tail(queue)
    /\ IF state_ = "kConnected"
       THEN /\ state_' = "kDisconnected"
            /\ Update({})
            /\ todo' = <<"callback", "remove">>
       ELSE /\ todo' = <<"remove">>
            /\ UNCHANGED <<state_, events_, added, addedToLoop_>>
    /\ UNCHANGED <<reading_, outputBuffer_, user, keeps, timers, server, socket, data,
                   bounds, asserted>>

\* mutant of ForceCloseInLoop: no test of state_
ForceCloseInLoopAlways ==
    /\ Run("forceClose")
    /\ queue' = Tail(queue)
    /\ HandleClose(<<>>)
    /\ UNCHANGED <<user, keeps, timers, server, socket, data, bounds>>

\* forceCloseInLoop
ForceCloseInLoop ==
    /\ Run("forceClose")
    /\ queue' = Tail(queue)
    /\ IF state_ \in {"kConnected", "kDisconnecting"}
       THEN HandleClose(<<>>)
       ELSE UNCHANGED <<object, todo, asserted>>
    /\ UNCHANGED <<user, keeps, timers, server, socket, data, bounds>>

\* writeCompleteCallback_, highWaterMarkCallback_
UserCallback ==
    /\ Run("writeComplete") \/ Run("highWater")
    /\ queue' = Tail(queue)
    /\ todo' = <<"callback">>
    /\ UNCHANGED <<object, user, keeps, timers, server, socket, data, bounds, asserted>>

Reading(ev) == "read" \in ev

StartReadInLoop ==
    IF ~reading_ \/ ~Reading(events_)
    THEN Update(events_ \cup {"read"}) /\ reading_' = TRUE
    ELSE UNCHANGED <<events_, added, addedToLoop_, reading_>>

StopReadInLoop ==
    IF reading_ \/ Reading(events_)
    THEN Update(events_ \ {"read"}) /\ reading_' = FALSE
    ELSE UNCHANGED <<events_, added, addedToLoop_, reading_>>

\* A functor bound to a plain `this`: it must find the object alive.
RawFunctor(kind, m) ==
    /\ Run(kind)
    /\ Head(queue)[2] = m
    /\ Check(Alive, "dangling")
    /\ UNCHANGED <<todo, user, keeps, timers, server, in, peer, bounds>>

RunSend(m) ==
    /\ RawFunctor("send", m)
    /\ SendInLoop(m, Tail(queue))
    /\ UNCHANGED wrShut

RunShutdown ==
    /\ RawFunctor("shutdown", "")
    /\ queue' = Tail(queue)
    /\ ShutdownInLoop(events_)
    /\ UNCHANGED <<object, data>>

RunStartRead ==
    /\ RawFunctor("startRead", "")
    /\ queue' = Tail(queue)
    /\ StartReadInLoop
    /\ UNCHANGED <<state_, outputBuffer_, data, wrShut>>

RunStopRead ==
    /\ RawFunctor("stopRead", "")
    /\ queue' = Tail(queue)
    /\ StopReadInLoop
    /\ UNCHANGED <<state_, outputBuffer_, data, wrShut>>

\* forceCloseWithDelay's timer: a weak callback that calls forceClose()
TimerFires ==
    /\ timers > 0 /\ Idle
    /\ timers' = timers - 1
    /\ IF Alive /\ state_ \in {"kConnected", "kDisconnecting"}
       THEN state_' = "kDisconnecting" /\ Queue(<<"forceClose", "">>)
       ELSE UNCHANGED <<state_, queue>>
    /\ UNCHANGED <<batch, held, reading_, events_, added, addedToLoop_, outputBuffer_, todo, user,
                   keeps, server, socket, data, bounds, asserted>>

-----------------------------------------------------------------------------
(* Calls made by a user callback in the loop thread.                       *)

InCallback == todo # <<>> /\ Head(todo) = "callback"

MayCall(kind, allowed) ==
    /\ kind \in allowed
    /\ calls < usage.maxCalls
    /\ calls' = calls + 1

\* send(): runInLoop calls sendInLoop at once
CallbackSend(m) ==
    /\ InCallback /\ "send" \in usage.callback
    /\ m \notin sent
    /\ sent' = sent \cup {m}
    /\ state_ = "kConnected"
    /\ SendInLoop(m, queue)
    /\ UNCHANGED <<batch, held, todo, user, keeps, timers, server, socket, usage, calls, received, asserted>>

CallbackShutdown ==
    /\ InCallback /\ MayCall("shutdown", usage.callback)
    /\ state_ = "kConnected"
    /\ state_' = "kDisconnecting"
    /\ ShutdownInLoop(events_)
    /\ UNCHANGED <<reading_, events_, added, addedToLoop_, outputBuffer_, threads, in,
                   peer, data, usage, sent, received, asserted>>

CallbackForceClose ==
    /\ InCallback /\ MayCall("forceClose", usage.callback)
    /\ state_ \in {"kConnected", "kDisconnecting"}
    /\ state_' = "kDisconnecting"
    /\ Queue(<<"forceClose", "">>)
    /\ UNCHANGED <<batch, held, reading_, events_, added, addedToLoop_, outputBuffer_, todo, user,
                   keeps, timers, server, socket, data, usage, sent, received, asserted>>

CallbackForceCloseWithDelay ==
    /\ InCallback /\ MayCall("forceCloseWithDelay", usage.callback)
    /\ state_ \in {"kConnected", "kDisconnecting"}
    /\ state_' = "kDisconnecting"
    /\ timers' = timers + 1
    /\ UNCHANGED <<batch, held, reading_, events_, added, addedToLoop_, outputBuffer_, queue, todo,
                   user, keeps, server, socket, data, usage, sent, received, asserted>>

\* startRead and stopRead, by a callback that knows the connection is up
CallbackStartRead ==
    /\ InCallback /\ MayCall("startRead", usage.callback)
    /\ state_ = "kConnected"
    /\ StartReadInLoop
    /\ UNCHANGED <<state_, outputBuffer_, threads, socket, data, usage, sent, received, asserted>>

CallbackStopRead ==
    /\ InCallback /\ MayCall("stopRead", usage.callback)
    /\ state_ = "kConnected"
    /\ StopReadInLoop
    /\ UNCHANGED <<state_, outputBuffer_, threads, socket, data, usage, sent, received, asserted>>

\* the callback stores the TcpConnectionPtr for the user thread
CallbackHandsOver ==
    /\ InCallback
    /\ keeps = "no"
    /\ keeps' = "yes"
    /\ UNCHANGED <<batch, held, object, queue, todo, user, timers, server, socket, data, bounds, asserted>>

-----------------------------------------------------------------------------
(* The user thread: each call tests state_, may set it, then queues.       *)

\* the test of state_ at the head of each call; startRead and stopRead have none
Closing == {"shutdown", "forceClose", "forceCloseWithDelay"}

Tested(kind) ==
    /\ kind = "shutdown" => state_ = "kConnected"
    /\ kind \in Closing => state_ \in {"kConnected", "kDisconnecting"}

UserTests(kind) ==
    /\ user = <<"idle", "">> /\ keeps = "yes"
    /\ MayCall(kind, usage.user)
    /\ Tested(kind)
    /\ user' = <<kind, IF kind \in Closing THEN "set" ELSE "queue">>
    /\ UNCHANGED <<batch, held, object, queue, todo, keeps, timers, server, socket, data, usage, sent,
                   received, asserted>>

\* send() outside the loop thread: state_ is read now, the functor queued later
UserTestsSend(m) ==
    /\ user = <<"idle", "">> /\ keeps = "yes"
    /\ "send" \in usage.user
    /\ m \notin sent
    /\ sent' = sent \cup {m}
    /\ state_ = "kConnected"
    /\ user' = <<m, "send">>
    /\ UNCHANGED <<batch, held, object, queue, todo, keeps, timers, server, socket, data, usage, calls,
                   received, asserted>>

\* setState(kDisconnecting)
UserSets ==
    /\ user[2] = "set"
    /\ state_' = "kDisconnecting"
    /\ user' = <<user[1], "queue">>
    /\ UNCHANGED <<batch, held, reading_, events_, added, addedToLoop_, outputBuffer_, queue, todo,
                   keeps, timers, server, socket, data, bounds, asserted>>

\* runInLoop and queueInLoop queue the functor; runAfter adds the timer
UserQueues ==
    /\ user[2] \in {"queue", "send"}
    /\ \/ user[2] = "send" /\ Queue(<<"send", user[1]>>) /\ UNCHANGED timers
       \/ /\ user[2] = "queue" /\ user[1] = "forceCloseWithDelay"
          /\ timers' = timers + 1
          /\ UNCHANGED queue
       \/ /\ user[2] = "queue" /\ user[1] # "forceCloseWithDelay"
          /\ Queue(<<user[1], "">>)
          /\ UNCHANGED timers
    /\ user' = <<"idle", "">>
    /\ UNCHANGED <<batch, held, object, todo, keeps, server, socket, data, bounds, asserted>>

UserDrops ==
    /\ "userDrops" \in usage.happens
    /\ user = <<"idle", "">> /\ keeps = "yes"
    /\ keeps' = "dropped"
    /\ UNCHANGED <<batch, held, object, queue, todo, user, timers, server, socket, data, bounds, asserted>>

-----------------------------------------------------------------------------
(* The server (in the base loop) and the peer.                             *)

\* removeConnectionInLoop
ServerRemoves ==
    /\ server = "removing"
    /\ server' = "removed"
    /\ Queue(<<"destroyed", "">>)
    /\ UNCHANGED <<batch, held, object, todo, user, keeps, timers, socket, data, bounds, asserted>>

\* ~TcpServer
ServerDestroyed ==
    /\ "serverDestroyed" \in usage.happens
    /\ server = "holds"
    /\ server' = "gone"
    /\ Queue(<<"destroyed", "">>)
    /\ UNCHANGED <<batch, held, object, todo, user, keeps, timers, socket, data, bounds, asserted>>

PeerSends ==
    /\ peer = "open" /\ received < MaxIn
    /\ in' = in + 1
    /\ received' = received + 1
    /\ UNCHANGED <<object, threads, peer, wrShut, data, usage, sent, calls, asserted>>

PeerCloses ==
    /\ peer = "open" /\ "peerCloses" \in usage.happens
    /\ \/ peer' = "fin" /\ UNCHANGED in
       \/ peer' = "rst" /\ in' \in {0, in}   \* unread data may be discarded
    /\ UNCHANGED <<object, threads, wrShut, data, bounds, asserted>>

\* a peer that sees our FIN closes its end in the end
PeerFollows ==
    /\ peer = "open" /\ wrShut
    /\ peer' = "fin"
    /\ UNCHANGED <<object, threads, in, wrShut, data, bounds, asserted>>

-----------------------------------------------------------------------------
Events ==
    \/ \E writable \in BOOLEAN : Poll(writable)
    \/ CloseEvent \/ HandleError \/ HandleRead \/ HandleWrite
    \/ CallbackReturns \/ CloseCallback \/ RemoveChannel

Functors ==
    \/ SwapFunctors \/ FunctorsDone
    \/ ConnectEstablished \/ ConnectDestroyed \/ ForceCloseInLoop \/ UserCallback
    \/ \E m \in Messages : RunSend(m)
    \/ RunShutdown \/ RunStartRead \/ RunStopRead

Application ==
    \/ \E m \in usage.messages : CallbackSend(m) \/ UserTestsSend(m)
    \/ CallbackShutdown \/ CallbackForceClose \/ CallbackForceCloseWithDelay
    \/ CallbackStartRead \/ CallbackStopRead \/ CallbackHandsOver
    \/ \E kind \in usage.user \ {"send"} : UserTests(kind)
    \/ UserDrops

UserStep == UserSets \/ UserQueues

Environment == ServerRemoves \/ ServerDestroyed \/ PeerSends \/ PeerCloses \/ PeerFollows

Next ==
    \/ Events \/ Functors \/ TimerFires \/ Application \/ UserStep \/ Environment

Spec == Init /\ [][Next]_vars

\* The loop thread runs events and functors, the user thread finishes its calls, the
\* base loop runs its functors, the timer expires, and the peer reads what it is sent
\* (the socket becomes writable again) and closes after our FIN.
FairSpec ==
    /\ Spec
    /\ WF_vars(Events)
    /\ SF_vars(HandleWrite /\ wire' # wire)
    /\ WF_vars(Functors)
    /\ WF_vars(TimerFires)
    /\ WF_vars(UserStep)
    /\ WF_vars(ServerRemoves)
    /\ WF_vars(PeerFollows)

-----------------------------------------------------------------------------
\* Types of the variables.
TypeOK ==
    /\ state_ \in {"kConnecting", "kConnected", "kDisconnecting", "kDisconnected"}
    /\ reading_ \in BOOLEAN /\ added \in BOOLEAN /\ addedToLoop_ \in BOOLEAN
    /\ events_ \subseteq {"read", "write"}
    /\ keeps \in {"no", "yes", "dropped"}
    /\ server \in {"holds", "removing", "removed", "gone"}
    /\ peer \in {"open", "fin", "rst", "reset"}
    /\ in \in 0..MaxIn /\ calls \in 0..usage.maxCalls /\ timers \in 0..usage.maxCalls

\* The programs in which the asserts hold.  A functor of another thread that is bound to a
\* plain `this` needs a pointer that is kept; its startRead would read from a closed
\* connection again; handleClose would add a channel that the poller no longer watches,
\* because of a stopRead, again; closeCallback_ needs the server; and only a single other
\* thread that closes, once, sets kDisconnecting in time.
Careful(u) ==
    LET made == u.callback \cup u.user
        remains == made \cap Closing = {} /\ "peerCloses" \notin u.happens
    IN  /\ u.user \cap {"send", "shutdown", "startRead", "stopRead"} # {} => "userDrops" \notin u.happens
        /\ u.user \cap {"startRead", "stopRead"} # {} => remains /\ "serverDestroyed" \notin u.happens
        /\ "stopRead" \in made => made \cap {"forceClose", "forceCloseWithDelay"} = {}
        /\ "serverDestroyed" \in u.happens => remains
        /\ u.user \cap Closing # {} =>
               /\ u.callback \cap Closing = {} /\ u.happens \subseteq {"userDrops"}
               /\ u.maxCalls <= 1 \/ u.user \cap Closing = {"shutdown"}

\* A call in another thread does not overwrite kDisconnected: between its test of state_
\* and setState (lines 192-194) no handleClose runs.
SetInTime == user[2] = "set" => state_ # "kDisconnected"

\* No assert on the life of a connection fails: handleClose runs once (line 378),
\* the channel is removed without events (Channel.cpp:60), connectEstablished comes
\* first (line 296), and no functor bound to a plain `this` finds the object deleted.
AssertionsHold == TypeOK /\ SetInTime /\ asserted = {}

\* The connection lives as ConnectionLife says: closed once, removed from the loop once,
\* and destroyed only then, whoever calls what (lines 65-71, 293-315, 374-387).
Life ==
    IF ~Alive THEN IF state_ = "kDisconnected" /\ ~addedToLoop_ /\ ~added
                   THEN "destroyed" ELSE "deleted in use"
    ELSE CASE state_ = "kConnecting" -> "connecting"
           [] state_ \in {"kConnected", "kDisconnecting"} -> "up"
           [] OTHER -> IF addedToLoop_ THEN "closed" ELSE "removed"

ThisConnection == INSTANCE ConnectionLife WITH
    Conns <- {"this"},
    life <- [c \in {"this"} |-> Life]

LifeSpec == ThisConnection!Spec

\* Chunks reach the socket in the order of the sends, none twice and none skipped:
\* what was written followed by what is buffered is what sendInLoop took.
WireInOrder == wire \o outputBuffer_ = accepted

\* The channel asks for write events exactly while output is buffered: neither a
\* buffer nobody drains nor a busy loop (lines 172-186, 346-360).
WritingIffBuffered ==
    state_ # "kDisconnected" => ("write" \in events_ <=> outputBuffer_ # <<>>)

\* SHUT_WR never cuts off buffered output (lines 200-208, 356-359), which the write
\* event alone tells shutdownInLoop about.
ShutdownAfterOutput ==
    /\ WritingIffBuffered
    /\ wrShut => outputBuffer_ = <<>> \/ state_ = "kDisconnected"

\* shutdown(), forceClose() and forceCloseWithDelay() lead to a closed connection,
\* unless reading is paused, when the end of the peer is not noticed.
ClosingCloses == state_ = "kDisconnecting" ~> (state_ = "kDisconnected" \/ ~reading_)

\* The object of a closed connection is destroyed once the application lets go of it
\* (lines 383-386, TcpServer.cpp:99-116).
ClosedIsDestroyed == state_ = "kDisconnected" ~> (~Alive \/ keeps = "yes")

=============================================================================
