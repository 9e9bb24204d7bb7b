------------------------------ MODULE TcpServer ------------------------------
(***************************************************************************)
(* zing::net::TcpServer with its EventLoopThreadPool: connections accepted *)
(* in the base loop, handed round-robin to the io loops, closed there and  *)
(* removed from the map back in the base loop; the destructor, which hands *)
(* every connection to its loop for the last time and then stops the loops.*)
(*                                                                         *)
(* A connection is reduced to the part of TcpConnection that the server    *)
(* drives: its state, its channel, the shared_ptrs to it.  Loop 0 is the   *)
(* base loop; each loop alternates events and batches of functors, and     *)
(* looks at quit_ after each batch, as EventLoop::loop does.               *)
(***************************************************************************)
EXTENDS Integers, Sequences, FiniteSets

CONSTANTS
    Conns,         \* the connections that may arrive
    ThreadNums,    \* the arguments that setThreadNum may be given
    DestroyedWith  \* with which of them the server may be destroyed while it has connections

ASSUME ConnsAssumption == IsFiniteSet(Conns)
ASSUME ThreadAssumption ==
    ThreadNums \subseteq Nat /\ \E n \in ThreadNums : \A k \in ThreadNums : k <= n
ASSUME DestroyedAssumption == DestroyedWith \subseteq ThreadNums

Base == 0
Loops == 0..(CHOOSE n \in ThreadNums : \A k \in ThreadNums : k <= n)

VARIABLES
    numThreads_,   \* of the thread pool, set before start(); loops above it do not exist
    started_,      \* how often start() has been called
    listening_,    \* of the acceptor
    next_,         \* of the thread pool
    nextConnId_,
    connections_,
    loopOf, name,  \* of each connection: its loop and the number in its name
    state_,        \* of each connection; "none" before it is accepted
    addedToLoop_,  \* of each connection's channel
    pending,       \* of each loop: pendingFunctors_, as <<kind, connection>>
    batch,         \* of each loop: what is left of the batch swapped out
    held,          \* of each loop: connections that functors of the batch point to
    quit_, pc,     \* of each loop
    server,        \* "up", "dtor" (the loop over connections_), "pool", "gone"
    asserted       \* the asserts that have failed

conn == <<loopOf, name, state_, addedToLoop_>>
loops == <<pending, batch, held, quit_, pc>>
vars == <<numThreads_, started_, listening_, next_, nextConnId_, connections_, loopOf, name, state_,
          addedToLoop_, pending, batch, held, quit_, pc, server, asserted>>

\* the constructor, and setThreadNum
Init ==
    /\ numThreads_ \in ThreadNums
    /\ started_ = 0 /\ listening_ = FALSE
    /\ next_ = 0
    /\ nextConnId_ = 1
    /\ connections_ = {}
    /\ loopOf = [c \in Conns |-> Base]
    /\ name = [c \in Conns |-> 0]
    /\ state_ = [c \in Conns |-> "none"]
    /\ addedToLoop_ = [c \in Conns |-> FALSE]
    /\ pending = [l \in Loops |-> <<>>]
    /\ batch = [l \in Loops |-> <<>>]
    /\ held = [l \in Loops |-> {}]
    /\ quit_ = [l \in Loops |-> FALSE]
    /\ pc = [l \in Loops |-> "poll"]
    /\ server = "up"
    /\ asserted = {}

-----------------------------------------------------------------------------
Check(condition, label) ==
    asserted' = IF condition THEN asserted ELSE asserted \cup {label}

QueueInLoop(l, f) == pending' = [pending EXCEPT ![l] = Append(@, f)]

\* mutant of GetNextLoop: the index is not advanced
GetNextLoopSame ==
    [loop |-> IF numThreads_ = 0 THEN Base ELSE next_ + 1, next |-> next_]

\* EventLoopThreadPool::getNextLoop: loops_[next_], or the base loop of an empty pool
GetNextLoop ==
    IF numThreads_ = 0 THEN [loop |-> Base, next |-> next_]
    ELSE [loop |-> next_ + 1,
          next |-> IF next_ + 1 >= numThreads_ THEN 0 ELSE next_ + 1]

\* start(): only the first call starts the pool and listens
Start ==
    /\ server = "up" /\ pc[Base] = "poll"
    /\ started_ < 2
    /\ started_' = started_ + 1
    /\ IF started_ = 0
       THEN Check(~listening_, "start") /\ listening_' = TRUE
       ELSE UNCHANGED <<listening_, asserted>>
    /\ UNCHANGED <<numThreads_, next_, nextConnId_, connections_, conn, loops, server>>

\* connectEstablished of TcpConnection, in the loop of c
Establish(c) ==
    /\ Check(state_[c] = "kConnecting", "connectEstablished")
    /\ state_' = [state_ EXCEPT ![c] = "kConnected"]
    /\ addedToLoop_' = [addedToLoop_ EXCEPT ![c] = TRUE]

\* newConnection, called by the acceptor in the base loop.  In a pool without
\* threads runInLoop establishes the connection at once.
NewConnection(c) ==
    /\ server = "up" /\ pc[Base] = "poll"
    /\ listening_
    /\ state_[c] = "none"
    /\ next_' = GetNextLoop.next
    /\ loopOf' = [loopOf EXCEPT ![c] = GetNextLoop.loop]
    /\ name' = [name EXCEPT ![c] = nextConnId_]
    /\ nextConnId_' = nextConnId_ + 1
    /\ connections_' = connections_ \cup {c}
    /\ IF GetNextLoop.loop = Base
       THEN /\ state_' = [state_ EXCEPT ![c] = "kConnected"]
            /\ addedToLoop_' = [addedToLoop_ EXCEPT ![c] = TRUE]
            /\ UNCHANGED pending
       ELSE /\ state_' = [state_ EXCEPT ![c] = "kConnecting"]
            /\ QueueInLoop(GetNextLoop.loop, <<"established", c>>)
            /\ UNCHANGED addedToLoop_
    /\ UNCHANGED <<numThreads_, started_, listening_, batch, held, quit_, pc, server,
                   asserted>>

\* mutant of RemoveConnectionInLoop: the connection is destroyed at once instead of
\* through its own loop
RemoveConnectionInLoopNow(c, queues) ==
    /\ Check(server # "gone" /\ c \in connections_, "removeConnection")
    /\ connections_' = connections_ \ {c}
    /\ pending' = queues

\* mutant of RemoveConnectionInLoop: the map keeps the connection
RemoveConnectionInLoopNot(c, queues) ==
    /\ Check(server # "gone" /\ c \in connections_, "removeConnection")
    /\ pending' = [queues EXCEPT ![loopOf[c]] = Append(@, <<"destroyed", c>>)]
    /\ UNCHANGED connections_

\* removeConnectionInLoop: erase from the map, then connectDestroyed is queued
RemoveConnectionInLoop(c, queues) ==
    /\ Check(server # "gone" /\ c \in connections_, "removeConnection")
    /\ connections_' = connections_ \ {c}
    /\ pending' = [queues EXCEPT ![loopOf[c]] = Append(@, <<"destroyed", c>>)]

\* handleClose of an established connection: an event in its loop.  removeConnection
\* runs removeConnectionInLoop in the base loop, at once if that is this loop.
HandleClose(c) ==
    /\ pc[loopOf[c]] = "poll"
    /\ server = "dtor" => loopOf[c] # Base
    /\ state_[c] = "kConnected"
    /\ state_' = [state_ EXCEPT ![c] = "kDisconnected"]
    /\ IF loopOf[c] = Base
       THEN RemoveConnectionInLoop(c, pending)
       ELSE /\ QueueInLoop(Base, <<"remove", c>>)
            /\ UNCHANGED <<connections_, asserted>>
    /\ UNCHANGED <<numThreads_, started_, listening_, next_, nextConnId_, loopOf, name,
                   addedToLoop_, batch, held, quit_, pc, server>>

-----------------------------------------------------------------------------
(* The loops.                                                              *)

\* the base thread is inside ~TcpServer and not in its loop
Busy(l) == l = Base /\ server \in {"dtor", "pool"}

\* doPendingFunctors swaps the vector
SwapFunctors(l) ==
    /\ ~Busy(l)
    /\ pc[l] = "poll"
    /\ pc' = [pc EXCEPT ![l] = "functors"]
    /\ batch' = [batch EXCEPT ![l] = pending[l]]
    /\ held' = [held EXCEPT ![l] = {pending[l][k][2] : k \in 1..Len(pending[l])}]
    /\ pending' = [pending EXCEPT ![l] = <<>>]
    /\ UNCHANGED <<numThreads_, started_, listening_, next_, nextConnId_, connections_,
                   conn, quit_, server, asserted>>

\* connectDestroyed: kConnected becomes kDisconnected, the channel is removed
DestroyConnection(c) ==
    /\ state_' = [state_ EXCEPT ![c] = "kDisconnected"]
    /\ addedToLoop_' = [addedToLoop_ EXCEPT ![c] = FALSE]

RunFunctor(l) ==
    /\ pc[l] = "functors" /\ batch[l] # <<>>
    /\ batch' = [batch EXCEPT ![l] = Tail(@)]
    /\ LET c == Head(batch[l])[2]
       IN  \/ /\ Head(batch[l])[1] = "established"
              /\ Establish(c)
              /\ UNCHANGED <<connections_, pending>>
           \/ /\ Head(batch[l])[1] = "destroyed"
              /\ DestroyConnection(c)
              /\ UNCHANGED <<connections_, pending, asserted>>
           \/ /\ Head(batch[l])[1] = "remove"
              /\ RemoveConnectionInLoop(c, pending)
              /\ UNCHANGED <<state_, addedToLoop_>>
    /\ UNCHANGED <<numThreads_, started_, listening_, next_, nextConnId_, loopOf, name,
                   held, quit_, pc, server>>

\* the vector of functors is destroyed; while (!quit_), else the loop ends and
\* ~EventLoop destroys the functors that were queued since the swap
FunctorsDone(l) ==
    /\ pc[l] = "functors" /\ batch[l] = <<>>
    /\ held' = [held EXCEPT ![l] = {}]
    /\ pc' = [pc EXCEPT ![l] = IF quit_[l] THEN "exited" ELSE "poll"]
    /\ pending' = IF quit_[l] THEN [pending EXCEPT ![l] = <<>>] ELSE pending
    /\ UNCHANGED <<numThreads_, started_, listening_, next_, nextConnId_, connections_,
                   conn, batch, quit_, server, asserted>>

-----------------------------------------------------------------------------
(* ~TcpServer, in the base thread.                                         *)

InQueue(q, c) == \E k \in 1..Len(q) : q[k][2] = c

\* somebody holds a TcpConnectionPtr to c
Alive(c) ==
    \/ c \in connections_
    \/ \E l \in Loops : InQueue(pending[l], c) \/ c \in held[l]

DestroyServer ==
    /\ numThreads_ \in DestroyedWith \/ \A c \in Conns : ~Alive(c)
    /\ server = "up" /\ pc[Base] = "poll"
    /\ server' = "dtor"
    /\ UNCHANGED <<numThreads_, started_, listening_, next_, nextConnId_, connections_,
                   conn, loops, asserted>>

\* mutant of DestroyNext: connectDestroyed is not called
DestroyNextKeeps(c) ==
    /\ server = "dtor"
    /\ c \in connections_
    /\ connections_' = connections_ \ {c}
    /\ UNCHANGED <<numThreads_, started_, listening_, next_, nextConnId_, conn, loops,
                   server, asserted>>

\* one turn of the loop over connections_
DestroyNext(c) ==
    /\ server = "dtor"
    /\ c \in connections_
    /\ connections_' = connections_ \ {c}
    /\ IF loopOf[c] = Base
       THEN DestroyConnection(c) /\ UNCHANGED pending
       ELSE QueueInLoop(loopOf[c], <<"destroyed", c>>) /\ UNCHANGED <<state_, addedToLoop_>>
    /\ UNCHANGED <<numThreads_, started_, listening_, next_, nextConnId_, loopOf, name,
                   batch, held, quit_, pc, server, asserted>>

\* the members: threadPool_ and with it the EventLoopThreads, one after the other,
\* each by quit() and join(); then the acceptor
DestroyMembers ==
    /\ server = "dtor" /\ connections_ = {}
    /\ server' = "pool"
    /\ UNCHANGED <<numThreads_, started_, listening_, next_, nextConnId_, connections_,
                   conn, loops, asserted>>

StopLoop(l) ==
    /\ server = "pool"
    /\ ~quit_[l]
    /\ \A k \in 1..(l - 1) : pc[k] = "exited"
    /\ quit_' = [quit_ EXCEPT ![l] = TRUE]
    /\ UNCHANGED <<numThreads_, started_, listening_, next_, nextConnId_, connections_,
                   conn, pending, batch, held, pc, server, asserted>>

DestroyDone ==
    /\ server = "pool"
    /\ \A k \in 1..numThreads_ : pc[k] = "exited"
    /\ server' = "gone"
    /\ listening_' = FALSE
    /\ UNCHANGED <<numThreads_, started_, next_, nextConnId_, connections_, conn, loops,
                   asserted>>

-----------------------------------------------------------------------------
LoopStep(l) == SwapFunctors(l) \/ RunFunctor(l) \/ FunctorsDone(l)

DestructorStep ==
    \/ \E c \in Conns : DestroyNext(c)
    \/ \E l \in 1..numThreads_ : StopLoop(l)
    \/ DestroyMembers \/ DestroyDone

Next ==
    \/ Start
    \/ \E c \in Conns : NewConnection(c) \/ HandleClose(c)
    \/ \E l \in 0..numThreads_ : LoopStep(l)
    \/ DestroyServer \/ DestructorStep

Spec == Init /\ [][Next]_vars

\* Every loop goes through its phases, whatever arrives in between, and a thread that
\* is in ~TcpServer goes on.
FairSpec == Spec /\ WF_vars(DestructorStep) /\ \A l \in Loops : WF_vars(l <= numThreads_ /\ LoopStep(l))

-----------------------------------------------------------------------------
\* Types of the variables.
TypeOK ==
    /\ next_ \in Nat /\ (numThreads_ > 0 => next_ < numThreads_)
    /\ nextConnId_ \in Nat
    /\ connections_ \subseteq Conns
    /\ loopOf \in [Conns -> Loops]
    /\ state_ \in [Conns -> {"none", "kConnecting", "kConnected", "kDisconnected"}]
    /\ pc \in [Loops -> {"poll", "functors", "exited"}]

\* The asserts of the server and of connectEstablished hold: a connection is erased
\* from the map exactly once, by a server that still exists (TcpServer.cpp:110-112).
AssertionsHold == asserted = {}

\* The map holds every open connection, and a closed one only as long as its removal
\* is on the way to the base loop (lines 90, 99-112).
MapHoldsOpen ==
    server = "up" =>
        \A c \in Conns :
            /\ state_[c] \in {"kConnecting", "kConnected"} => c \in connections_
            /\ c \in connections_ /\ state_[c] = "kDisconnected" =>
                   \E k \in 1..Len(batch[Base] \o pending[Base]) :
                       (batch[Base] \o pending[Base])[k] = <<"remove", c>>

\* Connections are spread evenly over the io loops, and no two have the same name
\* (lines 73-77, EventLoopThreadPool.cpp:53-70).
Load(l) == Cardinality({c \in Conns : state_[c] # "none" /\ loopOf[c] = l})
SpreadEvenly ==
    /\ \A k, l \in 1..numThreads_ : Load(k) <= Load(l) + 1
    /\ \A c, d \in Conns : name[c] = name[d] /\ name[c] > 0 => c = d

\* The map and the pool agree with the connections there are.
MapInStep == TypeOK /\ MapHoldsOpen /\ SpreadEvenly

\* A connection whose last TcpConnectionPtr is gone is disconnected and its channel
\* is out of its loop: the asserts of ~TcpConnection (TcpConnection.cpp:70) and
\* ~Channel (Channel.cpp:39).
DestroyedClean ==
    \A c \in Conns :
        state_[c] # "none" /\ ~Alive(c) => state_[c] = "kDisconnected" /\ ~addedToLoop_[c]

\* Each connection lives as ConnectionLife says, across the loops and the queues that its
\* functors travel through (lines 70-116).
Life(c) ==
    IF state_[c] = "none" THEN "none"
    ELSE IF ~Alive(c) THEN IF state_[c] = "kDisconnected" /\ ~addedToLoop_[c]
                           THEN "destroyed" ELSE "deleted in use"
    ELSE CASE state_[c] = "kConnecting" -> "connecting"
           [] state_[c] = "kConnected" -> "up"
           [] OTHER -> IF addedToLoop_[c] THEN "closed" ELSE "removed"

Lives == INSTANCE ConnectionLife WITH life <- [c \in Conns |-> Life(c)]

LifeSpec == Lives!Spec

\* A connection that is closed is taken out of the map and destroyed.
ClosedIsDestroyed ==
    \A c \in Conns : state_[c] = "kDisconnected" ~> ~Alive(c)

=============================================================================
