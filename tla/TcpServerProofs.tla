---------------------------- MODULE TcpServerProofs ----------------------------
(***************************************************************************)
(* Proofs about TcpServer, for any finite set of connections and any       *)
(* numbers of threads: the map holds what is open, connections are spread  *)
(* evenly, no assert fails on the way of a connection through the queues   *)
(* of the loops, and its life is the one that ConnectionLife describes.    *)
(***************************************************************************)
EXTENDS TcpServer, FiniteSetTheorems, SequenceTheorems, TLAPS

-----------------------------------------------------------------------------
(***************************************************************************)
(* Functors in a queue.                                                    *)
(***************************************************************************)

In(s, f) == \E i \in 1..Len(s) : s[i] = f
Once(s, f) == \A i, j \in 1..Len(s) : s[i] = f /\ s[j] = f => i = j

\* What is in a queue after an Append.
LEMMA InAppend ==
    ASSUME NEW S, NEW s \in Seq(S), NEW e \in S, NEW f
    PROVE  /\ In(Append(s, e), f) <=> In(s, f) \/ f = e
           /\ Once(s, f) /\ (f = e => ~In(s, f)) => Once(Append(s, e), f)
<1>1. /\ Append(s, e) \in Seq(S)
      /\ Len(Append(s, e)) = Len(s) + 1 /\ Len(s) \in Nat
      /\ \A i \in 1..Len(s) : Append(s, e)[i] = s[i]
      /\ Append(s, e)[Len(s) + 1] = e
  BY AppendProperties
<1>2. \A i \in 1..(Len(s) + 1) : i \in 1..Len(s) \/ i = Len(s) + 1
  BY <1>1
<1>3. Len(s) + 1 \in 1..(Len(s) + 1) /\ \A i \in 1..Len(s) : i \in 1..(Len(s) + 1)
  BY <1>1
<1> QED BY <1>1, <1>2, <1>3, Zenon DEF In, Once

\* What is in a queue after its first functor was taken.
LEMMA InTail ==
    ASSUME NEW S, NEW s \in Seq(S), s # <<>>, NEW f
    PROVE  /\ In(s, f) <=> In(Tail(s), f) \/ f = Head(s)
           /\ Once(s, f) => Once(Tail(s), f) /\ (f = Head(s) => ~In(Tail(s), f))
<1>1. /\ Tail(s) \in Seq(S)
      /\ Len(Tail(s)) = Len(s) - 1 /\ Len(s) \in Nat \ {0}
      /\ \A i \in 1..Len(Tail(s)) : Tail(s)[i] = s[i + 1]
      /\ Head(s) = s[1]
  BY HeadTailProperties, EmptySeq
<1>2. \A i \in 1..Len(s) : i = 1 \/ (i - 1 \in 1..Len(Tail(s)) /\ Tail(s)[i - 1] = s[i])
  BY <1>1
<1>3. 1 \in 1..Len(s) /\ \A i \in 1..Len(Tail(s)) : i + 1 \in 1..Len(s) /\ i + 1 # 1
  BY <1>1
<1>4. In(s, f) <=> In(Tail(s), f) \/ f = Head(s)
  BY <1>1, <1>2, <1>3 DEF In
<1>5. \A i, j \in 1..Len(Tail(s)) : i + 1 = j + 1 => i = j
  BY <1>1
<1>6. Once(s, f) => Once(Tail(s), f) /\ (f = Head(s) => ~In(Tail(s), f))
  BY <1>1, <1>3, <1>5 DEF Once, In
<1> QED BY <1>4, <1>6

\* A batch followed by what was queued since.
LEMMA Queues ==
    ASSUME NEW S, NEW b \in Seq(S), NEW p \in Seq(S)
    PROVE  /\ b \o p \in Seq(S)
           /\ \A e \in S : b \o Append(p, e) = Append(b \o p, e)
           /\ b # <<>> => /\ b \o p # <<>>
                          /\ Head(b \o p) = Head(b)
                          /\ Tail(b) \o p = Tail(b \o p)
           /\ b = <<>> => b \o p = p
           /\ b \o p = <<>> <=> b = <<>> /\ p = <<>>
<1>1. \A e \in S : b \o Append(p, e) = Append(b \o p, e)
  OBVIOUS
<1>2. b # <<>> => /\ b \o p # <<>>
                  /\ Head(b \o p) = Head(b)
                  /\ Tail(b) \o p = Tail(b \o p)
  OBVIOUS
<1>3. b = <<>> => b \o p = p
  BY ConcatEmptySeq
<1> QED BY <1>1, <1>2, <1>3, ConcatProperties, ConcatEqualIffEmpty

-----------------------------------------------------------------------------
(***************************************************************************)
(* Types.                                                                  *)
(***************************************************************************)

Functor == {"established", "destroyed", "remove"} \X Conns

TypeInv ==
    /\ numThreads_ \in ThreadNums
    /\ started_ \in Nat /\ listening_ \in BOOLEAN
    /\ next_ \in Nat /\ (numThreads_ > 0 => next_ < numThreads_)
    /\ nextConnId_ \in Nat \ {0}
    /\ connections_ \subseteq Conns
    /\ loopOf \in [Conns -> Loops]
    /\ name \in [Conns -> Nat]
    /\ state_ \in [Conns -> {"none", "kConnecting", "kConnected", "kDisconnected"}]
    /\ addedToLoop_ \in [Conns -> BOOLEAN]
    /\ pending \in [Loops -> Seq(Functor)]
    /\ batch \in [Loops -> Seq(Functor)]
    /\ held \in [Loops -> SUBSET Conns]
    /\ quit_ \in [Loops -> BOOLEAN]
    /\ pc \in [Loops -> {"poll", "functors", "exited"}]
    /\ server \in {"up", "dtor", "pool", "gone"}

\* The loops that a pool uses are among the loops there may be.
LEMMA LoopsExist ==
    ASSUME NEW n \in ThreadNums
    PROVE  n \in Nat /\ Base \in Loops /\ 0..n \subseteq Loops
<1> DEFINE M == CHOOSE k \in ThreadNums : \A j \in ThreadNums : j <= k
<1>1. M \in ThreadNums /\ \A j \in ThreadNums : j <= M
  BY ThreadAssumption
<1>2. M \in Nat /\ n \in Nat /\ n <= M
  BY <1>1, ThreadAssumption
<1>3. Loops = 0..M
  BY DEF Loops
<1> HIDE DEF M
<1> QED BY <1>2, <1>3 DEF Base

\* The loop that getNextLoop returns is one of the pool, or the base loop of an empty pool.
LEMMA NextLoop ==
    ASSUME TypeInv
    PROVE  /\ GetNextLoop.loop \in Loops
           /\ GetNextLoop.next \in Nat
           /\ numThreads_ > 0 => /\ GetNextLoop.loop = next_ + 1
                                 /\ GetNextLoop.loop \in 1..numThreads_
                                 /\ GetNextLoop.next < numThreads_
                                 /\ GetNextLoop.next = IF next_ + 1 = numThreads_ THEN 0 ELSE next_ + 1
           /\ numThreads_ = 0 => GetNextLoop.loop = Base /\ GetNextLoop.next = next_
<1>1. numThreads_ \in Nat /\ Base \in Loops /\ 0..numThreads_ \subseteq Loops
  BY LoopsExist DEF TypeInv
<1>2. CASE numThreads_ = 0
  BY <1>1, <1>2 DEF GetNextLoop, TypeInv
<1>3. CASE numThreads_ > 0
  <2>1. next_ \in Nat /\ next_ < numThreads_
    BY <1>3 DEF TypeInv
  <2>2. GetNextLoop.loop = next_ + 1 /\ GetNextLoop.next = IF next_ + 1 >= numThreads_ THEN 0 ELSE next_ + 1
    BY <1>1, <1>3 DEF GetNextLoop
  <2> QED BY <1>1, <1>3, <2>1, <2>2
<1> QED BY <1>1, <1>2, <1>3

\* A functor is added to a queue.
LEMMA PendingType ==
    ASSUME NEW p \in [Loops -> Seq(Functor)], NEW l \in Loops, NEW f \in Functor
    PROVE  [p EXCEPT ![l] = Append(@, f)] \in [Loops -> Seq(Functor)]
<1>1. p[l] \in Seq(Functor)
  OBVIOUS
<1>2. Append(p[l], f) \in Seq(Functor)
  BY <1>1, AppendProperties
<1> QED BY <1>2

\* Every step keeps the types.
LEMMA TypeNext == TypeInv /\ [Next]_vars => TypeInv'
<1> SUFFICES ASSUME TypeInv, [Next]_vars PROVE TypeInv'
  OBVIOUS
<1>0. Base \in Loops /\ numThreads_ \in Nat /\ 0..numThreads_ \subseteq Loops
  BY LoopsExist DEF TypeInv
<1>1. CASE Start
  <2>1. listening_ \in BOOLEAN /\ listening_' \in {listening_, TRUE}
    BY <1>1 DEF Start, TypeInv
  <2>4. started_ \in Nat /\ started_' = started_ + 1
    BY <1>1 DEF Start, TypeInv
  <2>5. started_' \in Nat
    BY <2>4
  <2>2. started_' \in Nat /\ listening_' \in BOOLEAN
    BY <2>1, <2>5, Zenon
  <2>3. UNCHANGED <<numThreads_, next_, nextConnId_, connections_, conn, loops, server>>
    BY <1>1 DEF Start
  <2> QED BY <2>2, <2>3 DEF TypeInv, conn, loops
<1>2. ASSUME NEW c \in Conns, NewConnection(c) PROVE TypeInv'
  <2>1. <<"established", c>> \in Functor
    BY DEF Functor
  <2> DEFINE l == GetNextLoop.loop
  <2>5. l \in Loops /\ pending \in [Loops -> Seq(Functor)]
    BY NextLoop DEF TypeInv
  <2>6. pending' \in {pending, [pending EXCEPT ![l] = Append(@, <<"established", c>>)]}
    BY <1>2 DEF NewConnection, QueueInLoop
  <2>7. [pending EXCEPT ![l] = Append(@, <<"established", c>>)] \in [Loops -> Seq(Functor)]
    BY <2>1, <2>5, PendingType
  <2>2. pending' \in [Loops -> Seq(Functor)]
    BY <2>5, <2>6, <2>7
  <2>3. next_' \in Nat /\ (numThreads_ > 0 => next_' < numThreads_) /\ loopOf' \in [Conns -> Loops]
    BY <1>2, NextLoop DEF NewConnection, TypeInv
  <2>4. /\ state_' \in [Conns -> {"none", "kConnecting", "kConnected", "kDisconnected"}]
        /\ addedToLoop_' \in [Conns -> BOOLEAN]
    <3>1. /\ state_' \in {[state_ EXCEPT ![c] = "kConnected"], [state_ EXCEPT ![c] = "kConnecting"]}
          /\ addedToLoop_' \in {addedToLoop_, [addedToLoop_ EXCEPT ![c] = TRUE]}
      BY <1>2 DEF NewConnection
    <3>2. /\ addedToLoop_ \in [Conns -> BOOLEAN]
          /\ [addedToLoop_ EXCEPT ![c] = TRUE] \in [Conns -> BOOLEAN]
      BY DEF TypeInv
    <3>3. /\ [state_ EXCEPT ![c] = "kConnected"] \in [Conns -> {"none", "kConnecting", "kConnected", "kDisconnected"}]
          /\ [state_ EXCEPT ![c] = "kConnecting"] \in [Conns -> {"none", "kConnecting", "kConnected", "kDisconnected"}]
      BY DEF TypeInv
    <3> QED BY <3>1, <3>2, <3>3, Zenon
  <2>8. name' \in [Conns -> Nat] /\ nextConnId_' \in Nat \ {0} /\ connections_' \subseteq Conns
    BY <1>2 DEF NewConnection, TypeInv
  <2>9. UNCHANGED <<numThreads_, started_, listening_, batch, held, quit_, pc, server>>
    BY <1>2 DEF NewConnection
  <2>10. /\ numThreads_' \in ThreadNums /\ (numThreads_' > 0 => next_' < numThreads_')
         /\ started_' \in Nat /\ listening_' \in BOOLEAN
    BY <2>3, <2>9 DEF TypeInv
  <2>11. /\ batch' \in [Loops -> Seq(Functor)] /\ held' \in [Loops -> SUBSET Conns]
         /\ quit_' \in [Loops -> BOOLEAN] /\ pc' \in [Loops -> {"poll", "functors", "exited"}]
         /\ server' \in {"up", "dtor", "pool", "gone"}
    BY <2>9 DEF TypeInv
  <2> QED BY <2>2, <2>3, <2>4, <2>8, <2>10, <2>11, Zenon DEF TypeInv
<1>3. ASSUME NEW c \in Conns, RemoveConnectionInLoop(c, pending)
      PROVE  connections_' \subseteq Conns /\ pending' \in [Loops -> Seq(Functor)]
  <2>1. <<"destroyed", c>> \in Functor /\ loopOf[c] \in Loops
    BY DEF Functor, TypeInv
  <2>2. [pending EXCEPT ![loopOf[c]] = Append(@, <<"destroyed", c>>)] \in [Loops -> Seq(Functor)]
    BY <2>1, PendingType DEF TypeInv
  <2> QED BY <1>3, <2>2 DEF RemoveConnectionInLoop, TypeInv
<1>4. ASSUME NEW c \in Conns, HandleClose(c) PROVE TypeInv'
  <2>1. <<"remove", c>> \in Functor
    BY DEF Functor
  <2>2. connections_' \subseteq Conns /\ pending' \in [Loops -> Seq(Functor)]
    <3>1. [pending EXCEPT ![Base] = Append(@, <<"remove", c>>)] \in [Loops -> Seq(Functor)]
      BY <1>0, <2>1, PendingType DEF TypeInv
    <3>2. \/ RemoveConnectionInLoop(c, pending)
          \/ pending' = [pending EXCEPT ![Base] = Append(@, <<"remove", c>>)] /\ UNCHANGED connections_
      BY <1>4 DEF HandleClose, QueueInLoop
    <3> QED BY <1>3, <3>1, <3>2 DEF TypeInv
  <2>3. state_' \in [Conns -> {"none", "kConnecting", "kConnected", "kDisconnected"}]
    BY <1>4 DEF HandleClose, TypeInv
  <2> QED BY <1>4, <2>2, <2>3 DEF HandleClose, TypeInv
<1>5. ASSUME NEW l \in Loops, SwapFunctors(l) PROVE TypeInv'
  <2>1. \A k \in 1..Len(pending[l]) : pending[l][k][2] \in Conns
    BY DEF TypeInv, Functor
  <2>2. held' \in [Loops -> SUBSET Conns]
    BY <1>5, <2>1 DEF SwapFunctors, TypeInv
  <2>3. pending' \in [Loops -> Seq(Functor)] /\ batch' \in [Loops -> Seq(Functor)]
    BY <1>5, EmptySeq DEF SwapFunctors, TypeInv
  <2> QED BY <1>5, <2>2, <2>3 DEF SwapFunctors, TypeInv, conn
<1>6. ASSUME NEW l \in Loops, RunFunctor(l) PROVE TypeInv'
  <2>1. /\ batch[l] \in Seq(Functor) /\ batch[l] # <<>>
        /\ Head(batch[l]) \in Functor /\ Tail(batch[l]) \in Seq(Functor)
        /\ batch' = [batch EXCEPT ![l] = Tail(@)]
    BY <1>6, HeadTailProperties DEF RunFunctor, TypeInv
  <2> DEFINE c == Head(batch[l])[2]
  <2>2. c \in Conns
    BY <2>1 DEF Functor
  <2>3. batch' \in [Loops -> Seq(Functor)]
    BY <2>1 DEF TypeInv
  <2>4. /\ connections_' \subseteq Conns /\ pending' \in [Loops -> Seq(Functor)]
        /\ state_' \in [Conns -> {"none", "kConnecting", "kConnected", "kDisconnected"}]
        /\ addedToLoop_' \in [Conns -> BOOLEAN]
    <3>1. CASE Establish(c) /\ UNCHANGED <<connections_, pending>>
      BY <2>2, <3>1 DEF Establish, Check, TypeInv
    <3>2. CASE DestroyConnection(c) /\ UNCHANGED <<connections_, pending>>
      BY <2>2, <3>2 DEF DestroyConnection, TypeInv
    <3>3. CASE RemoveConnectionInLoop(c, pending) /\ UNCHANGED <<state_, addedToLoop_>>
      BY <1>3, <2>2, <3>3 DEF TypeInv
    <3> QED BY <1>6, <3>1, <3>2, <3>3 DEF RunFunctor
  <2> QED BY <1>6, <2>3, <2>4 DEF RunFunctor, TypeInv
<1>7. ASSUME NEW l \in Loops, FunctorsDone(l) PROVE TypeInv'
  <2>1. pending' \in [Loops -> Seq(Functor)]
    BY <1>7, EmptySeq DEF FunctorsDone, TypeInv
  <2> QED BY <1>7, <2>1 DEF FunctorsDone, TypeInv, conn
<1>8. CASE DestroyServer
  BY <1>8 DEF DestroyServer, TypeInv, conn, loops
<1>9. ASSUME NEW c \in Conns, DestroyNext(c) PROVE TypeInv'
  <2>1. <<"destroyed", c>> \in Functor /\ loopOf[c] \in Loops
    BY DEF Functor, TypeInv
  <2>2. pending' \in [Loops -> Seq(Functor)]
    <3>1. [pending EXCEPT ![loopOf[c]] = Append(@, <<"destroyed", c>>)] \in [Loops -> Seq(Functor)]
      BY <2>1, PendingType DEF TypeInv
    <3>2. pending' \in {pending, [pending EXCEPT ![loopOf[c]] = Append(@, <<"destroyed", c>>)]}
      BY <1>9 DEF DestroyNext, QueueInLoop
    <3> QED BY <3>1, <3>2 DEF TypeInv
  <2>3. /\ state_' \in [Conns -> {"none", "kConnecting", "kConnected", "kDisconnected"}]
        /\ addedToLoop_' \in [Conns -> BOOLEAN] /\ connections_' \subseteq Conns
    BY <1>9 DEF DestroyNext, DestroyConnection, TypeInv
  <2> QED BY <1>9, <2>2, <2>3 DEF DestroyNext, TypeInv
<1>10. ASSUME NEW l \in Loops, StopLoop(l) PROVE TypeInv'
  BY <1>10 DEF StopLoop, TypeInv, conn
<1>11. CASE DestroyMembers \/ DestroyDone
  BY <1>11 DEF DestroyMembers, DestroyDone, TypeInv, conn, loops
<1>12. CASE UNCHANGED vars
  BY <1>12 DEF vars, TypeInv
<1>13. 1..numThreads_ \subseteq Loops
  BY <1>0
<1> QED
  BY <1>0, <1>1, <1>2, <1>4, <1>5, <1>6, <1>7, <1>8, <1>9, <1>10, <1>11, <1>12, <1>13
  DEF Next, LoopStep, DestructorStep

\* The types hold in every reachable state.
LEMMA TypeInvariant == Spec => []TypeInv
<1>1. Init => TypeInv
  <2> SUFFICES ASSUME Init PROVE TypeInv
    OBVIOUS
  <2>1. Base \in Loops /\ numThreads_ \in Nat
    BY LoopsExist DEF Init
  <2>2. <<>> \in Seq(Functor)
    BY EmptySeq
  <2>3. /\ pending \in [Loops -> Seq(Functor)] /\ batch \in [Loops -> Seq(Functor)]
        /\ held \in [Loops -> SUBSET Conns]
    BY <2>2 DEF Init
  <2>4. /\ quit_ \in [Loops -> BOOLEAN] /\ pc \in [Loops -> {"poll", "functors", "exited"}]
        /\ addedToLoop_ \in [Conns -> BOOLEAN] /\ listening_ \in BOOLEAN
    BY DEF Init
  <2>5. /\ loopOf \in [Conns -> Loops] /\ name \in [Conns -> Nat]
        /\ state_ \in [Conns -> {"none", "kConnecting", "kConnected", "kDisconnected"}]
    BY <2>1 DEF Init
  <2>6. /\ numThreads_ \in ThreadNums /\ started_ \in Nat /\ next_ \in Nat
        /\ (numThreads_ > 0 => next_ < numThreads_) /\ nextConnId_ \in Nat \ {0}
        /\ connections_ \subseteq Conns /\ server \in {"up", "dtor", "pool", "gone"}
    BY <2>1 DEF Init
  <2> QED BY <2>3, <2>4, <2>5, <2>6 DEF TypeInv
<1> QED BY <1>1, TypeNext, PTL DEF Spec

-----------------------------------------------------------------------------
(***************************************************************************)
(* The way of a connection through the queues.                             *)
(***************************************************************************)

Kinds == {"established", "destroyed", "remove"}
Of(kind, c) == <<kind, c>>

\* A functor is its kind and its connection.
LEMMA Functors ==
    /\ \A kind \in Kinds, c \in Conns : Of(kind, c) \in Functor
    /\ \A f \in Functor : f[1] \in Kinds /\ f[2] \in Conns /\ f = Of(f[1], f[2])
    /\ \A j, kind \in Kinds, c, d \in Conns : Of(j, c) = Of(kind, d) <=> j = kind /\ c = d
BY DEF Of, Kinds, Functor

\* What a loop has still to run, in the order in which it will.
Joined(b, p) == [l \in Loops |-> b[l] \o p[l]]
Queue == Joined(batch, pending)

\* A batch is there only while it runs, and its functors hold their connections.
BatchInv ==
    \A l \in Loops :
        /\ pc[l] # "functors" => batch[l] = <<>>
        /\ \A k \in 1..Len(batch[l]) : batch[l][k][2] \in held[l]

\* Without io threads every connection lives in the base loop.  When the destructor comes
\* to its members the map is empty, and only then are loops stopped.
PlacesInv ==
    /\ numThreads_ = 0 => \A c \in Conns : loopOf[c] = Base
    /\ server \in {"pool", "gone"} => connections_ = {}
    /\ \A l \in Loops : quit_[l] => server \in {"pool", "gone"}
    /\ started_ = 0 => ~listening_

\* What each kind of functor in a queue says of its connection.
EstablishWay(c) ==
    \A l \in Loops : In(Queue[l], Of("established", c)) =>
        /\ l = loopOf[c] /\ l # Base
        /\ state_[c] = "kConnecting"
        /\ Once(Queue[l], Of("established", c))

DestroyWay(c) ==
    \A l \in Loops : In(Queue[l], Of("destroyed", c)) => state_[c] = "kDisconnected"

RemoveWay(c) ==
    \A l \in Loops : In(Queue[l], Of("remove", c)) =>
        /\ l = Base /\ loopOf[c] # Base
        /\ state_[c] = "kDisconnected"
        /\ c \in connections_
        /\ Once(Queue[l], Of("remove", c))

\* The map holds what is open, and what is closed only while its removal is on its way.
MapWay(c) ==
    /\ state_[c] \in {"kConnecting", "kConnected"} => c \in connections_
    /\ c \in connections_ /\ state_[c] = "kDisconnected" => In(Queue[Base], Of("remove", c))

Way(c) == EstablishWay(c) /\ DestroyWay(c) /\ RemoveWay(c) /\ MapWay(c)

\* A server with io threads is destroyed when nothing is left to do.
Calm ==
    server # "up" /\ numThreads_ > 0 => connections_ = {} /\ \A l \in Loops : Queue[l] = <<>>

Flow == (\A c \in Conns : Way(c)) /\ Calm /\ asserted = {}

\* Nothing of this is said of a server that is destroyed with io threads at work.
Orderly == server = "up" \/ DestroyedWith \subseteq {0}

FlowInv == BatchInv /\ PlacesInv /\ (Orderly => Flow)

-----------------------------------------------------------------------------
(***************************************************************************)
(* What the steps do to the queues.                                        *)
(***************************************************************************)

Queued == [Loops -> Seq(Functor)]

\* Two families of queues, put together, are one.
LEMMA JoinedType ==
    ASSUME NEW b \in Queued, NEW p \in Queued
    PROVE  /\ Joined(b, p) \in Queued
           /\ \A l \in Loops : /\ b[l] \in Seq(Functor) /\ p[l] \in Seq(Functor)
                               /\ Joined(b, p)[l] = b[l] \o p[l]
<1>1. \A l \in Loops : b[l] \in Seq(Functor) /\ p[l] \in Seq(Functor)
  BY DEF Queued
<1>2. \A l \in Loops : b[l] \o p[l] \in Seq(Functor)
  BY <1>1, ConcatProperties
<1> QED BY <1>1, <1>2 DEF Joined, Queued

\* The functors of a loop, those of the running batch before those that are pending, are a
\* queue.
LEMMA QueueType ==
    ASSUME TypeInv
    PROVE  batch \in Queued /\ pending \in Queued /\ Queue \in Queued
<1>1. batch \in Queued /\ pending \in Queued
  BY DEF TypeInv, Queued
<1> QED BY <1>1, JoinedType DEF Queue

\* q1 is q with a functor more, or with one less.
Pushed(q, q1, l, kind, c) ==
    \A k \in Loops, j \in Kinds, d \in Conns :
        /\ In(q1[k], Of(j, d)) <=> In(q[k], Of(j, d)) \/ (k = l /\ j = kind /\ d = c)
        /\ Once(q[k], Of(j, d)) /\ (k = l /\ j = kind /\ d = c => ~In(q[k], Of(j, d)))
               => Once(q1[k], Of(j, d))

Popped(q, q1, l, kind, c) ==
    \A k \in Loops, j \in Kinds, d \in Conns :
        /\ In(q[k], Of(j, d)) <=> In(q1[k], Of(j, d)) \/ (k = l /\ j = kind /\ d = c)
        /\ Once(q[k], Of(j, d)) => /\ Once(q1[k], Of(j, d))
                                   /\ k = l /\ j = kind /\ d = c => ~In(q1[k], Of(j, d))

\* queueInLoop puts one functor more into the queue of one loop.
LEMMA PushedBy ==
    ASSUME NEW q \in Queued, NEW l \in Loops, NEW kind \in Kinds, NEW c \in Conns
    PROVE  Pushed(q, [q EXCEPT ![l] = Append(@, Of(kind, c))], l, kind, c)
<1> DEFINE q1 == [q EXCEPT ![l] = Append(@, Of(kind, c))]
<1>1. q[l] \in Seq(Functor) /\ Of(kind, c) \in Functor
  BY Functors DEF Queued
<1>2. \A f : /\ In(Append(q[l], Of(kind, c)), f) <=> In(q[l], f) \/ f = Of(kind, c)
             /\ Once(q[l], f) /\ (f = Of(kind, c) => ~In(q[l], f))
                    => Once(Append(q[l], Of(kind, c)), f)
  BY <1>1, InAppend
<1>3. q1[l] = Append(q[l], Of(kind, c)) /\ \A k \in Loops : k # l => q1[k] = q[k]
  BY DEF Queued
<1>4. \A j \in Kinds, d \in Conns : Of(j, d) = Of(kind, c) <=> j = kind /\ d = c
  BY Functors
<1> HIDE DEF q1
<1> SUFFICES Pushed(q, q1, l, kind, c)
  BY DEF q1
<1>5. ASSUME NEW k \in Loops, NEW j \in Kinds, NEW d \in Conns
      PROVE  /\ In(q1[k], Of(j, d)) <=> In(q[k], Of(j, d)) \/ (k = l /\ j = kind /\ d = c)
             /\ Once(q[k], Of(j, d)) /\ (k = l /\ j = kind /\ d = c => ~In(q[k], Of(j, d)))
                    => Once(q1[k], Of(j, d))
  <2>1. CASE k = l
    BY <2>1, <1>2, <1>3, <1>4
  <2>2. CASE k # l
    BY <2>2, <1>3
  <2> QED BY <2>1, <2>2
<1> QED BY <1>5 DEF Pushed

\* Running the first functor takes it out of the queue of one loop.
LEMMA PoppedBy ==
    ASSUME NEW q \in Queued, NEW l \in Loops, NEW kind \in Kinds, NEW c \in Conns,
           q[l] # <<>>, Head(q[l]) = Of(kind, c)
    PROVE  Popped(q, [q EXCEPT ![l] = Tail(@)], l, kind, c)
<1> DEFINE q1 == [q EXCEPT ![l] = Tail(@)]
<1>1. q[l] \in Seq(Functor)
  BY DEF Queued
<1>2. \A f : /\ In(q[l], f) <=> In(Tail(q[l]), f) \/ f = Of(kind, c)
             /\ Once(q[l], f) => Once(Tail(q[l]), f) /\ (f = Of(kind, c) => ~In(Tail(q[l]), f))
  BY <1>1, InTail
<1>3. q1[l] = Tail(q[l]) /\ \A k \in Loops : k # l => q1[k] = q[k]
  BY DEF Queued
<1>4. \A j \in Kinds, d \in Conns : Of(j, d) = Of(kind, c) <=> j = kind /\ d = c
  BY Functors
<1> HIDE DEF q1
<1> SUFFICES Popped(q, q1, l, kind, c)
  BY DEF q1
<1>5. ASSUME NEW k \in Loops, NEW j \in Kinds, NEW d \in Conns
      PROVE  /\ In(q[k], Of(j, d)) <=> In(q1[k], Of(j, d)) \/ (k = l /\ j = kind /\ d = c)
             /\ Once(q[k], Of(j, d)) => /\ Once(q1[k], Of(j, d))
                                        /\ k = l /\ j = kind /\ d = c => ~In(q1[k], Of(j, d))
  <2>1. CASE k = l
    BY <2>1, <1>2, <1>3, <1>4
  <2>2. CASE k # l
    BY <2>2, <1>3
  <2> QED BY <2>1, <2>2
<1> QED BY <1>5 DEF Popped

\* What is pushed on the pending functors is pushed behind the batch.
LEMMA PushedOn ==
    ASSUME NEW b \in Queued, NEW p \in Queued, NEW p1,
           NEW l \in Loops, NEW kind \in Kinds, NEW c \in Conns,
           p1 = [p EXCEPT ![l] = Append(@, Of(kind, c))]
    PROVE  Pushed(Joined(b, p), Joined(b, p1), l, kind, c)
<1> DEFINE q == Joined(b, p)
           q1 == Joined(b, p1)
           s == b[l]  t == p[l]  e == Of(kind, c)
<1>1. s \in Seq(Functor) /\ t \in Seq(Functor) /\ e \in Functor
  BY Functors DEF Queued
<1>2. p1 \in Queued /\ p1[l] = Append(t, e) /\ \A k \in Loops : k # l => p1[k] = p[k]
  <2>1. Append(t, e) \in Seq(Functor)
    BY <1>1, AppendProperties
  <2> QED BY <2>1 DEF Queued
<1>3. /\ q \in Queued /\ q[l] = s \o t
      /\ q1 \in Queued /\ q1[l] = s \o Append(t, e)
      /\ \A k \in Loops : k # l => q1[k] = q[k]
  <2>1. q \in Queued /\ \A k \in Loops : q[k] = b[k] \o p[k]
    BY JoinedType
  <2>2. q1 \in Queued /\ \A k \in Loops : q1[k] = b[k] \o p1[k]
    BY <1>2, JoinedType
  <2> QED BY <1>2, <2>1, <2>2, Zenon
<1> HIDE DEF s, t, e, q, q1
<1>4. s \o Append(t, e) = Append(s \o t, e)
  BY <1>1
<1>5. q1 = [q EXCEPT ![l] = Append(@, e)]
  BY <1>3, <1>4 DEF Queued
<1>6. Pushed(q, q1, l, kind, c)
  BY <1>3, <1>5, PushedBy DEF e
<1> QED BY <1>6 DEF q, q1

\* queueInLoop is a push.
LEMMA QueueSteps ==
    ASSUME TypeInv
    PROVE  /\ UNCHANGED <<pending, batch>> => UNCHANGED Queue
           /\ \A l \in Loops, kind \in Kinds, c \in Conns :
                  pending' = [pending EXCEPT ![l] = Append(@, Of(kind, c))] /\ UNCHANGED batch
                      => Pushed(Queue, Queue', l, kind, c)
<1>1. UNCHANGED <<pending, batch>> => UNCHANGED Queue
  BY DEF Queue
<1>2. ASSUME NEW l \in Loops, NEW kind \in Kinds, NEW c \in Conns,
             pending' = [pending EXCEPT ![l] = Append(@, Of(kind, c))], UNCHANGED batch
      PROVE  Pushed(Queue, Queue', l, kind, c)
  <2>1. Pushed(Joined(batch, pending), Joined(batch, pending'), l, kind, c)
    BY <1>2, QueueType, PushedOn
  <2> QED BY <1>2, <2>1 DEF Queue
<1> QED BY <1>1, <1>2

\* RunFunctor is a pop, before what the functor does.
LEMMA RunPops ==
    ASSUME TypeInv, NEW l \in Loops, NEW b1, batch[l] # <<>>, b1 = [batch EXCEPT ![l] = Tail(@)]
    PROVE  /\ b1 \in Queued
           /\ Head(batch[l]) \in Functor
           /\ \A kind \in Kinds, c \in Conns : Head(batch[l]) = Of(kind, c) =>
                  Popped(Queue, Joined(b1, pending), l, kind, c)
<1> DEFINE b == batch[l]  p == pending[l]
           q1 == Joined(b1, pending)
<1>1. b \in Seq(Functor) /\ p \in Seq(Functor) /\ b # <<>> /\ Queue[l] = b \o p
  BY QueueType, JoinedType DEF Queue
<1>2. Head(b) \in Functor /\ Tail(b) \in Seq(Functor)
  BY <1>1, HeadTailProperties
<1>3. b1 \in Queued /\ b1[l] = Tail(b) /\ \A k \in Loops : k # l => b1[k] = batch[k]
  BY <1>2, QueueType DEF Queued
<1>4. /\ q1 \in Queued /\ q1[l] = Tail(b) \o p
      /\ \A k \in Loops : k # l => q1[k] = Queue[k]
  <2>1. Queue \in Queued /\ \A k \in Loops : Queue[k] = batch[k] \o pending[k]
    BY QueueType, JoinedType DEF Queue
  <2>2. q1 \in Queued /\ \A k \in Loops : q1[k] = b1[k] \o pending[k]
    BY <1>3, QueueType, JoinedType
  <2> QED BY <1>3, <2>1, <2>2, Zenon
<1> HIDE DEF b, p, q1
<1>5. b \o p # <<>> /\ Head(b \o p) = Head(b) /\ Tail(b) \o p = Tail(b \o p)
  BY <1>1, Queues
<1>6. Queue \in Queued
  BY QueueType
<1>7. q1 = [Queue EXCEPT ![l] = Tail(@)]
  BY <1>1, <1>4, <1>5, <1>6 DEF Queued
<1>8. ASSUME NEW kind \in Kinds, NEW c \in Conns, Head(b) = Of(kind, c)
      PROVE  Popped(Queue, q1, l, kind, c)
  BY <1>1, <1>5, <1>6, <1>7, <1>8, PoppedBy
<1> QED BY <1>2, <1>3, <1>8 DEF b, q1

-----------------------------------------------------------------------------
(***************************************************************************)
(* One lemma per step of a connection.                                     *)
(***************************************************************************)

\* The kinds of functors, by name.
LEMMA KindsAre == {"established", "destroyed", "remove"} = Kinds
BY DEF Kinds

\* The step has nothing to do with connection d.
Aside(d) ==
    /\ state_'[d] = state_[d] /\ loopOf'[d] = loopOf[d]
    /\ d \in connections_' <=> d \in connections_
    /\ \A k \in Loops, j \in Kinds :
          /\ In(Queue'[k], Of(j, d)) <=> In(Queue[k], Of(j, d))
          /\ Once(Queue[k], Of(j, d)) => Once(Queue'[k], Of(j, d))

\* A step that has nothing to do with a connection leaves it on its way.
LEMMA AsideKeeps ==
    ASSUME NEW d \in Conns, Base \in Loops, Way(d), Aside(d)
    PROVE  Way(d)'
<1> USE DEF Aside
<1>0. "established" \in Kinds /\ "destroyed" \in Kinds /\ "remove" \in Kinds
  BY DEF Kinds
<1>1. EstablishWay(d)'
  BY <1>0 DEF Way, EstablishWay
<1>2. DestroyWay(d)'
  BY <1>0 DEF Way, DestroyWay
<1>3. RemoveWay(d)'
  BY <1>0 DEF Way, RemoveWay
<1>4. MapWay(d)'
  BY <1>0 DEF Way, MapWay
<1> QED BY <1>1, <1>2, <1>3, <1>4 DEF Way

\* A step on connection c that changes one queue by a functor of c.
LEMMA OthersAside ==
    ASSUME NEW c \in Conns, NEW d \in Conns, d # c,
           UNCHANGED Queue \/ \E l \in Loops, kind \in Kinds :
               Pushed(Queue, Queue', l, kind, c) \/ Popped(Queue, Queue', l, kind, c),
           state_'[d] = state_[d], loopOf'[d] = loopOf[d],
           d \in connections_' <=> d \in connections_
    PROVE  Aside(d)
<1>1. \A k \in Loops, j \in Kinds :
          /\ In(Queue'[k], Of(j, d)) <=> In(Queue[k], Of(j, d))
          /\ Once(Queue[k], Of(j, d)) => Once(Queue'[k], Of(j, d))
  <2>1. CASE UNCHANGED Queue
    BY <2>1
  <2>2. ASSUME NEW l \in Loops, NEW kind \in Kinds, Pushed(Queue, Queue', l, kind, c)
        PROVE  \A k \in Loops, j \in Kinds :
                   /\ In(Queue'[k], Of(j, d)) <=> In(Queue[k], Of(j, d))
                   /\ Once(Queue[k], Of(j, d)) => Once(Queue'[k], Of(j, d))
    BY <2>2, Zenon DEF Pushed
  <2>3. ASSUME NEW l \in Loops, NEW kind \in Kinds, Popped(Queue, Queue', l, kind, c)
        PROVE  \A k \in Loops, j \in Kinds :
                   /\ In(Queue'[k], Of(j, d)) <=> In(Queue[k], Of(j, d))
                   /\ Once(Queue[k], Of(j, d)) => Once(Queue'[k], Of(j, d))
    BY <2>3, Zenon DEF Popped
  <2> QED BY <2>1, <2>2, <2>3
<1> QED BY <1>1 DEF Aside

\* A connection without functors: what holds of it after one of them was queued.
NoFunctor(q, c) == \A k \in Loops, j \in Kinds : ~In(q[k], Of(j, c))

\* A functor that is queued for a connection without any is its only one.
LEMMA NewFunctor ==
    ASSUME NEW l \in Loops, NEW kind \in Kinds, NEW c \in Conns,
           NoFunctor(Queue, c), Pushed(Queue, Queue', l, kind, c)
    PROVE  /\ \A k \in Loops, j \in Kinds : In(Queue'[k], Of(j, c)) <=> k = l /\ j = kind
           /\ Once(Queue'[l], Of(kind, c))
<1>1. \A k \in Loops, j \in Kinds : In(Queue'[k], Of(j, c)) <=> k = l /\ j = kind
  BY Zenon DEF NoFunctor, Pushed
<1>2. Once(Queue[l], Of(kind, c)) /\ ~In(Queue[l], Of(kind, c)) => Once(Queue'[l], Of(kind, c))
  BY Zenon DEF Pushed
<1>3. ~In(Queue[l], Of(kind, c)) => Once(Queue[l], Of(kind, c))
  BY DEF In, Once
<1> QED BY <1>1, <1>2, <1>3 DEF NoFunctor

\* Open connections that are not on their way to a loop have no functor, nor have those
\* that are not there yet.
LEMMA Idle ==
    ASSUME NEW c \in Conns, Way(c), state_[c] \in {"none", "kConnected"}
    PROVE  NoFunctor(Queue, c)
<1>1. state_[c] # "kConnecting" /\ state_[c] # "kDisconnected"
  OBVIOUS
<1>2. \A k \in Loops : /\ ~In(Queue[k], Of("established", c))
                       /\ ~In(Queue[k], Of("destroyed", c))
                       /\ ~In(Queue[k], Of("remove", c))
  BY <1>1 DEF Way, EstablishWay, DestroyWay, RemoveWay
<1> QED BY <1>2 DEF NoFunctor, Kinds

\* After a step that leaves a connection without functors only the map matters.
LEMMA NoFunctorWay ==
    ASSUME NEW c \in Conns, NoFunctor(Queue', c), MapWay(c)'
    PROVE  Way(c)'
<1>1. \A k \in Loops : /\ ~In(Queue'[k], Of("established", c))
                       /\ ~In(Queue'[k], Of("destroyed", c))
                       /\ ~In(Queue'[k], Of("remove", c))
  BY DEF NoFunctor, Kinds
<1> QED BY <1>1 DEF Way, EstablishWay, DestroyWay, RemoveWay

\* newConnection starts a connection on its way, with connectEstablished queued or run.
LEMMA NewConnectionFlow ==
    ASSUME TypeInv, TypeInv', PlacesInv, Flow, NEW c \in Conns, NewConnection(c)
    PROVE  Flow'
<1> DEFINE l == GetNextLoop.loop
<1>1. Base \in Loops /\ l \in Loops
  BY LoopsExist, NextLoop DEF TypeInv
<1>2. /\ state_[c] = "none" /\ server' = "up" /\ asserted' = asserted
      /\ batch' = batch
      /\ loopOf' = [loopOf EXCEPT ![c] = l] /\ connections_' = connections_ \cup {c}
  BY DEF NewConnection
<1>3. \/ /\ l = Base
         /\ state_' = [state_ EXCEPT ![c] = "kConnected"] /\ pending' = pending
      \/ /\ l # Base
         /\ state_' = [state_ EXCEPT ![c] = "kConnecting"]
         /\ pending' = [pending EXCEPT ![l] = Append(@, Of("established", c))]
  BY DEF NewConnection, QueueInLoop, Of
<1> HIDE DEF l
<1>4. state_ \in [Conns -> {"none", "kConnecting", "kConnected", "kDisconnected"}]
      /\ loopOf \in [Conns -> Loops]
  BY DEF TypeInv
<1>5. NoFunctor(Queue, c)
  BY <1>2, Idle DEF Flow
<1>6. "established" \in Kinds
  BY DEF Kinds
<1>7. \/ UNCHANGED Queue /\ state_'[c] = "kConnected"
      \/ /\ Pushed(Queue, Queue', l, "established", c) /\ state_'[c] = "kConnecting"
         /\ l # Base
  <2>1. CASE l = Base
    BY <1>3, <1>4, <1>2, <2>1, QueueSteps
  <2>2. CASE l # Base
    <3>1. /\ state_'[c] = "kConnecting"
          /\ pending' = [pending EXCEPT ![l] = Append(@, Of("established", c))]
      BY <1>3, <1>4, <2>2
    <3>2. Pushed(Queue, Queue', l, "established", c)
      BY <1>1, <1>2, <1>6, <3>1, QueueSteps, Zenon
    <3> QED BY <2>2, <3>1, <3>2
  <2> QED BY <2>1, <2>2
<1>8. loopOf'[c] = l /\ c \in connections_'
  BY <1>2, <1>4
<1>9. Way(c)'
  <2>1. CASE UNCHANGED Queue /\ state_'[c] = "kConnected"
    <3>1. NoFunctor(Queue', c)
      BY <1>5, <2>1
    <3>2. MapWay(c)'
      BY <1>8, <2>1 DEF MapWay
    <3> QED BY <3>1, <3>2, NoFunctorWay
  <2>2. CASE /\ Pushed(Queue, Queue', l, "established", c) /\ state_'[c] = "kConnecting"
             /\ l # Base
    <3>1. /\ \A k \in Loops, j \in Kinds : In(Queue'[k], Of(j, c)) <=> k = l /\ j = "established"
          /\ Once(Queue'[l], Of("established", c))
      BY <1>1, <1>5, <1>6, <2>2, NewFunctor
    <3>2. \A k \in Loops : /\ In(Queue'[k], Of("established", c)) => k = l
                           /\ ~In(Queue'[k], Of("destroyed", c)) /\ ~In(Queue'[k], Of("remove", c))
      BY <3>1 DEF Kinds
    <3>3. EstablishWay(c)'
      BY <1>8, <2>2, <3>1, <3>2 DEF EstablishWay
    <3>4. DestroyWay(c)' /\ RemoveWay(c)'
      BY <3>2 DEF DestroyWay, RemoveWay
    <3>5. MapWay(c)'
      BY <1>8, <2>2 DEF MapWay
    <3> QED BY <3>3, <3>4, <3>5 DEF Way
  <2> QED BY <1>7, <2>1, <2>2
<1>10. ASSUME NEW d \in Conns, d # c PROVE Way(d)'
  <2>1. /\ state_'[d] = state_[d] /\ loopOf'[d] = loopOf[d]
        /\ d \in connections_' <=> d \in connections_
    BY <1>2, <1>3, <1>4, <1>10
  <2>2. UNCHANGED Queue \/ Pushed(Queue, Queue', l, "established", c)
    BY <1>7
  <2>3. Aside(d)
    BY <1>1, <1>6, <1>10, <2>1, <2>2, OthersAside
  <2> QED BY <1>1, <2>3, AsideKeeps DEF Flow
<1>11. Calm' /\ asserted' = {}
  BY <1>2 DEF Calm, Flow
<1> QED BY <1>9, <1>10, <1>11 DEF Flow

\* handleClose queues the removal in the base loop, or runs it there.
LEMMA HandleCloseFlow ==
    ASSUME TypeInv, TypeInv', PlacesInv, Flow, NEW c \in Conns, HandleClose(c)
    PROVE  Flow'
<1>1. Base \in Loops
  BY LoopsExist DEF TypeInv
<1>2. state_[c] = "kConnected" /\ c \in connections_ /\ server # "gone"
  BY DEF HandleClose, Flow, Way, MapWay, PlacesInv
<1>3. /\ state_' = [state_ EXCEPT ![c] = "kDisconnected"]
      /\ UNCHANGED <<loopOf, batch, server, numThreads_>>
  BY DEF HandleClose
<1>4. \/ /\ loopOf[c] = Base
         /\ connections_' = connections_ \ {c}
         /\ pending' = [pending EXCEPT ![Base] = Append(@, Of("destroyed", c))]
      \/ /\ loopOf[c] # Base
         /\ connections_' = connections_
         /\ pending' = [pending EXCEPT ![Base] = Append(@, Of("remove", c))]
  BY DEF HandleClose, RemoveConnectionInLoop, QueueInLoop, Of
<1>5. asserted' = {}
  BY <1>2 DEF HandleClose, RemoveConnectionInLoop, Check, Flow
<1>6. state_ \in [Conns -> {"none", "kConnecting", "kConnected", "kDisconnected"}]
      /\ loopOf \in [Conns -> Loops]
  BY DEF TypeInv
<1>7. "destroyed" \in Kinds /\ "remove" \in Kinds
  BY DEF Kinds
<1>8. NoFunctor(Queue, c)
  BY <1>2, Idle DEF Flow
<1>9. \/ /\ Pushed(Queue, Queue', Base, "destroyed", c) /\ loopOf[c] = Base
         /\ connections_' = connections_ \ {c}
      \/ /\ Pushed(Queue, Queue', Base, "remove", c) /\ loopOf[c] # Base
         /\ connections_' = connections_
  BY <1>1, <1>3, <1>4, <1>7, QueueSteps, Zenon
<1>10. state_'[c] = "kDisconnected" /\ loopOf'[c] = loopOf[c]
  BY <1>3, <1>6
<1>11. Way(c)'
  <2>1. CASE /\ Pushed(Queue, Queue', Base, "destroyed", c) /\ loopOf[c] = Base
             /\ connections_' = connections_ \ {c}
    <3>1. \A k \in Loops, j \in Kinds : In(Queue'[k], Of(j, c)) <=> k = Base /\ j = "destroyed"
      BY <1>1, <1>7, <1>8, <2>1, NewFunctor
    <3>2. \A k \in Loops : ~In(Queue'[k], Of("established", c)) /\ ~In(Queue'[k], Of("remove", c))
      BY <3>1 DEF Kinds
    <3>3. EstablishWay(c)' /\ RemoveWay(c)'
      BY <3>2 DEF EstablishWay, RemoveWay
    <3>4. DestroyWay(c)' /\ MapWay(c)'
      BY <1>10, <2>1 DEF DestroyWay, MapWay
    <3> QED BY <3>3, <3>4 DEF Way
  <2>2. CASE /\ Pushed(Queue, Queue', Base, "remove", c) /\ loopOf[c] # Base
             /\ connections_' = connections_
    <3>1. /\ \A k \in Loops, j \in Kinds : In(Queue'[k], Of(j, c)) <=> k = Base /\ j = "remove"
          /\ Once(Queue'[Base], Of("remove", c))
      BY <1>1, <1>7, <1>8, <2>2, NewFunctor
    <3>2. \A k \in Loops : /\ ~In(Queue'[k], Of("established", c))
                           /\ In(Queue'[k], Of("remove", c)) <=> k = Base
      BY <3>1 DEF Kinds
    <3>3. EstablishWay(c)' /\ DestroyWay(c)'
      BY <1>10, <3>2 DEF EstablishWay, DestroyWay
    <3>4. RemoveWay(c)' /\ MapWay(c)'
      BY <1>1, <1>2, <1>10, <2>2, <3>1, <3>2 DEF RemoveWay, MapWay
    <3> QED BY <3>3, <3>4 DEF Way
  <2> QED BY <1>9, <2>1, <2>2
<1>12. ASSUME NEW d \in Conns, d # c PROVE Way(d)'
  <2>1. /\ state_'[d] = state_[d] /\ loopOf'[d] = loopOf[d]
        /\ d \in connections_' <=> d \in connections_
    BY <1>3, <1>4, <1>6, <1>12
  <2>2. \E kind \in Kinds : Pushed(Queue, Queue', Base, kind, c)
    BY <1>7, <1>9
  <2>3. Aside(d)
    BY <1>1, <1>12, <2>1, <2>2, OthersAside
  <2> QED BY <1>1, <2>3, AsideKeeps DEF Flow
<1>13. Calm'
  BY <1>2, <1>3 DEF Calm, Flow
<1> QED BY <1>5, <1>11, <1>12, <1>13 DEF Flow

\* What is in a queue before a pop.
LEMMA PoppedWas ==
    ASSUME NEW q, NEW q1, NEW l \in Loops, NEW kind \in Kinds, NEW c \in Conns,
           Popped(q, q1, l, kind, c)
    PROVE  /\ In(q[l], Of(kind, c)) /\ q[l] # <<>>
           /\ \A k \in Loops, j \in Kinds, d \in Conns :
                  /\ In(q1[k], Of(j, d)) => In(q[k], Of(j, d))
                  /\ Once(q[k], Of(j, d)) => Once(q1[k], Of(j, d))
                  /\ j # kind /\ In(q[k], Of(j, d)) => In(q1[k], Of(j, d))
           /\ Once(q[l], Of(kind, c)) => ~In(q1[l], Of(kind, c))
<1>1. In(q[l], Of(kind, c))
  BY Zenon DEF Popped
<1>2. q[l] # <<>>
  BY <1>1 DEF In
<1>3. \A k \in Loops, j \in Kinds, d \in Conns :
          /\ In(q1[k], Of(j, d)) => In(q[k], Of(j, d))
          /\ Once(q[k], Of(j, d)) => Once(q1[k], Of(j, d))
          /\ j # kind /\ In(q[k], Of(j, d)) => In(q1[k], Of(j, d))
  BY Zenon DEF Popped
<1>4. Once(q[l], Of(kind, c)) => ~In(q1[l], Of(kind, c))
  BY Zenon DEF Popped
<1> QED BY <1>1, <1>2, <1>3, <1>4

\* connectEstablished runs for a connection that is in the map and waits for nothing else.
LEMMA EstablishFlow ==
    ASSUME TypeInv, Base \in Loops, Flow, NEW l \in Loops, NEW c \in Conns,
           Popped(Queue, Queue', l, "established", c),
           Establish(c), UNCHANGED <<connections_, loopOf>>
    PROVE  /\ asserted' = {} /\ Way(c)'
           /\ \A d \in Conns : d # c => state_'[d] = state_[d]
<1>0. /\ "established" \in Kinds
      /\ state_ \in [Conns -> {"none", "kConnecting", "kConnected", "kDisconnected"}]
  BY DEF Kinds, TypeInv
<1>1. /\ In(Queue[l], Of("established", c))
      /\ \A k \in Loops, j \in Kinds : In(Queue'[k], Of(j, c)) => In(Queue[k], Of(j, c))
      /\ Once(Queue[l], Of("established", c)) => ~In(Queue'[l], Of("established", c))
  BY <1>0, Zenon DEF Popped
<1>2. Way(c)
  BY DEF Flow
<1>3. l = loopOf[c] /\ state_[c] = "kConnecting" /\ ~In(Queue'[l], Of("established", c))
  BY <1>1, <1>2 DEF Way, EstablishWay
<1>4. c \in connections_ /\ state_'[c] = "kConnected"
  BY <1>0, <1>2, <1>3 DEF Way, MapWay, Establish
<1>5. asserted' = {}
  BY <1>3 DEF Establish, Check, Flow
<1>6. NoFunctor(Queue', c)
  <2>1. \A k \in Loops : ~In(Queue'[k], Of("established", c))
    BY <1>0, <1>1, <1>2, <1>3 DEF Way, EstablishWay
  <2>2. \A k \in Loops : ~In(Queue[k], Of("destroyed", c)) /\ ~In(Queue[k], Of("remove", c))
    BY <1>2, <1>3 DEF Way, DestroyWay, RemoveWay
  <2> QED BY <1>1, <2>1, <2>2 DEF NoFunctor, Kinds
<1>7. MapWay(c)'
  BY <1>4 DEF MapWay
<1> QED BY <1>0, <1>5, <1>6, <1>7, NoFunctorWay DEF Establish

\* connectDestroyed runs for a connection that was closed.
LEMMA DestroyedFlow ==
    ASSUME TypeInv, Base \in Loops, Flow, NEW l \in Loops, NEW c \in Conns,
           Popped(Queue, Queue', l, "destroyed", c),
           DestroyConnection(c), UNCHANGED <<connections_, loopOf, asserted>>
    PROVE  /\ asserted' = {} /\ Way(c)'
           /\ \A d \in Conns : d # c => state_'[d] = state_[d]
<1>0. /\ "destroyed" \in Kinds /\ "remove" \in Kinds /\ "established" \in Kinds
      /\ state_ \in [Conns -> {"none", "kConnecting", "kConnected", "kDisconnected"}]
  BY DEF Kinds, TypeInv
<1>1. /\ In(Queue[l], Of("destroyed", c))
      /\ \A k \in Loops, j \in Kinds :
             /\ In(Queue'[k], Of(j, c)) => In(Queue[k], Of(j, c))
             /\ Once(Queue[k], Of(j, c)) => Once(Queue'[k], Of(j, c))
             /\ j # "destroyed" /\ In(Queue[k], Of(j, c)) => In(Queue'[k], Of(j, c))
  BY <1>0, Zenon DEF Popped
<1>2. Way(c)
  BY DEF Flow
<1>3. state_[c] = "kDisconnected" /\ state_'[c] = "kDisconnected"
  BY <1>0, <1>1, <1>2 DEF Way, DestroyWay, DestroyConnection
<1>4. \A k \in Loops : /\ ~In(Queue'[k], Of("established", c))
                       /\ In(Queue'[k], Of("remove", c)) <=> In(Queue[k], Of("remove", c))
                       /\ Once(Queue[k], Of("remove", c)) => Once(Queue'[k], Of("remove", c))
  <2>1. \A k \in Loops : ~In(Queue[k], Of("established", c))
    BY <1>2, <1>3 DEF Way, EstablishWay
  <2>2. "remove" # "destroyed"
    OBVIOUS
  <2> QED BY <1>0, <1>1, <2>1, <2>2, Zenon
<1>5. EstablishWay(c)' /\ DestroyWay(c)'
  BY <1>3, <1>4 DEF EstablishWay, DestroyWay
<1>6. RemoveWay(c)'
  BY <1>2, <1>3, <1>4 DEF Way, RemoveWay
<1>7. MapWay(c)'
  BY <1>2, <1>3, <1>4 DEF Way, MapWay
<1> QED BY <1>0, <1>5, <1>6, <1>7 DEF Way, DestroyConnection, Flow

\* removeConnectionInLoop runs once for a connection, while the map still has it.
LEMMA RemovedFlow ==
    ASSUME TypeInv, Base \in Loops, PlacesInv, Flow, NEW l \in Loops, NEW c \in Conns, NEW q1,
           Popped(Queue, q1, l, "remove", c),
           Pushed(q1, Queue', loopOf[c], "destroyed", c),
           RemoveConnectionInLoop(c, pending), UNCHANGED <<state_, loopOf>>
    PROVE  /\ asserted' = {} /\ Way(c)'
           /\ connections_' = connections_ \ {c}
<1>0. /\ "destroyed" \in Kinds /\ "remove" \in Kinds /\ "established" \in Kinds
      /\ loopOf[c] \in Loops
  BY DEF Kinds, TypeInv
<1>1. /\ In(Queue[l], Of("remove", c))
      /\ \A k \in Loops, j \in Kinds : In(q1[k], Of(j, c)) => In(Queue[k], Of(j, c))
      /\ Once(Queue[l], Of("remove", c)) => ~In(q1[l], Of("remove", c))
  BY <1>0, PoppedWas
<1>2. \A k \in Loops, j \in Kinds : In(Queue'[k], Of(j, c)) => In(q1[k], Of(j, c)) \/ j = "destroyed"
  BY <1>0, Zenon DEF Pushed
<1>3. Way(c)
  BY DEF Flow
<1>4. /\ l = Base /\ state_[c] = "kDisconnected" /\ c \in connections_
      /\ ~In(q1[l], Of("remove", c))
  BY <1>1, <1>3 DEF Way, RemoveWay
<1>5. asserted' = {}
  BY <1>4 DEF RemoveConnectionInLoop, Check, Flow, PlacesInv
<1>6. \A k \in Loops : ~In(Queue[k], Of("established", c))
  BY <1>3, <1>4 DEF Way, EstablishWay
<1>7. \A k \in Loops : In(Queue[k], Of("remove", c)) => k = l
  BY <1>3, <1>4 DEF Way, RemoveWay
<1>8. \A k \in Loops : ~In(Queue'[k], Of("established", c)) /\ ~In(Queue'[k], Of("remove", c))
  <2>1. "established" # "destroyed" /\ "remove" # "destroyed"
    OBVIOUS
  <2> QED BY <1>0, <1>1, <1>2, <1>4, <1>6, <1>7, <2>1, Zenon
<1>9. connections_' = connections_ \ {c}
  BY DEF RemoveConnectionInLoop
<1>10. EstablishWay(c)' /\ RemoveWay(c)'
  BY <1>8 DEF EstablishWay, RemoveWay
<1>11. DestroyWay(c)' /\ MapWay(c)'
  BY <1>4, <1>9 DEF DestroyWay, MapWay
<1> QED BY <1>5, <1>9, <1>10, <1>11 DEF Way

\* Each functor of a connection takes it one step further on its way.
LEMMA RunFunctorFlow ==
    ASSUME TypeInv, TypeInv', PlacesInv, Flow, NEW l \in Loops, RunFunctor(l)
    PROVE  Flow'
<1>0. PICK q1 : q1 = Joined(batch', pending)
  OBVIOUS
<1>1. /\ Base \in Loops
      /\ "established" \in Kinds /\ "destroyed" \in Kinds /\ "remove" \in Kinds
  BY LoopsExist DEF TypeInv, Kinds
<1>2. batch[l] # <<>> /\ batch' = [batch EXCEPT ![l] = Tail(@)]
  BY DEF RunFunctor
<1>3. /\ batch' \in Queued /\ Head(batch[l]) \in Functor
      /\ \A k \in Kinds, d \in Conns : Head(batch[l]) = Of(k, d) => Popped(Queue, q1, l, k, d)
  BY <1>0, <1>2, RunPops
<1>4. PICK kind \in Kinds, c \in Conns : /\ Head(batch[l]) = Of(kind, c)
                                         /\ kind = Head(batch[l])[1] /\ c = Head(batch[l])[2]
  BY <1>3, Functors
<1>5. Popped(Queue, q1, l, kind, c)
  BY <1>3, <1>4
<1>6. /\ \/ kind = "established" /\ Establish(c) /\ UNCHANGED <<connections_, pending>>
         \/ kind = "destroyed" /\ DestroyConnection(c)
            /\ UNCHANGED <<connections_, pending, asserted>>
         \/ kind = "remove" /\ RemoveConnectionInLoop(c, pending)
            /\ UNCHANGED <<state_, addedToLoop_>>
      /\ UNCHANGED <<loopOf, server, numThreads_>>
  BY <1>4 DEF RunFunctor
<1>7. Queue' = Joined(batch', pending')
  BY DEF Queue
<1>8. loopOf[c] \in Loops
  BY <1>4 DEF TypeInv
<1>9. /\ asserted' = {} /\ Way(c)'
      /\ \A d \in Conns \ {c} : /\ state_'[d] = state_[d]
                                /\ d \in connections_' <=> d \in connections_
      /\ \A d \in Conns \ {c}, k \in Loops, j \in Kinds :
             /\ In(Queue'[k], Of(j, d)) <=> In(q1[k], Of(j, d))
             /\ Once(q1[k], Of(j, d)) => Once(Queue'[k], Of(j, d))
  <2>1. CASE kind = "established" /\ Establish(c) /\ UNCHANGED <<connections_, pending>>
    <3>1. Queue' = q1
      BY <1>0, <1>7, <2>1
    <3>2. Popped(Queue, Queue', l, "established", c)
      BY <1>5, <2>1, <3>1
    <3>3. /\ asserted' = {} /\ Way(c)'
          /\ \A d \in Conns : d # c => state_'[d] = state_[d]
      BY <1>1, <1>4, <1>6, <2>1, <3>2, EstablishFlow
    <3> QED BY <2>1, <3>1, <3>3
  <2>2. CASE kind = "destroyed" /\ DestroyConnection(c)
             /\ UNCHANGED <<connections_, pending, asserted>>
    <3>1. Queue' = q1
      BY <1>0, <1>7, <2>2
    <3>2. Popped(Queue, Queue', l, "destroyed", c)
      BY <1>5, <2>2, <3>1
    <3>3. /\ asserted' = {} /\ Way(c)'
          /\ \A d \in Conns : d # c => state_'[d] = state_[d]
      BY <1>1, <1>4, <1>6, <2>2, <3>2, DestroyedFlow
    <3> QED BY <2>2, <3>1, <3>3
  <2>3. CASE kind = "remove" /\ RemoveConnectionInLoop(c, pending)
             /\ UNCHANGED <<state_, addedToLoop_>>
    <3>1. pending' = [pending EXCEPT ![loopOf[c]] = Append(@, Of("destroyed", c))]
      BY <2>3 DEF RemoveConnectionInLoop, Of
    <3>2. Pushed(q1, Queue', loopOf[c], "destroyed", c)
      <4>1. Pushed(Joined(batch', pending), Joined(batch', pending'), loopOf[c], "destroyed", c)
        BY <1>1, <1>3, <1>4, <1>8, <3>1, QueueType, PushedOn
      <4> QED BY <1>0, <1>7, <4>1
    <3>3. Popped(Queue, q1, l, "remove", c)
      BY <1>5, <2>3
    <3>4. /\ asserted' = {} /\ Way(c)' /\ connections_' = connections_ \ {c}
      BY <1>1, <1>4, <1>6, <2>3, <3>2, <3>3, RemovedFlow
    <3>5. \A d \in Conns \ {c}, k \in Loops, j \in Kinds :
             /\ In(Queue'[k], Of(j, d)) <=> In(q1[k], Of(j, d))
             /\ Once(q1[k], Of(j, d)) => Once(Queue'[k], Of(j, d))
      BY <3>2, Zenon DEF Pushed
    <3> QED BY <2>3, <3>4, <3>5
  <2> QED BY <1>6, <2>1, <2>2, <2>3
<1>10. ASSUME NEW d \in Conns, d # c PROVE Way(d)'
  <2>1. \A k \in Loops, j \in Kinds :
            /\ In(q1[k], Of(j, d)) <=> In(Queue[k], Of(j, d))
            /\ Once(Queue[k], Of(j, d)) => Once(q1[k], Of(j, d))
    BY <1>5, <1>10, Zenon DEF Popped
  <2>2. d \in Conns \ {c} /\ loopOf'[d] = loopOf[d]
    BY <1>6, <1>10
  <2>3. Aside(d)
    BY <1>9, <2>1, <2>2, Zenon DEF Aside
  <2> QED BY <1>1, <2>3, AsideKeeps DEF Flow
<1>11. Calm'
  <2>0. In(Queue[l], Of(kind, c))
    BY <1>5, Zenon DEF Popped
  <2>1. Queue[l] # <<>>
    BY <2>0 DEF In
  <2> QED BY <1>6, <2>1 DEF Calm, Flow
<1> QED BY <1>9, <1>10, <1>11 DEF Flow

\* The destructor destroys at once what lives in the base loop; there is nothing else.
LEMMA DestroyNextFlow ==
    ASSUME TypeInv, TypeInv', PlacesInv, Flow, NEW c \in Conns, DestroyNext(c)
    PROVE  Flow'
<1>1. /\ Base \in Loops /\ numThreads_ \in Nat
      /\ state_ \in [Conns -> {"none", "kConnecting", "kConnected", "kDisconnected"}]
  BY LoopsExist DEF TypeInv
<1>2. numThreads_ = 0 /\ loopOf[c] = Base
  <2>1. server = "dtor" /\ c \in connections_
    BY DEF DestroyNext
  <2>2. ~(numThreads_ > 0)
    BY <2>1 DEF Calm, Flow
  <2> QED BY <1>1, <2>2 DEF PlacesInv
<1>3. /\ state_' = [state_ EXCEPT ![c] = "kDisconnected"]
      /\ connections_' = connections_ \ {c}
      /\ UNCHANGED <<pending, batch, loopOf, asserted, numThreads_>>
  BY <1>2 DEF DestroyNext, DestroyConnection
<1>4. UNCHANGED Queue
  BY <1>3, QueueSteps
<1>5. Way(c)'
  <2>1. Way(c) /\ state_'[c] = "kDisconnected" /\ c \notin connections_'
    BY <1>1, <1>3 DEF Flow
  <2>2. \A k \in Loops : ~In(Queue[k], Of("established", c)) /\ ~In(Queue[k], Of("remove", c))
    BY <1>2, <2>1 DEF Way, EstablishWay, RemoveWay
  <2>3. EstablishWay(c)' /\ RemoveWay(c)'
    BY <1>4, <2>2 DEF EstablishWay, RemoveWay
  <2>4. DestroyWay(c)' /\ MapWay(c)'
    BY <2>1 DEF DestroyWay, MapWay
  <2> QED BY <2>3, <2>4 DEF Way
<1>6. ASSUME NEW d \in Conns, d # c PROVE Way(d)'
  <2>1. /\ state_'[d] = state_[d] /\ loopOf'[d] = loopOf[d]
        /\ d \in connections_' <=> d \in connections_
    BY <1>1, <1>3, <1>6
  <2>2. Aside(d)
    BY <1>4, <2>1, Zenon DEF Aside
  <2> QED BY <1>1, <2>2, AsideKeeps DEF Flow
<1>7. Calm' /\ asserted' = {}
  BY <1>2, <1>3 DEF Calm, Flow
<1> QED BY <1>5, <1>6, <1>7 DEF Flow

\* Steps that change no queue and no connection.
Quiet == UNCHANGED <<Queue, state_, loopOf, connections_, asserted>>

\* A step that changes no queue and no connection leaves all on their way.
LEMMA QuietFlow ==
    ASSUME TypeInv, Flow, Quiet, Calm'
    PROVE  Flow'
<1>1. Base \in Loops
  BY LoopsExist DEF TypeInv
<1>2. ASSUME NEW d \in Conns PROVE Way(d)'
  <2>1. Aside(d)
    BY Zenon DEF Aside, Quiet
  <2> QED BY <1>1, <2>1, AsideKeeps DEF Flow
<1> QED BY <1>2 DEF Flow, Quiet

\* The swap moves a queue as a whole, because the batch before it is done.
LEMMA SwapQuiet ==
    ASSUME TypeInv, TypeInv', BatchInv, NEW l \in Loops, SwapFunctors(l)
    PROVE  Quiet
<1> DEFINE p == pending[l]
<1>1. batch[l] = <<>> /\ p \in Seq(Functor)
  BY DEF SwapFunctors, BatchInv, TypeInv
<1>2. /\ batch' = [batch EXCEPT ![l] = p] /\ pending' = [pending EXCEPT ![l] = <<>>]
      /\ UNCHANGED <<conn, connections_, asserted>>
  BY DEF SwapFunctors
<1>3. batch \in Queued /\ pending \in Queued /\ Queue \in Queued
  BY QueueType
<1>4. <<>> \in Seq(Functor)
  BY EmptySeq
<1>5. /\ batch' \in Queued /\ batch'[l] = p /\ \A k \in Loops : k # l => batch'[k] = batch[k]
      /\ pending' \in Queued /\ pending'[l] = <<>>
      /\ \A k \in Loops : k # l => pending'[k] = pending[k]
  BY <1>1, <1>2, <1>3, <1>4 DEF Queued
<1>6. PICK q1 : q1 = Joined(batch', pending')
  OBVIOUS
<1>7. q1 \in Queued /\ \A k \in Loops : q1[k] = batch'[k] \o pending'[k]
  BY <1>5, <1>6, JoinedType
<1>8. \A k \in Loops : Queue[k] = batch[k] \o pending[k]
  BY <1>3, JoinedType DEF Queue
<1> HIDE DEF p
<1>9. p \o <<>> = p /\ <<>> \o p = p
  BY <1>1, ConcatEmptySeq
<1>10. q1[l] = Queue[l]
  <2>1. q1[l] = p \o <<>> /\ Queue[l] = <<>> \o p
    BY <1>1, <1>5, <1>7, <1>8, Zenon DEF p
  <2> QED BY <1>9, <2>1
<1>11. \A k \in Loops : k # l => q1[k] = Queue[k]
  BY <1>5, <1>7, <1>8, Zenon
<1>12. q1 = Queue
  BY <1>3, <1>7, <1>10, <1>11 DEF Queued
<1>13. UNCHANGED Queue
  BY <1>6, <1>12 DEF Queue
<1> QED BY <1>2, <1>13 DEF Quiet, conn

\* A loop that ends drops what is queued: by then every connection is out of the map.
LEMMA FunctorsDoneFlow ==
    ASSUME TypeInv, TypeInv', BatchInv, PlacesInv, Flow, NEW l \in Loops, FunctorsDone(l)
    PROVE  Flow'
<1>1. Base \in Loops
  BY LoopsExist DEF TypeInv
<1>2. UNCHANGED <<batch, conn, connections_, asserted, server, numThreads_>> /\ batch[l] = <<>>
  BY DEF FunctorsDone
<1>3. CASE ~quit_[l]
  <2>1. UNCHANGED pending
    BY <1>3 DEF FunctorsDone
  <2>2. UNCHANGED Queue
    BY <1>2, <2>1, QueueSteps
  <2>3. Quiet
    BY <1>2, <2>2 DEF Quiet, conn
  <2>4. Calm'
    BY <1>2, <2>2 DEF Calm, Flow
  <2> QED BY <2>3, <2>4, QuietFlow
<1>4. CASE quit_[l]
  <2>1. connections_ = {}
    BY <1>4 DEF PlacesInv
  <2>2. pending' = [pending EXCEPT ![l] = <<>>] /\ <<>> \in Seq(Functor)
    BY <1>4, EmptySeq DEF FunctorsDone
  <2>3. batch \in Queued /\ pending \in Queued
    BY QueueType
  <2>4. /\ pending' \in Queued /\ pending'[l] = <<>>
        /\ \A k \in Loops : k # l => pending'[k] = pending[k]
    BY <2>2, <2>3 DEF Queued
  <2>5. \A k \in Loops : Queue[k] = batch[k] \o pending[k]
    BY <2>3, JoinedType DEF Queue
  <2>6. PICK q1 : q1 = Joined(batch, pending')
    OBVIOUS
  <2>7. \A k \in Loops : q1[k] = batch[k] \o pending'[k]
    BY <2>3, <2>4, <2>6, JoinedType
  <2>8. Queue' = q1
    BY <1>2, <2>6 DEF Queue
  <2>9. Queue'[l] = <<>>
    <3>1. Queue'[l] = <<>> \o <<>>
      BY <1>2, <2>4, <2>7, <2>8, Zenon
    <3> QED BY <3>1, <2>2, ConcatEmptySeq
  <2>10. \A k \in Loops : k # l => Queue'[k] = Queue[k]
    BY <2>4, <2>5, <2>7, <2>8, Zenon
  <2>11. \A f : ~In(<<>>, f)
    BY DEF In
  <2>12. \A k \in Loops : \A f :
            /\ In(Queue'[k], f) => In(Queue[k], f)
            /\ In(Queue'[k], f) /\ Once(Queue[k], f) => Once(Queue'[k], f)
    BY <2>9, <2>10, <2>11, Zenon
  <2>13. ASSUME NEW c \in Conns PROVE Way(c)'
    <3>1. Way(c) /\ state_'[c] = state_[c] /\ loopOf'[c] = loopOf[c] /\ connections_' = {}
      BY <1>2, <2>1 DEF Flow, conn
    <3>2. EstablishWay(c)'
      BY <2>12, <3>1 DEF Way, EstablishWay
    <3>3. DestroyWay(c)'
      BY <2>12, <3>1 DEF Way, DestroyWay
    <3>4. RemoveWay(c)'
      BY <2>1, <2>12, <3>1 DEF Way, RemoveWay
    <3>5. MapWay(c)'
      BY <2>1, <3>1 DEF Way, MapWay
    <3> QED BY <3>2, <3>3, <3>4, <3>5 DEF Way
  <2>14. Calm'
    BY <1>2, <2>9, <2>10 DEF Calm, Flow
  <2> QED BY <1>2, <2>13, <2>14 DEF Flow
<1> QED BY <1>3, <1>4

\* A server with io threads that is destroyed in an orderly way has nothing left to do.
LEMMA DestroyServerFlow ==
    ASSUME TypeInv, TypeInv', BatchInv, Flow, DestroyedWith \subseteq {0}, DestroyServer
    PROVE  Flow'
<1>1. UNCHANGED <<pending, batch, conn, connections_, asserted, numThreads_>>
  BY DEF DestroyServer, loops
<1>2. UNCHANGED Queue
  BY <1>1, QueueSteps
<1>3. Quiet
  BY <1>1, <1>2 DEF Quiet, conn
<1>4. ASSUME numThreads_ > 0 PROVE connections_ = {} /\ \A l \in Loops : Queue[l] = <<>>
  <2>1. \A c \in Conns : ~Alive(c)
    <3>0. numThreads_ # 0
      BY <1>4
    <3>1. numThreads_ \notin DestroyedWith
      BY <3>0, Zenon
    <3> QED BY <3>1, Zenon DEF DestroyServer
  <2>2. connections_ = {}
    BY <2>1 DEF Alive, TypeInv
  <2>3. ASSUME NEW l \in Loops PROVE Queue[l] = <<>>
    <3> DEFINE b == batch[l]  p == pending[l]
    <3>1. b \in Seq(Functor) /\ p \in Seq(Functor) /\ Queue[l] = b \o p
      BY QueueType, JoinedType DEF Queue
    <3>2. b = <<>>
      <4>1. SUFFICES ASSUME b # <<>> PROVE FALSE
        OBVIOUS
      <4>2. Len(b) \in Nat \ {0}
        BY <3>1, <4>1, EmptySeq, HeadTailProperties
      <4>3. 1 \in 1..Len(b) /\ b[1] \in Functor
        BY <3>1, <4>2
      <4>4. b[1][2] \in held[l] /\ b[1][2] \in Conns
        BY <4>3, Functors DEF BatchInv
      <4> QED BY <2>1, <4>4 DEF Alive
    <3>3. p = <<>>
      <4>1. SUFFICES ASSUME p # <<>> PROVE FALSE
        OBVIOUS
      <4>2. Len(p) \in Nat \ {0}
        BY <3>1, <4>1, EmptySeq, HeadTailProperties
      <4>3. 1 \in 1..Len(p) /\ p[1] \in Functor
        BY <3>1, <4>2
      <4>4. p[1][2] \in Conns /\ InQueue(p, p[1][2])
        BY <4>3, Functors DEF InQueue
      <4> QED BY <2>1, <4>4 DEF Alive
    <3> HIDE DEF b, p
    <3> QED BY <3>1, <3>2, <3>3, ConcatEqualIffEmpty
  <2> QED BY <2>2, <2>3
<1>5. Calm'
  BY <1>1, <1>2, <1>4 DEF Calm
<1> QED BY <1>3, <1>5, QuietFlow

-----------------------------------------------------------------------------
(***************************************************************************)
(* The invariant.                                                          *)
(***************************************************************************)

\* A loop has a batch of functors only while it runs them, and it holds their connections.
LEMMA BatchNext == TypeInv /\ BatchInv /\ [Next]_vars => BatchInv'
<1> SUFFICES ASSUME TypeInv, BatchInv, [Next]_vars PROVE BatchInv'
  OBVIOUS
<1>0. 0..numThreads_ \subseteq Loops
  BY LoopsExist DEF TypeInv
<1>1. CASE UNCHANGED <<batch, held, pc>>
  BY <1>1 DEF BatchInv
<1>2. ASSUME NEW l \in Loops, SwapFunctors(l) PROVE BatchInv'
  <2>1. /\ pc' = [pc EXCEPT ![l] = "functors"]
        /\ batch' = [batch EXCEPT ![l] = pending[l]]
        /\ held' = [held EXCEPT ![l] = {pending[l][k][2] : k \in 1..Len(pending[l])}]
    BY <1>2 DEF SwapFunctors
  <2>2. /\ pc'[l] = "functors" /\ batch'[l] = pending[l]
        /\ held'[l] = {pending[l][k][2] : k \in 1..Len(pending[l])}
        /\ \A k \in Loops : k # l => pc'[k] = pc[k] /\ batch'[k] = batch[k] /\ held'[k] = held[k]
    BY <2>1 DEF TypeInv
  <2> QED BY <2>2, Zenon DEF BatchInv
<1>3. ASSUME NEW l \in Loops, RunFunctor(l) PROVE BatchInv'
  <2>1. /\ pc[l] = "functors" /\ UNCHANGED <<pc, held>>
        /\ batch[l] # <<>> /\ batch' = [batch EXCEPT ![l] = Tail(batch[l])]
    BY <1>3 DEF RunFunctor
  <2>2. batch'[l] = Tail(batch[l]) /\ \A k \in Loops : k # l => batch'[k] = batch[k]
    BY <2>1 DEF TypeInv
  <2> DEFINE b == batch[l]
  <2>3. b \in Seq(Functor) /\ b # <<>>
    BY <2>1 DEF TypeInv
  <2>4. \A k \in 1..Len(b) : b[k][2] \in held[l]
    BY DEF BatchInv
  <2> HIDE DEF b
  <2>5. /\ Len(b) \in Nat \ {0} /\ Len(Tail(b)) = Len(b) - 1
        /\ \A k \in 1..Len(Tail(b)) : Tail(b)[k] = b[k + 1]
    BY <2>3, EmptySeq, HeadTailProperties
  <2>6. \A k \in 1..Len(Tail(b)) : k + 1 \in 1..Len(b)
    BY <2>5
  <2>7. \A k \in 1..Len(Tail(b)) : Tail(b)[k][2] \in held[l]
    BY <2>4, <2>5, <2>6, Zenon
  <2> QED BY <2>1, <2>2, <2>7, Zenon DEF BatchInv, b
<1>4. ASSUME NEW l \in Loops, FunctorsDone(l) PROVE BatchInv'
  <2>1. /\ batch[l] = <<>> /\ UNCHANGED batch
        /\ \A k \in Loops : k # l => pc'[k] = pc[k] /\ held'[k] = held[k]
    BY <1>4 DEF FunctorsDone, TypeInv
  <2>2. 1..Len(<<>>) = {}
    OBVIOUS
  <2> QED BY <2>1, <2>2, Zenon DEF BatchInv
<1>5. CASE Start \/ DestroyServer \/ DestroyMembers \/ DestroyDone \/ UNCHANGED vars
  BY <1>1, <1>5 DEF Start, DestroyServer, DestroyMembers, DestroyDone, loops, vars
<1>6. ASSUME NEW c \in Conns, NewConnection(c) \/ HandleClose(c) \/ DestroyNext(c) PROVE BatchInv'
  BY <1>1, <1>6 DEF NewConnection, HandleClose, DestroyNext
<1>7. ASSUME NEW l \in Loops, StopLoop(l) PROVE BatchInv'
  BY <1>1, <1>7 DEF StopLoop
<1>8. 1..numThreads_ \subseteq Loops
  BY <1>0, LoopsExist DEF TypeInv
<1> QED BY <1>0, <1>2, <1>3, <1>4, <1>5, <1>6, <1>7, <1>8 DEF Next, LoopStep, DestructorStep

\* Where connections live, and that loops stop only when the map is empty.
LEMMA PlacesNext == TypeInv /\ PlacesInv /\ [Next]_vars => PlacesInv'
<1> SUFFICES ASSUME TypeInv, PlacesInv, [Next]_vars PROVE PlacesInv'
  OBVIOUS
<1>0. /\ 0..numThreads_ \subseteq Loops /\ numThreads_ \in Nat
      /\ loopOf \in [Conns -> Loops] /\ quit_ \in [Loops -> BOOLEAN] /\ started_ \in Nat
  BY LoopsExist DEF TypeInv
\* A step that accepts nobody, adds nothing to the map and does not stop a loop.
<1> DEFINE Plain == /\ UNCHANGED <<numThreads_, loopOf, quit_, server, started_, listening_>>
                    /\ connections_' \subseteq connections_
<1>1. CASE Plain
  BY <1>1 DEF PlacesInv
<1>2. CASE Start
  <2>1. UNCHANGED <<numThreads_, loopOf, quit_, server, connections_>>
    BY <1>2 DEF Start, conn, loops
  <2>2. started_' = started_ + 1
    BY <1>2 DEF Start
  <2>3. started_' # 0
    BY <1>0, <2>2
  <2> QED BY <2>1, <2>3 DEF PlacesInv
<1>3. ASSUME NEW c \in Conns, NewConnection(c) PROVE PlacesInv'
  <2>1. /\ UNCHANGED <<numThreads_, quit_, server, started_, listening_>>
        /\ server = "up" /\ loopOf' = [loopOf EXCEPT ![c] = GetNextLoop.loop]
    BY <1>3 DEF NewConnection
  <2>2. numThreads_ = 0 => GetNextLoop.loop = Base
    BY NextLoop
  <2>3. numThreads_ = 0 => \A d \in Conns : loopOf'[d] = Base
    BY <1>0, <2>1, <2>2 DEF PlacesInv
  <2> QED BY <2>1, <2>3 DEF PlacesInv
<1>4. ASSUME NEW c \in Conns, HandleClose(c) PROVE Plain
  BY <1>4 DEF HandleClose, RemoveConnectionInLoop
<1>5. ASSUME NEW l \in Loops, SwapFunctors(l) \/ FunctorsDone(l) PROVE Plain
  BY <1>5 DEF SwapFunctors, FunctorsDone, conn
<1>6. ASSUME NEW l \in Loops, RunFunctor(l) PROVE Plain
  BY <1>6 DEF RunFunctor, RemoveConnectionInLoop
<1>7. CASE DestroyServer
  <2>1. /\ UNCHANGED <<numThreads_, started_, listening_, connections_, loopOf, quit_>>
        /\ server = "up" /\ server' = "dtor"
    BY <1>7 DEF DestroyServer, conn, loops
  <2> QED BY <2>1 DEF PlacesInv
<1>8. ASSUME NEW c \in Conns, DestroyNext(c) PROVE Plain
  BY <1>8 DEF DestroyNext
<1>9. CASE DestroyMembers
  <2>1. /\ UNCHANGED <<numThreads_, started_, listening_, connections_, loopOf, quit_>>
        /\ connections_ = {} /\ server' = "pool"
    BY <1>9 DEF DestroyMembers, conn, loops
  <2> QED BY <2>1 DEF PlacesInv
<1>10. ASSUME NEW l \in Loops, StopLoop(l) PROVE PlacesInv'
  <2>1. /\ UNCHANGED <<numThreads_, started_, listening_, connections_, loopOf, server>>
        /\ server = "pool"
    BY <1>10 DEF StopLoop, conn
  <2> QED BY <2>1 DEF PlacesInv
<1>11. CASE DestroyDone
  <2>1. /\ UNCHANGED <<numThreads_, started_, connections_, loopOf, quit_>>
        /\ server = "pool" /\ server' = "gone" /\ listening_' = FALSE
    BY <1>11 DEF DestroyDone, conn, loops
  <2> QED BY <2>1 DEF PlacesInv
<1>12. CASE UNCHANGED vars
  BY <1>12 DEF vars, PlacesInv
<1>13. 1..numThreads_ \subseteq Loops
  BY <1>0
<1> HIDE DEF Plain
<1> QED
  BY <1>0, <1>1, <1>2, <1>3, <1>4, <1>5, <1>6, <1>7, <1>8, <1>9, <1>10, <1>11, <1>12, <1>13
  DEF Next, LoopStep, DestructorStep

\* The steps of the server and of the destructor that deal with no connection.
LEMMA OtherFlow ==
    ASSUME TypeInv, PlacesInv, Flow, Orderly',
           Start \/ DestroyMembers \/ DestroyDone \/ (\E l \in Loops : StopLoop(l)) \/ UNCHANGED vars
    PROVE  Flow'
<1>1. /\ UNCHANGED <<pending, batch, conn, connections_, numThreads_>>
      /\ server' # "up" => server # "up"
  BY DEF Start, DestroyMembers, DestroyDone, StopLoop, vars, conn, loops
<1>2. asserted' = asserted
  BY DEF Start, DestroyMembers, DestroyDone, StopLoop, vars, Check, PlacesInv
<1>3. UNCHANGED Queue
  BY <1>1, QueueSteps
<1>4. Quiet
  BY <1>1, <1>2, <1>3 DEF Quiet, conn
<1>5. Calm'
  BY <1>1, <1>3 DEF Calm, Flow
<1> QED BY <1>4, <1>5, QuietFlow

\* Every step keeps all connections on their way, as long as the server is destroyed in
\* order.
LEMMA FlowNext == TypeInv /\ TypeInv' /\ FlowInv /\ [Next]_vars => FlowInv'
<1> SUFFICES ASSUME TypeInv, TypeInv', FlowInv, [Next]_vars PROVE FlowInv'
  OBVIOUS
<1>1. BatchInv /\ PlacesInv /\ BatchInv' /\ PlacesInv'
  BY BatchNext, PlacesNext DEF FlowInv
<1>2. 0..numThreads_ \subseteq Loops /\ 1..numThreads_ \subseteq Loops
  BY LoopsExist DEF TypeInv
<1>3. ASSUME Orderly' PROVE Flow'
  <2>1. Orderly
    BY <1>3 DEF Orderly, Next, Start, NewConnection, HandleClose, LoopStep, SwapFunctors, RunFunctor,
       FunctorsDone, DestroyServer, DestructorStep, DestroyNext, StopLoop, DestroyMembers,
       DestroyDone, vars
  <2>2. Flow
    BY <2>1 DEF FlowInv
  <2>3. ASSUME NEW c \in Conns, NewConnection(c) \/ HandleClose(c) \/ DestroyNext(c) PROVE Flow'
    BY <1>1, <2>2, <2>3, NewConnectionFlow, HandleCloseFlow, DestroyNextFlow
  <2>4. ASSUME NEW l \in Loops, LoopStep(l) PROVE Flow'
    <3>1. CASE SwapFunctors(l)
      <4>1. Quiet
        BY <1>1, <3>1, SwapQuiet
      <4>2. Calm'
        BY <2>2, <3>1, <4>1 DEF Calm, Flow, Quiet, SwapFunctors
      <4> QED BY <2>2, <4>1, <4>2, QuietFlow
    <3>2. CASE RunFunctor(l)
      BY <1>1, <2>2, <3>2, RunFunctorFlow
    <3>3. CASE FunctorsDone(l)
      BY <1>1, <2>2, <3>3, FunctorsDoneFlow
    <3> QED BY <2>4, <3>1, <3>2, <3>3 DEF LoopStep
  <2>5. CASE DestroyServer
    <3>1. DestroyedWith \subseteq {0}
      BY <1>3, <2>5 DEF Orderly, DestroyServer
    <3> QED BY <1>1, <2>2, <2>5, <3>1, DestroyServerFlow
  <2>6. CASE Start \/ DestroyMembers \/ DestroyDone \/ (\E l \in Loops : StopLoop(l)) \/ UNCHANGED vars
    BY <1>1, <1>3, <2>2, <2>6, OtherFlow
  <2> QED BY <1>2, <2>3, <2>4, <2>5, <2>6 DEF Next, DestructorStep
<1> QED BY <1>1, <1>3 DEF FlowInv

\* Each connection is on its way at all times, if the server is destroyed in order.
LEMMA FlowInvariant == Spec => []FlowInv
<1>1. Init => FlowInv
  <2> SUFFICES ASSUME Init PROVE FlowInv
    OBVIOUS
  <2>1. /\ \A l \in Loops : batch[l] = <<>> /\ pending[l] = <<>> /\ quit_[l] = FALSE
        /\ \A c \in Conns : state_[c] = "none" /\ loopOf[c] = Base
        /\ connections_ = {} /\ server = "up" /\ asserted = {} /\ listening_ = FALSE
    BY DEF Init
  <2>2. <<>> \o <<>> = <<>> /\ 1..Len(<<>>) = {}
    OBVIOUS
  <2>3. \A l \in Loops : Queue[l] = <<>>
    BY <2>1, <2>2, Zenon DEF Queue, Joined
  <2>4. \A l \in Loops : \A f : ~In(Queue[l], f)
    BY <2>2, <2>3, Zenon DEF In
  <2>5. ASSUME NEW c \in Conns PROVE Way(c)
    BY <2>1, <2>4 DEF Way, EstablishWay, DestroyWay, RemoveWay, MapWay
  <2>6. Flow
    BY <2>1, <2>5 DEF Flow, Calm
  <2>7. BatchInv
    BY <2>1, <2>2, Zenon DEF BatchInv
  <2>8. PlacesInv
    BY <2>1 DEF PlacesInv
  <2> QED BY <2>6, <2>7, <2>8 DEF FlowInv
<1> QED BY <1>1, FlowNext, TypeInvariant, PTL DEF Spec

-----------------------------------------------------------------------------
(***************************************************************************)
(* Names and the round robin.                                              *)
(***************************************************************************)

\* Names are given in order.
NamesInv ==
    /\ \A c \in Conns : name[c] < nextConnId_
    /\ \A c, d \in Conns : name[c] = name[d] /\ name[c] > 0 => c = d

\* Only connections that were accepted are in the map and in the queues.
Known == {c \in Conns : state_[c] # "none"}
KnownFunctor == {"established", "destroyed", "remove"} \X Known
KnownInv ==
    /\ connections_ \subseteq Known
    /\ batch \in [Loops -> Seq(KnownFunctor)]
    /\ pending \in [Loops -> Seq(KnownFunctor)]

\* The pool deals out its loops in turn: those before next_ have had one more.
Dealt(a) == \A l \in 1..numThreads_ : Load(l) = a + IF l <= next_ THEN 1 ELSE 0
DealtInv == \E a \in Nat : Dealt(a)

\* All steps but newConnection.
OtherStep ==
    \/ Start
    \/ \E c \in Conns : HandleClose(c)
    \/ \E l \in Loops : LoopStep(l)
    \/ DestroyServer
    \/ \E c \in Conns : DestroyNext(c)
    \/ \E l \in Loops : StopLoop(l)
    \/ DestroyMembers \/ DestroyDone
    \/ UNCHANGED vars

\* The steps of the server: a new connection, or another one.
LEMMA StepsAre ==
    ASSUME TypeInv, [Next]_vars
    PROVE  (\E c \in Conns : NewConnection(c)) \/ OtherStep
<1>1. 0..numThreads_ \subseteq Loops /\ 1..numThreads_ \subseteq Loops
  BY LoopsExist DEF TypeInv
<1> QED BY <1>1 DEF Next, DestructorStep, OtherStep

\* No other step makes a name, uses a loop of the pool or accepts a connection.
LEMMA OtherKeeps ==
    ASSUME TypeInv, KnownInv, OtherStep
    PROVE  /\ UNCHANGED <<name, nextConnId_, loopOf, next_, numThreads_>>
           /\ Known' = Known
<1>1. state_ \in [Conns -> {"none", "kConnecting", "kConnected", "kDisconnected"}]
  BY DEF TypeInv
<1> DEFINE Keeps == UNCHANGED <<name, nextConnId_, loopOf, next_, numThreads_>>
           Moves(c, to) == state_' = state_ \/ state_' = [state_ EXCEPT ![c] = to]
<1>2. ASSUME NEW c \in Known, NEW to \in {"kConnected", "kDisconnected"}, Moves(c, to)
      PROVE  Known' = Known
  BY <1>1, <1>2 DEF Known
<1>3. ASSUME UNCHANGED state_ PROVE Known' = Known
  BY <1>3 DEF Known
<1>4. CASE Start \/ DestroyServer \/ DestroyMembers \/ DestroyDone \/ (\E l \in Loops : StopLoop(l))
           \/ UNCHANGED vars
  BY <1>3, <1>4 DEF Start, DestroyServer, DestroyMembers, DestroyDone, StopLoop, vars, conn
<1>5. ASSUME NEW c \in Conns, HandleClose(c) PROVE Keeps /\ Known' = Known
  <2>1. Keeps /\ c \in Known /\ Moves(c, "kDisconnected")
    BY <1>5 DEF HandleClose, Known
  <2> QED BY <1>2, <2>1
<1>6. ASSUME NEW l \in Loops, SwapFunctors(l) \/ FunctorsDone(l) PROVE Keeps /\ Known' = Known
  BY <1>3, <1>6 DEF SwapFunctors, FunctorsDone, conn
<1>7. ASSUME NEW l \in Loops, RunFunctor(l) PROVE Keeps /\ Known' = Known
  <2>1. batch[l] # <<>> /\ batch[l] \in Seq(KnownFunctor)
    BY <1>7 DEF RunFunctor, KnownInv
  <2>2. Head(batch[l]) \in KnownFunctor
    BY <2>1, HeadTailProperties
  <2>3. PICK c \in Known : c = Head(batch[l])[2]
    BY <2>2 DEF KnownFunctor
  <2>4. Keeps /\ (Moves(c, "kConnected") \/ Moves(c, "kDisconnected"))
    BY <1>7, <2>3 DEF RunFunctor, Establish, DestroyConnection
  <2> QED BY <1>2, <2>4
<1>8. ASSUME NEW c \in Conns, DestroyNext(c) PROVE Keeps /\ Known' = Known
  <2>1. Keeps /\ c \in Known /\ Moves(c, "kDisconnected")
    BY <1>8 DEF DestroyNext, DestroyConnection, KnownInv
  <2> QED BY <1>2, <2>1
<1> QED BY <1>4, <1>5, <1>6, <1>7, <1>8 DEF OtherStep, LoopStep

\* newConnection deals the next loop to the next name.
LEMMA NewKeeps ==
    ASSUME TypeInv, NEW c \in Conns, NewConnection(c)
    PROVE  /\ c \notin Known /\ Known' = Known \cup {c}
           /\ \A d \in Known : loopOf'[d] = loopOf[d]
           /\ loopOf'[c] = GetNextLoop.loop /\ next_' = GetNextLoop.next
           /\ UNCHANGED numThreads_
<1>1. /\ state_ \in [Conns -> {"none", "kConnecting", "kConnected", "kDisconnected"}]
      /\ loopOf \in [Conns -> Loops]
  BY DEF TypeInv
<1>2. /\ state_[c] = "none" /\ next_' = GetNextLoop.next /\ UNCHANGED numThreads_
      /\ loopOf' = [loopOf EXCEPT ![c] = GetNextLoop.loop]
      /\ state_' \in {[state_ EXCEPT ![c] = "kConnected"], [state_ EXCEPT ![c] = "kConnecting"]}
  BY DEF NewConnection
<1>3. \A d \in Conns : state_'[d] # "none" <=> state_[d] # "none" \/ d = c
  BY <1>1, <1>2
<1>4. Known' = Known \cup {c} /\ c \notin Known
  BY <1>2, <1>3 DEF Known
<1>5. \A d \in Known : loopOf'[d] = loopOf[d]
  BY <1>1, <1>2, <1>4 DEF Known
<1> QED BY <1>1, <1>2, <1>4, <1>5

\* What queueInLoop and the end of a batch do to a queue of functors.
LEMMA SeqSteps ==
    ASSUME NEW S, NEW T, S \subseteq T, NEW q \in [Loops -> Seq(S)], NEW l \in Loops
    PROVE  /\ q \in [Loops -> Seq(T)]
           /\ \A f \in T : [q EXCEPT ![l] = Append(@, f)] \in [Loops -> Seq(T)]
           /\ \A s \in Seq(T) : [q EXCEPT ![l] = s] \in [Loops -> Seq(T)]
           /\ q[l] # <<>> => [q EXCEPT ![l] = Tail(@)] \in [Loops -> Seq(T)]
<1>1. \A s \in Seq(S) : s \in Seq(T)
  OBVIOUS
<1>2. q \in [Loops -> Seq(T)]
  BY <1>1
<1>3. \A f \in T : Append(q[l], f) \in Seq(T)
  BY <1>2, AppendProperties
<1>4. q[l] # <<>> => Tail(q[l]) \in Seq(T)
  BY <1>2, HeadTailProperties
<1> QED BY <1>2, <1>3, <1>4

\* Functors and members mention only connections that newConnection made.
LEMMA KnownNext == TypeInv /\ KnownInv /\ [Next]_vars => KnownInv'
<1> SUFFICES ASSUME TypeInv, KnownInv, [Next]_vars PROVE KnownInv'
  OBVIOUS
<1> DEFINE Q == [Loops -> Seq(KnownFunctor)]
           Q1 == [Loops -> Seq(KnownFunctor')]
<1>0. Base \in Loops /\ \A c \in Conns : loopOf[c] \in Loops
  BY LoopsExist DEF TypeInv
<1>1. KnownFunctor \subseteq KnownFunctor' /\ Known \subseteq Known' /\ Known' \subseteq Conns
  <2>1. Known \subseteq Known' /\ Known' \subseteq Conns
    BY StepsAre, OtherKeeps, NewKeeps DEF Known
  <2> QED BY <2>1 DEF KnownFunctor
<1>2. batch \in Q /\ pending \in Q /\ connections_ \subseteq Known
  BY DEF KnownInv
<1>3. batch \in Q1 /\ pending \in Q1 /\ connections_ \subseteq Known'
  BY <1>0, <1>1, <1>2, SeqSteps
<1>4. ASSUME NEW c \in Conns, NewConnection(c) PROVE KnownInv'
  <2>1. c \in Known'
    BY <1>4, NewKeeps
  <2>2. <<"established", c>> \in KnownFunctor'
    BY <2>1 DEF KnownFunctor
  <2>3. GetNextLoop.loop \in Loops
    BY NextLoop
  <2>4. [pending EXCEPT ![GetNextLoop.loop] = Append(@, <<"established", c>>)] \in Q1
    BY <1>1, <1>2, <2>2, <2>3, SeqSteps
  <2>5. /\ UNCHANGED batch /\ connections_' = connections_ \cup {c}
        /\ pending' \in {pending, [pending EXCEPT ![GetNextLoop.loop] = Append(@, <<"established", c>>)]}
    BY <1>4 DEF NewConnection, QueueInLoop
  <2> QED BY <1>3, <2>1, <2>4, <2>5 DEF KnownInv
<1>5. ASSUME NEW c \in Known, NEW q \in Q, RemoveConnectionInLoop(c, q)
      PROVE  pending' \in Q1 /\ connections_' \subseteq connections_
  <2>1. <<"destroyed", c>> \in KnownFunctor' /\ loopOf[c] \in Loops
    BY <1>0, <1>1 DEF KnownFunctor, Known
  <2>2. [q EXCEPT ![loopOf[c]] = Append(@, <<"destroyed", c>>)] \in Q1
    BY <1>1, <2>1, SeqSteps
  <2> QED BY <1>5, <2>2 DEF RemoveConnectionInLoop
<1>6. ASSUME NEW c \in Conns, HandleClose(c) PROVE KnownInv'
  <2>1. c \in Known
    BY <1>6 DEF HandleClose, Known
  <2>2. <<"remove", c>> \in KnownFunctor'
    BY <1>1, <2>1 DEF KnownFunctor
  <2>3. [pending EXCEPT ![Base] = Append(@, <<"remove", c>>)] \in Q1
    BY <1>0, <1>1, <1>2, <2>2, SeqSteps
  <2>4. /\ UNCHANGED batch
        /\ \/ RemoveConnectionInLoop(c, pending)
           \/ /\ pending' = [pending EXCEPT ![Base] = Append(@, <<"remove", c>>)]
              /\ connections_' = connections_
    BY <1>6 DEF HandleClose, QueueInLoop
  <2>5. pending' \in Q1 /\ connections_' \subseteq connections_
    BY <1>2, <1>5, <2>1, <2>3, <2>4
  <2> QED BY <1>3, <2>4, <2>5 DEF KnownInv
<1>7. ASSUME NEW l \in Loops, LoopStep(l) PROVE KnownInv'
  <2>1. <<>> \in Seq(KnownFunctor')
    BY EmptySeq
  <2>2. [pending EXCEPT ![l] = <<>>] \in Q1
    BY <1>1, <1>2, <2>1, SeqSteps
  <2>3. CASE SwapFunctors(l)
    <3>1. pending[l] \in Seq(KnownFunctor')
      BY <1>3
    <3>2. [batch EXCEPT ![l] = pending[l]] \in Q1
      BY <1>1, <1>2, <3>1, SeqSteps
    <3>3. /\ batch' = [batch EXCEPT ![l] = pending[l]] /\ pending' = [pending EXCEPT ![l] = <<>>]
          /\ UNCHANGED connections_
      BY <2>3 DEF SwapFunctors
    <3> QED BY <1>3, <2>2, <3>2, <3>3 DEF KnownInv
  <2>4. CASE RunFunctor(l)
    <3>1. /\ batch[l] # <<>> /\ batch[l] \in Seq(KnownFunctor)
          /\ batch' = [batch EXCEPT ![l] = Tail(@)]
      BY <2>4 DEF RunFunctor, KnownInv
    <3>2. Head(batch[l]) \in KnownFunctor
      BY <3>1, HeadTailProperties
    <3>3. PICK c \in Known : c = Head(batch[l])[2]
      BY <3>2 DEF KnownFunctor
    <3>4. batch' \in Q1
      BY <1>1, <1>2, <3>1, SeqSteps
    <3>5. RemoveConnectionInLoop(c, pending) \/ UNCHANGED <<connections_, pending>>
      BY <2>4, <3>3 DEF RunFunctor
    <3>6. pending' \in Q1 /\ connections_' \subseteq connections_
      BY <1>2, <1>3, <1>5, <3>5
    <3> QED BY <1>3, <3>4, <3>6 DEF KnownInv
  <2>5. CASE FunctorsDone(l)
    <3>1. /\ UNCHANGED <<batch, connections_>>
          /\ pending' \in {pending, [pending EXCEPT ![l] = <<>>]}
      BY <2>5 DEF FunctorsDone
    <3> QED BY <1>3, <2>2, <3>1 DEF KnownInv
  <2> QED BY <1>7, <2>3, <2>4, <2>5 DEF LoopStep
<1>8. ASSUME NEW c \in Conns, DestroyNext(c) PROVE KnownInv'
  <2>1. c \in Known
    BY <1>2, <1>8 DEF DestroyNext
  <2>2. <<"destroyed", c>> \in KnownFunctor' /\ loopOf[c] \in Loops
    BY <1>0, <1>1, <2>1 DEF KnownFunctor
  <2>3. [pending EXCEPT ![loopOf[c]] = Append(@, <<"destroyed", c>>)] \in Q1
    BY <1>1, <1>2, <2>2, SeqSteps
  <2>4. /\ UNCHANGED batch /\ connections_' \subseteq connections_
        /\ pending' \in {pending, [pending EXCEPT ![loopOf[c]] = Append(@, <<"destroyed", c>>)]}
    BY <1>8 DEF DestroyNext, QueueInLoop
  <2> QED BY <1>3, <2>3, <2>4 DEF KnownInv
<1>9. CASE UNCHANGED <<batch, pending, connections_>>
  BY <1>3, <1>9 DEF KnownInv
<1>10. CASE Start \/ DestroyServer \/ DestroyMembers \/ DestroyDone \/ (\E l \in Loops : StopLoop(l))
           \/ UNCHANGED vars
  BY <1>9, <1>10 DEF Start, DestroyServer, DestroyMembers, DestroyDone, StopLoop, vars, loops
<1> QED BY <1>4, <1>6, <1>7, <1>8, <1>10, StepsAre DEF OtherStep

\* nextConnId_ is beyond all names, which differ.
LEMMA NamesNext == TypeInv /\ KnownInv /\ NamesInv /\ [Next]_vars => NamesInv'
<1> SUFFICES ASSUME TypeInv, KnownInv, NamesInv, [Next]_vars PROVE NamesInv'
  OBVIOUS
<1>1. ASSUME NEW c \in Conns, NewConnection(c) PROVE NamesInv'
  <2>1. name' = [name EXCEPT ![c] = nextConnId_] /\ nextConnId_' = nextConnId_ + 1
    BY <1>1 DEF NewConnection
  <2>2. name \in [Conns -> Nat] /\ nextConnId_ \in Nat
    BY DEF TypeInv
  <2>3. name'[c] = nextConnId_ /\ \A d \in Conns : d # c => name'[d] = name[d] /\ name[d] \in Nat
    BY <2>1, <2>2
  <2> QED BY <2>1, <2>2, <2>3 DEF NamesInv
<1>2. CASE OtherStep
  BY <1>2, OtherKeeps DEF NamesInv
<1> QED BY <1>1, <1>2, StepsAre

\* The connections of a loop; Load counts them.
OnLoop(l) == {c \in Known : loopOf[c] = l}

\* Load is the number of connections that were given to a loop.
LEMMA LoadCounts ==
    /\ \A l : Load(l) = Cardinality(OnLoop(l))
    /\ \A l : IsFiniteSet(OnLoop(l)) /\ Cardinality(OnLoop(l)) \in Nat
<1>1. \A l : OnLoop(l) = {c \in Conns : state_[c] # "none" /\ loopOf[c] = l}
  BY DEF OnLoop, Known
<1>2. \A l : Load(l) = Cardinality(OnLoop(l))
  BY <1>1, Zenon DEF Load
<1>3. ASSUME NEW l PROVE IsFiniteSet(OnLoop(l)) /\ Cardinality(OnLoop(l)) \in Nat
  <2>1. OnLoop(l) \subseteq Conns
    BY <1>1
  <2>2. IsFiniteSet(OnLoop(l))
    BY <2>1, ConnsAssumption, FS_Subset
  <2> QED BY <2>2, FS_CardinalityType
<1> QED BY <1>2, <1>3

\* getNextLoop deals the connections to the loops in turn.
LEMMA DealtNext == TypeInv /\ KnownInv /\ DealtInv /\ [Next]_vars => DealtInv'
<1> SUFFICES ASSUME TypeInv, KnownInv, DealtInv, [Next]_vars PROVE DealtInv'
  OBVIOUS
<1>0. PICK a \in Nat : Dealt(a)
  BY DEF DealtInv
<1>1. ASSUME NEW c \in Conns, NewConnection(c) PROVE DealtInv'
  <2> DEFINE m == GetNextLoop.loop
             C(l) == Cardinality(OnLoop(l))
             D(l) == Cardinality(OnLoop(l)')
  <2>1. /\ c \notin Known /\ Known' = Known \cup {c}
        /\ \A d \in Known : loopOf'[d] = loopOf[d]
        /\ loopOf'[c] = m /\ next_' = GetNextLoop.next
        /\ UNCHANGED numThreads_
    BY <1>1, NewKeeps
  <2>2. \A l : OnLoop(l)' = IF l = m THEN OnLoop(l) \cup {c} ELSE OnLoop(l)
    BY <2>1 DEF OnLoop
  <2>3. \A l : c \notin OnLoop(l)
    BY <2>1 DEF OnLoop
  <2>4. \A l : IsFiniteSet(OnLoop(l)) /\ C(l) \in Nat /\ Load(l) = C(l)
    BY LoadCounts
  <2>5. \A l : D(l) = IF l = m THEN C(l) + 1 ELSE C(l)
    <3>1. ASSUME NEW l PROVE Cardinality(OnLoop(l) \cup {c}) = C(l) + 1
      BY <2>3, <2>4, FS_AddElement
    <3> QED BY <2>2, <3>1
  <2>6. \A l : Load(l)' = D(l)
    <3>1. \A l : OnLoop(l)' = {d \in Conns : state_'[d] # "none" /\ loopOf'[d] = l}
      BY DEF OnLoop, Known
    <3> QED BY <3>1, Zenon DEF Load
  <2>7. /\ numThreads_ \in Nat /\ next_ \in Nat
        /\ numThreads_ > 0 => /\ m = next_ + 1 /\ next_ < numThreads_
                              /\ next_' = IF next_ + 1 = numThreads_ THEN 0 ELSE next_ + 1
    BY <2>1, NextLoop, LoopsExist DEF TypeInv
  <2>8. \A l \in 1..numThreads_ : C(l) = a + IF l <= next_ THEN 1 ELSE 0
    BY <1>0, <2>4 DEF Dealt
  <2> HIDE DEF m, C, D
  <2>9. CASE numThreads_ > 0 /\ next_ + 1 = numThreads_
    <3>1. \A l \in 1..numThreads_ : D(l) = (a + 1) + IF l <= next_' THEN 1 ELSE 0
      BY <2>5, <2>7, <2>8, <2>9
    <3>2. Dealt(a + 1)'
      BY <2>1, <2>6, <3>1 DEF Dealt
    <3>3. a + 1 \in Nat
      OBVIOUS
    <3> QED BY <3>2, <3>3 DEF DealtInv
  <2>10. CASE numThreads_ > 0 /\ next_ + 1 # numThreads_
    <3>1. \A l \in 1..numThreads_ : D(l) = a + IF l <= next_' THEN 1 ELSE 0
      BY <2>5, <2>7, <2>8, <2>10
    <3>2. Dealt(a)'
      BY <2>1, <2>6, <3>1 DEF Dealt
    <3> QED BY <3>2 DEF DealtInv
  <2>11. CASE numThreads_ = 0
    <3>1. 1..numThreads_' = {}
      BY <2>1, <2>11
    <3> QED BY <3>1 DEF Dealt, DealtInv
  <2> QED BY <2>7, <2>9, <2>10, <2>11
<1>2. CASE OtherStep
  <2>1. Known' = Known /\ UNCHANGED <<loopOf, next_, numThreads_>>
    BY <1>2, OtherKeeps
  <2>2. \A l : {c \in Conns : state_'[c] # "none" /\ loopOf'[c] = l}
                   = {c \in Conns : state_[c] # "none" /\ loopOf[c] = l}
    BY <2>1 DEF Known
  <2>3. \A l : Load(l)' = Load(l)
    BY <2>2, Zenon DEF Load
  <2>4. Dealt(a)'
    BY <1>0, <2>1, <2>3 DEF Dealt
  <2> QED BY <2>4 DEF DealtInv
<1> QED BY <1>1, <1>2, StepsAre

\* Connections are known, named and dealt as newConnection does it, at all times.
LEMMA NamesInvariant == Spec => [](KnownInv /\ NamesInv /\ DealtInv)
<1>1. Init => KnownInv /\ NamesInv /\ DealtInv
  <2> SUFFICES ASSUME Init PROVE KnownInv /\ NamesInv /\ DealtInv
    OBVIOUS
  <2>1. KnownInv
    <3>1. <<>> \in Seq(KnownFunctor)
      BY EmptySeq
    <3> QED BY <3>1 DEF Init, KnownInv
  <2>2. NamesInv
    BY DEF Init, NamesInv
  <2>3. \A l : {c \in Conns : state_[c] # "none" /\ loopOf[c] = l} = {}
    BY DEF Init
  <2>4. \A l : Load(l) = 0
    BY <2>3, FS_EmptySet DEF Load
  <2>5. Dealt(0)
    BY <2>4 DEF Dealt, Init
  <2> QED BY <2>1, <2>2, <2>5 DEF DealtInv
<1>2. TypeInv /\ KnownInv /\ NamesInv /\ DealtInv /\ [Next]_vars => (KnownInv /\ NamesInv /\ DealtInv)'
  BY KnownNext, NamesNext, DealtNext
<1> QED BY <1>1, <1>2, TypeInvariant, PTL DEF Spec

-----------------------------------------------------------------------------
(***************************************************************************)
(* The life of a connection: who holds it, and when it is let go.          *)
(***************************************************************************)

\* Only a batch that runs holds connections, only loops of a pool are stopped, and no
\* connection waits to be established in the base loop.
HoldInv ==
    /\ \A l \in Loops : pc[l] # "functors" => held[l] = {}
    /\ \A l \in Loops : quit_[l] => numThreads_ > 0
    /\ \A c \in Conns : state_[c] = "kConnecting" => loopOf[c] # Base

\* A closed connection with its channel in the loop has connectDestroyed before it: it is
\* in the map, so that its removal is on the way, or the call is queued.
Leaving(c) ==
    state_[c] = "kDisconnected" /\ addedToLoop_[c] =>
        c \in connections_ \/ \E l \in Loops : In(Queue[l], Of("destroyed", c))

EndInv == HoldInv /\ \A c \in Conns : Leaving(c)

\* What a connection is, if all of this holds: it dies only when it is out of its loop.
LifeIs(c) ==
    /\ state_[c] = "none" => Life(c) = "none"
    /\ state_[c] = "kConnecting" => Life(c) = "connecting"
    /\ state_[c] = "kConnected" => Life(c) = "up"
    /\ state_[c] = "kDisconnected" /\ addedToLoop_[c] => Life(c) = "closed"
    /\ state_[c] = "kDisconnected" /\ ~addedToLoop_[c] /\ Alive(c) => Life(c) = "removed"
    /\ state_[c] = "kDisconnected" /\ ~addedToLoop_[c] /\ ~Alive(c) => Life(c) = "destroyed"

\* What is in a queue that was put together of two.
LEMMA InConcat ==
    ASSUME NEW S, NEW s \in Seq(S), NEW t \in Seq(S), NEW f
    PROVE  In(s \o t, f) <=> In(s, f) \/ In(t, f)
<1>1. /\ Len(s \o t) = Len(s) + Len(t) /\ Len(s) \in Nat /\ Len(t) \in Nat
      /\ \A i \in 1..(Len(s) + Len(t)) :
             (s \o t)[i] = IF i <= Len(s) THEN s[i] ELSE t[i - Len(s)]
  BY ConcatProperties
<1>2. ASSUME In(s \o t, f) PROVE In(s, f) \/ In(t, f)
  <2>1. PICK i \in 1..(Len(s) + Len(t)) : (s \o t)[i] = f
    BY <1>1, <1>2 DEF In
  <2>2. CASE i <= Len(s)
    BY <1>1, <2>1, <2>2 DEF In
  <2>3. CASE i > Len(s)
    <3>1. i - Len(s) \in 1..Len(t) /\ t[i - Len(s)] = f
      BY <1>1, <2>1, <2>3
    <3> QED BY <3>1 DEF In
  <2> QED BY <1>1, <2>1, <2>2, <2>3
<1>3. ASSUME In(s, f) PROVE In(s \o t, f)
  <2>1. PICK i \in 1..Len(s) : s[i] = f
    BY <1>3 DEF In
  <2>2. i \in 1..(Len(s) + Len(t)) /\ (s \o t)[i] = f
    BY <1>1, <2>1
  <2> QED BY <1>1, <2>2 DEF In
<1>4. ASSUME In(t, f) PROVE In(s \o t, f)
  <2>1. PICK i \in 1..Len(t) : t[i] = f
    BY <1>4 DEF In
  <2>2. Len(s) + i \in 1..(Len(s) + Len(t)) /\ (s \o t)[Len(s) + i] = f
    BY <1>1, <2>1
  <2> QED BY <1>1, <2>2 DEF In
<1> QED BY <1>2, <1>3, <1>4

\* A functor that is queued holds its connection.
LEMMA QueueAlive ==
    ASSUME TypeInv, BatchInv, NEW l \in Loops, NEW kind \in Kinds, NEW c \in Conns,
           In(Queue[l], Of(kind, c))
    PROVE  Alive(c)
<1>1. Queue[l] = batch[l] \o pending[l] /\ batch[l] \in Seq(Functor) /\ pending[l] \in Seq(Functor)
  BY QueueType, JoinedType DEF Queue
<1>2. In(batch[l], Of(kind, c)) \/ In(pending[l], Of(kind, c))
  BY <1>1, InConcat
<1>3. Of(kind, c)[2] = c
  BY DEF Of
<1>4. CASE In(batch[l], Of(kind, c))
  <2>1. PICK i \in 1..Len(batch[l]) : batch[l][i] = Of(kind, c)
    BY <1>4 DEF In
  <2>2. c \in held[l]
    BY <1>3, <2>1 DEF BatchInv
  <2> QED BY <2>2 DEF Alive
<1>5. CASE In(pending[l], Of(kind, c))
  BY <1>3, <1>5 DEF In, Alive, InQueue
<1> QED BY <1>2, <1>4, <1>5

\* Nobody lets go of a connection that is open or in its loop.
LEMMA DeadIsRemoved ==
    ASSUME TypeInv, BatchInv, Flow, EndInv, NEW c \in Conns, ~Alive(c)
    PROVE  state_[c] = "none" \/ (state_[c] = "kDisconnected" /\ ~addedToLoop_[c])
<1>1. c \notin connections_
  BY DEF Alive
<1>2. state_[c] \in {"none", "kDisconnected"}
  <2>1. MapWay(c) /\ state_[c] \in {"none", "kConnecting", "kConnected", "kDisconnected"}
    BY DEF Flow, Way, TypeInv
  <2> QED BY <1>1, <2>1 DEF MapWay
<1>3. ASSUME NEW l \in Loops PROVE ~In(Queue[l], Of("destroyed", c))
  <2>1. "destroyed" \in Kinds
    BY DEF Kinds
  <2> QED BY <2>1, QueueAlive
<1>4. Leaving(c)
  BY DEF EndInv
<1> QED BY <1>1, <1>2, <1>3, <1>4 DEF Leaving

\* So the life of each connection is what its state says.
LEMMA LivesAre ==
    TypeInv /\ BatchInv /\ Flow /\ EndInv => \A c \in Conns : LifeIs(c)
<1> SUFFICES ASSUME TypeInv, BatchInv, Flow, EndInv, NEW c \in Conns PROVE LifeIs(c)
  OBVIOUS
<1>1. CASE Alive(c)
  BY <1>1 DEF LifeIs, Life
<1>2. CASE ~Alive(c)
  BY <1>2, DeadIsRemoved DEF LifeIs, Life
<1> QED BY <1>1, <1>2

\* Queueing a functor changes nothing for the other connections.
LEMMA PushAlive ==
    ASSUME TypeInv, UNCHANGED held, NEW l \in Loops, NEW kind \in Kinds, NEW c \in Conns,
           pending' = [pending EXCEPT ![l] = Append(@, Of(kind, c))]
    PROVE  /\ Alive(c)'
           /\ \A d \in Conns : d # c /\ (d \in connections_' <=> d \in connections_)
                  => (Alive(d)' <=> Alive(d))
<1>1. /\ pending \in [Loops -> Seq(Functor)] /\ Of(kind, c) \in Functor /\ Of(kind, c)[2] = c
  BY Functors DEF TypeInv, Of
<1>2. /\ Append(pending[l], Of(kind, c)) \in Seq(Functor)
      /\ Len(Append(pending[l], Of(kind, c))) = Len(pending[l]) + 1 /\ Len(pending[l]) \in Nat
      /\ \A i \in 1..Len(pending[l]) : Append(pending[l], Of(kind, c))[i] = pending[l][i]
      /\ Append(pending[l], Of(kind, c))[Len(pending[l]) + 1] = Of(kind, c)
  BY <1>1, AppendProperties
<1>3. /\ pending'[l] = Append(pending[l], Of(kind, c))
      /\ \A k \in Loops : k # l => pending'[k] = pending[k]
  BY <1>1
<1>4. \A d \in Conns : InQueue(pending'[l], d) <=> InQueue(pending[l], d) \/ d = c
  <2>1. \A i \in 1..(Len(pending[l]) + 1) : i \in 1..Len(pending[l]) \/ i = Len(pending[l]) + 1
    BY <1>2
  <2>2. /\ Len(pending[l]) + 1 \in 1..(Len(pending[l]) + 1)
        /\ \A i \in 1..Len(pending[l]) : i \in 1..(Len(pending[l]) + 1)
    BY <1>2
  <2> QED BY <1>1, <1>2, <1>3, <2>1, <2>2, Zenon DEF InQueue
<1>5. Alive(c)'
  BY <1>4 DEF Alive
<1>6. ASSUME NEW d \in Conns, d # c, d \in connections_' <=> d \in connections_
      PROVE  Alive(d)' <=> Alive(d)
  <2>1. \A k \in Loops : InQueue(pending'[k], d) <=> InQueue(pending[k], d)
    BY <1>3, <1>4, <1>6
  <2> QED BY <1>6, <2>1 DEF Alive
<1> QED BY <1>5, <1>6

\* Nor does a step that leaves the queues alone.
LEMMA StillAlive ==
    ASSUME UNCHANGED <<held, pending>>, NEW d, d \in connections_' <=> d \in connections_
    PROVE  Alive(d)' <=> Alive(d)
BY DEF Alive

\* A step that does not touch a connection leaves it where it was.
LEMMA AsideLeaving ==
    ASSUME NEW d \in Conns, Leaving(d), state_'[d] = state_[d], addedToLoop_'[d] = addedToLoop_[d],
           d \in connections_ => d \in connections_',
           \A k \in Loops : In(Queue[k], Of("destroyed", d)) => In(Queue'[k], Of("destroyed", d))
    PROVE  Leaving(d)'
BY DEF Leaving

\* The next functor of a batch is of a kind and for a connection; q1 are the queues between
\* taking it and what it queues itself.
Runs(l, kind, c, q1) ==
    /\ Head(batch[l]) = Of(kind, c)
    /\ Popped(Queue, q1, l, kind, c)
    /\ \/ kind = "established" /\ Establish(c) /\ Queue' = q1
          /\ UNCHANGED <<connections_, pending>>
       \/ kind = "destroyed" /\ DestroyConnection(c) /\ Queue' = q1
          /\ UNCHANGED <<connections_, pending, asserted>>
       \/ kind = "remove" /\ RemoveConnectionInLoop(c, pending)
          /\ Pushed(q1, Queue', loopOf[c], "destroyed", c)
          /\ UNCHANGED <<state_, addedToLoop_>>

\* What a functor does, with the queues before and after.
LEMMA RunIs ==
    ASSUME TypeInv, NEW l \in Loops, RunFunctor(l)
    PROVE  \E kind \in Kinds, c \in Conns, q1 \in Queued : Runs(l, kind, c, q1)
<1>0. PICK q1 : q1 = Joined(batch', pending)
  OBVIOUS
<1>1. batch[l] # <<>> /\ batch' = [batch EXCEPT ![l] = Tail(@)]
  BY DEF RunFunctor
<1>2. /\ batch' \in Queued /\ Head(batch[l]) \in Functor
      /\ \A k \in Kinds, d \in Conns : Head(batch[l]) = Of(k, d) => Popped(Queue, q1, l, k, d)
  BY <1>0, <1>1, RunPops
<1>3. PICK kind \in Kinds, c \in Conns : /\ Head(batch[l]) = Of(kind, c)
                                         /\ kind = Head(batch[l])[1] /\ c = Head(batch[l])[2]
  BY <1>2, Functors
<1>4. Popped(Queue, q1, l, kind, c)
  BY <1>2, <1>3
<1>5. \/ kind = "established" /\ Establish(c) /\ UNCHANGED <<connections_, pending>>
      \/ kind = "destroyed" /\ DestroyConnection(c) /\ UNCHANGED <<connections_, pending, asserted>>
      \/ kind = "remove" /\ RemoveConnectionInLoop(c, pending) /\ UNCHANGED <<state_, addedToLoop_>>
  BY <1>3 DEF RunFunctor
<1>6. Queue' = Joined(batch', pending')
  BY DEF Queue
<1>7. (UNCHANGED pending => Queue' = q1) /\ q1 \in Queued
  BY <1>0, <1>2, <1>6, QueueType, JoinedType
<1>8. ASSUME RemoveConnectionInLoop(c, pending) PROVE Pushed(q1, Queue', loopOf[c], "destroyed", c)
  <2>1. pending' = [pending EXCEPT ![loopOf[c]] = Append(@, Of("destroyed", c))]
    BY <1>8 DEF RemoveConnectionInLoop, Of
  <2>2. loopOf[c] \in Loops /\ "destroyed" \in Kinds
    BY <1>3 DEF TypeInv, Kinds
  <2>3. Pushed(Joined(batch', pending), Joined(batch', pending'), loopOf[c], "destroyed", c)
    BY <1>2, <1>3, <2>1, <2>2, QueueType, PushedOn
  <2> QED BY <1>0, <1>6, <2>3
<1>9. Runs(l, kind, c, q1)
  BY <1>3, <1>4, <1>5, <1>7, <1>8 DEF Runs
<1> QED BY <1>7, <1>9

\* A loop that ends has nothing queued: the functors that ~EventLoop destroys are none.
LEMMA NothingDropped ==
    ASSUME TypeInv, PlacesInv, Calm, HoldInv, NEW l \in Loops, FunctorsDone(l)
    PROVE  UNCHANGED pending
<1>1. CASE ~quit_[l]
  BY <1>1 DEF FunctorsDone
<1>2. CASE quit_[l]
  <2>1. Queue[l] = <<>>
    BY <1>2 DEF PlacesInv, HoldInv, Calm
  <2>2. Queue[l] = batch[l] \o pending[l] /\ batch[l] \in Seq(Functor) /\ pending[l] \in Seq(Functor)
    BY QueueType, JoinedType DEF Queue
  <2>3. pending[l] = <<>>
    <3>1. batch[l] \o pending[l] = <<>> <=> batch[l] = <<>> /\ pending[l] = <<>>
      BY <2>2, ConcatEqualIffEmpty
    <3> QED BY <2>1, <2>2, <3>1
  <2>4. pending' = [pending EXCEPT ![l] = <<>>] /\ pending \in [Loops -> Seq(Functor)]
    BY <1>2 DEF FunctorsDone, TypeInv
  <2> QED BY <2>3, <2>4
<1> QED BY <1>1, <1>2

\* Every step keeps what is said of batches, of loops that stop and of the base loop.
LEMMA HoldNext == TypeInv /\ KnownInv /\ HoldInv /\ [Next]_vars => HoldInv'
<1> SUFFICES ASSUME TypeInv, KnownInv, HoldInv, [Next]_vars PROVE HoldInv'
  OBVIOUS
<1>0. /\ state_ \in [Conns -> {"none", "kConnecting", "kConnected", "kDisconnected"}]
      /\ loopOf \in [Conns -> Loops] /\ held \in [Loops -> SUBSET Conns]
      /\ pc \in [Loops -> {"poll", "functors", "exited"}] /\ quit_ \in [Loops -> BOOLEAN]
      /\ numThreads_ \in Nat /\ 1..numThreads_ \subseteq Loops
  BY LoopsExist DEF TypeInv
<1>1. /\ \A l \in Loops : pc'[l] # "functors" => held'[l] = {}
  <2>1. CASE UNCHANGED <<pc, held>>
    BY <2>1 DEF HoldInv
  <2>2. ASSUME NEW l \in Loops, SwapFunctors(l) \/ FunctorsDone(l)
        PROVE  \A k \in Loops : pc'[k] # "functors" => held'[k] = {}
    BY <1>0, <2>2 DEF HoldInv, SwapFunctors, FunctorsDone
  <2>3. UNCHANGED <<pc, held>> \/ \E l \in Loops : SwapFunctors(l) \/ FunctorsDone(l)
    BY StepsAre DEF OtherStep, LoopStep, Start, NewConnection, HandleClose, RunFunctor, DestroyServer,
       DestroyNext, StopLoop, DestroyMembers, DestroyDone, vars, loops
  <2> QED BY <2>1, <2>2, <2>3
<1>2. \A l \in Loops : quit_'[l] => numThreads_' > 0
  <2>1. CASE UNCHANGED <<quit_, numThreads_>>
    BY <2>1 DEF HoldInv
  <2>2. ASSUME NEW l \in 1..numThreads_, StopLoop(l) PROVE numThreads_' > 0
    BY <1>0, <2>2 DEF StopLoop
  <2>3. UNCHANGED <<quit_, numThreads_>> \/ \E l \in 1..numThreads_ : StopLoop(l)
    BY DEF Next, DestructorStep, LoopStep, Start, NewConnection, HandleClose, SwapFunctors, RunFunctor,
       FunctorsDone, DestroyServer, DestroyNext, DestroyMembers, DestroyDone, vars, loops
  <2> QED BY <2>1, <2>2, <2>3
<1>3. \A c \in Conns : state_'[c] = "kConnecting" => loopOf'[c] # Base
  <2>1. ASSUME NEW c \in Conns, NewConnection(c)
        PROVE  \A d \in Conns : state_'[d] = "kConnecting" => loopOf'[d] # Base
    <3>1. /\ loopOf' = [loopOf EXCEPT ![c] = GetNextLoop.loop]
          /\ \/ GetNextLoop.loop = Base /\ state_' = [state_ EXCEPT ![c] = "kConnected"]
             \/ GetNextLoop.loop # Base /\ state_' = [state_ EXCEPT ![c] = "kConnecting"]
      BY <2>1 DEF NewConnection
    <3> QED BY <1>0, <3>1 DEF HoldInv
  <2>2. CASE OtherStep
    <3>1. loopOf' = loopOf
      BY <2>2, OtherKeeps
    <3>2. \A c \in Conns : state_'[c] = "kConnecting" => state_[c] = "kConnecting"
      BY <1>0, <2>2 DEF OtherStep, LoopStep, Start, HandleClose, SwapFunctors, RunFunctor, FunctorsDone,
         Establish, DestroyConnection, DestroyServer, DestroyNext, StopLoop, DestroyMembers, DestroyDone,
         vars, conn
    <3> QED BY <3>1, <3>2 DEF HoldInv
  <2> QED BY <2>1, <2>2, StepsAre
<1> QED BY <1>1, <1>2, <1>3 DEF HoldInv

\* Every step keeps connectDestroyed ahead of a closed connection that is in its loop.
LEMMA LeavingNext ==
    TypeInv /\ FlowInv /\ Flow /\ EndInv /\ [Next]_vars => \A d \in Conns : Leaving(d)'
<1> SUFFICES ASSUME TypeInv, FlowInv, Flow, EndInv, [Next]_vars, NEW d \in Conns
             PROVE  Leaving(d)'
  OBVIOUS
<1>0. /\ state_ \in [Conns -> {"none", "kConnecting", "kConnected", "kDisconnected"}]
      /\ addedToLoop_ \in [Conns -> BOOLEAN] /\ loopOf \in [Conns -> Loops]
      /\ Base \in Loops /\ "destroyed" \in Kinds /\ "established" \in Kinds /\ "remove" \in Kinds
  BY LoopsExist DEF TypeInv, Kinds
<1>1. Leaving(d) /\ BatchInv /\ PlacesInv /\ Calm /\ HoldInv /\ Way(d)
  BY DEF EndInv, FlowInv, Flow
<1>2. ASSUME UNCHANGED <<Queue, state_, addedToLoop_, connections_>> PROVE Leaving(d)'
  BY <1>1, <1>2 DEF Leaving
<1>3. ASSUME NEW l \in Loops, NEW kind \in Kinds, NEW c \in Conns,
             pending' = [pending EXCEPT ![l] = Append(@, Of(kind, c))], UNCHANGED batch
      PROVE  /\ \A k \in Loops : In(Queue[k], Of("destroyed", d)) => In(Queue'[k], Of("destroyed", d))
             /\ d = c /\ kind = "destroyed" => In(Queue'[l], Of("destroyed", d))
  <2>1. Pushed(Queue, Queue', l, kind, c)
    BY <1>3, QueueSteps
  <2> QED BY <1>0, <2>1, Zenon DEF Pushed
<1>4. ASSUME UNCHANGED <<pending, batch>> PROVE UNCHANGED Queue
  BY <1>4, QueueSteps
<1>5. ASSUME NEW c \in Conns, NewConnection(c) PROVE Leaving(d)'
  <2>1. /\ connections_' = connections_ \cup {c} /\ UNCHANGED batch
        /\ state_' \in {[state_ EXCEPT ![c] = "kConnected"], [state_ EXCEPT ![c] = "kConnecting"]}
        /\ addedToLoop_' \in {addedToLoop_, [addedToLoop_ EXCEPT ![c] = TRUE]}
        /\ \/ UNCHANGED pending
           \/ pending' = [pending EXCEPT ![GetNextLoop.loop] = Append(@, Of("established", c))]
    BY <1>5 DEF NewConnection, QueueInLoop, Of
  <2>2. \A k \in Loops : In(Queue[k], Of("destroyed", d)) => In(Queue'[k], Of("destroyed", d))
    BY <1>0, <1>3, <1>4, <2>1, NextLoop
  <2>3. CASE d = c
    BY <1>0, <2>1, <2>3 DEF Leaving
  <2>4. CASE d # c
    BY <1>0, <1>1, <2>1, <2>2, <2>4, AsideLeaving
  <2> QED BY <2>3, <2>4
<1>6. ASSUME NEW c \in Conns, HandleClose(c) PROVE Leaving(d)'
  <2>1. /\ state_[c] = "kConnected" /\ state_' = [state_ EXCEPT ![c] = "kDisconnected"]
        /\ UNCHANGED <<batch, addedToLoop_>>
        /\ \/ /\ connections_' = connections_ \ {c}
              /\ pending' = [pending EXCEPT ![loopOf[c]] = Append(@, Of("destroyed", c))]
           \/ /\ UNCHANGED connections_
              /\ pending' = [pending EXCEPT ![Base] = Append(@, Of("remove", c))]
    BY <1>6 DEF HandleClose, RemoveConnectionInLoop, QueueInLoop, Of
  <2>2. /\ \A k \in Loops : In(Queue[k], Of("destroyed", d)) => In(Queue'[k], Of("destroyed", d))
        /\ d = c => d \in connections_' \/ In(Queue'[loopOf[c]], Of("destroyed", d))
    <3>1. CASE pending' = [pending EXCEPT ![loopOf[c]] = Append(@, Of("destroyed", c))]
      BY <1>0, <1>3, <2>1, <3>1
    <3>2. CASE /\ UNCHANGED connections_
               /\ pending' = [pending EXCEPT ![Base] = Append(@, Of("remove", c))]
      <4>1. d = c => d \in connections_
        BY <1>1, <2>1 DEF Way, MapWay
      <4> QED BY <1>0, <1>3, <2>1, <3>2, <4>1
    <3> QED BY <2>1, <3>1, <3>2
  <2>3. CASE d = c
    BY <1>0, <2>2, <2>3 DEF Leaving
  <2>4. CASE d # c
    BY <1>0, <1>1, <2>1, <2>2, <2>4, AsideLeaving
  <2> QED BY <2>3, <2>4
<1>7. ASSUME NEW l \in Loops, SwapFunctors(l) \/ FunctorsDone(l) PROVE Leaving(d)'
  <2>1. UNCHANGED <<state_, addedToLoop_, connections_>>
    BY <1>7 DEF SwapFunctors, FunctorsDone, conn
  <2>2. UNCHANGED Queue
    <3>1. CASE SwapFunctors(l)
      <4>1. TypeInv'
        BY TypeNext
      <4>2. Quiet
        BY <1>1, <3>1, <4>1, SwapQuiet
      <4> QED BY <4>2 DEF Quiet
    <3>2. CASE FunctorsDone(l)
      <4>1. UNCHANGED <<pending, batch>>
        BY <1>1, <3>2, NothingDropped DEF FunctorsDone
      <4> QED BY <1>4, <4>1
    <3> QED BY <1>7, <3>1, <3>2
  <2> QED BY <1>2, <2>1, <2>2
<1>8. ASSUME NEW l \in Loops, RunFunctor(l) PROVE Leaving(d)'
  <2>1. PICK kind \in Kinds, c \in Conns, q1 \in Queued : Runs(l, kind, c, q1)
    BY <1>8, RunIs
  <2>2. \A k \in Loops : d # c \/ kind # "destroyed" =>
            (In(Queue[k], Of("destroyed", d)) => In(q1[k], Of("destroyed", d)))
    BY <1>0, <2>1, Zenon DEF Runs, Popped
  <2>3. CASE kind = "established" /\ Establish(c) /\ Queue' = q1 /\ UNCHANGED connections_
    <3>1. d # c => state_'[d] = state_[d] /\ addedToLoop_'[d] = addedToLoop_[d]
      BY <1>0, <2>3 DEF Establish
    <3>2. d = c => state_'[d] = "kConnected"
      BY <1>0, <2>3 DEF Establish
    <3>3. CASE d = c
      BY <3>2, <3>3 DEF Leaving
    <3>4. CASE d # c
      BY <1>1, <2>2, <2>3, <3>1, <3>4, AsideLeaving
    <3> QED BY <3>3, <3>4
  <2>4. CASE kind = "destroyed" /\ DestroyConnection(c) /\ Queue' = q1 /\ UNCHANGED connections_
    <3>1. d # c => state_'[d] = state_[d] /\ addedToLoop_'[d] = addedToLoop_[d]
      BY <1>0, <2>4 DEF DestroyConnection
    <3>2. d = c => addedToLoop_'[d] = FALSE
      BY <1>0, <2>4 DEF DestroyConnection
    <3>3. CASE d = c
      BY <3>2, <3>3 DEF Leaving
    <3>4. CASE d # c
      BY <1>1, <2>2, <2>4, <3>1, <3>4, AsideLeaving
    <3> QED BY <3>3, <3>4
  <2>5. CASE /\ kind = "remove" /\ RemoveConnectionInLoop(c, pending)
             /\ Pushed(q1, Queue', loopOf[c], "destroyed", c)
             /\ UNCHANGED <<state_, addedToLoop_>>
    <3>1. /\ \A k \in Loops : In(q1[k], Of("destroyed", d)) => In(Queue'[k], Of("destroyed", d))
          /\ d = c => In(Queue'[loopOf[c]], Of("destroyed", d))
      BY <1>0, <2>5, Zenon DEF Pushed
    <3>2. connections_' = connections_ \ {c}
      BY <2>5 DEF RemoveConnectionInLoop
    <3>3. CASE d = c
      BY <1>0, <3>1, <3>3 DEF Leaving
    <3>4. CASE d # c
      BY <1>1, <2>2, <2>5, <3>1, <3>2, <3>4, AsideLeaving
    <3> QED BY <3>3, <3>4
  <2> QED BY <2>1, <2>3, <2>4, <2>5 DEF Runs
<1>9. ASSUME NEW c \in Conns, DestroyNext(c) PROVE Leaving(d)'
  <2>1. numThreads_ = 0
    BY <1>1, <1>9, LoopsExist DEF DestroyNext, Calm, TypeInv
  <2>2. loopOf[c] = Base
    BY <1>1, <2>1 DEF PlacesInv
  <2>3. /\ connections_' = connections_ \ {c} /\ UNCHANGED <<pending, batch>>
        /\ state_' = [state_ EXCEPT ![c] = "kDisconnected"]
        /\ addedToLoop_' = [addedToLoop_ EXCEPT ![c] = FALSE]
    BY <1>9, <2>2 DEF DestroyNext, DestroyConnection
  <2>4. UNCHANGED Queue
    BY <1>4, <2>3
  <2> QED BY <1>0, <1>1, <2>3, <2>4 DEF Leaving
<1>10. CASE Start \/ DestroyServer \/ DestroyMembers \/ DestroyDone \/ (\E l \in Loops : StopLoop(l))
            \/ UNCHANGED vars
  <2>1. UNCHANGED <<pending, batch, state_, addedToLoop_, connections_>>
    BY <1>10 DEF Start, DestroyServer, DestroyMembers, DestroyDone, StopLoop, vars, conn, loops
  <2> QED BY <1>2, <1>4, <2>1
<1> QED BY <1>5, <1>6, <1>7, <1>8, <1>9, <1>10, StepsAre DEF OtherStep, LoopStep

-----------------------------------------------------------------------------
(***************************************************************************)
(* What each step means for the lives of the connections.                  *)
(***************************************************************************)

\* Connection c goes on; nothing happens to the others.
Goes(c, from, to) ==
    /\ Life(c) \in from /\ Life(c)' \in to
    /\ \A d \in Conns : d # c => Life(d)' = Life(d)

\* Nothing happens to a connection whose state and pointers stay.
LEMMA SameLife ==
    ASSUME NEW d \in Conns, state_'[d] = state_[d], addedToLoop_'[d] = addedToLoop_[d],
           Alive(d)' <=> Alive(d)
    PROVE  Life(d)' = Life(d)
<1>1. CASE Alive(d)
  <2>1. Alive(d)'
    BY <1>1
  <2> QED BY <1>1, <2>1 DEF Life
<1>2. CASE ~Alive(d)
  <2>1. ~Alive(d)'
    BY <1>2
  <2> QED BY <1>2, <2>1 DEF Life
<1> QED BY <1>1, <1>2

\* newConnection begins the life of a connection.
LEMMA NewConnectionLife ==
    ASSUME TypeInv, NEW c \in Conns, NewConnection(c), LifeIs(c), LifeIs(c)'
    PROVE  Goes(c, {"none"}, {"connecting", "up"})
<1>0. /\ state_ \in [Conns -> {"none", "kConnecting", "kConnected", "kDisconnected"}]
      /\ addedToLoop_ \in [Conns -> BOOLEAN] /\ "established" \in Kinds
  BY DEF TypeInv, Kinds
<1>1. /\ state_[c] = "none" /\ connections_' = connections_ \cup {c} /\ UNCHANGED held
      /\ state_' \in {[state_ EXCEPT ![c] = "kConnected"], [state_ EXCEPT ![c] = "kConnecting"]}
      /\ addedToLoop_' \in {addedToLoop_, [addedToLoop_ EXCEPT ![c] = TRUE]}
      /\ \/ UNCHANGED pending
         \/ pending' = [pending EXCEPT ![GetNextLoop.loop] = Append(@, Of("established", c))]
  BY DEF NewConnection, QueueInLoop, Of
<1>2. Life(c) = "none" /\ Life(c)' \in {"connecting", "up"}
  BY <1>0, <1>1 DEF LifeIs
<1>3. ASSUME NEW d \in Conns, d # c PROVE Life(d)' = Life(d)
  <2>1. /\ state_'[d] = state_[d] /\ addedToLoop_'[d] = addedToLoop_[d]
        /\ d \in connections_' <=> d \in connections_
    BY <1>0, <1>1, <1>3
  <2>2. Alive(d)' <=> Alive(d)
    BY <1>0, <1>1, <1>3, <2>1, PushAlive, StillAlive, NextLoop
  <2> QED BY <2>1, <2>2, SameLife
<1> QED BY <1>2, <1>3 DEF Goes

\* handleClose ends the time in which a connection is up.
LEMMA HandleCloseLife ==
    ASSUME TypeInv, NEW c \in Conns, HandleClose(c), LifeIs(c), LifeIs(c)'
    PROVE  Goes(c, {"up"}, {"closed", "removed", "destroyed"})
<1>0. /\ state_ \in [Conns -> {"none", "kConnecting", "kConnected", "kDisconnected"}]
      /\ addedToLoop_ \in [Conns -> BOOLEAN] /\ loopOf[c] \in Loops /\ Base \in Loops
      /\ "destroyed" \in Kinds /\ "remove" \in Kinds
  BY LoopsExist DEF TypeInv, Kinds
<1>1. /\ state_[c] = "kConnected" /\ state_' = [state_ EXCEPT ![c] = "kDisconnected"]
      /\ UNCHANGED <<held, addedToLoop_>>
      /\ connections_' \in {connections_, connections_ \ {c}}
      /\ \/ pending' = [pending EXCEPT ![loopOf[c]] = Append(@, Of("destroyed", c))]
         \/ pending' = [pending EXCEPT ![Base] = Append(@, Of("remove", c))]
  BY DEF HandleClose, RemoveConnectionInLoop, QueueInLoop, Of
<1>2. Life(c) = "up" /\ Life(c)' \in {"closed", "removed", "destroyed"}
  <2>1. state_'[c] = "kDisconnected"
    BY <1>0, <1>1
  <2> QED BY <1>1, <2>1 DEF LifeIs
<1>3. ASSUME NEW d \in Conns, d # c PROVE Life(d)' = Life(d)
  <2>1. /\ state_'[d] = state_[d] /\ addedToLoop_'[d] = addedToLoop_[d]
        /\ d \in connections_' <=> d \in connections_
    BY <1>0, <1>1, <1>3
  <2>2. Alive(d)' <=> Alive(d)
    BY <1>0, <1>1, <1>3, <2>1, PushAlive
  <2> QED BY <2>1, <2>2, SameLife
<1> QED BY <1>2, <1>3 DEF Goes

\* The destructor of the server takes a connection of the base loop to its end.
LEMMA DestroyNextLife ==
    ASSUME TypeInv, PlacesInv, Calm, KnownInv, HoldInv, NEW c \in Conns, DestroyNext(c),
           Way(c), LifeIs(c), LifeIs(c)'
    PROVE  Goes(c, {"up"}, {"removed", "destroyed"})
<1>0. /\ state_ \in [Conns -> {"none", "kConnecting", "kConnected", "kDisconnected"}]
      /\ addedToLoop_ \in [Conns -> BOOLEAN] /\ Base \in Loops
  BY LoopsExist DEF TypeInv
<1>1. loopOf[c] = Base
  <2>1. numThreads_ = 0
    BY LoopsExist DEF DestroyNext, Calm, TypeInv
  <2> QED BY <2>1 DEF PlacesInv
<1>2. /\ c \in connections_ /\ connections_' = connections_ \ {c} /\ UNCHANGED <<pending, held>>
      /\ state_' = [state_ EXCEPT ![c] = "kDisconnected"]
      /\ addedToLoop_' = [addedToLoop_ EXCEPT ![c] = FALSE]
  BY <1>1 DEF DestroyNext, DestroyConnection
<1>3. state_[c] = "kConnected"
  <2>1. state_[c] # "none"
    BY <1>2 DEF KnownInv, Known
  <2>2. state_[c] # "kConnecting"
    BY <1>1 DEF HoldInv
  <2>3. state_[c] # "kDisconnected"
    BY <1>0, <1>1, <1>2 DEF Way, MapWay, RemoveWay
  <2> QED BY <1>0, <2>1, <2>2, <2>3
<1>4. Life(c) = "up" /\ Life(c)' \in {"removed", "destroyed"}
  <2>1. state_'[c] = "kDisconnected" /\ addedToLoop_'[c] = FALSE
    BY <1>0, <1>2
  <2> QED BY <1>3, <2>1 DEF LifeIs
<1>5. ASSUME NEW d \in Conns, d # c PROVE Life(d)' = Life(d)
  <2>1. /\ state_'[d] = state_[d] /\ addedToLoop_'[d] = addedToLoop_[d]
        /\ d \in connections_' <=> d \in connections_
    BY <1>0, <1>2, <1>5
  <2>2. Alive(d)' <=> Alive(d)
    BY <1>2, <2>1, StillAlive
  <2> QED BY <2>1, <2>2, SameLife
<1> QED BY <1>4, <1>5 DEF Goes

\* A functor holds its connection while it runs.
LEMMA RunFunctorLife ==
    ASSUME TypeInv, BatchInv, Flow, NEW l \in Loops, RunFunctor(l),
           \A c \in Conns : LifeIs(c) /\ LifeIs(c)'
    PROVE  \E c \in Conns : \/ Goes(c, {"connecting"}, {"up"})
                            \/ Goes(c, {"closed"}, {"removed"})
                            \/ \A d \in Conns : Life(d)' = Life(d)
<1>0. /\ state_ \in [Conns -> {"none", "kConnecting", "kConnected", "kDisconnected"}]
      /\ addedToLoop_ \in [Conns -> BOOLEAN] /\ loopOf \in [Conns -> Loops]
      /\ "destroyed" \in Kinds /\ "remove" \in Kinds /\ "established" \in Kinds
  BY DEF TypeInv, Kinds
<1>1. PICK kind \in Kinds, c \in Conns, q1 \in Queued : Runs(l, kind, c, q1)
  BY RunIs
<1>2. In(Queue[l], Of(kind, c)) /\ Way(c) /\ LifeIs(c) /\ LifeIs(c)'
  BY <1>1, PoppedWas DEF Runs, Flow
<1>3. UNCHANGED held /\ batch[l] \in Seq(Functor) /\ batch[l] # <<>>
  BY DEF RunFunctor, TypeInv
<1>4. c \in held[l]
  <2>1. Len(batch[l]) \in Nat \ {0} /\ Head(batch[l]) = batch[l][1]
    BY <1>3, HeadTailProperties, EmptySeq
  <2>2. 1 \in 1..Len(batch[l]) /\ batch[l][1][2] = c
    BY <1>1, <2>1 DEF Runs, Of
  <2> QED BY <2>2 DEF BatchInv
<1>5. Alive(c) /\ Alive(c)'
  BY <1>3, <1>4 DEF Alive
<1>6. ASSUME NEW d \in Conns, d # c PROVE Life(d)' = Life(d)
  <2>1. /\ state_'[d] = state_[d] /\ addedToLoop_'[d] = addedToLoop_[d]
        /\ d \in connections_' <=> d \in connections_
    BY <1>0, <1>1, <1>6 DEF Runs, Establish, DestroyConnection, RemoveConnectionInLoop
  <2>2. \/ UNCHANGED pending
        \/ pending' = [pending EXCEPT ![loopOf[c]] = Append(@, Of("destroyed", c))]
    BY <1>1 DEF Runs, RemoveConnectionInLoop, Of
  <2>3. Alive(d)' <=> Alive(d)
    BY <1>0, <1>3, <1>6, <2>1, <2>2, PushAlive, StillAlive
  <2> QED BY <2>1, <2>3, SameLife
<1>7. CASE kind = "established" /\ Establish(c)
  <2>1. state_[c] = "kConnecting" /\ state_'[c] = "kConnected"
    BY <1>0, <1>2, <1>7 DEF Way, EstablishWay, Establish
  <2>2. Goes(c, {"connecting"}, {"up"})
    BY <1>2, <1>6, <2>1 DEF LifeIs, Goes
  <2> QED BY <2>2
<1>8. CASE kind = "destroyed" /\ DestroyConnection(c)
  <2>1. state_[c] = "kDisconnected" /\ state_'[c] = "kDisconnected" /\ addedToLoop_'[c] = FALSE
    BY <1>0, <1>2, <1>8 DEF Way, DestroyWay, DestroyConnection
  <2>2. Life(c) \in {"closed", "removed"} /\ Life(c)' = "removed"
    BY <1>2, <1>5, <2>1 DEF LifeIs
  <2>3. CASE Life(c) = "closed"
    BY <1>6, <2>2, <2>3 DEF Goes
  <2>4. CASE Life(c) = "removed"
    <3>1. \A d \in Conns : Life(d)' = Life(d)
      BY <1>6, <2>2, <2>4
    <3> QED BY <3>1
  <2> QED BY <2>2, <2>3, <2>4
<1>9. CASE UNCHANGED <<state_, addedToLoop_>>
  <2>1. Life(c)' = Life(c)
    BY <1>5, <1>9, SameLife
  <2> QED BY <1>6, <2>1
<1> QED BY <1>1, <1>7, <1>8, <1>9 DEF Runs

\* The swap hands the pointers over from the queue to the batch.
LEMMA SwapFunctorsLife ==
    ASSUME TypeInv, HoldInv, NEW l \in Loops, SwapFunctors(l)
    PROVE  \A d \in Conns : Life(d)' = Life(d)
<1> SUFFICES ASSUME NEW d \in Conns PROVE Life(d)' = Life(d)
  OBVIOUS
<1>1. /\ UNCHANGED <<state_, addedToLoop_, connections_>>
      /\ pc[l] = "poll" /\ pc[l] # "functors"
      /\ pending' = [pending EXCEPT ![l] = <<>>]
      /\ held' = [held EXCEPT ![l] = {pending[l][k][2] : k \in 1..Len(pending[l])}]
      /\ pending \in [Loops -> Seq(Functor)] /\ held \in [Loops -> SUBSET Conns]
  BY DEF SwapFunctors, conn, TypeInv
<1>2. held[l] = {} /\ ~InQueue(<<>>, d)
  BY <1>1 DEF HoldInv, InQueue
<1>3. InQueue(pending[l], d) <=> d \in held'[l]
  <2>1. held'[l] = {pending[l][k][2] : k \in 1..Len(pending[l])}
    BY <1>1
  <2> QED BY <2>1 DEF InQueue
<1>4. /\ pending'[l] = <<>>
      /\ \A k \in Loops : k # l => pending'[k] = pending[k] /\ held'[k] = held[k]
  BY <1>1
<1>5. \A k \in Loops : InQueue(pending'[k], d) \/ d \in held'[k] <=> InQueue(pending[k], d) \/ d \in held[k]
  <2>1. InQueue(pending'[l], d) \/ d \in held'[l] <=> InQueue(pending[l], d) \/ d \in held[l]
    BY <1>2, <1>3, <1>4
  <2> QED BY <1>4, <2>1
<1>6. Alive(d)' <=> Alive(d)
  BY <1>1, <1>5, Zenon DEF Alive
<1> QED BY <1>1, <1>6, SameLife

\* The end of a batch releases its pointers; only connections that left their loop die.
LEMMA FunctorsDoneLife ==
    ASSUME TypeInv, PlacesInv, Calm, HoldInv, NEW l \in Loops, FunctorsDone(l),
           \A c \in Conns : LifeIs(c) /\ LifeIs(c)'
    PROVE  \A d \in Conns : Life(d)' = Life(d) \/ (Life(d) = "removed" /\ Life(d)' = "destroyed")
<1> SUFFICES ASSUME NEW d \in Conns
             PROVE  Life(d)' = Life(d) \/ (Life(d) = "removed" /\ Life(d)' = "destroyed")
  OBVIOUS
<1>1. /\ UNCHANGED <<state_, addedToLoop_, connections_, pending>>
      /\ held' = [held EXCEPT ![l] = {}] /\ held \in [Loops -> SUBSET Conns]
      /\ state_[d] \in {"none", "kConnecting", "kConnected", "kDisconnected"}
  BY NothingDropped DEF FunctorsDone, conn, TypeInv
<1>2. \A k \in Loops : held'[k] \subseteq held[k]
  BY <1>1
<1>3. Alive(d)' => Alive(d)
  BY <1>1, <1>2 DEF Alive
<1>4. CASE Alive(d)' <=> Alive(d)
  BY <1>1, <1>4, SameLife
<1>5. CASE Alive(d) /\ ~Alive(d)'
  BY <1>1, <1>5 DEF LifeIs
<1> QED BY <1>3, <1>4, <1>5

\* Every step is one of those that ConnectionLife allows.
LEMMA ServerLifeStep ==
    ASSUME TypeInv, FlowInv, Flow, KnownInv, EndInv, [Next]_vars,
           \A c \in Conns : LifeIs(c) /\ LifeIs(c)'
    PROVE  \/ \E c \in Conns : \/ Goes(c, {"none"}, {"connecting", "up"})
                               \/ Goes(c, {"connecting"}, {"up"})
                               \/ Goes(c, {"up"}, {"closed"})
                               \/ Goes(c, {"up", "closed"}, {"removed", "destroyed"})
           \/ \A d \in Conns : Life(d)' = Life(d) \/ (Life(d) = "removed" /\ Life(d)' = "destroyed")
<1>1. BatchInv /\ PlacesInv /\ Calm /\ HoldInv /\ \A c \in Conns : Way(c)
  BY DEF FlowInv, Flow, EndInv
<1>2. ASSUME NEW c \in Conns, NewConnection(c) PROVE Goes(c, {"none"}, {"connecting", "up"})
  BY <1>2, NewConnectionLife
<1>3. ASSUME NEW c \in Conns, HandleClose(c)
      PROVE  Goes(c, {"up"}, {"closed"}) \/ Goes(c, {"up", "closed"}, {"removed", "destroyed"})
  <2>1. Goes(c, {"up"}, {"closed", "removed", "destroyed"})
    BY <1>3, HandleCloseLife
  <2> QED BY <2>1 DEF Goes
<1>4. ASSUME NEW c \in Conns, DestroyNext(c) PROVE Goes(c, {"up", "closed"}, {"removed", "destroyed"})
  <2>1. Goes(c, {"up"}, {"removed", "destroyed"})
    BY <1>1, <1>4, DestroyNextLife
  <2> QED BY <2>1 DEF Goes
<1>5. ASSUME NEW l \in Loops, RunFunctor(l)
      PROVE  \/ \E c \in Conns : \/ Goes(c, {"connecting"}, {"up"})
                                 \/ Goes(c, {"up", "closed"}, {"removed", "destroyed"})
             \/ \A d \in Conns : Life(d)' = Life(d)
  <2>1. PICK c \in Conns : \/ Goes(c, {"connecting"}, {"up"})
                           \/ Goes(c, {"closed"}, {"removed"})
                           \/ \A d \in Conns : Life(d)' = Life(d)
    BY <1>1, <1>5, RunFunctorLife
  <2>2. Goes(c, {"closed"}, {"removed"}) => Goes(c, {"up", "closed"}, {"removed", "destroyed"})
    BY DEF Goes
  <2> QED BY <2>1, <2>2
<1>6. ASSUME NEW l \in Loops, SwapFunctors(l) PROVE \A d \in Conns : Life(d)' = Life(d)
  BY <1>1, <1>6, SwapFunctorsLife
<1>7. ASSUME NEW l \in Loops, FunctorsDone(l)
      PROVE  \A d \in Conns : Life(d)' = Life(d) \/ (Life(d) = "removed" /\ Life(d)' = "destroyed")
  BY <1>1, <1>7, FunctorsDoneLife
<1>8. ASSUME Start \/ DestroyServer \/ DestroyMembers \/ DestroyDone \/ (\E l \in Loops : StopLoop(l))
             \/ UNCHANGED vars
      PROVE  \A d \in Conns : Life(d)' = Life(d)
  <2>1. UNCHANGED <<pending, held, state_, addedToLoop_, connections_>>
    BY <1>8 DEF Start, DestroyServer, DestroyMembers, DestroyDone, StopLoop, vars, conn, loops
  <2>2. ASSUME NEW d \in Conns PROVE Life(d)' = Life(d)
    <3>1. Alive(d)' <=> Alive(d)
      BY <2>1, StillAlive
    <3> QED BY <2>1, <3>1, SameLife
  <2> QED BY <2>2
<1>9. CASE \E c \in Conns : NewConnection(c) \/ HandleClose(c) \/ DestroyNext(c)
  BY <1>2, <1>3, <1>4, <1>9
<1>10. CASE \E l \in Loops : LoopStep(l)
  BY <1>5, <1>6, <1>7, <1>10 DEF LoopStep
<1> QED BY <1>8, <1>9, <1>10, StepsAre DEF OtherStep

\* If the server is destroyed without io threads, connections are on their way and end in
\* order.
LEMMA EndInvariant ==
    ASSUME DestroyedWith \subseteq {0}
    PROVE  Spec => [](TypeInv /\ FlowInv /\ Flow /\ KnownInv /\ EndInv)
<1>1. FlowInv => Flow
  BY DEF FlowInv, Orderly
<1>2. Init => EndInv
  <2> SUFFICES ASSUME Init PROVE EndInv
    OBVIOUS
  <2>1. HoldInv
    BY DEF Init, HoldInv
  <2>2. \A c \in Conns : Leaving(c)
    BY DEF Init, Leaving
  <2> QED BY <2>1, <2>2 DEF EndInv
<1>3. TypeInv /\ FlowInv /\ Flow /\ KnownInv /\ EndInv /\ [Next]_vars => EndInv'
  <2> SUFFICES ASSUME TypeInv, FlowInv, Flow, KnownInv, EndInv, [Next]_vars PROVE EndInv'
    OBVIOUS
  <2>1. HoldInv'
    BY HoldNext DEF EndInv
  <2>2. \A d \in Conns : Leaving(d)'
    BY LeavingNext
  <2> QED BY <2>1, <2>2 DEF EndInv
<1>4. Spec => []KnownInv
  BY NamesInvariant, PTL
<1> QED BY <1>1, <1>2, <1>3, <1>4, TypeInvariant, FlowInvariant, PTL DEF Spec

-----------------------------------------------------------------------------
(***************************************************************************)
(* The theorems.                                                           *)
(***************************************************************************)

\* While the server is up the map holds every open connection, and a closed one exactly
\* until its removal reaches the base loop; connections are spread evenly over the loops
\* and their names differ (TcpServer.cpp:70-112, EventLoopThreadPool.cpp:53-70).
THEOREM TcpServerMapInStep == Spec => []MapInStep
<1>1. TypeInv => TypeOK
  BY DEF TypeInv, TypeOK
<1>2. TypeInv /\ FlowInv => MapHoldsOpen
  <2> SUFFICES ASSUME TypeInv, FlowInv, server = "up", NEW c \in Conns
               PROVE  /\ state_[c] \in {"kConnecting", "kConnected"} => c \in connections_
                      /\ c \in connections_ /\ state_[c] = "kDisconnected" =>
                             \E k \in 1..Len(batch[Base] \o pending[Base]) :
                                 (batch[Base] \o pending[Base])[k] = <<"remove", c>>
    BY DEF MapHoldsOpen
  <2>1. MapWay(c)
    BY DEF FlowInv, Orderly, Flow, Way
  <2>2. Base \in Loops
    BY LoopsExist DEF TypeInv
  <2>3. Queue[Base] = batch[Base] \o pending[Base]
    BY <2>2, QueueType, JoinedType DEF Queue
  <2> QED BY <2>1, <2>3, Zenon DEF MapWay, In, Of
<1>3. TypeInv /\ NamesInv /\ DealtInv => SpreadEvenly
  <2> SUFFICES ASSUME TypeInv, NamesInv, DealtInv PROVE SpreadEvenly
    OBVIOUS
  <2>1. PICK a \in Nat : Dealt(a)
    BY DEF DealtInv
  <2>2. \A l \in 1..numThreads_ : Load(l) \in {a, a + 1}
    BY <2>1 DEF Dealt
  <2>3. \A k, l \in 1..numThreads_ : Load(k) <= Load(l) + 1
    BY <2>2
  <2> QED BY <2>3 DEF NamesInv, SpreadEvenly
<1> QED BY <1>1, <1>2, <1>3, TypeInvariant, FlowInvariant, NamesInvariant, PTL DEF MapInStep

\* If the server is destroyed with io threads only when no connection is left, no assert
\* on the way of a connection through the loops fails: each is established once and taken
\* out of the map once, by a server that is there (TcpServer.cpp:102-116,
\* TcpConnection.cpp:294-307).
THEOREM TcpServerAssertionsHold ==
    ASSUME DestroyedWith \subseteq {0}
    PROVE  Spec => []AssertionsHold
<1>1. FlowInv => AssertionsHold
  BY DEF FlowInv, Orderly, Flow, AssertionsHold
<1> QED BY <1>1, FlowInvariant, PTL

\* If the server is destroyed with io threads only when no connection is left, every
\* connection is established once, closed once and taken out of its loop once, wherever its
\* functors travel, and the last TcpConnectionPtr to it goes only then
\* (TcpServer.cpp:70-116, TcpConnection.cpp:294-320).
THEOREM TcpServerLifeSpec ==
    ASSUME DestroyedWith \subseteq {0}
    PROVE  Spec => LifeSpec
<1> DEFINE life == [c \in Conns |-> Life(c)]
           Sound == TypeInv /\ FlowInv /\ Flow /\ KnownInv /\ EndInv
<1>1. Init => Lives!Init
  BY DEF Init, Life, Lives!Init
<1>2. Sound => \A c \in Conns : LifeIs(c)
  BY LivesAre DEF FlowInv
<1>3. (Sound => \A c \in Conns : LifeIs(c))'
  BY <1>2, PTL
<1>4. Sound /\ Sound' /\ [Next]_vars => [Lives!Next]_life
  <2> SUFFICES ASSUME Sound, Sound', [Next]_vars PROVE [Lives!Next]_life
    OBVIOUS
  <2>1. life' = [c \in Conns |-> Life(c)'] /\ \A c \in Conns : life[c] = Life(c)
    OBVIOUS
  <2>2. ASSUME NEW c \in Conns, NEW from, NEW to, Goes(c, from, to) PROVE Lives!Moves(c, from, to)
    <3>1. life' = [life EXCEPT ![c] = Life(c)']
      BY <2>1, <2>2 DEF Goes
    <3> QED BY <2>1, <2>2, <3>1 DEF Goes, Lives!Moves
  <2>3. ASSUME NEW c \in Conns,
               \/ Goes(c, {"none"}, {"connecting", "up"})
               \/ Goes(c, {"connecting"}, {"up"})
               \/ Goes(c, {"up"}, {"closed"})
               \/ Goes(c, {"up", "closed"}, {"removed", "destroyed"})
        PROVE  Lives!Next
    <3>1. Lives!Accept(c) \/ Lives!Establish(c) \/ Lives!Close(c) \/ Lives!Remove(c)
      BY <2>2, <2>3 DEF Lives!Accept, Lives!Establish, Lives!Close, Lives!Remove
    <3> QED BY <3>1 DEF Lives!Next
  <2>4. ASSUME \A d \in Conns : Life(d)' = Life(d) \/ (Life(d) = "removed" /\ Life(d)' = "destroyed")
        PROVE  Lives!Next
    <3> DEFINE some == {d \in Conns : Life(d)' # Life(d)}
    <3>1. Lives!Destroy(some)
      BY <2>1, <2>4 DEF Lives!Destroy
    <3>2. some \in SUBSET Conns
      OBVIOUS
    <3> QED BY <3>1, <3>2 DEF Lives!Next
  <2>5. \A c \in Conns : LifeIs(c) /\ LifeIs(c)'
    BY <1>2, <1>3
  <2> QED BY <2>3, <2>4, <2>5, ServerLifeStep
<1> QED BY <1>1, <1>2, <1>4, EndInvariant, PTL DEF Spec, LifeSpec, Lives!Spec

\* With the same premise the last TcpConnectionPtr to a connection goes only when it is
\* closed and its channel is out of the loop, so that the asserts of ~TcpConnection and
\* ~Channel hold (TcpConnection.cpp:70, Channel.cpp:39).  With io threads there is a run
\* in which they do not.
THEOREM TcpServerDestroyedClean ==
    ASSUME DestroyedWith \subseteq {0}
    PROVE  Spec => []DestroyedClean
<1>1. TypeInv /\ FlowInv /\ Flow /\ KnownInv /\ EndInv => DestroyedClean
  BY DeadIsRemoved DEF FlowInv, DestroyedClean
<1> QED BY <1>1, EndInvariant, PTL

=============================================================================
