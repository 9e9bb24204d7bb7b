------------------------- MODULE TcpConnectionProofs -------------------------
(***************************************************************************)
(* Proofs about TcpConnection, for any messages, sizes and high-water mark *)
(* and any usage: chunks reach the socket in order.  For the usages that   *)
(* Careful describes, whatever the order of calls, events and functors: no *)
(* assert fails, SHUT_WR never cuts off buffered output, and a connection  *)
(* lives as ConnectionLife says.                                           *)
(***************************************************************************)
EXTENDS TcpConnection, SequenceTheorems, TLAPS

-----------------------------------------------------------------------------
(***************************************************************************)
(* Sequences of chunks.                                                    *)
(***************************************************************************)

Chunk == Messages \X (1..ChunksPerMessage)

\* A message is a sequence of chunks.
LEMMA ChunksType ==
    ASSUME NEW m \in Messages
    PROVE  Chunks(m) \in Seq(Chunk) /\ Len(Chunks(m)) = ChunksPerMessage
  BY SizeAssumption DEF Chunks, Chunk

\* Concatenation is associative.
LEMMA Assoc ==
    ASSUME NEW s \in Seq(Chunk), NEW t \in Seq(Chunk), NEW u \in Seq(Chunk)
    PROVE  (s \o t) \o u = s \o (t \o u)
  OBVIOUS

\* A sequence is the part that was written followed by the part that was not.
LEMMA Split ==
    ASSUME NEW s \in Seq(Chunk), NEW n \in 0..Len(s)
    PROVE  /\ SubSeq(s, 1, n) \in Seq(Chunk)
           /\ SubSeq(s, n + 1, Len(s)) \in Seq(Chunk)
           /\ SubSeq(s, 1, n) \o SubSeq(s, n + 1, Len(s)) = s
           /\ SubSeq(s, n + 1, Len(s)) = <<>> <=> n = Len(s)
<1>1. Len(s) \in Nat /\ n \in Nat /\ n <= Len(s)
  OBVIOUS
<1>2. \A i \in 1..Len(s) : s[i] \in Chunk
  OBVIOUS
<1>3. SubSeq(s, 1, n) \in Seq(Chunk)
  BY <1>1, <1>2, SubSeqProperties
<1>4. /\ SubSeq(s, n + 1, Len(s)) \in Seq(Chunk)
      /\ Len(SubSeq(s, n + 1, Len(s))) = Len(s) - n
  BY <1>1, <1>2, SubSeqProperties
<1>5. SubSeq(s, 1, n) \o SubSeq(s, n + 1, Len(s)) = SubSeq(s, 1, Len(s))
  <2>1. 1 \in 1..(Len(s) + 1) /\ n \in (1 - 1)..Len(s) /\ Len(s) \in n..Len(s)
    BY <1>1
  <2> QED BY <2>1, ConcatAdjacentSubSeq, Zenon
<1>6. SubSeq(s, 1, Len(s)) = s
  BY SubSeqFull
<1>7. SubSeq(s, n + 1, Len(s)) = <<>> <=> n = Len(s)
  <2> DEFINE B == SubSeq(s, n + 1, Len(s))
  <2>1. B = <<>> <=> Len(B) = 0
    BY <1>4, EmptySeq
  <2> HIDE DEF B
  <2>2. Len(B) = Len(s) - n
    BY <1>4 DEF B
  <2>3. B = <<>> <=> n = Len(s)
    BY <1>1, <2>1, <2>2
  <2> QED BY <2>3 DEF B
<1> QED BY <1>3, <1>4, <1>5, <1>6, <1>7

-----------------------------------------------------------------------------
(***************************************************************************)
(* What was written and what is buffered.                                  *)
(***************************************************************************)

DataInv ==
    /\ usage \in Usages
    /\ outputBuffer_ \in Seq(Chunk) /\ wire \in Seq(Chunk) /\ accepted \in Seq(Chunk)
    /\ WireInOrder

outputVars == <<usage, outputBuffer_, wire, accepted>>

\* sendInLoop writes a beginning of the message only when nothing is buffered, and
\* buffers the rest.
LEMMA SendKeepsOrder ==
    ASSUME DataInv, NEW m \in Messages, NEW q, SendInLoop(m, q), UNCHANGED usage
    PROVE  DataInv'
<1> DEFINE C == Chunks(m)
<1>1. C \in Seq(Chunk) /\ Len(C) = ChunksPerMessage
  BY ChunksType
<1>2. CASE UNCHANGED outputVars
  BY <1>2 DEF DataInv, WireInOrder, outputVars
<1>3. ASSUME NEW n \in 0..ChunksPerMessage,
             n = 0 \/ outputBuffer_ = <<>>,
             wire' = wire \o SubSeq(C, 1, n),
             accepted' = accepted \o C,
             outputBuffer_' = outputBuffer_ \o SubSeq(C, n + 1, ChunksPerMessage)
      PROVE  DataInv'
  <2> DEFINE A == SubSeq(C, 1, n)
             B == SubSeq(C, n + 1, ChunksPerMessage)
  <2>0. wire \in Seq(Chunk) /\ outputBuffer_ \in Seq(Chunk) /\ accepted \in Seq(Chunk)
    BY DEF DataInv
  <2>1. A \in Seq(Chunk) /\ B \in Seq(Chunk) /\ A \o B = C
    BY <1>1, <1>3, Split
  <2>2. n = 0 => A = <<>>
    BY SubSeqEmpty
  <2> HIDE DEF A, B, C
  <2>3. wire' = wire \o A /\ accepted' = accepted \o C /\ outputBuffer_' = outputBuffer_ \o B
    BY <1>3 DEF A, B
  <2>4. /\ wire' \in Seq(Chunk) /\ accepted' \in Seq(Chunk) /\ outputBuffer_' \in Seq(Chunk)
    BY <1>1, <2>1, <2>3, ConcatProperties DEF DataInv
  <2>5. accepted = wire \o outputBuffer_
    BY DEF DataInv, WireInOrder
  <2>6. CASE n = 0
    <3>1. A = <<>> /\ B = C
      BY <2>1, <2>2, <2>6, ConcatEmptySeq
    <3>2. wire' = wire
      BY <2>3, <3>1, ConcatEmptySeq DEF DataInv
    <3>3. wire \o (outputBuffer_ \o C) = (wire \o outputBuffer_) \o C
      BY <1>1, <2>0, Assoc, Zenon
    <3> QED BY <2>3, <2>4, <2>5, <3>1, <3>2, <3>3 DEF DataInv, WireInOrder
  <2>7. CASE outputBuffer_ = <<>>
    <3>1. outputBuffer_' = B /\ accepted = wire
      BY <2>1, <2>3, <2>5, <2>7, ConcatEmptySeq DEF DataInv
    <3>2. (wire \o A) \o B = wire \o (A \o B)
      BY <2>0, <2>1, Assoc, Zenon
    <3> QED BY <2>1, <2>3, <2>4, <3>1, <3>2 DEF DataInv, WireInOrder
  <2> QED BY <1>3, <2>6, <2>7
<1>4. WritesDirectly => outputBuffer_ = <<>>
  BY DEF WritesDirectly
<1>5. 0 \in 0..ChunksPerMessage
  BY SizeAssumption
<1> HIDE DEF C
<1>6. QED
  <2>1. CASE state_ = "kDisconnected" \/ (WritesDirectly /\ Broken)
    BY <2>1, <1>2 DEF SendInLoop, outputVars, object, data
  <2>2. CASE ~ (state_ = "kDisconnected" \/ (WritesDirectly /\ Broken))
    <3>1. PICK n \in (IF WritesDirectly THEN 0..ChunksPerMessage ELSE {0}) :
             /\ wire' = wire \o SubSeq(Chunks(m), 1, n)
             /\ accepted' = accepted \o Chunks(m)
             /\ outputBuffer_' = outputBuffer_ \o SubSeq(Chunks(m), n + 1, ChunksPerMessage)
      BY <2>2 DEF SendInLoop
    <3>2. n \in 0..ChunksPerMessage /\ (n = 0 \/ outputBuffer_ = <<>>)
      BY <1>4, <1>5
    <3> QED BY <1>3, <3>1, <3>2 DEF C
  <2> QED BY <2>1, <2>2

\* handleWrite moves a beginning of the buffer to the socket.
LEMMA WriteKeepsOrder ==
    ASSUME DataInv, HandleWrite
    PROVE  DataInv'
<1>1. CASE UNCHANGED <<wire, outputBuffer_>>
  BY <1>1 DEF HandleWrite, DataInv, WireInOrder, bounds
<1>2. ASSUME NEW n \in 0..Len(outputBuffer_),
             wire' = wire \o SubSeq(outputBuffer_, 1, n),
             outputBuffer_' = SubSeq(outputBuffer_, n + 1, Len(outputBuffer_))
      PROVE  DataInv'
  <2> DEFINE A == SubSeq(outputBuffer_, 1, n)
             B == SubSeq(outputBuffer_, n + 1, Len(outputBuffer_))
  <2>0. wire \in Seq(Chunk)
    BY DEF DataInv
  <2>1. A \in Seq(Chunk) /\ B \in Seq(Chunk) /\ A \o B = outputBuffer_
    BY Split DEF DataInv
  <2>2. wire' = wire \o A /\ outputBuffer_' = B
    BY <1>2
  <2>3. accepted' = accepted /\ usage' = usage
    BY DEF HandleWrite, bounds
  <2> HIDE DEF A, B
  <2>4. wire' \in Seq(Chunk)
    BY <2>1, <2>2, ConcatProperties DEF DataInv
  <2>5. (wire \o A) \o B = wire \o (A \o B)
    BY <2>0, <2>1, Assoc, Zenon
  <2> QED BY <2>1, <2>2, <2>3, <2>4, <2>5 DEF DataInv, WireInOrder
<1>3. 0 \in 0..Len(outputBuffer_)
  BY DEF DataInv
<1> QED
  <2>1. CASE "write" \in events_
    <3>1. PICK n \in (IF Broken THEN {0} ELSE 0..Len(outputBuffer_)) :
             /\ wire' = wire \o SubSeq(outputBuffer_, 1, n)
             /\ outputBuffer_' = SubSeq(outputBuffer_, n + 1, Len(outputBuffer_))
      BY <2>1 DEF HandleWrite
    <3>2. n \in 0..Len(outputBuffer_)
      BY <1>3
    <3> QED BY <1>2, <3>1, <3>2
  <2>2. CASE "write" \notin events_
    BY <1>1, <2>2 DEF HandleWrite
  <2> QED BY <2>1, <2>2

\* Nothing else touches the output.
LEMMA EventsKeepOutput ==
    ASSUME Events
    PROVE  HandleWrite \/ UNCHANGED outputVars
  BY DEF Events, Poll, CloseEvent, HandleError, HandleRead, CallbackReturns, CloseCallback,
     RemoveChannel, HandleClose, outputVars, object, data, bounds

\* Neither do the functors other than sendInLoop ...
LEMMA FunctorsKeepOutput ==
    ASSUME Functors
    PROVE  \/ \E m \in Messages : RunSend(m)
           \/ UNCHANGED outputVars
<1>1. SwapFunctors \/ FunctorsDone => UNCHANGED outputVars
  BY DEF SwapFunctors, FunctorsDone, outputVars, object, data, bounds
<1>2. ConnectEstablished \/ ConnectDestroyed \/ ForceCloseInLoop \/ UserCallback => UNCHANGED outputVars
  BY DEF ConnectEstablished, ConnectDestroyed, ForceCloseInLoop, UserCallback, HandleClose, Run,
     outputVars, object, data, bounds
<1>3. RunShutdown \/ RunStartRead \/ RunStopRead => UNCHANGED outputVars
  BY DEF RunShutdown, RunStartRead, RunStopRead, RawFunctor, outputVars, object, data, bounds
<1> QED BY <1>1, <1>2, <1>3 DEF Functors

\* ... the timer, the other threads, the server and the peer ...
LEMMA OthersKeepOutput ==
    ASSUME TimerFires \/ UserStep \/ Environment
    PROVE  UNCHANGED outputVars
  BY DEF TimerFires, UserStep, UserSets, UserQueues, Environment, ServerRemoves, ServerDestroyed,
     PeerSends, PeerCloses, PeerFollows, outputVars, object, data, bounds

\* ... nor the application, unless it calls send() in the loop thread.
LEMMA ApplicationKeepsOutput ==
    ASSUME Application
    PROVE  \/ \E m \in usage.messages : CallbackSend(m)
           \/ UNCHANGED outputVars
<1>1. CallbackShutdown \/ CallbackForceClose \/ CallbackForceCloseWithDelay => UNCHANGED outputVars
  BY DEF CallbackShutdown, CallbackForceClose, CallbackForceCloseWithDelay, outputVars, data
<1>2. CallbackStartRead \/ CallbackStopRead \/ CallbackHandsOver => UNCHANGED outputVars
  BY DEF CallbackStartRead, CallbackStopRead, CallbackHandsOver, outputVars, object, data, bounds
<1>3. ASSUME NEW m, UserTestsSend(m) PROVE UNCHANGED outputVars
  BY <1>3 DEF UserTestsSend, outputVars, object, data
<1>4. ASSUME NEW kind, UserTests(kind) PROVE UNCHANGED outputVars
  BY <1>4 DEF UserTests, outputVars, object, data
<1>5. UserDrops => UNCHANGED outputVars
  BY DEF UserDrops, outputVars, object, data, bounds
<1> QED BY <1>1, <1>2, <1>3, <1>4, <1>5 DEF Application

\* What was written and what is buffered make up what was accepted.
LEMMA DataInvariant == Spec => []DataInv
<1>1. Init => DataInv
  <2> SUFFICES ASSUME Init PROVE DataInv
    OBVIOUS
  <2>1. <<>> \in Seq(Chunk)
    OBVIOUS
  <2>2. <<>> \o <<>> = <<>>
    BY <2>1, ConcatEmptySeq, Zenon
  <2> QED BY <2>1, <2>2 DEF Init, DataInv, WireInOrder
<1>2. DataInv /\ [Next]_vars => DataInv'
  <2> SUFFICES ASSUME DataInv, [Next]_vars PROVE DataInv'
    OBVIOUS
  <2>1. CASE UNCHANGED outputVars
    BY <2>1 DEF DataInv, WireInOrder, outputVars
  <2>2. ASSUME NEW m \in Messages, RunSend(m) PROVE DataInv'
    BY <2>2, SendKeepsOrder DEF RunSend, RawFunctor, bounds
  <2>3. ASSUME NEW m \in usage.messages, CallbackSend(m) PROVE DataInv'
    <3>1. m \in Messages
      BY UsageAssumption DEF DataInv, UsageType
    <3> QED BY <2>3, <3>1, SendKeepsOrder DEF CallbackSend
  <2>4. CASE HandleWrite
    BY <2>4, WriteKeepsOrder
  <2>5. CASE UNCHANGED vars
    BY <2>1, <2>5 DEF vars, outputVars
  <2> QED
    BY <2>1, <2>2, <2>3, <2>4, <2>5, EventsKeepOutput, FunctorsKeepOutput, OthersKeepOutput,
       ApplicationKeepsOutput DEF Next
<1> QED BY <1>1, <1>2, PTL DEF Spec

\* Chunks reach the socket in the order of the sends (lines 124-188, 342-372), whatever
\* the program calls from its callbacks and from other threads.
THEOREM TcpConnectionWireInOrder == Spec => []WireInOrder
  BY DataInvariant, PTL DEF DataInv

-----------------------------------------------------------------------------
(***************************************************************************)
(* connectEstablished is the first functor and the only one of its kind.   *)
(***************************************************************************)

FunctorKinds == Calls \cup {"established", "destroyed", "writeComplete", "highWater"}
Functor == FunctorKinds \X (Messages \cup {""})
LaterFunctor == {f \in Functor : f[1] # "established"}

UserPlaces == {<<"idle", "">>} \cup (Calls \X {"set", "queue"}) \cup (Messages \X {"send"})

\* established is at the front, and only of a connection that is connecting
Front(q, state) ==
    /\ q \in Seq(Functor)
    /\ \A k \in 1..Len(q) : q[k][1] = "established" => k = 1 /\ state = "kConnecting"

Connecting ==
    /\ todo = <<>> /\ user = <<"idle", "">> /\ keeps = "no" /\ ~added
    /\ queue # <<>> /\ queue[1][1] = "established"

FrontInv ==
    /\ Front(queue, state_)
    /\ batch \in Nat /\ batch <= Len(queue)
    /\ user \in UserPlaces
    /\ state_ = "kConnecting" => Connecting

\* A sequence of one element.
LEMMA Single ==
    ASSUME NEW S, NEW x \in S
    PROVE  <<x>> \in Seq(S) /\ Len(<<x>>) = 1 /\ <<x>>[1] = x /\ <<x>> # <<>>
  OBVIOUS

\* The places of another thread in a call.
LEMMA UserPlace ==
    ASSUME user \in UserPlaces
    PROVE  /\ user[2] \in {"set", "queue"} => user # <<"idle", "">> /\ user[1] \in Calls
           /\ user[2] = "send" => user # <<"idle", "">> /\ user[1] \in Messages
<1> DEFINE idle == <<"idle", "">>
<1>1. idle[2] = ""
  OBVIOUS
<1> HIDE DEF idle
<1>2. CASE user = idle
  BY <1>1, <1>2
<1>3. CASE user \in Calls \X {"set", "queue"}
  <2>1. user[1] \in Calls /\ user[2] \in {"set", "queue"}
    BY <1>3
  <2> QED BY <1>1, <2>1 DEF idle
<1>4. CASE user \in Messages \X {"send"}
  <2>1. user[1] \in Messages /\ user[2] = "send"
    BY <1>4
  <2> QED BY <1>1, <2>1 DEF idle
<1> QED BY <1>2, <1>3, <1>4 DEF UserPlaces, idle

\* What is queued later stands behind.
LEMMA FrontAppend ==
    ASSUME NEW q, NEW state, Front(q, state), NEW f \in LaterFunctor
    PROVE  /\ Front(Append(q, f), state)
           /\ Append(q, f) # <<>>
           /\ q # <<>> => Append(q, f)[1] = q[1]
<1>1. q \in Seq(Functor) /\ f \in Functor /\ f[1] # "established"
  BY DEF Front, LaterFunctor
<1>2. /\ Append(q, f) \in Seq(Functor)
      /\ Len(Append(q, f)) = Len(q) + 1
      /\ \A i \in 1..Len(q) : Append(q, f)[i] = q[i]
      /\ Append(q, f)[Len(q) + 1] = f
      /\ Append(q, f) # <<>>
  BY <1>1, AppendProperties
<1>3. q # <<>> => 1 \in 1..Len(q)
  BY <1>1
<1>4. \A k \in 1..Len(Append(q, f)) : k \in 1..Len(q) \/ k = Len(q) + 1
  BY <1>1, <1>2
<1> QED BY <1>1, <1>2, <1>3, <1>4 DEF Front

\* Once the first functor is taken, established is gone.
LEMMA FrontTail ==
    ASSUME NEW q, NEW state, NEW state2, Front(q, state), q # <<>>
    PROVE  Front(Tail(q), state2)
<1>1. q \in Seq(Functor)
  BY DEF Front
<1>2. /\ Tail(q) \in Seq(Functor)
      /\ Len(Tail(q)) = Len(q) - 1
      /\ \A i \in 1..Len(Tail(q)) : Tail(q)[i] = q[i + 1]
  BY <1>1, HeadTailProperties
<1>3. \A i \in 1..Len(Tail(q)) : i + 1 \in 1..Len(q) /\ i + 1 # 1
  BY <1>1, <1>2
<1> QED BY <1>2, <1>3 DEF Front

\* Unless the connection is connecting there is no such functor.
LEMMA FrontLater ==
    ASSUME NEW q, NEW state, NEW state2, Front(q, state), state # "kConnecting"
    PROVE  Front(q, state2)
  BY DEF Front

\* sendInLoop queues callbacks behind what is there.
LEMMA FrontSend ==
    ASSUME NEW q, NEW state, Front(q, state), NEW m, SendInLoop(m, q)
    PROVE  /\ Front(queue', state) /\ Len(queue') >= Len(q)
           /\ state_' = state_
<1>1. q \in Seq(Functor)
  BY DEF Front
<1>2. CASE queue' = q
  BY <1>1, <1>2 DEF SendInLoop, object
<1>3. ASSUME NEW f \in LaterFunctor, queue' = q \o <<f>>
      PROVE  Front(queue', state) /\ Len(queue') >= Len(q)
  <2>1. q \o <<f>> = Append(q, f)
    <3>1. f \in Functor
      BY DEF LaterFunctor
    <3> QED BY <1>1, <3>1, AppendIsConcat
  <2>2. Front(Append(q, f), state)
    BY FrontAppend
  <2>3. Len(Append(q, f)) = Len(q) + 1
    BY <1>1
  <2>4. queue' = Append(q, f)
    BY <1>3, <2>1
  <2>5. Front(queue', state)
    BY <2>2, <2>4, Zenon
  <2>6. Len(queue') = Len(q) + 1 /\ Len(q) \in Nat
    BY <1>1, <2>3, <2>4
  <2> QED BY <2>5, <2>6
<1>4. \/ queue' = q
      \/ \E n, l : queue' = q \o SendCallbacks(n, l)
  BY DEF SendInLoop
<1>5. \A n, l : SendCallbacks(n, l) \in {<<>>, << <<"writeComplete", "">> >>, << <<"highWater", "">> >>}
  BY DEF SendCallbacks
<1>6. <<"writeComplete", "">> \in LaterFunctor /\ <<"highWater", "">> \in LaterFunctor
  BY DEF LaterFunctor, Functor, FunctorKinds
<1>7. q \o <<>> = q
  BY <1>1, ConcatEmptySeq
<1>8. state_' = state_
  BY DEF SendInLoop, object
<1> QED
  <2>1. CASE \E f \in LaterFunctor : queue' = q \o <<f>>
    BY <1>3, <1>8, <2>1
  <2>2. queue' = q \/ \E f \in LaterFunctor : queue' = q \o <<f>>
    BY <1>4, <1>5, <1>6, <1>7
  <2> QED BY <1>2, <1>8, <2>1, <2>2

\* A step of a connection that is not connecting.
LEMMA FrontStep ==
    ASSUME FrontInv, state_ # "kConnecting", state_' # "kConnecting", user' \in UserPlaces,
           batch' = batch,
           \/ queue' = queue
           \/ \E f \in LaterFunctor : queue' = Append(queue, f)
    PROVE  FrontInv'
<1>1. Front(queue, state_')
  BY FrontLater DEF FrontInv
<1>2. Front(queue', state_')
  BY <1>1, FrontAppend
<1>3. batch <= Len(queue')
  BY FrontAppend DEF FrontInv, Front
<1> QED BY <1>2, <1>3 DEF FrontInv

\* A step of a connection that is connecting.
LEMMA ConnectingStep ==
    ASSUME FrontInv, state_ = "kConnecting", UNCHANGED <<state_, todo, user, keeps, added, batch>>,
           \/ queue' = queue
           \/ \E f \in LaterFunctor : queue' = Append(queue, f)
    PROVE  FrontInv'
<1>1. Front(queue', state_') /\ queue' # <<>> /\ queue'[1] = queue[1]
  BY FrontAppend DEF FrontInv, Connecting
<1>2. batch <= Len(queue')
  BY FrontAppend DEF FrontInv, Front
<1> QED BY <1>1, <1>2 DEF FrontInv, Connecting

\* The next functor of the batch is taken from the queue.
LEMMA RunStep ==
    ASSUME FrontInv, NEW kind, Run(kind)
    PROVE  /\ queue # <<>> /\ Front(Tail(queue), state_')
           /\ Len(Tail(queue)) = Len(queue) - 1
           /\ batch' \in Nat /\ batch' <= Len(Tail(queue))
           /\ Head(queue) \in Functor /\ queue[1][1] = kind
           /\ state_ = "kConnecting" <=> kind = "established"
<1>1. queue \in Seq(Functor) /\ batch \in Nat /\ batch <= Len(queue)
  BY DEF FrontInv, Front
<1>2. batch > 0 /\ batch' = batch - 1 /\ Head(queue)[1] = kind
  BY DEF Run
<1>3. queue # <<>>
  BY <1>1, <1>2
<1>4. /\ Len(Tail(queue)) = Len(queue) - 1
      /\ Head(queue) \in Functor /\ Head(queue) = queue[1] /\ 1 \in 1..Len(queue)
  BY <1>1, <1>3
<1>5. Front(Tail(queue), state_')
  BY <1>3, FrontTail DEF FrontInv
<1>6. state_ = "kConnecting" <=> kind = "established"
  BY <1>2, <1>4 DEF FrontInv, Front, Connecting
<1> QED BY <1>1, <1>2, <1>3, <1>4, <1>5, <1>6

\* No event is handled before connectEstablished.
LEMMA EventsFront ==
    ASSUME FrontInv, Events
    PROVE  FrontInv'
<1>1. state_ # "kConnecting"
  BY DEF FrontInv, Connecting, Events, Poll, CloseEvent, HandleError, HandleRead, HandleWrite,
     CallbackReturns, CloseCallback, RemoveChannel
<1>2. state_' # "kConnecting"
  BY <1>1 DEF Events, Poll, CloseEvent, HandleError, HandleRead, HandleWrite,
     CallbackReturns, CloseCallback, RemoveChannel, HandleClose, object
<1>3. user' = user /\ batch' = batch
  BY DEF Events, Poll, CloseEvent, HandleError, HandleRead, HandleWrite,
     CallbackReturns, CloseCallback, RemoveChannel
<1>4. queue' = queue \/ queue' = Append(queue, <<"writeComplete", "">>)
  BY DEF Events, Poll, CloseEvent, HandleError, HandleRead, HandleWrite, Queue,
     CallbackReturns, CloseCallback, RemoveChannel
<1>5. <<"writeComplete", "">> \in LaterFunctor
  BY DEF LaterFunctor, Functor, FunctorKinds
<1> QED BY <1>1, <1>2, <1>3, <1>4, <1>5, FrontStep DEF FrontInv

\* connectEstablished runs first, every other functor later.
LEMMA FunctorsFront ==
    ASSUME FrontInv, Functors
    PROVE  FrontInv'
<1>1. CASE SwapFunctors \/ FunctorsDone
  <2>1. UNCHANGED <<state_, todo, user, keeps, added, queue>>
    BY <1>1 DEF SwapFunctors, FunctorsDone, object
  <2>2. batch' \in Nat /\ batch' <= Len(queue)
    BY <1>1 DEF SwapFunctors, FunctorsDone, FrontInv, Front
  <2> QED BY <2>1, <2>2 DEF FrontInv, Connecting, Front
<1>2. ASSUME NEW kind, Run(kind), user' = user, state_' # "kConnecting", queue' = Tail(queue)
      PROVE  FrontInv'
  BY <1>2, RunStep DEF FrontInv
<1>3. CASE ConnectEstablished
  BY <1>2, <1>3 DEF ConnectEstablished
<1>4. CASE ConnectDestroyed
  <2>1. Run("destroyed")
    BY <1>4 DEF ConnectDestroyed
  <2>2. state_ # "kConnecting"
    BY <2>1, RunStep
  <2> QED BY <1>2, <1>4, <2>1, <2>2 DEF ConnectDestroyed
<1>5. CASE ForceCloseInLoop
  <2>1. Run("forceClose")
    BY <1>5 DEF ForceCloseInLoop
  <2>2. state_ # "kConnecting"
    BY <2>1, RunStep
  <2> QED BY <1>2, <1>5, <2>1, <2>2 DEF ForceCloseInLoop, HandleClose, object
<1>6. CASE UserCallback
  <2>1. PICK kind \in {"writeComplete", "highWater"} : Run(kind)
    BY <1>6 DEF UserCallback
  <2>2. state_ # "kConnecting"
    BY <2>1, RunStep
  <2> QED BY <1>2, <1>6, <2>1, <2>2 DEF UserCallback, object
<1>7. ASSUME NEW m \in Messages, RunSend(m) PROVE FrontInv'
  <2>1. Run("send") /\ user' = user /\ SendInLoop(m, Tail(queue))
    BY <1>7 DEF RunSend, RawFunctor
  <2>2. /\ state_ # "kConnecting" /\ Front(Tail(queue), state_')
        /\ Tail(queue) \in Seq(Functor)
        /\ batch' \in Nat /\ batch' <= Len(Tail(queue))
    BY <2>1, RunStep DEF Front
  <2>3. Front(queue', state_') /\ Len(queue') >= Len(Tail(queue)) /\ state_' = state_
    BY <2>1, <2>2, FrontSend
  <2>4. batch' <= Len(queue')
    BY <2>2, <2>3 DEF Front
  <2> QED BY <2>1, <2>2, <2>3, <2>4 DEF FrontInv
<1>8. CASE RunShutdown \/ RunStartRead \/ RunStopRead
  <2>1. PICK kind \in {"shutdown", "startRead", "stopRead"} : Run(kind)
    BY <1>8 DEF RunShutdown, RunStartRead, RunStopRead, RawFunctor
  <2>2. state_ # "kConnecting"
    BY <2>1, RunStep
  <2> QED
    BY <1>2, <1>8, <2>1, <2>2 DEF RunShutdown, RunStartRead, RunStopRead, RawFunctor, object
<1> QED BY <1>1, <1>3, <1>4, <1>5, <1>6, <1>7, <1>8 DEF Functors

\* The application has no pointer before connectEstablished calls it back.
LEMMA ApplicationFront ==
    ASSUME FrontInv, Application, usage \in Usages
    PROVE  FrontInv'
<1>1. state_ # "kConnecting"
  BY DEF FrontInv, Connecting, Application, CallbackSend, UserTestsSend, CallbackShutdown,
     CallbackForceClose, CallbackForceCloseWithDelay, CallbackStartRead, CallbackStopRead,
     CallbackHandsOver, UserTests, UserDrops, InCallback
<1>2. usage.messages \subseteq Messages /\ usage.user \subseteq Calls
  BY UsageAssumption DEF UsageType
<1>3. ASSUME NEW m \in usage.messages, CallbackSend(m) PROVE FrontInv'
  <2>1. SendInLoop(m, queue) /\ UNCHANGED <<user, batch>>
    BY <1>3 DEF CallbackSend
  <2>2. Front(queue', state_) /\ Len(queue') >= Len(queue) /\ state_' = state_
    BY <2>1, FrontSend DEF FrontInv
  <2>3. batch' \in Nat /\ batch' <= Len(queue')
    BY <2>1, <2>2 DEF FrontInv, Front
  <2> QED BY <1>1, <2>1, <2>2, <2>3 DEF FrontInv
<1>4. ASSUME NEW m \in usage.messages, UserTestsSend(m) PROVE FrontInv'
  <2>1. user' = <<m, "send">> /\ UNCHANGED <<state_, queue, batch>>
    BY <1>4 DEF UserTestsSend, object
  <2>2. user' \in UserPlaces
    BY <1>2, <2>1 DEF UserPlaces
  <2> QED BY <1>1, <2>1, <2>2, FrontStep
<1>5. ASSUME NEW kind \in usage.user \ {"send"}, UserTests(kind) PROVE FrontInv'
  <2>1. /\ user' = <<kind, IF kind \in Closing THEN "set" ELSE "queue">>
        /\ UNCHANGED <<state_, queue, batch>>
    BY <1>5 DEF UserTests, object
  <2>2. user' \in UserPlaces
    BY <1>2, <2>1 DEF UserPlaces
  <2> QED BY <1>1, <2>1, <2>2, FrontStep
<1>6. CASE CallbackShutdown \/ CallbackForceClose \/ CallbackForceCloseWithDelay
  <2>1. /\ state_' # "kConnecting" /\ user' = user /\ batch' = batch
        /\ queue' = queue \/ queue' = Append(queue, <<"forceClose", "">>)
    BY <1>6 DEF CallbackShutdown, CallbackForceClose, CallbackForceCloseWithDelay, threads, Queue
  <2>2. <<"forceClose", "">> \in LaterFunctor
    BY DEF LaterFunctor, Functor, FunctorKinds, Calls
  <2> QED BY <1>1, <2>1, <2>2, FrontStep DEF FrontInv
<1>7. CASE CallbackStartRead \/ CallbackStopRead \/ CallbackHandsOver \/ UserDrops
  <2>1. UNCHANGED <<state_, queue, user, batch>>
    BY <1>7 DEF CallbackStartRead, CallbackStopRead, CallbackHandsOver, UserDrops, threads, object
  <2> QED BY <1>1, <2>1, FrontStep DEF FrontInv
<1> QED BY <1>3, <1>4, <1>5, <1>6, <1>7 DEF Application

\* The timer, the other threads and the peer queue behind.
LEMMA OthersFront ==
    ASSUME FrontInv, TimerFires \/ UserStep \/ Environment
    PROVE  FrontInv'
<1>1. <<"forceClose", "">> \in LaterFunctor /\ <<"destroyed", "">> \in LaterFunctor
  BY DEF LaterFunctor, Functor, FunctorKinds, Calls
<1>2. CASE TimerFires
  <2>1. UNCHANGED <<todo, user, keeps, added, batch>>
    BY <1>2 DEF TimerFires
  <2>2. CASE UNCHANGED <<state_, queue>>
    BY <2>1, <2>2, FrontStep, ConnectingStep DEF FrontInv
  <2>3. CASE state_ # "kConnecting" /\ state_' = "kDisconnecting" /\ queue' = Append(queue, <<"forceClose", "">>)
    BY <1>1, <2>1, <2>3, FrontStep DEF FrontInv
  <2> QED BY <1>2, <2>2, <2>3 DEF TimerFires, Queue
<1>3. CASE UserSets
  <2>1. user[2] = "set" /\ user' = <<user[1], "queue">> /\ state_' = "kDisconnecting"
        /\ UNCHANGED <<queue, batch>>
    BY <1>3 DEF UserSets
  <2>2. user # <<"idle", "">> /\ user[1] \in Calls
    BY <2>1, UserPlace DEF FrontInv
  <2>3. user' \in UserPlaces /\ state_ # "kConnecting"
    BY <2>1, <2>2 DEF FrontInv, UserPlaces, Connecting
  <2> QED BY <2>1, <2>3, FrontStep
<1>4. CASE UserQueues
  <2>1. /\ user' = <<"idle", "">> /\ UNCHANGED <<state_, batch>>
        /\ user[2] \in {"queue", "send"}
        /\ \/ queue' = queue
           \/ user[2] = "send" /\ queue' = Append(queue, <<"send", user[1]>>)
           \/ user[2] = "queue" /\ queue' = Append(queue, <<user[1], "">>)
    BY <1>4 DEF UserQueues, Queue, object
  <2>2. /\ user # <<"idle", "">>
        /\ user[2] = "send" => user[1] \in Messages
        /\ user[2] = "queue" => user[1] \in Calls
    BY <2>1, UserPlace DEF FrontInv
  <2>4. /\ state_ # "kConnecting"
        /\ user[2] = "send" => <<"send", user[1]>> \in LaterFunctor
        /\ user[2] = "queue" => <<user[1], "">> \in LaterFunctor
    BY <2>2 DEF FrontInv, Connecting, LaterFunctor, Functor, FunctorKinds, Calls
  <2>3. user' \in UserPlaces
    BY <2>1 DEF UserPlaces
  <2> QED BY <2>1, <2>3, <2>4, FrontStep
<1>5. CASE Environment
  <2>1. UNCHANGED <<state_, todo, user, keeps, added, batch>>
    BY <1>5 DEF Environment, ServerRemoves, ServerDestroyed, PeerSends, PeerCloses, PeerFollows,
       object, threads
  <2>2. queue' = queue \/ queue' = Append(queue, <<"destroyed", "">>)
    BY <1>5 DEF Environment, ServerRemoves, ServerDestroyed, PeerSends, PeerCloses, PeerFollows,
       threads, Queue
  <2> QED BY <1>1, <2>1, <2>2, FrontStep, ConnectingStep DEF FrontInv
<1> QED BY <1>2, <1>3, <1>4, <1>5 DEF UserStep

\* connectEstablished finds the connection in kConnecting, and everything else comes later.
LEMMA FrontInvariant == Spec => []FrontInv
<1>1. Init => FrontInv
  <2> SUFFICES ASSUME Init PROVE FrontInv
    OBVIOUS
  <2> DEFINE first == <<"established", "">>
  <2>1. queue = <<first>> /\ state_ = "kConnecting"
    BY DEF Init
  <2>2. first \in Functor /\ first[1] = "established"
    BY DEF Functor, FunctorKinds
  <2> HIDE DEF first
  <2>3. queue \in Seq(Functor) /\ Len(queue) = 1 /\ queue[1] = first /\ queue # <<>>
    BY <2>1, <2>2, Single
  <2>4. Front(queue, state_)
    <3>1. \A k \in 1..Len(queue) : k = 1
      BY <2>3
    <3>2. state_ = "kConnecting"
      BY DEF Init
    <3> QED BY <2>3, <3>1, <3>2, Zenon DEF Front
  <2>5. user = <<"idle", "">> /\ todo = <<>> /\ keeps = "no" /\ ~added /\ batch = 0
    BY DEF Init
  <2>6. user \in UserPlaces
    BY <2>5 DEF UserPlaces
  <2>7. Connecting
    BY <2>2, <2>3, <2>5 DEF Connecting
  <2>8. batch \in Nat /\ batch <= Len(queue)
    <3>1. batch = 0
      BY DEF Init
    <3>2. Len(queue) = 1
      BY <2>3
    <3> QED BY <3>1, <3>2
  <2> QED BY <2>4, <2>6, <2>7, <2>8 DEF FrontInv
<1>2. DataInv /\ FrontInv /\ [Next]_vars => FrontInv'
  <2> SUFFICES ASSUME DataInv, FrontInv, [Next]_vars PROVE FrontInv'
    OBVIOUS
  <2>1. usage \in Usages
    BY DEF DataInv
  <2>2. CASE UNCHANGED vars
    BY <2>2 DEF vars, FrontInv, Front, Connecting
  <2> QED BY <2>1, <2>2, EventsFront, FunctorsFront, ApplicationFront, OthersFront DEF Next
<1> QED BY <1>1, <1>2, DataInvariant, PTL DEF Spec

-----------------------------------------------------------------------------
(***************************************************************************)
(* SHUT_WR and the buffered output.                                        *)
(***************************************************************************)

\* A step that leaves the output alone: SHUT_WR is done only if the channel does not ask
\* for write events.
Gentle ==
    state_' # "kDisconnected" =>
        /\ state_ # "kDisconnected"
        /\ "write" \in events_' <=> "write" \in events_
        /\ outputBuffer_' = outputBuffer_
        /\ wrShut' => wrShut \/ "write" \notin events_

\* Such a step cuts nothing off.
LEMMA GentleStep ==
    ASSUME ShutdownAfterOutput, Gentle
    PROVE  ShutdownAfterOutput'
  BY DEF ShutdownAfterOutput, WritingIffBuffered, Gentle

\* What sendInLoop buffers is written before SHUT_WR, since after it nothing is buffered.
LEMMA SendSafe ==
    ASSUME DataInv, ShutdownAfterOutput, NEW m \in Messages, NEW q, SendInLoop(m, q),
           UNCHANGED wrShut
    PROVE  ShutdownAfterOutput'
<1>1. CASE UNCHANGED object
  BY <1>1 DEF object, ShutdownAfterOutput, WritingIffBuffered
<1>2. ASSUME NEW n \in 0..ChunksPerMessage, NEW left,
             left = SubSeq(Chunks(m), n + 1, ChunksPerMessage),
             ~ (WritesDirectly /\ Broken), WritesDirectly \/ n = 0,
             state_ # "kDisconnected", state_' = state_,
             outputBuffer_' = outputBuffer_ \o left,
             IF left # <<>> /\ "write" \notin events_
             THEN events_' = events_ \cup {"write"} ELSE events_' = events_
      PROVE  ShutdownAfterOutput'
  <2>1. Chunks(m) \in Seq(Chunk) /\ Len(Chunks(m)) = ChunksPerMessage
    BY ChunksType
  <2>2. left \in Seq(Chunk) /\ (left = <<>> <=> n = ChunksPerMessage)
    BY <1>2, <2>1, Split
  <2>3. outputBuffer_ \in Seq(Chunk)
    BY DEF DataInv
  <2>4. outputBuffer_' = <<>> <=> outputBuffer_ = <<>> /\ left = <<>>
    BY <1>2, <2>2, <2>3, ConcatEqualIffEmpty
  <2>5. "write" \in events_ <=> outputBuffer_ # <<>>
    BY <1>2 DEF ShutdownAfterOutput, WritingIffBuffered
  <2>6. left = <<>> => outputBuffer_ = <<>>
    BY <1>2, <2>2, SizeAssumption DEF WritesDirectly
  <2>7. "write" \in events_' <=> outputBuffer_' # <<>>
    BY <1>2, <2>4, <2>5, <2>6
  <2>8. ~wrShut
    BY <1>2, <2>5 DEF ShutdownAfterOutput, WritesDirectly, Broken
  <2> QED BY <2>7, <2>8 DEF ShutdownAfterOutput, WritingIffBuffered
<1>3. CASE state_ = "kDisconnected" \/ (WritesDirectly /\ Broken)
  BY <1>1, <1>3 DEF SendInLoop
<1>4. CASE ~ (state_ = "kDisconnected" \/ (WritesDirectly /\ Broken))
  <2>1. PICK n \in (IF WritesDirectly THEN 0..ChunksPerMessage ELSE {0}) :
           LET left == SubSeq(Chunks(m), n + 1, ChunksPerMessage)
           IN  /\ outputBuffer_' = outputBuffer_ \o left
               /\ IF left # <<>> /\ "write" \notin events_
                  THEN Update(events_ \cup {"write"})
                  ELSE UNCHANGED <<events_, added, addedToLoop_>>
               /\ state_' = state_
    BY <1>4 DEF SendInLoop
  <2>2. n \in 0..ChunksPerMessage /\ (WritesDirectly \/ n = 0)
    BY SizeAssumption
  <2> QED BY <1>2, <1>4, <2>1, <2>2 DEF Update
<1> QED BY <1>3, <1>4

\* handleWrite does a deferred SHUT_WR when the buffer is empty.
LEMMA WriteSafe ==
    ASSUME DataInv, ShutdownAfterOutput, HandleWrite
    PROVE  ShutdownAfterOutput'
<1>0. state_' = state_ /\ outputBuffer_ \in Seq(Chunk)
  BY DEF HandleWrite, DataInv
<1>1. CASE "write" \notin events_
  BY <1>1 DEF HandleWrite, ShutdownAfterOutput, WritingIffBuffered
<1>2. CASE "write" \in events_
  <2>1. PICK n \in (IF Broken THEN {0} ELSE 0..Len(outputBuffer_)) :
           LET left == SubSeq(outputBuffer_, n + 1, Len(outputBuffer_))
           IN  /\ outputBuffer_' = left
               /\ IF left = <<>> /\ n > 0
                  THEN Drained
                  ELSE UNCHANGED <<events_, wrShut>>
    BY <1>2 DEF HandleWrite
  <2> DEFINE left == SubSeq(outputBuffer_, n + 1, Len(outputBuffer_))
  <2>2. n \in 0..Len(outputBuffer_)
    BY <1>0
  <2>3. left = <<>> <=> n = Len(outputBuffer_)
    BY <1>0, <2>2, Split
  <2>4. n = 0 => left = outputBuffer_
    BY <1>0, SubSeqFull
  <2>5. outputBuffer_' = left /\ (IF left = <<>> /\ n > 0 THEN Drained ELSE UNCHANGED <<events_, wrShut>>)
    BY <2>1
  <2> HIDE DEF left
  <2>6. CASE left = <<>> /\ n > 0
    BY <1>0, <2>5, <2>6 DEF Drained, Update, ShutdownAfterOutput, WritingIffBuffered
  <2>7. CASE ~ (left = <<>> /\ n > 0)
    <3>1. left = <<>> <=> outputBuffer_ = <<>>
      BY <1>0, <2>2, <2>3, <2>4, <2>7
    <3> QED BY <1>0, <2>5, <2>7, <3>1 DEF ShutdownAfterOutput, WritingIffBuffered
  <2> QED BY <2>6, <2>7
<1> QED BY <1>1, <1>2

\* The other events leave the output alone.
LEMMA EventsGentle ==
    ASSUME Events
    PROVE  HandleWrite \/ Gentle
<1>1. CASE \E writable \in BOOLEAN : Poll(writable)
  BY <1>1 DEF Poll, Gentle, object, socket
<1>2. CASE CloseEvent \/ HandleError \/ CallbackReturns \/ CloseCallback \/ RemoveChannel
  BY <1>2 DEF CloseEvent, HandleError, CallbackReturns, CloseCallback, RemoveChannel, HandleClose,
     Gentle, object, socket
<1>3. CASE HandleRead
  BY <1>3 DEF HandleRead, HandleClose, Gentle, object
<1> QED BY <1>1, <1>2, <1>3 DEF Events

\* So do the functors other than sendInLoop.
LEMMA FunctorsGentle ==
    ASSUME FrontInv, Functors
    PROVE  \/ \E m \in Messages : RunSend(m)
           \/ Gentle
<1>1. CASE SwapFunctors \/ FunctorsDone \/ UserCallback
  BY <1>1 DEF SwapFunctors, FunctorsDone, UserCallback, Gentle, object, socket
<1>2. CASE ConnectEstablished
  <2>1. Run("established")
    BY <1>2 DEF ConnectEstablished
  <2>2. state_ = "kConnecting"
    BY <2>1, RunStep
  <2> QED BY <1>2, <2>2 DEF ConnectEstablished, Update, Gentle, socket
<1>3. CASE ConnectDestroyed
  BY <1>3 DEF ConnectDestroyed, Gentle, socket
<1>4. CASE ForceCloseInLoop
  BY <1>4 DEF ForceCloseInLoop, HandleClose, Gentle, object, socket
<1>5. CASE RunShutdown
  BY <1>5 DEF RunShutdown, ShutdownInLoop, Gentle, object
<1>6. CASE RunStartRead \/ RunStopRead
  <2>1. UNCHANGED <<state_, outputBuffer_, wrShut>>
    BY <1>6 DEF RunStartRead, RunStopRead
  <2>2. events_' = events_ \cup {"read"} \/ events_' = events_ \ {"read"} \/ events_' = events_
    BY <1>6 DEF RunStartRead, RunStopRead, StartReadInLoop, StopReadInLoop, Update
  <2> QED BY <2>1, <2>2 DEF Gentle
<1> QED BY <1>1, <1>2, <1>3, <1>4, <1>5, <1>6 DEF Functors

\* So does the application, unless it sends.
LEMMA ApplicationGentle ==
    ASSUME Application
    PROVE  \/ \E m \in usage.messages : CallbackSend(m)
           \/ Gentle
<1>1. CASE CallbackShutdown
  BY <1>1 DEF CallbackShutdown, ShutdownInLoop, Gentle
<1>2. CASE CallbackForceClose \/ CallbackForceCloseWithDelay
  BY <1>2 DEF CallbackForceClose, CallbackForceCloseWithDelay, Gentle, socket
<1>3. CASE CallbackStartRead \/ CallbackStopRead
  BY <1>3 DEF CallbackStartRead, CallbackStopRead, StartReadInLoop, StopReadInLoop, Update,
     Gentle, socket
<1>4. CASE CallbackHandsOver \/ UserDrops
  BY <1>4 DEF CallbackHandsOver, UserDrops, Gentle, object, socket
<1>5. ASSUME NEW m, UserTestsSend(m) PROVE Gentle
  BY <1>5 DEF UserTestsSend, Gentle, object, socket
<1>6. ASSUME NEW kind, UserTests(kind) PROVE Gentle
  BY <1>6 DEF UserTests, Gentle, object, socket
<1> QED BY <1>1, <1>2, <1>3, <1>4, <1>5, <1>6 DEF Application

\* So do the rest, as long as no call in another thread overwrites kDisconnected.
LEMMA OthersGentle ==
    ASSUME SetInTime, TimerFires \/ UserStep \/ Environment
    PROVE  Gentle
<1>1. CASE TimerFires
  BY <1>1 DEF TimerFires, Gentle, socket
<1>2. CASE UserSets
  BY <1>2 DEF UserSets, SetInTime, Gentle, socket
<1>3. CASE UserQueues
  BY <1>3 DEF UserQueues, Gentle, object, socket
<1>4. CASE Environment
  BY <1>4 DEF Environment, ServerRemoves, ServerDestroyed, PeerSends, PeerCloses, PeerFollows,
     Gentle, object, socket
<1> QED BY <1>1, <1>2, <1>3, <1>4 DEF UserStep

\* SHUT_WR never cuts off buffered output, and write events are asked for exactly while
\* there is some (lines 172-186, 200-208, 346-360), in every program in which no call of
\* another thread overwrites kDisconnected between its test of state_ and setState
\* (lines 192-194, which the comment there warns of).
THEOREM TcpConnectionShutdownAfterOutput == Spec /\ []SetInTime => []ShutdownAfterOutput
<1>1. Init => ShutdownAfterOutput
  BY DEF Init, ShutdownAfterOutput, WritingIffBuffered
<1>2. DataInv /\ FrontInv /\ SetInTime /\ ShutdownAfterOutput /\ [Next]_vars => ShutdownAfterOutput'
  <2> SUFFICES ASSUME DataInv, FrontInv, SetInTime, ShutdownAfterOutput, [Next]_vars
               PROVE  ShutdownAfterOutput'
    OBVIOUS
  <2>1. CASE Gentle
    BY <2>1, GentleStep
  <2>2. ASSUME NEW m \in Messages, RunSend(m) PROVE ShutdownAfterOutput'
    BY <2>2, SendSafe DEF RunSend
  <2>3. ASSUME NEW m \in usage.messages, CallbackSend(m) PROVE ShutdownAfterOutput'
    <3>1. m \in Messages
      BY UsageAssumption DEF DataInv, UsageType
    <3> QED BY <2>3, <3>1, SendSafe DEF CallbackSend, socket
  <2>4. CASE HandleWrite
    BY <2>4, WriteSafe
  <2>5. CASE UNCHANGED vars
    BY <2>5 DEF vars, ShutdownAfterOutput, WritingIffBuffered
  <2> QED
    BY <2>1, <2>2, <2>3, <2>4, <2>5, EventsGentle, FunctorsGentle, OthersGentle,
       ApplicationGentle DEF Next
<1> QED BY <1>1, <1>2, DataInvariant, FrontInvariant, PTL DEF Spec

-----------------------------------------------------------------------------
(***************************************************************************)
(* Types and counters.                                                     *)
(***************************************************************************)

\* a call of forceCloseWithDelay in another thread that has not added its timer
Delaying == user[2] \in {"set", "queue"} /\ user[1] = "forceCloseWithDelay"

CountInv ==
    /\ TypeOK
    /\ received \in 0..MaxIn /\ in <= received
    /\ timers <= calls
    /\ Delaying => timers < calls

counted == <<user, timers, calls, usage>>

\* The events change the state of the object and of its surroundings only.
LEMMA EventsCount ==
    ASSUME CountInv, usage \in Usages, Events
    PROVE  CountInv'
<1>1. UNCHANGED counted /\ UNCHANGED received
  BY DEF Events, Poll, CloseEvent, HandleError, HandleRead, HandleWrite, CallbackReturns,
     CloseCallback, RemoveChannel, counted, bounds
<1>2. UNCHANGED <<reading_, keeps>>
  BY DEF Events, Poll, CloseEvent, HandleError, HandleRead, HandleWrite, CallbackReturns,
     CloseCallback, RemoveChannel, HandleClose, object
<1>3. in' \in {in, 0} /\ peer' \in {peer, "reset"} /\ server' \in {server, "removing"}
  BY DEF Events, Poll, CloseEvent, HandleError, HandleRead, HandleWrite, CallbackReturns,
     CloseCallback, RemoveChannel, socket
<1>4. state_' \in {state_, "kDisconnected"} /\ events_' \subseteq events_
  BY DEF Events, Poll, CloseEvent, HandleError, HandleRead, HandleWrite, CallbackReturns,
     CloseCallback, RemoveChannel, HandleClose, Drained, Update, object
<1>5. added' \in BOOLEAN /\ addedToLoop_' \in BOOLEAN
  BY DEF Events, Poll, CloseEvent, HandleError, HandleRead, HandleWrite, CallbackReturns,
     CloseCallback, RemoveChannel, HandleClose, Drained, Update, object, CountInv, TypeOK
<1>6. Delaying' <=> Delaying
  BY <1>1 DEF Delaying, counted
<1>7. TypeOK'
  BY <1>1, <1>2, <1>3, <1>4, <1>5, SizeAssumption DEF CountInv, TypeOK, counted
<1> QED BY <1>1, <1>3, <1>6, <1>7, SizeAssumption DEF CountInv, TypeOK, counted

\* sendInLoop leaves the object alone or asks for write events.
LEMMA SendObject ==
    ASSUME NEW m, NEW q, SendInLoop(m, q)
    PROVE  /\ UNCHANGED <<state_, reading_>>
           /\ \/ UNCHANGED <<events_, added, addedToLoop_>>
              \/ /\ state_ # "kDisconnected"
                 /\ events_' = events_ \cup {"write"} /\ added' /\ addedToLoop_'
                 /\ added' \in BOOLEAN /\ addedToLoop_' \in BOOLEAN
  BY DEF SendInLoop, Update, object

\* The functors change the object only.
LEMMA FunctorsCount ==
    ASSUME CountInv, usage \in Usages, Functors
    PROVE  CountInv'
<1>1. ASSUME UNCHANGED counted, UNCHANGED <<keeps, server, peer, in, received>>,
             state_' \in {state_, "kConnected", "kDisconnected"},
             events_' \subseteq events_ \cup {"read", "write"},
             reading_' \in BOOLEAN, added' \in BOOLEAN, addedToLoop_' \in BOOLEAN
      PROVE  CountInv'
  <2>1. Delaying' <=> Delaying
    BY <1>1 DEF Delaying, counted
  <2>2. TypeOK'
    BY <1>1 DEF CountInv, TypeOK, counted
  <2> QED BY <1>1, <2>1, <2>2 DEF CountInv, counted
<1>2. CASE SwapFunctors \/ FunctorsDone \/ UserCallback
  BY <1>1, <1>2 DEF SwapFunctors, FunctorsDone, UserCallback, counted, object, socket, bounds,
     CountInv, TypeOK
<1>3. CASE ConnectEstablished \/ ConnectDestroyed \/ ForceCloseInLoop
  BY <1>1, <1>3 DEF ConnectEstablished, ConnectDestroyed, ForceCloseInLoop, HandleClose, Update,
     counted, object, socket, bounds, CountInv, TypeOK
<1>4. ASSUME NEW m \in Messages, RunSend(m) PROVE CountInv'
  BY <1>1, <1>4, SendObject DEF RunSend, RawFunctor, counted, bounds, CountInv, TypeOK
<1>5. CASE RunShutdown \/ RunStartRead \/ RunStopRead
  BY <1>1, <1>5 DEF RunShutdown, RunStartRead, RunStopRead, StartReadInLoop, StopReadInLoop,
     RawFunctor, Update, counted, object, bounds, CountInv, TypeOK
<1> QED BY <1>2, <1>3, <1>4, <1>5 DEF Functors

\* The calls of the application stay within their bound.
LEMMA ApplicationCount ==
    ASSUME CountInv, FrontInv, usage \in Usages, Application
    PROVE  CountInv'
<1>0. usage.maxCalls \in Nat /\ usage.user \subseteq Calls
  BY UsageAssumption DEF UsageType
<1>1. ASSUME UNCHANGED <<usage, server, peer, in, received>>,
             keeps' \in {"no", "yes", "dropped"},
             state_' \in {state_, "kDisconnecting"},
             events_' \subseteq events_ \cup {"read", "write"},
             reading_' \in BOOLEAN, added' \in BOOLEAN, addedToLoop_' \in BOOLEAN,
             calls' = calls \/ (calls' = calls + 1 /\ calls < usage.maxCalls),
             timers' \in {timers, timers + 1},
             timers' <= calls', Delaying' => timers' < calls'
      PROVE  CountInv'
  <2>1. TypeOK'
    <3>1. calls' \in 0..usage'.maxCalls
      BY <1>0, <1>1 DEF CountInv, TypeOK
    <3>2. timers' \in Nat
      BY <1>0, <1>1 DEF CountInv, TypeOK
    <3>3. timers' \in 0..usage'.maxCalls
      BY <1>0, <1>1, <3>1, <3>2
    <3> QED BY <1>1, <3>1, <3>3 DEF CountInv, TypeOK
  <2> QED BY <1>1, <2>1 DEF CountInv
<1>2. timers \in Nat /\ calls \in Nat /\ timers <= calls /\ (Delaying => timers < calls)
  BY <1>0 DEF CountInv, TypeOK
<1>3. user' = user => (Delaying' <=> Delaying)
  BY DEF Delaying
<1>4. ASSUME NEW m, CallbackSend(m) PROVE CountInv'
  BY <1>1, <1>2, <1>3, <1>4, SendObject DEF CallbackSend, socket, CountInv, TypeOK
<1>5. CASE CallbackShutdown \/ CallbackForceClose \/ CallbackForceCloseWithDelay
  <2>1. /\ user' = user /\ calls' = calls + 1 /\ calls < usage.maxCalls
        /\ timers' \in {timers, timers + 1}
    BY <1>5 DEF CallbackShutdown, CallbackForceClose, CallbackForceCloseWithDelay, MayCall, threads
  <2>2. timers' <= calls' /\ (Delaying' => timers' < calls')
    BY <1>2, <1>3, <2>1
  <2>3. /\ UNCHANGED <<usage, server, peer, in, received, keeps, events_, reading_, added, addedToLoop_>>
        /\ state_' = "kDisconnecting" \/ state_' = state_
    BY <1>5 DEF CallbackShutdown, CallbackForceClose, CallbackForceCloseWithDelay, threads, socket
  <2> QED BY <1>1, <2>1, <2>2, <2>3 DEF CountInv, TypeOK
<1>6. CASE CallbackStartRead \/ CallbackStopRead \/ CallbackHandsOver \/ UserDrops
  <2>1. /\ user' = user /\ timers' = timers
        /\ calls' = calls \/ (calls' = calls + 1 /\ calls < usage.maxCalls)
    BY <1>6 DEF CallbackStartRead, CallbackStopRead, CallbackHandsOver, UserDrops, MayCall,
       threads, bounds
  <2>2. timers' <= calls' /\ (Delaying' => timers' < calls')
    BY <1>2, <1>3, <2>1
  <2>3. UNCHANGED <<usage, server, peer, in, received, state_>> /\ keeps' \in {keeps, "yes", "dropped"}
    BY <1>6 DEF CallbackStartRead, CallbackStopRead, CallbackHandsOver, UserDrops, threads, socket,
       object, bounds
  <2>4. /\ events_' \subseteq events_ \cup {"read", "write"}
        /\ reading_' \in BOOLEAN /\ added' \in BOOLEAN /\ addedToLoop_' \in BOOLEAN
    BY <1>6 DEF CallbackStartRead, CallbackStopRead, CallbackHandsOver, UserDrops, StartReadInLoop,
       StopReadInLoop, Update, object, CountInv, TypeOK
  <2> QED BY <1>1, <2>1, <2>2, <2>3, <2>4 DEF CountInv, TypeOK
<1>7. ASSUME NEW m, UserTestsSend(m) PROVE CountInv'
  <2>1. ~Delaying'
    BY <1>7 DEF UserTestsSend, Delaying
  <2>2. calls' = calls /\ timers' = timers
    BY <1>7 DEF UserTestsSend
  <2>3. timers' <= calls'
    BY <1>2, <2>2
  <2>4. UNCHANGED <<usage, server, peer, in, received, keeps, state_, events_, reading_, added, addedToLoop_>>
    BY <1>7 DEF UserTestsSend, socket, object
  <2> QED BY <1>1, <2>1, <2>2, <2>3, <2>4 DEF CountInv, TypeOK
<1>8. ASSUME NEW kind \in usage.user \ {"send"}, UserTests(kind) PROVE CountInv'
  <2>1. calls' = calls + 1 /\ calls < usage.maxCalls /\ timers' = timers
    BY <1>8 DEF UserTests, MayCall
  <2>2. timers' <= calls' /\ timers' < calls'
    BY <1>2, <2>1
  <2>3. UNCHANGED <<usage, server, peer, in, received, keeps, state_, events_, reading_, added, addedToLoop_>>
    BY <1>8 DEF UserTests, socket, object
  <2> QED BY <1>1, <2>1, <2>2, <2>3 DEF CountInv, TypeOK
<1> QED BY <1>4, <1>5, <1>6, <1>7, <1>8 DEF Application

\* A timer stands for a call that was counted.
LEMMA OthersCount ==
    ASSUME CountInv, FrontInv, usage \in Usages, TimerFires \/ UserStep \/ Environment
    PROVE  CountInv'
<1>0. usage.maxCalls \in Nat
  BY UsageAssumption DEF UsageType
<1>1. timers \in Nat /\ calls \in Nat /\ timers <= calls /\ (Delaying => timers < calls)
  BY <1>0 DEF CountInv, TypeOK
<1>2. user' = user => (Delaying' <=> Delaying)
  BY DEF Delaying
<1>3. ASSUME UNCHANGED <<usage, calls, server, peer, in, received, keeps, events_, reading_, added, addedToLoop_>>,
             state_' \in {state_, "kDisconnecting"}, timers' \in Nat, timers' <= calls, Delaying' => timers' < calls
      PROVE  CountInv'
  <2>1. calls <= usage.maxCalls
    BY <1>0 DEF CountInv, TypeOK
  <2>2. timers' \in 0..usage.maxCalls
    BY <1>0, <1>1, <1>3, <2>1
  <2> QED BY <1>3, <2>2 DEF CountInv, TypeOK
<1>4. CASE TimerFires
  <2>1. timers > 0 /\ timers' = timers - 1 /\ user' = user
    BY <1>4 DEF TimerFires
  <2>2. timers' \in Nat /\ timers' <= calls /\ (Delaying' => timers' < calls)
    BY <1>1, <1>2, <2>1
  <2> QED BY <1>3, <1>4, <2>2 DEF TimerFires, socket, bounds
<1>5. CASE UserSets
  <2>1. Delaying' <=> Delaying
    BY <1>5 DEF UserSets, Delaying
  <2> QED BY <1>1, <1>3, <1>5, <2>1 DEF UserSets, socket, bounds
<1>6. CASE UserQueues
  <2>1. ~Delaying'
    BY <1>6 DEF UserQueues, Delaying
  <2>2. timers' = timers \/ (timers' = timers + 1 /\ Delaying)
    BY <1>6 DEF UserQueues, Delaying
  <2>3. timers' \in Nat /\ timers' <= calls
    BY <1>1, <2>1, <2>2
  <2> QED BY <1>3, <1>6, <2>1, <2>3 DEF UserQueues, socket, object, bounds
<1>7. CASE Environment
  <2>1. UNCHANGED <<user, timers, usage, calls, keeps, state_, events_, reading_, added, addedToLoop_>>
    BY <1>7 DEF Environment, ServerRemoves, ServerDestroyed, PeerSends, PeerCloses, PeerFollows,
       threads, object, bounds
  <2>2. server' \in {server, "removed", "gone"} /\ peer' \in {peer, "fin", "rst"}
    BY <1>7 DEF Environment, ServerRemoves, ServerDestroyed, PeerSends, PeerCloses, PeerFollows,
       threads, socket
  <2>3. \/ in' \in {0, in} /\ received' = received
        \/ in' = in + 1 /\ received' = received + 1 /\ received < MaxIn
    BY <1>7 DEF Environment, ServerRemoves, ServerDestroyed, PeerSends, PeerCloses, PeerFollows,
       socket, bounds
  <2>4. MaxIn \in Nat /\ in \in Nat /\ received \in Nat /\ in <= received /\ received <= MaxIn
    BY SizeAssumption DEF CountInv, TypeOK
  <2>5. received' \in 0..MaxIn /\ in' \in 0..MaxIn /\ in' <= received'
    BY <2>3, <2>4
  <2> QED BY <1>2, <2>1, <2>2, <2>5 DEF CountInv, TypeOK
<1> QED BY <1>4, <1>5, <1>6, <1>7 DEF UserStep

\* The variables keep their types, and every timer and every call in progress was counted.
LEMMA CountInvariant == Spec => []CountInv
<1>1. Init => CountInv
  <2> SUFFICES ASSUME Init PROVE CountInv
    OBVIOUS
  <2>1. usage \in Usages /\ usage.maxCalls \in Nat
    BY UsageAssumption DEF Init, UsageType
  <2>2. ~Delaying
    BY DEF Init, Delaying
  <2>3. timers = 0 /\ calls = 0 /\ in = 0 /\ received = 0
    BY DEF Init
  <2>4. in \in 0..MaxIn /\ calls \in 0..usage.maxCalls /\ timers \in 0..usage.maxCalls
    BY <2>1, <2>3, SizeAssumption
  <2>5. TypeOK
    BY <2>4 DEF Init, TypeOK
  <2> QED BY <2>2, <2>3, <2>5, SizeAssumption DEF CountInv
<1>2. DataInv /\ FrontInv /\ CountInv /\ [Next]_vars => CountInv'
  <2> SUFFICES ASSUME DataInv, FrontInv, CountInv, [Next]_vars PROVE CountInv'
    OBVIOUS
  <2>1. usage \in Usages
    BY DEF DataInv
  <2>2. CASE UNCHANGED vars
    BY <2>2 DEF vars, CountInv, TypeOK, Delaying
  <2> QED BY <2>1, <2>2, EventsCount, FunctorsCount, ApplicationCount, OthersCount DEF Next
<1> QED BY <1>1, <1>2, DataInvariant, FrontInvariant, PTL DEF Spec

-----------------------------------------------------------------------------
(***************************************************************************)
(* Where functors and timers come from, and who holds a pointer.           *)
(***************************************************************************)

Kinds(q) == {q[k][1] : k \in 1..Len(q)}

\* the functors of another thread's calls that are bound to a plain `this`
Raw == {"send", "shutdown", "startRead", "stopRead"}

Forcing == {"forceClose", "forceCloseWithDelay"}
Made == usage.callback \cup usage.user

\* every functor, timer and call in progress comes from a call the program makes
CallsInv ==
    /\ \A kind \in Raw : kind \in Kinds(queue) => kind \in usage.user
    /\ "forceClose" \in Kinds(queue) => Made \cap Forcing # {}
    /\ timers > 0 => "forceCloseWithDelay" \in Made
    /\ user[2] = "send" => "send" \in usage.user
    /\ user[2] \in {"set", "queue"} => user[1] \in usage.user \ {"send"}
    /\ user[2] = "set" => user[1] \in Closing

\* the user thread had a pointer when it called, and drops it only between calls
PointerInv ==
    /\ user # <<"idle", "">> => keeps = "yes"
    /\ \A kind \in Raw : kind \in Kinds(queue) => keeps # "no"
    /\ keeps = "dropped" => "userDrops" \in usage.happens

UsageInv == CallsInv /\ PointerInv

\* Queueing a functor adds its kind.
LEMMA KindsAppend ==
    ASSUME NEW q \in Seq(Functor), NEW f \in Functor
    PROVE  Kinds(Append(q, f)) = Kinds(q) \cup {f[1]}
<1>1. /\ Append(q, f) \in Seq(Functor)
      /\ Len(Append(q, f)) = Len(q) + 1
      /\ \A i \in 1..Len(q) : Append(q, f)[i] = q[i]
      /\ Append(q, f)[Len(q) + 1] = f
  BY AppendProperties
<1>2. Len(q) \in Nat
  OBVIOUS
<1>3. \A k \in 1..Len(Append(q, f)) : k \in 1..Len(q) \/ k = Len(q) + 1
  BY <1>1, <1>2
<1>4. \A k \in 1..Len(q) : k \in 1..Len(Append(q, f))
  BY <1>1, <1>2
<1>5. Len(q) + 1 \in 1..Len(Append(q, f))
  BY <1>1, <1>2
<1> QED BY <1>1, <1>3, <1>4, <1>5 DEF Kinds

\* Running a functor removes at most its kind.
LEMMA KindsTail ==
    ASSUME NEW q \in Seq(Functor), q # <<>>
    PROVE  Kinds(q) = Kinds(Tail(q)) \cup {q[1][1]}
<1>1. /\ Tail(q) \in Seq(Functor)
      /\ Len(Tail(q)) = Len(q) - 1
      /\ \A i \in 1..Len(Tail(q)) : Tail(q)[i] = q[i + 1]
  BY HeadTailProperties
<1>2. Len(q) \in Nat /\ Len(q) >= 1
  OBVIOUS
<1>3. \A k \in 1..Len(q) : k = 1 \/ k - 1 \in 1..Len(Tail(q))
  BY <1>1, <1>2
<1>4. \A k \in 1..Len(Tail(q)) : k + 1 \in 1..Len(q)
  BY <1>1, <1>2
<1>5. 1 \in 1..Len(q)
  BY <1>2
<1>6. \A k \in 2..Len(q) : k - 1 \in 1..Len(Tail(q)) /\ Tail(q)[k - 1] = q[k]
  BY <1>1, <1>2
<1>7. \A k \in 1..Len(q) : k = 1 \/ k \in 2..Len(q)
  BY <1>2
<1>8. \A k \in 1..Len(q) : q[k][1] \in Kinds(Tail(q)) \cup {q[1][1]}
  BY <1>6, <1>7 DEF Kinds
<1>9. \A k \in 1..Len(Tail(q)) : Tail(q)[k][1] \in Kinds(q)
  BY <1>1, <1>4 DEF Kinds
<1> QED BY <1>5, <1>8, <1>9 DEF Kinds

\* The kind of the functor that runs was queued.
LEMMA RunKinds ==
    ASSUME FrontInv, NEW kind, Run(kind)
    PROVE  Kinds(queue) = Kinds(Tail(queue)) \cup {kind}
  BY RunStep, KindsTail DEF FrontInv, Front

\* sendInLoop queues callbacks only.
LEMMA KindsSend ==
    ASSUME NEW q \in Seq(Functor), NEW m, SendInLoop(m, q)
    PROVE  /\ Kinds(q) \subseteq Kinds(queue')
           /\ Kinds(queue') \subseteq Kinds(q) \cup {"writeComplete", "highWater"}
<1>1. ASSUME NEW f \in Functor, f[1] \in {"writeComplete", "highWater"}, queue' = q \o <<f>>
      PROVE  /\ Kinds(q) \subseteq Kinds(queue')
             /\ Kinds(queue') \subseteq Kinds(q) \cup {"writeComplete", "highWater"}
  <2>1. queue' = Append(q, f)
    BY <1>1, AppendIsConcat
  <2>2. Kinds(Append(q, f)) = Kinds(q) \cup {f[1]}
    BY KindsAppend
  <2>3. Kinds(queue') = Kinds(q) \cup {f[1]}
    BY <2>1, <2>2, Zenon
  <2> QED BY <1>1, <2>3
<1>2. \/ queue' = q
      \/ \E n, l : queue' = q \o SendCallbacks(n, l)
  BY DEF SendInLoop
<1>3. \A n, l : SendCallbacks(n, l) \in {<<>>, << <<"writeComplete", "">> >>, << <<"highWater", "">> >>}
  BY DEF SendCallbacks
<1>4. <<"writeComplete", "">> \in Functor /\ <<"highWater", "">> \in Functor
  BY DEF Functor, FunctorKinds
<1>5. q \o <<>> = q
  BY ConcatEmptySeq
<1>6. \/ queue' = q
      \/ queue' = q \o << <<"writeComplete", "">> >>
      \/ queue' = q \o << <<"highWater", "">> >>
  BY <1>2, <1>3, <1>5
<1> QED
  <2>1. CASE queue' = q
    BY <2>1
  <2>2. CASE queue' = q \o << <<"writeComplete", "">> >>
    BY <1>1, <1>4, <2>2
  <2>3. CASE queue' = q \o << <<"highWater", "">> >>
    BY <1>1, <1>4, <2>3
  <2> QED BY <1>6, <2>1, <2>2, <2>3

\* The functors that are queued, and their kinds.
LEMMA QueuedFunctors ==
    /\ <<"writeComplete", "">> \in Functor /\ <<"writeComplete", "">>[1] = "writeComplete"
    /\ <<"destroyed", "">> \in Functor /\ <<"destroyed", "">>[1] = "destroyed"
    /\ <<"forceClose", "">> \in Functor /\ <<"forceClose", "">>[1] = "forceClose"
  BY DEF Functor, FunctorKinds, Calls

\* The events queue the write-complete callback, if anything.
LEMMA EventsKinds ==
    ASSUME FrontInv, Events
    PROVE  /\ Kinds(queue) \subseteq Kinds(queue')
           /\ Kinds(queue') \subseteq Kinds(queue) \cup {"writeComplete"}
<1>1. queue' = queue \/ queue' = Append(queue, <<"writeComplete", "">>)
  BY DEF Events, Poll, CloseEvent, HandleError, HandleRead, HandleWrite, Queue,
     CallbackReturns, CloseCallback, RemoveChannel
<1>2. Kinds(Append(queue, <<"writeComplete", "">>)) = Kinds(queue) \cup {"writeComplete"}
  BY KindsAppend, QueuedFunctors DEF FrontInv, Front
<1>3. CASE queue' = queue
  BY <1>3
<1>4. CASE queue' = Append(queue, <<"writeComplete", "">>)
  BY <1>2, <1>4
<1> QED BY <1>1, <1>3, <1>4

\* A functor leaves the queue, and sendInLoop queues callbacks.
LEMMA FunctorsKinds ==
    ASSUME FrontInv, Functors
    PROVE  Kinds(queue') \subseteq Kinds(queue) \cup {"writeComplete", "highWater"}
<1>1. CASE SwapFunctors \/ FunctorsDone
  BY <1>1 DEF SwapFunctors, FunctorsDone
<1>2. ASSUME NEW kind, Run(kind), queue' = Tail(queue)
      PROVE  Kinds(queue') \subseteq Kinds(queue)
  BY <1>2, RunKinds
<1>3. CASE ConnectEstablished \/ ConnectDestroyed \/ ForceCloseInLoop \/ UserCallback
  BY <1>2, <1>3 DEF ConnectEstablished, ConnectDestroyed, ForceCloseInLoop, UserCallback
<1>4. CASE RunShutdown \/ RunStartRead \/ RunStopRead
  BY <1>2, <1>4 DEF RunShutdown, RunStartRead, RunStopRead, RawFunctor
<1>5. ASSUME NEW m, RunSend(m) PROVE Kinds(queue') \subseteq Kinds(queue) \cup {"writeComplete", "highWater"}
  <2>1. Run("send") /\ SendInLoop(m, Tail(queue))
    BY <1>5 DEF RunSend, RawFunctor
  <2>2. Tail(queue) \in Seq(Functor)
    BY <2>1, RunStep DEF Front
  <2>3. Kinds(queue') \subseteq Kinds(Tail(queue)) \cup {"writeComplete", "highWater"}
    BY <2>1, <2>2, KindsSend
  <2> QED BY <2>1, <2>3, RunKinds
<1> QED BY <1>1, <1>3, <1>4, <1>5 DEF Functors

\* A step that makes no call queues nothing but callbacks and connectDestroyed.
LEMMA UsageStep ==
    ASSUME UsageInv, UNCHANGED <<user, keeps, usage, timers>>,
           Kinds(queue') \subseteq Kinds(queue) \cup {"writeComplete", "highWater", "destroyed"}
    PROVE  UsageInv'
<1>1. CallsInv'
  BY DEF UsageInv, CallsInv, Made, Raw
<1>2. PointerInv'
  BY DEF UsageInv, PointerInv, Raw
<1> QED BY <1>1, <1>2 DEF UsageInv

\* The application makes only the calls of its usage, and only with a pointer.
LEMMA ApplicationUsage ==
    ASSUME FrontInv, UsageInv, usage \in Usages, Application
    PROVE  UsageInv'
<1>0. queue \in Seq(Functor) /\ usage.user \subseteq Calls
  BY UsageAssumption DEF FrontInv, Front, UsageType
<1>1. ASSUME NEW m, CallbackSend(m) PROVE UsageInv'
  <2>1. Kinds(queue') \subseteq Kinds(queue) \cup {"writeComplete", "highWater"}
    BY <1>0, <1>1, KindsSend DEF CallbackSend
  <2> QED BY <1>1, <2>1, UsageStep DEF CallbackSend
<1>2. CASE CallbackShutdown \/ CallbackStartRead \/ CallbackStopRead
  BY <1>2, UsageStep DEF CallbackShutdown, CallbackStartRead, CallbackStopRead, threads
<1>3. CASE CallbackForceClose
  <2>1. Kinds(Append(queue, <<"forceClose", "">>)) = Kinds(queue) \cup {"forceClose"}
    BY <1>0, KindsAppend, QueuedFunctors
  <2>2. Kinds(queue') = Kinds(queue) \cup {"forceClose"}
    BY <1>3, <2>1 DEF CallbackForceClose, Queue
  <2>3. "forceClose" \in Made /\ UNCHANGED <<user, keeps, usage, timers>>
    BY <1>3 DEF CallbackForceClose, MayCall, Made
  <2>4. CallsInv'
    BY <2>2, <2>3 DEF UsageInv, CallsInv, Made, Raw, Forcing
  <2>5. PointerInv'
    BY <2>2, <2>3 DEF UsageInv, PointerInv, Raw
  <2> QED BY <2>4, <2>5 DEF UsageInv
<1>4. CASE CallbackForceCloseWithDelay
  <2>1. "forceCloseWithDelay" \in Made /\ UNCHANGED <<user, keeps, usage, queue>>
    BY <1>4 DEF CallbackForceCloseWithDelay, MayCall, Made
  <2>2. CallsInv'
    BY <2>1 DEF UsageInv, CallsInv, Made
  <2>3. PointerInv'
    BY <2>1 DEF UsageInv, PointerInv
  <2> QED BY <2>2, <2>3 DEF UsageInv
<1>5. CASE CallbackHandsOver
  <2>1. keeps = "no" /\ keeps' = "yes" /\ UNCHANGED <<user, usage, timers, queue>>
    BY <1>5 DEF CallbackHandsOver, bounds
  <2> QED BY <2>1 DEF UsageInv, CallsInv, Made, PointerInv
<1>6. CASE UserDrops
  <2>1. /\ "userDrops" \in usage.happens /\ keeps = "yes" /\ keeps' = "dropped"
        /\ user = <<"idle", "">> /\ UNCHANGED <<user, usage, timers, queue>>
    BY <1>6 DEF UserDrops, bounds
  <2> QED BY <2>1 DEF UsageInv, CallsInv, Made, PointerInv
<1>7. ASSUME NEW m, UserTestsSend(m) PROVE UsageInv'
  <2>1. /\ user' = <<m, "send">> /\ "send" \in usage.user /\ keeps = "yes"
        /\ UNCHANGED <<keeps, usage, timers, queue>>
    BY <1>7 DEF UserTestsSend
  <2> QED BY <2>1 DEF UsageInv, CallsInv, Made, PointerInv
<1>8. ASSUME NEW kind \in usage.user \ {"send"}, UserTests(kind) PROVE UsageInv'
  <2>1. /\ user' = <<kind, IF kind \in Closing THEN "set" ELSE "queue">> /\ keeps = "yes"
        /\ UNCHANGED <<keeps, usage, timers, queue>>
    BY <1>8 DEF UserTests
  <2>2. user'[1] = kind /\ user'[2] # "send" /\ (user'[2] = "set" => kind \in Closing)
    BY <2>1
  <2>3. CallsInv'
    BY <1>8, <2>1, <2>2 DEF UsageInv, CallsInv, Made
  <2>4. PointerInv'
    BY <2>1 DEF UsageInv, PointerInv
  <2> QED BY <2>3, <2>4 DEF UsageInv
<1> QED BY <1>1, <1>2, <1>3, <1>4, <1>5, <1>6, <1>7, <1>8 DEF Application

\* So do the timer and the rest of a call.
LEMMA OthersUsage ==
    ASSUME FrontInv, CountInv, UsageInv, usage \in Usages, TimerFires \/ UserStep \/ Environment
    PROVE  UsageInv'
<1>0. queue \in Seq(Functor) /\ usage.maxCalls \in Nat
  BY UsageAssumption DEF FrontInv, Front, UsageType
<1>1. Kinds(Append(queue, <<"forceClose", "">>)) = Kinds(queue) \cup {"forceClose"}
  BY <1>0, KindsAppend, QueuedFunctors
<1>2. Kinds(Append(queue, <<"destroyed", "">>)) = Kinds(queue) \cup {"destroyed"}
  BY <1>0, KindsAppend, QueuedFunctors
<1>3. CASE TimerFires
  <2>1. /\ timers > 0 /\ UNCHANGED <<user, keeps, usage>>
        /\ queue' = queue \/ queue' = Append(queue, <<"forceClose", "">>)
    BY <1>3 DEF TimerFires, Queue, bounds
  <2>2. Kinds(queue') \subseteq Kinds(queue) \cup {"forceClose"}
    BY <1>1, <2>1
  <2>3. "forceCloseWithDelay" \in Made
    BY <2>1 DEF UsageInv, CallsInv
  <2>4. CallsInv'
    BY <2>1, <2>2, <2>3 DEF UsageInv, CallsInv, Made, Raw, Forcing
  <2>5. PointerInv'
    BY <2>1, <2>2 DEF UsageInv, PointerInv, Raw
  <2> QED BY <2>4, <2>5 DEF UsageInv
<1>4. CASE UserSets
  <2>1. user[2] = "set" /\ user' = <<user[1], "queue">> /\ UNCHANGED <<queue, keeps, usage, timers>>
    BY <1>4 DEF UserSets, bounds
  <2>2. user # <<"idle", "">>
    BY <2>1, UserPlace DEF FrontInv
  <2> QED BY <2>1, <2>2 DEF UsageInv, CallsInv, Made, PointerInv
<1>5. CASE UserQueues
  <2>1. user' = <<"idle", "">> /\ UNCHANGED <<keeps, usage>> /\ user[2] \in {"queue", "send"}
    BY <1>5 DEF UserQueues, bounds
  <2>2. keeps = "yes"
    BY <2>1, UserPlace DEF FrontInv, UsageInv, PointerInv
  <2>3. CASE user[2] = "send"
    <3>1. queue' = Append(queue, <<"send", user[1]>>) /\ UNCHANGED timers
      BY <1>5, <2>3 DEF UserQueues, Queue
    <3>2. <<"send", user[1]>> \in Functor /\ <<"send", user[1]>>[1] = "send"
      BY <2>3, UserPlace DEF FrontInv, Functor, FunctorKinds, Calls
    <3>3. Kinds(Append(queue, <<"send", user[1]>>)) = Kinds(queue) \cup {"send"}
      BY <1>0, <3>2, KindsAppend
    <3>4. Kinds(queue') = Kinds(queue) \cup {"send"}
      BY <3>1, <3>3
    <3>5. CallsInv'
      BY <2>1, <2>3, <3>1, <3>4 DEF UsageInv, CallsInv, Made, Raw
    <3>6. PointerInv'
      BY <2>1, <2>2 DEF PointerInv
    <3> QED BY <3>5, <3>6 DEF UsageInv
  <2>4. CASE user[2] = "queue" /\ user[1] = "forceCloseWithDelay"
    <3>1. UNCHANGED queue /\ user[1] \in usage.user
      BY <1>5, <2>4 DEF UserQueues, UsageInv, CallsInv
    <3>2. "forceCloseWithDelay" \in Made
      BY <2>4, <3>1 DEF Made
    <3> QED BY <2>1, <2>2, <3>1, <3>2 DEF UsageInv, CallsInv, Made, PointerInv
  <2>5. CASE user[2] = "queue" /\ user[1] # "forceCloseWithDelay"
    <3>1. queue' = Append(queue, <<user[1], "">>) /\ UNCHANGED timers
      BY <1>5, <2>5 DEF UserQueues, Queue
    <3>2. <<user[1], "">> \in Functor /\ <<user[1], "">>[1] = user[1]
      BY <2>5, UserPlace DEF FrontInv, Functor, FunctorKinds
    <3>3. Kinds(Append(queue, <<user[1], "">>)) = Kinds(queue) \cup {user[1]}
      BY <1>0, <3>2, KindsAppend
    <3>4. Kinds(queue') = Kinds(queue) \cup {user[1]} /\ user[1] \in usage.user
      BY <2>5, <3>1, <3>3 DEF UsageInv, CallsInv
    <3>5. user[1] = "forceClose" => "forceClose" \in Made
      BY <3>4 DEF Made
    <3>6. CallsInv'
      BY <2>1, <3>1, <3>4, <3>5 DEF UsageInv, CallsInv, Made, Raw, Forcing
    <3>7. PointerInv'
      BY <2>1, <2>2 DEF PointerInv
    <3> QED BY <3>6, <3>7 DEF UsageInv
  <2> QED BY <2>1, <2>3, <2>4, <2>5
<1>6. CASE Environment
  <2>1. UNCHANGED <<user, keeps, usage, timers>>
    BY <1>6 DEF Environment, ServerRemoves, ServerDestroyed, PeerSends, PeerCloses, PeerFollows,
       threads, bounds
  <2>2. queue' = queue \/ queue' = Append(queue, <<"destroyed", "">>)
    BY <1>6 DEF Environment, ServerRemoves, ServerDestroyed, PeerSends, PeerCloses, PeerFollows,
       threads, Queue
  <2>3. Kinds(queue') \subseteq Kinds(queue) \cup {"destroyed"}
    BY <1>2, <2>2
  <2> QED BY <2>1, <2>3, UsageStep
<1> QED BY <1>3, <1>4, <1>5, <1>6 DEF UserStep

\* Every functor, timer and call comes from the usage, and a plain `this` is queued only
\* by a thread that has a pointer.
LEMMA UsageInvariant == Spec => []UsageInv
<1>1. Init => UsageInv
  <2> SUFFICES ASSUME Init PROVE UsageInv
    OBVIOUS
  <2> DEFINE first == <<"established", "">>
             idle == <<"idle", "">>
  <2>1. queue = <<first>> /\ user = idle /\ timers = 0 /\ keeps = "no"
    BY DEF Init
  <2>2. first \in Functor /\ first[1] = "established" /\ idle[2] = ""
    BY DEF Functor, FunctorKinds
  <2>4. user = <<"idle", "">>
    BY <2>1
  <2> HIDE DEF first, idle
  <2>3. user[2] = ""
    BY <2>1, <2>2, Zenon
  <2>9. ~ (timers > 0)
    BY <2>1
  <2>5. Len(queue) = 1 /\ queue[1][1] = "established"
    BY <2>1, <2>2, Single
  <2>6. \A kind \in Kinds(queue) : kind = "established"
    BY <2>5 DEF Kinds
  <2>7. CallsInv
    BY <2>3, <2>6, <2>9 DEF CallsInv, Raw
  <2>8. PointerInv
    BY <2>1, <2>4, <2>6 DEF PointerInv, Raw
  <2> QED BY <2>7, <2>8 DEF UsageInv
<1>2. DataInv /\ FrontInv /\ CountInv /\ UsageInv /\ [Next]_vars => UsageInv'
  <2> SUFFICES ASSUME DataInv, FrontInv, CountInv, UsageInv, [Next]_vars PROVE UsageInv'
    OBVIOUS
  <2>1. usage \in Usages
    BY DEF DataInv
  <2>2. CASE UNCHANGED vars
    BY <2>2, UsageStep DEF vars
  <2>3. CASE Events
    <3>1. UNCHANGED <<user, keeps, usage, timers>>
      BY <2>3 DEF Events, Poll, CloseEvent, HandleError, HandleRead, HandleWrite, CallbackReturns,
         CloseCallback, RemoveChannel, bounds
    <3> QED BY <2>3, <3>1, EventsKinds, UsageStep
  <2>4. CASE Functors
    <3>1. UNCHANGED <<user, keeps, usage, timers>>
      BY <2>4 DEF Functors, SwapFunctors, FunctorsDone, ConnectEstablished, ConnectDestroyed,
         ForceCloseInLoop, UserCallback, RunSend, RunShutdown, RunStartRead, RunStopRead, RawFunctor,
         bounds
    <3> QED BY <2>4, <3>1, FunctorsKinds, UsageStep
  <2> QED BY <2>1, <2>2, <2>3, <2>4, ApplicationUsage, OthersUsage DEF Next
<1> QED BY <1>1, <1>2, DataInvariant, FrontInvariant, CountInvariant, PTL DEF Spec

-----------------------------------------------------------------------------
(***************************************************************************)
(* What the loop thread still has to do.                                   *)
(***************************************************************************)

Steps == {"close", "error", "read", "write", "callback", "closeCallback", "remove"}

Items(t) == {t[k] : k \in 1..Len(t)}

\* at most one of the callbacks that may close, errors before it and writes behind it
TodoOk(t) ==
    /\ t \in Seq(Steps)
    /\ \A j, k \in 1..Len(t) :
          t[k] \in {"close", "read"} /\ j # k =>
              t[j] \in {"error", "write"} /\ (j < k => t[j] = "error")

\* The head is one of the items.
LEMMA ItemsTail ==
    ASSUME NEW t \in Seq(Steps), t # <<>>
    PROVE  /\ Tail(t) \in Seq(Steps)
           /\ Items(t) = Items(Tail(t)) \cup {Head(t)}
<1>1. /\ Tail(t) \in Seq(Steps)
      /\ Len(Tail(t)) = Len(t) - 1
      /\ \A i \in 1..Len(Tail(t)) : Tail(t)[i] = t[i + 1]
      /\ Head(t) = t[1]
  BY HeadTailProperties
<1>2. Len(t) \in Nat /\ Len(t) >= 1
  OBVIOUS
<1>3. \A k \in 1..Len(Tail(t)) : k + 1 \in 1..Len(t)
  BY <1>1, <1>2
<1>4. 1 \in 1..Len(t)
  BY <1>2
<1>5. \A k \in 2..Len(t) : k - 1 \in 1..Len(Tail(t)) /\ Tail(t)[k - 1] = t[k]
  BY <1>1, <1>2
<1>6. \A k \in 1..Len(t) : k = 1 \/ k \in 2..Len(t)
  BY <1>2
<1>7. \A k \in 1..Len(t) : t[k] \in Items(Tail(t)) \cup {Head(t)}
  BY <1>1, <1>5, <1>6 DEF Items
<1>8. \A k \in 1..Len(Tail(t)) : Tail(t)[k] \in Items(t)
  BY <1>1, <1>3 DEF Items
<1>9. Head(t) \in Items(t)
  BY <1>1, <1>4 DEF Items
<1> QED BY <1>1, <1>7, <1>8, <1>9 DEF Items

\* What is left when the first step is done.
LEMMA TodoTail ==
    ASSUME NEW t, TodoOk(t), t # <<>>
    PROVE  /\ TodoOk(Tail(t))
           /\ Items(t) = Items(Tail(t)) \cup {Head(t)}
           /\ Head(t) \in {"close", "read"} => Items(Tail(t)) \subseteq {"error", "write"}
           /\ Head(t) \notin {"close", "error", "read"} => Items(Tail(t)) \cap {"close", "read"} = {}
<1>0. t \in Seq(Steps)
  BY DEF TodoOk
<1>1. /\ Tail(t) \in Seq(Steps)
      /\ Len(Tail(t)) = Len(t) - 1
      /\ \A i \in 1..Len(Tail(t)) : Tail(t)[i] = t[i + 1]
      /\ Head(t) = t[1]
  BY <1>0, HeadTailProperties
<1>2. Len(t) \in Nat /\ Len(t) >= 1
  BY <1>0
<1>3. \A i \in 1..Len(Tail(t)) : i + 1 \in 1..Len(t) /\ i + 1 # 1
  BY <1>1, <1>2
<1>4. 1 \in 1..Len(t)
  BY <1>2
<1>5. \A j, k \in 1..Len(Tail(t)) : (j # k => j + 1 # k + 1) /\ (j < k => j + 1 < k + 1)
  BY <1>1, <1>2
<1>6. TodoOk(Tail(t))
  BY <1>1, <1>3, <1>5 DEF TodoOk
<1>7. ASSUME Head(t) \in {"close", "read"}
      PROVE  \A i \in 1..Len(Tail(t)) : Tail(t)[i] \in {"error", "write"}
  BY <1>1, <1>3, <1>4, <1>7 DEF TodoOk
<1>8. Head(t) \in {"close", "read"} => Items(Tail(t)) \subseteq {"error", "write"}
  BY <1>7 DEF Items
<1>9. \A i \in 1..Len(Tail(t)) : 1 < i + 1
  BY <1>1, <1>2
<1>10. ASSUME Head(t) \notin {"close", "error", "read"}
       PROVE  \A i \in 1..Len(Tail(t)) : Tail(t)[i] \notin {"close", "read"}
  BY <1>1, <1>3, <1>4, <1>9, <1>10 DEF TodoOk
<1>11. Head(t) \notin {"close", "error", "read"} => Items(Tail(t)) \cap {"close", "read"} = {}
  BY <1>10 DEF Items
<1> QED BY <1>0, <1>6, <1>8, <1>11, ItemsTail

\* The items of a concatenation.
LEMMA ItemsConcat ==
    ASSUME NEW s \in Seq(Steps), NEW t \in Seq(Steps)
    PROVE  /\ s \o t \in Seq(Steps)
           /\ Items(s \o t) = Items(s) \cup Items(t)
<1>1. /\ s \o t \in Seq(Steps) /\ Len(s \o t) = Len(s) + Len(t)
      /\ \A i \in 1..Len(s \o t) : (s \o t)[i] = IF i <= Len(s) THEN s[i] ELSE t[i - Len(s)]
  BY ConcatProperties
<1>2. Len(s) \in Nat /\ Len(t) \in Nat
  OBVIOUS
<1>3. \A i \in 1..Len(s) : i \in 1..Len(s \o t) /\ i <= Len(s)
  BY <1>1, <1>2
<1>4. \A i \in 1..Len(t) : /\ i + Len(s) \in 1..Len(s \o t) /\ ~ (i + Len(s) <= Len(s))
                           /\ (i + Len(s)) - Len(s) = i
  BY <1>1, <1>2
<1>5. \A i \in 1..Len(s \o t) : i <= Len(s) => i \in 1..Len(s)
  BY <1>1, <1>2
<1>6. \A i \in 1..Len(s \o t) : ~ (i <= Len(s)) => i - Len(s) \in 1..Len(t)
  BY <1>1, <1>2
<1>7. \A i \in 1..Len(s \o t) : (s \o t)[i] \in Items(s) \cup Items(t)
  BY <1>1, <1>5, <1>6 DEF Items
<1>8. \A i \in 1..Len(s) : s[i] \in Items(s \o t)
  BY <1>1, <1>3 DEF Items
<1>9. \A i \in 1..Len(t) : t[i] = (s \o t)[i + Len(s)]
  BY <1>1, <1>4
<1>10. \A i \in 1..Len(t) : t[i] \in Items(s \o t)
  BY <1>4, <1>9 DEF Items
<1> QED BY <1>1, <1>7, <1>8, <1>10 DEF Items

\* Nothing that may close is left.
LEMMA TodoPlain ==
    ASSUME NEW t \in Seq(Steps), Items(t) \cap {"close", "read"} = {}
    PROVE  TodoOk(t)
  BY DEF TodoOk, Items

\* What the handlers have to do.
LEMMA TodoHandlers ==
    /\ <<"callback">> \in Seq(Steps) /\ Items(<<"callback">>) = {"callback"}
    /\ <<"remove">> \in Seq(Steps) /\ Items(<<"remove">>) = {"remove"}
    /\ <<"callback", "closeCallback">> \in Seq(Steps)
    /\ Items(<<"callback", "closeCallback">>) = {"callback", "closeCallback"}
    /\ <<"callback", "remove">> \in Seq(Steps)
    /\ Items(<<"callback", "remove">>) = {"callback", "remove"}
    /\ <<>> \in Seq(Steps) /\ Items(<<>>) = {}
<1>1. ASSUME NEW a \in Steps PROVE <<a>> \in Seq(Steps) /\ Items(<<a>>) = {a}
  BY <1>1, Single DEF Items
<1>2. ASSUME NEW a \in Steps, NEW b \in Steps
      PROVE  <<a, b>> \in Seq(Steps) /\ Items(<<a, b>>) = {a, b}
  <2>1. Len(<<a, b>>) = 2 /\ <<a, b>> \in Seq(Steps) /\ <<a, b>>[1] = a /\ <<a, b>>[2] = b
    OBVIOUS
  <2>2. \A k \in 1..Len(<<a, b>>) : k = 1 \/ k = 2
    BY <2>1
  <2>3. 1 \in 1..Len(<<a, b>>) /\ 2 \in 1..Len(<<a, b>>)
    BY <2>1
  <2> QED BY <2>1, <2>2, <2>3 DEF Items
<1>3. <<>> \in Seq(Steps) /\ Items(<<>>) = {}
  BY DEF Items
<1> QED BY <1>1, <1>2, <1>3 DEF Steps

\* The close, error, read and write callbacks of one event, one after the other.
LEMMA Joined ==
    ASSUME NEW C \in Seq(Steps), \A k \in 1..Len(C) : C[k] = "close",
           NEW E \in Seq(Steps), \A k \in 1..Len(E) : E[k] = "error",
           NEW R \in Seq(Steps), \A k \in 1..Len(R) : R[k] = "read",
           NEW W \in Seq(Steps), \A k \in 1..Len(W) : W[k] = "write",
           NEW t, t = ((C \o E) \o R) \o W
    PROVE  /\ Len(C) + Len(R) <= 1 => TodoOk(t)
           /\ Items(t) \subseteq {"close", "error", "read", "write"}
           /\ "close" \in Items(t) => Len(C) # 0
           /\ "error" \in Items(t) => Len(E) # 0
<1>1. Len(C) \in Nat /\ Len(E) \in Nat /\ Len(R) \in Nat /\ Len(W) \in Nat
  OBVIOUS
<1>2. /\ C \o E \in Seq(Steps) /\ Len(C \o E) = Len(C) + Len(E)
      /\ \A i \in 1..Len(C \o E) : (C \o E)[i] = IF i <= Len(C) THEN C[i] ELSE E[i - Len(C)]
  BY ConcatProperties
<1>3. /\ (C \o E) \o R \in Seq(Steps) /\ Len((C \o E) \o R) = Len(C \o E) + Len(R)
      /\ \A i \in 1..Len((C \o E) \o R) :
            ((C \o E) \o R)[i] = IF i <= Len(C \o E) THEN (C \o E)[i] ELSE R[i - Len(C \o E)]
  BY <1>2, ConcatProperties
<1>4. /\ t \in Seq(Steps) /\ Len(t) = Len((C \o E) \o R) + Len(W)
      /\ \A i \in 1..Len(t) :
            t[i] = IF i <= Len((C \o E) \o R) THEN ((C \o E) \o R)[i] ELSE W[i - Len((C \o E) \o R)]
  BY <1>3, ConcatProperties
<1>5. \A i \in 1..Len(C \o E) : (C \o E)[i] = IF i <= Len(C) THEN "close" ELSE "error"
  <2>1. \A i \in 1..Len(C \o E) : /\ i <= Len(C) => i \in 1..Len(C)
                                  /\ ~ (i <= Len(C)) => i - Len(C) \in 1..Len(E)
    BY <1>1, <1>2
  <2> QED BY <1>2, <2>1
<1>6. \A i \in 1..Len((C \o E) \o R) :
          ((C \o E) \o R)[i] = IF i <= Len(C) THEN "close" ELSE
                               IF i <= Len(C) + Len(E) THEN "error" ELSE "read"
  <2>1. \A i \in 1..Len((C \o E) \o R) : /\ i <= Len(C \o E) => i \in 1..Len(C \o E)
                                         /\ ~ (i <= Len(C \o E)) => i - Len(C \o E) \in 1..Len(R)
                                         /\ i <= Len(C) => i <= Len(C \o E)
    BY <1>1, <1>2, <1>3
  <2> QED BY <1>2, <1>3, <1>5, <2>1
<1>7. Len((C \o E) \o R) = Len(C) + Len(E) + Len(R)
  BY <1>1, <1>2, <1>3
<1>8. \A i \in 1..Len(t) :
          /\ i <= Len((C \o E) \o R) => i \in 1..Len((C \o E) \o R)
          /\ ~ (i <= Len((C \o E) \o R)) => i - Len((C \o E) \o R) \in 1..Len(W)
          /\ i <= Len(C) => i <= Len((C \o E) \o R)
          /\ i <= Len(C) + Len(E) => i <= Len((C \o E) \o R)
  BY <1>1, <1>4, <1>7
<1>9. \A i \in 1..Len(t) :
         t[i] = IF i <= Len(C) THEN "close" ELSE
                IF i <= Len(C) + Len(E) THEN "error" ELSE
                IF i <= Len((C \o E) \o R) THEN "read" ELSE "write"
  BY <1>4, <1>6, <1>8
<1>10. \A k \in 1..Len(t) : t[k] = "close" => Len(C) # 0 /\ k <= Len(C)
  BY <1>1, <1>9
<1>11. \A k \in 1..Len(t) : t[k] = "error" => Len(E) # 0
  BY <1>1, <1>9
<1>12. \A k \in 1..Len(t) :
          t[k] = "read" => Len(C) + Len(E) < k /\ k <= Len(C) + Len(E) + Len(R)
  BY <1>1, <1>7, <1>9
<1>13. \A k \in 1..Len(t) : t[k] \in {"close", "error", "read", "write"}
  BY <1>9
<1>14. ASSUME Len(C) + Len(R) <= 1, NEW j \in 1..Len(t), NEW k \in 1..Len(t), t[k] \in {"close", "read"}, j # k
       PROVE  t[j] \in {"error", "write"} /\ (j < k => t[j] = "error")
  <2>1. j \in Nat /\ k \in Nat /\ j >= 1 /\ k >= 1
    BY <1>4
  <2>2. CASE Len(R) = 0
    <3>1. t[k] # "read" /\ t[j] # "read"
      BY <1>1, <1>12, <2>1, <2>2
    <3>2. t[k] = "close" /\ k = 1
      BY <1>1, <1>10, <1>14, <2>1, <2>2, <3>1
    <3>3. t[j] # "close"
      BY <1>1, <1>10, <1>14, <2>1, <2>2, <3>2
    <3>4. ~ (j < k)
      BY <2>1, <3>2
    <3> QED BY <1>13, <3>1, <3>3, <3>4
  <2>3. CASE Len(R) # 0
    <3>1. Len(C) = 0 /\ Len(R) = 1
      <4>1. \A x, y \in Nat : x + y <= 1 /\ y # 0 => x = 0 /\ y = 1
        OBVIOUS
      <4> QED BY <1>1, <1>14, <2>3, <4>1
    <3>2. t[k] = "read" /\ t[j] # "close"
      BY <1>10, <1>14, <3>1
    <3>3. k = Len(E) + 1
      BY <1>1, <1>12, <2>1, <3>1, <3>2
    <3>4. t[j] # "read"
      BY <1>1, <1>12, <1>14, <2>1, <3>1, <3>3
    <3>5. j < k => t[j] # "write"
      BY <1>1, <1>7, <1>9, <2>1, <3>1, <3>3
    <3> QED BY <1>13, <3>2, <3>4, <3>5
  <2> QED BY <2>2, <2>3
<1>15. Len(C) + Len(R) <= 1 => TodoOk(t)
  BY <1>4, <1>14 DEF TodoOk
<1> QED BY <1>10, <1>11, <1>13, <1>15 DEF Items

\* The close callback and the read callback of one event exclude each other.
LEMMA TodoPoll ==
    ASSUME NEW a \in BOOLEAN, NEW b \in BOOLEAN, NEW c \in BOOLEAN, NEW d \in BOOLEAN, ~ (a /\ c)
    PROVE  \A t : t = If(a, "close") \o If(b, "error") \o If(c, "read") \o If(d, "write") =>
                /\ TodoOk(t)
                /\ Items(t) \subseteq {"close", "error", "read", "write"}
                /\ "close" \in Items(t) => a
                /\ "error" \in Items(t) => b
<1>1. ASSUME NEW p \in BOOLEAN, NEW x \in Steps
      PROVE  /\ If(p, x) \in Seq(Steps)
             /\ p => Len(If(p, x)) = 1
             /\ ~p => Len(If(p, x)) = 0
             /\ \A k \in 1..Len(If(p, x)) : If(p, x)[k] = x
  <2>1. CASE p
    BY <1>1, <2>1, Single DEF If
  <2>2. CASE ~p
    BY <2>2 DEF If
  <2> QED BY <2>1, <2>2
<1>2. "close" \in Steps /\ "error" \in Steps /\ "read" \in Steps /\ "write" \in Steps
  BY DEF Steps
<1>3. PICK C \in Seq(Steps) : /\ C = If(a, "close") /\ (a => Len(C) = 1) /\ (~a => Len(C) = 0)
                              /\ \A k \in 1..Len(C) : C[k] = "close"
  BY <1>1, <1>2
<1>4. PICK E \in Seq(Steps) : /\ E = If(b, "error") /\ (b => Len(E) = 1) /\ (~b => Len(E) = 0)
                              /\ \A k \in 1..Len(E) : E[k] = "error"
  BY <1>1, <1>2
<1>5. PICK R \in Seq(Steps) : /\ R = If(c, "read") /\ (c => Len(R) = 1) /\ (~c => Len(R) = 0)
                              /\ \A k \in 1..Len(R) : R[k] = "read"
  BY <1>1, <1>2
<1>6. PICK W \in Seq(Steps) : W = If(d, "write") /\ \A k \in 1..Len(W) : W[k] = "write"
  BY <1>1, <1>2
<1>7. If(a, "close") \o If(b, "error") \o If(c, "read") \o If(d, "write") = ((C \o E) \o R) \o W
  BY <1>3, <1>4, <1>5, <1>6, Zenon
<1>8. /\ \A k \in 1..Len(C) : C[k] = "close"
      /\ \A k \in 1..Len(E) : E[k] = "error"
      /\ \A k \in 1..Len(R) : R[k] = "read"
      /\ \A k \in 1..Len(W) : W[k] = "write"
  BY <1>3, <1>4, <1>5, <1>6, Zenon
<1>9. /\ (a => Len(C) = 1) /\ (~a => Len(C) = 0)
      /\ (b => Len(E) = 1) /\ (~b => Len(E) = 0)
      /\ (c => Len(R) = 1) /\ (~c => Len(R) = 0)
  BY <1>3, <1>4, <1>5, Zenon
<1>10. \A t : t = ((C \o E) \o R) \o W =>
           /\ Len(C) + Len(R) <= 1 => TodoOk(t)
           /\ Items(t) \subseteq {"close", "error", "read", "write"}
           /\ "close" \in Items(t) => Len(C) # 0
           /\ "error" \in Items(t) => Len(E) # 0
  <2> SUFFICES ASSUME NEW t, t = ((C \o E) \o R) \o W
               PROVE  /\ Len(C) + Len(R) <= 1 => TodoOk(t)
                      /\ Items(t) \subseteq {"close", "error", "read", "write"}
                      /\ "close" \in Items(t) => Len(C) # 0
                      /\ "error" \in Items(t) => Len(E) # 0
    OBVIOUS
  <2> QED BY <1>8, Joined, ZenonT(60)
<1>11. /\ Len(C) # 0 => a
       /\ Len(E) # 0 => b
  BY <1>9, Zenon
<1>12. (Len(C) = 1 /\ Len(R) = 0) \/ (Len(C) = 0 /\ Len(R) = 1) \/ (Len(C) = 0 /\ Len(R) = 0)
  BY <1>9, Zenon
<1>13. (Len(C) = 1 /\ Len(R) = 0) \/ (Len(C) = 0 /\ Len(R) = 1) \/ (Len(C) = 0 /\ Len(R) = 0)
       => Len(C) + Len(R) <= 1
  <2>1. \A x, y : (x = 1 /\ y = 0) \/ (x = 0 /\ y = 1) \/ (x = 0 /\ y = 0) => x + y <= 1
    OBVIOUS
  <2> QED BY <2>1, Zenon
<1> QED BY <1>7, <1>10, <1>11, <1>12, <1>13, Zenon

-----------------------------------------------------------------------------
(***************************************************************************)
(* The life of a connection, in the programs that Careful describes.       *)
(***************************************************************************)

Up == state_ \in {"kConnected", "kDisconnecting"}

UserCloses(u) == u.user \cap Closing # {}

\* neither the callbacks nor the peer close
Peaceful(u) == u.callback \cap Closing = {} /\ "peerCloses" \notin u.happens

\* a callback that may close finds the connection up and its channel added; closeCallback_
\* and the end of connectDestroyed come after the close
TodoInv ==
    /\ TodoOk(todo)
    /\ "close" \in Items(todo) \/ "read" \in Items(todo) => Up /\ added
    /\ "closeCallback" \in Items(todo) =>
          state_ = "kDisconnected" /\ "serverDestroyed" \notin usage.happens
    /\ "remove" \in Items(todo) => state_ = "kDisconnected"

\* a closed connection has no events, and is watched only until connectDestroyed ends; an
\* open one reads unless somebody stopped it
ObjectInv ==
    /\ state_ = "kDisconnected" => events_ = {} /\ (added => "remove" \in Items(todo))
    /\ Up /\ "stopRead" \notin Made => "read" \in events_ /\ added

\* connectDestroyed is queued by a server that lets the connection go, which it does only
\* after the close or when it is destroyed; after it the channel is out of the loop
ServerInv ==
    /\ "remove" \in Items(todo) \/ "destroyed" \in Kinds(queue) => server \in {"removed", "gone"}
    /\ server \in {"removing", "removed"} => state_ = "kDisconnected"
    /\ server = "gone" => "serverDestroyed" \in usage.happens
    /\ server \in {"removed", "gone"} =>
          \/ "destroyed" \in Kinds(queue)
          \/ "remove" \in Items(todo)
          \/ state_ = "kDisconnected" /\ ~addedToLoop_ /\ ~added

\* nobody has begun to close; only a server that is gone closes a connection that is up
Calm ==
    /\ peer = "open" /\ ~wrShut /\ ~ (timers > 0)
    /\ "forceClose" \notin Kinds(queue) /\ "shutdown" \notin Kinds(queue)
    /\ "close" \notin Items(todo) /\ "error" \notin Items(todo) /\ "closeCallback" \notin Items(todo)
    /\ state_ # "kDisconnecting"
    /\ state_ = "kDisconnected" => server = "gone"
    /\ user[2] = "queue" => user[1] \notin Closing

\* a peaceful program stays calm until another thread closes
CalmInv ==
    Peaceful(usage) =>
        Calm \/ (UserCloses(usage) /\ state_ \in {"kDisconnecting", "kDisconnected"})

\* another thread that has tested state_ finds it unchanged when it sets it
SetInv ==
    /\ user[2] = "set" => state_ = "kConnected"
    /\ UserCloses(usage) /\ (user[2] = "set" \/ state_ \in {"kDisconnecting", "kDisconnected"}) =>
          calls >= 1

LifeInv == TodoInv /\ ObjectInv /\ ServerInv /\ CalmInv /\ SetInv

\* what is known of a state besides
Known == usage \in Usages /\ Careful(usage) /\ FrontInv /\ CountInv /\ UsageInv

\* What a careful program does not do.
LEMMA CarefulFacts ==
    ASSUME usage \in Usages, Careful(usage)
    PROVE  /\ \A kind \in Raw : kind \in usage.user => "userDrops" \notin usage.happens
           /\ "startRead" \in usage.user \/ "stopRead" \in usage.user =>
                 Peaceful(usage) /\ ~UserCloses(usage) /\ "serverDestroyed" \notin usage.happens
           /\ "stopRead" \in Made => Made \cap Forcing = {}
           /\ "serverDestroyed" \in usage.happens => Peaceful(usage) /\ ~UserCloses(usage)
           /\ UserCloses(usage) =>
                 /\ Peaceful(usage) /\ "serverDestroyed" \notin usage.happens
                 /\ usage.maxCalls <= 1 \/ usage.user \cap Closing = {"shutdown"}
<1>1. \A kind \in Raw : kind \in usage.user => "userDrops" \notin usage.happens
  BY DEF Careful, Raw
<1>2. "startRead" \in usage.user \/ "stopRead" \in usage.user =>
         Peaceful(usage) /\ ~UserCloses(usage) /\ "serverDestroyed" \notin usage.happens
  BY DEF Careful, Peaceful, UserCloses
<1>3. "stopRead" \in Made => Made \cap Forcing = {}
  BY DEF Careful, Made, Forcing
<1>4. "serverDestroyed" \in usage.happens => Peaceful(usage) /\ ~UserCloses(usage)
  BY DEF Careful, Peaceful, UserCloses
<1>5. UserCloses(usage) =>
         /\ Peaceful(usage) /\ "serverDestroyed" \notin usage.happens
         /\ usage.maxCalls <= 1 \/ usage.user \cap Closing = {"shutdown"}
  BY DEF Careful, Peaceful, UserCloses
<1> QED BY <1>1, <1>2, <1>3, <1>4, <1>5

\* A thread that is about to set state_ is one that closes, and nothing else does.
LEMMA SettingCalm ==
    ASSUME Known, LifeInv, user[2] = "set"
    PROVE  UserCloses(usage) /\ Calm /\ state_ = "kConnected"
<1>1. user[1] \in usage.user /\ user[1] \in Closing
  BY DEF Known, UsageInv, CallsInv
<1>2. UserCloses(usage)
  BY <1>1 DEF UserCloses
<1>3. Peaceful(usage)
  BY <1>2, CarefulFacts DEF Known
<1>4. state_ = "kConnected"
  BY DEF LifeInv, SetInv
<1> QED BY <1>2, <1>3, <1>4 DEF LifeInv, CalmInv

\* A connection that is not calm is not one whose server may be destroyed.
LEMMA NotCalm ==
    ASSUME Known, LifeInv, ~Calm
    PROVE  /\ "serverDestroyed" \notin usage.happens
           /\ user[2] # "set"
           /\ Peaceful(usage) => UserCloses(usage) /\ state_ \in {"kDisconnecting", "kDisconnected"}
           /\ UserCloses(usage) => state_ \in {"kDisconnecting", "kDisconnected"} /\ calls >= 1
<1>1. user[2] # "set"
  BY SettingCalm
<1>2. Peaceful(usage) => UserCloses(usage) /\ state_ \in {"kDisconnecting", "kDisconnected"}
  BY DEF LifeInv, CalmInv
<1>3. "serverDestroyed" \notin usage.happens
  BY <1>2, CarefulFacts DEF Known
<1>4. UserCloses(usage) => state_ \in {"kDisconnecting", "kDisconnected"} /\ calls >= 1
  BY <1>2, CarefulFacts DEF Known, LifeInv, SetInv
<1> QED BY <1>1, <1>2, <1>3, <1>4

\* The connection is calm if the server may be destroyed or another thread pauses reading.
LEMMA StaysUp ==
    ASSUME Known, LifeInv, "startRead" \in usage.user \/ "stopRead" \in usage.user
    PROVE  state_ \in {"kConnecting", "kConnected"}
<1>1. Peaceful(usage) /\ ~UserCloses(usage) /\ "serverDestroyed" \notin usage.happens
  BY CarefulFacts DEF Known
<1>2. Calm /\ server # "gone"
  BY <1>1 DEF LifeInv, CalmInv, ServerInv
<1> QED BY <1>2 DEF Calm, Known, CountInv, TypeOK

core == <<state_, events_, added, addedToLoop_, server, peer, wrShut, timers, user, usage, calls>>

\* A step that closes nothing, queues none of the functors that do, and leaves connectDestroyed
\* as it is.
Plain ==
    /\ TodoOk(todo')
    /\ \A step \in {"close", "error", "read", "closeCallback"} : step \in Items(todo') => step \in Items(todo)
    /\ "remove" \in Items(todo') <=> "remove" \in Items(todo)
    /\ "forceClose" \in Kinds(queue') => "forceClose" \in Kinds(queue)
    /\ "shutdown" \in Kinds(queue') => "shutdown" \in Kinds(queue)
    /\ "destroyed" \in Kinds(queue') <=> "destroyed" \in Kinds(queue)

\* Such a step keeps everything.
LEMMA PlainStep ==
    ASSUME LifeInv, Plain, UNCHANGED core
    PROVE  LifeInv'
<1>1. TodoInv'
  BY DEF LifeInv, TodoInv, Plain, core, Up
<1>2. ObjectInv'
  BY DEF LifeInv, ObjectInv, Plain, core, Up, Made
<1>3. ServerInv'
  BY DEF LifeInv, ServerInv, Plain, core
<1>4. Calm => Calm'
  BY DEF Calm, Plain, core
<1>5. CalmInv' /\ SetInv'
  BY <1>4 DEF LifeInv, CalmInv, SetInv, core
<1> QED BY <1>1, <1>2, <1>3, <1>5 DEF LifeInv

\* So does one that changes what an open connection waits for while no event is handled that
\* may close it.
LEMMA ObjectStep ==
    ASSUME LifeInv, Plain, Up,
           "close" \notin Items(todo'), "read" \notin Items(todo'),
           UNCHANGED <<state_, server, peer, wrShut, timers, user, usage>>,
           calls >= 1 => calls' >= 1,
           "stopRead" \notin Made => "read" \in events_' /\ added'
    PROVE  LifeInv'
<1>1. TodoInv'
  BY DEF LifeInv, TodoInv, Plain, Up
<1>2. ObjectInv'
  BY DEF LifeInv, ObjectInv, Plain, Up, Made
<1>3. ServerInv'
  BY DEF LifeInv, ServerInv, Plain, Up
<1>4. Calm => Calm'
  BY DEF Calm, Plain
<1>5. CalmInv' /\ SetInv'
  BY <1>4 DEF LifeInv, CalmInv, SetInv
<1> QED BY <1>1, <1>2, <1>3, <1>5 DEF LifeInv

\* handleClose of a connection that is up.
LEMMA CloseStep ==
    ASSUME Known, LifeInv, ~Calm, Up, added, NEW rest \in Seq(Steps), HandleClose(rest),
           Items(rest) \subseteq {"error", "write"},
           UNCHANGED <<server, user, usage, calls, timers>>,
           "destroyed" \in Kinds(queue') <=> "destroyed" \in Kinds(queue)
    PROVE  LifeInv' /\ asserted' = asserted
<1>1. /\ state_' = "kDisconnected" /\ events_' = {} /\ added' = FALSE
      /\ todo' = <<"callback", "closeCallback">> \o rest /\ asserted' = asserted
  BY DEF HandleClose, Update, Check, Up
<1>2. /\ todo' \in Seq(Steps)
      /\ Items(todo') = {"callback", "closeCallback"} \cup Items(rest)
  BY <1>1, TodoHandlers, ItemsConcat
<1>3. TodoOk(todo')
  BY <1>2, TodoPlain
<1>4. "serverDestroyed" \notin usage.happens /\ user[2] # "set"
      /\ (Peaceful(usage) => UserCloses(usage)) /\ (UserCloses(usage) => calls >= 1)
  BY NotCalm
<1>5. TodoInv'
  BY <1>1, <1>2, <1>3, <1>4 DEF TodoInv
<1>6. ObjectInv'
  BY <1>1 DEF ObjectInv, Up
<1>7. server \notin {"removing", "removed", "gone"}
  BY <1>4 DEF LifeInv, ServerInv, Up
<1>8. ServerInv'
  <2>1. "remove" \notin Items(todo')
    BY <1>2
  <2>2. "destroyed" \notin Kinds(queue')
    BY <1>7 DEF LifeInv, ServerInv
  <2> QED BY <1>1, <1>7, <2>1, <2>2 DEF ServerInv
<1>9. CalmInv' /\ SetInv'
  BY <1>1, <1>4 DEF CalmInv, SetInv
<1> QED BY <1>1, <1>5, <1>6, <1>8, <1>9 DEF LifeInv

\* The step that the loop thread does next.
LEMMA NextStep ==
    ASSUME Known, LifeInv, todo # <<>>
    PROVE  /\ TodoOk(Tail(todo)) /\ Tail(todo) \in Seq(Steps)
           /\ Items(todo) = Items(Tail(todo)) \cup {Head(todo)}
           /\ Head(todo) \in {"close", "read"} => Items(Tail(todo)) \subseteq {"error", "write"}
           /\ Head(todo) \notin {"close", "error", "read"} =>
                 "close" \notin Items(Tail(todo)) /\ "read" \notin Items(Tail(todo))
<1>1. TodoOk(todo)
  BY DEF LifeInv, TodoInv
<1>2. /\ TodoOk(Tail(todo))
      /\ Items(todo) = Items(Tail(todo)) \cup {Head(todo)}
      /\ Head(todo) \in {"close", "read"} => Items(Tail(todo)) \subseteq {"error", "write"}
      /\ Head(todo) \notin {"close", "error", "read"} => Items(Tail(todo)) \cap {"close", "read"} = {}
  BY <1>1, TodoTail
<1> QED BY <1>2 DEF TodoOk

\* Poll reports a connection that is up, and a hang-up or an error only after somebody has
\* begun to close.
LEMMA PollLife ==
    ASSUME Known, LifeInv, NEW writable \in BOOLEAN, Poll(writable)
    PROVE  LifeInv'
<1> DEFINE readable == "read" \in events_ /\ (in > 0 \/ peer # "open")
           hangup == peer \in {"rst", "reset"} \/ (peer = "fin" /\ wrShut)
           failed == peer = "rst"
           ready == "write" \in events_ /\ writable
<1>1. /\ todo = <<>> /\ added /\ UNCHANGED core /\ UNCHANGED queue
      /\ todo' = If(hangup /\ ~readable, "close") \o If(failed, "error") \o If(readable, "read")
                 \o If(ready, "write")
  BY DEF Poll, Idle, core, object, socket, bounds
<1>2. (hangup /\ ~readable) \in BOOLEAN /\ failed \in BOOLEAN /\ readable \in BOOLEAN /\ ready \in BOOLEAN
  OBVIOUS
<1>3. /\ TodoOk(todo')
      /\ Items(todo') \subseteq {"close", "error", "read", "write"}
      /\ "close" \in Items(todo') => hangup /\ ~readable
      /\ "error" \in Items(todo') => failed
  <2>1. ~ ((hangup /\ ~readable) /\ readable)
    OBVIOUS
  <2> HIDE DEF hangup, readable, failed, ready
  <2>2. PICK a, b, c, d : /\ a = (hangup /\ ~readable) /\ b = failed /\ c = readable /\ d = ready
                          /\ a \in BOOLEAN /\ b \in BOOLEAN /\ c \in BOOLEAN /\ d \in BOOLEAN
                          /\ ~ (a /\ c)
    BY <1>2, <2>1, Zenon
  <2>3. todo' = If(a, "close") \o If(b, "error") \o If(c, "read") \o If(d, "write")
    BY <1>1, <2>2, Zenon
  <2>4. /\ TodoOk(todo')
        /\ Items(todo') \subseteq {"close", "error", "read", "write"}
        /\ "close" \in Items(todo') => a
        /\ "error" \in Items(todo') => b
    <3>1. a \in BOOLEAN /\ b \in BOOLEAN /\ c \in BOOLEAN /\ d \in BOOLEAN /\ ~ (a /\ c)
      BY <2>2, Zenon
    <3>2. \A t : t = If(a, "close") \o If(b, "error") \o If(c, "read") \o If(d, "write") =>
             /\ TodoOk(t)
             /\ Items(t) \subseteq {"close", "error", "read", "write"}
             /\ "close" \in Items(t) => a
             /\ "error" \in Items(t) => b
      BY <3>1, TodoPoll, Zenon
    <3> QED BY <2>3, <3>2, Zenon
  <2> QED BY <2>2, <2>4, Zenon
<1>4. Items(todo) = {}
  BY <1>1, TodoHandlers
<1>5. Up
  BY <1>1, <1>4 DEF LifeInv, ObjectInv, Known, FrontInv, Connecting, CountInv, TypeOK, Up
<1>6. peer = "open" => ~hangup /\ ~failed
  OBVIOUS
<1> HIDE DEF hangup, readable, failed, ready
<1>7. "remove" \notin Items(todo') /\ "closeCallback" \notin Items(todo')
  BY <1>3
<1>8. peer = "open" => "close" \notin Items(todo') /\ "error" \notin Items(todo')
  BY <1>3, <1>6
<1>9. TodoOk(todo')
  BY <1>3
<1>10. TodoInv'
  BY <1>1, <1>5, <1>7, <1>9 DEF TodoInv, core, Up
<1>11. ObjectInv'
  BY <1>1, <1>4, <1>5, <1>7 DEF LifeInv, ObjectInv, core, Up, Made
<1>12. ServerInv'
  BY <1>1, <1>4, <1>5, <1>7 DEF LifeInv, ServerInv, core
<1>13. Calm => Calm'
  BY <1>1, <1>7, <1>8 DEF Calm, core
<1>14. CalmInv' /\ SetInv'
  BY <1>1, <1>13 DEF LifeInv, CalmInv, SetInv, core
<1> QED BY <1>10, <1>11, <1>12, <1>14 DEF LifeInv

\* A step of the loop thread that is plain as far as the queue goes.
LEMMA TailPlain ==
    ASSUME Known, LifeInv, todo # <<>>, Head(todo) # "remove", todo' = Tail(todo), UNCHANGED queue
    PROVE  Plain
  BY NextStep DEF Plain

\* The close callback finds the connection up, with its channel added.
LEMMA CloseLife ==
    ASSUME Known, LifeInv, CloseEvent
    PROVE  LifeInv' /\ asserted' = asserted
<1>1. /\ todo # <<>> /\ Head(todo) = "close" /\ HandleClose(Tail(todo))
      /\ UNCHANGED <<server, user, usage, calls, timers, queue>>
  BY DEF CloseEvent, Rest, bounds
<1>2. /\ Tail(todo) \in Seq(Steps) /\ "close" \in Items(todo)
      /\ Items(Tail(todo)) \subseteq {"error", "write"}
  BY <1>1, NextStep
<1>3. Up /\ added /\ ~Calm
  BY <1>2 DEF LifeInv, TodoInv, Calm
<1> QED BY <1>1, <1>2, <1>3, CloseStep

\* An error is handled after the peer has closed.
LEMMA ErrorLife ==
    ASSUME Known, LifeInv, HandleError
    PROVE  LifeInv'
<1>1. /\ todo # <<>> /\ Head(todo) = "error" /\ todo' = Tail(todo)
      /\ UNCHANGED <<state_, events_, added, addedToLoop_, server, wrShut, timers, user, usage, calls, queue>>
  BY DEF HandleError, Rest, object, bounds
<1>2. Plain
  BY <1>1, TailPlain
<1>3. "error" \in Items(todo)
  BY <1>1, NextStep
<1>4. ~Calm
  BY <1>3 DEF Calm
<1>5. TodoInv'
  BY <1>1, <1>2 DEF LifeInv, TodoInv, Plain, Up
<1>6. ObjectInv'
  BY <1>1, <1>2 DEF LifeInv, ObjectInv, Plain, Up, Made
<1>7. ServerInv'
  BY <1>1, <1>2 DEF LifeInv, ServerInv, Plain
<1>8. CalmInv' /\ SetInv'
  BY <1>1, <1>4 DEF LifeInv, CalmInv, SetInv
<1> QED BY <1>5, <1>6, <1>7, <1>8 DEF LifeInv

\* handleRead calls back, closes after the peer, or logs an error.
LEMMA ReadLife ==
    ASSUME Known, LifeInv, HandleRead
    PROVE  LifeInv' /\ asserted' = asserted
<1>1. /\ todo # <<>> /\ Head(todo) = "read"
      /\ UNCHANGED <<queue, user, timers, server, wrShut, usage, calls>>
  BY DEF HandleRead, bounds
<1>2. /\ Tail(todo) \in Seq(Steps) /\ TodoOk(Tail(todo)) /\ "read" \in Items(todo)
      /\ Items(Tail(todo)) \subseteq {"error", "write"}
      /\ Items(todo) = Items(Tail(todo)) \cup {"read"}
  BY <1>1, NextStep
<1>3. Up /\ added
  BY <1>2 DEF LifeInv, TodoInv
<1>4. CASE UNCHANGED <<object, peer, asserted>> /\ todo' = <<"callback">> \o Rest
  <2>1. todo' \in Seq(Steps) /\ Items(todo') = {"callback"} \cup Items(Tail(todo))
    <3>1. <<"callback">> \in Seq(Steps) /\ Items(<<"callback">>) = {"callback"}
      BY TodoHandlers
    <3>2. PICK first : first = <<"callback">>
      OBVIOUS
    <3>3. first \in Seq(Steps) /\ Items(first) = {"callback"} /\ todo' = first \o Tail(todo)
      BY <1>4, <3>1, <3>2, Zenon DEF Rest
    <3> QED BY <1>2, <3>3, ItemsConcat, Zenon
  <2>2. TodoOk(todo')
    BY <1>2, <2>1, TodoPlain
  <2>3. Plain
    BY <1>1, <1>2, <2>1, <2>2 DEF Plain
  <2>4. UNCHANGED core
    BY <1>1, <1>4 DEF core, object
  <2> QED BY <1>4, <2>3, <2>4, PlainStep
<1>5. CASE peer \in {"fin", "reset"} /\ HandleClose(Rest) /\ UNCHANGED peer
  <2>1. ~Calm
    BY <1>5 DEF Calm
  <2>2. HandleClose(Tail(todo))
    BY <1>5 DEF Rest
  <2> QED BY <1>1, <1>2, <1>3, <2>1, <2>2, CloseStep
<1>6. CASE peer = "rst" /\ todo' = Rest /\ UNCHANGED <<object, asserted>>
  <2>1. ~Calm
    BY <1>6 DEF Calm
  <2>2. Plain
    BY <1>1, <1>6, TailPlain DEF Rest
  <2>3. UNCHANGED <<state_, events_, added, addedToLoop_>>
    BY <1>6 DEF object
  <2>4. TodoInv'
    BY <1>1, <2>2, <2>3 DEF LifeInv, TodoInv, Plain, Up
  <2>5. ObjectInv'
    BY <1>1, <2>2, <2>3 DEF LifeInv, ObjectInv, Plain, Up, Made
  <2>6. ServerInv'
    BY <1>1, <2>2, <2>3 DEF LifeInv, ServerInv, Plain
  <2>7. CalmInv' /\ SetInv'
    BY <1>1, <2>1, <2>3 DEF LifeInv, CalmInv, SetInv
  <2> QED BY <1>6, <2>4, <2>5, <2>6, <2>7 DEF LifeInv
<1> QED BY <1>4, <1>5, <1>6 DEF HandleRead

\* handleWrite stops waiting for writes when the buffer is empty, and may do a deferred SHUT_WR.
LEMMA WriteLife ==
    ASSUME Known, LifeInv, HandleWrite
    PROVE  LifeInv' /\ asserted' = asserted
<1>1. /\ todo # <<>> /\ Head(todo) = "write" /\ todo' = Tail(todo)
      /\ UNCHANGED <<state_, server, peer, timers, user, usage, calls, asserted>>
  BY DEF HandleWrite, Rest, bounds
<1>2. /\ TodoOk(todo') /\ Items(todo) = Items(todo') \cup {"write"}
      /\ "close" \notin Items(todo') /\ "read" \notin Items(todo')
  BY <1>1, NextStep
<1>3. Kinds(queue) \subseteq Kinds(queue') /\ Kinds(queue') \subseteq Kinds(queue) \cup {"writeComplete"}
  BY EventsKinds DEF Events, Known
<1>4. Plain
  BY <1>2, <1>3 DEF Plain
<1>5. CASE UNCHANGED <<events_, added, addedToLoop_, wrShut>>
  BY <1>1, <1>4, <1>5, PlainStep DEF core
<1>6. CASE "write" \in events_ /\ Drained
  <2>1. /\ events_' = events_ \ {"write"} /\ added' = (~added \/ events_ \ {"write"} # {})
        /\ addedToLoop_' = TRUE
        /\ wrShut' = wrShut \/ state_ = "kDisconnecting"
    BY <1>6 DEF Drained, Update
  <2>2. state_ # "kConnecting"
    BY <1>1 DEF Known, FrontInv, Connecting
  <2>3. Up
    BY <1>6, <2>2 DEF LifeInv, ObjectInv, Up, Known, CountInv, TypeOK
  <2>4. "stopRead" \notin Made => "read" \in events_' /\ added'
    <3>1. "stopRead" \notin Made => "read" \in events_
      BY <2>3 DEF LifeInv, ObjectInv
    <3>2. "read" \in events_ => "read" \in events_ \ {"write"}
      OBVIOUS
    <3>3. "read" \in events_ \ {"write"} => events_ \ {"write"} # {}
      OBVIOUS
    <3> QED BY <2>1, <3>1, <3>2, <3>3, Zenon
  <2>5. TodoInv'
    BY <1>1, <1>2, <2>3 DEF LifeInv, TodoInv, Up
  <2>6. ObjectInv'
    BY <1>1, <2>3, <2>4 DEF ObjectInv, Up, Made
  <2>7. ServerInv'
    BY <1>1, <1>4, <2>3 DEF LifeInv, ServerInv, Plain, Up
  <2>8. Calm => Calm'
    BY <1>1, <1>4, <2>1 DEF Calm, Plain
  <2>9. CalmInv' /\ SetInv'
    BY <1>1, <2>8 DEF LifeInv, CalmInv, SetInv
  <2> QED BY <1>1, <2>5, <2>6, <2>7, <2>9 DEF LifeInv
<1> QED BY <1>1, <1>5, <1>6 DEF HandleWrite

\* The user callback returns.
LEMMA CallbackReturnsLife ==
    ASSUME Known, LifeInv, CallbackReturns
    PROVE  LifeInv'
<1>1. /\ todo # <<>> /\ Head(todo) = "callback" /\ todo' = Tail(todo)
      /\ UNCHANGED core /\ UNCHANGED queue
  BY DEF CallbackReturns, Rest, core, object, socket, bounds
<1> QED BY <1>1, TailPlain, PlainStep

\* closeCallback_ finds the server, which lets the connection go.
LEMMA CloseCallbackLife ==
    ASSUME Known, LifeInv, CloseCallback
    PROVE  LifeInv' /\ asserted' = asserted
<1>1. /\ todo # <<>> /\ Head(todo) = "closeCallback" /\ todo' = Tail(todo)
      /\ server' = (IF server = "holds" THEN "removing" ELSE server)
      /\ asserted' = (IF server # "gone" THEN asserted ELSE asserted \cup {"closeCallback"})
      /\ UNCHANGED <<state_, events_, added, addedToLoop_, peer, wrShut, timers, user, usage, calls, queue>>
  BY DEF CloseCallback, Rest, Check, object, socket, bounds
<1>2. /\ Plain /\ "closeCallback" \in Items(todo)
  BY <1>1, TailPlain, NextStep
<1>3. state_ = "kDisconnected" /\ "serverDestroyed" \notin usage.happens /\ ~Calm
  BY <1>2 DEF LifeInv, TodoInv, Calm
<1>4. server # "gone"
  BY <1>3 DEF LifeInv, ServerInv
<1>5. TodoInv'
  BY <1>1, <1>2 DEF LifeInv, TodoInv, Plain, Up
<1>6. ObjectInv'
  BY <1>1, <1>2 DEF LifeInv, ObjectInv, Plain, Up, Made
<1>7. ServerInv'
  BY <1>1, <1>2, <1>3 DEF LifeInv, ServerInv, Plain
<1>8. CalmInv' /\ SetInv'
  BY <1>1, <1>3 DEF LifeInv, CalmInv, SetInv
<1> QED BY <1>1, <1>4, <1>5, <1>6, <1>7, <1>8 DEF LifeInv

\* connectDestroyed takes a channel without events out of the loop.
LEMMA RemoveLife ==
    ASSUME Known, LifeInv, RemoveChannel
    PROVE  LifeInv' /\ asserted' = asserted
<1>1. /\ todo # <<>> /\ Head(todo) = "remove" /\ todo' = Tail(todo)
      /\ added' = FALSE /\ addedToLoop_' = FALSE
      /\ asserted' = (IF events_ = {} THEN asserted ELSE asserted \cup {"Channel::remove"})
      /\ UNCHANGED <<state_, events_, server, peer, wrShut, timers, user, usage, calls, queue>>
  BY DEF RemoveChannel, Rest, Check, socket, bounds
<1>2. /\ TodoOk(todo') /\ Items(todo) = Items(todo') \cup {"remove"}
      /\ "close" \notin Items(todo') /\ "read" \notin Items(todo')
  BY <1>1, NextStep
<1>3. state_ = "kDisconnected" /\ events_ = {}
  BY <1>2 DEF LifeInv, TodoInv, ObjectInv
<1>4. TodoInv'
  BY <1>1, <1>2 DEF LifeInv, TodoInv, Up
<1>5. ObjectInv'
  BY <1>1, <1>3 DEF ObjectInv, Up
<1>6. ServerInv'
  BY <1>1, <1>2, <1>3 DEF LifeInv, ServerInv
<1>7. Calm => Calm'
  BY <1>1, <1>2 DEF Calm
<1>8. CalmInv' /\ SetInv'
  BY <1>1, <1>7 DEF LifeInv, CalmInv, SetInv
<1> QED BY <1>1, <1>3, <1>4, <1>5, <1>6, <1>8 DEF LifeInv

\* Events keep the invariant, and no assert fails.
LEMMA EventsLife ==
    ASSUME Known, LifeInv, Events
    PROVE  LifeInv' /\ asserted' = asserted
<1>1. ASSUME NEW writable \in BOOLEAN, Poll(writable) PROVE LifeInv' /\ asserted' = asserted
  BY <1>1, PollLife DEF Poll
<1>2. CASE HandleError
  BY <1>2, ErrorLife DEF HandleError
<1>3. CASE CallbackReturns
  BY <1>3, CallbackReturnsLife DEF CallbackReturns
<1> QED
  BY <1>1, <1>2, <1>3, CloseLife, ReadLife, WriteLife, CloseCallbackLife, RemoveLife DEF Events

\* Taking a functor of another kind leaves connectDestroyed, and what closes, as it is.
LEMMA RunPlain ==
    ASSUME Known, LifeInv, NEW kind, Run(kind), kind # "destroyed",
           queue' = Tail(queue), TodoOk(todo'), Items(todo') \subseteq {"callback"}
    PROVE  Plain /\ kind \in Kinds(queue)
<1>1. Kinds(queue) = Kinds(queue') \cup {kind}
  BY RunKinds DEF Known
<1>2. todo = <<>> /\ Items(todo) = {}
  BY TodoHandlers DEF Run
<1> QED BY <1>1, <1>2 DEF Plain

\* The connection is established.
LEMMA EstablishedLife ==
    ASSUME Known, LifeInv, ConnectEstablished
    PROVE  LifeInv' /\ asserted' = asserted
<1>1. /\ Run("established") /\ queue' = Tail(queue) /\ todo' = <<"callback">>
      /\ asserted' = (IF state_ = "kConnecting" THEN asserted ELSE asserted \cup {"connectEstablished"})
      /\ state_' = "kConnected" /\ events_' = events_ \cup {"read"}
      /\ added' = (~added \/ events_ \cup {"read"} # {})
      /\ UNCHANGED <<server, peer, wrShut, timers, user, usage, calls>>
  BY DEF ConnectEstablished, Check, Update, socket, bounds
<1>2. state_ = "kConnecting"
  BY <1>1, RunStep DEF Known
<1>3. "read" \in events_' /\ added'
  <2>1. events_ \cup {"read"} # {}
    OBVIOUS
  <2> QED BY <1>1, <2>1
<1>4. TodoOk(todo') /\ Items(todo') = {"callback"}
  BY <1>1, TodoHandlers, TodoPlain
<1>5. Plain
  BY <1>1, <1>4, RunPlain
<1>6. TodoInv'
  BY <1>1, <1>4 DEF TodoInv
<1>7. ObjectInv'
  BY <1>1, <1>3 DEF ObjectInv
<1>8. Items(todo) = {}
  BY <1>1, TodoHandlers DEF Run
<1>9. ServerInv'
  BY <1>1, <1>2, <1>5, <1>8 DEF LifeInv, ServerInv, Plain
<1>10. Calm => Calm'
  BY <1>1, <1>5 DEF Calm, Plain
<1>11. CalmInv'
  BY <1>1, <1>2, <1>10 DEF LifeInv, CalmInv
<1>12. SetInv'
  BY <1>1, <1>2 DEF LifeInv, SetInv
<1> QED BY <1>1, <1>2, <1>6, <1>7, <1>9, <1>11, <1>12 DEF LifeInv

\* connectDestroyed finds the connection closed, or closes it for a server that is gone.
LEMMA DestroyedLife ==
    ASSUME Known, LifeInv, ConnectDestroyed
    PROVE  LifeInv' /\ asserted' = asserted
<1>1. /\ Run("destroyed") /\ queue' = Tail(queue)
      /\ UNCHANGED <<server, peer, wrShut, timers, user, usage, calls, asserted>>
  BY DEF ConnectDestroyed, socket, bounds
<1>2. state_ # "kConnecting" /\ Kinds(queue) = Kinds(queue') \cup {"destroyed"}
  BY <1>1, RunStep, RunKinds DEF Known
<1>3. server \in {"removed", "gone"}
  BY <1>2 DEF LifeInv, ServerInv
<1>4. Items(todo) = {}
  BY <1>1, TodoHandlers DEF Run
<1>5. CASE state_ = "kConnected"
  <2>1. /\ state_' = "kDisconnected" /\ events_' = {} /\ todo' = <<"callback", "remove">>
    BY <1>5 DEF ConnectDestroyed, Update
  <2>2. server = "gone" /\ "serverDestroyed" \in usage.happens
    BY <1>3, <1>5 DEF LifeInv, ServerInv
  <2>3. Peaceful(usage) /\ ~UserCloses(usage)
    BY <2>2, CarefulFacts DEF Known
  <2>4. Calm
    BY <2>3 DEF LifeInv, CalmInv
  <2>5. TodoOk(todo') /\ Items(todo') = {"callback", "remove"}
    BY <2>1, TodoHandlers, TodoPlain
  <2>6. Calm'
    BY <1>1, <1>2, <2>1, <2>2, <2>4, <2>5 DEF Calm
  <2>7. TodoInv'
    BY <2>1, <2>5 DEF TodoInv
  <2>8. ObjectInv'
    BY <2>1, <2>5 DEF ObjectInv, Up
  <2>9. ServerInv'
    BY <1>1, <2>1, <2>2, <2>5 DEF ServerInv
  <2>10. user[2] # "set"
    BY <2>3, SettingCalm
  <2>11. SetInv' /\ CalmInv'
    BY <1>1, <2>3, <2>6, <2>10 DEF SetInv, CalmInv
  <2> QED BY <1>1, <2>7, <2>8, <2>9, <2>11 DEF LifeInv
<1>6. CASE state_ # "kConnected"
  <2>1. todo' = <<"remove">> /\ UNCHANGED <<state_, events_, added, addedToLoop_>>
    BY <1>6 DEF ConnectDestroyed
  <2>2. state_ = "kDisconnected"
    <3>1. CASE server = "removed"
      BY <3>1 DEF LifeInv, ServerInv
    <3>2. CASE server = "gone"
      <4>1. Peaceful(usage) /\ ~UserCloses(usage)
        BY <3>2, CarefulFacts DEF Known, LifeInv, ServerInv
      <4>2. state_ # "kDisconnecting"
        BY <4>1 DEF LifeInv, CalmInv, Calm
      <4> QED BY <1>2, <1>6, <4>2 DEF Known, CountInv, TypeOK
    <3> QED BY <1>3, <3>1, <3>2
  <2>3. TodoOk(todo') /\ Items(todo') = {"remove"}
    BY <2>1, TodoHandlers, TodoPlain
  <2>4. TodoInv'
    BY <2>1, <2>2, <2>3 DEF TodoInv
  <2>5. ObjectInv'
    BY <2>1, <2>2, <2>3 DEF LifeInv, ObjectInv, Up
  <2>6. ServerInv'
    BY <1>1, <1>3, <2>1, <2>2, <2>3 DEF LifeInv, ServerInv
  <2>7. Calm => Calm'
    BY <1>1, <1>2, <2>1, <2>3 DEF Calm
  <2>8. CalmInv' /\ SetInv'
    BY <1>1, <2>1, <2>7 DEF LifeInv, CalmInv, SetInv
  <2> QED BY <1>1, <2>4, <2>5, <2>6, <2>8 DEF LifeInv
<1> QED BY <1>5, <1>6

\* A forced close finds the channel added: nobody has stopped reading.
LEMMA ForceCloseLife ==
    ASSUME Known, LifeInv, ForceCloseInLoop
    PROVE  LifeInv' /\ asserted' = asserted
<1>1. /\ Run("forceClose") /\ queue' = Tail(queue)
      /\ UNCHANGED <<server, peer, wrShut, timers, user, usage, calls>>
  BY DEF ForceCloseInLoop, socket, bounds
<1>2. Kinds(queue) = Kinds(queue') \cup {"forceClose"}
  BY <1>1, RunKinds DEF Known
<1>3. CASE Up
  <2>1. HandleClose(<<>>)
    BY <1>3 DEF ForceCloseInLoop, Up
  <2>2. ~Calm
    BY <1>2 DEF Calm
  <2>3. Made \cap Forcing # {}
    BY <1>2 DEF Known, UsageInv, CallsInv
  <2>4. "stopRead" \notin Made
    BY <2>3, CarefulFacts DEF Known
  <2>5. added
    BY <1>3, <2>4 DEF LifeInv, ObjectInv
  <2>6. <<>> \in Seq(Steps) /\ Items(<<>>) \subseteq {"error", "write"}
    BY TodoHandlers
  <2> QED BY <1>1, <1>2, <1>3, <2>1, <2>2, <2>5, <2>6, CloseStep
<1>4. CASE ~Up
  <2>1. UNCHANGED <<object, todo, asserted>>
    BY <1>4 DEF ForceCloseInLoop, Up
  <2>2. todo = <<>> /\ TodoOk(todo') /\ Items(todo') \subseteq {"callback"}
    BY <1>1, <2>1, TodoHandlers, TodoPlain DEF Run
  <2>3. Plain
    BY <1>1, <2>2, RunPlain
  <2> QED BY <1>1, <2>1, <2>3, PlainStep DEF core, object
<1> QED BY <1>3, <1>4

\* A functor of another thread's call; only startRead, stopRead and send change what an open
\* connection waits for, and a closed one is left alone.
LEMMA RawLife ==
    ASSUME Known, LifeInv, RunShutdown \/ RunStartRead \/ RunStopRead
    PROVE  LifeInv'
<1>1. ASSUME NEW kind, Run(kind), UNCHANGED todo, queue' = Tail(queue), kind # "destroyed"
      PROVE  Plain /\ kind \in Kinds(queue)
             /\ "close" \notin Items(todo') /\ "read" \notin Items(todo')
             /\ (state_ # "kConnecting" \/ kind = "established")
  <2>1. todo = <<>> /\ TodoOk(todo') /\ Items(todo') = {}
    BY <1>1, TodoHandlers, TodoPlain DEF Run
  <2> QED BY <1>1, <2>1, RunPlain, RunStep DEF Known
<1>2. CASE RunShutdown
  <2>1. /\ Run("shutdown") /\ queue' = Tail(queue)
        /\ UNCHANGED <<state_, events_, added, addedToLoop_, todo, server, peer, timers, user, usage, calls>>
    BY <1>2 DEF RunShutdown, RawFunctor, object, bounds
  <2>2. Plain /\ "shutdown" \in Kinds(queue)
    BY <1>1, <2>1
  <2>3. ~Calm
    BY <2>2 DEF Calm
  <2>4. TodoInv'
    BY <2>1, <2>2 DEF LifeInv, TodoInv, Plain, Up
  <2>5. ObjectInv'
    BY <2>1, <2>2 DEF LifeInv, ObjectInv, Plain, Up, Made
  <2>6. ServerInv'
    BY <2>1, <2>2 DEF LifeInv, ServerInv, Plain
  <2>7. CalmInv' /\ SetInv'
    BY <2>1, <2>3 DEF LifeInv, CalmInv, SetInv
  <2> QED BY <2>4, <2>5, <2>6, <2>7 DEF LifeInv
<1>3. CASE RunStartRead
  <2>0. events_ \cup {"read"} # {} /\ "read" \in events_ \cup {"read"}
    OBVIOUS
  <2>1. /\ Run("startRead") /\ queue' = Tail(queue)
        /\ UNCHANGED <<state_, todo, server, peer, wrShut, timers, user, usage, calls>>
        /\ \/ events_' = events_ /\ (added => added')
           \/ events_' = events_ \cup {"read"} /\ added'
    BY <1>3, <2>0 DEF RunStartRead, RawFunctor, StartReadInLoop, Update, bounds
  <2>2. Plain /\ "startRead" \in Kinds(queue) /\ "close" \notin Items(todo') /\ "read" \notin Items(todo')
        /\ state_ # "kConnecting"
    BY <1>1, <2>1
  <2>3. "startRead" \in usage.user
    BY <2>2 DEF Known, UsageInv, CallsInv, Raw
  <2>4. Up
    BY <2>2, <2>3, StaysUp DEF Up
  <2>6. "stopRead" \notin Made => "read" \in events_' /\ added'
    <3>1. "stopRead" \notin Made => "read" \in events_ /\ added
      BY <2>4 DEF LifeInv, ObjectInv
    <3> QED BY <2>1, <2>0, <3>1, Zenon
  <2> QED BY <2>1, <2>2, <2>4, <2>6, ObjectStep
<1>4. CASE RunStopRead
  <2>1. /\ Run("stopRead") /\ queue' = Tail(queue)
        /\ UNCHANGED <<state_, todo, server, peer, wrShut, timers, user, usage, calls>>
    BY <1>4 DEF RunStopRead, RawFunctor, bounds
  <2>2. Plain /\ "stopRead" \in Kinds(queue) /\ "close" \notin Items(todo') /\ "read" \notin Items(todo')
        /\ state_ # "kConnecting"
    BY <1>1, <2>1
  <2>3. "stopRead" \in usage.user
    BY <2>2 DEF Known, UsageInv, CallsInv, Raw
  <2>4. Up /\ "stopRead" \in Made
    BY <2>2, <2>3, StaysUp DEF Up, Made
  <2> QED BY <2>1, <2>2, <2>4, ObjectStep
<1> QED BY <1>2, <1>3, <1>4

\* sendInLoop asks for write events only while the connection is up.
LEMMA SendLife ==
    ASSUME Known, LifeInv, NEW m, NEW q, SendInLoop(m, q), state_ # "kConnecting", Plain,
           "close" \notin Items(todo'), "read" \notin Items(todo'),
           UNCHANGED <<server, peer, wrShut, timers, user, usage, calls>>
    PROVE  LifeInv'
<1>1. state_' = state_
  BY SendObject
<1>2. CASE UNCHANGED <<events_, added, addedToLoop_>>
  BY <1>1, <1>2, PlainStep DEF core
<1>3. CASE state_ # "kDisconnected" /\ events_' = events_ \cup {"write"} /\ added'
  <2>1. Up
    BY <1>3 DEF Up, Known, CountInv, TypeOK
  <2>2. "stopRead" \notin Made => "read" \in events_' /\ added'
    BY <1>3, <2>1 DEF LifeInv, ObjectInv
  <2> QED BY <1>1, <2>1, <2>2, ObjectStep
<1> QED BY <1>2, <1>3, SendObject

\* send() of another thread.
LEMMA RunSendLife ==
    ASSUME Known, LifeInv, NEW m \in Messages, RunSend(m)
    PROVE  LifeInv'
<1>1. /\ Run("send") /\ SendInLoop(m, Tail(queue)) /\ UNCHANGED todo
      /\ UNCHANGED <<server, peer, wrShut, timers, user, usage, calls>>
  BY DEF RunSend, RawFunctor, bounds
<1>2. /\ Tail(queue) \in Seq(Functor) /\ state_ # "kConnecting"
      /\ Kinds(queue) = Kinds(Tail(queue)) \cup {"send"}
  BY <1>1, RunStep, RunKinds DEF Known, Front
<1>3. /\ Kinds(Tail(queue)) \subseteq Kinds(queue')
      /\ Kinds(queue') \subseteq Kinds(Tail(queue)) \cup {"writeComplete", "highWater"}
  BY <1>1, <1>2, KindsSend
<1>4. TodoOk(todo') /\ Items(todo') = {} /\ Items(todo) = {}
  BY <1>1, TodoHandlers, TodoPlain DEF Run
<1>5. Plain
  BY <1>2, <1>3, <1>4 DEF Plain
<1> QED BY <1>1, <1>2, <1>4, <1>5, SendLife

\* Functors keep the invariant.
LEMMA FunctorsLife ==
    ASSUME Known, LifeInv, Functors
    PROVE  LifeInv'
<1>1. CASE SwapFunctors \/ FunctorsDone
  <2>1. UNCHANGED core /\ UNCHANGED <<queue, todo>>
    BY <1>1 DEF SwapFunctors, FunctorsDone, core, object, socket, bounds
  <2>2. Plain
    BY <2>1 DEF Plain, LifeInv, TodoInv
  <2> QED BY <2>1, <2>2, PlainStep
<1>2. CASE UserCallback
  <2>1. PICK kind \in {"writeComplete", "highWater"} : Run(kind)
    BY <1>2 DEF UserCallback
  <2>2. queue' = Tail(queue) /\ todo' = <<"callback">> /\ UNCHANGED core
    BY <1>2 DEF UserCallback, core, object, socket, bounds
  <2>3. TodoOk(todo') /\ Items(todo') = {"callback"}
    BY <2>2, TodoHandlers, TodoPlain
  <2>4. Plain
    BY <2>1, <2>2, <2>3, RunPlain
  <2> QED BY <2>2, <2>4, PlainStep
<1> QED
  BY <1>1, <1>2, EstablishedLife, DestroyedLife, ForceCloseLife, RawLife, RunSendLife DEF Functors

\* A timer is one that another close has set before.
LEMMA TimerLife ==
    ASSUME Known, LifeInv, TimerFires
    PROVE  LifeInv'
<1>1. /\ timers > 0 /\ todo = <<>> /\ UNCHANGED <<events_, added, addedToLoop_, server, peer, wrShut, user, usage, calls, todo>>
      /\ timers' = timers - 1
      /\ \/ UNCHANGED <<state_, queue>>
         \/ Up /\ state_' = "kDisconnecting" /\ queue' = Append(queue, <<"forceClose", "">>)
  BY DEF TimerFires, Idle, Queue, Up, socket, bounds
<1>2. ~Calm
  BY <1>1 DEF Calm
<1>3. /\ user[2] # "set" /\ (UserCloses(usage) => calls >= 1)
      /\ Peaceful(usage) => UserCloses(usage) /\ state_ \in {"kDisconnecting", "kDisconnected"}
  BY <1>2, NotCalm
<1>4. TodoOk(todo') /\ Items(todo') = Items(todo)
  BY <1>1 DEF LifeInv, TodoInv
<1>5. Items(todo) = {}
  BY <1>1, TodoHandlers
<1>6. "destroyed" \in Kinds(queue') <=> "destroyed" \in Kinds(queue)
  <2>1. Kinds(Append(queue, <<"forceClose", "">>)) = Kinds(queue) \cup {"forceClose"}
    BY KindsAppend, QueuedFunctors DEF Known, FrontInv, Front
  <2>2. CASE queue' = queue
    BY <2>2
  <2>3. CASE queue' = Append(queue, <<"forceClose", "">>)
    BY <2>1, <2>3
  <2> QED BY <1>1, <2>2, <2>3
<1>7. TodoInv'
  BY <1>4, <1>5 DEF TodoInv
<1>8. ObjectInv'
  BY <1>1, <1>4 DEF LifeInv, ObjectInv, Up, Made
<1>9. ServerInv'
  BY <1>1, <1>4, <1>6 DEF LifeInv, ServerInv, Up
<1>10. CalmInv' /\ SetInv'
  BY <1>1, <1>3 DEF CalmInv, SetInv
<1> QED BY <1>7, <1>8, <1>9, <1>10 DEF LifeInv

\* What is left of the loop thread and of the object by a call or by the surroundings.
LEMMA Unmoved ==
    ASSUME LifeInv, UNCHANGED <<state_, events_, added, todo, usage>>
    PROVE  TodoInv' /\ ObjectInv'
<1>1. TodoInv'
  BY DEF LifeInv, TodoInv, Up
<1>2. ObjectInv'
  BY DEF LifeInv, ObjectInv, Up, Made
<1> QED BY <1>1, <1>2

\* shutdown(), forceClose() or forceCloseWithDelay() in a callback: no other thread closes.
LEMMA ClosingCallLife ==
    ASSUME Known, LifeInv, Up, usage.callback \cap Closing # {}, state_' = "kDisconnecting",
           UNCHANGED <<events_, added, addedToLoop_, todo, server, user, usage>>,
           "destroyed" \in Kinds(queue') <=> "destroyed" \in Kinds(queue)
    PROVE  LifeInv'
<1>1. ~Peaceful(usage)
  BY DEF Peaceful
<1>2. ~UserCloses(usage)
  BY <1>1, CarefulFacts DEF Known
<1>3. user[2] # "set"
  BY <1>2, SettingCalm
<1>4. TodoInv'
  BY DEF LifeInv, TodoInv, Up
<1>5. ObjectInv'
  BY DEF LifeInv, ObjectInv, Up, Made
<1>6. ServerInv'
  BY DEF LifeInv, ServerInv, Up
<1>7. CalmInv' /\ SetInv'
  BY <1>1, <1>2, <1>3 DEF CalmInv, SetInv
<1> QED BY <1>4, <1>5, <1>6, <1>7 DEF LifeInv

\* A callback finds no event to handle before it returns.
LEMMA CallbackPlain ==
    ASSUME Known, LifeInv, InCallback, UNCHANGED todo
    PROVE  /\ "close" \notin Items(todo') /\ "read" \notin Items(todo')
           /\ TodoOk(todo') /\ todo # <<>>
           /\ UNCHANGED queue => Plain
           /\ state_ # "kConnecting"
<1>1. todo # <<>> /\ Head(todo) = "callback" /\ todo' = todo
  BY DEF InCallback
<1>2. Items(todo) = Items(Tail(todo)) \cup {"callback"}
      /\ "close" \notin Items(Tail(todo)) /\ "read" \notin Items(Tail(todo))
  BY <1>1, NextStep
<1>3. TodoOk(todo)
  BY DEF LifeInv, TodoInv
<1>4. UNCHANGED queue => Plain
  BY <1>1, <1>3 DEF Plain
<1>5. state_ # "kConnecting"
  BY <1>1 DEF Known, FrontInv, Connecting
<1> QED BY <1>1, <1>2, <1>3, <1>4, <1>5

\* startRead() and stopRead() in a callback.
LEMMA CallbackReadLife ==
    ASSUME Known, LifeInv, CallbackStartRead \/ CallbackStopRead
    PROVE  LifeInv'
<1>1. /\ InCallback /\ UNCHANGED todo /\ UNCHANGED queue /\ state_ = "kConnected"
      /\ calls' = calls + 1
      /\ UNCHANGED <<state_, server, peer, wrShut, timers, user, usage>>
  BY DEF CallbackStartRead, CallbackStopRead, MayCall, threads, socket
<1>2. calls >= 1 => calls' >= 1
  <2>1. calls \in Nat
    BY UsageAssumption DEF Known, CountInv, TypeOK, UsageType
  <2> QED BY <1>1, <2>1
<1>3. Plain /\ Up /\ "close" \notin Items(todo') /\ "read" \notin Items(todo')
  BY <1>1, CallbackPlain DEF Up
<1>4. CASE CallbackStartRead
  <2>0. events_ \cup {"read"} # {} /\ "read" \in events_ \cup {"read"}
    OBVIOUS
  <2>1. \/ events_' = events_ /\ (added => added')
        \/ events_' = events_ \cup {"read"} /\ added'
    BY <1>4, <2>0 DEF CallbackStartRead, StartReadInLoop, Update
  <2>2. "stopRead" \notin Made => "read" \in events_ /\ added
    BY <1>3 DEF LifeInv, ObjectInv
  <2>4. "stopRead" \notin Made => "read" \in events_' /\ added'
    BY <2>1, <2>2, <2>0, Zenon
  <2> QED BY <1>1, <1>2, <1>3, <2>4, ObjectStep
<1>5. CASE CallbackStopRead
  <2>1. "stopRead" \in Made
    BY <1>5 DEF CallbackStopRead, MayCall, Made
  <2> QED BY <1>1, <1>2, <1>3, <2>1, ObjectStep
<1> QED BY <1>4, <1>5

\* Another thread tests state_: a call that closes finds kConnected, since it is the only one
\* that closes and, unless it is shutdown(), the first.
LEMMA TestLife ==
    ASSUME Known, LifeInv, NEW kind \in usage.user \ {"send"}, UserTests(kind)
    PROVE  LifeInv'
<1>1. /\ user' = <<kind, IF kind \in Closing THEN "set" ELSE "queue">>
      /\ Tested(kind) /\ calls < usage.maxCalls /\ calls' = calls + 1
      /\ UNCHANGED <<state_, events_, added, addedToLoop_, todo, queue, server, peer, wrShut, timers, usage>>
  BY DEF UserTests, MayCall, object, socket
<1>2. calls \in Nat /\ usage.maxCalls \in Nat
  BY UsageAssumption DEF Known, CountInv, TypeOK, UsageType
<1>3. calls' >= 1
  BY <1>1, <1>2
<1>4. TodoInv' /\ ObjectInv'
  BY <1>1, Unmoved
<1>5. ServerInv'
  BY <1>1 DEF LifeInv, ServerInv
<1>6. user'[1] = kind /\ (user'[2] = "queue" => kind \notin Closing) /\ (user'[2] = "set" => kind \in Closing)
  BY <1>1
<1>7. Calm => Calm'
  BY <1>1, <1>6 DEF Calm
<1>8. CalmInv'
  BY <1>1, <1>7 DEF LifeInv, CalmInv
<1>9. kind \in Closing => state_ = "kConnected"
  <2> SUFFICES ASSUME kind \in Closing PROVE state_ = "kConnected"
    OBVIOUS
  <2>1. UserCloses(usage) /\ state_ \in {"kConnected", "kDisconnecting"}
    BY <1>1 DEF UserCloses, Tested
  <2>2. usage.maxCalls <= 1 \/ usage.user \cap Closing = {"shutdown"}
    BY <2>1, CarefulFacts DEF Known
  <2>3. CASE usage.user \cap Closing = {"shutdown"}
    BY <1>1, <2>3 DEF Tested
  <2>4. CASE usage.maxCalls <= 1
    <3>1. ~ (calls >= 1)
      BY <1>1, <1>2, <2>4
    <3> QED BY <2>1, <3>1 DEF LifeInv, SetInv
  <2> QED BY <2>2, <2>3, <2>4
<1>10. SetInv'
  BY <1>1, <1>3, <1>6, <1>9 DEF SetInv
<1> QED BY <1>4, <1>5, <1>8, <1>10 DEF LifeInv

\* The application keeps the invariant.
LEMMA ApplicationLife ==
    ASSUME Known, LifeInv, Application
    PROVE  LifeInv'
<1>0. queue \in Seq(Functor)
  BY DEF Known, FrontInv, Front
<1>1. ASSUME NEW m, CallbackSend(m) PROVE LifeInv'
  <2>1. /\ InCallback /\ UNCHANGED todo /\ SendInLoop(m, queue)
        /\ UNCHANGED <<server, peer, wrShut, timers, user, usage, calls>>
    BY <1>1 DEF CallbackSend, socket
  <2>2. /\ "close" \notin Items(todo') /\ "read" \notin Items(todo')
        /\ TodoOk(todo') /\ state_ # "kConnecting"
    BY <2>1, CallbackPlain
  <2>3. /\ Kinds(queue) \subseteq Kinds(queue')
        /\ Kinds(queue') \subseteq Kinds(queue) \cup {"writeComplete", "highWater"}
    BY <1>0, <2>1, KindsSend
  <2>4. Plain
    BY <2>1, <2>2, <2>3 DEF Plain
  <2> QED BY <2>1, <2>2, <2>4, SendLife
<1>2. CASE CallbackShutdown
  <2>1. /\ Up /\ usage.callback \cap Closing # {} /\ state_' = "kDisconnecting"
        /\ UNCHANGED <<events_, added, addedToLoop_, todo, server, user, usage, queue>>
    BY <1>2 DEF CallbackShutdown, MayCall, Closing, Up, threads
  <2> QED BY <2>1, ClosingCallLife
<1>3. CASE CallbackForceClose
  <2>1. /\ Up /\ usage.callback \cap Closing # {} /\ state_' = "kDisconnecting"
        /\ queue' = Append(queue, <<"forceClose", "">>)
        /\ UNCHANGED <<events_, added, addedToLoop_, todo, server, user, usage>>
    BY <1>3 DEF CallbackForceClose, MayCall, Closing, Up, Queue
  <2>2. Kinds(Append(queue, <<"forceClose", "">>)) = Kinds(queue) \cup {"forceClose"}
    BY <1>0, KindsAppend, QueuedFunctors
  <2>3. "destroyed" \in Kinds(queue') <=> "destroyed" \in Kinds(queue)
    BY <2>1, <2>2
  <2> QED BY <2>1, <2>3, ClosingCallLife
<1>4. CASE CallbackForceCloseWithDelay
  <2>1. /\ Up /\ usage.callback \cap Closing # {} /\ state_' = "kDisconnecting"
        /\ UNCHANGED <<events_, added, addedToLoop_, todo, server, user, usage, queue>>
    BY <1>4 DEF CallbackForceCloseWithDelay, MayCall, Closing, Up
  <2> QED BY <2>1, ClosingCallLife
<1>5. CASE CallbackHandsOver \/ UserDrops
  <2>1. UNCHANGED core /\ UNCHANGED queue /\ UNCHANGED todo
    BY <1>5 DEF CallbackHandsOver, UserDrops, core, object, socket, bounds
  <2>2. Plain
    BY <2>1 DEF Plain, LifeInv, TodoInv
  <2> QED BY <2>1, <2>2, PlainStep
<1>6. ASSUME NEW m, UserTestsSend(m) PROVE LifeInv'
  <2>1. /\ user' = <<m, "send">>
        /\ UNCHANGED <<state_, events_, added, addedToLoop_, todo, queue, server, peer, wrShut, timers, usage, calls>>
    BY <1>6 DEF UserTestsSend, object, socket
  <2>2. user'[2] = "send"
    BY <2>1
  <2>3. TodoInv' /\ ObjectInv'
    BY <2>1, Unmoved
  <2>4. ServerInv'
    BY <2>1 DEF LifeInv, ServerInv
  <2>5. Calm => Calm'
    BY <2>1, <2>2 DEF Calm
  <2>6. CalmInv' /\ SetInv'
    BY <2>1, <2>2, <2>5 DEF LifeInv, CalmInv, SetInv
  <2> QED BY <2>3, <2>4, <2>6 DEF LifeInv
<1> QED BY <1>1, <1>2, <1>3, <1>4, <1>5, <1>6, CallbackReadLife, TestLife DEF Application

\* setState(kDisconnecting) of another thread comes in time, and begins to close a calm
\* connection.
LEMMA SetLife ==
    ASSUME Known, LifeInv, UserSets
    PROVE  LifeInv'
<1>1. /\ user[2] = "set" /\ state_' = "kDisconnecting" /\ user' = <<user[1], "queue">>
      /\ UNCHANGED <<events_, added, addedToLoop_, todo, queue, server, usage, calls>>
  BY DEF UserSets, bounds
<1>2. UserCloses(usage) /\ Calm /\ state_ = "kConnected"
  BY <1>1, SettingCalm
<1>3. user'[2] = "queue"
  BY <1>1
<1>4. calls >= 1
  BY <1>1, <1>2 DEF LifeInv, SetInv
<1>5. TodoInv'
  BY <1>1, <1>2 DEF LifeInv, TodoInv, Up
<1>6. ObjectInv'
  BY <1>1, <1>2 DEF LifeInv, ObjectInv, Up, Made
<1>7. ServerInv'
  BY <1>1, <1>2 DEF LifeInv, ServerInv
<1>8. CalmInv'
  BY <1>1, <1>2 DEF CalmInv
<1>9. SetInv'
  BY <1>1, <1>3, <1>4 DEF SetInv
<1> QED BY <1>5, <1>6, <1>7, <1>8, <1>9 DEF LifeInv

\* A thread that queues a functor which closes, or adds such a timer, has begun to close.
LEMMA QueueLife ==
    ASSUME Known, LifeInv, UserQueues
    PROVE  LifeInv'
<1>1. /\ user' = <<"idle", "">>
      /\ UNCHANGED <<state_, events_, added, addedToLoop_, todo, server, peer, wrShut, usage, calls>>
  BY DEF UserQueues, object, socket, bounds
<1>2. user'[2] = ""
  BY <1>1
<1>3. \E kind \in Calls : /\ Kinds(queue') \subseteq Kinds(queue) \cup {kind} /\ Kinds(queue) \subseteq Kinds(queue')
                          /\ kind \in Closing => user[2] = "queue" /\ user[1] \in Closing
                          /\ kind \notin Closing => UNCHANGED timers
  <2>0. queue \in Seq(Functor)
    BY DEF Known, FrontInv, Front
  <2>1. CASE user[2] = "send"
    <3>1. queue' = Append(queue, <<"send", user[1]>>) /\ UNCHANGED timers
      BY <2>1 DEF UserQueues, Queue
    <3>2. <<"send", user[1]>> \in Functor /\ <<"send", user[1]>>[1] = "send"
      BY <2>1, UserPlace DEF Known, FrontInv, Functor, FunctorKinds, Calls
    <3>3. Kinds(Append(queue, <<"send", user[1]>>)) = Kinds(queue) \cup {"send"}
      BY <2>0, <3>2, KindsAppend
    <3>4. "send" \in Calls /\ "send" \notin Closing
      BY DEF Calls, Closing
    <3> QED BY <3>1, <3>3, <3>4
  <2>2. CASE user[2] = "queue" /\ user[1] = "forceCloseWithDelay"
    <3>1. UNCHANGED queue
      BY <2>2 DEF UserQueues
    <3>2. user[1] \in Calls /\ user[1] \in Closing
      BY <2>2 DEF Calls, Closing
    <3> QED BY <2>2, <3>1, <3>2
  <2>3. CASE user[2] = "queue" /\ user[1] # "forceCloseWithDelay"
    <3>1. queue' = Append(queue, <<user[1], "">>) /\ UNCHANGED timers
      BY <2>3 DEF UserQueues, Queue
    <3>2. <<user[1], "">> \in Functor /\ <<user[1], "">>[1] = user[1] /\ user[1] \in Calls
      BY <2>3, UserPlace DEF Known, FrontInv, Functor, FunctorKinds
    <3>3. Kinds(Append(queue, <<user[1], "">>)) = Kinds(queue) \cup {user[1]}
      BY <2>0, <3>2, KindsAppend
    <3> QED BY <2>3, <3>1, <3>2, <3>3
  <2> QED BY <2>1, <2>2, <2>3 DEF UserQueues
<1>4. PICK kind \in Calls : /\ Kinds(queue') \subseteq Kinds(queue) \cup {kind} /\ Kinds(queue) \subseteq Kinds(queue')
                            /\ kind \in Closing => user[2] = "queue" /\ user[1] \in Closing
                            /\ kind \notin Closing => UNCHANGED timers
  BY <1>3
<1>5. TodoInv' /\ ObjectInv'
  BY <1>1, Unmoved
<1>6. "destroyed" \in Kinds(queue') <=> "destroyed" \in Kinds(queue)
  BY <1>4 DEF Calls
<1>7. ServerInv'
  BY <1>1, <1>6 DEF LifeInv, ServerInv
<1>8. Calm => Calm'
  <2> SUFFICES ASSUME Calm PROVE Calm'
    OBVIOUS
  <2>1. kind \notin Closing /\ kind # "forceClose" /\ kind # "shutdown"
    BY <1>4 DEF Calm, Closing
  <2>2. UNCHANGED timers /\ "forceClose" \notin Kinds(queue') /\ "shutdown" \notin Kinds(queue')
    BY <1>4, <2>1 DEF Calm
  <2> QED BY <1>1, <1>2, <2>2 DEF Calm
<1>9. CalmInv'
  BY <1>1, <1>8 DEF LifeInv, CalmInv
<1>10. SetInv'
  BY <1>1, <1>2 DEF LifeInv, SetInv
<1> QED BY <1>5, <1>7, <1>9, <1>10 DEF LifeInv

\* The server lets a closed connection go, or closes one in a calm program; the peer closes in
\* a program that is not peaceful, or follows.
LEMMA EnvironmentLife ==
    ASSUME Known, LifeInv, Environment
    PROVE  LifeInv'
<1>0. Kinds(Append(queue, <<"destroyed", "">>)) = Kinds(queue) \cup {"destroyed"}
  BY KindsAppend, QueuedFunctors DEF Known, FrontInv, Front
<1>1. CASE ServerRemoves
  <2>1. /\ server = "removing" /\ server' = "removed"
        /\ queue' = Append(queue, <<"destroyed", "">>)
        /\ UNCHANGED <<state_, events_, added, addedToLoop_, todo, peer, wrShut, timers, user, usage, calls>>
    BY <1>1 DEF ServerRemoves, Queue, object, socket, bounds
  <2>2. state_ = "kDisconnected"
    BY <2>1 DEF LifeInv, ServerInv
  <2>3. ~Calm
    BY <2>1, <2>2 DEF Calm
  <2>4. TodoInv' /\ ObjectInv'
    BY <2>1, Unmoved
  <2>5. "destroyed" \in Kinds(queue')
    BY <1>0, <2>1
  <2>6. ServerInv'
    BY <2>1, <2>2, <2>5 DEF ServerInv
  <2>7. CalmInv' /\ SetInv'
    BY <2>1, <2>3 DEF LifeInv, CalmInv, SetInv
  <2> QED BY <2>4, <2>6, <2>7 DEF LifeInv
<1>2. CASE ServerDestroyed
  <2>1. /\ "serverDestroyed" \in usage.happens /\ server = "holds" /\ server' = "gone"
        /\ queue' = Append(queue, <<"destroyed", "">>)
        /\ UNCHANGED <<state_, events_, added, addedToLoop_, todo, peer, wrShut, timers, user, usage, calls>>
    BY <1>2 DEF ServerDestroyed, Queue, object, socket, bounds
  <2>2. TodoInv' /\ ObjectInv'
    BY <2>1, Unmoved
  <2>3. Kinds(queue') = Kinds(queue) \cup {"destroyed"}
    BY <1>0, <2>1
  <2>4. "destroyed" \in Kinds(queue')
    BY <2>3
  <2>5. ServerInv'
    BY <2>1, <2>4 DEF ServerInv
  <2>6. Calm => Calm'
    BY <2>1, <2>3 DEF Calm
  <2>7. CalmInv' /\ SetInv'
    BY <2>1, <2>6 DEF LifeInv, CalmInv, SetInv
  <2> QED BY <2>2, <2>5, <2>7 DEF LifeInv
<1>3. CASE PeerSends
  <2>1. UNCHANGED core /\ UNCHANGED <<queue, todo>>
    BY <1>3 DEF PeerSends, core, object, threads
  <2>2. Plain
    BY <2>1 DEF Plain, LifeInv, TodoInv
  <2> QED BY <2>1, <2>2, PlainStep
<1>4. CASE PeerCloses \/ PeerFollows
  <2>1. /\ "peerCloses" \in usage.happens \/ wrShut
        /\ UNCHANGED <<state_, events_, added, addedToLoop_, todo, queue, server, wrShut, timers, user, usage, calls>>
    BY <1>4 DEF PeerCloses, PeerFollows, object, threads, bounds
  <2>2. ~Peaceful(usage) \/ ~Calm
    BY <2>1 DEF Peaceful, Calm
  <2>3. TodoInv' /\ ObjectInv'
    BY <2>1, Unmoved
  <2>4. ServerInv'
    BY <2>1 DEF LifeInv, ServerInv
  <2>5. CalmInv' /\ SetInv'
    BY <2>1, <2>2 DEF LifeInv, CalmInv, SetInv
  <2> QED BY <2>3, <2>4, <2>5 DEF LifeInv
<1> QED BY <1>1, <1>2, <1>3, <1>4 DEF Environment

\* The life of a connection in every careful program.
LEMMA LifeInvariant ==
    ASSUME \A u \in Usages : Careful(u)
    PROVE  Spec => [](Known /\ LifeInv)
<1>1. Init => LifeInv
  <2> SUFFICES ASSUME Init PROVE LifeInv
    OBVIOUS
  <2> DEFINE first == <<"established", "">>
             idle == <<"idle", "">>
  <2>1. /\ queue = <<first>> /\ user = idle /\ timers = 0 /\ todo = <<>>
        /\ state_ = "kConnecting" /\ server = "holds" /\ peer = "open" /\ ~wrShut
    BY DEF Init
  <2>2. first \in Functor /\ first[1] = "established" /\ idle[2] = ""
    BY DEF Functor, FunctorKinds
  <2> HIDE DEF first, idle
  <2>3. user[2] = ""
    BY <2>1, <2>2, Zenon
  <2>4. Len(queue) = 1 /\ queue[1][1] = "established"
    BY <2>1, <2>2, Single
  <2>5. \A kind \in Kinds(queue) : kind = "established"
    BY <2>4 DEF Kinds
  <2>6. TodoOk(todo) /\ Items(todo) = {}
    BY <2>1, TodoHandlers, TodoPlain
  <2>7. TodoInv
    BY <2>1, <2>6 DEF TodoInv
  <2>8. ObjectInv
    BY <2>1 DEF ObjectInv, Up
  <2>9. ServerInv
    BY <2>1, <2>5, <2>6 DEF ServerInv
  <2>10. ~ (timers > 0)
    BY <2>1
  <2>11. Calm
    BY <2>1, <2>3, <2>5, <2>6, <2>10 DEF Calm
  <2>12. CalmInv /\ SetInv
    BY <2>1, <2>3, <2>11 DEF CalmInv, SetInv
  <2> QED BY <2>7, <2>8, <2>9, <2>12 DEF LifeInv
<1>2. Known /\ LifeInv /\ [Next]_vars => LifeInv'
  <2> SUFFICES ASSUME Known, LifeInv, [Next]_vars PROVE LifeInv'
    OBVIOUS
  <2>1. CASE UNCHANGED vars
    <3>1. UNCHANGED core /\ UNCHANGED <<queue, todo>>
      BY <2>1 DEF vars, core
    <3>2. Plain
      BY <3>1 DEF Plain, LifeInv, TodoInv
    <3> QED BY <3>1, <3>2, PlainStep
  <2> QED
    BY <2>1, EventsLife, FunctorsLife, TimerLife, ApplicationLife, SetLife, QueueLife, EnvironmentLife
    DEF Next, UserStep
<1>3. usage \in Usages /\ FrontInv /\ CountInv /\ UsageInv => Known
  BY DEF Known
<1>4. DataInv => usage \in Usages
  BY DEF DataInv
<1> QED BY <1>1, <1>2, <1>3, <1>4, DataInvariant, FrontInvariant, CountInvariant, UsageInvariant, PTL DEF Spec

\* A functor bound to a plain `this` finds the object alive: its thread keeps the pointer.
LEMMA RawAlive ==
    ASSUME Known, NEW kind \in Raw, Run(kind)
    PROVE  Alive
<1>1. kind \in Kinds(queue)
  BY RunKinds DEF Known
<1>2. kind \in usage.user /\ keeps # "no"
  BY <1>1 DEF Known, UsageInv, CallsInv, PointerInv
<1>3. "userDrops" \notin usage.happens
  BY <1>2, CarefulFacts DEF Known
<1>4. keeps = "yes"
  BY <1>2, <1>3 DEF Known, UsageInv, PointerInv, CountInv, TypeOK
<1> QED BY <1>4 DEF Alive

\* No step of a careful program makes an assert fail.
LEMMA NothingFails ==
    ASSUME Known, LifeInv, [Next]_vars
    PROVE  asserted' = asserted
<1>1. ASSUME NEW kind \in Raw, NEW m, RawFunctor(kind, m) PROVE asserted' = asserted
  <2>1. Alive
    BY <1>1, RawAlive DEF RawFunctor
  <2> QED BY <1>1, <2>1 DEF RawFunctor, Check
<1>2. CASE Functors
  <2>1. CASE SwapFunctors \/ FunctorsDone \/ UserCallback
    BY <2>1 DEF SwapFunctors, FunctorsDone, UserCallback
  <2>2. ASSUME NEW m \in Messages, RunSend(m) PROVE asserted' = asserted
    BY <1>1, <2>2 DEF RunSend, Raw
  <2>3. CASE RunShutdown \/ RunStartRead \/ RunStopRead
    BY <1>1, <2>3 DEF RunShutdown, RunStartRead, RunStopRead, Raw
  <2> QED
    BY <1>2, <2>1, <2>2, <2>3, EstablishedLife, DestroyedLife, ForceCloseLife DEF Functors
<1>3. CASE Application
  BY <1>3 DEF Application, CallbackSend, UserTestsSend, CallbackShutdown, CallbackForceClose,
     CallbackForceCloseWithDelay, CallbackStartRead, CallbackStopRead, CallbackHandsOver, UserTests,
     UserDrops
<1>4. CASE TimerFires \/ UserStep \/ Environment
  BY <1>4 DEF TimerFires, UserStep, UserSets, UserQueues, Environment, ServerRemoves,
     ServerDestroyed, PeerSends, PeerCloses, PeerFollows
<1>5. CASE UNCHANGED vars
  BY <1>5 DEF vars
<1> QED BY <1>2, <1>3, <1>4, <1>5, EventsLife DEF Next

\* In every careful program, whatever the calls, events and functors and their order, no
\* assert on the life of a connection fails, no functor bound to a plain `this` finds it
\* deleted, and no call overwrites kDisconnected.
THEOREM TcpConnectionAssertionsHold ==
    ASSUME \A u \in Usages : Careful(u)
    PROVE  Spec => []AssertionsHold
<1>1. Init => asserted = {}
  BY DEF Init
<1>2. Known /\ LifeInv /\ asserted = {} /\ [Next]_vars => (asserted = {})'
  BY NothingFails
<1>3. Known /\ LifeInv /\ asserted = {} => AssertionsHold
  BY DEF AssertionsHold, Known, CountInv, LifeInv, SetInv, SetInTime
<1> QED BY <1>1, <1>2, <1>3, LifeInvariant, PTL DEF Spec

\* SHUT_WR never cuts off buffered output in a careful program.
THEOREM TcpConnectionCarefulShutdown ==
    ASSUME \A u \in Usages : Careful(u)
    PROVE  Spec => []ShutdownAfterOutput
<1>1. AssertionsHold => SetInTime
  BY DEF AssertionsHold
<1> QED BY <1>1, TcpConnectionAssertionsHold, TcpConnectionShutdownAfterOutput, PTL

-----------------------------------------------------------------------------
(***************************************************************************)
(* A connection lives as ConnectionLife says.                              *)
(***************************************************************************)

\* The state goes onward: a close finds the channel in the loop, or puts it there, and a
\* closed connection does not enter the loop again.
Onward ==
    /\ state_ = "kConnecting" => state_' \in {"kConnecting", "kConnected"}
    /\ Up => Up' \/ (state_' = "kDisconnected" /\ addedToLoop_')
    /\ state_ = "kDisconnected" => state_' = "kDisconnected" /\ (addedToLoop_' => addedToLoop_)

\* The events go onward.
LEMMA EventsOnward ==
    ASSUME Known, LifeInv, Events
    PROVE  Onward
<1>1. ASSUME NEW rest, HandleClose(rest), todo # <<>>, Head(todo) \in {"close", "read"} PROVE Onward
  <2>1. Up
    BY <1>1, NextStep DEF LifeInv, TodoInv
  <2>2. state_' = "kDisconnected" /\ addedToLoop_'
    BY <1>1 DEF HandleClose, Update
  <2> QED BY <2>1, <2>2 DEF Onward, Up
<1>2. CASE CloseEvent
  BY <1>1, <1>2 DEF CloseEvent
<1>3. CASE HandleRead
  <2>1. UNCHANGED <<state_, addedToLoop_>> => Onward
    BY DEF Onward, Up
  <2> QED BY <1>1, <1>3, <2>1 DEF HandleRead, object
<1>4. CASE HandleWrite
  <2>1. UNCHANGED state_ /\ (UNCHANGED addedToLoop_ \/ "write" \in events_)
    BY <1>4 DEF HandleWrite
  <2>2. "write" \in events_ => state_ # "kDisconnected"
    BY DEF LifeInv, ObjectInv
  <2> QED BY <2>1, <2>2 DEF Onward, Up
<1>5. CASE RemoveChannel
  <2>1. UNCHANGED state_ /\ ~addedToLoop_'
    BY <1>5 DEF RemoveChannel
  <2> QED BY <2>1 DEF Onward, Up
<1>6. CASE (\E writable \in BOOLEAN : Poll(writable)) \/ HandleError \/ CallbackReturns \/ CloseCallback
  <2>1. UNCHANGED <<state_, addedToLoop_>>
    BY <1>6 DEF Poll, HandleError, CallbackReturns, CloseCallback, object
  <2> QED BY <2>1 DEF Onward, Up
<1> QED BY <1>2, <1>3, <1>4, <1>5, <1>6 DEF Events

\* So do the functors.
LEMMA FunctorsOnward ==
    ASSUME Known, LifeInv, Functors
    PROVE  Onward
<1>1. UNCHANGED <<state_, addedToLoop_>> => Onward
  BY DEF Onward, Up
<1>2. ASSUME NEW kind, Run(kind) PROVE state_ = "kConnecting" <=> kind = "established"
  BY <1>2, RunStep DEF Known
<1>3. CASE SwapFunctors \/ FunctorsDone \/ UserCallback \/ RunShutdown
  BY <1>1, <1>3 DEF SwapFunctors, FunctorsDone, UserCallback, RunShutdown, object
<1>4. CASE ConnectEstablished
  <2>1. state_ = "kConnecting" /\ state_' = "kConnected"
    BY <1>2, <1>4 DEF ConnectEstablished
  <2> QED BY <2>1 DEF Onward, Up
<1>5. CASE ConnectDestroyed
  <2>1. \/ UNCHANGED <<state_, addedToLoop_>>
        \/ state_ = "kConnected" /\ state_' = "kDisconnected" /\ addedToLoop_'
    BY <1>5 DEF ConnectDestroyed, Update
  <2> QED BY <1>1, <2>1 DEF Onward, Up
<1>6. CASE ForceCloseInLoop
  <2>1. \/ UNCHANGED <<state_, addedToLoop_>>
        \/ Up /\ state_' = "kDisconnected" /\ addedToLoop_'
    BY <1>6 DEF ForceCloseInLoop, HandleClose, Update, Up, object
  <2> QED BY <1>1, <2>1 DEF Onward, Up
<1>7. ASSUME NEW m \in Messages, RunSend(m) PROVE Onward
  <2>1. SendInLoop(m, Tail(queue))
    BY <1>7 DEF RunSend
  <2>2. UNCHANGED state_ /\ (UNCHANGED addedToLoop_ \/ state_ # "kDisconnected")
    BY <2>1, SendObject
  <2> QED BY <2>2 DEF Onward, Up
<1>8. CASE RunStartRead \/ RunStopRead
  <2>1. PICK kind \in {"startRead", "stopRead"} : Run(kind)
    BY <1>8 DEF RunStartRead, RunStopRead, RawFunctor
  <2>2. kind \in usage.user
    BY <2>1, RunKinds DEF Known, UsageInv, CallsInv, Raw
  <2>3. state_ \in {"kConnecting", "kConnected"} /\ UNCHANGED state_
    BY <1>8, <2>2, StaysUp DEF RunStartRead, RunStopRead
  <2> QED BY <2>3 DEF Onward, Up
<1> QED BY <1>3, <1>4, <1>5, <1>6, <1>7, <1>8 DEF Functors

\* And everything else.
LEMMA NextOnward ==
    ASSUME Known, LifeInv, [Next]_vars
    PROVE  Onward
<1>1. UNCHANGED <<state_, addedToLoop_>> => Onward
  BY DEF Onward, Up
<1>2. Up /\ Up' => Onward
  BY DEF Onward, Up
<1>3. CASE TimerFires
  <2>1. UNCHANGED <<state_, addedToLoop_>> \/ (Up /\ Up')
    BY <1>3 DEF TimerFires, Up
  <2> QED BY <1>1, <1>2, <2>1
<1>4. CASE Application
  <2>1. ASSUME NEW m, CallbackSend(m) PROVE Onward
    <3>1. SendInLoop(m, queue) /\ state_ = "kConnected"
      BY <2>1 DEF CallbackSend
    <3>2. UNCHANGED state_
      BY <3>1, SendObject
    <3> QED BY <1>2, <3>1, <3>2 DEF Up
  <2>2. CASE CallbackShutdown \/ CallbackForceClose \/ CallbackForceCloseWithDelay
             \/ CallbackStartRead \/ CallbackStopRead
    BY <1>2, <2>2 DEF CallbackShutdown, CallbackForceClose, CallbackForceCloseWithDelay,
       CallbackStartRead, CallbackStopRead, Up
  <2>3. ASSUME NEW m, UserTestsSend(m) PROVE Onward
    BY <1>1, <2>3 DEF UserTestsSend, object
  <2>4. ASSUME NEW kind, UserTests(kind) PROVE Onward
    BY <1>1, <2>4 DEF UserTests, object
  <2>5. CASE CallbackHandsOver \/ UserDrops
    BY <1>1, <2>5 DEF CallbackHandsOver, UserDrops, object
  <2> QED BY <1>4, <2>1, <2>2, <2>3, <2>4, <2>5 DEF Application
<1>5. CASE UserSets
  <2>1. Up /\ Up'
    BY <1>5, SettingCalm DEF UserSets, Up
  <2> QED BY <1>2, <2>1
<1>6. CASE UserQueues \/ Environment
  BY <1>1, <1>6 DEF UserQueues, Environment, ServerRemoves, ServerDestroyed, PeerSends, PeerCloses,
     PeerFollows, object
<1>7. CASE UNCHANGED vars
  BY <1>1, <1>7 DEF vars
<1> QED BY <1>3, <1>4, <1>5, <1>6, <1>7, EventsOnward, FunctorsOnward DEF Next, UserStep

\* The last pointer goes only after connectDestroyed has taken the channel out of the loop.
LEMMA DeadIsRemoved ==
    ASSUME Known, LifeInv, ~Alive
    PROVE  state_ = "kDisconnected" /\ ~addedToLoop_ /\ ~added
<1>1. todo = <<>> /\ server \in {"removed", "gone"}
  BY DEF Alive, Known, CountInv, TypeOK
<1>2. "destroyed" \notin Kinds(queue)
  BY DEF Alive, Kinds, SharedFunctors
<1>3. "remove" \notin Items(todo)
  BY <1>1, TodoHandlers
<1> QED BY <1>1, <1>2, <1>3 DEF LifeInv, ServerInv

\* What has been deleted stays deleted: nothing runs that could make a pointer to it.
LEMMA DeadStaysDead ==
    ASSUME Known, LifeInv, ~Alive, [Next]_vars
    PROVE  ~Alive'
<1>1. /\ todo = <<>> /\ server \notin {"holds", "removing"} /\ ~held /\ keeps # "yes"
      /\ user = <<"idle", "">>
      /\ \A k \in 1..Len(queue) : queue[k][1] \notin SharedFunctors
  BY DEF Alive
<1>2. ASSUME UNCHANGED <<server, queue, held, keeps, user, todo>> PROVE ~Alive'
  BY <1>2 DEF Alive
<1>3. ASSUME NEW kind \in SharedFunctors \cup Raw, Run(kind) PROVE FALSE
  <2>1. kind \in Kinds(queue)
    BY <1>3, RunKinds DEF Known
  <2>2. kind \notin SharedFunctors
    BY <1>1, <2>1 DEF Kinds
  <2>3. kind \notin Raw
    BY <1>3, RawAlive
  <2> QED BY <1>3, <2>2, <2>3
<1>4. CASE Events
  BY <1>1, <1>4 DEF Events, Poll, CloseEvent, HandleError, HandleRead, HandleWrite, CallbackReturns,
     CloseCallback, RemoveChannel
<1>5. CASE Functors
  <2>1. CASE SwapFunctors
    BY <1>2, <2>1 DEF SwapFunctors
  <2>2. CASE FunctorsDone
    BY <1>1, <2>2 DEF FunctorsDone
  <2> QED BY <1>3, <1>5, <2>1, <2>2 DEF Functors, ConnectEstablished, ConnectDestroyed,
          ForceCloseInLoop, UserCallback, RunSend, RunShutdown, RunStartRead, RunStopRead, RawFunctor,
          SharedFunctors, Raw
<1>6. CASE TimerFires
  BY <1>2, <1>6 DEF TimerFires
<1>7. CASE Application
  BY <1>1, <1>7 DEF Application, CallbackSend, UserTestsSend, CallbackShutdown, CallbackForceClose,
     CallbackForceCloseWithDelay, CallbackStartRead, CallbackStopRead, CallbackHandsOver, UserTests,
     UserDrops, InCallback
<1>8. CASE UserStep
  <2>1. user[2] \notin {"set", "queue", "send"}
    BY <1>1, UserPlace DEF Known, FrontInv
  <2> QED BY <1>8, <2>1 DEF UserStep, UserSets, UserQueues
<1>9. CASE Environment
  BY <1>1, <1>2, <1>9 DEF Environment, ServerRemoves, ServerDestroyed, PeerSends, PeerCloses,
     PeerFollows, threads
<1>10. CASE UNCHANGED vars
  BY <1>2, <1>10 DEF vars
<1> QED BY <1>4, <1>5, <1>6, <1>7, <1>8, <1>9, <1>10 DEF Next

\* Each step is a move of ConnectionLife, or leaves the life of the connection as it is.
LEMMA LifeStep ==
    ASSUME Known, LifeInv, Known', LifeInv', [Next]_vars
    PROVE  \/ Life' = Life
           \/ Life = "connecting" /\ Life' = "up"
           \/ Life = "up" /\ Life' = "closed"
           \/ Life = "closed" /\ Life' \in {"removed", "destroyed"}
           \/ Life = "removed" /\ Life' = "destroyed"
<1>1. Onward
  BY NextOnward
<1>2. ~Alive => Life = "destroyed"
  BY DeadIsRemoved DEF Life
<1>3. ~Alive' => state_' = "kDisconnected" /\ ~addedToLoop_' /\ ~added'
  <2>1. (Known /\ LifeInv /\ ~Alive => state_ = "kDisconnected" /\ ~addedToLoop_ /\ ~added)'
    BY DeadIsRemoved, PTL
  <2> QED BY <2>1
<1>4. ~Alive' => Life' = "destroyed"
  BY <1>3 DEF Life
<1>5. /\ Alive /\ state_ = "kConnecting" => Life = "connecting"
      /\ Alive /\ Up => Life = "up"
      /\ Alive /\ state_ = "kDisconnected" => Life = (IF addedToLoop_ THEN "closed" ELSE "removed")
  BY DEF Life, Up
<1>6. /\ Alive' /\ state_' = "kConnecting" => Life' = "connecting"
      /\ Alive' /\ Up' => Life' = "up"
      /\ Alive' /\ state_' = "kDisconnected" => Life' = (IF addedToLoop_' THEN "closed" ELSE "removed")
  BY DEF Life, Up
<1>7. state_ = "kConnecting" \/ Up \/ state_ = "kDisconnected"
  BY DEF Known, CountInv, TypeOK, Up
<1>8. CASE ~Alive
  BY <1>2, <1>4, <1>8, DeadStaysDead
<1>9. CASE Alive /\ state_ = "kConnecting"
  BY <1>1, <1>3, <1>5, <1>6, <1>9 DEF Onward, Up
<1>10. CASE Alive /\ Up
  BY <1>1, <1>3, <1>5, <1>6, <1>10 DEF Onward, Up
<1>11. CASE Alive /\ state_ = "kDisconnected"
  BY <1>1, <1>4, <1>5, <1>6, <1>11 DEF Onward
<1> QED BY <1>7, <1>8, <1>9, <1>10, <1>11

\* In every careful program the connection is established once, closed once, leaves the loop
\* once, and its object is destroyed only then.
THEOREM TcpConnectionLifeSpec ==
    ASSUME \A u \in Usages : Careful(u)
    PROVE  Spec => LifeSpec
<1> DEFINE life == [c \in {"this"} |-> Life]
<1>1. Init => ThisConnection!Init
  <2>1. Init => Life = "connecting"
    BY DEF Init, Life, Alive
  <2> QED BY <2>1 DEF ThisConnection!Init
<1>2. Known /\ LifeInv /\ (Known /\ LifeInv)' /\ [Next]_vars => [ThisConnection!Next]_life
  <2> SUFFICES ASSUME Known, LifeInv, Known', LifeInv', [Next]_vars
               PROVE  [ThisConnection!Next]_life
    OBVIOUS
  <2>1. life["this"] = Life /\ life' = [c \in {"this"} |-> Life']
    OBVIOUS
  <2>2. \A s : [life EXCEPT !["this"] = s] = [c \in {"this"} |-> s]
    OBVIOUS
  <2>3. ASSUME NEW from, NEW to, Life \in from, Life' \in to PROVE ThisConnection!Moves("this", from, to)
    BY <2>1, <2>2, <2>3 DEF ThisConnection!Moves
  <2>4. CASE Life' = Life
    BY <2>1, <2>4
  <2>5. CASE Life = "connecting" /\ Life' = "up"
    <3>1. ThisConnection!Establish("this")
      BY <2>3, <2>5 DEF ThisConnection!Establish
    <3> QED BY <3>1 DEF ThisConnection!Next
  <2>6. CASE Life = "up" /\ Life' = "closed"
    <3>1. ThisConnection!Close("this")
      BY <2>3, <2>6 DEF ThisConnection!Close
    <3> QED BY <3>1 DEF ThisConnection!Next
  <2>7. CASE Life = "closed" /\ Life' \in {"removed", "destroyed"}
    <3>1. ThisConnection!Remove("this")
      BY <2>3, <2>7 DEF ThisConnection!Remove
    <3> QED BY <3>1 DEF ThisConnection!Next
  <2>8. CASE Life = "removed" /\ Life' = "destroyed"
    <3>1. ThisConnection!Destroy({"this"})
      BY <2>1, <2>8 DEF ThisConnection!Destroy
    <3> QED BY <3>1 DEF ThisConnection!Next
  <2> QED BY <2>4, <2>5, <2>6, <2>7, <2>8, LifeStep
<1> QED BY <1>1, <1>2, LifeInvariant, PTL DEF Spec, LifeSpec, ThisConnection!Spec

=============================================================================
