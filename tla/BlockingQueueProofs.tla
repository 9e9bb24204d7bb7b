------------------------- MODULE BlockingQueueProofs -------------------------
(***************************************************************************)
(* Proofs about BlockingQueue, for any number of threads, any items and    *)
(* maximal sizes: the types, that the queue with its waits, notifications  *)
(* and spurious wakeups implements FifoQueue, and that no notification is  *)
(* lost.                                                                   *)
(***************************************************************************)
EXTENDS BlockingQueue, SequenceTheorems, FiniteSetTheorems, TLAPS

Places == {"idle", "enter", "wait", "woken"}

-----------------------------------------------------------------------------
\* notify() moves one thread to another place, or none.
LEMMA NotifyType ==
    ASSUME NEW pcs \in [Threads -> Places], NEW group \in SUBSET Threads,
           Notify(pcs, group)
    PROVE  pc' \in [Threads -> Places]
BY DEF Notify, Places

\* One step of a putter keeps the types: put() and its wait.
LEMMA PutType ==
    ASSUME TypeOK, NEW p \in Putters, PutStep(p)
    PROVE  TypeOK'
<1> USE DEF TypeOK
<1>1. CASE PutWaits(p)
  BY <1>1 DEF PutWaits, Threads
<1>2. CASE Put(p)
  <2>1. queue_' \in Seq(Items)
    BY <1>2, AppendProperties DEF Put
  <2>2. [pc EXCEPT ![p] = "idle"] \in [Threads -> Places]
    BY DEF Places, Threads
  <2>3. pc' \in [Threads -> Places]
    BY <1>2, <2>2, NotifyType DEF Put, Threads
  <2> QED BY <1>2, <2>1, <2>3 DEF Put, Places
<1> QED BY <1>1, <1>2 DEF PutStep

\* One step of a taker keeps the types: take() and its wait.
LEMMA TakeType ==
    ASSUME TypeOK, NEW c \in Takers, TakeStep(c)
    PROVE  TypeOK'
<1> USE DEF TypeOK
<1>1. CASE TakeWaits(c)
  BY <1>1 DEF TakeWaits, Threads
<1>2. CASE Take(c)
  <2>1. /\ Head(queue_) \in Items
        /\ queue_' \in Seq(Items)
    BY <1>2, HeadTailProperties DEF Take
  <2>2. received' \in Seq(Items)
    BY <1>2, <2>1, AppendProperties DEF Take
  <2>3. [pc EXCEPT ![c] = "idle"] \in [Threads -> Places]
    BY DEF Places, Threads
  <2>4. pc' \in [Threads -> Places]
    BY <1>2, <2>3, NotifyType DEF Take, Threads
  <2> QED BY <1>2, <2>1, <2>2, <2>4 DEF Take, Places
<1> QED BY <1>1, <1>2 DEF TakeStep

\* drain() keeps the types.
LEMMA DrainType ==
    ASSUME TypeOK, Drain
    PROVE  TypeOK'
<1>1. received \o queue_ \in Seq(Items)
  BY ConcatProperties DEF TypeOK
<1>2. <<>> \in Seq(Items)
  BY EmptySeq
<1> QED BY <1>1, <1>2 DEF TypeOK, Drain

\* Every variable of the blocking queues keeps its type, whatever the threads do.
THEOREM BlockingQueueTypeOK == Spec => []TypeOK
<1>1. Init => TypeOK
  BY SizeAssumption, EmptySeq DEF Init, TypeOK
<1>2. TypeOK /\ [Next]_vars => TypeOK'
  <2> SUFFICES ASSUME TypeOK, [Next]_vars PROVE TypeOK'
    OBVIOUS
  <2>1. ASSUME NEW t \in Threads, Call(t) PROVE TypeOK'
    BY <2>1, SizeAssumption DEF TypeOK, Call
  <2>2. ASSUME NEW t \in Threads, SpuriousWakeup(t) PROVE TypeOK'
    BY <2>2 DEF TypeOK, SpuriousWakeup
  <2>3. CASE UNCHANGED vars
    BY <2>3 DEF TypeOK, vars
  <2> QED BY <2>1, <2>2, <2>3, PutType, TakeType, DrainType DEF Next
<1> QED BY <1>1, <1>2, PTL DEF Spec

-----------------------------------------------------------------------------
\* The size of the queue is within its limit: what put() asserts after its wait.
Bounded == maxSize_ > 0 => Len(queue_) <= maxSize_

\* isFull compares with = and not with >=, as the code does: that is enough because
\* the size never gets past maxSize_.
THEOREM BlockingQueueBounded == Spec => []Bounded
<1>1. Init => Bounded
  BY SizeAssumption DEF Init, Bounded
<1>2. TypeOK /\ Bounded /\ [Next]_vars => Bounded'
  <2> SUFFICES ASSUME TypeOK, Bounded, [Next]_vars PROVE Bounded'
    OBVIOUS
  <2> USE SizeAssumption
  <2>0. queue_ \in Seq(Items) /\ Len(queue_) \in Nat /\ maxSize_ \in Nat
    BY LenProperties DEF TypeOK
  <2>1. CASE UNCHANGED <<maxSize_, queue_>>
    BY <2>1 DEF Bounded
  <2>2. ASSUME NEW p \in Putters, Put(p) PROVE Bounded'
    BY <2>0, <2>2, AppendProperties DEF Put, isFull, Bounded, TypeOK
  <2>3. ASSUME NEW c \in Takers, Take(c) PROVE Bounded'
    BY <2>0, <2>3, HeadTailProperties DEF Take, Bounded
  <2>4. CASE Drain
    BY <2>4 DEF Drain, Bounded
  <2>5. CASE UNCHANGED vars
    BY <2>1, <2>5 DEF vars
  <2> QED
    BY <2>1, <2>2, <2>3, <2>4, <2>5
    DEF Next, Call, SpuriousWakeup, PutStep, PutWaits, TakeStep, TakeWaits
<1> QED BY <1>1, <1>2, BlockingQueueTypeOK, PTL DEF Spec

-----------------------------------------------------------------------------
\* The blocking queues implement FifoQueue: the items come out once each, in the order
\* in which put() took the mutex, and put() never exceeds the capacity.
THEOREM BlockingQueueRefinesFifo == Spec => FifoSpec
<1>1. Init => Fifo!Init
  BY DEF Init, Fifo!Init
<1>2. TypeOK /\ Bounded /\ [Next]_vars => [Fifo!Next]_<<maxSize_, queue_, received>>
  <2> SUFFICES ASSUME TypeOK, Bounded, [Next]_vars
               PROVE  [Fifo!Next]_<<maxSize_, queue_, received>>
    OBVIOUS
  <2>1. CASE UNCHANGED <<maxSize_, queue_, received>>
    BY <2>1
  <2>2. ASSUME NEW p \in Putters, Put(p) PROVE Fifo!Next
    <3>1. item[p] \in Items
      BY DEF TypeOK
    <3>2. maxSize_ > 0 => Len(queue_) < maxSize_
      BY <2>2, SizeAssumption, LenProperties DEF Put, isFull, Bounded, TypeOK
    <3>3. Fifo!Put(item[p])
      BY <2>2, <3>2 DEF Put, Fifo!Put
    <3> QED BY <3>1, <3>3 DEF Fifo!Next
  <2>3. ASSUME NEW c \in Takers, Take(c) PROVE Fifo!Next
    BY <2>3 DEF Take, Fifo!Take, Fifo!Next
  <2>4. CASE Drain
    BY <2>4 DEF Drain, Fifo!Drain, Fifo!Next
  <2>5. CASE UNCHANGED vars
    BY <2>1, <2>5 DEF vars
  <2> QED
    BY <2>1, <2>2, <2>3, <2>4, <2>5
    DEF Next, Call, SpuriousWakeup, PutStep, PutWaits, TakeStep, TakeWaits
<1> QED
  BY <1>1, <1>2, BlockingQueueTypeOK, BlockingQueueBounded, PTL
  DEF Spec, FifoSpec, Fifo!Spec

-----------------------------------------------------------------------------
(* No notification is lost.  NoLostItem and NoLostPlace are inductive as   *)
(* they stand; what remains is to count the woken threads of a group.      *)

\* The threads of a group that are at a place are finitely many.
LEMMA InFinite ==
    ASSUME NEW group, IsFiniteSet(group), NEW place
    PROVE  /\ IsFiniteSet(In(group, place))
           /\ Cardinality(In(group, place)) \in Nat
BY FS_Subset, FS_CardinalityType DEF In

\* A thread of the group that is not woken yet becomes woken: one more is.
LEMMA OneMoreWoken ==
    ASSUME NEW group \in SUBSET Threads, IsFiniteSet(group),
           NEW pcs \in [Threads -> Places], NEW t \in group,
           pcs[t] # "woken", pc' = [pcs EXCEPT ![t] = "woken"],
           NEW n \in Nat, n = Cardinality({u \in group : pcs[u] = "woken"})
    PROVE  Cardinality(In(group, "woken")') = n + 1
<1> DEFINE W == {u \in group : pcs[u] = "woken"}
<1>1. IsFiniteSet(W)
  BY FS_Subset
<1>2. In(group, "woken")' = W \cup {t}
  BY DEF In
<1>3. t \notin W
  OBVIOUS
<1>4. Cardinality(W \cup {t}) = Cardinality(W) + 1
  <2> HIDE DEF W
  <2> QED BY <1>1, <1>3, FS_AddElement
<1> QED BY <1>2, <1>4

\* A thread leaves its place in the mutex: at most one less is woken than before.
LEMMA AtMostOneLess ==
    ASSUME NEW group \in SUBSET Threads, IsFiniteSet(group),
           pc \in [Threads -> Places], NEW t \in Threads,
           NEW place \in Places
    PROVE  LET W == {u \in group : [pc EXCEPT ![t] = place][u] = "woken"}
           IN  /\ IsFiniteSet(W) /\ Cardinality(W) \in Nat
               /\ Cardinality(W) + 1 >= Cardinality(In(group, "woken"))
               /\ (pc[t] # "woken" \/ t \notin group) =>
                      Cardinality(W) >= Cardinality(In(group, "woken"))
<1> DEFINE W == {u \in group : [pc EXCEPT ![t] = place][u] = "woken"}
           V == In(group, "woken")
<1>1. IsFiniteSet(W) /\ Cardinality(W) \in Nat
  BY FS_Subset, FS_CardinalityType
<1>2. IsFiniteSet(V) /\ Cardinality(V) \in Nat
  BY InFinite
<1>3. V \subseteq W \cup {t}
  BY DEF In
<1>4. IsFiniteSet(W \cup {t}) /\ Cardinality(W \cup {t}) \in Nat
      /\ Cardinality(W \cup {t}) <= Cardinality(W) + 1
  <2> HIDE DEF W
  <2>1. /\ IsFiniteSet(W \cup {t})
        /\ Cardinality(W \cup {t}) =
               IF t \in W THEN Cardinality(W) ELSE Cardinality(W) + 1
    BY <1>1, FS_AddElement
  <2> QED BY <1>1, <2>1
<1>5. Cardinality(V) <= Cardinality(W \cup {t})
  BY <1>3, <1>4, FS_Subset
<1>6. ASSUME pc[t] # "woken" \/ t \notin group PROVE Cardinality(V) <= Cardinality(W)
  <2>1. V \subseteq W
    BY <1>6 DEF In
  <2> QED BY <2>1, <1>1, FS_Subset
<1> QED BY <1>1, <1>2, <1>4, <1>5, <1>6

\* Notification of one group leaves the threads outside of it where they are.
LEMMA NotifyOthers ==
    ASSUME NEW pcs \in [Threads -> Places], NEW group \in SUBSET Threads,
           Notify(pcs, group)
    PROVE  \A u \in Threads \ group : pc'[u] = pcs[u]
BY DEF Notify

\* After a notification nobody of the group waits or one more of it is woken.
LEMMA NotifyCounts ==
    ASSUME NEW pcs \in [Threads -> Places], NEW group \in SUBSET Threads,
           IsFiniteSet(group), Notify(pcs, group),
           NEW n \in Nat, n = Cardinality({u \in group : pcs[u] = "woken"})
    PROVE  In(group, "wait")' = {} \/ Cardinality(In(group, "woken")') = n + 1
<1>1. CASE \A t \in group : pcs[t] # "wait"
  BY <1>1 DEF Notify, In
<1>2. CASE \E t \in group : pcs[t] = "wait"
  <2>1. PICK t \in group : pcs[t] = "wait" /\ pc' = [pcs EXCEPT ![t] = "woken"]
    BY <1>2 DEF Notify
  <2> QED BY <2>1, OneMoreWoken
<1> QED BY <1>1, <1>2

\* While a taker waits, every item has a taker that was woken for it: put() calls
\* notify() once per item, and no taker that comes late, no drain() and no spurious
\* wakeup can use the notification up without the item.
THEOREM BlockingQueueNoLostItem == Spec => []NoLostItem
<1>1. Init => NoLostItem
  BY DEF Init, NoLostItem, In, Threads
<1>2. TypeOK /\ NoLostItem /\ [Next]_vars => NoLostItem'
  <2> SUFFICES ASSUME TypeOK, NoLostItem, [Next]_vars PROVE NoLostItem'
    OBVIOUS
  <2> DEFINE woken == Cardinality(In(Takers, "woken"))
  <2>0. /\ Takers \in SUBSET Threads /\ Putters \in SUBSET Threads
        /\ IsFiniteSet(Takers) /\ pc \in [Threads -> Places]
        /\ queue_ \in Seq(Items) /\ Len(queue_) \in Nat /\ woken \in Nat
    BY FiniteAssumption, InFinite, LenProperties DEF TypeOK, Threads, Places
  <2>1. ASSUME NEW t \in Threads, Call(t) PROVE NoLostItem'
    <3>1. In(Takers, "wait")' = In(Takers, "wait") /\ In(Takers, "woken")' = In(Takers, "woken")
      BY <2>0, <2>1 DEF Call, In
    <3> QED BY <2>1, <3>1 DEF Call, NoLostItem
  <2>2. ASSUME NEW t \in Threads, SpuriousWakeup(t) PROVE NoLostItem'
    <3>1. In(Takers, "wait")' \subseteq In(Takers, "wait")
      BY <2>0, <2>2 DEF SpuriousWakeup, In
    <3>2. In(Takers, "woken") \subseteq In(Takers, "woken")' /\ IsFiniteSet(In(Takers, "woken")')
      BY <2>0, <2>2, FS_Subset DEF SpuriousWakeup, In
    <3>3. Cardinality(In(Takers, "woken")') \in Nat /\ woken <= Cardinality(In(Takers, "woken")')
      BY <3>2, FS_Subset, FS_CardinalityType
    <3> QED BY <2>0, <2>2, <3>1, <3>3 DEF SpuriousWakeup, NoLostItem
  <2>3. ASSUME NEW p \in Putters, PutWaits(p) PROVE NoLostItem'
    <3>1. In(Takers, "wait")' = In(Takers, "wait") /\ In(Takers, "woken")' = In(Takers, "woken")
      BY <2>0, <2>3, ThreadAssumption DEF PutWaits, In
    <3> QED BY <2>3, <3>1 DEF PutWaits, NoLostItem
  <2>4. ASSUME NEW p \in Putters, Put(p) PROVE NoLostItem'
    <3> DEFINE pcs == [pc EXCEPT ![p] = "idle"]
    <3>1. pcs \in [Threads -> Places]
      BY <2>0 DEF Places
    <3>2. {u \in Takers : pcs[u] = "woken"} = In(Takers, "woken")
          /\ {u \in Takers : pcs[u] = "wait"} = In(Takers, "wait")
      BY <2>0, ThreadAssumption DEF In
    <3>3. Notify(pcs, Takers) /\ queue_' = Append(queue_, item[p])
      BY <2>4 DEF Put
    <3>4. In(Takers, "wait")' = {} \/ Cardinality(In(Takers, "woken")') = woken + 1
      BY <2>0, <3>1, <3>2, <3>3, NotifyCounts
    <3>5. In(Takers, "wait")' # {} => In(Takers, "wait") # {}
      BY <2>0, <3>1, <3>2, <3>3 DEF Notify, In
    <3>6. Len(queue_') = Len(queue_) + 1
      BY <2>0, <3>3, AppendProperties DEF TypeOK
    <3> QED BY <2>0, <3>4, <3>5, <3>6 DEF NoLostItem
  <2>5. ASSUME NEW c \in Takers, TakeWaits(c) PROVE NoLostItem'
    <3>1. Len(queue_') = 0
      BY <2>5 DEF TakeWaits
    <3>2. In(Takers, "woken")' \subseteq Takers
      BY DEF In
    <3>3. Cardinality(In(Takers, "woken")') \in Nat
      BY <2>0, <3>2, FS_Subset, FS_CardinalityType
    <3> QED BY <3>1, <3>3 DEF NoLostItem
  <2>6. ASSUME NEW c \in Takers, Take(c) PROVE NoLostItem'
    <3> DEFINE pcs == [pc EXCEPT ![c] = "idle"]
               W == {u \in Takers : pcs[u] = "woken"}
    <3>1. pcs \in [Threads -> Places] /\ c \in Threads
      BY <2>0 DEF Places
    <3>2. Notify(pcs, Putters) /\ queue_ # <<>> /\ queue_' = Tail(queue_)
      BY <2>6 DEF Take
    <3>3. \A u \in Takers : pc'[u] = pcs[u]
      BY <2>0, <3>1, <3>2, NotifyOthers, ThreadAssumption
    <3>4. In(Takers, "woken")' = W /\ In(Takers, "wait")' = {u \in Takers : pcs[u] = "wait"}
      BY <3>3 DEF In
    <3>5. Cardinality(W) \in Nat /\ Cardinality(W) + 1 >= woken
      BY <2>0, <3>1, AtMostOneLess DEF Places
    <3>6. In(Takers, "wait")' # {} => In(Takers, "wait") # {}
      BY <2>0, <3>4 DEF In
    <3>7. Len(queue_') = Len(queue_) - 1
      BY <2>0, <3>2, HeadTailProperties
    <3>8. Len(queue_) \in Nat /\ woken \in Nat
      BY <2>0
    <3> HIDE DEF W, pcs
    <3> QED BY <3>4, <3>5, <3>6, <3>7, <3>8 DEF NoLostItem
  <2>7. CASE Drain
    <3>1. Len(queue_') = 0
      BY <2>7 DEF Drain
    <3>2. In(Takers, "woken")' = In(Takers, "woken")
      BY <2>7 DEF Drain, In
    <3> QED BY <2>0, <3>1, <3>2 DEF NoLostItem
  <2>8. CASE UNCHANGED vars
    BY <2>8 DEF NoLostItem, In, vars
  <2> QED
    BY <2>1, <2>2, <2>3, <2>4, <2>5, <2>6, <2>7, <2>8 DEF Next, PutStep, TakeStep
<1> QED BY <1>1, <1>2, BlockingQueueTypeOK, PTL DEF Spec

\* While a putter waits, every free place has a putter that was woken for it: take()
\* calls notify() once per place.
THEOREM BlockingQueueNoLostPlace == Spec => []NoLostPlace
<1>1. Init => NoLostPlace
  BY DEF Init, NoLostPlace, In, Threads
<1>2. TypeOK /\ NoLostPlace /\ [Next]_vars => NoLostPlace'
  <2> SUFFICES ASSUME TypeOK, NoLostPlace, [Next]_vars PROVE NoLostPlace'
    OBVIOUS
  <2> DEFINE woken == Cardinality(In(Putters, "woken"))
  <2>0. /\ Takers \in SUBSET Threads /\ Putters \in SUBSET Threads
        /\ IsFiniteSet(Putters) /\ pc \in [Threads -> Places]
        /\ queue_ \in Seq(Items) /\ Len(queue_) \in Nat /\ woken \in Nat /\ maxSize_ \in Nat
    BY FiniteAssumption, SizeAssumption, InFinite, LenProperties DEF TypeOK, Threads, Places
  <2>1. ASSUME NEW t \in Threads, Call(t) PROVE NoLostPlace'
    <3>1. In(Putters, "wait")' = In(Putters, "wait") /\ In(Putters, "woken")' = In(Putters, "woken")
      BY <2>0, <2>1 DEF Call, In
    <3> QED BY <2>1, <3>1 DEF Call, NoLostPlace
  <2>2. ASSUME NEW t \in Threads, SpuriousWakeup(t) PROVE NoLostPlace'
    <3>1. In(Putters, "wait")' \subseteq In(Putters, "wait")
      BY <2>0, <2>2 DEF SpuriousWakeup, In
    <3>2. In(Putters, "woken") \subseteq In(Putters, "woken")' /\ IsFiniteSet(In(Putters, "woken")')
      BY <2>0, <2>2, FS_Subset DEF SpuriousWakeup, In
    <3>3. Cardinality(In(Putters, "woken")') \in Nat /\ woken <= Cardinality(In(Putters, "woken")')
      BY <3>2, FS_Subset, FS_CardinalityType
    <3> QED BY <2>0, <2>2, <3>1, <3>3 DEF SpuriousWakeup, NoLostPlace
  <2>3. ASSUME NEW p \in Putters, PutWaits(p) PROVE NoLostPlace'
    <3>1. Len(queue_') = maxSize_'
      BY <2>3 DEF PutWaits, isFull
    <3>2. In(Putters, "woken")' \subseteq Putters
      BY DEF In
    <3>3. Cardinality(In(Putters, "woken")') \in Nat
      BY <2>0, <3>2, FS_Subset, FS_CardinalityType
    <3>4. maxSize_' \in Nat
      BY <2>0, <2>3 DEF PutWaits
    <3> QED BY <3>1, <3>3, <3>4 DEF NoLostPlace
  <2>4. ASSUME NEW p \in Putters, Put(p) PROVE NoLostPlace'
    <3> DEFINE pcs == [pc EXCEPT ![p] = "idle"]
               W == {u \in Putters : pcs[u] = "woken"}
    <3>1. pcs \in [Threads -> Places] /\ p \in Threads
      BY <2>0 DEF Places
    <3>2. Notify(pcs, Takers) /\ queue_' = Append(queue_, item[p])
      BY <2>4 DEF Put
    <3>3. \A u \in Putters : pc'[u] = pcs[u]
      BY <2>0, <3>1, <3>2, NotifyOthers, ThreadAssumption
    <3>4. In(Putters, "woken")' = W /\ In(Putters, "wait")' = {u \in Putters : pcs[u] = "wait"}
      BY <3>3 DEF In
    <3>5. Cardinality(W) \in Nat /\ Cardinality(W) + 1 >= woken
      BY <2>0, <3>1, AtMostOneLess DEF Places
    <3>6. In(Putters, "wait")' # {} => In(Putters, "wait") # {}
      BY <2>0, <3>4 DEF In
    <3>7. Len(queue_') = Len(queue_) + 1
      BY <2>0, <3>2, AppendProperties DEF TypeOK
    <3>8. Len(queue_) \in Nat /\ woken \in Nat /\ maxSize_ \in Nat /\ maxSize_' = maxSize_
      BY <2>0, <2>4 DEF Put
    <3> HIDE DEF W, pcs
    <3> QED BY <3>4, <3>5, <3>6, <3>7, <3>8 DEF NoLostPlace
  <2>5. ASSUME NEW c \in Takers, TakeWaits(c) PROVE NoLostPlace'
    <3>1. In(Putters, "wait")' = In(Putters, "wait") /\ In(Putters, "woken")' = In(Putters, "woken")
      BY <2>0, <2>5, ThreadAssumption DEF TakeWaits, In
    <3> QED BY <2>5, <3>1 DEF TakeWaits, NoLostPlace
  <2>6. ASSUME NEW c \in Takers, Take(c) PROVE NoLostPlace'
    <3> DEFINE pcs == [pc EXCEPT ![c] = "idle"]
    <3>1. pcs \in [Threads -> Places]
      BY <2>0 DEF Places
    <3>2. {u \in Putters : pcs[u] = "woken"} = In(Putters, "woken")
          /\ {u \in Putters : pcs[u] = "wait"} = In(Putters, "wait")
      BY <2>0, ThreadAssumption DEF In
    <3>3. Notify(pcs, Putters) /\ queue_ # <<>> /\ queue_' = Tail(queue_)
      BY <2>6 DEF Take
    <3>4. In(Putters, "wait")' = {} \/ Cardinality(In(Putters, "woken")') = woken + 1
      BY <2>0, <3>1, <3>2, <3>3, NotifyCounts
    <3>5. In(Putters, "wait")' # {} => In(Putters, "wait") # {}
      BY <2>0, <3>1, <3>2, <3>3 DEF Notify, In
    <3>6. Len(queue_') = Len(queue_) - 1
      BY <2>0, <3>3, HeadTailProperties
    <3>7. maxSize_' = maxSize_
      BY <2>6 DEF Take
    <3> QED BY <2>0, <3>4, <3>5, <3>6, <3>7 DEF NoLostPlace
  <2>7. CASE Drain
    <3>1. maxSize_' = 0
      BY <2>7 DEF Drain
    <3>2. Len(queue_') = 0 /\ In(Putters, "woken")' = In(Putters, "woken")
      BY <2>7 DEF Drain, In
    <3> QED BY <2>0, <3>1, <3>2 DEF NoLostPlace
  <2>8. CASE UNCHANGED vars
    BY <2>8 DEF NoLostPlace, In, vars
  <2> QED
    BY <2>1, <2>2, <2>3, <2>4, <2>5, <2>6, <2>7, <2>8 DEF Next, PutStep, TakeStep
<1> QED BY <1>1, <1>2, BlockingQueueTypeOK, PTL DEF Spec

\* Nobody waits on either condition for what is there.
THEOREM BlockingQueueNoLostNotification == Spec => []NoLostNotification
<1>1. NoLostItem /\ NoLostPlace => NoLostNotification
  BY DEF NoLostNotification
<1> QED BY <1>1, BlockingQueueNoLostItem, BlockingQueueNoLostPlace, PTL

=============================================================================
