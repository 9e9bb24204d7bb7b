--------------------------- MODULE ThreadPoolProofs ---------------------------
(***************************************************************************)
(* Proofs about ThreadPool, for any number of workers and producers, any   *)
(* tasks and any maxQueueSize_: the types, that the queue is bounded, that *)
(* no notification is lost, and that a stopped pool is quiet.              *)
(***************************************************************************)
EXTENDS ThreadPool, SequenceTheorems, FiniteSetTheorems, TLAPS

OwnerPlaces == {"idle", "starting", "started", "joining", "stopped"}

Places == {"none", "run", "runWait", "runWoken", "check", "take", "takeWait", "takeWoken",
           "begin", "task", "over"} \cup OwnerPlaces

Running == {"run", "runWait", "runWoken"}

\* Who has a task, and that nobody waits in a pool that was stopped.
TaskInv ==
    /\ \A t \in Threads : pc[t] \in Running => arg[t] \in Tasks
    /\ \A t \in Threads : pc[t] = "begin" => current[t] \in Tasks
    /\ ~running_ => \A t \in Threads : pc[t] \notin {"takeWait", "runWait"}

\* Where the owner is in start() and stop().
OwnerInv ==
    /\ pc[Owner] \in OwnerPlaces
    /\ pc[Owner] = "idle" => threads_ = {}
    /\ \A w \in Workers \ threads_ : pc[w] = "none"

TypeInv == TypeOK /\ TaskInv /\ OwnerInv

-----------------------------------------------------------------------------
(***************************************************************************)
(* How many threads are at a place.                                        *)
(***************************************************************************)

AtIn(pcs, place) == {t \in Threads : pcs[t] = place}

\* A place holds a finite number of threads, none if it is empty.
LEMMA AtFinite ==
    ASSUME NEW pcs, NEW place
    PROVE  /\ IsFiniteSet(AtIn(pcs, place))
           /\ Cardinality(AtIn(pcs, place)) \in Nat
           /\ AtIn(pcs, place) # {} => Cardinality(AtIn(pcs, place)) >= 1
<1>1. IsFiniteSet(Threads)
  BY FiniteAssumption, FS_Union, FS_Singleton DEF Threads
<1>2. IsFiniteSet(AtIn(pcs, place))
  BY <1>1, FS_Subset DEF AtIn
<1> QED BY <1>2, FS_CardinalityType, FS_EmptySet

\* One thread goes from one place to another.
LEMMA MoveCounts ==
    ASSUME NEW pcs \in [Threads -> Places], NEW t \in Threads, NEW to \in Places, NEW q
    PROVE  LET moved == [pcs EXCEPT ![t] = to]
           IN  /\ pcs[t] # q /\ to # q => AtIn(moved, q) = AtIn(pcs, q)
               /\ pcs[t] # q /\ to = q =>
                      Cardinality(AtIn(moved, q)) = Cardinality(AtIn(pcs, q)) + 1
               /\ pcs[t] = q /\ to # q =>
                      /\ Cardinality(AtIn(moved, q)) = Cardinality(AtIn(pcs, q)) - 1
                      /\ AtIn(moved, q) \subseteq AtIn(pcs, q)
<1> DEFINE moved == [pcs EXCEPT ![t] = to]
<1>1. CASE pcs[t] # q /\ to # q
  BY <1>1 DEF AtIn
<1>2. CASE pcs[t] # q /\ to = q
  <2>1. AtIn(moved, q) = AtIn(pcs, q) \cup {t} /\ t \notin AtIn(pcs, q)
    BY <1>2 DEF AtIn
  <2>2. Cardinality(AtIn(moved, q)) = Cardinality(AtIn(pcs, q)) + 1
    BY <2>1, AtFinite, FS_AddElement
  <2> QED BY <1>2, <2>2
<1>3. CASE pcs[t] = q /\ to # q
  <2>1. AtIn(moved, q) = AtIn(pcs, q) \ {t} /\ t \in AtIn(pcs, q)
    BY <1>3 DEF AtIn
  <2>2. Cardinality(AtIn(moved, q)) = Cardinality(AtIn(pcs, q)) - 1
    BY <2>1, AtFinite, FS_RemoveElement
  <2> QED BY <1>3, <2>1, <2>2
<1>4. CASE pcs[t] = q /\ to = q
  BY <1>4
<1> QED BY <1>1, <1>2, <1>3, <1>4

\* notify() moves one waiter, or nobody if there is none.
LEMMA NotifyCounts ==
    ASSUME NEW pcs \in [Threads -> Places], NEW from \in Places, NEW to \in Places,
           from # to, Notify(pcs, from, to)
    PROVE  /\ pc' \in [Threads -> Places]
           /\ AtIn(pcs, from) = {} => pc' = pcs
           /\ AtIn(pcs, from) # {} =>
                  Cardinality(AtIn(pc', to)) = Cardinality(AtIn(pcs, to)) + 1
           /\ AtIn(pc', from) \subseteq AtIn(pcs, from)
           /\ \A t \in Threads : pcs[t] # from => pc'[t] = pcs[t]
           /\ \A t \in Threads : pcs[t] = from => pc'[t] \in {from, to}
<1>1. CASE \E t \in Threads : pcs[t] = from
  <2>1. PICK t \in Threads : pcs[t] = from /\ pc' = [pcs EXCEPT ![t] = to]
    BY <1>1 DEF Notify
  <2>2. Cardinality(AtIn(pc', to)) = Cardinality(AtIn(pcs, to)) + 1
    BY <2>1, MoveCounts
  <2>3. AtIn(pcs, from) # {} /\ AtIn(pc', from) \subseteq AtIn(pcs, from)
    BY <2>1 DEF AtIn
  <2> QED BY <2>1, <2>2, <2>3
<1>2. CASE ~\E t \in Threads : pcs[t] = from
  <2>1. pc' = pcs /\ AtIn(pcs, from) = {}
    BY <1>2 DEF Notify, AtIn
  <2> QED BY <1>2, <2>1
<1> QED BY <1>1, <1>2

\* It does not concern the other places.
LEMMA NotifyElsewhere ==
    ASSUME NEW pcs \in [Threads -> Places], NEW from \in Places, NEW to \in Places,
           Notify(pcs, from, to), NEW q, q # from, q # to
    PROVE  AtIn(pc', q) = AtIn(pcs, q)
BY DEF Notify, AtIn

-----------------------------------------------------------------------------
(***************************************************************************)
(* Types.                                                                  *)
(***************************************************************************)

\* A step of run(), by a producer or by a worker in a task, keeps the types.
LEMMA RunType ==
    ASSUME TypeInv, NEW t \in Workers \cup Producers, RunStep(t)
    PROVE  TypeInv'
<1> USE ThreadAssumption, TaskAssumption DEF TypeInv, TypeOK, TaskInv, OwnerInv, Threads,
        Places, OwnerPlaces, Running, AfterRun
<1>1. CASE RunHere(t)
  BY <1>1 DEF RunHere
<1>2. CASE RunWait(t)
  BY <1>2 DEF RunWait, InRun
<1>3. CASE RunRefused(t)
  BY <1>3 DEF RunRefused, InRun
<1>4. CASE RunPush(t)
  <2> DEFINE pcs == [pc EXCEPT ![t] = AfterRun(t)]
  <2>1. pcs \in [Threads -> Places] /\ Notify(pcs, "takeWait", "takeWoken")
    BY <1>4 DEF RunPush
  <2>2. /\ pc' \in [Threads -> Places]
        /\ \A u \in Threads : pcs[u] # "takeWait" => pc'[u] = pcs[u]
        /\ \A u \in Threads : pcs[u] = "takeWait" => pc'[u] \in {"takeWait", "takeWoken"}
    <3> HIDE DEF pcs, Places
    <3> QED BY <2>1, NotifyCounts, Zenon DEF Places
  <2>3. queue_' \in Seq(Tasks)
    BY <1>4, AppendProperties DEF RunPush, InRun
  <2> QED BY <1>4, <2>2, <2>3 DEF RunPush, InRun
<1> QED BY <1>1, <1>2, <1>3, <1>4 DEF RunStep

\* So does a step of a worker in runInThread or take().
LEMMA WorkerType ==
    ASSUME TypeInv, NEW w \in Workers, WorkerStep(w)
    PROVE  TypeInv'
<1> USE ThreadAssumption, TaskAssumption DEF TypeInv, TypeOK, TaskInv, OwnerInv, Threads,
        Places, OwnerPlaces, Running
<1>1. CASE CheckRunning(w)
  BY <1>1 DEF CheckRunning
<1>2. CASE TakeWait(w)
  BY <1>2 DEF TakeWait, InTake
<1>3. CASE TakeNothing(w)
  BY <1>3 DEF TakeNothing, InTake
<1>4. CASE TakeTask(w)
  <2> DEFINE pcs == [pc EXCEPT ![w] = "begin"]
  <2>1. pcs \in [Threads -> Places] /\ (Notify(pcs, "runWait", "runWoken") \/ pc' = pcs)
    BY <1>4 DEF TakeTask
  <2>2. /\ pc' \in [Threads -> Places]
        /\ \A u \in Threads : pcs[u] # "runWait" => pc'[u] = pcs[u]
        /\ \A u \in Threads : pcs[u] = "runWait" => pc'[u] \in {"runWait", "runWoken"}
    BY <2>1, NotifyCounts
  <2>3. queue_' \in Seq(Tasks) /\ Head(queue_) \in Tasks
    BY <1>4, HeadTailProperties DEF TakeTask
  <2>4. /\ current' = [current EXCEPT ![w] = Head(queue_)]
        /\ UNCHANGED <<running_, threads_, arg, asserted>>
        /\ pc[w] \in {"take", "takeWoken"}
    BY <1>4 DEF TakeTask, InTake
  <2>5. \A u \in Threads \ {w} :
            pc'[u] = pc[u] \/ (pc[u] = "runWait" /\ pc'[u] \in {"runWait", "runWoken"})
    BY <2>2
  <2>6. pc'[w] = "begin"
    BY <2>2
  <2>7. TypeOK'
    BY <2>2, <2>3, <2>4
  <2>8. TaskInv'
    BY <2>3, <2>4, <2>5, <2>6
  <2>9. OwnerInv'
    BY <2>4, <2>5, <2>6
  <2> QED BY <2>7, <2>8, <2>9
<1>5. CASE BeginTask(w)
  BY <1>5 DEF BeginTask
<1>6. CASE EndTask(w)
  BY <1>6 DEF EndTask
<1>7. CASE RunStep(w)
  BY <1>7, RunType
<1> QED BY <1>1, <1>2, <1>3, <1>4, <1>5, <1>6, <1>7 DEF WorkerStep

\* So does every step of the pool.
LEMMA NextType ==
    ASSUME TypeInv, [Next]_vars
    PROVE  TypeInv'
<1> USE ThreadAssumption, TaskAssumption DEF TypeInv, TypeOK, TaskInv, OwnerInv, Threads,
        Places, OwnerPlaces, Running
<1>1. ASSUME NEW p \in Producers, NEW task \in Tasks, CallRun(p, task) PROVE TypeInv'
  BY <1>1 DEF CallRun
<1>2. ASSUME NEW t \in Threads, SpuriousWakeup(t) PROVE TypeInv'
  BY <1>2 DEF SpuriousWakeup, Woken
<1>3. CASE Start
  BY <1>3 DEF Start
<1>4. ASSUME NEW w \in Workers, StartThread(w) PROVE TypeInv'
  BY <1>4 DEF StartThread
<1>5. CASE Started
  BY <1>5 DEF Started
<1>6. CASE Stop
  BY <1>6 DEF Stop, Woken
<1>7. CASE Join
  BY <1>7 DEF Join
<1>8. CASE UNCHANGED vars
  BY <1>8 DEF vars
<1> QED BY <1>1, <1>2, <1>3, <1>4, <1>5, <1>6, <1>7, <1>8, RunType, WorkerType
        DEF Next, OwnerStep

\* A pool starts idle, with an empty queue.
LEMMA InitType == ASSUME Init PROVE TypeInv
BY ThreadAssumption, EmptySeq DEF Init, TypeInv, TypeOK, TaskInv, OwnerInv, Threads, Places,
   OwnerPlaces, Running

\* Every variable of the pool keeps its type and the assert of start() holds.
THEOREM ThreadPoolTypeOK == Spec => []TypeOK
<1>1. TypeInv => TypeOK
  BY DEF TypeInv
<1> QED BY <1>1, InitType, NextType, PTL DEF Spec

-----------------------------------------------------------------------------
(***************************************************************************)
(* The bound of the queue, and the end of stop().                          *)
(***************************************************************************)

\* The queue never exceeds maxQueueSize_, although a caller that was notified and one
\* that has just come compete for the same place (the assert of line 87).
THEOREM ThreadPoolBounded == Spec => []QueueBounded
<1>1. Init => QueueBounded
  BY QueueAssumption DEF Init, QueueBounded
<1>2. TypeInv /\ QueueBounded /\ [Next]_vars => QueueBounded'
  <2> SUFFICES ASSUME TypeInv, QueueBounded, [Next]_vars PROVE QueueBounded'
    OBVIOUS
  <2>1. ASSUME NEW t \in Threads, RunPush(t), t # Owner PROVE QueueBounded'
    <3>1. ~isFull /\ arg[t] \in Tasks /\ queue_' = Append(queue_, arg[t])
      BY <2>1 DEF RunPush, InRun, TypeInv, TaskInv, Running
    <3>2. Len(queue_') = Len(queue_) + 1 /\ Len(queue_) \in Nat
      BY <3>1, AppendProperties DEF TypeInv, TypeOK
    <3> QED BY <3>1, <3>2, QueueAssumption DEF QueueBounded, isFull
  <2>2. ASSUME NEW w \in Workers, TakeTask(w) PROVE QueueBounded'
    <3>1. Len(queue_') = Len(queue_) - 1 /\ Len(queue_) \in Nat
      BY <2>2, HeadTailProperties DEF TakeTask, TypeInv, TypeOK
    <3> QED BY <3>1, QueueAssumption DEF QueueBounded
  <2>3. CASE UNCHANGED queue_
    BY <2>3 DEF QueueBounded
  <2> QED BY <2>1, <2>2, <2>3, ThreadAssumption DEF Next, vars, RunStep, WorkerStep,
          OwnerStep, CallRun, SpuriousWakeup, Start, StartThread, Started, Stop, Join, RunHere,
          RunWait, RunRefused, CheckRunning, TakeWait, TakeNothing, BeginTask, EndTask, Threads
<1> QED BY <1>1, <1>2, InitType, NextType, PTL DEF Spec

\* When stop() has returned every worker is over, and none runs anything after that.
THEOREM ThreadPoolStopped == Spec => []StoppedMeansOver
<1>1. Init => StoppedMeansOver
  BY ThreadAssumption DEF Init, StoppedMeansOver, Threads
<1>2. TypeInv /\ StoppedMeansOver /\ [Next]_vars => StoppedMeansOver'
  <2> SUFFICES ASSUME TypeInv, StoppedMeansOver, [Next]_vars PROVE StoppedMeansOver'
    OBVIOUS
  <2> USE ThreadAssumption DEF TypeInv, TypeOK, OwnerInv, OwnerPlaces, Threads
  <2>1. CASE pc[Owner] = "stopped"
    <3>1. \A w \in Workers : pc[w] \in {"over", "none"} /\ (w \in threads_ => pc[w] = "over")
      BY <2>1 DEF StoppedMeansOver
    <3>2. ASSUME NEW p \in Producers, RunStep(p) PROVE \A w \in Workers : pc'[w] = pc[w]
      <4>1. CASE RunPush(p)
        <5> DEFINE pcs == [pc EXCEPT ![p] = AfterRun(p)]
        <5>1. pcs \in [Threads -> Places] /\ Notify(pcs, "takeWait", "takeWoken")
          BY <4>1 DEF RunPush, Places, AfterRun
        <5>2. \A t \in Threads : pcs[t] # "takeWait" => pc'[t] = pcs[t]
          BY <5>1, NotifyCounts DEF Places
        <5> QED BY <3>1, <5>2
      <4> QED BY <3>1, <3>2, <4>1 DEF RunStep, RunHere, RunWait, RunRefused
    <3>3. ASSUME NEW w \in Workers, WorkerStep(w) PROVE FALSE
      BY <3>1, <3>3 DEF WorkerStep, CheckRunning, TakeWait, TakeNothing, TakeTask, InTake,
         BeginTask, EndTask, RunStep, RunHere, RunWait, RunRefused, RunPush, InRun
    <3>4. ASSUME NEW t \in Threads, SpuriousWakeup(t) PROVE \A w \in Workers : pc'[w] = pc[w]
      BY <3>1, <3>4 DEF SpuriousWakeup
    <3>5. ASSUME NEW p \in Producers, NEW task \in Tasks, CallRun(p, task)
          PROVE  \A w \in Workers : pc'[w] = pc[w]
      BY <3>1, <3>5 DEF CallRun
    <3>6. ASSUME NEW p \in Producers, RunStep(p) PROVE UNCHANGED threads_
      BY <3>6 DEF RunStep, RunHere, RunWait, RunRefused, RunPush
    <3>7. ASSUME Start \/ OwnerStep \/ Stop PROVE FALSE
      BY <2>1, <3>7 DEF Start, OwnerStep, StartThread, Started, Stop, Join
    <3>8. ASSUME NEW p \in Producers, NEW task \in Tasks, CallRun(p, task)
          PROVE  UNCHANGED threads_
      BY <3>8 DEF CallRun
    <3>9. ASSUME NEW t \in Threads, SpuriousWakeup(t) PROVE UNCHANGED threads_
      BY <3>9 DEF SpuriousWakeup
    <3>10. UNCHANGED threads_ /\ \A w \in Workers : pc'[w] = pc[w]
      <4> HIDE DEF TypeInv, Threads
      <4>1. CASE Next
        BY <3>2, <3>3, <3>4, <3>5, <3>6, <3>7, <3>8, <3>9, <4>1, Zenon DEF Next
      <4> QED BY <4>1 DEF vars
    <3> QED BY <3>1, <3>10 DEF StoppedMeansOver
  <2>2. CASE pc[Owner] # "stopped" /\ Join
    BY <2>2 DEF Join, StoppedMeansOver
  <2>3. CASE pc[Owner] # "stopped" /\ ~Join
    <3>1. SUFFICES pc'[Owner] # "stopped"
      BY DEF StoppedMeansOver
    <3>2. ASSUME NEW t \in Workers \cup Producers, RunStep(t) PROVE pc'[Owner] # "stopped"
      <4>1. CASE RunPush(t)
        <5> DEFINE pcs == [pc EXCEPT ![t] = AfterRun(t)]
        <5>1. pcs \in [Threads -> Places] /\ Notify(pcs, "takeWait", "takeWoken")
          BY <4>1 DEF RunPush, Places, AfterRun
        <5>2. \A u \in Threads : pcs[u] # "takeWait" => pc'[u] = pcs[u]
          <6> HIDE DEF pcs, TypeInv, Threads, OwnerPlaces
          <6> QED BY <5>1, NotifyCounts, Zenon DEF Places
        <5> QED BY <2>3, <5>2
      <4> QED BY <2>3, <3>2, <4>1 DEF RunStep, RunHere, RunWait, RunRefused
    <3>3. ASSUME NEW w \in Workers, TakeTask(w) PROVE pc'[Owner] # "stopped"
      <4> DEFINE pcs == [pc EXCEPT ![w] = "begin"]
      <4>1. pcs \in [Threads -> Places] /\ (Notify(pcs, "runWait", "runWoken") \/ pc' = pcs)
        BY <3>3 DEF TakeTask, Places
      <4>2. \A u \in Threads : pcs[u] # "runWait" => pc'[u] = pcs[u]
        BY <4>1, NotifyCounts DEF Places
      <4> QED BY <2>3, <4>2
    <3>4. ASSUME NEW w \in Workers, WorkerStep(w) PROVE pc'[Owner] # "stopped"
      BY <2>3, <3>2, <3>3, <3>4 DEF WorkerStep, CheckRunning, TakeWait, TakeNothing, BeginTask,
         EndTask
    <3> QED BY <2>3, <3>2, <3>4 DEF Next, SpuriousWakeup, CallRun, Start, OwnerStep,
            StartThread, Started, Stop, vars
  <2> QED BY <2>1, <2>2, <2>3
<1> QED BY <1>1, <1>2, InitType, NextType, PTL DEF Spec

-----------------------------------------------------------------------------
(***************************************************************************)
(* No notification is lost.                                                *)
(***************************************************************************)

\* What the two invariants say of the threads at pcs and a queue of that length.
TaskFound(pcs, length) ==
    AtIn(pcs, "takeWait") # {} => length <= Cardinality(AtIn(pcs, "takeWoken"))

PlaceFound(pcs, length) ==
    AtIn(pcs, "runWait") # {} =>
        maxQueueSize_ <= length + Cardinality(AtIn(pcs, "runWoken"))

Found == TaskFound(pc, Len(queue_)) /\ PlaceFound(pc, Len(queue_))

\* They are the properties NoLostTask and NoLostPlace.
LEMMA FoundMeans == Found <=> NoLostTask /\ NoLostPlace
<1>1. ASSUME NEW place PROVE At({place}) = AtIn(pc, place)
  BY DEF At, AtIn
<1> QED BY <1>1 DEF Found, TaskFound, PlaceFound, NoLostTask, NoLostPlace

\* The length of the queue is a number.
LEMMA QueueLength == ASSUME TypeInv PROVE Len(queue_) \in Nat
BY LenProperties DEF TypeInv, TypeOK

\* A thread that goes from one place outside of wait() to another changes nothing.
LEMMA OutsideMove ==
    ASSUME TypeInv, Found, UNCHANGED queue_,
           NEW t \in Threads, NEW to \in Places, pc' = [pc EXCEPT ![t] = to],
           pc[t] \notin {"takeWait", "takeWoken", "runWait", "runWoken"},
           to \notin {"takeWait", "takeWoken", "runWait", "runWoken"}
    PROVE  Found'
<1>1. pc \in [Threads -> Places]
  BY DEF TypeInv, TypeOK, Places, OwnerPlaces
<1>2. ASSUME NEW q \in {"takeWait", "takeWoken", "runWait", "runWoken"}
      PROVE  AtIn(pc', q) = AtIn(pc, q)
  BY <1>1 DEF AtIn
<1> QED BY <1>2 DEF Found, TaskFound, PlaceFound

\* A step of run(): while it waits the queue is full; when it is refused nobody waits; a
\* task that is queued wakes a worker, and takes at most the place of one caller.
LEMMA RunFound ==
    ASSUME TypeInv, Found, NEW t \in Workers \cup Producers, RunStep(t)
    PROVE  Found'
<1>1. /\ pc \in [Threads -> Places] /\ t \in Threads /\ Len(queue_) \in Nat
      /\ AfterRun(t) \in {"task", "idle"} /\ AfterRun(t) \in Places
  BY QueueLength DEF TypeInv, TypeOK, Places, OwnerPlaces, Threads, AfterRun
<1>2. CASE RunHere(t)
  <2>1. PICK to \in {"task", "idle", "run"} : pc' = [pc EXCEPT ![t] = to]
    BY <1>1, <1>2 DEF RunHere
  <2> QED BY <1>1, <1>2, <2>1, OutsideMove DEF RunHere, Places, OwnerPlaces
<1>3. CASE RunWait(t)
  <2>1. /\ pc' = [pc EXCEPT ![t] = "runWait"] /\ queue_' = queue_
        /\ pc[t] \in {"run", "runWoken"} /\ maxQueueSize_ <= Len(queue_)
    BY <1>3 DEF RunWait, InRun, isFull
  <2>2. AtIn(pc', "takeWait") = AtIn(pc, "takeWait") /\ AtIn(pc', "takeWoken") = AtIn(pc, "takeWoken")
    BY <1>1, <2>1 DEF AtIn
  <2>3. Cardinality(AtIn(pc', "runWoken")) \in Nat
    BY AtFinite
  <2> QED BY <1>1, <2>1, <2>2, <2>3, QueueAssumption DEF Found, TaskFound, PlaceFound
<1>4. CASE RunRefused(t)
  <2>1. /\ pc' = [pc EXCEPT ![t] = AfterRun(t)] /\ queue_' = queue_
        /\ \A u \in Threads : pc[u] \notin {"takeWait", "runWait"}
    BY <1>4 DEF RunRefused, TypeInv, TaskInv
  <2>2. AtIn(pc', "takeWait") = {} /\ AtIn(pc', "runWait") = {}
    BY <1>1, <2>1 DEF AtIn
  <2> QED BY <2>2 DEF Found, TaskFound, PlaceFound
<1>5. CASE RunPush(t)
  <2> DEFINE pcs == [pc EXCEPT ![t] = AfterRun(t)]
  <2>1. /\ pcs \in [Threads -> Places] /\ Notify(pcs, "takeWait", "takeWoken")
        /\ pc[t] \in {"run", "runWoken"}
        /\ "takeWait" \in Places /\ "takeWoken" \in Places
    BY <1>1, <1>5 DEF RunPush, InRun, Places
  <2>2. Len(queue_') = Len(queue_) + 1
    BY <1>5, AppendProperties DEF RunPush, InRun, TypeInv, TypeOK, TaskInv, Running
  <2>3. /\ AtIn(pcs, "takeWait") = AtIn(pc, "takeWait")
        /\ AtIn(pcs, "takeWoken") = AtIn(pc, "takeWoken")
        /\ AtIn(pcs, "runWait") = AtIn(pc, "runWait")
    BY <1>1, <2>1 DEF AtIn
  <2>4. Cardinality(AtIn(pcs, "runWoken")) >= Cardinality(AtIn(pc, "runWoken")) - 1
    <3>1. CASE pc[t] = "run"
      <4>1. AtIn(pcs, "runWoken") = AtIn(pc, "runWoken")
        BY <1>1, <3>1 DEF AtIn
      <4> QED BY <4>1, AtFinite
    <3>2. CASE pc[t] = "runWoken"
      <4>1. Cardinality(AtIn(pcs, "runWoken")) = Cardinality(AtIn(pc, "runWoken")) - 1
        BY <1>1, <3>2, MoveCounts
      <4> QED BY <4>1, AtFinite
    <3> QED BY <2>1, <3>1, <3>2
  <2> HIDE DEF pcs
  <2>5. /\ AtIn(pc', "runWait") = AtIn(pcs, "runWait")
        /\ AtIn(pc', "runWoken") = AtIn(pcs, "runWoken")
    BY <2>1, NotifyElsewhere
  <2>6. /\ AtIn(pcs, "takeWait") = {} => pc' = pcs
        /\ AtIn(pcs, "takeWait") # {} =>
               Cardinality(AtIn(pc', "takeWoken")) = Cardinality(AtIn(pcs, "takeWoken")) + 1
    BY <2>1, NotifyCounts
  <2>7. TaskFound(pc', Len(queue_'))
    <3>1. Cardinality(AtIn(pc, "takeWoken")) \in Nat
      BY AtFinite
    <3>2. CASE AtIn(pcs, "takeWait") = {}
      BY <2>6, <3>2 DEF TaskFound
    <3>3. CASE AtIn(pcs, "takeWait") # {}
      BY <1>1, <2>2, <2>3, <2>6, <3>1, <3>3 DEF Found, TaskFound
    <3> QED BY <3>2, <3>3
  <2>8. PlaceFound(pc', Len(queue_'))
    <3>1. Cardinality(AtIn(pc, "runWoken")) \in Nat /\ Cardinality(AtIn(pcs, "runWoken")) \in Nat
      BY AtFinite
    <3> QED BY <1>1, <2>2, <2>3, <2>4, <2>5, <3>1, QueueAssumption DEF Found, PlaceFound
  <2> QED BY <2>7, <2>8 DEF Found
<1> QED BY <1>2, <1>3, <1>4, <1>5 DEF RunStep

\* A step of take(): it waits only for an empty queue; a task that is taken makes one
\* place free, and one caller is told.
LEMMA TakeFound ==
    ASSUME TypeInv, Found, NEW w \in Workers, TakeWait(w) \/ TakeNothing(w) \/ TakeTask(w)
    PROVE  Found'
<1>1. /\ pc \in [Threads -> Places] /\ w \in Threads /\ Len(queue_) \in Nat
      /\ pc[w] \in {"take", "takeWoken"}
  BY QueueLength DEF TypeInv, TypeOK, Places, OwnerPlaces, Threads, TakeWait, TakeNothing,
     TakeTask, InTake
<1>2. CASE TakeWait(w) \/ TakeNothing(w)
  <2>1. PICK to \in {"takeWait", "check"} : pc' = [pc EXCEPT ![w] = to] /\ to \in Places
    BY <1>2 DEF TakeWait, TakeNothing, Places
  <2>2. queue_' = queue_ /\ Len(queue_) = 0
    BY <1>2 DEF TakeWait, TakeNothing
  <2>3. AtIn(pc', "runWait") = AtIn(pc, "runWait") /\ AtIn(pc', "runWoken") = AtIn(pc, "runWoken")
    <3>1. /\ "runWait" \in Places /\ "runWoken" \in Places
          /\ "runWait" # pc[w] /\ "runWoken" # pc[w] /\ "runWait" # to /\ "runWoken" # to
      BY <1>1 DEF Places
    <3>2. PICK moved : moved = [pc EXCEPT ![w] = to]
      OBVIOUS
    <3>3. \A q : pc[w] # q /\ to # q => AtIn(moved, q) = AtIn(pc, q)
      BY <1>1, <2>1, <3>2, MoveCounts, Zenon
    <3> QED BY <2>1, <3>1, <3>2, <3>3, Zenon
  <2>4. Cardinality(AtIn(pc', "takeWoken")) >= 0
    BY AtFinite
  <2> QED BY <2>2, <2>3, <2>4 DEF Found, TaskFound, PlaceFound
<1>3. CASE TakeTask(w)
  <2> DEFINE pcs == [pc EXCEPT ![w] = "begin"]
  <2>1. /\ pcs \in [Threads -> Places]
        /\ "begin" \in Places /\ "runWait" \in Places /\ "runWoken" \in Places
        /\ maxQueueSize_ > 0 => Notify(pcs, "runWait", "runWoken")
        /\ ~(maxQueueSize_ > 0) => pc' = pcs
    BY <1>1, <1>3 DEF TakeTask, Places
  <2>2. Len(queue_') = Len(queue_) - 1 /\ Len(queue_') \in Nat
    BY <1>3, HeadTailProperties, LenProperties DEF TakeTask, TypeInv, TypeOK
  <2>3. /\ AtIn(pcs, "runWait") = AtIn(pc, "runWait")
        /\ AtIn(pcs, "runWoken") = AtIn(pc, "runWoken")
        /\ AtIn(pcs, "takeWait") = AtIn(pc, "takeWait")
    BY <1>1, <2>1 DEF AtIn
  <2>4. Cardinality(AtIn(pcs, "takeWoken")) >= Cardinality(AtIn(pc, "takeWoken")) - 1
    <3>1. CASE pc[w] = "take"
      <4>1. AtIn(pcs, "takeWoken") = AtIn(pc, "takeWoken")
        BY <1>1, <3>1 DEF AtIn
      <4> QED BY <4>1, AtFinite
    <3>2. CASE pc[w] = "takeWoken"
      <4>1. Cardinality(AtIn(pcs, "takeWoken")) = Cardinality(AtIn(pc, "takeWoken")) - 1
        BY <1>1, <2>1, <3>2, MoveCounts
      <4> QED BY <4>1, AtFinite
    <3> QED BY <1>1, <3>1, <3>2
  <2> HIDE DEF pcs
  <2>5. AtIn(pc', "takeWait") = AtIn(pcs, "takeWait") /\ AtIn(pc', "takeWoken") = AtIn(pcs, "takeWoken")
    <3>1. CASE maxQueueSize_ > 0
      BY <2>1, <3>1, NotifyElsewhere
    <3>2. CASE ~(maxQueueSize_ > 0)
      BY <2>1, <3>2
    <3> QED BY <3>1, <3>2
  <2>6. TaskFound(pc', Len(queue_'))
    <3>1. Cardinality(AtIn(pc, "takeWoken")) \in Nat /\ Cardinality(AtIn(pcs, "takeWoken")) \in Nat
      BY AtFinite
    <3> QED BY <1>1, <2>2, <2>3, <2>4, <2>5, <3>1 DEF Found, TaskFound
  <2>7. PlaceFound(pc', Len(queue_'))
    <3>1. Cardinality(AtIn(pc', "runWoken")) \in Nat /\ Cardinality(AtIn(pc, "runWoken")) \in Nat
      BY AtFinite
    <3>2. CASE maxQueueSize_ > 0
      <4>1. /\ AtIn(pcs, "runWait") = {} => pc' = pcs
            /\ AtIn(pcs, "runWait") # {} =>
                   Cardinality(AtIn(pc', "runWoken")) = Cardinality(AtIn(pcs, "runWoken")) + 1
        BY <2>1, <3>2, NotifyCounts
      <4> QED BY <1>1, <2>2, <2>3, <3>1, <4>1, QueueAssumption DEF Found, PlaceFound
    <3>3. CASE ~(maxQueueSize_ > 0)
      BY <2>2, <3>1, <3>3, QueueAssumption DEF PlaceFound
    <3> QED BY <3>2, <3>3
  <2> QED BY <2>6, <2>7 DEF Found
<1> QED BY <1>2, <1>3

\* A wakeup without a notification only adds to those that were woken.
LEMMA SpuriousFound ==
    ASSUME TypeInv, Found, NEW t \in Threads, SpuriousWakeup(t)
    PROVE  Found'
<1>1. pc \in [Threads -> Places] /\ Len(queue_) \in Nat /\ queue_' = queue_
  BY QueueLength DEF TypeInv, TypeOK, Places, OwnerPlaces, SpuriousWakeup
<1>2. ASSUME NEW q PROVE Cardinality(AtIn(pc, q)) \in Nat
  BY AtFinite
<1>3. CASE pc[t] = "takeWait"
  <2>1. pc' = [pc EXCEPT ![t] = "takeWoken"] /\ "takeWoken" \in Places
    BY <1>3 DEF SpuriousWakeup, Woken, Places
  <2>2. /\ AtIn(pc', "takeWait") \subseteq AtIn(pc, "takeWait")
        /\ Cardinality(AtIn(pc', "takeWoken")) = Cardinality(AtIn(pc, "takeWoken")) + 1
        /\ AtIn(pc', "runWait") = AtIn(pc, "runWait")
        /\ AtIn(pc', "runWoken") = AtIn(pc, "runWoken")
    BY <1>1, <1>3, <2>1, MoveCounts
  <2> QED BY <1>1, <1>2, <2>2 DEF Found, TaskFound, PlaceFound
<1>4. CASE pc[t] = "runWait"
  <2>1. pc' = [pc EXCEPT ![t] = "runWoken"] /\ "runWoken" \in Places
    BY <1>4 DEF SpuriousWakeup, Woken, Places
  <2>2. /\ AtIn(pc', "runWait") \subseteq AtIn(pc, "runWait")
        /\ Cardinality(AtIn(pc', "runWoken")) = Cardinality(AtIn(pc, "runWoken")) + 1
        /\ AtIn(pc', "takeWait") = AtIn(pc, "takeWait")
        /\ AtIn(pc', "takeWoken") = AtIn(pc, "takeWoken")
    BY <1>1, <1>4, <2>1, MoveCounts
  <2> QED BY <1>1, <1>2, <2>2, QueueAssumption DEF Found, TaskFound, PlaceFound
<1> QED BY <1>3, <1>4 DEF SpuriousWakeup

\* Neither condition loses a notification: while a worker waits every queued task has a
\* worker woken for it, and while a caller of run() waits every free place has a caller.
THEOREM ThreadPoolNoLostNotification == Spec => []NoLostNotification
<1>1. Init => Found
  BY ThreadAssumption DEF Init, Found, TaskFound, PlaceFound, AtIn
<1>2. TypeInv /\ Found /\ [Next]_vars => Found'
  <2> SUFFICES ASSUME TypeInv, Found, [Next]_vars PROVE Found'
    OBVIOUS
  <2>1. pc \in [Threads -> Places] /\ pc[Owner] \in OwnerPlaces
    BY DEF TypeInv, TypeOK, Places, OwnerPlaces, OwnerInv
  <2>2. ASSUME NEW p \in Producers, NEW task \in Tasks, CallRun(p, task) PROVE Found'
    BY <2>2, OutsideMove DEF CallRun, Places, Threads
  <2>3. ASSUME NEW w \in Workers, CheckRunning(w) \/ BeginTask(w) \/ EndTask(w) PROVE Found'
    <3>1. PICK to \in {"take", "over", "task", "run", "check"} : pc' = [pc EXCEPT ![w] = to]
      BY <2>3 DEF CheckRunning, BeginTask, EndTask
    <3> QED BY <2>3, <3>1, OutsideMove DEF CheckRunning, BeginTask, EndTask, Places, Threads
  <2>4. ASSUME NEW w \in Workers, StartThread(w) PROVE Found'
    <3>1. pc[w] = "none"
      BY <2>4 DEF StartThread, TypeInv, OwnerInv
    <3> QED BY <2>4, <3>1, OutsideMove DEF StartThread, Places, Threads
  <2>5. CASE Start \/ Started \/ Join
    <3>1. PICK to \in OwnerPlaces : pc' = [pc EXCEPT ![Owner] = to]
      BY <2>5 DEF Start, Started, Join, OwnerPlaces
    <3> QED BY <2>1, <2>5, <3>1, OutsideMove DEF Start, Started, Join, Places, OwnerPlaces, Threads
  <2>6. CASE Stop
    <3>1. AtIn(pc', "takeWait") = {} /\ AtIn(pc', "runWait") = {}
      BY <2>6 DEF Stop, Woken, AtIn
    <3> QED BY <3>1 DEF Found, TaskFound, PlaceFound
  <2>7. CASE UNCHANGED vars
    BY <2>7 DEF vars, Found
  <2> QED BY <2>2, <2>3, <2>4, <2>5, <2>6, <2>7, RunFound, TakeFound, SpuriousFound
          DEF Next, WorkerStep, OwnerStep
<1>3. TypeInv /\ Found => NoLostNotification
  BY FoundMeans DEF NoLostNotification, TypeInv
<1> QED BY <1>1, <1>2, <1>3, InitType, NextType, PTL DEF Spec

-----------------------------------------------------------------------------
(***************************************************************************)
(* The order of the tasks, and that each is run at most once.              *)
(***************************************************************************)

Elements(s) == {s[k] : k \in 1..Len(s)}
Distinct(s) == \A j, k \in 1..Len(s) : s[j] = s[k] => j = k

\* The tasks that have been passed to run().
Passed(task) ==
    \/ task \in Elements(accepted) \cup Elements(ran) \cup refused
    \/ \E t \in Threads : arg[t] = task

\* The histories, and what is left of accepted in the queue.
HistoryInv ==
    /\ accepted \in Seq(Tasks) /\ ran \in Seq(Tasks) /\ refused \subseteq Tasks
    /\ Distinct(accepted) /\ Distinct(ran)
    /\ Len(queue_) <= Len(accepted)
    /\ \A k \in 1..Len(queue_) : queue_[k] = accepted[Len(accepted) - Len(queue_) + k]

\* Where a task is: in the hands of one caller of run(), then in the queue, then in the
\* hands of one worker, then run; or refused.
WhereInv ==
    /\ refused \cap (Elements(accepted) \cup Elements(ran)) = {}
    /\ Elements(queue_) \cap Elements(ran) = {}
    /\ \A t \in Threads : arg[t] \notin Elements(accepted) \cup Elements(ran) \cup refused
    /\ \A t, u \in Threads : arg[t] = arg[u] => t = u \/ arg[t] = NoTask
    /\ \A w \in Workers : pc[w] = "begin" =>
           current[w] \in Elements(accepted) \ (Elements(queue_) \cup Elements(ran))
    /\ \A v, w \in Workers :
           pc[v] = "begin" /\ pc[w] = "begin" /\ current[v] = current[w] => v = w

\* A task is passed to run() by another one only when that one runs.
ChildInv ==
    \A task \in Tasks : Child[task] # NoTask /\ Passed(Child[task]) => task \in Elements(ran)

\* The tasks that run() has taken, run or refused.
Known == Elements(accepted) \cup Elements(ran) \cup refused

OrderInv == HistoryInv /\ WhereInv /\ ChildInv

\* One element more at the end.
LEMMA AppendElements ==
    ASSUME NEW s \in Seq(Tasks), NEW e \in Tasks
    PROVE  /\ Append(s, e) \in Seq(Tasks)
           /\ Elements(Append(s, e)) = Elements(s) \cup {e}
           /\ Distinct(s) /\ e \notin Elements(s) => Distinct(Append(s, e))
BY AppendProperties, LenProperties DEF Elements, Distinct

\* One element less at the beginning.
LEMMA TailElements ==
    ASSUME NEW s \in Seq(Tasks), s # <<>>, Distinct(s)
    PROVE  /\ Head(s) \in Elements(s)
           /\ Elements(Tail(s)) = Elements(s) \ {Head(s)}
<1>1. /\ Len(s) \in Nat \ {0} /\ Len(Tail(s)) = Len(s) - 1
      /\ \A i \in 1..Len(Tail(s)) : Tail(s)[i] = s[i + 1]
  BY HeadTailProperties, EmptySeq
<1>2. Head(s) = s[1]
  BY <1>1
<1>3. ASSUME NEW e \in Elements(s) \ {Head(s)} PROVE e \in Elements(Tail(s))
  <2>1. PICK i \in 1..Len(s) : e = s[i]
    BY <1>3 DEF Elements
  <2>2. i # 1
    BY <1>2, <1>3, <2>1
  <2>3. i - 1 \in 1..Len(Tail(s)) /\ Tail(s)[i - 1] = e
    BY <1>1, <2>1, <2>2
  <2> QED BY <2>3 DEF Elements
<1>4. ASSUME NEW e \in Elements(Tail(s)) PROVE e \in Elements(s) \ {Head(s)}
  <2>1. PICK i \in 1..Len(Tail(s)) : e = Tail(s)[i]
    BY <1>4 DEF Elements
  <2>2. i + 1 \in 1..Len(s) /\ 1 \in 1..Len(s) /\ i + 1 # 1 /\ s[i + 1] = e
    BY <1>1, <2>1
  <2> QED BY <1>2, <2>2 DEF Elements, Distinct
<1>5. Head(s) \in Elements(s)
  BY <1>1, <1>2 DEF Elements
<1> QED BY <1>3, <1>4, <1>5

\* The queue is the end of accepted: its tasks differ, too.
LEMMA QueueDistinct ==
    ASSUME TypeInv, HistoryInv
    PROVE  Distinct(queue_) /\ Elements(queue_) \subseteq Elements(accepted)
<1> DEFINE d == Len(accepted) - Len(queue_)
<1>1. Len(accepted) \in Nat /\ Len(queue_) \in Nat /\ d \in Nat
  BY LenProperties DEF TypeInv, TypeOK, HistoryInv
<1>2. \A k \in 1..Len(queue_) : d + k \in 1..Len(accepted) /\ queue_[k] = accepted[d + k]
  BY <1>1 DEF HistoryInv
<1> HIDE DEF d
<1>3. ASSUME NEW j \in 1..Len(queue_), NEW k \in 1..Len(queue_), queue_[j] = queue_[k]
      PROVE  j = k
  <2>1. /\ d + j \in 1..Len(accepted) /\ d + k \in 1..Len(accepted)
        /\ accepted[d + j] = accepted[d + k]
    BY <1>2, <1>3
  <2>2. d + j = d + k
    BY <2>1 DEF HistoryInv, Distinct
  <2> QED BY <1>1, <2>2
<1> QED BY <1>2, <1>3 DEF Distinct, Elements

\* They are tasks.
LEMMA KnownTasks ==
    ASSUME HistoryInv
    PROVE  NoTask \notin Known
<1>1. ASSUME NEW s \in Seq(Tasks) PROVE Elements(s) \subseteq Tasks
  BY LenProperties DEF Elements
<1> QED BY <1>1, TaskAssumption DEF HistoryInv, Known

\* Steps that move no task.
LEMMA QuietOrder ==
    ASSUME OrderInv, UNCHANGED <<queue_, arg, current, accepted, ran, refused>>,
           \A w \in Workers : pc'[w] = "begin" => pc[w] = "begin"
    PROVE  OrderInv'
BY DEF OrderInv, HistoryInv, WhereInv, ChildInv, Passed

\* A step of run().
LEMMA RunOrder ==
    ASSUME TypeInv, OrderInv, NEW t \in Workers \cup Producers, RunStep(t)
    PROVE  OrderInv'
<1>1. /\ pc \in [Threads -> Places] /\ t \in Threads /\ AfterRun(t) \in {"task", "idle"}
      /\ arg \in [Threads -> Tasks \cup {NoTask}]
      /\ current \in [Threads -> Tasks \cup {NoTask}]
      /\ pc[t] \in Running /\ arg[t] \in Tasks
  BY DEF TypeInv, TypeOK, TaskInv, Places, OwnerPlaces, Threads, AfterRun, RunStep, RunHere,
     RunWait, RunRefused, RunPush, InRun, Running
<1>2. CASE RunHere(t)
  <2> DEFINE a == arg[t]  c == Child[a]
  <2>1. /\ ran' = Append(ran, a) /\ arg' = [arg EXCEPT ![t] = c]
        /\ UNCHANGED <<queue_, current, accepted, refused>>
        /\ \A w \in Workers : pc'[w] = "begin" => pc[w] = "begin"
    BY <1>1, <1>2 DEF RunHere
  <2>2. a \in Tasks /\ c \in Tasks \cup {NoTask} /\ Passed(a) /\ a \notin Elements(ran)
    BY <1>1, TaskAssumption DEF Passed, OrderInv, WhereInv
  <2>3. c # NoTask => ~Passed(c)
    BY <2>2 DEF OrderInv, ChildInv
  <2>4. \A u \in Threads : u # t => arg[u] # a
    BY <1>1, <2>2, TaskAssumption DEF OrderInv, WhereInv
  <2>5. ASSUME NEW w \in Workers, pc[w] = "begin" PROVE current[w] # a
    BY <1>1, <2>5 DEF OrderInv, WhereInv
  <2>6. a \notin refused /\ a \notin Elements(queue_) /\ NoTask \notin Known
    BY <1>1, KnownTasks, QueueDistinct DEF OrderInv, WhereInv
  <2>7. \A task \in Tasks : Child[task] = c => task = a \/ c = NoTask
    BY <2>2, ChildAssumption
  <2>8. arg'[t] = c /\ \A u \in Threads : u # t => arg'[u] = arg[u]
    BY <1>1, <2>1
  <2> HIDE DEF a, c
  <2>9. Elements(ran') = Elements(ran) \cup {a} /\ HistoryInv'
    BY <2>1, <2>2, AppendElements DEF OrderInv, HistoryInv
  <2>10. \A task : Passed(task)' => Passed(task) \/ task = c
    BY <1>1, <2>1, <2>2, <2>8, <2>9 DEF Passed
  <2>11. ChildInv'
    BY <2>7, <2>9, <2>10 DEF OrderInv, ChildInv
  <2>12. c \notin Known \cup {a} /\ (c # NoTask => \A u \in Threads : arg[u] # c)
    BY <2>2, <2>3, <2>6, TaskAssumption DEF Known, Passed
  <2>13. WhereInv'
    BY <2>1, <2>4, <2>5, <2>6, <2>8, <2>9, <2>12 DEF OrderInv, WhereInv, Known
  <2> QED BY <2>9, <2>11, <2>13 DEF OrderInv
<1>3. CASE RunWait(t)
  <2>1. \A w \in Workers : pc'[w] = "begin" => pc[w] = "begin"
    BY <1>1, <1>3 DEF RunWait
  <2> QED BY <1>3, <2>1, QuietOrder DEF RunWait
<1>4. CASE RunRefused(t)
  <2> DEFINE a == arg[t]
  <2>1. /\ refused' = refused \cup {a}
        /\ arg'[t] = NoTask /\ \A u \in Threads : u # t => arg'[u] = arg[u]
        /\ UNCHANGED <<queue_, current, accepted, ran>>
        /\ \A w \in Workers : pc'[w] = "begin" => pc[w] = "begin"
    BY <1>1, <1>4 DEF RunRefused
  <2>2. a \in Tasks /\ Passed(a) /\ a \notin Known /\ NoTask \notin Known
    BY <1>1, KnownTasks DEF Passed, OrderInv, WhereInv, Known
  <2>3. \A u \in Threads : u # t => arg[u] # a
    BY <1>1, <2>2, TaskAssumption DEF OrderInv, WhereInv
  <2> HIDE DEF a
  <2>4. \A task : Passed(task)' => Passed(task) \/ task = NoTask
    BY <1>1, <2>1, <2>2 DEF Passed
  <2>5. HistoryInv' /\ ChildInv'
    BY <2>1, <2>2, <2>4 DEF OrderInv, HistoryInv, ChildInv
  <2>6. WhereInv'
    BY <2>1, <2>2, <2>3, TaskAssumption DEF OrderInv, WhereInv, Known
  <2> QED BY <2>5, <2>6 DEF OrderInv
<1>5. CASE RunPush(t)
  <2> DEFINE a == arg[t]  pcs == [pc EXCEPT ![t] = AfterRun(t)]
  <2>1. /\ queue_' = Append(queue_, a) /\ accepted' = Append(accepted, a)
        /\ arg'[t] = NoTask /\ \A u \in Threads : u # t => arg'[u] = arg[u]
        /\ UNCHANGED <<current, ran, refused>>
    BY <1>1, <1>5 DEF RunPush
  <2>2. \A w \in Workers : pc'[w] = "begin" => pc[w] = "begin"
    <3>1. pcs \in [Threads -> Places] /\ Notify(pcs, "takeWait", "takeWoken")
      BY <1>1, <1>5 DEF RunPush, Places, OwnerPlaces
    <3>2. /\ \A u \in Threads : pcs[u] # "takeWait" => pc'[u] = pcs[u]
          /\ \A u \in Threads : pcs[u] = "takeWait" => pc'[u] \in {"takeWait", "takeWoken"}
      BY <3>1, NotifyCounts DEF Places
    <3>3. \A w \in Workers : pcs[w] = "begin" => pc[w] = "begin"
      BY <1>1
    <3> HIDE DEF pcs
    <3> QED BY <3>2, <3>3 DEF Threads
  <2>3. a \in Tasks /\ Passed(a) /\ a \notin Known /\ NoTask \notin Known
    BY <1>1, KnownTasks DEF Passed, OrderInv, WhereInv, Known
  <2>4. \A u \in Threads : u # t => arg[u] # a
    BY <1>1, <2>3, TaskAssumption DEF OrderInv, WhereInv
  <2>5. Elements(queue_) \subseteq Elements(accepted)
    BY QueueDistinct DEF OrderInv
  <2> HIDE DEF a, pcs
  <2>6. /\ Elements(queue_') = Elements(queue_) \cup {a}
        /\ Elements(accepted') = Elements(accepted) \cup {a}
        /\ accepted' \in Seq(Tasks) /\ Distinct(accepted')
    BY <2>1, <2>3, AppendElements DEF OrderInv, HistoryInv, TypeInv, TypeOK, Known
  <2>7. /\ Len(queue_') <= Len(accepted')
        /\ \A k \in 1..Len(queue_') : queue_'[k] = accepted'[Len(accepted') - Len(queue_') + k]
    <3>1. /\ Len(queue_) \in Nat /\ Len(accepted) \in Nat
          /\ queue_ \in Seq(Tasks) /\ accepted \in Seq(Tasks)
      BY LenProperties DEF OrderInv, HistoryInv, TypeInv, TypeOK
    <3>2. /\ Len(queue_') = Len(queue_) + 1 /\ queue_'[Len(queue_) + 1] = a
          /\ \A k \in 1..Len(queue_) : queue_'[k] = queue_[k]
          /\ Len(accepted') = Len(accepted) + 1 /\ accepted'[Len(accepted) + 1] = a
          /\ \A k \in 1..Len(accepted) : accepted'[k] = accepted[k]
      BY <2>1, <2>3, <3>1, AppendProperties
    <3>3. Len(accepted') - Len(queue_') = Len(accepted) - Len(queue_)
      BY <3>1, <3>2
    <3>4. ASSUME NEW k \in 1..Len(queue_')
          PROVE  queue_'[k] = accepted'[Len(accepted) - Len(queue_) + k]
      <4>1. CASE k = Len(queue_) + 1
        BY <3>1, <3>2, <4>1
      <4>2. CASE k # Len(queue_) + 1
        <5>1. k \in 1..Len(queue_)
          BY <3>1, <3>2, <4>2
        <5>2. Len(accepted) - Len(queue_) + k \in 1..Len(accepted)
          BY <3>1, <5>1 DEF OrderInv, HistoryInv
        <5> QED BY <3>2, <5>1, <5>2 DEF OrderInv, HistoryInv
      <4> QED BY <4>1, <4>2
    <3> QED BY <3>1, <3>2, <3>3, <3>4 DEF OrderInv, HistoryInv
  <2>8. HistoryInv'
    BY <2>1, <2>6, <2>7 DEF OrderInv, HistoryInv
  <2>9. \A task : Passed(task)' => Passed(task) \/ task = NoTask
    BY <1>1, <2>1, <2>3, <2>6 DEF Passed
  <2>10. ChildInv'
    BY <2>1, <2>9 DEF OrderInv, ChildInv
  <2>11. WhereInv'
    <3>1. a # NoTask /\ a \notin Elements(ran) /\ a \notin refused /\ a \notin Elements(accepted)
          /\ NoTask \notin Elements(accepted') \cup Elements(ran) \cup refused
      BY <2>3, <2>6, TaskAssumption DEF Known
    <3>2. \A u \in Threads : arg'[u] = NoTask \/ (u # t /\ arg'[u] = arg[u] /\ arg[u] # a)
      BY <2>1, <2>4
    <3>3. refused' \cap (Elements(accepted') \cup Elements(ran')) = {}
      BY <2>1, <2>6, <3>1 DEF OrderInv, WhereInv
    <3>4. Elements(queue_') \cap Elements(ran') = {}
      BY <2>1, <2>6, <3>1 DEF OrderInv, WhereInv
    <3>5. \A u \in Threads : arg'[u] \notin Elements(accepted') \cup Elements(ran') \cup refused'
      BY <2>1, <2>6, <3>1, <3>2 DEF OrderInv, WhereInv
    <3>6. \A u, v \in Threads : arg'[u] = arg'[v] => u = v \/ arg'[u] = NoTask
      BY <3>2 DEF OrderInv, WhereInv
    <3>7. ASSUME NEW w \in Workers, pc'[w] = "begin"
          PROVE  current'[w] \in Elements(accepted') \ (Elements(queue_') \cup Elements(ran'))
      <4>1. current[w] \in Elements(accepted) \ (Elements(queue_) \cup Elements(ran))
        BY <2>2, <3>7 DEF OrderInv, WhereInv
      <4> QED BY <2>1, <2>6, <3>1, <4>1
    <3>8. \A v, w \in Workers :
             pc'[v] = "begin" /\ pc'[w] = "begin" /\ current'[v] = current'[w] => v = w
      BY <2>1, <2>2 DEF OrderInv, WhereInv
    <3> QED BY <3>3, <3>4, <3>5, <3>6, <3>7, <3>8 DEF WhereInv
  <2> QED BY <2>8, <2>10, <2>11 DEF OrderInv
<1> QED BY <1>2, <1>3, <1>4, <1>5 DEF RunStep

\* A step of a worker in runInThread or take().
LEMMA WorkerOrder ==
    ASSUME TypeInv, OrderInv, NEW w \in Workers, WorkerStep(w)
    PROVE  OrderInv'
<1>1. /\ pc \in [Threads -> Places] /\ w \in Threads /\ Workers \subseteq Threads
      /\ arg \in [Threads -> Tasks \cup {NoTask}]
      /\ current \in [Threads -> Tasks \cup {NoTask}]
      /\ pc[w] = "begin" => current[w] \in Tasks
  BY DEF TypeInv, TypeOK, TaskInv, Places, OwnerPlaces, Threads
<1>2. CASE CheckRunning(w) \/ TakeWait(w) \/ TakeNothing(w)
  <2>1. \A v \in Workers : pc'[v] = "begin" => pc[v] = "begin"
    BY <1>1, <1>2 DEF CheckRunning, TakeWait, TakeNothing
  <2> QED BY <1>2, <2>1, QuietOrder DEF CheckRunning, TakeWait, TakeNothing
<1>3. CASE EndTask(w)
  <2>1. /\ \A v \in Workers : pc'[v] = "begin" => v # w /\ pc[v] = "begin"
        /\ \A v \in Workers : v # w => current'[v] = current[v]
        /\ UNCHANGED <<queue_, arg, accepted, ran, refused>>
    BY <1>1, <1>3 DEF EndTask
  <2> QED BY <2>1 DEF OrderInv, HistoryInv, WhereInv, ChildInv, Passed
<1>4. CASE TakeTask(w)
  <2> DEFINE h == Head(queue_)  pcs == [pc EXCEPT ![w] = "begin"]
  <2>1. /\ queue_' = Tail(queue_) /\ queue_ # <<>>
        /\ current'[w] = h /\ \A v \in Workers : v # w => current'[v] = current[v]
        /\ UNCHANGED <<arg, accepted, ran, refused>>
    BY <1>1, <1>4 DEF TakeTask, Threads
  <2>2. \A v \in Workers : pc'[v] = "begin" => v = w \/ pc[v] = "begin"
    <3>1. pcs \in [Threads -> Places] /\ (Notify(pcs, "runWait", "runWoken") \/ pc' = pcs)
      BY <1>1, <1>4 DEF TakeTask, Places
    <3>2. /\ \A u \in Threads : pcs[u] # "runWait" => pc'[u] = pcs[u]
          /\ \A u \in Threads : pcs[u] = "runWait" => pc'[u] \in {"runWait", "runWoken"}
      BY <3>1, NotifyCounts DEF Places
    <3>3. \A v \in Workers : pcs[v] = "begin" => v = w \/ pc[v] = "begin"
      BY <1>1
    <3> HIDE DEF pcs
    <3> QED BY <3>2, <3>3 DEF Threads
  <2>3. /\ Distinct(queue_) /\ Elements(queue_) \subseteq Elements(accepted)
        /\ queue_ \in Seq(Tasks)
    BY QueueDistinct DEF OrderInv, TypeInv, TypeOK
  <2>4. h \in Elements(queue_) /\ Elements(queue_') = Elements(queue_) \ {h}
    BY <2>1, <2>3, TailElements
  <2>5. HistoryInv'
    <3>1. /\ Len(queue_) \in Nat \ {0} /\ Len(accepted) \in Nat
          /\ Len(queue_') = Len(queue_) - 1
          /\ \A k \in 1..Len(queue_') : queue_'[k] = queue_[k + 1]
      BY <2>1, <2>3, HeadTailProperties, EmptySeq, LenProperties DEF OrderInv, HistoryInv
    <3>2. ASSUME NEW k \in 1..Len(queue_')
          PROVE  queue_'[k] = accepted[Len(accepted) - Len(queue_') + k]
      <4>1. k + 1 \in 1..Len(queue_)
        BY <3>1
      <4>2. Len(accepted) - Len(queue_) + (k + 1) = Len(accepted) - Len(queue_') + k
        BY <3>1
      <4> QED BY <3>1, <4>1, <4>2 DEF OrderInv, HistoryInv
    <3>3. Len(queue_') <= Len(accepted)
      BY <3>1 DEF OrderInv, HistoryInv
    <3> QED BY <2>1, <3>2, <3>3 DEF OrderInv, HistoryInv
  <2> HIDE DEF h, pcs
  <2>6. WhereInv'
    BY <2>1, <2>2, <2>3, <2>4 DEF OrderInv, WhereInv
  <2>7. ChildInv'
    BY <2>1 DEF OrderInv, ChildInv, Passed
  <2> QED BY <2>5, <2>6, <2>7 DEF OrderInv
<1>5. CASE BeginTask(w)
  <2> DEFINE a == current[w]  c == Child[a]
  <2>1. /\ ran' = Append(ran, a)
        /\ arg'[w] = c /\ \A u \in Threads : u # w => arg'[u] = arg[u]
        /\ UNCHANGED <<queue_, current, accepted, refused>>
        /\ pc[w] = "begin"
        /\ \A v \in Workers : pc'[v] = "begin" => v # w /\ pc[v] = "begin"
    BY <1>1, <1>5 DEF BeginTask
  <2>2. /\ a \in Tasks /\ c \in Tasks \cup {NoTask}
        /\ a \in Elements(accepted) /\ a \notin Elements(queue_) \cup Elements(ran) \cup refused
    BY <1>1, <2>1, TaskAssumption DEF OrderInv, WhereInv
  <2>3. c # NoTask => ~Passed(c)
    BY <2>2 DEF OrderInv, ChildInv
  <2>4. \A u \in Threads : arg[u] # a
    BY <2>2 DEF OrderInv, WhereInv
  <2>5. \A v \in Workers : v # w /\ pc[v] = "begin" => current[v] # a
    BY <2>1 DEF OrderInv, WhereInv
  <2>6. NoTask \notin Known
    BY KnownTasks DEF OrderInv
  <2>7. \A task \in Tasks : Child[task] = c => task = a \/ c = NoTask
    BY <2>2, ChildAssumption
  <2> HIDE DEF a, c
  <2>8. Elements(ran') = Elements(ran) \cup {a} /\ HistoryInv'
    BY <2>1, <2>2, AppendElements DEF OrderInv, HistoryInv
  <2>9. \A task : Passed(task)' => Passed(task) \/ task = c
    BY <1>1, <2>1, <2>2, <2>8 DEF Passed
  <2>10. ChildInv'
    BY <2>7, <2>8, <2>9 DEF OrderInv, ChildInv
  <2>11. c \notin Known \cup {a} /\ (c # NoTask => \A u \in Threads : arg[u] # c)
    BY <2>2, <2>3, <2>6, TaskAssumption DEF Known, Passed
  <2>12. WhereInv'
    BY <1>1, <2>1, <2>2, <2>4, <2>5, <2>6, <2>8, <2>11 DEF OrderInv, WhereInv, Known
  <2> QED BY <2>8, <2>10, <2>12 DEF OrderInv
<1>6. CASE RunStep(w)
  BY <1>6, RunOrder
<1> QED BY <1>2, <1>3, <1>4, <1>5, <1>6 DEF WorkerStep

\* So does every step of the pool.
LEMMA NextOrder ==
    ASSUME TypeInv, OrderInv, [Next]_vars
    PROVE  OrderInv'
<1>1. /\ pc \in [Threads -> Places] /\ arg \in [Threads -> Tasks \cup {NoTask}]
      /\ Workers \subseteq Threads /\ Owner \in Threads /\ Producers \subseteq Threads
  BY DEF TypeInv, TypeOK, Places, OwnerPlaces, Threads
<1>2. ASSUME NEW p \in Producers, NEW task \in Tasks, CallRun(p, task) PROVE OrderInv'
  <2>1. /\ arg'[p] = task /\ \A u \in Threads : u # p => arg'[u] = arg[u]
        /\ UNCHANGED <<queue_, current, accepted, ran, refused>>
        /\ \A w \in Workers : pc'[w] = "begin" => pc[w] = "begin"
    BY <1>1, <1>2 DEF CallRun
  <2>2. /\ task \notin Known /\ \A u \in Threads : arg[u] # task
        /\ \A other \in Tasks : Child[other] # task
    BY <1>2 DEF CallRun, Known, Elements
  <2>3. \A other : Passed(other)' => Passed(other) \/ other = task
    BY <1>1, <2>1 DEF Passed
  <2>4. ChildInv'
    BY <2>1, <2>2, <2>3 DEF OrderInv, ChildInv
  <2>5. WhereInv'
    BY <1>1, <2>1, <2>2 DEF OrderInv, WhereInv, Known
  <2>6. HistoryInv'
    BY <2>1 DEF OrderInv, HistoryInv
  <2> QED BY <2>4, <2>5, <2>6 DEF OrderInv
<1>3. ASSUME UNCHANGED <<queue_, arg, current, accepted, ran, refused>>,
             pc' = pc \/ \E t \in Threads, to \in Places \ {"begin"} : pc' = [pc EXCEPT ![t] = to]
      PROVE  OrderInv'
  <2>1. \A w \in Workers : pc'[w] = "begin" => pc[w] = "begin"
    BY <1>1, <1>3
  <2> QED BY <1>3, <2>1, QuietOrder
<1>4. ASSUME NEW t \in Threads, SpuriousWakeup(t) PROVE OrderInv'
  BY <1>1, <1>3, <1>4 DEF SpuriousWakeup, Woken, Places
<1>5. CASE Start \/ Started \/ Join
  BY <1>1, <1>3, <1>5 DEF Start, Started, Join, Places, OwnerPlaces
<1>6. ASSUME NEW w \in Workers, StartThread(w) PROVE OrderInv'
  BY <1>1, <1>3, <1>6 DEF StartThread, Places
<1>7. CASE Stop
  <2>1. \A w \in Workers : pc'[w] = "begin" => pc[w] = "begin"
    BY <1>1, <1>7 DEF Stop, Woken
  <2> QED BY <1>7, <2>1, QuietOrder DEF Stop
<1>8. CASE UNCHANGED vars
  BY <1>3, <1>8 DEF vars
<1> QED BY <1>2, <1>4, <1>5, <1>6, <1>7, <1>8, RunOrder, WorkerOrder DEF Next, OwnerStep

\* The queue hands out what it took: each task is run at most once, a refused one never,
\* the tasks leave the queue in the order in which they came, within its bound, and when
\* stop() has returned no worker is left.
THEOREM ThreadPoolOnceInOrder == Spec => []OnceInOrder
<1>1. Init => OrderInv
  <2> SUFFICES ASSUME Init PROVE OrderInv
    OBVIOUS
  <2>1. /\ queue_ = <<>> /\ accepted = <<>> /\ ran = <<>> /\ refused = {}
        /\ \A t \in Threads : arg[t] = NoTask /\ pc[t] # "begin"
        /\ <<>> \in Seq(Tasks) /\ Len(<<>>) = 0
    BY EmptySeq DEF Init
  <2>2. Elements(<<>>) = {} /\ Distinct(<<>>)
    BY DEF Elements, Distinct
  <2> QED BY <2>1, <2>2, TaskAssumption DEF OrderInv, HistoryInv, WhereInv, ChildInv, Passed,
          Threads
<1>2. OrderInv => TasksInOrder
  <2> SUFFICES ASSUME OrderInv PROVE TasksInOrder
    OBVIOUS
  <2>1. \A k \in 1..Len(ran) : ran[k] \in Elements(ran)
    BY DEF Elements
  <2> QED BY <2>1 DEF OrderInv, HistoryInv, WhereInv, TasksInOrder, Distinct
<1>3. Spec => []OrderInv
  BY <1>1, InitType, NextType, NextOrder, PTL DEF Spec
<1> QED BY <1>2, <1>3, ThreadPoolBounded, ThreadPoolStopped, PTL DEF OnceInOrder

=============================================================================
