------------------------------ MODULE ThreadPool ------------------------------
(***************************************************************************)
(* zing::ThreadPool: a queue of tasks, bounded or not, guarded by mutex_,  *)
(* with the conditions notEmpty_ and notFull_.  What happens under mutex_  *)
(* is one step; a wait is a step that joins the waiters, a notification    *)
(* makes one of them (or all) "woken", and a woken thread has to get the   *)
(* mutex and test its condition again, in competition with all others.     *)
(* running_ is read by the workers without the mutex.                      *)
(*                                                                         *)
(* An exception of a task ends the process and is left out.                *)
(***************************************************************************)
EXTENDS Naturals, Sequences, FiniteSets

CONSTANTS
    Workers,         \* the threads that start(numThreads) can make
    Producers,       \* threads that call run()
    Owner,           \* the thread that calls start() and stop()
    Tasks,
    Child,           \* the task that a task passes to run(), NoTask for none
    NoTask,
    maxQueueSize_    \* 0 is no limit

ASSUME TaskAssumption == NoTask \notin Tasks /\ Child \in [Tasks -> Tasks \cup {NoTask}]
\* a task names one call of run(): no two tasks pass the same one
ASSUME ChildAssumption ==
    \A t, u \in Tasks : Child[t] = Child[u] => t = u \/ Child[t] = NoTask
ASSUME QueueAssumption == maxQueueSize_ \in Nat
ASSUME ThreadAssumption == Owner \notin Workers \cup Producers /\ Workers \cap Producers = {}
ASSUME FiniteAssumption == IsFiniteSet(Workers) /\ IsFiniteSet(Producers)

Threads == Workers \cup Producers \cup {Owner}

VARIABLES
    queue_, running_,
    threads_,        \* the workers that have been started
    pc,              \* where each thread is
    arg,             \* the task that a thread passes to run()
    current,         \* the task that a worker runs
    accepted,        \* history: the tasks put in queue_, in this order
    ran,             \* history: the tasks that have been begun, in this order
    refused,         \* history: the tasks that run() did not take because of stop()
    asserted         \* asserts that have failed

vars == <<queue_, running_, threads_, pc, arg, current, accepted, ran, refused, asserted>>

Init ==
    /\ queue_ = <<>>
    /\ running_ = FALSE
    /\ threads_ = {}
    /\ pc = [t \in Threads |-> IF t \in Workers THEN "none" ELSE "idle"]
    /\ arg = [t \in Threads |-> NoTask]
    /\ current = [t \in Threads |-> NoTask]
    /\ accepted = <<>> /\ ran = <<>> /\ refused = {}
    /\ asserted = {}

-----------------------------------------------------------------------------
isFull == maxQueueSize_ > 0 /\ Len(queue_) >= maxQueueSize_

At(places) == {t \in Threads : pc[t] \in places}

\* Condition::notify: one waiter wakes up, if there is any.  from is the place where the
\* waiters are, to where they go on; pcs are the places after the rest of the step.
Notify(pcs, from, to) ==
    IF \E t \in Threads : pcs[t] = from
    THEN \E t \in Threads : pcs[t] = from /\ pc' = [pcs EXCEPT ![t] = to]
    ELSE pc' = pcs

\* Condition::notifyAll
Woken(place) == CASE place = "takeWait" -> "takeWoken"
                  [] place = "runWait" -> "runWoken"
                  [] OTHER -> place

\* after run() a producer is free, a worker goes on in the task that called it
AfterRun(t) == IF t \in Workers THEN "task" ELSE "idle"

\* a producer passes a task to run(); not while start() is still at work
CallRun(p, task) ==
    /\ pc[p] = "idle" /\ pc[Owner] # "starting"
    /\ task \notin {accepted[k] : k \in 1..Len(accepted)} \cup {ran[k] : k \in 1..Len(ran)}
    /\ task \notin refused \cup {arg[t] : t \in Threads}
    /\ \A other \in Tasks : Child[other] # task
    /\ pc' = [pc EXCEPT ![p] = "run"]
    /\ arg' = [arg EXCEPT ![p] = task]
    /\ UNCHANGED <<queue_, running_, threads_, current, accepted, ran, refused, asserted>>

\* run() of a pool without threads: the caller runs the task
RunHere(t) ==
    /\ pc[t] = "run" /\ threads_ = {}
    /\ ran' = Append(ran, arg[t])
    /\ arg' = [arg EXCEPT ![t] = Child[arg[t]]]
    /\ pc' = [pc EXCEPT ![t] = IF Child[arg[t]] = NoTask THEN AfterRun(t) ELSE "run"]
    /\ UNCHANGED <<queue_, running_, threads_, current, accepted, refused, asserted>>

InRun(t) == pc[t] \in {"run", "runWoken"} /\ threads_ # {}

\* run(): the queue is full
RunWait(t) ==
    /\ InRun(t)
    /\ isFull /\ running_
    /\ pc' = [pc EXCEPT ![t] = "runWait"]
    /\ UNCHANGED <<queue_, running_, threads_, arg, current, accepted, ran, refused, asserted>>

\* run(): the pool has been stopped
RunRefused(t) ==
    /\ InRun(t)
    /\ ~running_
    /\ refused' = refused \cup {arg[t]}
    /\ arg' = [arg EXCEPT ![t] = NoTask]
    /\ pc' = [pc EXCEPT ![t] = AfterRun(t)]
    /\ UNCHANGED <<queue_, running_, threads_, current, accepted, ran, asserted>>

\* mutant of RunPush: a caller that was notified does not test again
RunPushUntested(t) ==
    /\ InRun(t)
    /\ running_ /\ (isFull => pc[t] = "runWoken")
    /\ queue_' = Append(queue_, arg[t])
    /\ accepted' = Append(accepted, arg[t])
    /\ arg' = [arg EXCEPT ![t] = NoTask]
    /\ Notify([pc EXCEPT ![t] = AfterRun(t)], "takeWait", "takeWoken")
    /\ UNCHANGED <<running_, threads_, current, ran, refused, asserted>>

\* mutant of RunPush: the wrong condition is notified
RunPushNotFull(t) ==
    /\ InRun(t)
    /\ running_ /\ ~isFull
    /\ queue_' = Append(queue_, arg[t])
    /\ accepted' = Append(accepted, arg[t])
    /\ arg' = [arg EXCEPT ![t] = NoTask]
    /\ Notify([pc EXCEPT ![t] = AfterRun(t)], "runWait", "runWoken")
    /\ UNCHANGED <<running_, threads_, current, ran, refused, asserted>>

\* run(): the task is queued and a worker notified
RunPush(t) ==
    /\ InRun(t)
    /\ running_ /\ ~isFull
    /\ queue_' = Append(queue_, arg[t])
    /\ accepted' = Append(accepted, arg[t])
    /\ arg' = [arg EXCEPT ![t] = NoTask]
    /\ Notify([pc EXCEPT ![t] = AfterRun(t)], "takeWait", "takeWoken")
    /\ UNCHANGED <<running_, threads_, current, ran, refused, asserted>>

-----------------------------------------------------------------------------
(* The workers: runInThread and take.                                      *)

\* while (running_), read without the mutex (threadInitCallback_ has returned)
CheckRunning(w) ==
    /\ pc[w] = "check"
    /\ pc' = [pc EXCEPT ![w] = IF running_ THEN "take" ELSE "over"]
    /\ UNCHANGED <<queue_, running_, threads_, arg, current, accepted, ran, refused, asserted>>

InTake(w) == pc[w] \in {"take", "takeWoken"}

TakeWait(w) ==
    /\ InTake(w)
    /\ queue_ = <<>> /\ running_
    /\ pc' = [pc EXCEPT ![w] = "takeWait"]
    /\ UNCHANGED <<queue_, running_, threads_, arg, current, accepted, ran, refused, asserted>>

\* take() of a stopped pool with an empty queue: no task
TakeNothing(w) ==
    /\ InTake(w)
    /\ queue_ = <<>> /\ ~running_
    /\ pc' = [pc EXCEPT ![w] = "check"]
    /\ UNCHANGED <<queue_, running_, threads_, arg, current, accepted, ran, refused, asserted>>

\* mutant of TakeTask: the place that has become free is announced to nobody
TakeTaskQuietly(w) ==
    /\ InTake(w)
    /\ queue_ # <<>>
    /\ current' = [current EXCEPT ![w] = Head(queue_)]
    /\ queue_' = Tail(queue_)
    /\ pc' = [pc EXCEPT ![w] = "begin"]
    /\ UNCHANGED <<running_, threads_, arg, accepted, ran, refused, asserted>>

\* take(): a task is there, also if the pool was stopped after the last check
TakeTask(w) ==
    /\ InTake(w)
    /\ queue_ # <<>>
    /\ current' = [current EXCEPT ![w] = Head(queue_)]
    /\ queue_' = Tail(queue_)
    /\ LET pcs == [pc EXCEPT ![w] = "begin"]
       IN  IF maxQueueSize_ > 0 THEN Notify(pcs, "runWait", "runWoken") ELSE pc' = pcs
    /\ UNCHANGED <<running_, threads_, arg, accepted, ran, refused, asserted>>

\* task(), which may call run() of the same pool
BeginTask(w) ==
    /\ pc[w] = "begin"
    /\ ran' = Append(ran, current[w])
    /\ arg' = [arg EXCEPT ![w] = Child[current[w]]]
    /\ pc' = [pc EXCEPT ![w] = IF Child[current[w]] = NoTask THEN "task" ELSE "run"]
    /\ UNCHANGED <<queue_, running_, threads_, current, accepted, refused, asserted>>

EndTask(w) ==
    /\ pc[w] = "task"
    /\ current' = [current EXCEPT ![w] = NoTask]
    /\ pc' = [pc EXCEPT ![w] = "check"]
    /\ UNCHANGED <<queue_, running_, threads_, arg, accepted, ran, refused, asserted>>

\* pthread_cond_wait may return without a notification
SpuriousWakeup(t) ==
    /\ pc[t] \in {"takeWait", "runWait"}
    /\ pc' = [pc EXCEPT ![t] = Woken(pc[t])]
    /\ UNCHANGED <<queue_, running_, threads_, arg, current, accepted, ran, refused, asserted>>

-----------------------------------------------------------------------------
(* The owner: start, stop.                                                 *)

Start ==
    /\ pc[Owner] = "idle"
    /\ \A p \in Producers : pc[p] = "idle"
    /\ asserted' = IF threads_ = {} THEN asserted ELSE asserted \cup {"start"}
    /\ running_' = TRUE
    /\ pc' = [pc EXCEPT ![Owner] = "starting"]
    /\ UNCHANGED <<queue_, threads_, arg, current, accepted, ran, refused>>

StartThread(w) ==
    /\ pc[Owner] = "starting"
    /\ w \in Workers \ threads_
    /\ threads_' = threads_ \cup {w}
    /\ pc' = [pc EXCEPT ![w] = "check"]
    /\ UNCHANGED <<queue_, running_, arg, current, accepted, ran, refused, asserted>>

\* start() has made numThreads threads, which is any number
Started ==
    /\ pc[Owner] = "starting"
    /\ pc' = [pc EXCEPT ![Owner] = "started"]
    /\ UNCHANGED <<queue_, running_, threads_, arg, current, accepted, ran, refused, asserted>>

\* mutant of Stop: running_ is set and nobody is notified
StopQuietly ==
    /\ pc[Owner] = "started"
    /\ running_' = FALSE
    /\ pc' = [pc EXCEPT ![Owner] = "joining"]
    /\ UNCHANGED <<queue_, threads_, arg, current, accepted, ran, refused, asserted>>

\* stop(), up to the joins
Stop ==
    /\ pc[Owner] = "started"
    /\ running_' = FALSE
    /\ pc' = [t \in Threads |-> IF t = Owner THEN "joining" ELSE Woken(pc[t])]
    /\ UNCHANGED <<queue_, threads_, arg, current, accepted, ran, refused, asserted>>

Join ==
    /\ pc[Owner] = "joining"
    /\ \A w \in threads_ : pc[w] = "over"
    /\ pc' = [pc EXCEPT ![Owner] = "stopped"]
    /\ UNCHANGED <<queue_, running_, threads_, arg, current, accepted, ran, refused, asserted>>

-----------------------------------------------------------------------------
RunStep(t) == RunHere(t) \/ RunWait(t) \/ RunRefused(t) \/ RunPush(t)

WorkerStep(w) ==
    \/ CheckRunning(w)
    \/ TakeWait(w) \/ TakeNothing(w) \/ TakeTask(w)
    \/ BeginTask(w) \/ EndTask(w)
    \/ RunStep(w)

OwnerStep == (\E w \in Workers : StartThread(w)) \/ Started \/ Join

Next ==
    \/ \E p \in Producers : RunStep(p) \/ \E task \in Tasks : CallRun(p, task)
    \/ \E w \in Workers : WorkerStep(w)
    \/ \E t \in Threads : SpuriousWakeup(t)
    \/ Start \/ OwnerStep \/ Stop

Spec == Init /\ [][Next]_vars

\* Every thread that is not waiting is scheduled and gets the mutex; nobody has to
\* call start(), stop() or run(), and there need be no spurious wakeup.
FairSpec ==
    /\ Spec
    /\ \A p \in Producers : WF_vars(RunStep(p))
    /\ \A w \in Workers : WF_vars(WorkerStep(w))
    /\ WF_vars(OwnerStep)

-----------------------------------------------------------------------------
\* Types of the variables.
TypeOK ==
    /\ queue_ \in Seq(Tasks)
    /\ running_ \in BOOLEAN
    /\ threads_ \subseteq Workers
    /\ pc \in [Threads -> {"none", "idle", "run", "runWait", "runWoken", "check", "take",
                           "takeWait", "takeWoken", "begin", "task", "over", "starting",
                           "started", "joining", "stopped"}]
    /\ arg \in [Threads -> Tasks \cup {NoTask}]
    /\ current \in [Threads -> Tasks \cup {NoTask}]
    /\ asserted = {}

\* The queue never exceeds maxQueueSize_, however the callers of run() that were
\* notified compete with those that just came (the assert of line 87).
QueueBounded == maxQueueSize_ > 0 => Len(queue_) <= maxQueueSize_

\* While a worker waits in take(), every task in the queue has a worker that was woken
\* for it and not yet got the mutex (notEmpty_.notify of line 90, one per task).
NoLostTask ==
    At({"takeWait"}) # {} => Len(queue_) <= Cardinality(At({"takeWoken"}))

\* While a caller waits in run(), every free place has a caller that was woken for it
\* (notFull_.notify of line 108, one per place).
NoLostPlace ==
    At({"runWait"}) # {} => maxQueueSize_ <= Len(queue_) + Cardinality(At({"runWoken"}))

\* Neither condition loses a notification.
NoLostNotification == TypeOK /\ NoLostTask /\ NoLostPlace

\* Each task is run at most once, by one worker, and the tasks leave the queue in the
\* order in which they came; a refused task is not run.
TasksInOrder ==
    /\ \A j, k \in 1..Len(ran) : ran[j] = ran[k] => j = k
    /\ \A k \in 1..Len(queue_) :
           queue_[k] = accepted[Len(accepted) - Len(queue_) + k]
    /\ \A k \in 1..Len(ran) : ran[k] \notin refused

\* When stop() has returned no worker runs or will run anything (lines 61-64).
StoppedMeansOver == pc[Owner] = "stopped" => \A w \in threads_ : pc[w] = "over"

\* The queue hands out what it took, once each, within its bound and until stop().
OnceInOrder == QueueBounded /\ TasksInOrder /\ StoppedMeansOver

\* Every worker is in a task that called run() and finds the queue full, where only a
\* worker makes a place: nothing but stop() ends this (the wait of line 84).
WorkersAllInRun == isFull /\ \A w \in threads_ : pc[w] \in {"runWait", "runWoken"}

\* A task that was queued is run, unless the pool is stopped or the workers have locked
\* each other out; nothing else keeps a task in the queue.
AcceptedTasksRun ==
    \A task \in Tasks :
        (\E k \in 1..Len(accepted) : accepted[k] = task) ~>
            \/ ~running_
            \/ \E k \in 1..Len(ran) : ran[k] = task
            \/ WorkersAllInRun

\* stop() returns, whatever the queue holds and whoever waits.
StopReturns == pc[Owner] = "joining" ~> pc[Owner] = "stopped"

=============================================================================
