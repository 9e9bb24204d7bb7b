--------------------------- MODULE EventLoopThread ---------------------------
(***************************************************************************)
(* zing::net::EventLoopThread: the hand-over of a loop that lives on the   *)
(* stack of a new thread, and its shutdown by the destructor.  The loop is *)
(* the one of EventLoop, whose actions are taken here under the program    *)
(* counters of threadFunc() and of the owner.  Thread::start and           *)
(* CountDownLatch are part of the hand-over (the owner waits for the       *)
(* latch, then for loop_).                                                 *)
(***************************************************************************)
EXTENDS EventLoop, Integers

CONSTANTS
    Owner,        \* the thread that owns the EventLoopThread object
    Usages        \* what the owner's program may do besides the plain life cycle

UsageKinds == {
    "destroyEarly",   \* the object may be destroyed before the thread is in loop()
    "initCallback",   \* callback_ queues functors in the new loop
    "quitFunctor"}    \* a functor handed over by the owner may call quit()

ASSUME OwnerAssumption == Owner \in Threads
ASSUME UsageAssumption == Usages \subseteq SUBSET UsageKinds

VARIABLES
    loop_,        \* whether the member loop_ points to the loop (or is nullptr)
    latch,        \* count_ of Thread::latch_
    holder_,      \* who holds EventLoopThread::mutex_: "none" or "thread"
    alive,        \* whether the stack object `loop` of threadFunc exists
    ownerPc, threadPc,
    usage         \* the one of Usages that this program is

loopVars == vars
threadVars == <<loop_, latch, holder_, alive, ownerPc, threadPc, usage>>
allVars == <<vars, threadVars>>

ThreadInit ==
    /\ Init
    /\ loop_ = FALSE
    /\ latch = 1
    /\ holder_ = "none"
    /\ alive = FALSE
    /\ ownerPc = "new"
    /\ threadPc = "none"
    /\ usage \in Usages

-----------------------------------------------------------------------------
(* The owner.                                                              *)

\* startLoop up to Thread::start: pthread_create, then latch_.wait()
Start ==
    /\ ownerPc = "new"
    /\ ownerPc' = "latch"
    /\ threadPc' = "created"
    /\ UNCHANGED <<loopVars, loop_, latch, holder_, alive, usage>>

LatchWait ==
    /\ ownerPc = "latch"
    /\ latch = 0
    /\ ownerPc' = "lock"
    /\ UNCHANGED <<loopVars, loop_, latch, holder_, alive, threadPc, usage>>

\* startLoop under the mutex: the loop is there, or wait for the condition
WaitForLoop ==
    /\ ownerPc = "lock"
    /\ holder_ = "none"
    /\ ownerPc' = IF loop_ THEN "started" ELSE "waiting"
    /\ UNCHANGED <<loopVars, loop_, latch, holder_, alive, threadPc, usage>>

\* cond_.wait returns without a notification
SpuriousWakeup ==
    /\ ownerPc = "waiting"
    /\ ownerPc' = "lock"
    /\ UNCHANGED <<loopVars, loop_, latch, holder_, alive, threadPc, usage>>

\* The owner hands the loop a functor, then wakes it up.
OwnerQueues(f) ==
    /\ ownerPc = "started"
    /\ QueueInLoop(Owner, f)
    /\ UNCHANGED threadVars

OwnerWakesUp ==
    /\ ownerPc = "started"
    /\ Wakeup(Owner)
    /\ UNCHANGED threadVars

\* ~EventLoopThread: loop_ is read without the mutex
Destroy ==
    /\ ownerPc \in {"new", "started"}
    /\ call[Owner] = "idle"
    /\ ownerPc = "started" /\ "destroyEarly" \notin usage
          => looping_ \/ threadPc \notin {"created", "construct", "callback", "enter"}
    /\ ownerPc' = IF loop_ THEN "quit" ELSE "members"
    /\ UNCHANGED <<loopVars, loop_, latch, holder_, alive, threadPc, usage>>

\* loop_->quit() finds the loop: its store, then its write to the eventfd
DestroyQuit ==
    /\ ownerPc = "quit"
    /\ alive
    /\ Quit(Owner)
    /\ ownerPc' = "wakeup"
    /\ UNCHANGED <<loop_, latch, holder_, alive, threadPc, usage>>

DestroyWakeup ==
    /\ ownerPc = "wakeup"
    /\ alive
    /\ Wakeup(Owner)
    /\ ownerPc' = "join"
    /\ UNCHANGED <<loop_, latch, holder_, alive, threadPc, usage>>

\* Undefined behaviour, after which nothing is said of the owner: loop_ is cleared
\* between the test of line 28 and the call of line 30, which may read it again, or the
\* loop is destroyed before quit() has stored, or between its store and its write.
QuitUndefined ==
    /\ \/ ownerPc = "quit" /\ ~loop_
       \/ ownerPc = "wakeup" /\ ~alive
    /\ ownerPc' = "undefined"
    /\ UNCHANGED <<loopVars, loop_, latch, holder_, alive, threadPc, usage>>

\* thread_.join()
Join ==
    /\ ownerPc = "join"
    /\ threadPc = "finished"
    /\ ownerPc' = "members"
    /\ UNCHANGED <<loopVars, loop_, latch, holder_, alive, threadPc, usage>>

\* the members are destroyed; ~Thread detaches a thread that was not joined
DestroyMembers ==
    /\ ownerPc = "members"
    /\ ownerPc' = "gone"
    /\ UNCHANGED <<loopVars, loop_, latch, holder_, alive, threadPc, usage>>

-----------------------------------------------------------------------------
(* The thread: ThreadData::runInThread, then threadFunc.                   *)

CountDown ==
    /\ threadPc = "created"
    /\ latch' = latch - 1
    /\ threadPc' = "construct"
    /\ UNCHANGED <<loopVars, loop_, holder_, alive, ownerPc, usage>>

\* EventLoop loop; and the start of callback_(&loop)
ConstructLoop ==
    /\ threadPc = "construct"
    /\ alive' = TRUE
    /\ threadPc' = "callback"
    /\ UNCHANGED <<loopVars, loop_, latch, holder_, ownerPc, usage>>

InitCallback(f) ==
    /\ "initCallback" \in usage
    /\ threadPc = "callback"
    /\ LoopQueueInLoop(f)
    /\ UNCHANGED threadVars

\* mutant of Publish: cond_.notify() is forgotten
PublishSilently ==
    /\ threadPc = "callback"
    /\ holder_ = "none"
    /\ loop_' = TRUE
    /\ threadPc' = "enter"
    /\ UNCHANGED <<loopVars, latch, holder_, alive, ownerPc, usage>>

\* callback_ has returned: loop_ = &loop and cond_.notify() under the mutex
Publish ==
    /\ threadPc = "callback"
    /\ holder_ = "none"
    /\ loop_' = TRUE
    /\ ownerPc' = IF ownerPc = "waiting" THEN "lock" ELSE ownerPc
    /\ threadPc' = "enter"
    /\ UNCHANGED <<loopVars, latch, holder_, alive, usage>>

\* loop.loop()
ThreadEntersLoop ==
    /\ threadPc = "enter"
    /\ EnterLoop
    /\ threadPc' = "loop"
    /\ UNCHANGED <<loop_, latch, holder_, alive, ownerPc, usage>>

\* The functor that is running was handed over by the owner, not by callback_.
OwnersFunctorRuns ==
    pc = "callback" /\ callingPendingFunctors_ /\ ran[Len(ran)] \notin early

ThreadLoops ==
    /\ threadPc = "loop"
    /\ \/ LoopStep
       \/ PollTimeout
       \/ "quitFunctor" \in usage /\ OwnersFunctorRuns /\ LoopQuit
    /\ UNCHANGED threadVars

\* mutant of ClearLoop: the pointer is left as it is
ClearLoopNot ==
    /\ threadPc = "loop"
    /\ pc = "idle"
    /\ holder_ = "none"
    /\ holder_' = "thread"
    /\ threadPc' = "unlock"
    /\ UNCHANGED <<loopVars, loop_, latch, alive, ownerPc, usage>>

\* loop() has returned: lock, loop_ = nullptr
ClearLoop ==
    /\ threadPc = "loop"
    /\ pc = "idle"
    /\ holder_ = "none"
    /\ holder_' = "thread"
    /\ loop_' = FALSE
    /\ threadPc' = "unlock"
    /\ UNCHANGED <<loopVars, latch, alive, ownerPc, usage>>

\* the destructors of threadFunc's locals, in reverse order: the guard, the loop
Unlock ==
    /\ threadPc = "unlock"
    /\ holder_' = "none"
    /\ threadPc' = "destroy"
    /\ UNCHANGED <<loopVars, loop_, latch, alive, ownerPc, usage>>

DestroyLoop ==
    /\ threadPc = "destroy"
    /\ alive' = FALSE
    /\ threadPc' = "finished"
    /\ UNCHANGED <<loopVars, loop_, latch, holder_, ownerPc, usage>>

-----------------------------------------------------------------------------
\* What the owner does by itself once it has begun startLoop or the destructor.
OwnerStep ==
    \/ LatchWait \/ WaitForLoop \/ OwnerWakesUp
    \/ DestroyQuit \/ DestroyWakeup \/ QuitUndefined \/ Join \/ DestroyMembers

ThreadStep ==
    \/ CountDown \/ ConstructLoop \/ Publish \/ ThreadEntersLoop
    \/ ClearLoop \/ Unlock \/ DestroyLoop

ThreadNext ==
    \/ Start
    \/ SpuriousWakeup
    \/ \E f \in Functors : OwnerQueues(f) \/ InitCallback(f)
    \/ Destroy
    \/ OwnerStep
    \/ ThreadStep
    \/ ThreadLoops

ThreadSpec == ThreadInit /\ [][ThreadNext]_allVars

\* Both threads are scheduled, and the loop does not stay in poll when its
\* eventfd is readable; the 10 s timeout is not relied on.
ThreadFairSpec ==
    /\ ThreadSpec
    /\ WF_allVars(OwnerStep)
    /\ WF_allVars(ThreadStep)
    /\ WF_allVars(threadPc = "loop" /\ LoopStep /\ UNCHANGED threadVars)

-----------------------------------------------------------------------------
\* The type of every variable of EventLoopThread; the mutex is held between two steps
\* only by the last block of threadFunc.
ThreadTypeOK ==
    /\ TypeOK
    /\ loop_ \in BOOLEAN
    /\ latch \in {0, 1}
    /\ holder_ \in {"none", "thread"}
    /\ alive \in BOOLEAN
    /\ ownerPc \in {"new", "latch", "lock", "waiting", "started", "quit", "wakeup",
                    "join", "members", "gone", "undefined"}
    /\ threadPc \in {"none", "created", "construct", "callback", "enter", "loop",
                     "unlock", "destroy", "finished"}
    /\ usage \in Usages

\* loop_ never dangles: whenever it is not nullptr the loop on the thread's stack
\* exists (threadFunc publishes it after its constructor and clears it before its
\* destructor, lines 55-72), and it is nullptr once the destructor (lines 25-33)
\* destroys the members, whether the destructor or a functor has stopped the loop.
\* The quit() that the destructor calls after its unlocked test of loop_ (lines 28-30)
\* begins on a published loop where no functor stops the loop by itself; and the rest
\* of it misses the loop only after loop() has returned.
PublishedLoopAlive ==
    /\ ThreadTypeOK
    /\ loop_ => alive
    /\ ownerPc \in {"members", "gone", "undefined"} => ~loop_
    /\ ownerPc = "quit" /\ "quitFunctor" \notin usage => loop_
    /\ ownerPc = "undefined" => pc = "idle" /\ quit_

\* The inductive strengthening of PublishedLoopAlive: what the members say as functions
\* of where the thread is, and how far the thread is once the owner knows of its loop.
HandOver ==
    /\ loop_ <=> threadPc \in {"enter", "loop"}
    /\ alive <=> threadPc \in {"callback", "enter", "loop", "unlock", "destroy"}
    /\ latch = IF threadPc \in {"none", "created"} THEN 1 ELSE 0
    /\ holder_ = IF threadPc = "unlock" THEN "thread" ELSE "none"
    /\ ownerPc = "new" => threadPc = "none"
    /\ ownerPc \in {"started", "quit", "wakeup", "join"} =>
           threadPc \in {"enter", "loop", "unlock", "destroy", "finished"}
    /\ ownerPc \in {"members", "gone"} =>
           threadPc \in {"none", "unlock", "destroy", "finished"}
    /\ ownerPc = "undefined" => threadPc \in {"unlock", "destroy", "finished"}

\* The owner's quit() is no longer to come.
AfterStore == {"wakeup", "join", "members", "gone", "undefined"}

\* loop() returns only for quit(), which is the owner's if no functor calls it.
LoopEndsByQuit ==
    /\ threadPc \in {"unlock", "destroy", "finished"} => pc = "idle" /\ quit_
    /\ threadPc = "loop" /\ pc = "idle" => quit_
    /\ "quitFunctor" \notin usage /\ quit_ => ownerPc \in AfterStore

\* startLoop returns (lines 35-51): neither the latch nor the condition variable
\* loses its notification.
StartLoopReturns == ownerPc = "latch" ~> ownerPc = "started"

\* The destructor of a started object returns: quit() ends the loop and the thread
\* can be joined, unless quit() has missed the loop.
DestructorReturns == ownerPc \in {"quit", "members"} ~> ownerPc \in {"gone", "undefined"}

=============================================================================
