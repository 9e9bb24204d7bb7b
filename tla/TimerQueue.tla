----------------------------- MODULE TimerQueue -----------------------------
(***************************************************************************)
(* zing::net::TimerQueue with Timer, TimerId and the timerfd: timers kept  *)
(* in two sets, one timerfd armed for the earliest, callbacks that add and *)
(* cancel timers while a batch of expired ones runs, and another thread    *)
(* that adds and cancels through runInLoop.  The loop executes functors as *)
(* LoopExecutor promises (EventLoop implements it): first in, first out.   *)
(*                                                                         *)
(* Timers are real heap objects here: their addresses are reused, so that  *)
(* the sequence numbers have something to protect against.  Time is in     *)
(* ticks; one tick is more than the 100 us minimum of howMuchTimeFromNow.  *)
(***************************************************************************)
EXTENDS Integers, Sequences, FiniteSets

CONSTANTS
    Addrs,         \* the addresses `new Timer` may return
    MaxTimers,     \* bound: how many timers are ever created
    MaxNow,        \* bound: the wall clock stops here
    Delays,        \* runAt / runAfter: distances from now, in ticks
    Intervals      \* runEvery: positive intervals, in ticks

ASSUME BoundAssumption == MaxTimers \in Nat /\ MaxNow \in Nat \ {0}
ASSUME DelayAssumption == Delays \subseteq Nat /\ Intervals \subseteq Nat \ {0}
ASSUME AddrAssumption == Addrs \subseteq Nat

VARIABLES
    now,           \* Timestamp::now()
    heap,          \* the Timer objects: address -> [expiration, interval, sequence]
    numCreated,    \* Timer::s_numCreated_
    timers_, activeTimers_, callingExpiredTimers_, cancelingTimers_,
    remaining,     \* ticks until the timerfd expires; 0 when it is disarmed
    readable,      \* the timerfd has expired and has not been read
    polled,        \* poll reported the timerfd in this iteration
    expired,       \* the local vector of handleRead, and how much of it has run
    done,
    handleNow,     \* the local `now` of handleRead
    queue,         \* functors handed to the loop: <<"add", addr>> or <<"cancel", id>>
    left,          \* how many of them the batch of doPendingFunctors still has to run
    caller,        \* the timer whose addTimer another thread is in: {} or {<<addr, seq>>}
    ids,           \* history: the TimerIds returned
    cancelled,     \* history: timers that were queued or running when cancelInLoop was executed
    ran,           \* history: sequences whose callback has run
    clockSet,      \* history: the wall clock has been set back
    pc             \* the loop thread: poll, events, running, callback, functors, gone

sets == <<timers_, activeTimers_, cancelingTimers_>>
timerfd == <<remaining, readable>>
handling == <<expired, done, handleNow, callingExpiredTimers_>>
history == <<ids, cancelled, ran, clockSet>>
functors == <<queue, left>>
vars == <<now, heap, numCreated, timers_, activeTimers_, callingExpiredTimers_,
          cancelingTimers_, remaining, readable, polled, expired, done, handleNow,
          queue, left, caller, ids, cancelled, ran, clockSet, pc>>

Free == [expiration |-> 0, interval |-> 0, sequence |-> 0]
Live == {a \in Addrs : heap[a] # Free}

\* TimerQueue::TimerQueue, in the constructor of EventLoop
Init ==
    /\ now = 1
    /\ heap = [a \in Addrs |-> Free]
    /\ numCreated = 0
    /\ timers_ = {} /\ activeTimers_ = {} /\ cancelingTimers_ = {}
    /\ callingExpiredTimers_ = FALSE
    /\ remaining = 0 /\ readable = FALSE /\ polled = FALSE
    /\ expired = <<>> /\ done = 0 /\ handleNow = 0
    /\ queue = <<>> /\ left = 0
    /\ caller = {}
    /\ ids = {} /\ cancelled = {} /\ ran = {} /\ clockSet = FALSE
    /\ pc = "poll"

-----------------------------------------------------------------------------
\* Entry and ActiveTimer of the object at address a
Entry(a) == <<heap[a].expiration, a>>
ActiveTimer(a) == <<a, heap[a].sequence>>

\* operator< of std::pair<Timestamp, Timer*>
Before(e, f) == e[1] < f[1] \/ (e[1] = f[1] /\ e[2] < f[2])

Earliest(ts) == CHOOSE e \in ts : \A f \in ts : e = f \/ Before(e, f)

\* mutant of HowMuchTimeFromNow: without the 100 us minimum a timer that is due
\* asks for 0, which disarms the timerfd
HowMuchTimeNoMinimum(when) == IF when - now > 0 THEN when - now ELSE 0

\* howMuchTimeFromNow: a due timer is given the shortest positive time
HowMuchTimeFromNow(when) == IF when - now < 1 THEN 1 ELSE when - now

\* resetTimerfd: timerfd_settime also discards an expiration not yet read
ResetTimerfd(when) ==
    /\ remaining' = HowMuchTimeFromNow(when)
    /\ readable' = FALSE

\* insert(): whether the new entry is the earliest
EarliestChanged(ts, when) == ts = {} \/ when < Earliest(ts)[1]

\* addTimerInLoop: insert in both sets, arm the timerfd if it is the earliest
AddTimerInLoop(a, obj) ==
    /\ timers_' = timers_ \cup {<<obj.expiration, a>>}
    /\ activeTimers_' = activeTimers_ \cup {<<a, obj.sequence>>}
    /\ IF EarliestChanged(timers_, obj.expiration)
       THEN ResetTimerfd(obj.expiration)
       ELSE UNCHANGED timerfd
    /\ UNCHANGED cancelingTimers_

\* mutant of Found: the sequence number is not compared
FoundByAddress(id) == {t \in activeTimers_ : t[1] = id[1]}

\* activeTimers_.find(timer)
Found(id) == {t \in activeTimers_ : t = id}

\* the timers on their way to the loop
QueuedAdds == {queue[k][2] : k \in {k \in 1..Len(queue) : queue[k][1] = "add"}}

\* The timer that a cancel of id refers to, unless it has not reached the loop yet.
Named(id) == {heap[a].sequence : a \in {a \in Live \ QueuedAdds : ActiveTimer(a) = id}}

\* mutant of CancelInLoop: a timer of the running batch is not remembered
CancelInLoopForgets(id) ==
    /\ IF Found(id) # {}
       THEN /\ timers_' = timers_ \ {Entry(id[1])}
            /\ activeTimers_' = activeTimers_ \ Found(id)
            /\ heap' = [heap EXCEPT ![id[1]] = Free]
       ELSE UNCHANGED <<timers_, activeTimers_, heap>>
    /\ UNCHANGED cancelingTimers_
    /\ cancelled' = cancelled \cup Named(id)

\* mutant of CancelInLoop: the timer is erased and not deleted
CancelInLoopLeaks(id) ==
    /\ IF Found(id) # {}
       THEN /\ timers_' = timers_ \ {Entry(id[1])}
            /\ activeTimers_' = activeTimers_ \ Found(id)
            /\ UNCHANGED <<cancelingTimers_, heap>>
       ELSE /\ cancelingTimers_' = IF callingExpiredTimers_
                                   THEN cancelingTimers_ \cup {id} ELSE cancelingTimers_
            /\ UNCHANGED <<timers_, activeTimers_, heap>>
    /\ cancelled' = cancelled \cup Named(id)

\* cancelInLoop: erase and delete a queued timer; remember one that may be running
CancelInLoop(id) ==
    /\ IF Found(id) # {}
       THEN /\ timers_' = timers_ \ {Entry(id[1])}
            /\ activeTimers_' = activeTimers_ \ Found(id)
            /\ heap' = [heap EXCEPT ![id[1]] = Free]
            /\ UNCHANGED cancelingTimers_
       ELSE /\ cancelingTimers_' = IF callingExpiredTimers_
                                   THEN cancelingTimers_ \cup {id} ELSE cancelingTimers_
            /\ UNCHANGED <<timers_, activeTimers_, heap>>
    /\ cancelled' = cancelled \cup Named(id)

-----------------------------------------------------------------------------
(* Calls of addTimer (runAt, runAfter, runEvery) and cancel.               *)

\* `new Timer`: a free address and the next sequence number
NewTimer(d, i) ==
    [expiration |-> now + d, interval |-> i, sequence |-> numCreated + 1]

CanCreate(a) == numCreated < MaxTimers /\ a \in Addrs \ Live

InUserCode == pc \in {"events", "callback", "functors"}

\* addTimer in the loop thread, in the callback of a channel or of a timer or in a functor
LoopAddTimer(a, d, i) ==
    /\ InUserCode
    /\ CanCreate(a)
    /\ heap' = [heap EXCEPT ![a] = NewTimer(d, i)]
    /\ numCreated' = numCreated + 1
    /\ AddTimerInLoop(a, NewTimer(d, i))
    /\ ids' = ids \cup {<<a, numCreated + 1>>}
    /\ UNCHANGED <<now, polled, handling, functors, caller, cancelled, ran, clockSet, pc>>

\* cancel in the loop thread: executed at once, ahead of the queue
LoopCancel(id) ==
    /\ InUserCode
    /\ CancelInLoop(id)
    /\ UNCHANGED <<now, numCreated, timerfd, polled, handling, functors, caller, ids, ran, clockSet, pc>>

\* addTimer in another thread: the functor is queued ...
CallerAddTimer(a, d, i) ==
    /\ pc # "gone"
    /\ caller = {}
    /\ CanCreate(a)
    /\ heap' = [heap EXCEPT ![a] = NewTimer(d, i)]
    /\ numCreated' = numCreated + 1
    /\ queue' = Append(queue, <<"add", a>>)
    /\ caller' = {<<a, numCreated + 1>>}
    /\ UNCHANGED <<now, sets, timerfd, polled, handling, left, history, pc>>

\* ... and then the object is read for the TimerId.  If it has been deleted the
\* read is undefined behaviour: any number that was ever stored may come back.
CallerReturns(t) ==
    /\ pc # "gone"
    /\ t \in caller
    /\ \E s \in (IF heap[t[1]] = Free THEN 0..numCreated ELSE {heap[t[1]].sequence}) :
           ids' = ids \cup {<<t[1], s>>}
    /\ caller' = {}
    /\ UNCHANGED <<now, heap, numCreated, sets, timerfd, polled, handling, functors,
                   cancelled, ran, clockSet, pc>>

\* cancel in another thread, of a timer it holds an id of
CallerCancel(id) ==
    /\ pc # "gone"
    /\ caller = {}
    /\ <<"cancel", id>> \notin {queue[k] : k \in 1..Len(queue)}
    /\ id[2] \notin cancelled
    /\ queue' = Append(queue, <<"cancel", id>>)
    /\ UNCHANGED <<now, heap, numCreated, sets, timerfd, polled, handling, left, caller,
                   history, pc>>

-----------------------------------------------------------------------------
(* Time.                                                                   *)

Tick ==
    /\ pc # "gone"
    /\ now' = IF now < MaxNow THEN now + 1 ELSE now
    /\ remaining' = IF remaining > 0 THEN remaining - 1 ELSE 0
    /\ readable' = (readable \/ remaining = 1)
    /\ UNCHANGED <<heap, numCreated, sets, polled, handling, functors, caller, history, pc>>

\* settimeofday: the wall clock is set back, the timerfd (CLOCK_MONOTONIC) is not.
\* Bound: once.
SetClock ==
    /\ pc # "gone"
    /\ ~clockSet
    /\ clockSet' = TRUE
    /\ \E n \in 1..(now - 1) : now' = n
    /\ UNCHANGED <<heap, numCreated, sets, timerfd, polled, handling, functors, caller,
                   ids, cancelled, ran, pc>>

-----------------------------------------------------------------------------
(* The loop thread.                                                        *)

Poll ==
    /\ pc = "poll"
    /\ pc' = "events"
    /\ polled' = readable
    /\ UNCHANGED <<now, heap, numCreated, sets, timerfd, handling, functors, caller, history>>

\* the sequence of the entries of a set in the order of the std::set
SortedAddrs(ts) ==
    [k \in 1..Cardinality(ts) |->
        (CHOOSE e \in ts : Cardinality({f \in ts : Before(f, e)}) = k - 1)[2]]

\* the entries before lower_bound(now, UINTPTR_MAX)
Due(ts) == {e \in ts : e[1] <= now}

\* handleRead up to the loop over expired: read the timerfd, getExpired
HandleRead ==
    /\ pc = "events"
    /\ polled
    /\ polled' = FALSE
    /\ readable' = FALSE
    /\ expired' = SortedAddrs(Due(timers_))
    /\ timers_' = timers_ \ Due(timers_)
    /\ activeTimers_' = activeTimers_ \ {ActiveTimer(e[2]) : e \in Due(timers_)}
    /\ callingExpiredTimers_' = TRUE
    /\ cancelingTimers_' = {}
    /\ done' = 0
    /\ handleNow' = now
    /\ pc' = "running"
    /\ UNCHANGED <<now, heap, numCreated, remaining, functors, caller, history>>

\* it.second->run(): the next callback starts
RunTimer ==
    /\ pc = "running"
    /\ done < Len(expired)
    /\ ran' = ran \cup {heap[expired[done + 1]].sequence}
    /\ done' = done + 1
    /\ pc' = "callback"
    /\ UNCHANGED <<now, heap, numCreated, sets, timerfd, polled, expired, handleNow,
                   callingExpiredTimers_, functors, caller, ids, cancelled, clockSet>>

CallbackReturns ==
    /\ pc = "callback"
    /\ pc' = "running"
    /\ UNCHANGED <<now, heap, numCreated, sets, timerfd, polled, handling, functors,
                   caller, history>>

\* repeat() and not in cancelingTimers_
Restarted(a) == heap[a].interval > 0 /\ ActiveTimer(a) \notin cancelingTimers_

\* mutant of Rearm: the timerfd is armed for the earliest timer of the batch only
RearmBatch(ts, batch) ==
    IF ts \cap batch # {} THEN ResetTimerfd(Earliest(ts)[1]) ELSE UNCHANGED timerfd

\* the end of reset(): arm the timerfd for the earliest timer there is
Rearm(ts, batch) ==
    IF ts # {} /\ Earliest(ts)[1] > 0 THEN ResetTimerfd(Earliest(ts)[1]) ELSE UNCHANGED timerfd

\* the end of handleRead: reset() restarts or deletes each timer of the batch
Reset ==
    /\ pc = "running"
    /\ done = Len(expired)
    /\ LET batch == {expired[k] : k \in 1..Len(expired)}
           again == {a \in batch : Restarted(a)}
           entries == {<<handleNow + heap[a].interval, a>> : a \in again}
       IN  /\ heap' = [a \in Addrs |->
                          IF a \in again
                          THEN [heap[a] EXCEPT !.expiration = handleNow + heap[a].interval]
                          ELSE IF a \in batch THEN Free ELSE heap[a]]
           /\ timers_' = timers_ \cup entries
           /\ activeTimers_' = activeTimers_ \cup {ActiveTimer(a) : a \in again}
           /\ Rearm(timers_ \cup entries, entries)
    /\ callingExpiredTimers_' = FALSE
    /\ expired' = <<>> /\ done' = 0 /\ handleNow' = 0
    /\ pc' = "events"
    /\ UNCHANGED <<now, numCreated, cancelingTimers_, polled, functors, caller, history>>

\* doPendingFunctors begins: it takes the functors queued so far
EventsDone ==
    /\ pc = "events"
    /\ ~polled
    /\ pc' = "functors"
    /\ left' = Len(queue)
    /\ UNCHANGED <<now, heap, numCreated, sets, timerfd, polled, handling, queue,
                   caller, history>>

\* doPendingFunctors: the next functor of the batch, which is what the queue held
\* when the vectors were swapped
RunFunctor ==
    /\ pc = "functors"
    /\ left > 0
    /\ left' = left - 1
    /\ queue' = Tail(queue)
    /\ \/ /\ Head(queue)[1] = "add"
          /\ AddTimerInLoop(Head(queue)[2], heap[Head(queue)[2]])
          /\ UNCHANGED <<heap, cancelled>>
       \/ /\ Head(queue)[1] = "cancel"
          /\ CancelInLoop(Head(queue)[2])
          /\ UNCHANGED timerfd
    /\ UNCHANGED <<now, numCreated, polled, handling, caller, ids, ran, clockSet, pc>>

FunctorsDone ==
    /\ pc = "functors"
    /\ left = 0
    /\ pc' = "poll"
    /\ UNCHANGED <<now, heap, numCreated, sets, timerfd, polled, handling, functors,
                   caller, history>>

\* ~TimerQueue, after loop() has returned: the queued timers are deleted
Destroy ==
    /\ pc = "functors"
    /\ left = 0
    /\ heap' = [a \in Addrs |-> IF a \in {e[2] : e \in timers_} THEN Free ELSE heap[a]]
    /\ timers_' = {} /\ activeTimers_' = {}
    /\ remaining' = 0 /\ readable' = FALSE
    /\ pc' = "gone"
    /\ UNCHANGED <<now, numCreated, cancelingTimers_, polled, handling, functors, caller,
                   history>>

-----------------------------------------------------------------------------
UserCalls ==
    \/ \E a \in Addrs, d \in Delays :
           LoopAddTimer(a, d, 0) \/ CallerAddTimer(a, d, 0)
    \/ \E a \in Addrs, i \in Intervals :
           LoopAddTimer(a, i, i) \/ CallerAddTimer(a, i, i)
    \/ \E id \in ids : LoopCancel(id) \/ CallerCancel(id)

CallerStep == \E t \in caller : CallerReturns(t)

LoopStep ==
    \/ Poll \/ HandleRead \/ RunTimer \/ CallbackReturns \/ Reset
    \/ EventsDone \/ RunFunctor \/ FunctorsDone

Next ==
    \/ UserCalls \/ CallerStep \/ Tick \/ SetClock
    \/ LoopStep
    \/ Destroy

Spec == Init /\ [][Next]_vars

\* Time passes, the loop thread and the callers run; nobody has to call anything.
FairSpec ==
    /\ Spec
    /\ WF_vars(Tick)
    /\ WF_vars(LoopStep)
    /\ WF_vars(CallerStep)

-----------------------------------------------------------------------------
Batch == {expired[k] : k \in 1..Len(expired)}

\* Types of the variables; an address is a natural number so that entries are ordered.
TypeOK ==
    /\ now \in 1..MaxNow
    /\ numCreated \in 0..MaxTimers
    /\ \A a \in Addrs : heap[a].sequence \in 0..numCreated
    /\ timers_ \subseteq Nat \X Addrs
    /\ activeTimers_ \subseteq Addrs \X (1..MaxTimers)
    /\ cancelingTimers_ \subseteq Addrs \X (0..MaxTimers)
    /\ callingExpiredTimers_ \in BOOLEAN
    /\ remaining \in Nat
    /\ readable \in BOOLEAN
    /\ expired \in Seq(Addrs)
    /\ pc \in {"poll", "events", "running", "callback", "functors", "gone"}

\* timers_ and activeTimers_ always hold the same timers, each under the expiration
\* and the sequence stored in the object: what the asserts on sizes, on erase (n == 1)
\* and on insert (result.second) of lines 142-156, 181-197 and 234-253 rely on.
SetsAgree ==
    /\ {e[2] : e \in timers_} = {t[1] : t \in activeTimers_}
    /\ \A e \in timers_ : e = Entry(e[2])
    /\ \A t \in activeTimers_ : t = ActiveTimer(t[1])

\* Every Timer object is owned exactly once, by the queue, by the batch being run or
\* by a functor on its way to the loop: none leaks, none is deleted twice or used by
\* the loop after its deletion (lines 116-118, 149, 188, 212-216).
OwnedOnce ==
    LET queued == {e[2] : e \in timers_}
    IN  /\ Live = queued \cup Batch \cup QueuedAdds
        /\ queued \cap Batch = {} /\ queued \cap QueuedAdds = {} /\ Batch \cap QueuedAdds = {}
        /\ \A j, k \in 1..Len(expired) : expired[j] = expired[k] => j = k

\* The containers of the queue, the batch and the functors agree on the Timer objects.
InStep == TypeOK /\ SetsAgree /\ OwnedOnce

\* No timer is forgotten: outside handleRead, a queue that is not empty has its
\* timerfd armed, expired or about to be handled, and (unless somebody has set the
\* clock back) it expires no later than the earliest timer, or in the minimum delay.
Armed ==
    pc \in {"poll", "events", "functors"} /\ timers_ # {} =>
        \/ readable \/ polled
        \/ /\ remaining > 0
           /\ clockSet \/ remaining <= HowMuchTimeFromNow(Earliest(timers_)[1])

\* A timer is neither lost nor resurrected: each one created is still there, or was
\* cancelled, or was a one-shot timer that ran.  The id of a timer that is gone never
\* cancels another one that has its address (lines 143-151).
NoTimerLost ==
    pc # "gone" =>
        \A s \in 1..numCreated :
            s \in {heap[a].sequence : a \in Live} \cup cancelled \cup ran

\* Once cancelInLoop has been executed on a timer that has reached the loop, the timer
\* is not queued again: it can run once more only as a member of the batch in progress
\* (lines 152-155, 208-209).
CancelledNotQueued == \A t \in activeTimers_ : t[2] \notin cancelled

\* A timer that is due runs, is cancelled or sees the end of the queue.
DueTimersRun ==
    \A s \in 1..MaxTimers :
        (\E a \in Addrs : heap[a].sequence = s /\ heap[a].expiration <= now)
            ~> (s \in ran \cup cancelled \/ pc = "gone")

=============================================================================
