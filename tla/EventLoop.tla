------------------------------ MODULE EventLoop ------------------------------
(***************************************************************************)
(* zing::net::EventLoop: one thread that polls, dispatches the active      *)
(* channels and runs the functors queued by any thread; other threads that *)
(* call queueInLoop / runInLoop / quit, each of which is two separate      *)
(* steps (change the shared state, then write to the eventfd).             *)
(*                                                                         *)
(* The mutex of the class protects only pendingFunctors_, so a critical    *)
(* section is one atomic step here.  callingPendingFunctors_ is read only  *)
(* by the loop thread (line 161 short-circuits in the others).             *)
(***************************************************************************)
EXTENDS Naturals, Sequences, FiniteSets

CONSTANTS
    Functors,     \* the callbacks that may be queued, each at most once
    Threads,      \* the threads other than the loop thread
    Channels,     \* the channels of the loop other than wakeupChannel_
    EventfdMax    \* the largest counter of an eventfd (2^64 - 2 in Linux)

VARIABLES
    looping_, quit_, eventHandling_, callingPendingFunctors_,
    pendingFunctors_,
    wakeupFd,         \* the counter of the eventfd behind wakeupFd_
    activeChannels_,  \* channels returned by poll and not yet dispatched
    ready,            \* channels of Channels whose descriptor has an event
    functors,         \* the local vector of doPendingFunctors, from the next one on
    pc,               \* where the loop thread is
    call,             \* where each other thread is
    ran,              \* history: the functors executed, oldest first
    early             \* history: functors queued by the loop thread outside loop()

flags == <<looping_, quit_, eventHandling_, callingPendingFunctors_>>
vars == <<looping_, quit_, eventHandling_, callingPendingFunctors_,
          pendingFunctors_, wakeupFd, activeChannels_, ready, functors, pc,
          call, ran, early>>

wakeupChannel_ == "wakeupChannel_"   \* differs from every member of Channels

ASSUME ChannelAssumption == wakeupChannel_ \notin Channels
ASSUME EventfdAssumption == EventfdMax \in Nat \ {0}

\* The counter after a nonblocking write of 1 to the eventfd: at its limit the
\* write fails with EAGAIN, which wakeup() only logs.
Written(n) == IF n < EventfdMax THEN n + 1 ELSE n

Elements(s) == {s[i] : i \in 1..Len(s)}

\* A functor that has not been handed to the loop yet.
Unused(f) ==
    f \notin Elements(pendingFunctors_) \cup Elements(functors) \cup Elements(ran)

-----------------------------------------------------------------------------
\* EventLoop::EventLoop
Init ==
    /\ looping_ = FALSE
    /\ quit_ = FALSE
    /\ eventHandling_ = FALSE
    /\ callingPendingFunctors_ = FALSE
    /\ pendingFunctors_ = <<>>
    /\ wakeupFd = 0
    /\ activeChannels_ = {}
    /\ ready = {}
    /\ functors = <<>>
    /\ pc = "idle"
    /\ call = [t \in Threads |-> "idle"]
    /\ ran = <<>>
    /\ early = {}

-----------------------------------------------------------------------------
(* Threads other than the loop thread.                                     *)

\* queueInLoop, and runInLoop which delegates to it: the critical section.
QueueInLoop(t, f) ==
    /\ call[t] = "idle"
    /\ Unused(f)
    /\ pendingFunctors_' = Append(pendingFunctors_, f)
    /\ call' = [call EXCEPT ![t] = "wakeup"]
    /\ UNCHANGED <<flags, wakeupFd, activeChannels_, ready, functors, pc, ran, early>>

\* quit() called outside the loop thread: the store to the atomic.
Quit(t) ==
    /\ call[t] = "idle"
    /\ quit_' = TRUE
    /\ call' = [call EXCEPT ![t] = "wakeup"]
    /\ UNCHANGED <<looping_, eventHandling_, callingPendingFunctors_, pendingFunctors_,
                   wakeupFd, activeChannels_, ready, functors, pc, ran, early>>

\* mutant of Wakeup: the write to the eventfd is forgotten
WakeupLost(t) ==
    /\ call[t] = "wakeup"
    /\ call' = [call EXCEPT ![t] = "idle"]
    /\ UNCHANGED <<flags, pendingFunctors_, wakeupFd, activeChannels_, ready,
                   functors, pc, ran, early>>

\* wakeup(): the write to the eventfd that ends queueInLoop and quit.
Wakeup(t) ==
    /\ call[t] = "wakeup"
    /\ wakeupFd' = Written(wakeupFd)
    /\ call' = [call EXCEPT ![t] = "idle"]
    /\ UNCHANGED <<flags, pendingFunctors_, activeChannels_, ready, functors,
                   pc, ran, early>>

\* The kernel marks the descriptor of a channel ready.
BecomeReady(c) ==
    /\ c \notin ready
    /\ ready' = ready \cup {c}
    /\ UNCHANGED <<flags, pendingFunctors_, wakeupFd, activeChannels_, functors,
                   pc, call, ran, early>>

-----------------------------------------------------------------------------
(* The loop thread.                                                        *)

\* loop(): its prologue
EnterLoop ==
    /\ pc = "idle"
    /\ looping_' = TRUE
    /\ quit_' = FALSE
    /\ pc' = "check"
    /\ UNCHANGED <<eventHandling_, callingPendingFunctors_, pendingFunctors_, wakeupFd,
                   activeChannels_, ready, functors, call, ran, early>>

\* while (!quit_): another iteration, or the end of loop()
CheckQuit ==
    /\ pc = "check"
    /\ pc' = IF quit_ THEN "idle" ELSE "poll"
    /\ looping_' = ~quit_
    /\ activeChannels_' = {}
    /\ UNCHANGED <<quit_, eventHandling_, callingPendingFunctors_, pendingFunctors_,
                   wakeupFd, ready, functors, call, ran, early>>

ActiveNow == ready \cup (IF wakeupFd > 0 THEN {wakeupChannel_} ELSE {})

\* poll() returns with events
Poll ==
    /\ pc = "poll"
    /\ ActiveNow # {}
    /\ activeChannels_' = ActiveNow
    /\ eventHandling_' = TRUE
    /\ pc' = "dispatch"
    /\ UNCHANGED <<looping_, quit_, callingPendingFunctors_, pendingFunctors_, wakeupFd,
                   ready, functors, call, ran, early>>

\* poll() returns without events: kPollTimeMs elapsed, or EINTR
PollTimeout ==
    /\ pc = "poll"
    /\ eventHandling_' = TRUE
    /\ pc' = "dispatch"
    /\ UNCHANGED <<looping_, quit_, callingPendingFunctors_, pendingFunctors_, wakeupFd,
                   activeChannels_, ready, functors, call, ran, early>>

\* handleRead(): the eventfd is drained (its whole counter at once)
HandleRead ==
    /\ pc = "dispatch"
    /\ wakeupChannel_ \in activeChannels_
    /\ activeChannels_' = activeChannels_ \ {wakeupChannel_}
    /\ wakeupFd' = 0
    /\ UNCHANGED <<flags, pendingFunctors_, ready, functors, pc, call, ran, early>>

\* handleEvent of another active channel: its callback starts
HandleEvent(c) ==
    /\ pc = "dispatch"
    /\ c \in activeChannels_
    /\ activeChannels_' = activeChannels_ \ {c}
    /\ ready' = ready \ {c}
    /\ pc' = "callback"
    /\ UNCHANGED <<flags, pendingFunctors_, wakeupFd, functors, call, ran, early>>

\* the for loop over activeChannels_ ends
EventsDone ==
    /\ pc = "dispatch"
    /\ activeChannels_ = {}
    /\ eventHandling_' = FALSE
    /\ pc' = "swap"
    /\ UNCHANGED <<looping_, quit_, callingPendingFunctors_, pendingFunctors_, wakeupFd,
                   activeChannels_, ready, functors, call, ran, early>>

\* mutant of TakePending: pendingFunctors_ is copied instead of swapped
TakePendingCopy ==
    /\ callingPendingFunctors_' = TRUE
    /\ functors' = pendingFunctors_
    /\ UNCHANGED pendingFunctors_

\* doPendingFunctors: set the flag, then swap the vectors under the mutex
TakePending ==
    /\ callingPendingFunctors_' = TRUE
    /\ functors' = pendingFunctors_
    /\ pendingFunctors_' = <<>>

SwapFunctors ==
    /\ pc = "swap"
    /\ TakePending
    /\ pc' = "functors"
    /\ UNCHANGED <<looping_, quit_, eventHandling_, wakeupFd, activeChannels_, ready,
                   call, ran, early>>

\* functor(): the next functor of the batch starts
RunFunctor ==
    /\ pc = "functors"
    /\ functors # <<>>
    /\ ran' = Append(ran, Head(functors))
    /\ functors' = Tail(functors)
    /\ pc' = "callback"
    /\ UNCHANGED <<flags, pendingFunctors_, wakeupFd, activeChannels_, ready, call, early>>

\* the batch is finished
FunctorsDone ==
    /\ pc = "functors"
    /\ functors = <<>>
    /\ callingPendingFunctors_' = FALSE
    /\ pc' = "check"
    /\ UNCHANGED <<looping_, quit_, eventHandling_, pendingFunctors_, wakeupFd,
                   activeChannels_, ready, functors, call, ran, early>>

-----------------------------------------------------------------------------
(* What the loop thread does inside a callback: the handler of a channel   *)
(* or a functor.  Outside loop() it may make the same calls (the set-up    *)
(* code before loop(), as in examples/echo/main.cpp).                      *)

InUserCode == pc \in {"callback", "idle"}

\* mutant of MustWakeup: only other threads write to the eventfd
MustWakeupNever == FALSE

\* the condition of line 161 when it is the loop thread that calls
MustWakeup == callingPendingFunctors_

\* queueInLoop in the loop thread
LoopQueueInLoop(f) ==
    /\ InUserCode
    /\ Unused(f)
    /\ pendingFunctors_' = Append(pendingFunctors_, f)
    /\ wakeupFd' = IF MustWakeup THEN Written(wakeupFd) ELSE wakeupFd
    /\ early' = IF pc = "idle" THEN early \cup {f} ELSE early
    /\ UNCHANGED <<flags, activeChannels_, ready, functors, pc, call, ran>>

\* runInLoop in the loop thread: cb() at once
LoopRunInLoop(f) ==
    /\ InUserCode
    /\ Unused(f)
    /\ ran' = Append(ran, f)
    /\ UNCHANGED <<flags, pendingFunctors_, wakeupFd, activeChannels_, ready,
                   functors, pc, call, early>>

\* quit in the loop thread
LoopQuit ==
    /\ InUserCode
    /\ quit_' = TRUE
    /\ UNCHANGED <<looping_, eventHandling_, callingPendingFunctors_, pendingFunctors_,
                   wakeupFd, activeChannels_, ready, functors, pc, call, ran, early>>

\* the callback returns to dispatch or to doPendingFunctors
CallbackReturn ==
    /\ pc = "callback"
    /\ pc' = IF callingPendingFunctors_ THEN "functors" ELSE "dispatch"
    /\ UNCHANGED <<flags, pendingFunctors_, wakeupFd, activeChannels_, ready,
                   functors, call, ran, early>>

-----------------------------------------------------------------------------
OtherThread(t) ==
    \/ \E f \in Functors : QueueInLoop(t, f)
    \/ Quit(t)
    \/ Wakeup(t)

\* The steps the loop thread takes by itself once it runs.
LoopStep ==
    \/ CheckQuit \/ Poll \/ HandleRead \/ EventsDone
    \/ SwapFunctors \/ RunFunctor \/ FunctorsDone \/ CallbackReturn
    \/ \E c \in Channels : HandleEvent(c)

UserCode ==
    \/ \E f \in Functors : LoopQueueInLoop(f) \/ LoopRunInLoop(f)
    \/ LoopQuit

Next ==
    \/ \E t \in Threads : OtherThread(t)
    \/ \E c \in Channels : BecomeReady(c)
    \/ EnterLoop
    \/ LoopStep
    \/ PollTimeout
    \/ UserCode

Spec == Init /\ [][Next]_vars

\* The scheduler runs every thread: the loop thread goes on (callbacks return,
\* epoll_wait reports a ready descriptor) and a call in progress reaches its
\* write.  Nothing makes a user call, an event or the 10 s timeout happen.
Fairness ==
    /\ WF_vars(LoopStep)
    /\ \A t \in Threads : WF_vars(Wakeup(t))

FairSpec == Spec /\ Fairness

-----------------------------------------------------------------------------
LoopPcs == {"idle", "check", "poll", "dispatch", "callback", "swap", "functors"}

\* The type of every variable of EventLoop, and the flags of the class as functions
\* of where the loop thread is.
TypeOK ==
    /\ looping_ \in BOOLEAN
    /\ quit_ \in BOOLEAN
    /\ eventHandling_ \in BOOLEAN
    /\ callingPendingFunctors_ \in BOOLEAN
    /\ pendingFunctors_ \in Seq(Functors)
    /\ wakeupFd \in 0..EventfdMax
    /\ activeChannels_ \subseteq Channels \cup {wakeupChannel_}
    /\ ready \subseteq Channels
    /\ functors \in Seq(Functors)
    /\ pc \in LoopPcs
    /\ call \in [Threads -> {"idle", "wakeup"}]
    /\ ran \in Seq(Functors)
    /\ early \subseteq Functors

\* The eventfd is readable, or some thread is on its way to write to it.
WakeupComing == wakeupFd > 0 \/ \E t \in Threads : call[t] = "wakeup"

\* While the loop thread blocks in poll, a functor that was queued by another
\* thread, or by the loop thread from inside loop(), has a wakeup on its way:
\* queueInLoop (lines 154-165) never leaves work that only the timeout finds.
NoLostFunctor ==
    pc = "poll" /\ (\E i \in 1..Len(pendingFunctors_) : pendingFunctors_[i] \notin early)
        => WakeupComing

\* While the loop thread blocks in poll, a quit() that it has not seen yet has
\* a wakeup on its way (lines 133-140).
NoLostQuit == pc = "poll" /\ quit_ => WakeupComing

\* The eventfd protocol as a whole: with a functor or a quit() pending, the loop
\* thread never blocks in poll without a wakeup on its way.
NoLostWakeup == NoLostFunctor /\ NoLostQuit

\* No functor is executed while the loop iterates over activeChannels_, and no
\* channel while it iterates over functors: the two phases never overlap, and a
\* batch is finished before the next one is taken (the vector of line 250 is local).
PhasesDisjoint ==
    /\ ~(eventHandling_ /\ callingPendingFunctors_)
    /\ functors # <<>> => callingPendingFunctors_
    /\ activeChannels_ # {} => eventHandling_
    /\ eventHandling_ \/ callingPendingFunctors_ => looping_

\* The loop executes functors as the abstract executor does: once each and in the
\* order of the calls, although they travel through two vectors.
Executor == INSTANCE LoopExecutor WITH queue <- functors \o pendingFunctors_

ExecutorSpec == Executor!Spec

\* A functor handed to a running loop is executed, without the help of the poll
\* timeout, unless the loop stops first.
FunctorsRun ==
    \A f \in Functors :
        (f \in Elements(pendingFunctors_) /\ f \notin early)
            ~> (f \in Elements(ran) \/ ~looping_)

\* quit() ends a loop() that is running, without the help of the poll timeout.
QuitEndsLoop == (looping_ /\ quit_) ~> ~looping_

\* The inductive strengthening of NoLostFunctor and NoLostQuit.  FlagsFollowPc ties
\* the flags to the phase; FunctorSignal extends NoLostFunctor to every point from
\* which the loop reaches poll before it swaps pendingFunctors_ again.
FlagsFollowPc ==
    /\ looping_ <=> pc # "idle"
    /\ pc = "dispatch" => eventHandling_
    /\ eventHandling_ => pc \in {"dispatch", "callback"}
    /\ pc = "functors" => callingPendingFunctors_
    /\ callingPendingFunctors_ => pc \in {"functors", "callback"}
    /\ pc = "callback" => eventHandling_ \/ callingPendingFunctors_

FunctorSignal ==
    /\ \/ pc \in {"idle", "check", "poll", "functors"}
       \/ pc = "callback" /\ callingPendingFunctors_
    /\ \E i \in 1..Len(pendingFunctors_) : pendingFunctors_[i] \notin early
    => WakeupComing

IInv ==
    /\ TypeOK
    /\ FlagsFollowPc
    /\ PhasesDisjoint
    /\ FunctorSignal
    /\ NoLostQuit

=============================================================================
