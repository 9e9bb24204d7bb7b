--------------------------- MODULE EventLoopProofs ---------------------------
(***************************************************************************)
(* TLAPS proofs about EventLoop, for any sets of functors, threads and     *)
(* channels and any eventfd limit, and about the hand-over of the loop in  *)
(* EventLoopThread, for any usage.                                         *)
(***************************************************************************)
EXTENDS EventLoopThread, SequenceTheorems, TLAPS

\* An element of s is still there, at its place, after Append(s, e).
LEMMA AppendElements ==
  ASSUME NEW S, NEW s \in Seq(S), NEW e \in S
  PROVE  /\ Append(s, e) \in Seq(S)
         /\ Len(Append(s, e)) = Len(s) + 1
         /\ \A i \in 1..Len(s) : Append(s, e)[i] = s[i]
         /\ Append(s, e)[Len(s) + 1] = e
  OBVIOUS

\* What Head and Tail of a non-empty sequence are.
LEMMA HeadTail ==
  ASSUME NEW S, NEW s \in Seq(S), s # <<>>
  PROVE  Head(s) \in S /\ Tail(s) \in Seq(S)
  OBVIOUS

\* After wakeup() the eventfd is readable, also if its counter was at the limit.
LEMMA WrittenPositive ==
  ASSUME NEW n \in 0..EventfdMax
  PROVE  Written(n) \in 0..EventfdMax /\ Written(n) > 0
  BY EventfdAssumption DEF Written

\* The initial state satisfies the inductive invariant.
LEMMA InitIInv == Init => IInv
<1> SUFFICES ASSUME Init PROVE IInv
  OBVIOUS
<1>1. TypeOK
  <2>1. /\ looping_ \in BOOLEAN
        /\ quit_ \in BOOLEAN
        /\ eventHandling_ \in BOOLEAN
        /\ callingPendingFunctors_ \in BOOLEAN
    BY Zenon DEF Init
  <2>2. wakeupFd \in 0..EventfdMax
    BY EventfdAssumption DEF Init
  <2>3. pendingFunctors_ \in Seq(Functors) /\ functors \in Seq(Functors) /\ ran \in Seq(Functors)
    BY DEF Init
  <2>4. call \in [Threads -> {"idle", "wakeup"}]
    BY DEF Init
  <2> QED
    BY <2>1, <2>2, <2>3, <2>4 DEF Init, TypeOK, LoopPcs
<1>2. FlagsFollowPc
  BY DEF Init, FlagsFollowPc
<1>3. PhasesDisjoint
  BY DEF Init, PhasesDisjoint
<1>4. FunctorSignal /\ NoLostQuit
  BY DEF Init, FunctorSignal, NoLostQuit
<1> QED BY <1>1, <1>2, <1>3, <1>4 DEF IInv

\* Every step preserves the inductive invariant.
LEMMA NextIInv == IInv /\ [Next]_vars => IInv'
<1> SUFFICES ASSUME IInv, [Next]_vars PROVE IInv'
  OBVIOUS
<1> USE DEF IInv, flags
<1>1. ASSUME NEW t \in Threads, NEW f \in Functors, QueueInLoop(t, f) PROVE IInv'
  <2>1. TypeOK'
    BY <1>1, AppendElements, EventfdAssumption DEF QueueInLoop, TypeOK, LoopPcs
  <2>2. FlagsFollowPc' /\ PhasesDisjoint'
    BY <1>1 DEF QueueInLoop, TypeOK, FlagsFollowPc, PhasesDisjoint
  <2>3. FunctorSignal' /\ NoLostQuit'
    BY <1>1, AppendElements DEF QueueInLoop, TypeOK, FlagsFollowPc, FunctorSignal, NoLostQuit, WakeupComing
  <2> QED BY <2>1, <2>2, <2>3
<1>2. ASSUME NEW t \in Threads, Quit(t) PROVE IInv'
  <2>1. TypeOK'
    BY <1>2, EventfdAssumption DEF Quit, TypeOK, LoopPcs
  <2>2. FlagsFollowPc' /\ PhasesDisjoint'
    BY <1>2 DEF Quit, TypeOK, FlagsFollowPc, PhasesDisjoint
  <2>3. FunctorSignal' /\ NoLostQuit'
    BY <1>2 DEF Quit, TypeOK, FlagsFollowPc, FunctorSignal, NoLostQuit, WakeupComing
  <2> QED BY <2>1, <2>2, <2>3
<1>3. ASSUME NEW t \in Threads, Wakeup(t) PROVE IInv'
  <2>1. TypeOK'
    BY <1>3, WrittenPositive, EventfdAssumption DEF Wakeup, TypeOK, LoopPcs
  <2>2. FlagsFollowPc' /\ PhasesDisjoint'
    BY <1>3 DEF Wakeup, TypeOK, FlagsFollowPc, PhasesDisjoint
  <2>3. FunctorSignal' /\ NoLostQuit'
    BY <1>3, WrittenPositive DEF Wakeup, TypeOK, FlagsFollowPc, FunctorSignal, NoLostQuit, WakeupComing
  <2> QED BY <2>1, <2>2, <2>3
<1>4. ASSUME NEW c \in Channels, BecomeReady(c) PROVE IInv'
  <2>1. TypeOK'
    BY <1>4, EventfdAssumption DEF BecomeReady, TypeOK, LoopPcs
  <2>2. FlagsFollowPc' /\ PhasesDisjoint'
    BY <1>4 DEF BecomeReady, TypeOK, FlagsFollowPc, PhasesDisjoint
  <2>3. FunctorSignal' /\ NoLostQuit'
    BY <1>4 DEF BecomeReady, TypeOK, FlagsFollowPc, FunctorSignal, NoLostQuit, WakeupComing
  <2> QED BY <2>1, <2>2, <2>3
<1>5. CASE EnterLoop
  <2>1. TypeOK'
    BY <1>5, EventfdAssumption DEF EnterLoop, TypeOK, LoopPcs
  <2>2. FlagsFollowPc' /\ PhasesDisjoint'
    BY <1>5 DEF EnterLoop, TypeOK, FlagsFollowPc, PhasesDisjoint
  <2>3. FunctorSignal' /\ NoLostQuit'
    BY <1>5 DEF EnterLoop, TypeOK, FlagsFollowPc, FunctorSignal, NoLostQuit, WakeupComing
  <2> QED BY <2>1, <2>2, <2>3
<1>6. CASE CheckQuit
  <2>1. TypeOK'
    BY <1>6, EventfdAssumption DEF CheckQuit, TypeOK, LoopPcs
  <2>2. FlagsFollowPc' /\ PhasesDisjoint'
    BY <1>6 DEF CheckQuit, TypeOK, FlagsFollowPc, PhasesDisjoint
  <2>3. FunctorSignal' /\ NoLostQuit'
    BY <1>6 DEF CheckQuit, TypeOK, FlagsFollowPc, FunctorSignal, NoLostQuit, WakeupComing
  <2> QED BY <2>1, <2>2, <2>3
<1>7. CASE Poll
  <2>1. TypeOK'
    BY <1>7, EventfdAssumption DEF Poll, ActiveNow, TypeOK, LoopPcs
  <2>2. FlagsFollowPc' /\ PhasesDisjoint'
    BY <1>7 DEF Poll, ActiveNow, TypeOK, FlagsFollowPc, PhasesDisjoint
  <2>3. FunctorSignal' /\ NoLostQuit'
    BY <1>7 DEF Poll, ActiveNow, TypeOK, FlagsFollowPc, FunctorSignal, NoLostQuit, WakeupComing
  <2> QED BY <2>1, <2>2, <2>3
<1>8. CASE PollTimeout
  <2>1. TypeOK'
    BY <1>8, EventfdAssumption DEF PollTimeout, TypeOK, LoopPcs
  <2>2. FlagsFollowPc' /\ PhasesDisjoint'
    BY <1>8 DEF PollTimeout, TypeOK, FlagsFollowPc, PhasesDisjoint
  <2>3. FunctorSignal' /\ NoLostQuit'
    BY <1>8 DEF PollTimeout, TypeOK, FlagsFollowPc, FunctorSignal, NoLostQuit, WakeupComing
  <2> QED BY <2>1, <2>2, <2>3
<1>9. CASE HandleRead
  <2>1. TypeOK'
    BY <1>9, EventfdAssumption DEF HandleRead, TypeOK, LoopPcs
  <2>2. FlagsFollowPc' /\ PhasesDisjoint'
    BY <1>9 DEF HandleRead, TypeOK, FlagsFollowPc, PhasesDisjoint
  <2>3. FunctorSignal' /\ NoLostQuit'
    BY <1>9 DEF HandleRead, TypeOK, FlagsFollowPc, FunctorSignal, NoLostQuit, WakeupComing
  <2> QED BY <2>1, <2>2, <2>3
<1>10. ASSUME NEW c \in Channels, HandleEvent(c) PROVE IInv'
  <2>1. TypeOK'
    BY <1>10, EventfdAssumption DEF HandleEvent, TypeOK, LoopPcs
  <2>2. FlagsFollowPc' /\ PhasesDisjoint'
    BY <1>10 DEF HandleEvent, TypeOK, FlagsFollowPc, PhasesDisjoint
  <2>3. FunctorSignal' /\ NoLostQuit'
    BY <1>10 DEF HandleEvent, TypeOK, FlagsFollowPc, FunctorSignal, NoLostQuit, WakeupComing
  <2> QED BY <2>1, <2>2, <2>3
<1>11. CASE EventsDone
  <2>1. TypeOK'
    BY <1>11, EventfdAssumption DEF EventsDone, TypeOK, LoopPcs
  <2>2. FlagsFollowPc' /\ PhasesDisjoint'
    BY <1>11 DEF EventsDone, TypeOK, FlagsFollowPc, PhasesDisjoint
  <2>3. FunctorSignal' /\ NoLostQuit'
    BY <1>11 DEF EventsDone, TypeOK, FlagsFollowPc, FunctorSignal, NoLostQuit, WakeupComing
  <2> QED BY <2>1, <2>2, <2>3
<1>12. CASE SwapFunctors
  <2>1. TypeOK'
    BY <1>12, EventfdAssumption DEF SwapFunctors, TakePending, TypeOK, LoopPcs
  <2>2. FlagsFollowPc' /\ PhasesDisjoint'
    BY <1>12 DEF SwapFunctors, TakePending, TypeOK, FlagsFollowPc, PhasesDisjoint
  <2>3. FunctorSignal' /\ NoLostQuit'
    BY <1>12 DEF SwapFunctors, TakePending, TypeOK, FlagsFollowPc, FunctorSignal, NoLostQuit, WakeupComing
  <2> QED BY <2>1, <2>2, <2>3
<1>13. CASE RunFunctor
  <2>1. TypeOK'
    BY <1>13, HeadTail, EventfdAssumption DEF RunFunctor, TypeOK, LoopPcs
  <2>2. FlagsFollowPc' /\ PhasesDisjoint'
    BY <1>13 DEF RunFunctor, TypeOK, FlagsFollowPc, PhasesDisjoint
  <2>3. FunctorSignal' /\ NoLostQuit'
    BY <1>13, HeadTail DEF RunFunctor, TypeOK, FlagsFollowPc, FunctorSignal, NoLostQuit, WakeupComing
  <2> QED BY <2>1, <2>2, <2>3
<1>14. CASE FunctorsDone
  <2>1. TypeOK'
    BY <1>14, EventfdAssumption DEF FunctorsDone, TypeOK, LoopPcs
  <2>2. FlagsFollowPc' /\ PhasesDisjoint'
    BY <1>14 DEF FunctorsDone, TypeOK, FlagsFollowPc, PhasesDisjoint
  <2>3. FunctorSignal' /\ NoLostQuit'
    BY <1>14 DEF FunctorsDone, TypeOK, FlagsFollowPc, FunctorSignal, NoLostQuit, WakeupComing
  <2> QED BY <2>1, <2>2, <2>3
<1>15. CASE CallbackReturn
  <2>1. TypeOK'
    BY <1>15, EventfdAssumption DEF CallbackReturn, TypeOK, LoopPcs
  <2>2. FlagsFollowPc' /\ PhasesDisjoint'
    BY <1>15 DEF CallbackReturn, TypeOK, FlagsFollowPc, PhasesDisjoint
  <2>3. FunctorSignal' /\ NoLostQuit'
    BY <1>15 DEF CallbackReturn, TypeOK, FlagsFollowPc, FunctorSignal, NoLostQuit, WakeupComing
  <2> QED BY <2>1, <2>2, <2>3
<1>16. ASSUME NEW f \in Functors, LoopQueueInLoop(f) PROVE IInv'
  <2>1. TypeOK'
    BY <1>16, AppendElements, WrittenPositive, EventfdAssumption DEF LoopQueueInLoop, InUserCode, MustWakeup, TypeOK, LoopPcs
  <2>2. FlagsFollowPc' /\ PhasesDisjoint'
    BY <1>16 DEF LoopQueueInLoop, InUserCode, MustWakeup, TypeOK, FlagsFollowPc, PhasesDisjoint
  <2>3. FunctorSignal' /\ NoLostQuit'
    <3>1. CASE callingPendingFunctors_
      <4>1. wakeupFd' > 0
        BY <1>16, <3>1, WrittenPositive DEF LoopQueueInLoop, MustWakeup, TypeOK
      <4> QED BY <4>1 DEF FunctorSignal, NoLostQuit, WakeupComing
    <3>2. CASE ~callingPendingFunctors_ /\ pc = "idle"
      <4>1. UNCHANGED <<pc, wakeupFd, call>>
        BY <1>16, <3>2 DEF LoopQueueInLoop, MustWakeup
      <4>2. ASSUME NEW i \in 1..Len(pendingFunctors_'), pendingFunctors_'[i] \notin early'
            PROVE  i \in 1..Len(pendingFunctors_) /\ pendingFunctors_[i] \notin early
        <5>1. /\ pendingFunctors_' = Append(pendingFunctors_, f)
              /\ early' = early \cup {f}
          BY <1>16, <3>2 DEF LoopQueueInLoop
        <5> QED BY <4>2, <5>1, AppendElements DEF TypeOK
      <4> QED BY <3>2, <4>1, <4>2 DEF FunctorSignal, NoLostQuit, WakeupComing
    <3>3. CASE ~callingPendingFunctors_ /\ pc = "callback"
      BY <1>16, <3>3 DEF LoopQueueInLoop, FunctorSignal, NoLostQuit
    <3> QED BY <1>16, <3>1, <3>2, <3>3 DEF LoopQueueInLoop, InUserCode, TypeOK
  <2> QED BY <2>1, <2>2, <2>3
<1>17. ASSUME NEW f \in Functors, LoopRunInLoop(f) PROVE IInv'
  <2>1. TypeOK'
    BY <1>17, AppendElements, EventfdAssumption DEF LoopRunInLoop, InUserCode, TypeOK, LoopPcs
  <2>2. FlagsFollowPc' /\ PhasesDisjoint'
    BY <1>17 DEF LoopRunInLoop, InUserCode, TypeOK, FlagsFollowPc, PhasesDisjoint
  <2>3. FunctorSignal' /\ NoLostQuit'
    BY <1>17, AppendElements DEF LoopRunInLoop, InUserCode, TypeOK, FlagsFollowPc, FunctorSignal, NoLostQuit, WakeupComing
  <2> QED BY <2>1, <2>2, <2>3
<1>18. CASE LoopQuit
  <2>1. TypeOK'
    BY <1>18, EventfdAssumption DEF LoopQuit, InUserCode, TypeOK, LoopPcs
  <2>2. FlagsFollowPc' /\ PhasesDisjoint'
    BY <1>18 DEF LoopQuit, InUserCode, TypeOK, FlagsFollowPc, PhasesDisjoint
  <2>3. FunctorSignal' /\ NoLostQuit'
    BY <1>18 DEF LoopQuit, InUserCode, TypeOK, FlagsFollowPc, FunctorSignal, NoLostQuit, WakeupComing
  <2> QED BY <2>1, <2>2, <2>3
<1>19. CASE UNCHANGED vars
  BY <1>19 DEF vars, TypeOK, FlagsFollowPc, PhasesDisjoint, FunctorSignal, NoLostQuit, WakeupComing
<1> QED
  BY <1>1, <1>2, <1>3, <1>4, <1>5, <1>6, <1>7, <1>8, <1>9, <1>10, <1>11, <1>12, <1>13, <1>14, <1>15, <1>16, <1>17, <1>18, <1>19
  DEF Next, OtherThread, LoopStep, UserCode

\* The inductive invariant holds in every reachable state.
LEMMA IInvInvariant == Spec => []IInv
  BY InitIInv, NextIInv, PTL DEF Spec

\* Every variable of the loop keeps its type: in particular the eventfd counter
\* never passes its limit, whatever the number of wakeups.
THEOREM EventLoopTypeOK == Spec => []TypeOK
  BY IInvInvariant, PTL DEF IInv

\* queueInLoop never leaves a functor behind in a blocked loop (lines 154-165),
\* for any number of threads calling it, runInLoop and quit.
THEOREM EventLoopNoLostFunctor == Spec => []NoLostFunctor
<1>1. IInv => NoLostFunctor
  BY DEF IInv, FunctorSignal, NoLostFunctor
<1> QED BY <1>1, IInvInvariant, PTL

\* quit() is never left unnoticed by a blocked loop (lines 133-140).
THEOREM EventLoopNoLostQuit == Spec => []NoLostQuit
  BY IInvInvariant, PTL DEF IInv

\* Both together: the eventfd protocol loses no wakeup (lines 133-140, 154-165, 226-245).
THEOREM EventLoopNoLostWakeup == Spec => []NoLostWakeup
  BY EventLoopNoLostFunctor, EventLoopNoLostQuit, PTL DEF NoLostWakeup

\* Channels and functors are handled in separate phases (lines 109-123, 248-261).
THEOREM EventLoopPhasesDisjoint == Spec => []PhasesDisjoint
  BY IInvInvariant, PTL DEF IInv

-----------------------------------------------------------------------------
(* The refinement of LoopExecutor: queue is what is left of the batch      *)
(* followed by pendingFunctors_.                                           *)

\* Appending to the second part of a concatenation appends to the whole.
LEMMA ConcatAppend ==
  ASSUME NEW S, NEW s \in Seq(S), NEW u \in Seq(S), NEW e \in S
  PROVE  s \o Append(u, e) = Append(s \o u, e)
  OBVIOUS

\* The head of the first part is the head of the whole.
LEMMA ConcatHeadTail ==
  ASSUME NEW S, NEW s \in Seq(S), NEW u \in Seq(S), s # <<>>
  PROVE  /\ s \o u # <<>>
         /\ Head(s \o u) = Head(s)
         /\ Tail(s \o u) = Tail(s) \o u
  OBVIOUS

\* Concatenation with the empty sequence, on either side.
LEMMA ConcatEmptyBoth ==
  ASSUME NEW S, NEW s \in Seq(S)
  PROVE  s \o <<>> = s /\ <<>> \o s = s
  OBVIOUS

\* Every step of the loop and its callers is a step of the executor or hides it.
LEMMA NextExecutor == IInv /\ [Next]_vars => [Executor!Next]_(Executor!vars)
<1> SUFFICES ASSUME IInv, [Next]_vars
             PROVE  Executor!Next \/ UNCHANGED <<functors \o pendingFunctors_, ran>>
  BY DEF Executor!vars
<1> USE DEF flags
<1>0. functors \in Seq(Functors) /\ pendingFunctors_ \in Seq(Functors)
  BY DEF IInv, TypeOK
<1>1. ASSUME NEW f \in Functors, pendingFunctors_' = Append(pendingFunctors_, f),
             UNCHANGED <<functors, ran>>
      PROVE  Executor!Submit
  BY <1>0, <1>1, ConcatAppend DEF Executor!Submit
<1>2. ASSUME NEW t \in Threads, NEW f \in Functors, QueueInLoop(t, f)
      PROVE  Executor!Submit
  BY <1>1, <1>2 DEF QueueInLoop
<1>3. ASSUME NEW f \in Functors, LoopQueueInLoop(f) PROVE Executor!Submit
  BY <1>1, <1>3 DEF LoopQueueInLoop
<1>4. ASSUME NEW f \in Functors, LoopRunInLoop(f) PROVE Executor!ExecuteNow
  BY <1>4 DEF LoopRunInLoop, Executor!ExecuteNow
<1>5. CASE RunFunctor
  BY <1>0, <1>5, ConcatHeadTail DEF RunFunctor, Executor!Next, Executor!Execute
<1>6. CASE SwapFunctors
  <2>1. functors = <<>>
    BY <1>6 DEF SwapFunctors, IInv, FlagsFollowPc, PhasesDisjoint
  <2>2. functors' = pendingFunctors_ /\ pendingFunctors_' = <<>> /\ ran' = ran
    BY <1>6 DEF SwapFunctors, TakePending
  <2> QED BY <1>0, <2>1, <2>2, ConcatEmptyBoth
<1>7. CASE UNCHANGED <<functors, pendingFunctors_, ran>>
  BY <1>7
<1> QED
  BY <1>2, <1>3, <1>4, <1>5, <1>6, <1>7
  DEF Next, OtherThread, LoopStep, UserCode, vars, Executor!Next, Quit, Wakeup,
      BecomeReady, EnterLoop, CheckQuit, Poll, PollTimeout, HandleRead, HandleEvent,
      EventsDone, FunctorsDone, CallbackReturn, LoopQuit

\* The loop implements LoopExecutor: each functor handed over from any thread is
\* executed at most once and in the order of the calls.
THEOREM EventLoopRefinesExecutor == Spec => ExecutorSpec
<1>1. Init => Executor!Init
  BY ConcatEmptyBoth DEF Init, Executor!Init
<1> QED
  BY <1>1, IInvInvariant, NextExecutor, PTL DEF Spec, ExecutorSpec, Executor!Spec

-----------------------------------------------------------------------------
(* EventLoopThread.                                                        *)

\* The steps of the two threads are steps of the loop, or leave it alone.
LEMMA ThreadNextIsNext ==
    ASSUME ThreadNext
    PROVE  [Next]_vars
<1> USE OwnerAssumption
<1>1. ASSUME NEW f \in Functors, OwnerQueues(f) \/ InitCallback(f) PROVE [Next]_vars
  BY <1>1 DEF OwnerQueues, InitCallback, Next, OtherThread, UserCode
<1>2. CASE DestroyQuit \/ DestroyWakeup \/ OwnerWakesUp
  BY <1>2 DEF DestroyQuit, DestroyWakeup, OwnerWakesUp, Next, OtherThread
<1>3. CASE ThreadEntersLoop \/ ThreadLoops
  BY <1>3 DEF ThreadEntersLoop, ThreadLoops, Next, UserCode
<1>4. CASE \/ Start \/ SpuriousWakeup \/ Destroy
           \/ LatchWait \/ WaitForLoop \/ QuitUndefined \/ Join \/ DestroyMembers
           \/ CountDown \/ ConstructLoop \/ Publish \/ ClearLoop \/ Unlock \/ DestroyLoop
  BY <1>4 DEF Start, SpuriousWakeup, Destroy, LatchWait, WaitForLoop, QuitUndefined, Join,
     DestroyMembers, CountDown, ConstructLoop, Publish, ClearLoop, Unlock, DestroyLoop, loopVars
<1> QED BY <1>1, <1>2, <1>3, <1>4 DEF ThreadNext, OwnerStep, ThreadStep

\* The types of the variables of the hand-over.
MembersType ==
    /\ loop_ \in BOOLEAN /\ alive \in BOOLEAN
    /\ latch \in {0, 1} /\ holder_ \in {"none", "thread"}
    /\ ownerPc \in {"new", "latch", "lock", "waiting", "started", "quit", "wakeup",
                    "join", "members", "gone", "undefined"}
    /\ threadPc \in {"none", "created", "construct", "callback", "enter", "loop",
                     "unlock", "destroy", "finished"}
    /\ usage \in Usages

\* A step of the owner preserves the invariant of the hand-over.
LEMMA OwnerHandOver ==
    ASSUME MembersType, HandOver, Start \/ SpuriousWakeup \/ Destroy \/ OwnerStep
    PROVE  (MembersType /\ HandOver)'
<1> USE DEF MembersType, HandOver
<1>1. CASE Start
  BY <1>1 DEF Start
<1>2. CASE SpuriousWakeup \/ LatchWait \/ WaitForLoop
  BY <1>2 DEF SpuriousWakeup, LatchWait, WaitForLoop
<1>3. CASE Destroy
  BY <1>3 DEF Destroy
<1>4. CASE OwnerWakesUp
  BY <1>4 DEF OwnerWakesUp, threadVars
<1>5. CASE DestroyQuit \/ DestroyWakeup \/ QuitUndefined
  BY <1>5 DEF DestroyQuit, DestroyWakeup, QuitUndefined
<1>6. CASE Join \/ DestroyMembers
  BY <1>6 DEF Join, DestroyMembers
<1> QED BY <1>1, <1>2, <1>3, <1>4, <1>5, <1>6 DEF OwnerStep

\* So does a step of the thread, and every other one.
LEMMA NextHandOver ==
    ASSUME MembersType, HandOver, [ThreadNext]_allVars
    PROVE  (MembersType /\ HandOver)'
<1> USE DEF MembersType, HandOver
<1>1. ASSUME NEW f \in Functors, OwnerQueues(f) \/ InitCallback(f) PROVE (MembersType /\ HandOver)'
  BY <1>1 DEF OwnerQueues, InitCallback, threadVars
<1>2. CASE CountDown
  BY <1>2 DEF CountDown
<1>3. CASE ConstructLoop
  BY <1>3 DEF ConstructLoop
<1>4. CASE Publish
  BY <1>4 DEF Publish
<1>5. CASE ThreadEntersLoop
  BY <1>5 DEF ThreadEntersLoop
<1>6. CASE ClearLoop
  BY <1>6 DEF ClearLoop
<1>7. CASE Unlock
  BY <1>7 DEF Unlock
<1>8. CASE DestroyLoop
  BY <1>8 DEF DestroyLoop
<1>9. CASE ThreadLoops \/ UNCHANGED allVars
  BY <1>9 DEF ThreadLoops, threadVars, allVars
<1> QED BY <1>1, <1>2, <1>3, <1>4, <1>5, <1>6, <1>7, <1>8, <1>9, OwnerHandOver DEF ThreadNext, ThreadStep

\* The loop changes pc and quit_ only so: it becomes idle when quit_ is set, and quit_ is
\* set by a functor of a usage that has one.
LEMMA ThreadLoopsQuit ==
    ASSUME ThreadLoops
    PROVE  /\ threadPc = "loop" /\ UNCHANGED threadVars
           /\ pc' = "idle" => quit_' \/ pc = "idle"
           /\ quit_ => quit_'
           /\ quit_' => quit_ \/ "quitFunctor" \in usage
BY DEF ThreadLoops, LoopStep, PollTimeout, LoopQuit, CheckQuit, Poll, HandleRead, EventsDone,
   SwapFunctors, RunFunctor, FunctorsDone, CallbackReturn, HandleEvent, TakePending, flags

\* loop() returns only for quit().
LEMMA NextLoopEnds ==
    ASSUME MembersType, HandOver, LoopEndsByQuit, [ThreadNext]_allVars
    PROVE  LoopEndsByQuit'
<1> USE DEF LoopEndsByQuit, AfterStore
<1>1. ASSUME NEW f \in Functors, OwnerQueues(f) \/ InitCallback(f) PROVE LoopEndsByQuit'
  BY <1>1 DEF OwnerQueues, InitCallback, threadVars, QueueInLoop, LoopQueueInLoop, flags
<1>2. CASE \/ Start \/ SpuriousWakeup \/ Destroy
           \/ LatchWait \/ WaitForLoop \/ QuitUndefined \/ Join \/ DestroyMembers
           \/ CountDown \/ ConstructLoop \/ Publish \/ ClearLoop \/ Unlock \/ DestroyLoop
  BY <1>2 DEF Start, SpuriousWakeup, Destroy, LatchWait, WaitForLoop, QuitUndefined, Join,
     DestroyMembers, CountDown, ConstructLoop, Publish, ClearLoop, Unlock, DestroyLoop,
     loopVars, vars
<1>3. CASE DestroyQuit
  BY <1>3 DEF DestroyQuit, Quit
<1>4. CASE DestroyWakeup \/ OwnerWakesUp
  BY <1>4 DEF DestroyWakeup, OwnerWakesUp, Wakeup, threadVars, flags
<1>5. CASE ThreadEntersLoop
  BY <1>5 DEF ThreadEntersLoop, EnterLoop
<1>6. CASE ThreadLoops
  BY <1>6, ThreadLoopsQuit DEF threadVars
<1>7. CASE UNCHANGED allVars
  BY <1>7 DEF allVars, threadVars, vars
<1> QED BY <1>1, <1>2, <1>3, <1>4, <1>5, <1>6, <1>7 DEF ThreadNext, OwnerStep, ThreadStep

\* The invariant of the hand-over and of the end of the loop.
ThreadInv == IInv /\ MembersType /\ HandOver /\ LoopEndsByQuit

\* loop_ never dangles: it is set after the loop's constructor and cleared before its
\* destructor (lines 55-72), and it is nullptr when ~EventLoopThread (lines 25-33) comes to
\* the members, whoever stopped the loop and whenever the object is destroyed.  The quit()
\* of line 30 begins on a published loop if no functor stops the loop, and what misses the
\* loop does so only after loop() has returned.
THEOREM EventLoopThreadPublishedLoopAlive == ThreadSpec => []PublishedLoopAlive
<1>1. ThreadInit => ThreadInv
  BY InitIInv DEF ThreadInit, ThreadInv, MembersType, HandOver, LoopEndsByQuit, Init
<1>2. ThreadInv /\ [ThreadNext]_allVars => ThreadInv'
  <2>1. [ThreadNext]_allVars => [Next]_vars
    BY ThreadNextIsNext DEF allVars
  <2> QED BY <2>1, NextIInv, NextHandOver, NextLoopEnds DEF ThreadInv
<1>3. ThreadInv => PublishedLoopAlive
  <2> SUFFICES ASSUME IInv, MembersType, HandOver, LoopEndsByQuit PROVE PublishedLoopAlive
    BY DEF ThreadInv
  <2>1. ThreadTypeOK /\ (loop_ => alive)
    BY DEF IInv, MembersType, HandOver, ThreadTypeOK
  <2>2. ownerPc \in {"members", "gone", "undefined"} => ~loop_
    BY DEF MembersType, HandOver
  <2>3. ownerPc = "quit" /\ "quitFunctor" \notin usage => loop_
    BY DEF MembersType, HandOver, LoopEndsByQuit, AfterStore
  <2>4. ownerPc = "undefined" => pc = "idle" /\ quit_
    BY DEF HandOver, LoopEndsByQuit
  <2> QED BY <2>1, <2>2, <2>3, <2>4 DEF PublishedLoopAlive
<1> QED BY <1>1, <1>2, <1>3, PTL DEF ThreadSpec

\* The loop in the thread loses no wakeup either: its owner's queueInLoop and quit, and the
\* functors that callback_ leaves in it, are found as those of any EventLoop.
THEOREM EventLoopThreadRefinesLoop == ThreadSpec => Spec
<1>1. [ThreadNext]_allVars => [Next]_vars
  BY ThreadNextIsNext DEF allVars
<1>2. ThreadInit => Init
  BY DEF ThreadInit
<1> QED BY <1>1, <1>2, PTL DEF ThreadSpec, Spec
=============================================================================
