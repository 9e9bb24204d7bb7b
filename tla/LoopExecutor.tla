---------------------------- MODULE LoopExecutor ----------------------------
(***************************************************************************)
(* What zing::net::EventLoop promises to the callers of runInLoop and      *)
(* queueInLoop, and nothing of how it does it: functors handed over from   *)
(* any thread are executed by the loop thread, each exactly once, in the   *)
(* order in which they were handed over.  A functor that the loop thread   *)
(* itself passes to runInLoop is executed at once, ahead of the queue.     *)
(***************************************************************************)
EXTENDS Sequences

CONSTANT Functors        \* the callbacks (EventLoop::Functor); each is used once

VARIABLES
    queue,               \* functors accepted and not yet executed
    ran                  \* functors executed so far, oldest first

vars == <<queue, ran>>

Init ==
    /\ queue = <<>>
    /\ ran = <<>>

\* A functor is accepted at the end of the queue.
Submit ==
    /\ \E f \in Functors : queue' = Append(queue, f)
    /\ UNCHANGED ran

\* The oldest accepted functor is executed.
Execute ==
    /\ queue # <<>>
    /\ ran' = Append(ran, Head(queue))
    /\ queue' = Tail(queue)

\* runInLoop called in the loop thread.
ExecuteNow ==
    /\ \E f \in Functors : ran' = Append(ran, f)
    /\ UNCHANGED queue

Next == Submit \/ Execute \/ ExecuteNow

Spec == Init /\ [][Next]_vars
=============================================================================
