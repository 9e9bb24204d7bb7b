---------------------------- MODULE CountDownLatch ----------------------------
(***************************************************************************)
(* zing::CountDownLatch down to the steps of MutexLockGuard and Condition: *)
(* holder_ is a plain member beside the std::mutex, and the guard, the     *)
(* UnassignGuard of Condition::wait and the unlocking keep the two in      *)
(* step.  The owner of a latch may destroy it as soon as its wait()        *)
(* returns, while another thread is perhaps still leaving countDown().     *)
(***************************************************************************)
EXTENDS Integers

CONSTANTS
    Waiters, Counters,  \* threads that call wait(), and countDown()
    Count               \* the constructor's argument

Threads == Waiters \cup Counters
Nobody == "nobody"      \* holder_ is 0, the std::mutex is free

VARIABLES
    mutex,       \* the thread that has locked the std::mutex
    holder_,     \* of MutexLock
    count_,
    pc           \* of each thread: where it is in MutexLockGuard, wait() or countDown()

latchVars == <<mutex, holder_, count_, pc>>

LatchInit ==
    /\ mutex = Nobody /\ holder_ = Nobody
    /\ count_ = Count
    /\ pc = [t \in Threads |-> "outside"]

Goes(t, from, to) == pc[t] = from /\ pc' = [pc EXCEPT ![t] = to]

-----------------------------------------------------------------------------
\* wait() or countDown() is called
Call(t) == Goes(t, "outside", "lock") /\ UNCHANGED <<mutex, holder_, count_>>

\* std::unique_lock; Condition::wait locks again before it returns
Lock(t) ==
    /\ mutex = Nobody /\ mutex' = t
    /\ Goes(t, "lock", "assign")
    /\ UNCHANGED <<holder_, count_>>

AssignHolder(t) ==
    /\ Goes(t, "assign", "locked")
    /\ holder_' = t
    /\ UNCHANGED <<mutex, count_>>

\* while (count_ > 0): the UnassignGuard ...
MustWait(t) ==
    /\ t \in Waiters /\ count_ > 0
    /\ Goes(t, "locked", "sleep")
    /\ holder_' = Nobody
    /\ UNCHANGED <<mutex, count_>>

\* ... and cond_.wait, which unlocks and blocks in one step
Wait(t) ==
    /\ Goes(t, "sleep", "blocked")
    /\ mutex' = Nobody
    /\ UNCHANGED <<holder_, count_>>

SpuriousWakeup(t) == Goes(t, "blocked", "lock") /\ UNCHANGED <<mutex, holder_, count_>>

\* the latch is open; it may have been counted down more often than Count
WaitOver(t) ==
    /\ t \in Waiters /\ count_ <= 0
    /\ Goes(t, "locked", "unassign")
    /\ UNCHANGED <<mutex, holder_, count_>>

\* countDown, with notifyAll when the count reaches 0
CountDown(t) ==
    /\ t \in Counters /\ pc[t] = "locked"
    /\ count_' = count_ - 1
    /\ pc' = [u \in Threads |->
                 IF u = t THEN "unassign"
                 ELSE IF count_ = 1 /\ pc[u] = "blocked" THEN "lock" ELSE pc[u]]
    /\ UNCHANGED <<mutex, holder_>>

\* mutant of UnassignHolder and Unlock: the members of MutexLockGuard in the other order
UnlockFirst(t) ==
    \/ /\ Goes(t, "unassign", "unlock")
       /\ mutex' = Nobody
       /\ UNCHANGED <<holder_, count_>>
    \/ /\ Goes(t, "unlock", "returned")
       /\ holder_' = Nobody
       /\ UNCHANGED <<mutex, count_>>

\* ~MutexLockGuard: the body of the destructor comes before that of the member lock_
Leave(t) ==
    \/ /\ Goes(t, "unassign", "unlock")
       /\ holder_' = Nobody
       /\ UNCHANGED <<mutex, count_>>
    \/ /\ Goes(t, "unlock", "returned")
       /\ mutex' = Nobody
       /\ UNCHANGED <<holder_, count_>>

LatchStep(t) ==
    \/ Lock(t) \/ AssignHolder(t) \/ MustWait(t) \/ Wait(t) \/ SpuriousWakeup(t)
    \/ WaitOver(t) \/ CountDown(t) \/ Leave(t)

LatchNext == \E t \in Threads : Call(t) \/ LatchStep(t)

LatchSpec == LatchInit /\ [][LatchNext]_latchVars

-----------------------------------------------------------------------------
Inside == {"assign", "locked", "sleep", "unassign", "unlock"}

\* Types of the variables.
LatchTypeOK ==
    /\ mutex \in Threads \cup {Nobody} /\ holder_ \in Threads \cup {Nobody}
    /\ count_ \in Int
    /\ pc \in [Threads -> Inside \cup {"outside", "lock", "blocked", "returned"}]

\* holder_ names the thread in the critical section and nobody else: assertLocked()
\* holds there and isLockedByThisThread() is false elsewhere, though other threads read
\* holder_ without the mutex (Mutex.h:34-42, 83-111, Condition.h:23-27).
HolderInStep ==
    /\ LatchTypeOK
    /\ \A t \in Threads : mutex = t <=> pc[t] \in Inside
    /\ \A t \in Threads : holder_ = t <=> pc[t] \in {"locked", "unassign"}

\* wait() returns, or is about to, only when the latch is open; a waiter blocks on an
\* open latch only if it has not been notified, which cannot happen.
OpensOnce ==
    \A t \in Waiters :
        /\ pc[t] \in {"unassign", "unlock", "returned"} => count_ <= 0
        /\ pc[t] \in {"sleep", "blocked"} => count_ > 0

=============================================================================
