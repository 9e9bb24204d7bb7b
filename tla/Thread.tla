-------------------------------- MODULE Thread --------------------------------
(***************************************************************************)
(* zing::Thread: start() with its latch, join(), and the destructor, which *)
(* detaches a thread that was not joined.  The new thread gets a copy of   *)
(* the function but pointers to tid_ and latch_ of the Thread object; the  *)
(* owner may destroy that object at any time after start().                *)
(***************************************************************************)
EXTENDS CountDownLatch

CONSTANTS Owner, Child

LatchAssumption ==
    /\ Waiters = {Owner} /\ Counters = {Child} /\ Count = 1
    /\ Owner # Child /\ Nobody \notin {Owner, Child}

VARIABLES
    started_, joined_, tid_,   \* of the Thread; tid_ > 0 is TRUE
    owner,                     \* "idle", "starting", "joining", "destroyed", "exited"
    child,                     \* "none", "born", "counting", "function", "over"
    failed                     \* asserts that failed

threadVars == <<started_, joined_, tid_, owner, child, failed>>

ThreadInit ==
    /\ LatchInit
    /\ started_ = FALSE /\ joined_ = FALSE /\ tid_ = FALSE
    /\ owner = "idle" /\ child = "none"
    /\ failed = {}

Fails(condition, label) == failed' = failed \cup (IF condition THEN {} ELSE {label})

\* start(): pthread_create, and then the owner waits for the latch
Start ==
    /\ owner = "idle" /\ ~started_
    /\ started_' = TRUE
    /\ owner' = "starting" /\ child' = "born"
    /\ Call(Owner)
    /\ UNCHANGED <<joined_, tid_, failed>>

\* pthread_create fails: exit(1)
CreateFails ==
    /\ owner = "idle" /\ ~started_
    /\ owner' = "exited"
    /\ UNCHANGED <<latchVars, started_, joined_, tid_, child, failed>>

Started ==
    /\ owner = "starting" /\ pc[Owner] = "returned"
    /\ owner' = "idle"
    /\ Fails(tid_, "start")
    /\ UNCHANGED <<latchVars, started_, joined_, tid_, child>>

\* mutant of WriteTid: the latch is counted down before tid_ is written
WriteTidLate ==
    \/ /\ child = "born" /\ child' = "counting"
       /\ Call(Child)
       /\ UNCHANGED <<started_, joined_, tid_, owner, failed>>
    \/ /\ child = "function" /\ tid_' = TRUE
       /\ UNCHANGED <<latchVars, started_, joined_, owner, child, failed>>

\* runInThread: *tid_ is written, then the latch is counted down ...
WriteTid ==
    /\ child = "born" /\ child' = "counting"
    /\ tid_' = TRUE
    /\ Call(Child)
    /\ UNCHANGED <<started_, joined_, owner, failed>>

\* ... then func_ and name_ of the ThreadData, which the thread owns
RunFunction ==
    /\ child = "counting" /\ pc[Child] = "returned"
    /\ child' = "function"
    /\ UNCHANGED <<latchVars, started_, joined_, tid_, owner, failed>>

FunctionOver ==
    /\ child = "function" /\ child' = "over"
    /\ UNCHANGED <<latchVars, started_, joined_, tid_, owner, failed>>

\* join(): at most once
Join ==
    /\ owner = "idle" /\ started_ /\ ~joined_
    /\ joined_' = TRUE
    /\ owner' = "joining"
    /\ UNCHANGED <<latchVars, started_, tid_, child, failed>>

Joined ==
    /\ owner = "joining" /\ child = "over"
    /\ owner' = "idle"
    /\ UNCHANGED <<latchVars, started_, joined_, tid_, child, failed>>

\* ~Thread, with the assert of ~MutexLock: a thread that was not joined is detached
Destroy ==
    /\ owner = "idle"
    /\ owner' = "destroyed"
    /\ Fails(holder_ = Nobody, "~MutexLock")
    /\ UNCHANGED <<latchVars, started_, joined_, tid_, child>>

InLatch ==
    /\ \E t \in Threads : LatchStep(t)
    /\ UNCHANGED threadVars

ThreadNext ==
    \/ Start \/ CreateFails \/ Started \/ Join \/ Joined \/ Destroy
    \/ WriteTid \/ RunFunction \/ FunctionOver
    \/ InLatch

ThreadSpec == ThreadInit /\ [][ThreadNext]_<<latchVars, threadVars>>

-----------------------------------------------------------------------------
\* The new thread does not use the Thread object, its tid_, its latch or the latch's
\* mutex, once the owner has destroyed it; a joined thread is over (Thread.cpp:69-74,
\* 153-159, 186-199).  The asserts of start() and ~MutexLock hold.
ObjectOutlived ==
    /\ owner = "destroyed" => child \in {"none", "counting", "function", "over"}
                              /\ pc[Child] \in {"outside", "returned"} /\ mutex = Nobody
    /\ owner = "destroyed" /\ joined_ => child = "over"
    /\ failed = {}

=============================================================================
