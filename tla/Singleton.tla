------------------------------- MODULE Singleton -------------------------------
(***************************************************************************)
(* zing::Singleton, ThreadLocalSingleton and ThreadLocal over the pthread  *)
(* functions that they call: pthread_once, atexit, and keys whose          *)
(* destructors run, in any order, when a thread ends.  The destructor of   *)
(* an object may call instance() or value() again: pthread then goes       *)
(* through the keys once more, but not more than a fixed number of times.  *)
(*                                                                         *)
(* A thread ends by returning from its function; the process ends, with    *)
(* the atexit functions, when the threads that use the objects are over.   *)
(***************************************************************************)
EXTENDS Integers, FiniteSets

CONSTANTS
    Users,        \* threads
    Rounds,       \* PTHREAD_DESTRUCTOR_ITERATIONS
    MaxAgain      \* bound: objects made anew by destructors, in one thread

RoundAssumption == Rounds \in Nat \ {0}

Keys == {"ThreadLocalSingleton", "ThreadLocal"}

VARIABLES
    ponce_,       \* "new", the thread that is in init(), "done"
    value_,       \* 0, or the number of the Singleton's object
    built,        \* how many objects init() has made
    atexit_,      \* whether destroy is registered; no_destroy suppresses it
    got,          \* of each thread: the object that instance() has returned, or 0
    t_value_,     \* of each thread: whether t_value_ of ThreadLocalSingleton is set
    specific,     \* the pthread_getspecific of each thread and key: TRUE for an object
    alive,        \* the objects of each thread and key that are not deleted
    ending,       \* of each thread that ends: the round through the keys, the keys passed in
                  \* it, whose object's destructor runs, and the objects made anew so far
    pc,           \* of each thread: "running", "once", "init", "ending", "over"
    over,         \* exit() has been called
    failed        \* asserts that failed

vars == <<ponce_, value_, built, atexit_, got, t_value_, specific, alive, ending, pc, over, failed>>

Init ==
    /\ ponce_ = "new" /\ value_ = 0 /\ built = 0 /\ atexit_ = FALSE
    /\ got = [t \in Users |-> 0]
    /\ t_value_ = [t \in Users |-> FALSE]
    /\ specific = [t \in Users |-> [k \in Keys |-> FALSE]]
    /\ alive = [t \in Users |-> [k \in Keys |-> 0]]
    /\ ending = [t \in Users |-> [round |-> 1, passed |-> {}, destructor |-> "none", anew |-> 0]]
    /\ pc = [t \in Users |-> "running"]
    /\ over = FALSE /\ failed = {}

once == <<ponce_, value_, built, atexit_, got>>
local == <<t_value_, specific, alive, ending>>

Fails(condition, label) == failed' = failed \cup (IF condition THEN {} ELSE {label})
Goes(t, from, to) == pc[t] = from /\ pc' = [pc EXCEPT ![t] = to]

-----------------------------------------------------------------------------
(* Singleton                                                               *)

\* mutant of Once: a test of value_ instead of pthread_once
OnceTested(t) ==
    /\ Goes(t, "running", IF value_ = 0 THEN "init" ELSE "once")
    /\ UNCHANGED <<once, local, over, failed>>

\* instance(): pthread_once lets one thread into init() and the others wait for it
Once(t) ==
    /\ ponce_ \in {"new", "done"} /\ got[t] = 0
    /\ Goes(t, "running", IF ponce_ = "new" THEN "init" ELSE "once")
    /\ ponce_' = IF ponce_ = "new" THEN t ELSE ponce_
    /\ UNCHANGED <<value_, built, atexit_, got, local, over, failed>>

\* init()
InitValue(t) ==
    /\ Goes(t, "init", "once")
    /\ built' = built + 1 /\ value_' = built + 1
    /\ atexit_' \in BOOLEAN
    /\ ponce_' = "done"
    /\ UNCHANGED <<got, local, over, failed>>

Instance(t) ==
    /\ Goes(t, "once", "running")
    /\ Fails(value_ # 0, "instance")
    /\ got' = [got EXCEPT ![t] = value_]
    /\ UNCHANGED <<ponce_, value_, built, atexit_, local, over>>

\* exit() runs destroy()
Exit ==
    /\ ~over /\ \A t \in Users : pc[t] = "over"
    /\ over' = TRUE
    /\ value_' = IF atexit_ THEN 0 ELSE value_
    /\ UNCHANGED <<ponce_, built, atexit_, got, local, pc, failed>>

-----------------------------------------------------------------------------
(* ThreadLocalSingleton and ThreadLocal                                    *)

\* the objects of thread t after it has used key k: the test is of t_value_ in the one
\* class and of pthread_getspecific in the other
IsThere(t, k) == IF k = "ThreadLocalSingleton" THEN t_value_[t] ELSE specific[t][k]

Use(t, k) ==
    /\ IF IsThere(t, k)
       THEN UNCHANGED <<t_value_, specific, alive, failed>>
       ELSE /\ t_value_' = IF k = "ThreadLocal" THEN t_value_ ELSE [t_value_ EXCEPT ![t] = TRUE]
            /\ Fails(~specific[t][k], "set")
            /\ specific' = [specific EXCEPT ![t][k] = TRUE]
            /\ alive' = [alive EXCEPT ![t][k] = @ + 1]

\* instance() and value()
UseLocal(t, k) ==
    /\ pc[t] = "running" /\ Use(t, k)
    /\ UNCHANGED <<once, ending, pc, over>>

EndThread(t) ==
    /\ Goes(t, "running", "ending")
    /\ UNCHANGED <<once, local, over, failed>>

\* pthread comes to a key in a round
Pass(t, k, destructor) ==
    /\ pc[t] = "ending" /\ k \notin ending[t].passed
    /\ ending' = [ending EXCEPT ![t].passed = @ \cup {k}, ![t].destructor = destructor]

\* mutant of Destructor: t_value_ keeps its value
DestructorKeeps(t, k) ==
    /\ specific[t][k] /\ Pass(t, k, k)
    /\ specific' = [specific EXCEPT ![t][k] = FALSE]
    /\ Fails(k = "ThreadLocalSingleton" => t_value_[t], "destructor")
    /\ alive' = [alive EXCEPT ![t][k] = @ - 1]
    /\ UNCHANGED <<once, t_value_, pc, over>>

\* pthread calls the destructor of a key that has a value, after it has reset it
Destructor(t, k) ==
    /\ specific[t][k] /\ Pass(t, k, k)
    /\ specific' = [specific EXCEPT ![t][k] = FALSE]
    /\ Fails(k = "ThreadLocalSingleton" => t_value_[t], "destructor")
    /\ alive' = [alive EXCEPT ![t][k] = @ - 1]
    /\ t_value_' = IF k = "ThreadLocal" THEN t_value_ ELSE [t_value_ EXCEPT ![t] = FALSE]
    /\ UNCHANGED <<once, pc, over>>

\* a key without a value
NothingToDestroy(t, k) ==
    /\ ~specific[t][k] /\ Pass(t, k, "none")
    /\ UNCHANGED <<once, t_value_, specific, alive, pc, over, failed>>

\* The destructor of an object uses a key of its thread that has no object now: that of a
\* ThreadLocalSingleton finds itself still, for t_value_ is reset behind the delete.
UseAgain(t, k) ==
    /\ pc[t] = "ending" /\ ending[t].anew < MaxAgain
    /\ ending[t].destructor \in Keys /\ ~(k = "ThreadLocalSingleton" /\ ending[t].destructor = k)
    /\ ~IsThere(t, k) /\ Use(t, k)
    /\ ending' = [ending EXCEPT ![t].anew = @ + 1]
    /\ UNCHANGED <<once, pc, over>>

HasValues(t) == \E k \in Keys : specific[t][k]

\* all keys passed and some have a value again
NextRound(t) ==
    /\ pc[t] = "ending" /\ ending[t].passed = Keys
    /\ HasValues(t) /\ ending[t].round < Rounds
    /\ ending' = [ending EXCEPT ![t].round = @ + 1, ![t].passed = {}, ![t].destructor = "none"]
    /\ UNCHANGED <<once, t_value_, specific, alive, pc, over, failed>>

\* no value is left, or it was the last round and what has a value still is leaked
ThreadOver(t) ==
    /\ ending[t].passed = Keys
    /\ HasValues(t) => ending[t].round = Rounds
    /\ Goes(t, "ending", "over")
    /\ UNCHANGED <<once, local, over, failed>>

Next ==
    \/ \E t \in Users :
        \/ Once(t) \/ InitValue(t) \/ Instance(t) \/ EndThread(t) \/ NextRound(t)
        \/ ThreadOver(t)
        \/ \E k \in Keys :
            UseLocal(t, k) \/ Destructor(t, k) \/ NothingToDestroy(t, k) \/ UseAgain(t, k)
    \/ Exit

Spec == Init /\ [][Next]_vars

-----------------------------------------------------------------------------
\* All threads get one and the same object of a Singleton, completely made, and it is
\* deleted once, at the end, or never (Singleton.h:43-67).
OneObject ==
    /\ built <= 1
    /\ \A t \in Users : got[t] # 0 => got[t] = 1 /\ (~over => value_ = 1)
    /\ over /\ atexit_ => value_ = 0

\* A thread has at most one object of each key, the one that it finds; one is left when it
\* is over only if destructors have made objects anew in every round that pthread goes
\* through the keys; the asserts hold (ThreadLocalSingleton.h:26-71, ThreadLocal.h:35-55).
OnePerThread ==
    /\ \A t \in Users, k \in Keys :
        /\ alive[t][k] = IF specific[t][k] THEN 1 ELSE 0
        /\ k = "ThreadLocalSingleton" => (t_value_[t] <=> specific[t][k])
        /\ pc[t] = "over" /\ alive[t][k] # 0 => ending[t].anew >= Rounds
    /\ failed = {}

=============================================================================
