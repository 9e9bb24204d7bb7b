---------------------------- MODULE BlockingQueue ----------------------------
(***************************************************************************)
(* zing::BlockingQueue (maxSize_ = 0) and zing::BoundedBlockingQueue: a    *)
(* queue under mutex_ with the conditions notEmpty_ and, if bounded,       *)
(* notFull_.  What a call does under mutex_ between two waits is one step; *)
(* a notified thread has to get the mutex and test again.                  *)
(***************************************************************************)
EXTENDS Naturals, Sequences, FiniteSets

CONSTANTS
    Putters, Takers,    \* the threads that call put and take
    Items,
    Sizes,              \* the maximal sizes that are looked at
    MaxPuts             \* bound: how many items are put altogether

ASSUME SizeAssumption == Sizes \subseteq Nat /\ MaxPuts \in Nat
ASSUME FiniteAssumption == IsFiniteSet(Putters) /\ IsFiniteSet(Takers)
ASSUME ThreadAssumption == Putters \cap Takers = {}

Threads == Putters \cup Takers

VARIABLES
    maxSize_,    \* of a BoundedBlockingQueue, never changed; 0 for a BlockingQueue
    queue_,
    pc,          \* "idle", "enter" (not yet in the mutex), "wait", "woken"
    item,        \* the argument of put
    puts,        \* how many calls of put have begun
    received     \* history: the items that take and drain have returned

vars == <<maxSize_, queue_, pc, item, puts, received>>

Init ==
    /\ maxSize_ \in Sizes
    /\ queue_ = <<>>
    /\ pc = [t \in Threads |-> "idle"]
    /\ item \in [Putters -> Items]
    /\ puts = 0
    /\ received = <<>>

-----------------------------------------------------------------------------
isFull == maxSize_ > 0 /\ Len(queue_) = maxSize_

In(group, place) == {t \in group : pc[t] = place}

\* mutant of Notify: the notification is lost on a thread that was woken before
NotifyWoken(pcs, group) ==
    IF \E t \in group : pcs[t] = "woken"
    THEN pc' = pcs
    ELSE IF \E t \in group : pcs[t] = "wait"
    THEN \E t \in group : pcs[t] = "wait" /\ pc' = [pcs EXCEPT ![t] = "woken"]
    ELSE pc' = pcs

\* Condition::notify: one thread of the group wakes up, if any is waiting
Notify(pcs, group) ==
    IF \E t \in group : pcs[t] = "wait"
    THEN \E t \in group : pcs[t] = "wait" /\ pc' = [pcs EXCEPT ![t] = "woken"]
    ELSE pc' = pcs

Call(t) ==
    /\ pc[t] = "idle"
    /\ pc' = [pc EXCEPT ![t] = "enter"]
    /\ IF t \in Putters
       THEN /\ puts < MaxPuts
            /\ puts' = puts + 1
            /\ \E x \in Items : item' = [item EXCEPT ![t] = x]
       ELSE UNCHANGED <<puts, item>>
    /\ UNCHANGED <<maxSize_, queue_, received>>

Entered(t) == pc[t] \in {"enter", "woken"}

\* put into a full queue
PutWaits(p) ==
    /\ Entered(p) /\ isFull
    /\ pc' = [pc EXCEPT ![p] = "wait"]
    /\ UNCHANGED <<maxSize_, queue_, item, puts, received>>

\* mutant of Put: a putter that was woken does not test again
PutUntested(p) ==
    /\ Entered(p) /\ (isFull => pc[p] = "woken")
    /\ queue_' = Append(queue_, item[p])
    /\ Notify([pc EXCEPT ![p] = "idle"], Takers)
    /\ UNCHANGED <<maxSize_, item, puts, received>>

\* put
Put(p) ==
    /\ Entered(p) /\ ~isFull
    /\ queue_' = Append(queue_, item[p])
    /\ Notify([pc EXCEPT ![p] = "idle"], Takers)
    /\ UNCHANGED <<maxSize_, item, puts, received>>

\* take from an empty queue
TakeWaits(c) ==
    /\ Entered(c) /\ queue_ = <<>>
    /\ pc' = [pc EXCEPT ![c] = "wait"]
    /\ UNCHANGED <<maxSize_, queue_, item, puts, received>>

\* mutant of Take: notFull_ is not notified
TakeQuietly(c) ==
    /\ Entered(c) /\ queue_ # <<>>
    /\ received' = Append(received, Head(queue_))
    /\ queue_' = Tail(queue_)
    /\ pc' = [pc EXCEPT ![c] = "idle"]
    /\ UNCHANGED <<maxSize_, item, puts>>

\* take; only the bounded queue has a notFull_, and only there a putter waits
Take(c) ==
    /\ Entered(c) /\ queue_ # <<>>
    /\ received' = Append(received, Head(queue_))
    /\ queue_' = Tail(queue_)
    /\ Notify([pc EXCEPT ![c] = "idle"], Putters)
    /\ UNCHANGED <<maxSize_, item, puts>>

\* drain, which only BlockingQueue has, in any thread that calls it: everything at
\* once, nobody is notified
Drain ==
    /\ maxSize_ = 0
    /\ received' = received \o queue_
    /\ queue_' = <<>>
    /\ UNCHANGED <<maxSize_, pc, item, puts>>

SpuriousWakeup(t) ==
    /\ pc[t] = "wait"
    /\ pc' = [pc EXCEPT ![t] = "woken"]
    /\ UNCHANGED <<maxSize_, queue_, item, puts, received>>

-----------------------------------------------------------------------------
PutStep(p) == PutWaits(p) \/ Put(p)
TakeStep(c) == TakeWaits(c) \/ Take(c)

Next ==
    \/ \E t \in Threads : Call(t) \/ SpuriousWakeup(t)
    \/ \E p \in Putters : PutStep(p)
    \/ \E c \in Takers : TakeStep(c)
    \/ Drain

Spec == Init /\ [][Next]_vars

-----------------------------------------------------------------------------
\* Types of the variables.
TypeOK ==
    /\ maxSize_ \in Sizes
    /\ queue_ \in Seq(Items)
    /\ pc \in [Threads -> {"idle", "enter", "wait", "woken"}]
    /\ item \in [Putters -> Items]
    /\ puts \in 0..MaxPuts
    /\ received \in Seq(Items)

\* While a taker waits, every item in the queue has a taker that was woken for it: the
\* one notify() per put is enough, also when a late taker or drain is faster.
NoLostItem == In(Takers, "wait") # {} => Len(queue_) <= Cardinality(In(Takers, "woken"))

\* While a putter waits, every free place has a putter that was woken for it.
NoLostPlace ==
    In(Putters, "wait") # {} => maxSize_ <= Len(queue_) + Cardinality(In(Putters, "woken"))

\* Nobody waits for what is there, with one notify per put and per take (lines 37, 55 and
\* BlockingQueue.h:29-69).
NoLostNotification == NoLostItem /\ NoLostPlace

\* The queue implements FifoQueue: in order, each item once, never more than maxSize_.
Fifo == INSTANCE FifoQueue WITH items <- queue_, capacity <- maxSize_, Capacities <- Sizes
FifoSpec == Fifo!Spec

=============================================================================
