------------------------------ MODULE FifoQueue ------------------------------
(***************************************************************************)
(* What the blocking queues promise: items are put at one end and taken at *)
(* the other, at most capacity of them at a time; a queue of capacity 0    *)
(* has no limit, and drain takes all its items.                            *)
(***************************************************************************)
EXTENDS Naturals, Sequences

CONSTANTS Items, Capacities

VARIABLES
    capacity,    \* of this queue, never changed
    items,       \* the items in the queue
    received     \* the items that were taken, in this order

Init == capacity \in Capacities /\ items = <<>> /\ received = <<>>

Put(x) ==
    /\ capacity > 0 => Len(items) < capacity
    /\ items' = Append(items, x)
    /\ UNCHANGED <<capacity, received>>

Take ==
    /\ items # <<>>
    /\ received' = Append(received, Head(items))
    /\ items' = Tail(items)
    /\ UNCHANGED capacity

Drain ==
    /\ capacity = 0
    /\ received' = received \o items
    /\ items' = <<>>
    /\ UNCHANGED capacity

Next == (\E x \in Items : Put(x)) \/ Take \/ Drain

Spec == Init /\ [][Next]_<<capacity, items, received>>

=============================================================================
