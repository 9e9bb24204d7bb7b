---------------------------- MODULE ConnectionLife ----------------------------
(***************************************************************************)
(* What TcpServer and TcpConnection together promise about the life of a   *)
(* connection: it is established once, closed once, its channel leaves     *)
(* the loop once and only then is the object destroyed.                    *)
(***************************************************************************)
CONSTANT Conns

\* "none": not accepted yet; "connecting": connectEstablished is queued; "up": kConnected,
\* or kDisconnecting; "closed": kDisconnected, the channel is still in the loop; "removed":
\* connectDestroyed has removed it; "destroyed": the last TcpConnectionPtr is gone
VARIABLE life

Init == life \in [Conns -> {"none", "connecting"}]

Moves(c, from, to) ==
    /\ life[c] \in from
    /\ \E s \in to : life' = [life EXCEPT ![c] = s]

\* newConnection, with connectEstablished if it runs at once
Accept(c) == Moves(c, {"none"}, {"connecting", "up"})
Establish(c) == Moves(c, {"connecting"}, {"up"})

\* handleClose
Close(c) == Moves(c, {"up"}, {"closed"})

\* connectDestroyed closes a connection that is up; with the last pointer the object
\* may go as well
Remove(c) == Moves(c, {"up", "closed"}, {"removed", "destroyed"})

\* a batch of functors releases its pointers together
Destroy(some) ==
    /\ \A c \in some : life[c] = "removed"
    /\ life' = [c \in Conns |-> IF c \in some THEN "destroyed" ELSE life[c]]

Next ==
    \/ \E c \in Conns : Accept(c) \/ Establish(c) \/ Close(c) \/ Remove(c)
    \/ \E some \in SUBSET Conns : Destroy(some)

Spec == Init /\ [][Next]_life

=============================================================================
