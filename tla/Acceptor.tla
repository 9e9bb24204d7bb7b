------------------------------- MODULE Acceptor -------------------------------
(***************************************************************************)
(* zing::net::Acceptor: the listening socket, its read event and the spare *)
(* descriptor idleFd_ that is given up to get rid of a connection when the *)
(* process has no descriptor left.  The table of open descriptors of the   *)
(* process is the shared state; the kernel always hands out the lowest one *)
(* that is free.                                                           *)
(*                                                                         *)
(* An error of accept other than EMFILE, EAGAIN and ECONNABORTED that ends *)
(* the process (LOG_FATAL) is left out; errno, which a successful accept   *)
(* leaves alone, is taken not to hold an old EMFILE.                       *)
(***************************************************************************)
EXTENDS Integers, Sequences, FiniteSets, FiniteSetsExt

CONSTANTS
    Peers,        \* each connects at most once
    Limit         \* RLIMIT_NOFILE

ASSUME LimitAssumption == Limit \in Nat /\ Limit > 2

Fds == 0..(Limit - 1)

VARIABLES
    othersRace,   \* whether other threads open files while handleRead runs
    table,        \* what each descriptor is: "free", "stdin", "listen", "idle", "other"
                  \* or the peer of a connection
    backlog,      \* the peers whose connections wait to be accepted
    arrived,      \* the peers that have tried to connect
    idleFd_, listening_, newConnectionCallback_,
    pc,           \* "loop", the steps of handleRead under EMFILE, "gone"
    reported,     \* the peers that newConnectionCallback_ was told of
    refused,      \* the peers whose connection the acceptor has closed
    closedOther   \* whether a descriptor of somebody else was ever closed

vars == <<othersRace, table, backlog, arrived, idleFd_, listening_, newConnectionCallback_, pc,
          reported, refused, closedOther>>

listenFd == 1

\* the constructor; TcpServer sets the callback right after it
Init ==
    /\ othersRace \in BOOLEAN
    /\ \E stdin \in {"stdin", "free"} :   \* descriptor 0 may have been closed
           table = [fd \in Fds |-> CASE fd = 0 -> stdin
                                     [] fd = 1 -> "listen"
                                     [] fd = 2 -> "idle"
                                     [] OTHER -> "free"]
    /\ backlog = <<>> /\ arrived = {}
    /\ idleFd_ = 2
    /\ listening_ = FALSE
    /\ newConnectionCallback_ \in BOOLEAN
    /\ pc = "loop"
    /\ reported = {} /\ refused = {}
    /\ closedOther = FALSE

-----------------------------------------------------------------------------
FreeFds == {fd \in Fds : table[fd] = "free"}

\* close of a descriptor that the acceptor believes to be what `kind` says; -1 is EBADF
Close(fd, kinds) ==
    /\ table' = IF fd \in Fds THEN [table EXCEPT ![fd] = "free"] ELSE table
    /\ closedOther' = (closedOther \/ (fd \in Fds /\ table[fd] \notin kinds))

Listen ==
    /\ pc = "loop" /\ ~listening_
    /\ listening_' = TRUE
    /\ UNCHANGED <<othersRace, table, backlog, arrived, idleFd_, newConnectionCallback_,
                   pc, reported, refused, closedOther>>

\* the read event of acceptChannel_, which is level triggered
Readable == pc = "loop" /\ listening_ /\ backlog # <<>>

\* connfd > 0 (line 56); descriptor 0 is taken for an error, of which errno says nothing
IsConnection(fd) == fd > 0

\* mutant of HandleRead: without a callback the connection is forgotten
HandleReadForgets(fd) ==
    /\ Readable
    /\ FreeFds # {} /\ fd = Min(FreeFds)
    /\ backlog' = Tail(backlog)
    /\ table' = [table EXCEPT ![fd] = Head(backlog)]
    /\ reported' = IF newConnectionCallback_ THEN reported \cup {Head(backlog)} ELSE reported
    /\ UNCHANGED <<othersRace, arrived, idleFd_, listening_, newConnectionCallback_, pc,
                   refused, closedOther>>

\* handleRead when there is a descriptor for the connection
HandleRead(fd) ==
    /\ Readable
    /\ FreeFds # {} /\ fd = Min(FreeFds)
    /\ backlog' = Tail(backlog)
    /\ IF IsConnection(fd) /\ ~newConnectionCallback_
       THEN /\ refused' = refused \cup {Head(backlog)}
            /\ UNCHANGED <<othersRace, table, reported>>
       ELSE /\ table' = [table EXCEPT ![fd] = Head(backlog)]
            /\ reported' = IF IsConnection(fd) THEN reported \cup {Head(backlog)} ELSE reported
            /\ UNCHANGED refused
    /\ UNCHANGED <<othersRace, arrived, idleFd_, listening_, newConnectionCallback_, pc,
                   closedOther>>

\* mutant of HandleReadFull: the error is only logged
HandleReadLogs ==
    /\ Readable
    /\ FreeFds = {}
    /\ UNCHANGED vars

\* handleRead when accept fails with EMFILE: close(idleFd_)
HandleReadFull ==
    /\ Readable
    /\ FreeFds = {}
    /\ Close(idleFd_, {"idle"})
    /\ pc' = "accept"
    /\ UNCHANGED <<othersRace, backlog, arrived, idleFd_, listening_,
                   newConnectionCallback_, reported, refused>>

\* mutant of AcceptIdle: idleFd_ keeps its value when accept fails
AcceptIdleKeeps ==
    /\ pc = "accept"
    /\ IF FreeFds # {} /\ backlog # <<>>
       THEN /\ idleFd_' = Min(FreeFds)
            /\ table' = [table EXCEPT ![Min(FreeFds)] = Head(backlog)]
            /\ backlog' = Tail(backlog)
       ELSE UNCHANGED <<idleFd_, table, backlog>>
    /\ pc' = "close"
    /\ UNCHANGED <<othersRace, arrived, listening_, newConnectionCallback_, reported,
                   refused, closedOther>>

\* idleFd_ = accept(...): fails if the descriptor is gone again, or the peer is
AcceptIdle ==
    /\ pc = "accept"
    /\ IF FreeFds # {} /\ backlog # <<>>
       THEN /\ idleFd_' = Min(FreeFds)
            /\ table' = [table EXCEPT ![Min(FreeFds)] = Head(backlog)]
            /\ backlog' = Tail(backlog)
       ELSE idleFd_' = -1 /\ UNCHANGED <<table, backlog>>
    /\ pc' = "close"
    /\ UNCHANGED <<othersRace, arrived, listening_, newConnectionCallback_, reported,
                   refused, closedOther>>

\* close(idleFd_): the peer sees the end of its connection
CloseIdle ==
    /\ pc = "close"
    /\ Close(idleFd_, Peers)
    /\ refused' = IF idleFd_ \in Fds THEN refused \cup ({table[idleFd_]} \cap Peers)
                  ELSE refused
    /\ pc' = "open"
    /\ UNCHANGED <<othersRace, backlog, arrived, idleFd_, listening_,
                   newConnectionCallback_, reported>>

\* idleFd_ = open("/dev/null")
OpenIdle ==
    /\ pc = "open"
    /\ IF FreeFds # {}
       THEN /\ idleFd_' = Min(FreeFds)
            /\ table' = [table EXCEPT ![Min(FreeFds)] = "idle"]
       ELSE idleFd_' = -1 /\ UNCHANGED table
    /\ pc' = "loop"
    /\ UNCHANGED <<othersRace, backlog, arrived, listening_, newConnectionCallback_,
                   reported, refused, closedOther>>

\* the destructor; the kernel resets what waits in the backlog
Destroy ==
    /\ pc = "loop"
    /\ pc' = "gone"
    /\ table' = [fd \in Fds |-> IF fd \in {listenFd, idleFd_} THEN "free" ELSE table[fd]]
    /\ refused' = refused \cup {backlog[k] : k \in 1..Len(backlog)}
    /\ backlog' = <<>>
    /\ UNCHANGED <<othersRace, arrived, idleFd_, listening_, newConnectionCallback_,
                   reported, closedOther>>

-----------------------------------------------------------------------------
(* The rest of the process and the peers.                                  *)

Connect(p) ==
    /\ p \notin arrived /\ listening_ /\ pc # "gone"
    /\ arrived' = arrived \cup {p}
    /\ backlog' = Append(backlog, p)
    /\ UNCHANGED <<othersRace, table, idleFd_, listening_, newConnectionCallback_, pc,
                   reported, refused, closedOther>>

\* the oldest connection in the backlog is aborted by its peer
Abort ==
    /\ backlog # <<>>
    /\ refused' = refused \cup {Head(backlog)}
    /\ backlog' = Tail(backlog)
    /\ UNCHANGED <<othersRace, table, arrived, idleFd_, listening_,
                   newConnectionCallback_, pc, reported, closedOther>>

Others == pc \in {"loop", "gone"} \/ othersRace

\* the owner of a reported connection closes it; other files are opened and closed
CloseConnection(fd) ==
    /\ Others
    /\ table[fd] \in reported
    /\ table' = [table EXCEPT ![fd] = "free"]
    /\ UNCHANGED <<othersRace, backlog, arrived, idleFd_, listening_,
                   newConnectionCallback_, pc, reported, refused, closedOther>>

OpenOther ==
    /\ Others
    /\ FreeFds # {}
    /\ table' = [table EXCEPT ![Min(FreeFds)] = "other"]
    /\ UNCHANGED <<othersRace, backlog, arrived, idleFd_, listening_,
                   newConnectionCallback_, pc, reported, refused, closedOther>>

CloseOther(fd) ==
    /\ Others
    /\ table[fd] = "other"
    /\ table' = [table EXCEPT ![fd] = "free"]
    /\ UNCHANGED <<othersRace, backlog, arrived, idleFd_, listening_,
                   newConnectionCallback_, pc, reported, refused, closedOther>>

AcceptStep ==
    \/ \E fd \in Fds : HandleRead(fd)
    \/ HandleReadFull \/ AcceptIdle \/ CloseIdle \/ OpenIdle

Next ==
    \/ Listen \/ AcceptStep \/ Destroy
    \/ \E p \in Peers : Connect(p)
    \/ Abort \/ OpenOther
    \/ \E fd \in Fds : CloseConnection(fd) \/ CloseOther(fd)

Spec == Init /\ [][Next]_vars

\* The loop thread handles the read event.
FairSpec == Spec /\ WF_vars(AcceptStep)

-----------------------------------------------------------------------------
\* Types of the variables.
TypeOK ==
    /\ table \in [Fds -> {"free", "stdin", "listen", "idle", "other"} \cup Peers]
    /\ backlog \in Seq(Peers)
    /\ idleFd_ \in Fds \cup {-1}
    /\ pc \in {"loop", "accept", "close", "open", "gone"}
    /\ reported \subseteq arrived /\ refused \subseteq arrived

\* The acceptor closes its own descriptors only, although idleFd_ stands for three
\* different ones within handleRead (lines 72-75).
ClosesItsOwn == ~closedOther

\* Outside handleRead the spare descriptor is open, unless another thread took the
\* number between two of its steps.
SpareKept ==
    pc = "loop" /\ ~othersRace => idleFd_ \in Fds /\ table[idleFd_] = "idle"

\* The destructor leaves neither of the acceptor's descriptors open.
DestroyedClosesAll ==
    pc = "gone" => \A fd \in Fds : table[fd] \notin {"listen", "idle"}

\* The acceptor and the descriptor table agree about what is the acceptor's own.
OwnDescriptors == TypeOK /\ ClosesItsOwn /\ SpareKept /\ DestroyedClosesAll

\* Every connection that was accepted is reported or closed (Acceptor.h:24): no
\* descriptor of a connection is open that nobody has been told of, except
\* descriptor 0, which line 56 takes for an error.
AcceptedIsReported ==
    \A fd \in Fds \ {0} :
        table[fd] \in Peers => table[fd] \in reported \/ (pc = "close" /\ fd = idleFd_)

\* Nobody waits in the backlog for ever, even when there is no descriptor left: the
\* level triggered event is never answered by doing nothing (lines 70-76), unless
\* another thread took the spare descriptor.
BacklogServed ==
    \A p \in Peers :
        (\E k \in 1..Len(backlog) : backlog[k] = p)
            ~> (p \in reported \cup refused \cup {table[0]} \/ othersRace)

=============================================================================
