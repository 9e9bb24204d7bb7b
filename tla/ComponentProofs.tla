--------------------------- MODULE ComponentProofs ---------------------------
(***************************************************************************)
(* Proofs about the components that stand on their own:                    *)
(*   - Acceptor, for any peers and any limit on descriptors: it closes     *)
(*     only what is its own, and reports every connection once;            *)
(*   - CountDownLatch, for any threads and any count, and Thread: holder_  *)
(*     follows the mutex, the latch opens once, and the new thread never   *)
(*     uses a Thread object that its owner has destroyed;                  *)
(*   - Buffer, for any sizes: it holds the bytes of a queue, its asserts   *)
(*     hold, and a search finds the first line end of those bytes;         *)
(*   - Singleton and the objects per thread, for any threads: one object,  *)
(*     one per thread, and none left;                                      *)
(*   - ReadSmallFile, for any sizes: what is read is the beginning of the  *)
(*     file, and the buffer has room for the zero;                         *)
(*   - Logging, for any threads: a line shows its own second, and a FATAL  *)
(*     line survives;                                                      *)
(*   - LogFile, for any sizes and intervals: the files hold the lines in   *)
(*     order, and are rolled and flushed in time;                          *)
(*   - TimeZoneFile, for any file: nothing of it is taken half read;        *)
(*   - InetAddress and StringPiece, for any radix and any characters:      *)
(*     texts identify addresses, and the comparisons mean one order;       *)
(*   - TimeZone and Date, for any zone of summer time, any years: times    *)
(*     and days are converted to what they are and back.                   *)
(* Base composes these parts, all but Acceptor: its invariants follow from *)
(* those of the parts.                                                     *)
(***************************************************************************)
EXTENDS Acceptor, Base, SequenceTheorems, WellFoundedInduction, TLAPS

\* There is a least one among natural numbers.
LEMMA Least ==
    ASSUME NEW T, T \subseteq Nat, T # {}
    PROVE  \E x \in T : \A y \in T : x <= y
<1> DEFINE R == {ss \in Nat \X Nat : ss[1] < ss[2]}
<1>1. IsWellFoundedOn(R, Nat)
  BY NatLessThanWellFounded DEF OpToRel
<1> HIDE DEF R
<1>2. PICK x \in T : \A y \in T : ~ (<<y, x>> \in R)
  BY <1>1, WFMin
<1>3. \A y \in T : ~ (y < x)
  BY <1>2 DEF R
<1> QED BY <1>3

-----------------------------------------------------------------------------
(***************************************************************************)
(* Acceptor.                                                               *)
(***************************************************************************)

\* What a descriptor may be besides a connection.
Roles == {"free", "stdin", "listen", "idle", "other"}

\* RLIMIT_NOFILE has room for the descriptors that the constructor opens, and no peer has the
\* name of a role.
AcceptorConstants == Limit \in Nat /\ Limit > 2 /\ Peers \cap Roles = {}

\* The kernel's choice of a descriptor is a free one.
LEMMA FreeFd ==
    ASSUME AcceptorConstants, FreeFds # {}
    PROVE  /\ Min(FreeFds) \in Fds
           /\ table[Min(FreeFds)] = "free"
<1>1. FreeFds \subseteq Nat
  BY DEF FreeFds, Fds, AcceptorConstants
<1>2. \E x \in FreeFds : \A y \in FreeFds : x <= y
  BY <1>1, Least
<1>3. Min(FreeFds) \in FreeFds
  BY <1>2 DEF Min
<1> QED BY <1>3 DEF FreeFds

AcceptorTypeInv ==
    /\ othersRace \in BOOLEAN /\ listening_ \in BOOLEAN /\ newConnectionCallback_ \in BOOLEAN
    /\ table \in [Fds -> Roles \cup Peers]
    /\ backlog \in Seq(Peers) /\ arrived \subseteq Peers
    /\ idleFd_ \in Fds \cup {-1}
    /\ pc \in {"loop", "accept", "close", "open", "gone"}
    /\ closedOther \in BOOLEAN

\* A peer waits once, and not after its connection was handed out.
BacklogInv ==
    /\ \A k \in 1..Len(backlog) : backlog[k] \in arrived \ reported
    /\ \A j, k \in 1..Len(backlog) : backlog[j] = backlog[k] => j = k
    /\ reported \subseteq arrived /\ refused \subseteq arrived
    /\ \A fd \in Fds : table[fd] \in Peers => table[fd] \in arrived

\* idleFd_ is the spare descriptor between two events, a connection that nobody knows of
\* after the accept in its place, or -1; and unless other threads open files in between,
\* the place that it gave up stays free for it.
SpareInv ==
    /\ \A fd \in Fds : table[fd] = "listen" => fd = 1 /\ pc # "gone"
    /\ \A fd \in Fds : table[fd] = "idle" => fd = idleFd_ /\ pc = "loop"
    /\ pc = "loop" => idleFd_ = -1 \/ table[idleFd_] = "idle"
    /\ pc = "close" => idleFd_ = -1 \/ table[idleFd_] \in Peers \ reported
    /\ ~othersRace => /\ pc = "loop" => idleFd_ \in Fds
                      /\ pc = "close" => idleFd_ \in Fds \/ FreeFds # {}
                      /\ pc \in {"accept", "open"} => FreeFds # {}
    /\ ~closedOther

AcceptorInv ==
    AcceptorConstants /\ AcceptorTypeInv /\ BacklogInv /\ SpareInv /\ AcceptedIsReported

\* Taking the first peer out of the backlog, and adding one.
LEMMA BacklogSteps ==
    ASSUME AcceptorInv
    PROVE  /\ backlog # <<>> =>
                /\ Head(backlog) \in arrived \ reported /\ Head(backlog) \in Peers
                /\ Tail(backlog) \in Seq(Peers)
                /\ \A k \in 1..Len(Tail(backlog)) :
                       Tail(backlog)[k] \in arrived \ (reported \cup {Head(backlog)})
                /\ \A j, k \in 1..Len(Tail(backlog)) :
                       Tail(backlog)[j] = Tail(backlog)[k] => j = k
           /\ \A p \in Peers \ arrived :
                /\ Append(backlog, p) \in Seq(Peers)
                /\ \A k \in 1..Len(Append(backlog, p)) :
                       Append(backlog, p)[k] \in (arrived \cup {p}) \ reported
                /\ \A j, k \in 1..Len(Append(backlog, p)) :
                       Append(backlog, p)[j] = Append(backlog, p)[k] => j = k
<1> USE DEF AcceptorInv, AcceptorTypeInv, BacklogInv
<1>1. ASSUME backlog # <<>>
      PROVE  /\ Head(backlog) \in arrived \ reported /\ Head(backlog) \in Peers
             /\ Tail(backlog) \in Seq(Peers)
             /\ \A k \in 1..Len(Tail(backlog)) :
                    Tail(backlog)[k] \in arrived \ (reported \cup {Head(backlog)})
             /\ \A j, k \in 1..Len(Tail(backlog)) :
                    Tail(backlog)[j] = Tail(backlog)[k] => j = k
  <2>1. /\ Tail(backlog) \in Seq(Peers)
        /\ Len(Tail(backlog)) = Len(backlog) - 1 /\ Len(backlog) \in Nat \ {0}
        /\ \A i \in 1..Len(Tail(backlog)) : Tail(backlog)[i] = backlog[i + 1]
        /\ Head(backlog) = backlog[1]
    BY <1>1, HeadTailProperties, EmptySeq
  <2>2. /\ 1 \in 1..Len(backlog) /\ backlog[1] \in Peers
        /\ \A i \in 1..Len(Tail(backlog)) : i + 1 \in 1..Len(backlog) /\ i + 1 # 1
    BY <2>1
  <2>3. \A i, j \in 1..Len(Tail(backlog)) : i + 1 = j + 1 => i = j
    BY <2>1
  <2> QED BY <2>1, <2>2, <2>3
<1>2. ASSUME NEW p \in Peers \ arrived
      PROVE  /\ Append(backlog, p) \in Seq(Peers)
             /\ \A k \in 1..Len(Append(backlog, p)) :
                    Append(backlog, p)[k] \in (arrived \cup {p}) \ reported
             /\ \A j, k \in 1..Len(Append(backlog, p)) :
                    Append(backlog, p)[j] = Append(backlog, p)[k] => j = k
  <2>1. /\ Append(backlog, p) \in Seq(Peers)
        /\ Len(Append(backlog, p)) = Len(backlog) + 1 /\ Len(backlog) \in Nat
        /\ \A i \in 1..Len(backlog) : Append(backlog, p)[i] = backlog[i]
        /\ Append(backlog, p)[Len(backlog) + 1] = p
    BY <1>2, AppendProperties
  <2>2. \A i \in 1..(Len(backlog) + 1) : i \in 1..Len(backlog) \/ i = Len(backlog) + 1
    BY <2>1
  <2> QED BY <1>2, <2>1, <2>2
<1> QED BY <1>1, <1>2

\* Every step keeps the types.
LEMMA AcceptorTypeNext == AcceptorInv /\ [Next]_vars => AcceptorTypeInv'
<1> SUFFICES ASSUME AcceptorInv, [Next]_vars PROVE AcceptorTypeInv'
  OBVIOUS
<1> USE DEF AcceptorTypeInv
<1>0. /\ AcceptorTypeInv /\ listenFd \in Fds /\ "free" \in Roles /\ "idle" \in Roles
      /\ "other" \in Roles
  BY DEF AcceptorInv, AcceptorConstants, listenFd, Fds, Roles
<1>1. FreeFds # {} => Min(FreeFds) \in Fds
  BY FreeFd DEF AcceptorInv
<1>2. CASE Listen
  BY <1>0, <1>2 DEF Listen
<1>3. ASSUME NEW fd \in Fds, HandleRead(fd) PROVE AcceptorTypeInv'
  <2>1. Head(backlog) \in Peers /\ Tail(backlog) \in Seq(Peers)
    BY <1>3, BacklogSteps DEF HandleRead, Readable
  <2> QED BY <1>0, <1>3, <2>1 DEF HandleRead
<1>4. CASE HandleReadFull
  <2>1. closedOther' \in BOOLEAN
    BY <1>4, Zenon DEF HandleReadFull, Close
  <2>2. table' \in [Fds -> Roles \cup Peers]
    BY <1>0, <1>4 DEF HandleReadFull, Close
  <2> QED BY <1>0, <1>4, <2>1, <2>2 DEF HandleReadFull
<1>5. CASE AcceptIdle
  <2>1. backlog # <<>> => Head(backlog) \in Peers /\ Tail(backlog) \in Seq(Peers)
    BY BacklogSteps
  <2> QED BY <1>0, <1>1, <1>5, <2>1 DEF AcceptIdle
<1>6. CASE CloseIdle
  <2>1. closedOther' \in BOOLEAN
    BY <1>6, Zenon DEF CloseIdle, Close
  <2>2. table' \in [Fds -> Roles \cup Peers]
    BY <1>0, <1>6 DEF CloseIdle, Close
  <2> QED BY <1>0, <1>6, <2>1, <2>2 DEF CloseIdle
<1>7. CASE OpenIdle
  BY <1>0, <1>1, <1>7 DEF OpenIdle
<1>8. CASE Destroy
  <2>1. <<>> \in Seq(Peers)
    BY EmptySeq
  <2> QED BY <1>0, <1>8, <2>1 DEF Destroy
<1>9. ASSUME NEW p \in Peers, Connect(p) PROVE AcceptorTypeInv'
  <2>1. Append(backlog, p) \in Seq(Peers)
    BY <1>0, <1>9, BacklogSteps DEF Connect
  <2> QED BY <1>0, <1>9, <2>1 DEF Connect
<1>10. CASE Abort
  <2>1. Tail(backlog) \in Seq(Peers)
    BY <1>10, BacklogSteps DEF Abort
  <2> QED BY <1>0, <1>10, <2>1 DEF Abort
<1>11. CASE OpenOther
  BY <1>0, <1>1, <1>11 DEF OpenOther
<1>12. ASSUME NEW fd \in Fds, CloseConnection(fd) \/ CloseOther(fd) PROVE AcceptorTypeInv'
  BY <1>0, <1>12 DEF CloseConnection, CloseOther
<1>13. CASE UNCHANGED vars
  BY <1>0, <1>13 DEF vars
<1> QED
  BY <1>2, <1>3, <1>4, <1>5, <1>6, <1>7, <1>8, <1>9, <1>10, <1>11, <1>12, <1>13
  DEF Next, AcceptStep

\* A peer is waiting, connected or gone, but never two of these.
LEMMA AcceptorBacklogNext == AcceptorInv /\ [Next]_vars => BacklogInv'
<1> SUFFICES ASSUME AcceptorInv, [Next]_vars PROVE BacklogInv'
  OBVIOUS
<1> USE DEF BacklogInv
<1>0. /\ AcceptorTypeInv /\ BacklogInv /\ Roles \cap Peers = {}
      /\ "free" \in Roles /\ "idle" \in Roles /\ "other" \in Roles
  BY DEF AcceptorInv, AcceptorConstants, Roles
<1>t. table \in [Fds -> Roles \cup Peers]
  BY <1>0 DEF AcceptorTypeInv
<1>1. FreeFds # {} => Min(FreeFds) \in Fds
  BY FreeFd DEF AcceptorInv
<1>2. CASE Listen \/ UNCHANGED vars
  BY <1>0, <1>2 DEF Listen, vars
<1>3. ASSUME NEW fd \in Fds, HandleRead(fd) PROVE BacklogInv'
  <2>1. backlog # <<>>
    BY <1>3 DEF HandleRead, Readable
  <2>2. /\ backlog' = Tail(backlog) /\ arrived' = arrived
        /\ reported' \in {reported, reported \cup {Head(backlog)}}
        /\ refused' \in {refused, refused \cup {Head(backlog)}}
        /\ table' \in {table, [table EXCEPT ![fd] = Head(backlog)]}
    BY <1>3 DEF HandleRead
  <2> QED BY <1>0, <1>t, <2>1, <2>2, BacklogSteps
<1>4. CASE HandleReadFull
  BY <1>0, <1>t, <1>4 DEF HandleReadFull, Close
<1>5. CASE AcceptIdle
  <2>1. /\ UNCHANGED <<arrived, reported, refused>>
        /\ \/ UNCHANGED <<table, backlog>>
           \/ /\ FreeFds # {} /\ backlog # <<>>
              /\ table' = [table EXCEPT ![Min(FreeFds)] = Head(backlog)]
              /\ backlog' = Tail(backlog)
    BY <1>5 DEF AcceptIdle
  <2>2. CASE UNCHANGED <<table, backlog>>
    BY <1>0, <2>1, <2>2
  <2>3. ASSUME NEW fd \in Fds, backlog # <<>>, table' = [table EXCEPT ![fd] = Head(backlog)],
               backlog' = Tail(backlog)
        PROVE  BacklogInv'
    BY <1>0, <1>t, <2>1, <2>3, BacklogSteps
  <2> QED BY <1>1, <2>1, <2>2, <2>3
<1>6. CASE CloseIdle
  BY <1>0, <1>t, <1>6 DEF CloseIdle, Close
<1>7. CASE OpenIdle
  BY <1>0, <1>t, <1>1, <1>7 DEF OpenIdle
<1>8. CASE Destroy
  <2>1. /\ backlog' = <<>> /\ UNCHANGED <<arrived, reported>>
        /\ refused' = refused \cup {backlog[k] : k \in 1..Len(backlog)}
        /\ \A fd \in Fds : table'[fd] \in {"free", table[fd]}
    BY <1>8 DEF Destroy
  <2>2. refused' \subseteq arrived
    BY <1>0, <2>1
  <2>3. 1..Len(<<>>) = {}
    OBVIOUS
  <2> QED BY <1>0, <1>t, <2>1, <2>2, <2>3
<1>9. ASSUME NEW p \in Peers, Connect(p) PROVE BacklogInv'
  <2>1. /\ p \in Peers \ arrived /\ arrived' = arrived \cup {p} /\ backlog' = Append(backlog, p)
        /\ UNCHANGED <<table, reported, refused>>
    BY <1>9 DEF Connect
  <2> QED BY <1>0, <2>1, BacklogSteps
<1>10. CASE Abort
  <2>1. /\ backlog # <<>> /\ backlog' = Tail(backlog) /\ UNCHANGED <<table, reported, arrived>>
        /\ refused' = refused \cup {Head(backlog)}
    BY <1>10 DEF Abort
  <2> QED BY <1>0, <2>1, BacklogSteps
<1>11. CASE OpenOther
  BY <1>0, <1>t, <1>1, <1>11 DEF OpenOther
<1>12. ASSUME NEW fd \in Fds, CloseConnection(fd) \/ CloseOther(fd) PROVE BacklogInv'
  BY <1>0, <1>t, <1>12 DEF CloseConnection, CloseOther
<1> QED
  BY <1>2, <1>3, <1>4, <1>5, <1>6, <1>7, <1>8, <1>9, <1>10, <1>11, <1>12
  DEF Next, AcceptStep

\* The spare descriptor is what idleFd_ says, at every pc of handleRead.
LEMMA AcceptorSpareNext ==
    AcceptorInv /\ [Next]_vars => SpareInv' /\ (AcceptedIsReported)'
<1> DEFINE Goal == SpareInv' /\ (AcceptedIsReported)'
<1> SUFFICES ASSUME AcceptorInv, [Next]_vars PROVE Goal
  OBVIOUS
<1> USE DEF SpareInv, AcceptedIsReported, FreeFds
<1>0. /\ BacklogInv /\ SpareInv /\ AcceptedIsReported
      /\ Roles \cap Peers = {} /\ Roles = {"free", "stdin", "listen", "idle", "other"}
      /\ table \in [Fds -> Roles \cup Peers]
      /\ -1 \notin Fds /\ 1 \in Fds /\ idleFd_ \in Fds \cup {-1}
  BY DEF AcceptorInv, AcceptorTypeInv, AcceptorConstants, Roles, Fds
<1>p. \A p \in Peers : p \notin {"free", "stdin", "listen", "idle", "other"}
  BY <1>0
<1>1. FreeFds # {} => /\ Min(FreeFds) \in Fds
                          /\ table[Min(FreeFds)] = "free"
  BY FreeFd DEF AcceptorInv
<1>2. CASE Listen \/ UNCHANGED vars
  BY <1>0, <1>2 DEF Listen, vars
<1>3. ASSUME NEW fd \in Fds, HandleRead(fd) PROVE Goal
  <2>1. backlog # <<>> /\ pc = "loop" /\ table[fd] = "free"
    BY <1>1, <1>3 DEF HandleRead, Readable
  <2>2. Head(backlog) \in Peers
    BY <2>1, BacklogSteps
  <2>3. /\ UNCHANGED <<othersRace, idleFd_, pc, closedOther>>
        /\ \/ UNCHANGED <<table, reported>>
           \/ /\ table' = [table EXCEPT ![fd] = Head(backlog)]
              /\ reported' = IF fd > 0 THEN reported \cup {Head(backlog)} ELSE reported
    BY <1>3 DEF HandleRead, IsConnection
  <2>4. fd > 0 \/ fd = 0
    BY DEF Fds
  <2> QED BY <1>0, <1>p, <2>1, <2>2, <2>3, <2>4
<1>4. CASE HandleReadFull
  <2>1. /\ pc = "loop" /\ pc' = "accept" /\ UNCHANGED <<othersRace, idleFd_, reported>>
        /\ idleFd_ \in Fds => table[idleFd_] = "idle" /\ table' = [table EXCEPT ![idleFd_] = "free"]
        /\ idleFd_ = -1 => table' = table
    BY <1>0, <1>4 DEF HandleReadFull, Readable, Close
  <2>2. ~closedOther'
    BY <1>0, <1>4, <2>1 DEF HandleReadFull, Close
  <2> QED BY <1>0, <1>p, <2>1, <2>2
<1>5. CASE AcceptIdle
  <2>1. /\ pc = "accept" /\ pc' = "close" /\ UNCHANGED <<othersRace, reported, closedOther>>
        /\ \/ UNCHANGED table /\ idleFd_' = -1
           \/ /\ FreeFds # {} /\ backlog # <<>>
              /\ idleFd_' = Min(FreeFds)
              /\ table' = [table EXCEPT ![Min(FreeFds)] = Head(backlog)]
    BY <1>5 DEF AcceptIdle
  <2>2. CASE UNCHANGED table /\ idleFd_' = -1
    BY <1>0, <2>1, <2>2
  <2>3. ASSUME NEW fd \in Fds, table[fd] = "free", backlog # <<>>, idleFd_' = fd,
               table' = [table EXCEPT ![fd] = Head(backlog)]
        PROVE  Goal
    <3>1. Head(backlog) \in Peers \ reported
      BY <2>3, BacklogSteps
    <3> QED BY <1>0, <1>p, <2>1, <2>3, <3>1
  <2> QED BY <1>1, <2>1, <2>2, <2>3
<1>6. CASE CloseIdle
  <2>1. /\ pc = "close" /\ pc' = "open" /\ UNCHANGED <<othersRace, idleFd_, reported>>
        /\ idleFd_ \in Fds => table[idleFd_] \in Peers /\ table' = [table EXCEPT ![idleFd_] = "free"]
        /\ idleFd_ = -1 => table' = table
    BY <1>0, <1>6 DEF CloseIdle, Close
  <2>2. ~closedOther'
    BY <1>0, <1>6, <2>1 DEF CloseIdle, Close
  <2> QED BY <1>0, <1>p, <2>1, <2>2
<1>7. CASE OpenIdle
  <2>1. /\ pc = "open" /\ pc' = "loop" /\ UNCHANGED <<othersRace, reported, closedOther>>
        /\ \/ UNCHANGED table /\ idleFd_' = -1 /\ FreeFds = {}
           \/ /\ FreeFds # {} /\ idleFd_' = Min(FreeFds)
              /\ table' = [table EXCEPT ![Min(FreeFds)] = "idle"]
    BY <1>7 DEF OpenIdle
  <2>2. CASE UNCHANGED table /\ idleFd_' = -1 /\ FreeFds = {}
    BY <1>0, <2>1, <2>2
  <2>3. ASSUME NEW fd \in Fds, table[fd] = "free", idleFd_' = fd,
               table' = [table EXCEPT ![fd] = "idle"]
        PROVE  Goal
    BY <1>0, <1>p, <2>1, <2>3
  <2> QED BY <1>1, <2>1, <2>2, <2>3
<1>8. CASE Destroy
  BY <1>0, <1>p, <1>8 DEF Destroy, listenFd
<1>9. CASE (\E p \in Peers : Connect(p)) \/ Abort
  BY <1>0, <1>9 DEF Connect, Abort
<1>10. CASE OpenOther
  <2>1. /\ pc \in {"loop", "gone"} \/ othersRace
        /\ FreeFds # {}
        /\ table' = [table EXCEPT ![Min(FreeFds)] = "other"]
        /\ UNCHANGED <<othersRace, idleFd_, pc, reported, closedOther>>
    BY <1>10 DEF OpenOther, Others
  <2>2. ASSUME NEW fd \in Fds, table[fd] = "free", table' = [table EXCEPT ![fd] = "other"]
        PROVE  Goal
    BY <1>0, <1>p, <2>1, <2>2
  <2> QED BY <1>1, <2>1, <2>2
<1>11. ASSUME NEW fd \in Fds, CloseConnection(fd) \/ CloseOther(fd) PROVE Goal
  <2>1. /\ pc \in {"loop", "gone"} \/ othersRace
        /\ table' = [table EXCEPT ![fd] = "free"]
        /\ UNCHANGED <<othersRace, idleFd_, pc, reported, closedOther>>
        /\ table[fd] = "other" \/ table[fd] \in reported
    BY <1>11 DEF CloseConnection, CloseOther, Others
  <2>2. reported \subseteq Peers
    BY DEF AcceptorInv, BacklogInv, AcceptorTypeInv
  <2>3. pc = "loop" => fd # idleFd_
    BY <1>0, <1>p, <2>1, <2>2
  <2>4. pc = "close" => fd # idleFd_
    BY <1>0, <1>p, <2>1
  <2> QED BY <1>0, <1>p, <2>1, <2>2, <2>3, <2>4
<1> QED
  BY <1>2, <1>3, <1>4, <1>5, <1>6, <1>7, <1>8, <1>9, <1>10, <1>11 DEF Next, AcceptStep

\* The descriptors of the acceptor are in step with the table of the process at all times.
LEMMA AcceptorInvariant == ASSUME AcceptorConstants PROVE Spec => []AcceptorInv
<1>1. Init => AcceptorInv
  <2> SUFFICES ASSUME Init PROVE AcceptorInv
    OBVIOUS
  <2>0. /\ 2 \in Fds /\ -1 \notin Fds /\ Roles \cap Peers = {}
        /\ Roles = {"free", "stdin", "listen", "idle", "other"}
    BY DEF AcceptorConstants, Fds, Roles
  <2>1. PICK stdin \in {"stdin", "free"} :
            table = [fd \in Fds |-> CASE fd = 0 -> stdin
                                          [] fd = 1 -> "listen"
                                          [] fd = 2 -> "idle"
                                          [] OTHER -> "free"]
    BY DEF Init
  <2>2. /\ table \in [Fds -> Roles]
        /\ \A fd \in Fds : (table[fd] = "listen" => fd = 1) /\ (table[fd] = "idle" <=> fd = 2)
    BY <2>0, <2>1
  <2>3. AcceptorTypeInv
    BY <2>0, <2>2, EmptySeq DEF Init, AcceptorTypeInv
  <2>4. 1..Len(<<>>) = {}
    OBVIOUS
  <2>5. BacklogInv /\ AcceptedIsReported
    BY <2>0, <2>2, <2>4 DEF Init, BacklogInv, AcceptedIsReported
  <2>6. SpareInv
    BY <2>0, <2>2 DEF Init, SpareInv
  <2> QED BY <2>3, <2>5, <2>6 DEF AcceptorInv
<1>2. AcceptorInv /\ [Next]_vars => AcceptorInv'
  BY AcceptorTypeNext, AcceptorBacklogNext, AcceptorSpareNext DEF AcceptorInv, AcceptorConstants
<1> QED BY <1>1, <1>2, PTL DEF Spec

\* The acceptor closes none but its own descriptors, although idleFd_ stands for three
\* different ones within handleRead; outside of it the spare is open, unless other threads
\* open files in between; and the destructor leaves neither open (Acceptor.cpp:15-34, 70-76).
THEOREM AcceptorOwnDescriptors ==
    ASSUME AcceptorConstants PROVE Spec => []OwnDescriptors
<1>1. AcceptorInv => OwnDescriptors
  <2> SUFFICES ASSUME AcceptorInv PROVE OwnDescriptors
    OBVIOUS
  <2>1. TypeOK
    BY DEF AcceptorInv, AcceptorTypeInv, BacklogInv, Roles, TypeOK
  <2>2. ClosesItsOwn
    BY DEF AcceptorInv, SpareInv, ClosesItsOwn
  <2>3. SpareKept
    BY DEF AcceptorInv, AcceptorConstants, SpareInv, SpareKept, Fds
  <2>4. DestroyedClosesAll
    BY DEF AcceptorInv, SpareInv, DestroyedClosesAll
  <2> QED BY <2>1, <2>2, <2>3, <2>4 DEF OwnDescriptors
<1> QED BY <1>1, AcceptorInvariant, PTL

\* No descriptor of a connection is open that nobody was told of, except the one that is
\* about to be closed for want of descriptors, and except descriptor 0 (Acceptor.cpp:52-76).
THEOREM AcceptorAcceptedIsReported ==
    ASSUME AcceptorConstants PROVE Spec => []AcceptedIsReported
<1>1. AcceptorInv => AcceptedIsReported
  BY DEF AcceptorInv
<1> QED BY <1>1, AcceptorInvariant, PTL

-----------------------------------------------------------------------------
(***************************************************************************)
(* CountDownLatch.                                                         *)
(***************************************************************************)

\* What Base calls v1, v2, ... for a latch; pc is called latchPc here.
mutex == v1
holder_ == v2
count_ == v3
latchPc == v4

USE DEF mutex, holder_, count_, latchPc

LatchConstants == La!Nobody \notin La!Threads /\ Count \in Int /\ Waiters \cap Counters = {}

LatchInv == LatchConstants /\ La!HolderInStep /\ La!OpensOnce

\* A latch starts closed and its mutex free.
LEMMA LatchInvInit == ASSUME LatchConstants, La!LatchInit PROVE LatchInv
BY DEF LatchConstants, La!LatchInit, LatchInv, La!HolderInStep, La!LatchTypeOK, La!OpensOnce,
   La!Inside, La!Threads

\* Every step of a thread in wait() or countDown() keeps the invariant.
LEMMA LatchInvNext == ASSUME LatchInv, [La!LatchNext]_(La!latchVars) PROVE LatchInv'
<1> USE DEF LatchInv, LatchConstants, La!HolderInStep, La!LatchTypeOK, La!OpensOnce, La!Inside,
   La!Threads
<1>1. ASSUME NEW t \in La!Threads, La!Call(t) \/ La!SpuriousWakeup(t) PROVE LatchInv'
  BY <1>1 DEF La!Call, La!SpuriousWakeup, La!Goes
<1>2. ASSUME NEW t \in La!Threads, La!Lock(t) PROVE LatchInv'
  BY <1>2 DEF La!Lock, La!Goes
<1>3. ASSUME NEW t \in La!Threads, La!AssignHolder(t) PROVE LatchInv'
  BY <1>3 DEF La!AssignHolder, La!Goes
<1>4. ASSUME NEW t \in La!Threads, La!MustWait(t) PROVE LatchInv'
  BY <1>4 DEF La!MustWait, La!Goes
<1>5. ASSUME NEW t \in La!Threads, La!Wait(t) PROVE LatchInv'
  BY <1>5 DEF La!Wait, La!Goes
<1>6. ASSUME NEW t \in La!Threads, La!WaitOver(t) PROVE LatchInv'
  BY <1>6 DEF La!WaitOver, La!Goes
<1>7. ASSUME NEW t \in La!Threads, La!CountDown(t) PROVE LatchInv'
  <2>1. /\ latchPc[t] = "locked" /\ count_' = count_ - 1 /\ UNCHANGED <<mutex, holder_>>
        /\ latchPc'[t] = "unassign"
        /\ latchPc' \in [La!Threads -> La!Inside \cup {"outside", "lock", "blocked", "returned"}]
        /\ \A u \in La!Threads : u # t => latchPc'[u] = latchPc[u] \/ (latchPc[u] = "blocked" /\ latchPc'[u] = "lock")
    BY <1>7 DEF La!CountDown
  <2>2. \A u \in La!Threads : u # t => latchPc[u] \notin La!Inside
    BY <2>1
  <2>3. La!HolderInStep'
    BY <2>1, <2>2
  <2>4. ASSUME NEW u \in Waiters
        PROVE  /\ latchPc'[u] \in {"unassign", "unlock", "returned"} => count_' <= 0
               /\ latchPc'[u] \in {"sleep", "blocked"} => count_' > 0
    <3>1. u # t /\ count_ \in Int
      BY <1>7 DEF La!CountDown
    <3> QED BY <1>7, <2>1, <2>2, <3>1 DEF La!CountDown
  <2> QED BY <2>3, <2>4
<1>8. ASSUME NEW t \in La!Threads, La!Leave(t) PROVE LatchInv'
  BY <1>8 DEF La!Leave, La!Goes
<1>9. CASE UNCHANGED La!latchVars
  BY <1>9 DEF La!latchVars
<1> QED BY <1>1, <1>2, <1>3, <1>4, <1>5, <1>6, <1>7, <1>8, <1>9 DEF La!LatchNext, La!LatchStep

\* holder_ is the thread in the critical section of MutexLockGuard and nobody else.
THEOREM LatchHolderInStep == LatchConstants /\ La!LatchSpec => []La!HolderInStep
<1>1. LatchInv => La!HolderInStep
  BY DEF LatchInv
<1>2. LatchConstants /\ La!LatchInit => LatchInv
  BY LatchInvInit
<1>3. LatchInv /\ [La!LatchNext]_(La!latchVars) => LatchInv'
  BY LatchInvNext
<1> QED BY <1>1, <1>2, <1>3, PTL DEF La!LatchSpec

\* wait() returns only when the count has reached 0, and nobody blocks after that.
THEOREM LatchOpensOnce == LatchConstants /\ La!LatchSpec => []La!OpensOnce
<1>1. LatchInv => La!OpensOnce
  BY DEF LatchInv
<1>2. LatchConstants /\ La!LatchInit => LatchInv
  BY LatchInvInit
<1>3. LatchInv /\ [La!LatchNext]_(La!latchVars) => LatchInv'
  BY LatchInvNext
<1> QED BY <1>1, <1>2, <1>3, PTL DEF La!LatchSpec

-----------------------------------------------------------------------------
(***************************************************************************)
(* Thread.                                                                 *)
(***************************************************************************)

started_ == v5
joined_ == v6
tid_ == v7
owner == v8
child == v9
failed == v10

USE DEF started_, joined_, tid_, owner, child, failed

\* What the latch promises holds of the one in a Thread, which one thread waits for and the
\* other counts down.
OwnerLatchInv == Th!LatchAssumption /\ Th!HolderInStep /\ Th!OpensOnce

\* The latch of a Thread starts closed, too.
LEMMA OwnerLatchInit == ASSUME Th!LatchAssumption, Th!LatchInit PROVE OwnerLatchInv
BY DEF Th!LatchAssumption, Th!LatchInit, OwnerLatchInv, Th!HolderInStep, Th!LatchTypeOK, Th!OpensOnce,
   Th!Inside, Th!Threads

\* The owner in wait() and the new thread in countDown() keep what the latch promises.
LEMMA OwnerLatchNext == ASSUME OwnerLatchInv, [Th!LatchNext]_(Th!latchVars) PROVE OwnerLatchInv'
<1> USE DEF OwnerLatchInv, Th!LatchAssumption, Th!HolderInStep, Th!LatchTypeOK, Th!OpensOnce, Th!Inside,
   Th!Threads
<1>1. ASSUME NEW t \in Th!Threads, Th!Call(t) \/ Th!SpuriousWakeup(t) PROVE OwnerLatchInv'
  BY <1>1 DEF Th!Call, Th!SpuriousWakeup, Th!Goes
<1>2. ASSUME NEW t \in Th!Threads, Th!Lock(t) PROVE OwnerLatchInv'
  BY <1>2 DEF Th!Lock, Th!Goes
<1>3. ASSUME NEW t \in Th!Threads, Th!AssignHolder(t) PROVE OwnerLatchInv'
  BY <1>3 DEF Th!AssignHolder, Th!Goes
<1>4. ASSUME NEW t \in Th!Threads, Th!MustWait(t) PROVE OwnerLatchInv'
  BY <1>4 DEF Th!MustWait, Th!Goes
<1>5. ASSUME NEW t \in Th!Threads, Th!Wait(t) PROVE OwnerLatchInv'
  BY <1>5 DEF Th!Wait, Th!Goes
<1>6. ASSUME NEW t \in Th!Threads, Th!WaitOver(t) PROVE OwnerLatchInv'
  BY <1>6 DEF Th!WaitOver, Th!Goes
<1>7. ASSUME NEW t \in Th!Threads, Th!CountDown(t) PROVE OwnerLatchInv'
  <2>1. /\ latchPc[t] = "locked" /\ count_' = count_ - 1 /\ UNCHANGED <<mutex, holder_>>
        /\ latchPc'[t] = "unassign"
        /\ latchPc' \in [Th!Threads -> Th!Inside \cup {"outside", "lock", "blocked", "returned"}]
        /\ \A u \in Th!Threads : u # t => latchPc'[u] = latchPc[u] \/ (latchPc[u] = "blocked" /\ latchPc'[u] = "lock")
    BY <1>7 DEF Th!CountDown
  <2>2. \A u \in Th!Threads : u # t => latchPc[u] \notin Th!Inside
    BY <2>1
  <2>3. Th!HolderInStep'
    BY <2>1, <2>2
  <2>4. ASSUME NEW u \in {Owner}
        PROVE  /\ latchPc'[u] \in {"unassign", "unlock", "returned"} => count_' <= 0
               /\ latchPc'[u] \in {"sleep", "blocked"} => count_' > 0
    <3>1. u # t /\ count_ \in Int
      BY <1>7 DEF Th!CountDown
    <3> QED BY <1>7, <2>1, <2>2, <3>1 DEF Th!CountDown
  <2> QED BY <2>3, <2>4
<1>8. ASSUME NEW t \in Th!Threads, Th!Leave(t) PROVE OwnerLatchInv'
  BY <1>8 DEF Th!Leave, Th!Goes
<1>9. CASE UNCHANGED Th!latchVars
  BY <1>9 DEF Th!latchVars
<1> QED BY <1>1, <1>2, <1>3, <1>4, <1>5, <1>6, <1>7, <1>8, <1>9 DEF Th!LatchNext, Th!LatchStep

ThreadTypeOK ==
    /\ started_ \in BOOLEAN /\ joined_ \in BOOLEAN /\ tid_ \in BOOLEAN
    /\ owner \in {"idle", "starting", "joining", "destroyed", "exited"}
    /\ child \in {"none", "born", "counting", "function", "over"}
    /\ failed = {}

\* The one count: it is taken in the critical section of the child, and the owner gets
\* past wait() only after the child has left that section.
CountInv ==
    /\ latchPc[Child] \in {"outside", "lock", "assign", "locked", "unassign", "unlock", "returned"}
    /\ count_ = IF latchPc[Child] \in {"unassign", "unlock", "returned"} THEN 0 ELSE 1
    /\ latchPc[Owner] \in {"unassign", "unlock", "returned"} => latchPc[Child] = "returned"

\* Where the two threads are in start(), join() and runInThread.
OwnerInv ==
    /\ ~started_ => latchPc[Owner] = "outside" /\ child = "none" /\ ~joined_
                    /\ owner \in {"idle", "destroyed", "exited"}
    /\ started_ => child # "none" /\ owner # "exited"
    /\ started_ /\ owner # "starting" => latchPc[Owner] = "returned"
    /\ child \in {"none", "born"} <=> latchPc[Child] = "outside"
    /\ child \in {"function", "over"} => latchPc[Child] = "returned"
    /\ child \notin {"none", "born"} => tid_
    /\ joined_ /\ owner # "joining" => child = "over"

ThreadInv == Th!LatchAssumption /\ OwnerLatchInv /\ ThreadTypeOK /\ CountInv /\ OwnerInv

\* A Thread starts before start().
LEMMA ThreadInvInit == ASSUME Th!LatchAssumption, Th!ThreadInit PROVE ThreadInv
<1>1. Th!LatchAssumption /\ Th!LatchInit
  BY DEF Th!ThreadInit
<1>2. OwnerLatchInv
  BY <1>1, OwnerLatchInit
<1> QED BY <1>1, <1>2 DEF ThreadInv, Th!ThreadInit, ThreadTypeOK, Th!LatchInit, CountInv, OwnerInv,
        Th!LatchAssumption, Th!Threads

\* A step within wait() or countDown() leaves the Thread alone.
LEMMA LatchStepInv ==
    ASSUME ThreadInv, NEW t \in Th!Threads, Th!LatchStep(t), UNCHANGED Th!threadVars
    PROVE  ThreadInv'
<1>1. OwnerLatchInv'
  BY OwnerLatchNext DEF ThreadInv, Th!LatchNext
<1>2. /\ Th!Threads = {Owner, Child} /\ Owner # Child
      /\ mutex \in Th!Threads \cup {Th!Nobody} /\ count_ \in Int
      /\ latchPc \in [Th!Threads -> Th!Inside \cup {"outside", "lock", "blocked", "returned"}]
      /\ \A u \in Th!Threads : mutex = u <=> latchPc[u] \in Th!Inside
  BY DEF ThreadInv, Th!LatchAssumption, Th!Threads, OwnerLatchInv, Th!HolderInStep, Th!LatchTypeOK
<1>3. CASE t = Owner
  <2>1. latchPc'[Child] = latchPc[Child] \/ latchPc[Owner] = "locked"
    BY <1>2, <1>3 DEF Th!LatchStep, Th!Lock, Th!AssignHolder, Th!MustWait, Th!Wait,
       Th!SpuriousWakeup, Th!WaitOver,
       Th!CountDown, Th!Leave, Th!Goes
  <2>2. latchPc'[Child] = latchPc[Child] /\ count_' = count_
    BY <1>2, <1>3 DEF Th!LatchStep, Th!Lock, Th!AssignHolder, Th!MustWait, Th!Wait,
       Th!SpuriousWakeup, Th!WaitOver,
       Th!CountDown, Th!Leave, Th!Goes
  <2>3. latchPc[Owner] \notin {"outside", "returned"}
    BY <1>2, <1>3 DEF Th!LatchStep, Th!Lock, Th!AssignHolder, Th!MustWait, Th!Wait,
       Th!SpuriousWakeup, Th!WaitOver,
       Th!CountDown, Th!Leave, Th!Goes
  <2>4. latchPc'[Owner] \in {"unassign", "unlock", "returned"} =>
            Th!WaitOver(Owner) \/ latchPc[Owner] \in {"unassign", "unlock"}
    BY <1>2, <1>3 DEF Th!LatchStep, Th!Lock, Th!AssignHolder, Th!MustWait, Th!Wait,
       Th!SpuriousWakeup, Th!WaitOver,
       Th!CountDown, Th!Leave, Th!Goes
  <2>5. Th!WaitOver(Owner) => latchPc[Child] = "returned"
    BY <1>2 DEF Th!WaitOver, Th!Goes, ThreadInv, CountInv, Th!Inside
  <2>6. CountInv'
    BY <2>2, <2>4, <2>5 DEF ThreadInv, CountInv
  <2>7. OwnerInv'
    BY <2>2, <2>3 DEF ThreadInv, OwnerInv, Th!threadVars
  <2> QED BY <1>1, <2>6, <2>7 DEF ThreadInv, ThreadTypeOK, Th!threadVars, Th!LatchAssumption
<1>4. CASE t = Child
  <2>1. latchPc[Child] \notin {"outside", "returned"} /\ latchPc'[Child] # "outside"
    BY <1>2, <1>4 DEF Th!LatchStep, Th!Lock, Th!AssignHolder, Th!MustWait, Th!Wait,
       Th!SpuriousWakeup, Th!WaitOver,
       Th!CountDown, Th!Leave, Th!Goes
  <2>2. latchPc[Owner] \notin {"unassign", "unlock", "returned"}
    BY <2>1 DEF ThreadInv, CountInv
  <2>3. /\ latchPc'[Owner] \notin {"unassign", "unlock", "returned"}
        /\ latchPc'[Owner] = "outside" <=> latchPc[Owner] = "outside"
    BY <1>2, <1>4, <2>2 DEF Th!LatchStep, Th!Lock, Th!AssignHolder, Th!MustWait, Th!Wait,
       Th!SpuriousWakeup,
       Th!WaitOver, Th!CountDown, Th!Leave, Th!Goes
  <2>4. /\ latchPc'[Child] \in {"lock", "assign", "locked", "unassign", "unlock", "returned"}
        /\ count_' = IF latchPc'[Child] \in {"unassign", "unlock", "returned"} THEN 0 ELSE 1
    <3>1. CASE Th!CountDown(Child)
      BY <1>2, <3>1 DEF Th!CountDown, ThreadInv, CountInv
    <3>2. CASE ~Th!CountDown(Child)
      BY <1>2, <1>4, <3>2 DEF Th!LatchStep, Th!Lock, Th!AssignHolder, Th!MustWait, Th!Wait,
         Th!SpuriousWakeup,
         Th!WaitOver, Th!Leave, Th!Goes, ThreadInv, CountInv
    <3> QED BY <3>1, <3>2
  <2>5. CountInv'
    BY <2>3, <2>4 DEF CountInv
  <2>6. OwnerInv'
    BY <2>1, <2>2, <2>3 DEF ThreadInv, OwnerInv, Th!threadVars
  <2> QED BY <1>1, <2>5, <2>6 DEF ThreadInv, ThreadTypeOK, Th!threadVars, Th!LatchAssumption
<1> QED BY <1>2, <1>3, <1>4

\* A step that leaves the latch alone.
LEMMA OutsideLatch ==
    ASSUME ThreadInv, UNCHANGED Th!latchVars, ThreadTypeOK', OwnerInv'
    PROVE  ThreadInv'
<1>1. OwnerLatchInv'
  BY OwnerLatchNext DEF ThreadInv
<1> QED BY <1>1 DEF ThreadInv, Th!LatchAssumption, CountInv, Th!latchVars

\* Every step of the owner and of the new thread keeps the invariant.
LEMMA ThreadInvNext ==
    ASSUME ThreadInv, [Th!ThreadNext]_<<Th!latchVars, Th!threadVars>>
    PROVE  ThreadInv'
<1>1. CASE Th!CreateFails \/ Th!Started \/ Th!Join \/ Th!Joined \/ Th!RunFunction \/ Th!FunctionOver
  <2>1. UNCHANGED Th!latchVars
    BY <1>1 DEF Th!CreateFails, Th!Started, Th!Join, Th!Joined, Th!RunFunction, Th!FunctionOver
  <2>2. ThreadTypeOK' /\ OwnerInv'
    <3> USE <2>1 DEF ThreadInv, ThreadTypeOK, OwnerInv, Th!latchVars
    <3>1. CASE Th!CreateFails
      BY <3>1 DEF Th!CreateFails
    <3>2. CASE Th!Join
      BY <3>2 DEF Th!Join
    <3>3. CASE Th!Started
      BY <3>3 DEF Th!Started, Th!Fails, CountInv
    <3>4. CASE Th!Joined
      BY <3>4 DEF Th!Joined
    <3>5. CASE Th!RunFunction \/ Th!FunctionOver
      BY <3>5 DEF Th!RunFunction, Th!FunctionOver
    <3> QED BY <1>1, <3>1, <3>2, <3>3, <3>4, <3>5
  <2> QED BY <2>1, <2>2, OutsideLatch
<1>2. CASE Th!Destroy
  <2>1. UNCHANGED Th!latchVars
    BY <1>2 DEF Th!Destroy
  <2>2. \A t \in {Owner, Child} : latchPc[t] \notin {"locked", "unassign"}
    BY <1>2 DEF Th!Destroy, ThreadInv, OwnerInv, CountInv
  <2>3. holder_ = Th!Nobody
    BY <2>2 DEF ThreadInv, OwnerLatchInv, Th!HolderInStep, Th!LatchTypeOK, Th!LatchAssumption, Th!Threads
  <2>4. ThreadTypeOK' /\ OwnerInv'
    BY <1>2, <2>1, <2>3 DEF ThreadInv, ThreadTypeOK, OwnerInv, Th!Destroy, Th!Fails, Th!latchVars
  <2> QED BY <2>1, <2>4, OutsideLatch
<1>3. CASE Th!Start
  <2>1. OwnerLatchInv' /\ Owner \in Th!Threads
    BY <1>3, OwnerLatchNext DEF Th!Start, Th!LatchNext, ThreadInv, Th!LatchAssumption, Th!Threads
  <2>2. /\ latchPc'[Owner] = "lock" /\ latchPc'[Child] = latchPc[Child] /\ count_' = count_
        /\ latchPc[Owner] = "outside"
    BY <1>3, <2>1 DEF Th!Start, Th!Call, Th!Goes, ThreadInv, OwnerLatchInv, Th!HolderInStep,
       Th!LatchTypeOK,
       Th!LatchAssumption, Th!Threads
  <2>3. CountInv' /\ OwnerInv' /\ ThreadTypeOK'
    BY <1>3, <2>2 DEF Th!Start, ThreadInv, CountInv, OwnerInv, ThreadTypeOK
  <2> QED BY <2>1, <2>3 DEF ThreadInv, Th!LatchAssumption
<1>4. CASE Th!WriteTid
  <2>1. OwnerLatchInv' /\ Child \in Th!Threads
    BY <1>4, OwnerLatchNext DEF Th!WriteTid, Th!LatchNext, ThreadInv, Th!LatchAssumption, Th!Threads
  <2>2. /\ latchPc'[Child] = "lock" /\ latchPc'[Owner] = latchPc[Owner] /\ count_' = count_
        /\ latchPc[Child] = "outside"
    BY <1>4, <2>1 DEF Th!WriteTid, Th!Call, Th!Goes, ThreadInv, OwnerLatchInv, Th!HolderInStep,
       Th!LatchTypeOK,
       Th!LatchAssumption, Th!Threads
  <2>3. CountInv' /\ OwnerInv' /\ ThreadTypeOK'
    BY <1>4, <2>2 DEF Th!WriteTid, ThreadInv, CountInv, OwnerInv, ThreadTypeOK
  <2> QED BY <2>1, <2>3 DEF ThreadInv, Th!LatchAssumption
<1>5. CASE Th!InLatch
  BY <1>5, LatchStepInv DEF Th!InLatch
<1>6. CASE UNCHANGED <<Th!latchVars, Th!threadVars>>
  BY <1>6, OutsideLatch DEF ThreadInv, ThreadTypeOK, OwnerInv, Th!latchVars, Th!threadVars
<1> QED BY <1>1, <1>2, <1>3, <1>4, <1>5, <1>6 DEF Th!ThreadNext

\* holder_ is right in the latch of a Thread, too.
LEMMA ThreadHolderInStep == Th!LatchAssumption /\ Th!ThreadSpec => []Th!HolderInStep
<1>1. ThreadInv => Th!HolderInStep
  BY DEF ThreadInv, OwnerLatchInv
<1>2. Th!LatchAssumption /\ Th!ThreadInit => ThreadInv
  BY ThreadInvInit
<1>3. ThreadInv /\ [Th!ThreadNext]_<<Th!latchVars, Th!threadVars>> => ThreadInv'
  BY ThreadInvNext
<1> QED BY <1>1, <1>2, <1>3, PTL DEF Th!ThreadSpec

\* The new thread does not use the Thread object, nor its latch or the latch's mutex, once
\* the owner has destroyed it; a thread that was joined is over, and no assert fails.
THEOREM ThreadObjectOutlived == Th!LatchAssumption /\ Th!ThreadSpec => []Th!ObjectOutlived
<1>1. ThreadInv => Th!ObjectOutlived
  <2> SUFFICES ASSUME ThreadInv PROVE Th!ObjectOutlived
    OBVIOUS
  <2>1. CASE owner = "destroyed"
    <3>1. /\ latchPc[Owner] \in {"outside", "returned"} /\ latchPc[Child] \in {"outside", "returned"}
          /\ child # "born"
      BY <2>1 DEF ThreadInv, OwnerInv, CountInv
    <3>2. mutex = Th!Nobody
      BY <3>1 DEF ThreadInv, OwnerLatchInv, Th!HolderInStep, Th!LatchTypeOK, Th!LatchAssumption,
         Th!Threads, Th!Inside
    <3> QED BY <2>1, <3>1, <3>2 DEF ThreadInv, ThreadTypeOK, OwnerInv, Th!ObjectOutlived
  <2> QED BY <2>1 DEF ThreadInv, ThreadTypeOK, Th!ObjectOutlived
<1>2. Th!LatchAssumption /\ Th!ThreadInit => ThreadInv
  BY ThreadInvInit
<1>3. ThreadInv /\ [Th!ThreadNext]_<<Th!latchVars, Th!threadVars>> => ThreadInv'
  BY ThreadInvNext
<1> QED BY <1>1, <1>2, <1>3, PTL DEF Th!ThreadSpec

-----------------------------------------------------------------------------
(***************************************************************************)
(* Buffer.                                                                 *)
(***************************************************************************)

\* What Base calls them.
buffer_ == v1
readerIndex_ == v2
writerIndex_ == v3
ok == v4
content == v5

USE DEF buffer_, readerIndex_, writerIndex_, ok, content

BufferConstants == Buf!SizeAssumption /\ Widths \subseteq Nat

\* Some sequence, of whatever values.
IsSequence(s) == Len(s) \in Nat /\ s = [k \in 1..Len(s) |-> s[k]]

\* b is a buffer whose asserts have held and that holds the queue of bytes c.
Holds(b, c) ==
    /\ b = [buf |-> b.buf, reader |-> b.reader, writer |-> b.writer, ok |-> b.ok]
    /\ IsSequence(b.buf) /\ IsSequence(c)
    /\ b.reader \in Nat /\ b.writer \in Nat
    /\ b.reader <= b.writer /\ b.writer <= Len(b.buf) /\ kCheapPrepend <= Len(b.buf)
    /\ Len(c) = b.writer - b.reader
    /\ \A k \in 1..Len(c) : c[k] = b.buf[b.reader + k]
    /\ b.ok = TRUE

\* A function on 1..n is a sequence.
LEMMA FunctionIsSequence ==
    ASSUME NEW n \in Nat, NEW f, f = [k \in 1..n |-> f[k]]
    PROVE  IsSequence(f) /\ Len(f) = n
<1> DEFINE S == {f[k] : k \in 1..n}
<1>1. f \in [1..n -> S]
  OBVIOUS
<1>2. f \in Seq(S)
  BY <1>1
<1>3. Len(f) = n
  BY <1>1, <1>2, LenProperties
<1> QED BY <1>3 DEF IsSequence

\* Two sequences are sequences over the values of both.
LEMMA SequencesOverValues ==
    ASSUME NEW s, NEW t, IsSequence(s), IsSequence(t)
    PROVE  \E S : s \in Seq(S) /\ t \in Seq(S)
<1> DEFINE S == {s[k] : k \in 1..Len(s)} \cup {t[k] : k \in 1..Len(t)}
<1>1. s \in [1..Len(s) -> S] /\ t \in [1..Len(t) -> S]
  BY DEF IsSequence
<1>2. s \in Seq(S) /\ t \in Seq(S)
  BY <1>1 DEF IsSequence
<1> QED BY <1>2

\* Concatenation of sequences, element by element.
LEMMA Concatenation ==
    ASSUME NEW s, NEW t, IsSequence(s), IsSequence(t)
    PROVE  /\ IsSequence(s \o t) /\ Len(s \o t) = Len(s) + Len(t)
           /\ \A k \in 1..(Len(s) + Len(t)) :
                  (s \o t)[k] = IF k <= Len(s) THEN s[k] ELSE t[k - Len(s)]
<1>1. PICK S : s \in Seq(S) /\ t \in Seq(S)
  BY SequencesOverValues
<1>2. /\ s \o t \in Seq(S) /\ Len(s \o t) = Len(s) + Len(t)
      /\ \A i \in 1..(Len(s) + Len(t)) :
             (s \o t)[i] = IF i <= Len(s) THEN s[i] ELSE t[i - Len(s)]
  BY <1>1, ConcatProperties
<1>3. s \o t = [k \in 1..Len(s \o t) |-> (s \o t)[k]] /\ Len(s \o t) \in Nat
  BY <1>2, LenProperties
<1> QED BY <1>2, <1>3 DEF IsSequence

\* A part of a sequence, element by element.
LEMMA Part ==
    ASSUME NEW s, IsSequence(s), NEW m \in Nat, NEW n \in Nat, 1 <= m, m <= n + 1, n <= Len(s)
    PROVE  /\ IsSequence(SubSeq(s, m, n)) /\ Len(SubSeq(s, m, n)) = n + 1 - m
           /\ \A k \in 1..(n + 1 - m) : SubSeq(s, m, n)[k] = s[m + k - 1]
<1>1. SubSeq(s, m, n) = [k \in 1..(n + 1 - m) |-> s[k + m - 1]]
  <2>1. SubSeq(s, m, n) = [k \in 1..(1 + n - m) |-> s[k + m - 1]]
    OBVIOUS
  <2> QED BY <2>1
<1>2. n + 1 - m \in Nat
  OBVIOUS
<1>3. \A k \in 1..(n + 1 - m) : SubSeq(s, m, n)[k] = s[k + m - 1] /\ k + m - 1 = m + k - 1
  BY <1>1
<1>4. SubSeq(s, m, n) = [k \in 1..(n + 1 - m) |-> SubSeq(s, m, n)[k]]
  BY <1>1
<1>5. IsSequence(SubSeq(s, m, n)) /\ Len(SubSeq(s, m, n)) = n + 1 - m
  BY <1>2, <1>4, FunctionIsSequence
<1> QED BY <1>3, <1>5

\* Copying into the vector, element by element.
LEMMA CopiedElements ==
    ASSUME NEW buf, IsSequence(buf), NEW pos \in Nat, NEW data, IsSequence(data)
    PROVE  /\ IsSequence(Buf!Copied(buf, pos, data)) /\ Len(Buf!Copied(buf, pos, data)) = Len(buf)
           /\ \A k \in 1..Len(buf) : Buf!Copied(buf, pos, data)[k] =
                  IF pos < k /\ k <= pos + Len(data) THEN data[k - pos] ELSE buf[k]
<1>1. \A k \in 1..Len(buf) : Buf!Copied(buf, pos, data)[k] =
          IF pos < k /\ k <= pos + Len(data) THEN data[k - pos] ELSE buf[k]
  BY DEF Buf!Copied
<1>2. Buf!Copied(buf, pos, data) = [k \in 1..Len(buf) |-> Buf!Copied(buf, pos, data)[k]]
  BY DEF Buf!Copied
<1> QED BY <1>1, <1>2, FunctionIsSequence DEF IsSequence

\* Resizing, element by element: vector::resize keeps the front and adds zeros.
LEMMA ResizedElements ==
    ASSUME NEW buf, IsSequence(buf), NEW n \in Nat
    PROVE  /\ IsSequence(Buf!Resized(buf, n)) /\ Len(Buf!Resized(buf, n)) = n
           /\ \A k \in 1..n : Buf!Resized(buf, n)[k] = IF k <= Len(buf) THEN buf[k] ELSE 0
<1>1. \A k \in 1..n : Buf!Resized(buf, n)[k] = IF k <= Len(buf) THEN buf[k] ELSE 0
  BY DEF Buf!Resized
<1>2. Buf!Resized(buf, n) = [k \in 1..n |-> Buf!Resized(buf, n)[k]]
  BY DEF Buf!Resized
<1> QED BY <1>1, <1>2, FunctionIsSequence

\* The readable bytes are the content.
LEMMA ReadableIsContent ==
    ASSUME NEW b, NEW c, Holds(b, c)
    PROVE  Buf!Readable(b) = c
<1>1. /\ IsSequence(Buf!Readable(b)) /\ Len(Buf!Readable(b)) = b.writer - b.reader
      /\ \A k \in 1..(b.writer - b.reader) : Buf!Readable(b)[k] = b.buf[b.reader + 1 + k - 1]
  <2>1. /\ b.reader + 1 \in Nat /\ 1 <= b.reader + 1 /\ b.reader + 1 <= b.writer + 1
        /\ b.writer \in Nat /\ b.writer <= Len(b.buf) /\ IsSequence(b.buf)
        /\ b.writer + 1 - (b.reader + 1) = b.writer - b.reader
    BY DEF Holds
  <2>2. Buf!Readable(b) = SubSeq(b.buf, b.reader + 1, b.writer)
    BY DEF Buf!Readable
  <2>3. PICK m, n, s : m = b.reader + 1 /\ n = b.writer /\ s = b.buf
    OBVIOUS
  <2>4. IsSequence(s) /\ m \in Nat /\ n \in Nat /\ 1 <= m /\ m <= n + 1 /\ n <= Len(s)
    BY <2>1, <2>3
  <2>5. /\ IsSequence(SubSeq(s, m, n)) /\ Len(SubSeq(s, m, n)) = n + 1 - m
        /\ \A k \in 1..(n + 1 - m) : SubSeq(s, m, n)[k] = s[m + k - 1]
    BY <2>4, Part, Zenon
  <2> QED BY <2>1, <2>2, <2>3, <2>5, Zenon
<1>2. \A k \in 1..Len(c) : Buf!Readable(b)[k] = c[k]
  <2>1. \A k \in 1..Len(c) : b.reader + 1 + k - 1 = b.reader + k /\ k \in 1..(b.writer - b.reader)
    BY DEF Holds
  <2> QED BY <1>1, <2>1 DEF Holds
<1>3. Buf!Readable(b) = [k \in 1..Len(c) |-> Buf!Readable(b)[k]] /\ c = [k \in 1..Len(c) |-> c[k]]
  BY <1>1 DEF Holds, IsSequence
<1> QED BY <1>2, <1>3

\* makeSpace keeps the content and makes the room, and moves it only to the front.
LEMMA MakeSpaceKeeps ==
    ASSUME BufferConstants, NEW b, NEW c, Holds(b, c), NEW len \in Nat, Buf!writableBytes(b) < len
    PROVE  Holds(Buf!MakeSpace(b, len), c) /\ Buf!writableBytes(Buf!MakeSpace(b, len)) >= len
<1> SUFFICES ASSUME NEW d, d = Buf!MakeSpace(b, len)
             PROVE Holds(d, c) /\ Buf!writableBytes(d) >= len
  OBVIOUS
<1> kCheapPrepend \in Nat
  BY DEF BufferConstants, Buf!SizeAssumption
<1>1. CASE Buf!MustGrow(b, len)
  <2> SUFFICES ASSUME NEW buf, buf = Buf!Resized(b.buf, b.writer + len)
               PROVE  Holds(d, c) /\ Buf!writableBytes(d) >= len
    OBVIOUS
  <2>1. d = [buf |-> buf, reader |-> b.reader, writer |-> b.writer, ok |-> b.ok]
    BY <1>1 DEF Buf!MakeSpace, Holds
  <2>2. /\ IsSequence(buf) /\ Len(buf) = b.writer + len
        /\ \A k \in 1..(b.writer + len) : buf[k] = IF k <= Len(b.buf) THEN b.buf[k] ELSE 0
        /\ b.writer + len \in Nat
    <3>1. IsSequence(b.buf) /\ b.writer + len \in Nat
      BY DEF Holds
    <3> QED BY <3>1, ResizedElements
  <2>3. \A k \in 1..Len(c) : /\ b.reader + k \in 1..(b.writer + len)
                             /\ b.reader + k <= Len(b.buf)
    BY DEF Holds, IsSequence
  <2>4. kCheapPrepend <= b.writer + len
    BY <1>1 DEF Holds, Buf!MustGrow, IsSequence, Buf!writableBytes, Buf!prependableBytes
  <2>5. \A k \in 1..Len(c) : c[k] = buf[b.reader + k]
    BY <2>2, <2>3 DEF Holds
  <2>6. b.writer <= b.writer + len
    BY DEF Holds
  <2>7. Holds(d, c)
    BY <2>1, <2>2, <2>4, <2>5, <2>6 DEF Holds
  <2> QED BY <2>1, <2>2, <2>7 DEF Buf!writableBytes, Holds
<1>2. CASE ~Buf!MustGrow(b, len)
  <2> SUFFICES ASSUME NEW buf, buf = Buf!Copied(b.buf, kCheapPrepend, c)
               PROVE  Holds(d, c) /\ Buf!writableBytes(d) >= len
    OBVIOUS
  <2>1. kCheapPrepend < b.reader /\ kCheapPrepend + Len(c) + len <= Len(b.buf) /\ Len(c) \in Nat
    BY <1>2 DEF Buf!MustGrow, Buf!writableBytes, Buf!prependableBytes, Holds, IsSequence
  <2>2. d = [buf |-> buf, reader |-> kCheapPrepend, writer |-> kCheapPrepend + Len(c),
             ok |-> TRUE]
    <3>1. Buf!readableBytes(b) = Len(c) /\ Buf!Readable(b) = c
      BY ReadableIsContent DEF Buf!readableBytes, Holds
    <3>2. (b.ok /\ kCheapPrepend < b.reader) = TRUE
      BY <2>1, Zenon DEF Holds
    <3> QED BY <1>2, <3>1, <3>2, Zenon DEF Buf!MakeSpace
  <2>3. /\ IsSequence(buf) /\ Len(buf) = Len(b.buf)
        /\ \A k \in 1..Len(b.buf) : buf[k] =
               IF kCheapPrepend < k /\ k <= kCheapPrepend + Len(c)
               THEN c[k - kCheapPrepend] ELSE b.buf[k]
    <3>1. IsSequence(b.buf) /\ IsSequence(c)
      BY DEF Holds
    <3> QED BY <3>1, CopiedElements
  <2>4. \A k \in 1..Len(c) : /\ kCheapPrepend + k \in 1..Len(b.buf)
                             /\ kCheapPrepend < kCheapPrepend + k
                             /\ kCheapPrepend + k <= kCheapPrepend + Len(c)
                             /\ (kCheapPrepend + k) - kCheapPrepend = k
    BY <2>1
  <2>5. \A k \in 1..Len(c) : c[k] = buf[kCheapPrepend + k]
    BY <2>3, <2>4
  <2>6. Len(b.buf) \in Nat /\ IsSequence(c)
    BY DEF Holds, IsSequence
  <2>7. Holds(d, c)
    BY <2>1, <2>2, <2>3, <2>5, <2>6 DEF Holds
  <2> QED BY <2>1, <2>2, <2>3, <2>6, <2>7 DEF Buf!writableBytes
<1> QED BY <1>1, <1>2

\* ensureWritableBytes keeps the content, and its assert holds.
LEMMA EnsureKeeps ==
    ASSUME BufferConstants, NEW b, NEW c, Holds(b, c), NEW len \in Nat
    PROVE  /\ Holds(Buf!EnsureWritableBytes(b, len), c)
           /\ Buf!writableBytes(Buf!EnsureWritableBytes(b, len)) >= len
<1> DEFINE room == IF Buf!writableBytes(b) < len THEN Buf!MakeSpace(b, len) ELSE b
<1>1. Holds(room, c) /\ Buf!writableBytes(room) >= len
  <2>1. Buf!writableBytes(b) < len \/ Buf!writableBytes(b) >= len
    BY DEF Buf!writableBytes, Holds, IsSequence
  <2> QED BY <2>1, MakeSpaceKeeps
<1>2. Buf!EnsureWritableBytes(b, len) = [room EXCEPT !.ok = room.ok /\ Buf!writableBytes(room) >= len]
  BY Zenon DEF Buf!EnsureWritableBytes
<1>3. (room.ok /\ Buf!writableBytes(room) >= len) = TRUE
  BY <1>1, Zenon DEF Holds
<1>4. Buf!EnsureWritableBytes(b, len) = [room EXCEPT !.ok = TRUE]
  BY <1>2, <1>3, Zenon
<1> SUFFICES ASSUME NEW d, Holds(d, c), Buf!writableBytes(d) >= len
             PROVE  [d EXCEPT !.ok = TRUE] = d
  BY <1>1, <1>4
<1> QED BY DEF Holds

\* Bytes written behind the content join it.
LEMMA HasWrittenKeeps ==
    ASSUME BufferConstants, NEW b, NEW c, Holds(b, c), NEW data, IsSequence(data),
           Len(data) <= Buf!writableBytes(b)
    PROVE  /\ Holds(Buf!HasWritten(b, data), c \o data)
           /\ Buf!writableBytes(Buf!HasWritten(b, data)) = Buf!writableBytes(b) - Len(data)
<1> SUFFICES ASSUME NEW d, d = Buf!HasWritten(b, data), NEW buf, buf = Buf!Copied(b.buf, b.writer, data),
                    NEW e, e = c \o data
             PROVE  Holds(d, e) /\ Buf!writableBytes(d) = Buf!writableBytes(b) - Len(data)
  OBVIOUS
<1>0. /\ IsSequence(b.buf) /\ IsSequence(c)
      /\ b.reader \in Nat /\ b.writer \in Nat /\ Len(b.buf) \in Nat /\ Len(c) \in Nat
      /\ Len(data) \in Nat /\ b.writer + Len(data) <= Len(b.buf) /\ b.reader <= b.writer
      /\ Len(c) = b.writer - b.reader /\ kCheapPrepend <= Len(b.buf) /\ b.ok = TRUE
      /\ \A k \in 1..Len(c) : c[k] = b.buf[b.reader + k]
  BY DEF Holds, IsSequence, Buf!writableBytes
<1>1. d = [buf |-> buf, reader |-> b.reader, writer |-> b.writer + Len(data), ok |-> TRUE]
  BY DEF Buf!HasWritten, Holds
<1>2. /\ IsSequence(buf) /\ Len(buf) = Len(b.buf)
      /\ \A k \in 1..Len(b.buf) : buf[k] =
             IF b.writer < k /\ k <= b.writer + Len(data) THEN data[k - b.writer] ELSE b.buf[k]
  BY <1>0, CopiedElements
<1>3. /\ IsSequence(e) /\ Len(e) = Len(c) + Len(data)
      /\ \A k \in 1..(Len(c) + Len(data)) : e[k] = IF k <= Len(c) THEN c[k] ELSE data[k - Len(c)]
  <2>1. IsSequence(c) /\ IsSequence(data)
    BY <1>0
  <2>2. /\ IsSequence(c \o data) /\ Len(c \o data) = Len(c) + Len(data)
        /\ \A k \in 1..(Len(c) + Len(data)) :
               (c \o data)[k] = IF k <= Len(c) THEN c[k] ELSE data[k - Len(c)]
    BY <2>1, Concatenation
  <2> QED BY <2>2, Zenon
<1>4. \A k \in 1..Len(e) : e[k] = buf[b.reader + k]
  <2> SUFFICES ASSUME NEW k \in 1..Len(e) PROVE e[k] = buf[b.reader + k]
    OBVIOUS
  <2>0. k \in 1..(Len(c) + Len(data))
    BY <1>3, Zenon
  <2>1. b.reader + k \in 1..Len(b.buf) /\ k \in 1..(Len(c) + Len(data)) /\ k \in Nat
    <3>1. /\ b.reader \in Nat /\ b.writer \in Nat /\ Len(b.buf) \in Nat /\ Len(c) \in Nat
          /\ Len(data) \in Nat /\ b.writer + Len(data) <= Len(b.buf)
          /\ b.reader <= b.writer /\ Len(c) = b.writer - b.reader
      BY <1>0, Zenon
    <3>2. \A r, w, l, n, m \in Nat : w + n <= l /\ r <= w /\ m = w - r =>
              \A i \in 1..(m + n) : r + i \in 1..l /\ i \in Nat
      OBVIOUS
    <3> QED BY <2>0, <3>1, <3>2, Zenon
  <2>2. CASE k <= Len(c)
    <3>1. k \in 1..Len(c) /\ b.reader + k <= b.writer
      BY <1>0, <2>1, <2>2
    <3>2. e[k] = c[k] /\ c[k] = b.buf[b.reader + k]
      BY <1>0, <1>3, <2>1, <2>2, <3>1
    <3>3. buf[b.reader + k] = b.buf[b.reader + k]
      <4>1. ~(b.writer < b.reader + k)
        BY <1>0, <2>1, <3>1
      <4> QED BY <1>2, <2>1, <4>1
    <3> QED BY <3>2, <3>3
  <2>3. CASE ~(k <= Len(c))
    <3>0. /\ b.reader \in Nat /\ b.writer \in Nat /\ Len(c) \in Nat /\ Len(data) \in Nat
          /\ b.reader <= b.writer /\ Len(c) = b.writer - b.reader
      BY <1>0, Zenon
    <3>a. \A r, w, n, m \in Nat : r <= w /\ m = w - r =>
              \A i \in 1..(m + n) : ~(i <= m) =>
                  (r + i) - w = i - m /\ w < r + i /\ r + i <= w + n
      OBVIOUS
    <3>1. /\ (b.reader + k) - b.writer = k - Len(c) /\ b.writer < b.reader + k
          /\ b.reader + k <= b.writer + Len(data)
      BY <2>1, <2>3, <3>0, <3>a, Zenon
    <3>2. e[k] = data[k - Len(c)]
      BY <1>3, <2>1, <2>3
    <3>3. buf[b.reader + k] = data[(b.reader + k) - b.writer]
      BY <1>2, <2>1, <3>1
    <3> QED BY <3>1, <3>2, <3>3
  <2> QED BY <2>2, <2>3
<1>5. /\ d.buf = buf /\ d.reader = b.reader /\ d.writer = b.writer + Len(data) /\ d.ok = TRUE
      /\ d = [buf |-> d.buf, reader |-> d.reader, writer |-> d.writer, ok |-> d.ok]
  BY <1>1
<1>6. /\ b.writer + Len(data) \in Nat /\ b.reader <= b.writer + Len(data)
      /\ Len(e) = b.writer + Len(data) - b.reader
  BY <1>0, <1>3
<1>7. Holds(d, e)
  <2>1. /\ IsSequence(d.buf) /\ Len(d.buf) = Len(b.buf)
        /\ d.reader \in Nat /\ d.writer \in Nat /\ d.reader <= d.writer
        /\ d.writer <= Len(d.buf) /\ kCheapPrepend <= Len(d.buf)
        /\ Len(e) = d.writer - d.reader
    BY <1>0, <1>2, <1>5, <1>6
  <2>2. \A k \in 1..Len(e) : e[k] = d.buf[d.reader + k]
    BY <1>4, <1>5
  <2> QED BY <1>3, <1>5, <2>1, <2>2, Zenon DEF Holds
<1>8. Buf!writableBytes(d) = Buf!writableBytes(b) - Len(data)
  BY <1>0, <1>2, <1>5 DEF Buf!writableBytes
<1> QED BY <1>7, <1>8

\* append adds to the content.
LEMMA AppendKeeps ==
    ASSUME BufferConstants, NEW b, NEW c, Holds(b, c), NEW data, IsSequence(data)
    PROVE  Holds(Buf!AppendData(b, data), c \o data)
BY EnsureKeeps, HasWrittenKeeps DEF Buf!AppendData, IsSequence

\* Putting together what was cut.
LEMMA CutAndJoined ==
    ASSUME NEW c, IsSequence(c), NEW data, IsSequence(data), NEW n \in 0..Len(data)
    PROVE  /\ IsSequence(SubSeq(data, 1, n)) /\ Len(SubSeq(data, 1, n)) = n
           /\ IsSequence(SubSeq(data, n + 1, Len(data)))
           /\ (c \o SubSeq(data, 1, n)) \o SubSeq(data, n + 1, Len(data)) = c \o data
<1>1. PICK S : c \in Seq(S) /\ data \in Seq(S)
  BY SequencesOverValues
<1>8. \A x, y \in Seq(S) : (c \o x) \o y = c \o (x \o y)
  <2>1. ASSUME NEW x \in Seq(S), NEW y \in Seq(S) PROVE (c \o x) \o y = c \o (x \o y)
    BY <1>1, ConcatAssociative, SMTT(20)
  <2> QED BY <2>1, Zenon
<1> SUFFICES ASSUME NEW s, s = SubSeq(data, 1, n), NEW t, t = SubSeq(data, n + 1, Len(data))
             PROVE  /\ IsSequence(s) /\ Len(s) = n /\ IsSequence(t)
                    /\ (c \o s) \o t = c \o data
  OBVIOUS
<1>2. n \in Nat /\ n <= Len(data) /\ Len(data) \in Nat
  BY DEF IsSequence
<1>3. IsSequence(s) /\ Len(s) = n
  <2>1. n + 1 - 1 = n /\ 1 <= n + 1
    BY <1>2
  <2> QED BY <1>2, <2>1, Part
<1>4. IsSequence(t)
  <2>1. n + 1 \in Nat /\ 1 <= n + 1 /\ n + 1 <= Len(data) + 1
    BY <1>2
  <2> QED BY <1>2, <2>1, Part
<1>5. s \o t = data
  <2>1. 1 \in 1..(Len(data) + 1) /\ n \in (1 - 1)..Len(data) /\ Len(data) \in n..Len(data)
    BY <1>2
  <2>2. s \o t = SubSeq(data, 1, Len(data))
    BY <1>1, <2>1, ConcatAdjacentSubSeq
  <2> QED BY <1>1, <2>2, SubSeqFull
<1>6. s \in Seq(S) /\ t \in Seq(S)
  BY <1>1, <1>2, SubSeqProperties
<1>7. (c \o s) \o t = c \o (s \o t)
  BY <1>6, <1>8, Zenon
<1> QED BY <1>3, <1>4, <1>5, <1>7

\* Both blocks of readFd join the content.
LEMMA ReadFdKeeps ==
    ASSUME BufferConstants, NEW b, NEW c, Holds(b, c), NEW data, IsSequence(data)
    PROVE  Holds(Buf!ReadFd(b, data), c \o data)
<1>1. CASE Len(data) <= Buf!writableBytes(b)
  BY <1>1, HasWrittenKeeps DEF Buf!ReadFd
<1>2. CASE ~(Len(data) <= Buf!writableBytes(b))
  <2> SUFFICES ASSUME NEW n, n = Buf!writableBytes(b)
               PROVE  Holds(Buf!ReadFd(b, data), c \o data)
    OBVIOUS
  <2>1. n \in 0..Len(data) /\ n <= Buf!writableBytes(b)
    BY <1>2 DEF Buf!writableBytes, Holds, IsSequence
  <2>2. Holds(Buf!HasWritten(b, SubSeq(data, 1, n)), c \o SubSeq(data, 1, n))
    <3>1. IsSequence(SubSeq(data, 1, n)) /\ Len(SubSeq(data, 1, n)) = n
      BY <2>1, CutAndJoined DEF Holds
    <3> QED BY <2>1, <3>1, HasWrittenKeeps
  <2>3. IsSequence(SubSeq(data, n + 1, Len(data)))
    BY <2>1, CutAndJoined DEF Holds
  <2>4. Holds(Buf!AppendData(Buf!HasWritten(b, SubSeq(data, 1, n)), SubSeq(data, n + 1, Len(data))),
              (c \o SubSeq(data, 1, n)) \o SubSeq(data, n + 1, Len(data)))
    BY <2>2, <2>3, AppendKeeps
  <2>5. (c \o SubSeq(data, 1, n)) \o SubSeq(data, n + 1, Len(data)) = c \o data
    BY <2>1, CutAndJoined DEF Holds
  <2> QED BY <1>2, <2>4, <2>5 DEF Buf!ReadFd
<1> QED BY <1>1, <1>2

\* What is left when len elements are taken from the front.
LEMMA Suffix ==
    ASSUME NEW s, IsSequence(s), NEW len \in Nat, len <= Len(s)
    PROVE  /\ IsSequence(SubSeq(s, len + 1, Len(s))) /\ Len(SubSeq(s, len + 1, Len(s))) = Len(s) - len
           /\ \A k \in 1..(Len(s) - len) : SubSeq(s, len + 1, Len(s))[k] = s[len + k]
<1>1. /\ len + 1 \in Nat /\ 1 <= len + 1 /\ len + 1 <= Len(s) + 1 /\ Len(s) \in Nat
      /\ Len(s) <= Len(s) /\ Len(s) + 1 - (len + 1) = Len(s) - len
  BY DEF IsSequence
<1>2. /\ IsSequence(SubSeq(s, len + 1, Len(s))) /\ Len(SubSeq(s, len + 1, Len(s))) = Len(s) - len
      /\ \A k \in 1..(Len(s) - len) : SubSeq(s, len + 1, Len(s))[k] = s[len + 1 + k - 1]
  BY <1>1, Part
<1>3. \A k \in 1..(Len(s) - len) : len + 1 + k - 1 = len + k
  BY <1>1
<1> QED BY <1>2, <1>3

\* What is left when len elements are taken from the end.
LEMMA Prefix ==
    ASSUME NEW s, IsSequence(s), NEW len \in Nat, len <= Len(s)
    PROVE  /\ IsSequence(SubSeq(s, 1, Len(s) - len)) /\ Len(SubSeq(s, 1, Len(s) - len)) = Len(s) - len
           /\ \A k \in 1..(Len(s) - len) : SubSeq(s, 1, Len(s) - len)[k] = s[k]
<1>1. PICK n \in Nat : n = Len(s) - len /\ n <= Len(s) /\ 1 <= n + 1 /\ n + 1 - 1 = n
  BY DEF IsSequence
<1>2. /\ IsSequence(SubSeq(s, 1, n)) /\ Len(SubSeq(s, 1, n)) = n
      /\ \A k \in 1..n : SubSeq(s, 1, n)[k] = s[1 + k - 1]
  BY <1>1, Part
<1>3. \A k \in 1..n : 1 + k - 1 = k
  BY <1>1
<1> QED BY <1>1, <1>2, <1>3

\* retrieve takes bytes from the front of the content, the last ones with a reset.
LEMMA RetrieveKeeps ==
    ASSUME BufferConstants, NEW b, NEW c, Holds(b, c), NEW len \in Nat, len <= Buf!readableBytes(b)
    PROVE  Holds(Buf!Retrieve(b, len), SubSeq(c, len + 1, Len(c)))
<1>0. SUFFICES ASSUME NEW d, d = Buf!Retrieve(b, len), NEW e, e = SubSeq(c, len + 1, Len(c))
             PROVE  Holds(d, e)
  OBVIOUS
<1>1. /\ IsSequence(b.buf) /\ IsSequence(c) /\ b.reader \in Nat /\ b.writer \in Nat
      /\ Len(b.buf) \in Nat /\ Len(c) \in Nat /\ Len(c) = b.writer - b.reader
      /\ b.writer <= Len(b.buf) /\ kCheapPrepend <= Len(b.buf) /\ b.ok = TRUE
      /\ kCheapPrepend \in Nat /\ len <= Len(c) /\ Buf!readableBytes(b) = Len(c)
      /\ \A k \in 1..Len(c) : c[k] = b.buf[b.reader + k]
  BY DEF Holds, IsSequence, BufferConstants, Buf!SizeAssumption, Buf!readableBytes
<1>2. /\ IsSequence(e) /\ Len(e) = Len(c) - len
      /\ \A k \in 1..(Len(c) - len) : e[k] = c[len + k]
  BY <1>0, <1>1, Suffix, Zenon
<1>3. CASE len < Len(c)
  <2>1. d = [buf |-> b.buf, reader |-> b.reader + len, writer |-> b.writer, ok |-> TRUE]
    BY <1>0, <1>1, <1>3 DEF Buf!Retrieve, Holds
  <2>2. \A k \in 1..Len(e) : e[k] = b.buf[b.reader + len + k]
    <3>1. \A k \in 1..Len(e) : /\ k \in 1..(Len(c) - len) /\ len + k \in 1..Len(c)
                               /\ b.reader + (len + k) = b.reader + len + k
      BY <1>1, <1>2
    <3> QED BY <1>1, <1>2, <3>1
  <2>3. /\ b.reader + len \in Nat /\ b.reader + len <= b.writer
        /\ Len(e) = b.writer - (b.reader + len)
    BY <1>1, <1>2
  <2>4. /\ d.buf = b.buf /\ d.reader = b.reader + len /\ d.writer = b.writer /\ d.ok = TRUE
        /\ d = [buf |-> d.buf, reader |-> d.reader, writer |-> d.writer, ok |-> d.ok]
    BY <2>1
  <2> QED BY <1>1, <1>2, <2>2, <2>3, <2>4 DEF Holds
<1>4. CASE len = Len(c)
  <2>1. d = [buf |-> b.buf, reader |-> kCheapPrepend, writer |-> kCheapPrepend, ok |-> TRUE]
    <3>1. ~(len < Buf!readableBytes(b))
      BY <1>1, <1>4
    <3> QED BY <1>0, <1>1, <3>1 DEF Buf!Retrieve, Holds
  <2>2. /\ d.buf = b.buf /\ d.reader = kCheapPrepend /\ d.writer = kCheapPrepend /\ d.ok = TRUE
        /\ d = [buf |-> d.buf, reader |-> d.reader, writer |-> d.writer, ok |-> d.ok]
    BY <2>1
  <2>3. Len(e) = kCheapPrepend - kCheapPrepend /\ Len(e) = 0
    BY <1>1, <1>2, <1>4
  <2>4. \A k \in 1..Len(e) : FALSE
    BY <2>3
  <2> QED BY <1>1, <1>2, <2>2, <2>3, <2>4 DEF Holds
<1> QED BY <1>1, <1>3, <1>4

\* unwrite takes bytes from the end of the content.
LEMMA UnwriteKeeps ==
    ASSUME BufferConstants, NEW b, NEW c, Holds(b, c), NEW len \in Nat, len <= Buf!readableBytes(b)
    PROVE  Holds(Buf!Unwrite(b, len), SubSeq(c, 1, Len(c) - len))
<1>0. SUFFICES ASSUME NEW d, d = Buf!Unwrite(b, len), NEW e, e = SubSeq(c, 1, Len(c) - len)
             PROVE  Holds(d, e)
  OBVIOUS
<1>1. /\ IsSequence(b.buf) /\ IsSequence(c) /\ b.reader \in Nat /\ b.writer \in Nat
      /\ Len(b.buf) \in Nat /\ Len(c) \in Nat /\ Len(c) = b.writer - b.reader
      /\ b.writer <= Len(b.buf) /\ kCheapPrepend <= Len(b.buf) /\ b.ok = TRUE
      /\ len <= Len(c)
      /\ \A k \in 1..Len(c) : c[k] = b.buf[b.reader + k]
  BY DEF Holds, IsSequence, Buf!readableBytes
<1>2. /\ IsSequence(e) /\ Len(e) = Len(c) - len
      /\ \A k \in 1..(Len(c) - len) : e[k] = c[k]
  BY <1>0, <1>1, Prefix, Zenon
<1>3. d = [buf |-> b.buf, reader |-> b.reader, writer |-> b.writer - len, ok |-> TRUE]
  BY <1>0, <1>1 DEF Buf!Unwrite, Holds
<1>4. \A k \in 1..Len(e) : e[k] = b.buf[b.reader + k]
  <2>1. \A k \in 1..Len(e) : k \in 1..(Len(c) - len) /\ k \in 1..Len(c)
    BY <1>1, <1>2
  <2> QED BY <1>1, <1>2, <2>1
<1>5. /\ b.writer - len \in Nat /\ b.reader <= b.writer - len /\ b.writer - len <= Len(b.buf)
      /\ Len(e) = b.writer - len - b.reader
  <2>1. /\ b.reader \in Nat /\ b.writer \in Nat /\ Len(b.buf) \in Nat /\ Len(c) \in Nat
        /\ Len(c) = b.writer - b.reader /\ b.writer <= Len(b.buf) /\ len <= Len(c)
        /\ Len(e) = Len(c) - len
    BY <1>1, <1>2, Zenon
  <2>2. PICK r, w, l, n : r = b.reader /\ w = b.writer /\ l = Len(b.buf) /\ n = Len(c)
    OBVIOUS
  <2>3. /\ r \in Nat /\ w \in Nat /\ l \in Nat /\ n \in Nat /\ n = w - r /\ w <= l /\ len <= n
        /\ Len(e) = n - len
    BY <2>1, <2>2, Zenon
  <2>4. w - len \in Nat /\ r <= w - len /\ w - len <= l /\ n - len = w - len - r
    BY <2>3
  <2> QED BY <2>2, <2>3, <2>4, Zenon
<1>6. /\ d.buf = b.buf /\ d.reader = b.reader /\ d.writer = b.writer - len /\ d.ok = TRUE
      /\ d = [buf |-> d.buf, reader |-> d.reader, writer |-> d.writer, ok |-> d.ok]
  BY <1>3
<1> QED BY <1>1, <1>2, <1>4, <1>5, <1>6 DEF Holds

\* What is put into the room in front comes first.
LEMMA PrependKeeps ==
    ASSUME NEW b, NEW c, Holds(b, c), NEW data, IsSequence(data),
           Len(data) <= Buf!prependableBytes(b)
    PROVE  Holds(Buf!Prepend(b, data), data \o c)
<1>0. /\ IsSequence(b.buf) /\ IsSequence(c)
      /\ b.reader \in Nat /\ b.writer \in Nat /\ Len(b.buf) \in Nat /\ Len(c) \in Nat
      /\ Len(data) \in Nat /\ Len(data) <= b.reader /\ b.writer <= Len(b.buf)
      /\ Len(c) = b.writer - b.reader /\ kCheapPrepend <= Len(b.buf) /\ b.ok = TRUE
      /\ \A k \in 1..Len(c) : c[k] = b.buf[b.reader + k]
  BY DEF Holds, IsSequence, Buf!prependableBytes
<1>1. PICK front \in Nat : front + Len(data) = b.reader
  <2>1. b.reader - Len(data) \in Nat /\ (b.reader - Len(data)) + Len(data) = b.reader
    BY <1>0
  <2> QED BY <2>1
<1>2. /\ IsSequence(data \o c) /\ Len(data \o c) = Len(data) + Len(c)
      /\ \A k \in 1..(Len(data) + Len(c)) :
             (data \o c)[k] = IF k <= Len(data) THEN data[k] ELSE c[k - Len(data)]
  <2>1. IsSequence(c)
    BY <1>0
  <2> QED BY <2>1, Concatenation
<1>s. SUFFICES ASSUME NEW d, d = Buf!Prepend(b, data), NEW buf, buf = Buf!Copied(b.buf, front, data),
                    NEW e, e = data \o c
             PROVE  Holds(d, e)
  OBVIOUS
<1>3. d = [buf |-> buf, reader |-> front, writer |-> b.writer, ok |-> TRUE]
  <2>1. b.reader - Len(data) = front
    BY <1>0, <1>1
  <2> QED BY <1>0, <1>s, <2>1 DEF Buf!Prepend, Holds
<1>4. /\ IsSequence(buf) /\ Len(buf) = Len(b.buf)
      /\ \A k \in 1..Len(b.buf) : buf[k] =
             IF front < k /\ k <= front + Len(data) THEN data[k - front] ELSE b.buf[k]
  BY <1>0, <1>s, CopiedElements
<1>5. /\ IsSequence(e) /\ Len(e) = Len(data) + Len(c)
      /\ \A k \in 1..(Len(data) + Len(c)) : e[k] = IF k <= Len(data) THEN data[k] ELSE c[k - Len(data)]
  BY <1>2, <1>s, Zenon
<1>6. \A k \in 1..Len(e) : e[k] = buf[front + k]
  <2> SUFFICES ASSUME NEW k \in 1..Len(e) PROVE e[k] = buf[front + k]
    OBVIOUS
  <2>1. /\ front + k \in 1..Len(b.buf) /\ k \in 1..(Len(data) + Len(c)) /\ k \in Nat
        /\ front < front + k
    BY <1>0, <1>1, <1>5
  <2>2. CASE k <= Len(data)
    <3>1. front + k <= front + Len(data) /\ (front + k) - front = k
      BY <1>0, <2>1, <2>2
    <3>2. e[k] = data[k]
      BY <1>5, <2>1, <2>2
    <3>3. buf[front + k] = data[(front + k) - front]
      BY <1>4, <2>1, <3>1
    <3> QED BY <3>1, <3>2, <3>3
  <2>3. CASE ~(k <= Len(data))
    <3>1. /\ ~(front + k <= front + Len(data)) /\ k - Len(data) \in 1..Len(c)
          /\ b.reader + (k - Len(data)) = front + k
      <4>1. front \in Nat /\ Len(data) \in Nat /\ Len(c) \in Nat /\ b.reader = front + Len(data)
        BY <1>0, <1>1
      <4> QED BY <2>1, <2>3, <4>1
    <3>2. e[k] = c[k - Len(data)]
      BY <1>5, <2>1, <2>3
    <3>3. buf[front + k] = b.buf[front + k]
      BY <1>4, <2>1, <3>1
    <3> QED BY <1>0, <3>1, <3>2, <3>3
  <2> QED BY <2>2, <2>3
<1>7. /\ d.buf = buf /\ d.reader = front /\ d.writer = b.writer /\ d.ok = TRUE
      /\ d = [buf |-> d.buf, reader |-> d.reader, writer |-> d.writer, ok |-> d.ok]
  BY <1>3
<1>8. front <= b.writer /\ Len(e) = b.writer - front
  BY <1>0, <1>1, <1>5
<1>9. /\ IsSequence(d.buf) /\ Len(d.buf) = Len(b.buf)
      /\ d.reader \in Nat /\ d.writer \in Nat /\ d.reader <= d.writer
      /\ d.writer <= Len(d.buf) /\ kCheapPrepend <= Len(d.buf)
      /\ Len(e) = d.writer - d.reader
  BY <1>0, <1>4, <1>7, <1>8
<1>10. \A k \in 1..Len(e) : e[k] = d.buf[d.reader + k]
  BY <1>6, <1>7
<1> QED BY <1>5, <1>7, <1>9, <1>10, Zenon DEF Holds

\* A new buffer is empty.
LEMMA FreshHolds == ASSUME BufferConstants PROVE Holds(Buf!Fresh, <<>>) /\ IsSequence(<<>>)
<1>1. kCheapPrepend \in Nat /\ kInitialSize \in Nat
  BY DEF BufferConstants, Buf!SizeAssumption
<1> SUFFICES ASSUME NEW buf, buf = [i \in 1..(kCheapPrepend + kInitialSize) |-> 0]
             PROVE  Holds(Buf!Fresh, <<>>) /\ IsSequence(<<>>)
  OBVIOUS
<1>2. IsSequence(buf) /\ Len(buf) = kCheapPrepend + kInitialSize
  <2>1. kCheapPrepend + kInitialSize \in Nat
    BY <1>1
  <2>2. buf = [i \in 1..(kCheapPrepend + kInitialSize) |-> buf[i]]
    BY <1>1
  <2> QED BY <2>1, <2>2, FunctionIsSequence
<1>3. Len(<<>>) = 0 /\ <<>> = [k \in 1..0 |-> <<>>[k]]
  OBVIOUS
<1>4. IsSequence(<<>>)
  BY <1>3 DEF IsSequence
<1>5. Buf!Fresh = [buf |-> buf, reader |-> kCheapPrepend, writer |-> kCheapPrepend, ok |-> TRUE]
  BY DEF Buf!Fresh
<1> QED BY <1>1, <1>2, <1>3, <1>4, <1>5 DEF Holds

\* shrink moves the content to another buffer.
LEMMA ShrinkKeeps ==
    ASSUME BufferConstants, NEW b, NEW c, Holds(b, c), NEW reserve \in Nat
    PROVE  Holds(Buf!Shrink(b, reserve), c)
<1> DEFINE other == Buf!AppendData(Buf!EnsureWritableBytes(Buf!Fresh, Buf!readableBytes(b) + reserve), Buf!Readable(b))
<1>1. Buf!readableBytes(b) + reserve \in Nat /\ IsSequence(c)
  BY DEF Buf!readableBytes, Holds
<1>2. Buf!Readable(b) = c
  BY ReadableIsContent
<1>3. Holds(Buf!EnsureWritableBytes(Buf!Fresh, Buf!readableBytes(b) + reserve), <<>>)
  BY <1>1, FreshHolds, EnsureKeeps
<1>4. <<>> \o c = c
  <2>1. PICK S : c \in Seq(S)
    BY <1>1, SequencesOverValues
  <2> QED BY <2>1, ConcatEmptySeq
<1>5. Holds(other, c)
  <2>1. Holds(other, <<>> \o c)
    BY <1>1, <1>2, <1>3, AppendKeeps
  <2> QED BY <1>4, <2>1, Zenon
<1>6. Buf!Shrink(b, reserve) = [other EXCEPT !.ok = TRUE]
  <2>1. (b.ok /\ other.ok) = TRUE
    BY <1>5, Zenon DEF Holds
  <2> QED BY <2>1, Zenon DEF Buf!Shrink
<1> SUFFICES ASSUME NEW d, Holds(d, c) PROVE [d EXCEPT !.ok = TRUE] = d
  BY <1>5, <1>6
<1> QED BY DEF Holds

\* The host's bytes in reverse order are the most significant byte first.
LEMMA NetworkOrder ==
    ASSUME NEW x, NEW w \in Nat
    PROVE  Buf!hostToNetwork(Buf!InMemory(x, w)) = Buf!BigEndian(x, w) /\ IsSequence(Buf!BigEndian(x, w))
<1> SUFFICES ASSUME NEW mem, mem = Buf!InMemory(x, w), NEW big, big = Buf!BigEndian(x, w),
                    NEW digit, digit = [k \in 0..w |-> (x \div Buf!Radix^k) % Buf!Radix]
             PROVE  Buf!hostToNetwork(mem) = big /\ IsSequence(big)
  OBVIOUS
<1>1. mem = [k \in 1..w |-> digit[k - 1]]
  <2>1. \A k \in 1..w : digit[k - 1] = (x \div Buf!Radix^(k - 1)) % Buf!Radix
    <3>1. \A k \in 1..w : k - 1 \in 0..w
      OBVIOUS
    <3> QED BY <3>1, Zenon
  <2> QED BY <2>1, Zenon DEF Buf!InMemory
<1>2. big = [k \in 1..w |-> digit[w - k]]
  <2>1. \A k \in 1..w : digit[w - k] = (x \div Buf!Radix^(w - k)) % Buf!Radix
    <3>1. \A k \in 1..w : w - k \in 0..w
      OBVIOUS
    <3> QED BY <3>1, Zenon
  <2> QED BY <2>1, Zenon DEF Buf!BigEndian
<1> HIDE DEF Buf!BigEndian, Buf!InMemory
<1>3. IsSequence(mem) /\ Len(mem) = w /\ IsSequence(big) /\ Len(big) = w
  <2>1. mem = [k \in 1..w |-> mem[k]] /\ big = [k \in 1..w |-> big[k]]
    BY <1>1, <1>2, Zenon
  <2> QED BY <2>1, FunctionIsSequence, Zenon
<1>4. Buf!hostToNetwork(mem) = [k \in 1..w |-> mem[(w - k) + 1]]
  BY <1>3, Zenon DEF Buf!hostToNetwork, Buf!Reverse
<1>5. \A k \in 1..w : mem[(w - k) + 1] = digit[w - k]
  <2>1. \A k \in 1..w : (w - k) + 1 \in 1..w /\ (w - k) + 1 - 1 = w - k
    OBVIOUS
  <2>2. \A j \in 1..w : mem[j] = digit[j - 1]
    BY <1>1, Zenon
  <2>3. ASSUME NEW k \in 1..w PROVE mem[(w - k) + 1] = digit[w - k]
    <3>1. PICK j \in 1..w : j = (w - k) + 1 /\ j - 1 = w - k
      BY <2>1
    <3> QED BY <2>2, <3>1
  <2> QED BY <2>3
<1>6. [k \in 1..w |-> mem[(w - k) + 1]] = [k \in 1..w |-> digit[w - k]]
  BY <1>5, Zenon
<1> QED BY <1>2, <1>3, <1>4, <1>6, Zenon

\* The members hold the content, at all times.
BufferInv == BufferConstants /\ Holds(Buf!this, content)

\* A new Buffer holds nothing.
LEMMA BufferInit == ASSUME BufferConstants, Buf!Init PROVE BufferInv
<1>1. Buf!this = Buf!Fresh
  BY DEF Buf!Init, Buf!this, Buf!Fresh
<1> QED BY <1>1, FreshHolds DEF Buf!Init, BufferInv

\* What holds of the values holds of the variables.
LEMMA BecomesHolds ==
    ASSUME NEW b, NEW c, Holds(b, c), BufferConstants, Buf!Becomes(b), content' = c
    PROVE  BufferInv'
<1>1. Buf!this' = b
  BY DEF Buf!Becomes, Buf!this, Holds
<1> QED BY <1>1 DEF BufferInv, BufferConstants, Buf!SizeAssumption, Holds

\* Every operation keeps the content.
LEMMA BufferNext == BufferInv /\ [Buf!Next]_(Buf!vars) => BufferInv'
<1> SUFFICES ASSUME BufferInv, [Buf!Next]_(Buf!vars) PROVE BufferInv'
  OBVIOUS
<1>0. BufferConstants /\ Holds(Buf!this, content) /\ IsSequence(content) /\ Len(content) \in Nat
  BY DEF BufferInv, Holds, IsSequence
<1>1. ASSUME NEW data \in Buf!Pieces,
             Buf!DoAppend(data) \/ Buf!DoHasWritten(data) \/ Buf!DoPrepend(data) \/ Buf!DoReadFd(data)
      PROVE  BufferInv'
  <2>1. IsSequence(data)
    <3>1. PICK n \in 0..MaxLen : data \in [1..n -> Bytes]
      BY <1>1 DEF Buf!Pieces
    <3>2. n \in Nat
      BY <3>1
    <3> QED BY <3>1, <3>2, FunctionIsSequence
  <2>2. CASE Buf!DoAppend(data)
    BY <1>0, <2>1, <2>2, AppendKeeps, BecomesHolds DEF Buf!DoAppend
  <2>3. CASE Buf!DoHasWritten(data)
    BY <1>0, <2>1, <2>3, HasWrittenKeeps, BecomesHolds DEF Buf!DoHasWritten
  <2>4. CASE Buf!DoPrepend(data)
    BY <1>0, <2>1, <2>4, PrependKeeps, BecomesHolds DEF Buf!DoPrepend
  <2>5. CASE Buf!DoReadFd(data)
    BY <1>0, <2>1, <2>5, ReadFdKeeps, BecomesHolds DEF Buf!DoReadFd
  <2> QED BY <1>1, <2>2, <2>3, <2>4, <2>5
<1>2. ASSUME NEW w \in Widths, NEW x \in Buf!Ints(w), Buf!DoAppendInt(x, w) \/ Buf!DoPrependInt(x, w)
      PROVE  BufferInv'
  <2>1. w \in Nat
    BY <1>0 DEF BufferConstants
  <2>2. /\ Buf!hostToNetwork(Buf!InMemory(x, w)) = Buf!BigEndian(x, w) /\ IsSequence(Buf!BigEndian(x, w))
        /\ Len(Buf!BigEndian(x, w)) = w
    <3>1. Buf!BigEndian(x, w) = [k \in 1..w |-> Buf!BigEndian(x, w)[k]]
      BY Zenon DEF Buf!BigEndian
    <3> QED BY <2>1, <3>1, NetworkOrder, FunctionIsSequence, Zenon
  <2>3. CASE Buf!DoAppendInt(x, w)
    BY <1>0, <2>2, <2>3, AppendKeeps, BecomesHolds, Zenon DEF Buf!DoAppendInt
  <2>4. CASE Buf!DoPrependInt(x, w)
    BY <1>0, <2>2, <2>4, PrependKeeps, BecomesHolds, Zenon DEF Buf!DoPrependInt
  <2> QED BY <1>2, <2>3, <2>4
<1>3. ASSUME NEW len \in 0..MaxLen, Buf!DoEnsureWritableBytes(len) \/ Buf!DoShrink(len)
      PROVE  BufferInv'
  <2>1. len \in Nat
    OBVIOUS
  <2>2. CASE Buf!DoEnsureWritableBytes(len)
    BY <1>0, <2>1, <2>2, EnsureKeeps, BecomesHolds DEF Buf!DoEnsureWritableBytes
  <2>3. CASE Buf!DoShrink(len)
    BY <1>0, <2>1, <2>3, ShrinkKeeps, BecomesHolds DEF Buf!DoShrink
  <2> QED BY <1>3, <2>2, <2>3
<1>4. ASSUME NEW len \in 0..MaxContent, Buf!DoRetrieve(len) \/ Buf!DoUnwrite(len)
      PROVE  BufferInv'
  <2>1. len \in Nat
    OBVIOUS
  <2>2. CASE Buf!DoRetrieve(len)
    BY <1>0, <2>1, <2>2, RetrieveKeeps, BecomesHolds DEF Buf!DoRetrieve
  <2>3. CASE Buf!DoUnwrite(len)
    BY <1>0, <2>1, <2>3, UnwriteKeeps, BecomesHolds DEF Buf!DoUnwrite
  <2> QED BY <1>4, <2>2, <2>3
<1>5. CASE UNCHANGED Buf!vars
  BY <1>5 DEF Buf!vars, Buf!this, BufferInv, BufferConstants, Buf!SizeAssumption, Holds
<1> QED BY <1>1, <1>2, <1>3, <1>4, <1>5 DEF Buf!Next

\* The buffer holds its content, whatever calls are made.
LEMMA BufferInvariant == ASSUME BufferConstants PROVE Buf!Spec => []BufferInv
<1>1. Buf!Init => BufferInv
  BY BufferInit
<1> QED BY <1>1, BufferNext, PTL DEF Buf!Spec

\* All of them are bytes.
Over(s) == \A k \in 1..Len(s) : s[k] \in Bytes

ByteConstants == BufferConstants /\ Buf!ByteAssumption /\ Buf!PowerAssumption

\* Copying bytes into bytes, and resizing.
LEMMA CopiedBytes ==
    ASSUME NEW buf, IsSequence(buf), Over(buf), NEW pos \in Nat, NEW data, IsSequence(data), Over(data)
    PROVE  Over(Buf!Copied(buf, pos, data))
<1>1. /\ Len(Buf!Copied(buf, pos, data)) = Len(buf) /\ Len(buf) \in Nat /\ Len(data) \in Nat
      /\ \A k \in 1..Len(buf) : Buf!Copied(buf, pos, data)[k] =
             IF pos < k /\ k <= pos + Len(data) THEN data[k - pos] ELSE buf[k]
  BY CopiedElements DEF IsSequence
<1>2. \A k \in 1..Len(buf) : pos < k /\ k <= pos + Len(data) => k - pos \in 1..Len(data)
  BY <1>1
<1> QED BY <1>1, <1>2 DEF Over

\* A resized vector has bytes only: what is new is zero.
LEMMA ResizedBytes ==
    ASSUME Buf!ByteAssumption, NEW buf, IsSequence(buf), Over(buf), NEW n \in Nat
    PROVE  Over(Buf!Resized(buf, n))
<1>1. /\ Len(Buf!Resized(buf, n)) = n /\ Len(buf) \in Nat
      /\ \A k \in 1..n : Buf!Resized(buf, n)[k] = IF k <= Len(buf) THEN buf[k] ELSE 0
  BY ResizedElements DEF IsSequence
<1>2. 0 \in Bytes
  BY DEF Buf!ByteAssumption
<1> QED BY <1>1, <1>2 DEF Over

\* The content of a buffer of bytes is of bytes.
LEMMA ContentBytes == ASSUME NEW b, NEW c, Holds(b, c), Over(b.buf) PROVE Over(c)
<1>1. PICK m \in Nat, n \in Nat, l \in Nat : m = b.reader /\ n = b.writer /\ l = Len(b.buf)
  BY DEF Holds, IsSequence
<1>2. n <= l /\ Len(c) = n - m /\ \A k \in 1..Len(c) : c[k] = b.buf[m + k]
  BY <1>1, Zenon DEF Holds
<1>3. \A k \in 1..(n - m) : m + k \in 1..l
  BY <1>2
<1> QED BY <1>1, <1>2, <1>3, Zenon DEF Over

\* The operations that write leave a vector of bytes.
LEMMA MakeSpaceBytes ==
    ASSUME ByteConstants, NEW b, NEW c, Holds(b, c), Over(b.buf), NEW len \in Nat
    PROVE  Over(Buf!MakeSpace(b, len).buf)
<1>1. IsSequence(b.buf) /\ b.writer \in Nat /\ kCheapPrepend \in Nat /\ Buf!ByteAssumption
  BY DEF ByteConstants, BufferConstants, Buf!SizeAssumption, Holds
<1>2. CASE Buf!MustGrow(b, len)
  <2>1. Buf!MakeSpace(b, len).buf = Buf!Resized(b.buf, b.writer + len)
    BY <1>2 DEF Buf!MakeSpace, Holds
  <2>2. b.writer + len \in Nat
    BY <1>1
  <2> QED BY <1>1, <2>1, <2>2, ResizedBytes, Zenon
<1>3. CASE ~Buf!MustGrow(b, len)
  <2>1. Buf!MakeSpace(b, len).buf = Buf!Copied(b.buf, kCheapPrepend, Buf!Readable(b))
    BY <1>3 DEF Buf!MakeSpace
  <2>2. Buf!Readable(b) = c /\ IsSequence(c) /\ Over(c)
    BY ReadableIsContent, ContentBytes DEF Holds
  <2> QED BY <1>1, <2>1, <2>2, CopiedBytes, Zenon
<1> QED BY <1>2, <1>3

\* ensureWritableBytes keeps bytes, whether it grows the vector or moves the content.
LEMMA EnsureBytes ==
    ASSUME ByteConstants, NEW b, NEW c, Holds(b, c), Over(b.buf), NEW len \in Nat
    PROVE  Over(Buf!EnsureWritableBytes(b, len).buf)
<1>1. PICK d : d = IF Buf!writableBytes(b) < len THEN Buf!MakeSpace(b, len) ELSE b
  OBVIOUS
<1>2. Over(d.buf)
  BY <1>1, MakeSpaceBytes, Zenon
<1>3. Buf!EnsureWritableBytes(b, len) = [d EXCEPT !.ok = d.ok /\ Buf!writableBytes(d) >= len]
  BY <1>1, Zenon DEF Buf!EnsureWritableBytes
<1>4. \A e : [d EXCEPT !.ok = e].buf = d.buf
  OBVIOUS
<1> QED BY <1>2, <1>3, <1>4, Zenon

\* Writing bytes at writerIndex_ leaves bytes.
LEMMA HasWrittenBytes ==
    ASSUME NEW b, NEW c, Holds(b, c), Over(b.buf), NEW data, IsSequence(data), Over(data)
    PROVE  Over(Buf!HasWritten(b, data).buf)
<1>1. PICK buf : buf = Buf!Copied(b.buf, b.writer, data)
  OBVIOUS
<1>2. Over(buf)
  BY <1>1, CopiedBytes, Zenon DEF Holds
<1>3. Buf!HasWritten(b, data).buf = buf
  BY <1>1 DEF Buf!HasWritten, Holds
<1> QED BY <1>2, <1>3, Zenon

\* append leaves bytes.
LEMMA AppendBytes ==
    ASSUME ByteConstants, NEW b, NEW c, Holds(b, c), Over(b.buf), NEW data, IsSequence(data), Over(data)
    PROVE  Over(Buf!AppendData(b, data).buf)
<1>1. Len(data) \in Nat /\ BufferConstants
  BY DEF IsSequence, ByteConstants
<1>2. PICK d : d = Buf!EnsureWritableBytes(b, Len(data))
  OBVIOUS
<1>3. Holds(d, c) /\ Over(d.buf)
  BY <1>1, <1>2, EnsureKeeps, EnsureBytes, Zenon
<1> QED BY <1>2, <1>3, HasWrittenBytes, Zenon DEF Buf!AppendData

\* A part of a sequence of bytes.
LEMMA CutBytes ==
    ASSUME NEW data, IsSequence(data), Over(data), NEW n \in 0..Len(data)
    PROVE  Over(SubSeq(data, 1, n)) /\ Over(SubSeq(data, n + 1, Len(data)))
<1>1. n \in Nat /\ n <= Len(data) /\ Len(data) \in Nat /\ n + 1 \in Nat
  BY DEF IsSequence
<1>2. Over(SubSeq(data, 1, n))
  <2>1. /\ Len(SubSeq(data, 1, n)) = n + 1 - 1
        /\ \A k \in 1..(n + 1 - 1) : SubSeq(data, 1, n)[k] = data[1 + k - 1]
    BY <1>1, Part
  <2>2. \A k \in 1..(n + 1 - 1) : 1 + k - 1 \in 1..Len(data)
    BY <1>1
  <2> QED BY <2>1, <2>2 DEF Over
<1>3. Over(SubSeq(data, n + 1, Len(data)))
  <2>1. /\ Len(SubSeq(data, n + 1, Len(data))) = Len(data) - n
        /\ \A k \in 1..(Len(data) - n) : SubSeq(data, n + 1, Len(data))[k] = data[n + k]
    BY <1>1, Suffix
  <2>2. \A k \in 1..(Len(data) - n) : n + k \in 1..Len(data)
    BY <1>1
  <2> QED BY <2>1, <2>2 DEF Over
<1> QED BY <1>2, <1>3

\* readFd leaves bytes, read in one block or in two.
LEMMA ReadFdBytes ==
    ASSUME ByteConstants, NEW b, NEW c, Holds(b, c), Over(b.buf), NEW data, IsSequence(data), Over(data)
    PROVE  Over(Buf!ReadFd(b, data).buf)
<1>0. BufferConstants
  BY DEF ByteConstants
<1>1. CASE Len(data) <= Buf!writableBytes(b)
  BY <1>1, HasWrittenBytes, Zenon DEF Buf!ReadFd
<1>2. CASE ~(Len(data) <= Buf!writableBytes(b))
  <2>1. PICK n : n = Buf!writableBytes(b)
    OBVIOUS
  <2>2. n \in 0..Len(data) /\ n <= Buf!writableBytes(b)
    BY <1>2, <2>1 DEF Buf!writableBytes, Holds, IsSequence
  <2>3. PICK s, t : s = SubSeq(data, 1, n) /\ t = SubSeq(data, n + 1, Len(data))
    OBVIOUS
  <2>4. IsSequence(s) /\ Len(s) = n /\ IsSequence(t)
    BY <2>2, <2>3, CutAndJoined
  <2>5. Over(s) /\ Over(t)
    BY <2>2, <2>3, CutBytes
  <2>6. PICK d : d = Buf!HasWritten(b, s)
    OBVIOUS
  <2>7. Holds(d, c \o s)
    BY <1>0, <2>2, <2>4, <2>6, HasWrittenKeeps
  <2>8. Over(d.buf)
    BY <2>4, <2>5, <2>6, HasWrittenBytes, Zenon
  <2>9. Over(Buf!AppendData(d, t).buf)
    BY <2>4, <2>5, <2>7, <2>8, AppendBytes, Zenon
  <2> QED BY <1>2, <2>1, <2>3, <2>6, <2>9, Zenon DEF Buf!ReadFd
<1> QED BY <1>1, <1>2

\* prepend leaves bytes.
LEMMA PrependBytes ==
    ASSUME NEW b, NEW c, Holds(b, c), Over(b.buf), NEW data, IsSequence(data), Over(data),
           Len(data) <= Buf!prependableBytes(b)
    PROVE  Over(Buf!Prepend(b, data).buf)
<1>1. PICK pos : pos = b.reader - Len(data)
  OBVIOUS
<1>2. pos \in Nat
  BY <1>1 DEF Buf!prependableBytes, Holds, IsSequence
<1>3. PICK buf : buf = Buf!Copied(b.buf, pos, data)
  OBVIOUS
<1>4. Over(buf)
  BY <1>2, <1>3, CopiedBytes, Zenon DEF Holds
<1>5. Buf!Prepend(b, data).buf = buf
  BY <1>1, <1>3 DEF Buf!Prepend, Holds
<1> QED BY <1>4, <1>5, Zenon

\* A new Buffer has bytes only.
LEMMA FreshBytes == ASSUME ByteConstants PROVE Over(Buf!Fresh.buf)
<1>1. kCheapPrepend + kInitialSize \in Nat /\ 0 \in Bytes
  BY DEF ByteConstants, BufferConstants, Buf!SizeAssumption, Buf!ByteAssumption
<1>2. PICK n \in Nat : n = kCheapPrepend + kInitialSize
  BY <1>1, Zenon
<1>3. PICK buf : buf = [i \in 1..n |-> 0]
  OBVIOUS
<1>4. Len(buf) = n /\ \A k \in 1..n : buf[k] \in Bytes
  BY <1>1, <1>3
<1>5. Over(buf)
  BY <1>4, Zenon DEF Over
<1>6. Buf!Fresh.buf = buf
  BY <1>2, <1>3 DEF Buf!Fresh
<1> QED BY <1>5, <1>6, Zenon

\* shrink leaves bytes.
LEMMA ShrinkBytes ==
    ASSUME ByteConstants, NEW b, NEW c, Holds(b, c), Over(b.buf), NEW reserve \in Nat
    PROVE  Over(Buf!Shrink(b, reserve).buf)
<1>1. /\ Buf!readableBytes(b) + reserve \in Nat /\ IsSequence(c) /\ Over(c)
      /\ Buf!Readable(b) = c /\ BufferConstants
  <2>1. Over(c) /\ Buf!Readable(b) = c
    BY ContentBytes, ReadableIsContent, Zenon
  <2> QED BY <2>1 DEF Buf!readableBytes, Holds, ByteConstants
<1>2. PICK d : d = Buf!EnsureWritableBytes(Buf!Fresh, Buf!readableBytes(b) + reserve)
  OBVIOUS
<1>3. Holds(Buf!Fresh, <<>>) /\ Over(Buf!Fresh.buf)
  BY <1>1, FreshHolds, FreshBytes, Zenon
<1>4. Holds(d, <<>>) /\ Over(d.buf)
  BY <1>1, <1>2, <1>3, EnsureKeeps, EnsureBytes, Zenon
<1>5. PICK other : other = Buf!AppendData(d, c)
  OBVIOUS
<1>6. Over(other.buf)
  BY <1>1, <1>4, <1>5, AppendBytes, Zenon
<1>7. Buf!Shrink(b, reserve) = [other EXCEPT !.ok = b.ok /\ other.ok]
  BY <1>1, <1>2, <1>5, Zenon DEF Buf!Shrink
<1>8. \A e : [other EXCEPT !.ok = e].buf = other.buf
  OBVIOUS
<1> QED BY <1>6, <1>7, <1>8, Zenon

\* The digits of an integer are bytes.
LEMMA BigEndianBytes ==
    ASSUME ByteConstants, NEW w \in Widths, NEW x \in Buf!Ints(w)
    PROVE  Over(Buf!BigEndian(x, w))
<1>1. w \in Nat /\ \A k \in 0..w : Buf!Radix^k \in Nat \ {0}
  BY DEF ByteConstants, BufferConstants, Buf!PowerAssumption
<1>2. Buf!Radix \in Nat /\ Bytes = 0..(Buf!Radix - 1) /\ Buf!Radix > 0
  BY DEF ByteConstants, Buf!ByteAssumption, Buf!Radix
<1>3. x \in Int
  BY <1>1 DEF Buf!Ints
<1>4. PICK big : big = Buf!BigEndian(x, w)
  OBVIOUS
<1>5. big = [k \in 1..w |-> big[k]] /\ \A k \in 1..w : big[k] = (x \div Buf!Radix^(w - k)) % Buf!Radix
  BY <1>4, Zenon DEF Buf!BigEndian
<1>6. Len(big) = w
  BY <1>1, <1>5, FunctionIsSequence, Zenon
<1>7. \A k \in 1..w : big[k] \in Bytes
  <2>1. \A r \in Nat \ {0}, m \in Nat \ {0} : (x \div r) % m \in 0..(m - 1)
    BY <1>3
  <2>2. \A k \in 1..w : w - k \in 0..w
    BY <1>1
  <2> QED BY <1>1, <1>2, <1>5, <2>1, <2>2
<1> QED BY <1>4, <1>6, <1>7, Zenon DEF Over

\* The vector is one of bytes, besides.
ByteInv == BufferInv /\ ByteConstants /\ Over(buffer_)

\* Every operation leaves a vector of bytes.
LEMMA ByteNext == ASSUME ByteInv, [Buf!Next]_(Buf!vars) PROVE ByteInv'
<1>0. /\ ByteConstants /\ Holds(Buf!this, content) /\ Over(Buf!this.buf) /\ BufferInv
      /\ ByteConstants'
  BY DEF ByteInv, BufferInv, Buf!this, ByteConstants, BufferConstants, Buf!SizeAssumption,
     Buf!ByteAssumption, Buf!PowerAssumption, Buf!Radix
<1>1. BufferInv'
  BY <1>0, BufferNext
<1>2. ASSUME NEW b, Over(b.buf), Buf!Becomes(b) PROVE ByteInv'
  <2>1. buffer_' = b.buf
    BY <1>2 DEF Buf!Becomes
  <2>2. Over(buffer_')
    BY <1>2, <2>1, Zenon
  <2> QED BY <1>0, <1>1, <2>2, Zenon DEF ByteInv, Over
<1>3. ASSUME NEW data, IsSequence(data), Over(data),
             \/ Buf!DoAppend(data) \/ Buf!DoHasWritten(data) \/ Buf!DoPrepend(data)
             \/ Buf!DoReadFd(data)
      PROVE  ByteInv'
  <2>1. CASE Buf!DoAppend(data)
    BY <1>0, <1>2, <1>3, <2>1, AppendBytes, Zenon DEF Buf!DoAppend
  <2>2. CASE Buf!DoHasWritten(data)
    BY <1>0, <1>2, <1>3, <2>2, HasWrittenBytes, Zenon DEF Buf!DoHasWritten
  <2>3. CASE Buf!DoPrepend(data)
    BY <1>0, <1>2, <1>3, <2>3, PrependBytes, Zenon DEF Buf!DoPrepend
  <2>4. CASE Buf!DoReadFd(data)
    BY <1>0, <1>2, <1>3, <2>4, ReadFdBytes, Zenon DEF Buf!DoReadFd
  <2> QED BY <1>3, <2>1, <2>2, <2>3, <2>4
<1>4. ASSUME NEW data \in Buf!Pieces PROVE IsSequence(data) /\ Over(data)
  <2>1. PICK n \in 0..MaxLen : data \in [1..n -> Bytes]
    BY <1>4 DEF Buf!Pieces
  <2>2. n \in Nat
    BY <2>1
  <2>3. IsSequence(data) /\ Len(data) = n
    BY <2>1, <2>2, FunctionIsSequence
  <2> QED BY <2>1, <2>3 DEF Over
<1>5. ASSUME NEW w \in Widths, NEW x \in Buf!Ints(w), Buf!DoAppendInt(x, w) \/ Buf!DoPrependInt(x, w)
      PROVE  ByteInv'
  <2>1. w \in Nat
    BY <1>0 DEF ByteConstants, BufferConstants
  <2>2. PICK big : big = Buf!BigEndian(x, w)
    OBVIOUS
  <2>3. /\ Buf!hostToNetwork(Buf!InMemory(x, w)) = big /\ IsSequence(big) /\ Len(big) = w /\ Over(big)
    <3>1. big = [k \in 1..w |-> big[k]]
      BY <2>2, Zenon DEF Buf!BigEndian
    <3>2. IsSequence(big) /\ Len(big) = w
      BY <2>1, <3>1, FunctionIsSequence, Zenon
    <3>3. Over(big)
      BY <1>0, <2>2, BigEndianBytes, Zenon
    <3> QED BY <2>1, <2>2, <3>2, <3>3, NetworkOrder, Zenon
  <2>4. CASE Buf!DoAppendInt(x, w)
    <3>1. Buf!Becomes(Buf!AppendData(Buf!this, big))
      BY <2>3, <2>4, Zenon DEF Buf!DoAppendInt
    <3> QED BY <1>0, <1>2, <2>3, <3>1, AppendBytes, Zenon
  <2>5. CASE Buf!DoPrependInt(x, w)
    <3>1. Buf!Becomes(Buf!Prepend(Buf!this, big)) /\ Len(big) <= Buf!prependableBytes(Buf!this)
      BY <2>3, <2>5, Zenon DEF Buf!DoPrependInt
    <3> QED BY <1>0, <1>2, <2>3, <3>1, PrependBytes, Zenon
  <2> QED BY <1>5, <2>4, <2>5
<1>6. ASSUME NEW len \in Nat, Buf!DoEnsureWritableBytes(len) \/ Buf!DoShrink(len) PROVE ByteInv'
  <2>1. CASE Buf!DoEnsureWritableBytes(len)
    BY <1>0, <1>2, <2>1, EnsureBytes, Zenon DEF Buf!DoEnsureWritableBytes
  <2>2. CASE Buf!DoShrink(len)
    BY <1>0, <1>2, <2>2, ShrinkBytes, Zenon DEF Buf!DoShrink
  <2> QED BY <1>6, <2>1, <2>2
<1>7. ASSUME NEW len \in Nat, Buf!DoRetrieve(len) \/ Buf!DoUnwrite(len) PROVE ByteInv'
  <2>1. /\ Buf!Retrieve(Buf!this, len).buf = Buf!this.buf
        /\ Buf!Unwrite(Buf!this, len).buf = Buf!this.buf
    BY DEF Buf!Retrieve, Buf!Unwrite, Buf!this
  <2>2. CASE Buf!DoRetrieve(len)
    BY <1>0, <1>2, <2>1, <2>2, Zenon DEF Buf!DoRetrieve
  <2>3. CASE Buf!DoUnwrite(len)
    BY <1>0, <1>2, <2>1, <2>3, Zenon DEF Buf!DoUnwrite
  <2> QED BY <1>7, <2>2, <2>3
<1>8. CASE UNCHANGED Buf!vars
  <2>1. buffer_' = buffer_
    BY <1>8 DEF Buf!vars
  <2>2. Over(buffer_)
    BY DEF ByteInv
  <2> QED BY <1>0, <1>1, <2>1, <2>2, Zenon DEF ByteInv, Over
<1>9. (\A len \in 0..MaxLen : len \in Nat) /\ (\A len \in 0..MaxContent : len \in Nat)
  OBVIOUS
<1> QED BY <1>3, <1>4, <1>5, <1>6, <1>7, <1>8, <1>9, Zenon DEF Buf!Next

\* The diagram of Buffer.h:31-37 holds, over a vector of bytes, for buffers and calls of any
\* size, and prepending keeps its room.
THEOREM BufferTypes == ByteConstants /\ Buf!Spec => []Buf!TypeOK
<1>1. ASSUME ByteInv PROVE Buf!TypeOK
  <2>1. /\ IsSequence(buffer_) /\ Over(buffer_) /\ ok = TRUE
        /\ readerIndex_ \in Nat /\ writerIndex_ \in Nat
        /\ readerIndex_ <= writerIndex_ /\ writerIndex_ <= Len(buffer_)
        /\ kCheapPrepend <= Len(buffer_)
    BY <1>1 DEF ByteInv, BufferInv, Holds, Buf!this
  <2>2. buffer_ \in Seq(Bytes)
    <3>1. PICK n \in Nat : n = Len(buffer_)
      BY <2>1 DEF IsSequence
    <3>2. buffer_ \in [1..n -> Bytes]
      BY <2>1, <3>1 DEF IsSequence, Over
    <3>3. buffer_ \in UNION {[1..i -> Bytes] : i \in Nat}
      BY <3>2, Zenon
    <3> QED BY <3>3, SeqDef, Zenon
  <2> QED BY <2>1, <2>2, Zenon DEF Buf!TypeOK
<1>2. ByteConstants /\ Buf!Init => ByteInv
  <2> SUFFICES ASSUME ByteConstants, Buf!Init PROVE ByteInv
    OBVIOUS
  <2>1. BufferInv /\ buffer_ = Buf!Fresh.buf
    BY BufferInit DEF ByteConstants, Buf!Init
  <2> QED BY <2>1, FreshBytes, Zenon DEF ByteInv
<1>3. ByteInv /\ [Buf!Next]_(Buf!vars) => ByteInv'
  BY ByteNext
<1>4. ByteInv => Buf!TypeOK
  BY <1>1
<1> QED BY <1>2, <1>3, <1>4, PTL DEF Buf!Spec

\* The asserts in makeSpace and ensureWritableBytes hold and the bytes between the indexes
\* are those of a queue of bytes, for every size of the buffer, of the room in front and of
\* what is written, read, taken and prepended.
THEOREM BufferContentKept ==
    ASSUME BufferConstants
    PROVE Buf!Spec => [](Buf!AssertsHold /\ Buf!ContentKept)
<1>1. BufferInv => Buf!AssertsHold /\ Buf!ContentKept
  <2> SUFFICES ASSUME BufferInv PROVE Buf!AssertsHold /\ Buf!ContentKept
    OBVIOUS
  <2>1. Buf!this.ok = TRUE /\ Buf!this.ok = ok
    BY DEF BufferInv, Holds, Buf!this
  <2> QED BY <2>1, ReadableIsContent DEF BufferInv, Buf!AssertsHold, Buf!ContentKept
<1> QED BY <1>1, BufferInvariant, PTL

\* The first of the line ends: what is least in a set is least in the shifted set.
LEMMA MinShifted ==
    ASSUME NEW A, A \subseteq Nat, NEW B, B \subseteq Nat, NEW d \in Int,
           \A k \in A : k - d \in B, \A k \in B : k + d \in A
    PROVE  /\ A = {} <=> B = {}
           /\ B # {} => Buf!Min(A) = d + Buf!Min(B)
<1>1. A = {} <=> B = {}
  OBVIOUS
<1>2. ASSUME B # {} PROVE Buf!Min(A) = d + Buf!Min(B)
  <2>1. \E x \in A : \A y \in A : x <= y
    BY <1>1, <1>2, Least
  <2>2. Buf!Min(A) \in A /\ \A y \in A : Buf!Min(A) <= y
    BY <2>1 DEF Buf!Min
  <2>3. \E x \in B : \A y \in B : x <= y
    BY <1>2, Least
  <2>4. Buf!Min(B) \in B /\ \A y \in B : Buf!Min(B) <= y
    BY <2>3 DEF Buf!Min
  <2>5. Buf!Min(B) <= Buf!Min(A) - d /\ Buf!Min(A) <= Buf!Min(B) + d /\ Buf!Min(A) \in Nat /\ Buf!Min(B) \in Nat
    BY <2>2, <2>4
  <2> QED BY <2>5
<1> QED BY <1>1, <1>2

\* findEOL and findCRLF find the first line end of the content behind their start, whatever
\* bytes are left behind the content.
THEOREM BufferLineEndsFound == ASSUME BufferConstants PROVE Buf!Spec => []Buf!LineEndsFound
<1>1. BufferInv => Buf!LineEndsFound
  <2>0. SUFFICES ASSUME BufferInv, NEW start \in readerIndex_..writerIndex_,
                      NEW LFs, LFs = {k \in 1..Len(content) :
                                          k > start - readerIndex_ /\ content[k] = Buf!LF},
                      NEW CRLFs, CRLFs = {k \in 1..(Len(content) - 1) :
                                              k > start - readerIndex_
                                              /\ content[k] = Buf!CR /\ content[k + 1] = Buf!LF}
               PROVE  /\ Buf!FindEOL(Buf!this, start) =
                             IF LFs = {} THEN Buf!NULL ELSE readerIndex_ + Buf!Min(LFs) - 1
                      /\ Buf!FindCRLF(Buf!this, start) =
                             IF CRLFs = {} THEN Buf!NULL ELSE readerIndex_ + Buf!Min(CRLFs) - 1
    BY Zenon DEF Buf!LineEndsFound
  <2>1. /\ readerIndex_ \in Nat /\ writerIndex_ \in Nat /\ start \in Nat
        /\ Len(content) = writerIndex_ - readerIndex_
        /\ \A k \in 1..Len(content) : content[k] = buffer_[readerIndex_ + k]
        /\ readerIndex_ <= start /\ start <= writerIndex_
    BY <2>0 DEF BufferInv, Holds, Buf!this
  <2>2. PICK d \in Int : d = readerIndex_ - 1 /\ \A m \in Nat : d + m = readerIndex_ + m - 1
    BY <2>1
  <2>3. Buf!FindEOL(Buf!this, start) = IF LFs = {} THEN Buf!NULL ELSE readerIndex_ + Buf!Min(LFs) - 1
    <3>0. SUFFICES ASSUME NEW found, found = {k \in start..(writerIndex_ - 1) :
                                                 buffer_[k + 1] = Buf!LF}
                 PROVE  (IF found = {} THEN Buf!NULL ELSE Buf!Min(found)) =
                            IF LFs = {} THEN Buf!NULL ELSE readerIndex_ + Buf!Min(LFs) - 1
      BY DEF Buf!FindEOL, Buf!this
    <3>1. found \subseteq Nat /\ LFs \subseteq Nat
      BY <2>0, <2>1, <3>0
    <3>2. \A k \in found : k - d \in LFs
      <4> SUFFICES ASSUME NEW k \in found PROVE k - d \in LFs
        OBVIOUS
      <4>1. /\ k - d \in 1..Len(content) /\ k - d > start - readerIndex_
            /\ readerIndex_ + (k - d) = k + 1
        BY <2>0, <2>1, <2>2, <3>0
      <4> QED BY <2>0, <2>1, <3>0, <4>1
    <3>3. \A k \in LFs : k + d \in found
      <4> SUFFICES ASSUME NEW k \in LFs PROVE k + d \in found
        OBVIOUS
      <4>1. /\ k + d \in start..(writerIndex_ - 1) /\ k + d + 1 = readerIndex_ + k
            /\ k \in 1..Len(content)
        BY <2>0, <2>1, <2>2, <3>0
      <4> QED BY <2>0, <2>1, <3>0, <4>1
    <3>4. (found = {} <=> LFs = {}) /\ (LFs # {} => Buf!Min(found) = d + Buf!Min(LFs))
      BY <3>1, <3>2, <3>3, MinShifted
    <3>5. LFs # {} => Buf!Min(LFs) \in LFs
      <4>1. LFs # {} => \E x \in LFs : \A y \in LFs : x <= y
        BY <3>1, Least
      <4> QED BY <4>1 DEF Buf!Min
    <3>6. LFs # {} => d + Buf!Min(LFs) = readerIndex_ + Buf!Min(LFs) - 1
      <4>1. LFs # {} => Buf!Min(LFs) \in Nat
        BY <3>1, <3>5
      <4> QED BY <2>2, <4>1, Zenon
    <3> QED BY <3>4, <3>6
  <2>4. Buf!FindCRLF(Buf!this, start) = IF CRLFs = {} THEN Buf!NULL ELSE readerIndex_ + Buf!Min(CRLFs) - 1
    <3>0. SUFFICES ASSUME NEW found, found = {k \in start..(writerIndex_ - 2) :
                                                 buffer_[k + 1] = Buf!CR /\ buffer_[k + 2] = Buf!LF}
                 PROVE  (IF found = {} THEN Buf!NULL ELSE Buf!Min(found)) =
                            IF CRLFs = {} THEN Buf!NULL ELSE readerIndex_ + Buf!Min(CRLFs) - 1
      BY DEF Buf!FindCRLF, Buf!this
    <3>1. found \subseteq Nat /\ CRLFs \subseteq Nat
      BY <2>0, <2>1, <3>0
    <3>2. \A k \in found : k - d \in CRLFs
      <4> SUFFICES ASSUME NEW k \in found PROVE k - d \in CRLFs
        OBVIOUS
      <4>1. /\ k - d \in 1..(Len(content) - 1) /\ k - d > start - readerIndex_
            /\ readerIndex_ + (k - d) = k + 1 /\ readerIndex_ + (k - d + 1) = k + 2
            /\ k - d \in 1..Len(content) /\ k - d + 1 \in 1..Len(content)
        BY <2>0, <2>1, <2>2, <3>0
      <4>2. content[k - d] = buffer_[k + 1] /\ content[k - d + 1] = buffer_[k + 2]
        BY <2>1, <4>1
      <4> QED BY <2>0, <3>0, <4>1, <4>2
    <3>3. \A k \in CRLFs : k + d \in found
      <4> SUFFICES ASSUME NEW k \in CRLFs PROVE k + d \in found
        OBVIOUS
      <4>1. /\ k + d \in start..(writerIndex_ - 2) /\ k + d + 1 = readerIndex_ + k
            /\ k + d + 2 = readerIndex_ + (k + 1)
            /\ k \in 1..Len(content) /\ k + 1 \in 1..Len(content)
        BY <2>0, <2>1, <2>2, <3>0
      <4>2. content[k] = buffer_[k + d + 1] /\ content[k + 1] = buffer_[k + d + 2]
        BY <2>1, <4>1
      <4> QED BY <2>0, <3>0, <4>1, <4>2
    <3>4. (found = {} <=> CRLFs = {}) /\ (CRLFs # {} => Buf!Min(found) = d + Buf!Min(CRLFs))
      BY <3>1, <3>2, <3>3, MinShifted
    <3>5. CRLFs # {} => Buf!Min(CRLFs) \in CRLFs
      <4>1. CRLFs # {} => \E x \in CRLFs : \A y \in CRLFs : x <= y
        BY <3>1, Least
      <4> QED BY <4>1 DEF Buf!Min
    <3>6. CRLFs # {} => d + Buf!Min(CRLFs) = readerIndex_ + Buf!Min(CRLFs) - 1
      <4>1. CRLFs # {} => Buf!Min(CRLFs) \in Nat
        BY <3>1, <3>5
      <4> QED BY <2>2, <4>1, Zenon
    <3> QED BY <3>4, <3>6
  <2> QED BY <2>3, <2>4
<1> QED BY <1>1, BufferInvariant, PTL

-----------------------------------------------------------------------------
(***************************************************************************)
(* Singleton, ThreadLocalSingleton and ThreadLocal.                        *)
(***************************************************************************)

\* What Base calls them; pc and failed are called userPc and unmet here.
ponce_ == v1
value_ == v2
built == v3
atexit_ == v4
got == v5
t_value_ == v6
specific == v7
alive == v8
ending == v9
userPc == v10
over == v11
unmet == v12

USE DEF ponce_, value_, built, atexit_, got, t_value_, specific, alive, ending, userPc, over,
    unmet

\* No thread has the name of a state of ponce_, and pthread goes through the keys.
SingletonConstants == Users \cap {"new", "done"} = {} /\ Sg!RoundAssumption

OnceTypes ==
    /\ ponce_ \in {"new", "done"} \cup Users
    /\ built \in Nat /\ atexit_ \in BOOLEAN /\ over \in BOOLEAN
    /\ got \in [Users -> Nat]
    /\ userPc \in [Users -> {"running", "once", "init", "ending", "over"}]

\* The one thread that pthread_once has let in is the one in init(), nobody has got past it
\* before, and exit() is called after the threads.
OnceInv ==
    /\ \A t \in Users : userPc[t] = "init" <=> ponce_ = t
    /\ \A t \in Users : userPc[t] = "once" \/ got[t] # 0 => ponce_ = "done"
    /\ ponce_ # "done" => built = 0 /\ value_ = 0 /\ ~atexit_
    /\ ponce_ = "done" => built = 1 /\ value_ = IF over /\ atexit_ THEN 0 ELSE 1
    /\ \A t \in Users : got[t] \in {0, 1}
    /\ over => \A t \in Users : userPc[t] = "over"

Endings == [round : Nat \ {0}, passed : SUBSET Sg!Keys,
            destructor : Sg!Keys \cup {"none"}, anew : Nat]

LocalTypes ==
    /\ t_value_ \in [Users -> BOOLEAN]
    /\ specific \in [Users -> [Sg!Keys -> BOOLEAN]]
    /\ alive \in [Users -> [Sg!Keys -> Nat]]

\* Both tests of whether there is an object agree with the objects that there are.
LocalInv ==
    /\ \A t \in Users, k \in Sg!Keys :
        /\ alive[t][k] = IF specific[t][k] THEN 1 ELSE 0
        /\ k = "ThreadLocalSingleton" => (t_value_[t] <=> specific[t][k])
    /\ unmet = {}

\* A round begins because a destructor has made an object anew in the round before, and a
\* key that is passed and has a value shows that one has in this round.  e, s and p are the
\* ending, specific and userPc of a thread.
EndsWell(e, s, p) ==
    /\ p \in {"running", "once", "init"} => e.passed = {}
    /\ e.anew >= e.round - 1
    /\ \A k \in Sg!Keys : k \in e.passed /\ s[k] => e.anew >= e.round
    /\ p = "over" => e.passed = Sg!Keys /\ ((\E k \in Sg!Keys : s[k]) => e.round = Rounds)

EndingInv ==
    /\ ending \in [Users -> Endings]
    /\ \A t \in Users : EndsWell(ending[t], specific[t], userPc[t])

SingletonInv ==
    SingletonConstants /\ OnceTypes /\ OnceInv /\ LocalTypes /\ LocalInv /\ EndingInv

\* instance() for the first time, the others, and exit() keep the invariant of Singleton.
LEMMA OnceNext ==
    ASSUME SingletonInv, [Sg!Next]_(Sg!vars)
    PROVE  OnceTypes' /\ OnceInv'
<1> USE DEF SingletonInv, SingletonConstants, OnceTypes, OnceInv
<1> USE DEF Sg!Goes, Sg!Fails, Sg!once, Sg!local
<1>1. ASSUME NEW t \in Users, Sg!Once(t) PROVE OnceTypes' /\ OnceInv'
  BY <1>1 DEF Sg!Once
<1>2. ASSUME NEW t \in Users, Sg!InitValue(t) PROVE OnceTypes' /\ OnceInv'
  BY <1>2 DEF Sg!InitValue
<1>3. ASSUME NEW t \in Users, Sg!Instance(t) PROVE OnceTypes' /\ OnceInv'
  BY <1>3 DEF Sg!Instance
<1>4. ASSUME NEW t \in Users, Sg!EndThread(t) PROVE OnceTypes' /\ OnceInv'
  BY <1>4 DEF Sg!EndThread
<1>5. ASSUME NEW t \in Users, Sg!ThreadOver(t) PROVE OnceTypes' /\ OnceInv'
  BY <1>5 DEF Sg!ThreadOver
<1>6. ASSUME NEW t \in Users, NEW k \in Sg!Keys,
             \/ Sg!UseLocal(t, k) \/ Sg!Destructor(t, k)
             \/ Sg!NothingToDestroy(t, k) \/ Sg!UseAgain(t, k)
      PROVE  OnceTypes' /\ OnceInv'
  BY <1>6 DEF Sg!UseLocal, Sg!Destructor, Sg!NothingToDestroy, Sg!UseAgain
<1>7. ASSUME Sg!Exit PROVE OnceTypes' /\ OnceInv'
  BY <1>7 DEF Sg!Exit
<1>8. ASSUME NEW t \in Users, Sg!NextRound(t) PROVE OnceTypes' /\ OnceInv'
  BY <1>8 DEF Sg!NextRound
<1>9. CASE UNCHANGED Sg!vars
  BY <1>9 DEF Sg!vars
<1> QED BY <1>1, <1>2, <1>3, <1>4, <1>5, <1>6, <1>7, <1>8, <1>9 DEF Sg!Next

\* A use of a key makes an object if there is none.
LEMMA UseKeepsLocal ==
    ASSUME SingletonInv, NEW t \in Users, NEW k \in Sg!Keys,
           Sg!Use(t, k), userPc[t] # "over", UNCHANGED userPc
    PROVE  LocalTypes' /\ LocalInv'
<1> USE DEF SingletonInv, LocalTypes, LocalInv
<1>1. CASE Sg!IsThere(t, k)
  BY <1>1 DEF Sg!Use
<1>2. CASE ~Sg!IsThere(t, k)
  <2>1. ~specific[t][k]
    BY <1>2 DEF Sg!IsThere
  <2>2. /\ t_value_' = IF k = "ThreadLocal" THEN t_value_ ELSE [t_value_ EXCEPT ![t] = TRUE]
        /\ specific' = [specific EXCEPT ![t][k] = TRUE]
        /\ alive' = [alive EXCEPT ![t][k] = @ + 1]
        /\ unmet' = unmet
    BY <1>2, <2>1 DEF Sg!Use, Sg!Fails
  <2> QED BY <2>1, <2>2 DEF Sg!Keys
<1> QED BY <1>1, <1>2

\* The objects of the threads: every step keeps the tests in step with them.
LEMMA LocalNext ==
    ASSUME SingletonInv, [Sg!Next]_(Sg!vars)
    PROVE  LocalTypes' /\ LocalInv'
<1> USE DEF SingletonInv, LocalTypes, LocalInv, OnceTypes
<1>1. ASSUME NEW t \in Users,
             Sg!Once(t) \/ Sg!InitValue(t) \/ Sg!EndThread(t) \/ Sg!ThreadOver(t)
      PROVE  LocalTypes' /\ LocalInv'
  BY <1>1 DEF Sg!Once, Sg!InitValue, Sg!EndThread, Sg!ThreadOver, Sg!Goes, Sg!local
<1>2. ASSUME NEW t \in Users, Sg!Instance(t) PROVE LocalTypes' /\ LocalInv'
  <2>1. value_ = 1
    BY <1>2 DEF Sg!Instance, Sg!Goes, OnceInv
  <2> QED BY <1>2, <2>1 DEF Sg!Instance, Sg!Goes, Sg!Fails, Sg!local
<1>3. ASSUME NEW t \in Users, NEW k \in Sg!Keys, Sg!UseLocal(t, k) \/ Sg!UseAgain(t, k)
      PROVE  LocalTypes' /\ LocalInv'
  <2>1. userPc[t] # "over" /\ Sg!Use(t, k) /\ UNCHANGED userPc
    BY <1>3 DEF Sg!UseLocal, Sg!UseAgain
  <2> QED BY <2>1, UseKeepsLocal
<1>4. ASSUME NEW t \in Users, NEW k \in Sg!Keys, Sg!Destructor(t, k)
      PROVE  LocalTypes' /\ LocalInv'
  <2>1. LocalTypes'
    BY <1>4 DEF Sg!Destructor, Sg!Pass, Sg!Keys
  <2>2. LocalInv'
    BY <1>4 DEF Sg!Destructor, Sg!Fails, Sg!Keys
  <2> QED BY <2>1, <2>2
<1>5. ASSUME NEW t \in Users, NEW k \in Sg!Keys, Sg!NothingToDestroy(t, k)
      PROVE  LocalTypes' /\ LocalInv'
  BY <1>5 DEF Sg!NothingToDestroy, Sg!Pass
<1>6. ASSUME NEW t \in Users, Sg!NextRound(t) PROVE LocalTypes' /\ LocalInv'
  BY <1>6 DEF Sg!NextRound
<1>7. CASE Sg!Exit
  BY <1>7 DEF Sg!Exit, Sg!local
<1>8. CASE UNCHANGED Sg!vars
  BY <1>8 DEF Sg!vars
<1> QED BY <1>1, <1>2, <1>3, <1>4, <1>5, <1>6, <1>7, <1>8 DEF Sg!Next

\* How a thread ends is its own affair.
LEMMA OthersEnd ==
    ASSUME SingletonInv, NEW t \in Users, EndsWell(ending[t], specific[t], userPc[t])',
           ending' \in [Users -> Endings],
           \A u \in Users \ {t} : /\ ending'[u] = ending[u] /\ specific'[u] = specific[u]
                                 /\ userPc'[u] = userPc[u]
    PROVE  EndingInv'
BY DEF SingletonInv, EndingInv

\* What pthread and the destructors make of the ending of a thread is one again.
LEMMA AnewType ==
    ASSUME NEW e \in Endings
    PROVE  [e EXCEPT !.anew = @ + 1] \in Endings
<1>1. e.anew + 1 \in Nat
  BY DEF Endings
<1> QED BY <1>1, Zenon DEF Endings

\* the same of a key that is passed
LEMMA PassedType ==
    ASSUME NEW e \in Endings, NEW k \in Sg!Keys, NEW d \in {k, "none"}
    PROVE  [e EXCEPT !.passed = @ \cup {k}, !.destructor = d] \in Endings
<1>1. e.passed \cup {k} \in SUBSET Sg!Keys /\ d \in Sg!Keys \cup {"none"}
  BY DEF Endings
<1> QED BY <1>1, Zenon DEF Endings

\* and of a round that begins
LEMMA RoundType ==
    ASSUME NEW e \in Endings
    PROVE  [e EXCEPT !.round = @ + 1, !.passed = {}, !.destructor = "none"] \in Endings
<1>1. e.round + 1 \in Nat \ {0} /\ {} \in SUBSET Sg!Keys /\ "none" \in Sg!Keys \cup {"none"}
  BY DEF Endings
<1> QED BY <1>1, Zenon DEF Endings

\* The rounds: objects made anew are as many as the rounds that have begun behind the first.
LEMMA EndingNext ==
    ASSUME SingletonInv, [Sg!Next]_(Sg!vars)
    PROVE  EndingInv'
<1> USE DEF SingletonInv, LocalTypes, OnceTypes
<1>0. ending \in [Users -> Endings] /\ \A t \in Users : EndsWell(ending[t], specific[t], userPc[t])
  BY DEF EndingInv
<1>1. ASSUME NEW t \in Users,
             Sg!Once(t) \/ Sg!InitValue(t) \/ Sg!EndThread(t) \/ Sg!ThreadOver(t) \/ Sg!Instance(t)
      PROVE  EndingInv'
  <2>1. UNCHANGED <<ending, specific>>
    BY <1>1 DEF Sg!Once, Sg!InitValue, Sg!EndThread, Sg!ThreadOver, Sg!Instance, Sg!local
  <2>2. EndsWell(ending[t], specific[t], userPc[t])'
    BY <1>1, <1>0, <2>1 DEF EndsWell, Sg!Once, Sg!InitValue, Sg!EndThread, Sg!ThreadOver,
       Sg!Instance, Sg!Goes, Sg!HasValues
  <2>3. \A u \in Users \ {t} : userPc'[u] = userPc[u]
    BY <1>1 DEF Sg!Once, Sg!InitValue, Sg!EndThread, Sg!ThreadOver, Sg!Instance, Sg!Goes
  <2> QED BY <1>0, <2>1, <2>2, <2>3, OthersEnd
<1>2. ASSUME NEW t \in Users, NEW k \in Sg!Keys, Sg!UseLocal(t, k)
      PROVE  EndingInv'
  <2>1. UNCHANGED <<ending, userPc>> /\ userPc[t] = "running"
    BY <1>2 DEF Sg!UseLocal
  <2>2. EndsWell(ending[t], specific[t], userPc[t])'
    BY <1>0, <2>1 DEF EndsWell
  <2>3. \A u \in Users \ {t} : specific'[u] = specific[u]
    BY <1>2 DEF Sg!UseLocal, Sg!Use
  <2> QED BY <1>0, <2>1, <2>2, <2>3, OthersEnd
<1>3. ASSUME NEW t \in Users, NEW k \in Sg!Keys, Sg!UseAgain(t, k)
      PROVE  EndingInv'
  <2>1. UNCHANGED userPc /\ userPc[t] = "ending" /\ ending' = [ending EXCEPT ![t].anew = @ + 1]
    BY <1>3 DEF Sg!UseAgain
  <2>2. ending' \in [Users -> Endings]
    <3>1. [ending[t] EXCEPT !.anew = @ + 1] \in Endings
      BY <1>0, AnewType
    <3>2. ending' = [ending EXCEPT ![t] = [ending[t] EXCEPT !.anew = @ + 1]]
      BY <1>0, <2>1 DEF Endings
    <3> QED BY <1>0, <3>1, <3>2
  <2>3. EndsWell(ending[t], specific[t], userPc[t])'
    BY <1>0, <2>1 DEF EndsWell, Endings
  <2>4. \A u \in Users \ {t} : specific'[u] = specific[u] /\ ending'[u] = ending[u]
    BY <1>0, <1>3, <2>1 DEF Sg!UseAgain, Sg!Use
  <2> QED BY <2>1, <2>2, <2>3, <2>4, OthersEnd
<1>4. ASSUME NEW t \in Users, NEW k \in Sg!Keys,
             Sg!Destructor(t, k) \/ Sg!NothingToDestroy(t, k)
      PROVE  EndingInv'
  <2>1. /\ UNCHANGED userPc /\ userPc[t] = "ending"
        /\ \E d \in {k, "none"} :
            ending' = [ending EXCEPT ![t].passed = @ \cup {k}, ![t].destructor = d]
    BY <1>4 DEF Sg!Destructor, Sg!NothingToDestroy, Sg!Pass
  <2>2. /\ ~specific'[t][k] /\ \A j \in Sg!Keys \ {k} : specific'[t][j] = specific[t][j]
        /\ \A u \in Users \ {t} : specific'[u] = specific[u]
    BY <1>4 DEF Sg!Destructor, Sg!NothingToDestroy
  <2>3. PICK d \in {k, "none"} :
            ending' = [ending EXCEPT ![t].passed = @ \cup {k}, ![t].destructor = d]
    BY <2>1
  <2>4. ending' \in [Users -> Endings]
    <3>0. ending[t] \in Endings
      BY <1>0
    <3>1. [ending[t] EXCEPT !.passed = @ \cup {k}, !.destructor = d] \in Endings
      BY <3>0, PassedType, Zenon
    <3>2. ending' = [ending EXCEPT ![t] =
                        [ending[t] EXCEPT !.passed = @ \cup {k}, !.destructor = d]]
      BY <1>0, <2>3 DEF Endings
    <3> QED BY <1>0, <3>1, <3>2
  <2>5. /\ ending'[t].passed = ending[t].passed \cup {k}
        /\ ending'[t].anew = ending[t].anew /\ ending'[t].round = ending[t].round
        /\ \A u \in Users \ {t} : ending'[u] = ending[u]
    BY <1>0, <2>3 DEF Endings
  <2>6. EndsWell(ending[t], specific[t], userPc[t])'
    BY <1>0, <2>1, <2>2, <2>5 DEF EndsWell
  <2> QED BY <2>1, <2>2, <2>4, <2>5, <2>6, OthersEnd
<1>5. ASSUME NEW t \in Users, Sg!NextRound(t) PROVE EndingInv'
  <2>1. /\ UNCHANGED <<userPc, specific>> /\ userPc[t] = "ending"
        /\ ending' = [ending EXCEPT ![t].round = @ + 1, ![t].passed = {}, ![t].destructor = "none"]
    BY <1>5 DEF Sg!NextRound
  <2>2. ending' \in [Users -> Endings]
    <3>0. ending[t] \in Endings
      BY <1>0
    <3>1. [ending[t] EXCEPT !.round = @ + 1, !.passed = {}, !.destructor = "none"] \in Endings
      BY <3>0, RoundType, Zenon
    <3>2. ending' = [ending EXCEPT ![t] =
                        [ending[t] EXCEPT !.round = @ + 1, !.passed = {}, !.destructor = "none"]]
      BY <1>0, <2>1 DEF Endings
    <3> QED BY <1>0, <3>1, <3>2
  <2>3. /\ ending'[t].passed = {}
        /\ ending'[t].anew = ending[t].anew /\ ending'[t].round = ending[t].round + 1
        /\ \A u \in Users \ {t} : ending'[u] = ending[u]
    BY <1>0, <2>1 DEF Endings
  <2>4. ending[t].anew >= ending[t].round
    BY <1>5, <1>0 DEF Sg!NextRound, Sg!HasValues, EndsWell
  <2>5. EndsWell(ending[t], specific[t], userPc[t])'
    BY <1>0, <2>1, <2>3, <2>4 DEF EndsWell, Endings
  <2> QED BY <2>1, <2>2, <2>3, <2>5, OthersEnd
<1>6. CASE Sg!Exit
  BY <1>6 DEF Sg!Exit, Sg!local, EndingInv
<1>7. CASE UNCHANGED Sg!vars
  BY <1>7 DEF Sg!vars, EndingInv
<1> QED BY <1>1, <1>2, <1>3, <1>4, <1>5, <1>6, <1>7 DEF Sg!Next

\* The invariant holds of every behaviour.
LEMMA SingletonInvariant == SingletonConstants /\ Sg!Spec => []SingletonInv
<1>1. SingletonConstants /\ Sg!Init => SingletonInv
  <2> SUFFICES ASSUME SingletonConstants, Sg!Init PROVE SingletonInv
    OBVIOUS
  <2>1. OnceTypes
    BY DEF Sg!Init, OnceTypes
  <2>2. OnceInv
    BY DEF Sg!Init, OnceInv, SingletonConstants
  <2>3. LocalTypes
    BY DEF Sg!Init, LocalTypes
  <2>4. LocalInv
    BY DEF Sg!Init, LocalInv
  <2>5. EndingInv
    BY DEF Sg!Init, EndingInv, EndsWell, Endings
  <2> QED BY <2>1, <2>2, <2>3, <2>4, <2>5 DEF SingletonInv
<1>2. SingletonInv /\ [Sg!Next]_(Sg!vars) => SingletonInv'
  BY OnceNext, LocalNext, EndingNext DEF SingletonInv, SingletonConstants, Sg!RoundAssumption
<1> QED BY <1>1, <1>2, PTL DEF Sg!Spec

\* All threads, however many and in whatever order they come, get one and the same object,
\* and atexit destroys it at the end or nobody does (Singleton.h:43-67).
THEOREM SingletonOneObject == SingletonConstants /\ Sg!Spec => []Sg!OneObject
<1>1. SingletonInv => Sg!OneObject
  BY DEF SingletonInv, SingletonConstants, OnceTypes, OnceInv, Sg!OneObject
<1> QED BY <1>1, SingletonInvariant, PTL

\* A thread has at most one object of each key and finds it again; one is left when the thread
\* is over only if destructors have made as many objects anew as pthread has rounds; the
\* asserts hold (ThreadLocalSingleton.h:26-71, ThreadLocal.h:35-55).
THEOREM SingletonOnePerThread == SingletonConstants /\ Sg!Spec => []Sg!OnePerThread
<1>1. ASSUME SingletonInv, NEW t \in Users, NEW k \in Sg!Keys, userPc[t] = "over", specific[t][k]
      PROVE  ending[t].anew >= Rounds
  BY <1>1 DEF SingletonInv, EndingInv, EndsWell
<1>2. SingletonInv => Sg!OnePerThread
  BY <1>1 DEF SingletonInv, LocalInv, Sg!OnePerThread
<1> QED BY <1>2, SingletonInvariant, PTL

-----------------------------------------------------------------------------
(***************************************************************************)
(* ReadSmallFile.                                                          *)
(***************************************************************************)

\* What Base calls them; content and pc are called text and filePc here.
kind == v1
size == v2
maxSize == v3
text == v4
fileSize == v5
startSize == v6
err == v7
buf_ == v8
filePc == v9

USE DEF kind, size, maxSize, text, fileSize, startSize, err, buf_, filePc

\* The bytes of the file up to the n-th.
Beginning(n) == [k \in 1..n |-> k]

\* Nothing is in the result before it was cleared, the beginning of the file after that; and
\* buf_ is that of the constructor until something is read into it.
ReadInv ==
    /\ kind \in {"regular", "directory", "none"}
    /\ size \in Nat /\ maxSize \in Nat /\ startSize \in Nat /\ startSize <= size
    /\ Len(buf_) \in 1..kBufferSize /\ DOMAIN buf_ = 1..Len(buf_)
    /\ filePc \in {"open", "stat", "read", "buffer", "return"}
    /\ filePc \in {"open", "buffer"} => text = Rf!Untouched
    /\ filePc \in {"stat", "read"} => text # Rf!Untouched
    /\ kind = "none" => filePc \in {"open", "return"} /\ text = Rf!Untouched
    /\ filePc = "return" /\ kind = "none" => err # "0"
    /\ kind = "directory" => text \in {Rf!Untouched, <<>>}
    /\ filePc = "return" /\ kind = "directory" => err # "0" \/ maxSize = 0
    /\ text = Rf!Untouched => buf_[Len(buf_)] = Rf!Nul
    /\ text # Rf!Untouched =>
        /\ Len(text) \in Nat /\ text = Beginning(Len(text))
        /\ Len(text) <= maxSize
        /\ filePc = "return" /\ err = "0" => Len(text) = maxSize \/ Len(text) >= startSize

\* No beginning of a file is <<0>>, which stands for a result that was not touched.
LEMMA BeginningTouched ==
    ASSUME NEW n \in Nat
    PROVE  Beginning(n) # Rf!Untouched /\ Len(Beginning(n)) = n
           /\ Beginning(n) \in Seq(Nat)
<1>1. Len(Beginning(n)) = n /\ Beginning(n) \in Seq(Nat)
  BY DEF Beginning
<1>2. n = 1 => Beginning(n)[1] = 1
  BY DEF Beginning
<1>3. Rf!Untouched[1] = 0 /\ Len(Rf!Untouched) = 1
  BY DEF Rf!Untouched
<1>4. ASSUME Beginning(n) = Rf!Untouched PROVE FALSE
  <2>1. n = 1
    BY <1>1, <1>3, <1>4
  <2>2. Beginning(n)[1] = 0
    BY <1>3, <1>4
  <2> QED BY <1>2, <2>1, <2>2
<1> QED BY <1>1, <1>4

\* What is read next follows what was read.
LEMMA BeginningGrows ==
    ASSUME NEW m \in Nat, NEW n \in Nat
    PROVE  Beginning(m) \o [k \in 1..n |-> m + k] = Beginning(m + n)
<1> DEFINE more == [k \in 1..n |-> m + k]
<1>1. more \in Seq(Nat) /\ Len(more) = n
  OBVIOUS
<1>2. Beginning(m) \in Seq(Nat) /\ Len(Beginning(m)) = m
  BY BeginningTouched
<1>3. Beginning(m + n) \in Seq(Nat) /\ Len(Beginning(m + n)) = m + n
  BY BeginningTouched
<1> HIDE DEF more
<1>4. Beginning(m) \o more \in Seq(Nat) /\ Len(Beginning(m) \o more) = m + n
  BY <1>1, <1>2
<1>5. ASSUME NEW j \in 1..(m + n) PROVE (Beginning(m) \o more)[j] = Beginning(m + n)[j]
  <2>1. CASE j <= m
    BY <1>1, <1>2, <2>1 DEF Beginning
  <2>2. CASE j > m
    <3>1. j - m \in 1..n /\ m + (j - m) = j
      BY <2>2
    <3>2. (Beginning(m) \o more)[j] = more[j - m]
      <4>1. j \in 1..(Len(Beginning(m)) + Len(more)) /\ ~ (j <= Len(Beginning(m)))
        BY <1>1, <1>2, <2>2
      <4>2. (Beginning(m) \o more)[j] = IF j <= Len(Beginning(m)) THEN Beginning(m)[j]
                                        ELSE more[j - Len(Beginning(m))]
        BY <1>1, <1>2, <4>1, ConcatProperties, Zenon
      <4> QED BY <1>2, <4>1, <4>2, Zenon
    <3>3. more[j - m] = j
      BY <3>1 DEF more
    <3>4. Beginning(m + n)[j] = j
      BY DEF Beginning
    <3> QED BY <3>2, <3>3, <3>4
  <2>3. j <= m \/ j > m
    OBVIOUS
  <2> QED BY <2>1, <2>2, <2>3
<1> QED BY <1>3, <1>4, <1>5, SeqEqual DEF more

\* Every step of reading keeps the invariant.
LEMMA ReadNext ==
    ASSUME Rf!SizeAssumption, ReadInv, [Rf!Next]_(Rf!vars)
    PROVE  ReadInv'
<1>1. kBufferSize \in Nat /\ kBufferSize > 0 /\ MaxFile \in Nat
  BY DEF Rf!SizeAssumption
<1>2. CASE Rf!Grow
  BY <1>2 DEF ReadInv, Rf!Grow, Rf!Untouched, Rf!Nul, Beginning
<1>3. CASE Rf!Open
  <2>1. ReadInv /\ text = Rf!Untouched /\ buf_[Len(buf_)] = Rf!Nul
    BY <1>3 DEF Rf!Open, ReadInv
  <2>2. << >> = Beginning(0) /\ << >> # Rf!Untouched /\ Len(<< >>) = 0
    <3>1. Len(Beginning(0)) = 0 /\ Beginning(0) \in Seq(Nat) /\ Beginning(0) # Rf!Untouched
      BY BeginningTouched
    <3>2. << >> = Beginning(0)
      BY <3>1, EmptySeq
    <3> QED BY <3>1, <3>2
  <2>3. UNCHANGED <<kind, size, maxSize, fileSize, buf_>>
    BY <1>3 DEF Rf!Open
  <2>4. CASE kind = "none" /\ err' = "ENOENT" /\ filePc' = "return" /\ UNCHANGED <<text, startSize>>
    BY <2>1, <2>3, <2>4 DEF ReadInv
  <2>5. CASE kind # "none" /\ filePc' \in {"stat", "read"} /\ text' = << >> /\ startSize' = size
    BY <2>1, <2>2, <2>3, <2>5 DEF ReadInv
  <2>6. CASE kind # "none" /\ filePc' = "buffer" /\ UNCHANGED <<text, startSize, err>>
    BY <2>1, <2>3, <2>6 DEF ReadInv
  <2> QED BY <1>3, <2>4, <2>5, <2>6 DEF Rf!Open
<1>4. CASE Rf!Stat
  BY <1>4 DEF ReadInv, Rf!Stat
<1>5. CASE Rf!ReadMore
  <2>1. PICK n \in 1..Rf!ToRead : buf_' = [k \in 1..n |-> Len(text) + k] /\ text' = text \o buf_'
    BY <1>5 DEF Rf!ReadMore
  <2>2. /\ filePc = "read" /\ kind = "regular" /\ Len(text) < maxSize
        /\ UNCHANGED <<kind, size, maxSize, fileSize, startSize, err, filePc>>
    BY <1>5 DEF Rf!ReadMore
  <2>3. Len(text) \in Nat /\ text = Beginning(Len(text))
    BY <2>2 DEF ReadInv
  <2>4. n \in Nat /\ n > 0 /\ n <= kBufferSize /\ Len(text) + n <= maxSize
    BY <1>1, <2>1, <2>2, <2>3 DEF Rf!ToRead, ReadInv
  <2>5. text' = Beginning(Len(text) + n)
    BY <2>1, <2>3, <2>4, BeginningGrows
  <2>6. Len(text') = Len(text) + n /\ text' # Rf!Untouched
    BY <2>3, <2>4, <2>5, BeginningTouched
  <2>7. Len(buf_') = n /\ DOMAIN buf_' = 1..n
    BY <2>1, <2>3, <2>4
  <2>8. text' = Beginning(Len(text'))
    BY <2>5, <2>6
  <2>9. Len(text') \in Nat /\ Len(text') <= maxSize'
    BY <2>2, <2>3, <2>4, <2>6
  <2>10. Len(buf_') \in 1..kBufferSize /\ DOMAIN buf_' = 1..Len(buf_')
    BY <1>1, <2>4, <2>7
  <2> QED BY <2>2, <2>6, <2>8, <2>9, <2>10 DEF ReadInv
<1>6. CASE Rf!ReadEnds
  <2>1. /\ filePc = "read" /\ filePc' = "return"
        /\ UNCHANGED <<kind, size, maxSize, text, fileSize, startSize, err, buf_>>
        /\ Len(text) >= maxSize \/ (kind = "regular" /\ Len(text) = size)
    BY <1>6 DEF Rf!ReadEnds
  <2>2. Len(text) = maxSize \/ (kind = "regular" /\ Len(text) >= startSize)
    BY <2>1 DEF ReadInv
  <2>3. kind = "directory" => maxSize = 0
    BY <2>1, <2>2, BeginningTouched DEF ReadInv
  <2> QED BY <2>1, <2>2, <2>3 DEF ReadInv
<1>7. CASE Rf!ReadFails
  BY <1>7 DEF ReadInv, Rf!ReadFails, Rf!Errors
<1>8. CASE Rf!ReadToBuffer
  <2>1. /\ filePc = "buffer" /\ filePc' = "return"
        /\ UNCHANGED <<kind, size, maxSize, text, fileSize, startSize>>
        /\ text = Rf!Untouched /\ kind # "none"
    BY <1>8 DEF Rf!ReadToBuffer, ReadInv
  <2>2. CASE kind = "regular" /\ \E n \in 0..(kBufferSize - 1) :
                 n <= size /\ buf_' = Append([k \in 1..n |-> k], Rf!Nul)
    <3>1. PICK n \in 0..(kBufferSize - 1) : buf_' = Append(Beginning(n), Rf!Nul)
      BY <2>2 DEF Beginning
    <3>2. n \in Nat /\ n + 1 <= kBufferSize
      BY <1>1
    <3>3. Beginning(n) \in Seq(Nat) /\ Len(Beginning(n)) = n /\ Rf!Nul \in Nat
      BY <3>2, BeginningTouched DEF Rf!Nul
    <3>4. Len(buf_') = n + 1 /\ buf_'[n + 1] = Rf!Nul /\ DOMAIN buf_' = 1..(n + 1)
      BY <3>1, <3>2, <3>3
    <3>5. Len(buf_') \in 1..kBufferSize /\ buf_'[Len(buf_')] = Rf!Nul /\ DOMAIN buf_' = 1..Len(buf_')
      BY <3>2, <3>4
    <3> QED BY <2>1, <2>2, <3>5 DEF ReadInv
  <2>3. CASE /\ err' \in IF kind = "directory" THEN {"EISDIR"} ELSE Rf!Errors
             /\ UNCHANGED buf_
    BY <2>1, <2>3 DEF ReadInv, Rf!Errors
  <2> QED BY <1>8, <2>2, <2>3 DEF Rf!ReadToBuffer
<1>9. CASE UNCHANGED Rf!vars
  BY <1>9 DEF ReadInv, Rf!vars
<1> QED BY <1>2, <1>3, <1>4, <1>5, <1>6, <1>7, <1>8, <1>9 DEF Rf!Next

\* The invariant holds of every behaviour.
LEMMA ReadInvariant == ASSUME Rf!SizeAssumption PROVE Rf!Spec => []ReadInv
<1>1. Rf!Init => ReadInv
  <2> SUFFICES ASSUME Rf!Init PROVE ReadInv
    OBVIOUS
  <2>1. buf_[Len(buf_)] = Rf!Nul /\ Len(buf_) = 1 /\ DOMAIN buf_ = 1..1
    BY DEF Rf!Init
  <2>2. kBufferSize \in Nat /\ kBufferSize > 0
    BY DEF Rf!SizeAssumption
  <2> QED BY <2>1, <2>2 DEF Rf!Init, Rf!SizeAssumption, ReadInv
<1>2. ReadInv /\ [Rf!Next]_(Rf!vars) => ReadInv'
  BY ReadNext
<1> QED BY <1>1, <1>2, PTL DEF Rf!Spec

\* However the file grows and whatever read delivers at a time, the result of readToString is
\* the beginning of the file, of maxSize bytes or with all that was there when the file was
\* opened, unless an error is reported (FileUtil.cpp:129-145).
THEOREM ReadContentIsBeginning ==
    ASSUME Rf!SizeAssumption PROVE Rf!Spec => []Rf!ContentIsBeginning
<1>1. ReadInv => Rf!ContentIsBeginning
  BY DEF ReadInv, Rf!ContentIsBeginning, Beginning
<1> QED BY <1>1, ReadInvariant, PTL

\* For a buffer of any size, one byte included: it is never overfilled and the zero has its
\* place after what readToBuffer reads; what could not be opened or read is reported
\* (FileUtil.cpp:99-165).
THEOREM ReadBufferTerminated ==
    ASSUME Rf!SizeAssumption PROVE Rf!Spec => [](Rf!BufferTerminated /\ Rf!FailureReported)
<1>1. ReadInv => Rf!BufferTerminated /\ Rf!FailureReported
  BY DEF Rf!SizeAssumption, ReadInv, Rf!BufferTerminated, Rf!FailureReported
<1> QED BY <1>1, ReadInvariant, PTL

-----------------------------------------------------------------------------
(***************************************************************************)
(* Logger.                                                                 *)
(***************************************************************************)

\* What Base calls them.
clock == v1
g_logLevel == v2
t_lastSecond == v3
t_time == v4
composing == v5
stage == v6
output == v7
flushed == v8
aborted == v9

USE DEF clock, g_logLevel, t_lastSecond, t_time, composing, stage, output, flushed, aborted

Line == [level : Lg!LevelNames, time_ : Nat, text : Nat]

LoggingTypes ==
    /\ clock \in Nat /\ flushed \in 0..Len(output)
    /\ t_lastSecond \in [LogThreads -> Nat] /\ t_time \in [LogThreads -> Nat]
    /\ composing \in [LogThreads -> Seq(Line)] /\ output \in Seq(Line)
    /\ stage \in [LogThreads -> {"user", "format", "print", "append", "flush", "abort"}]

\* Of the lines that a thread composes only the innermost can be without its time, while
\* formatTime runs; the cached text is that of t_lastSecond but for the moment between the two
\* assignments, and that of the line when it is appended.
Timeless(t) == stage[t] \in {"format", "print", "append"}
TimesInv ==
    /\ \A t \in LogThreads :
        /\ Timeless(t) => composing[t] # <<>>
        /\ \A k \in 1..Len(composing[t]) :
              \/ Timeless(t) /\ k = Len(composing[t])
              \/ composing[t][k].text = composing[t][k].time_
        /\ stage[t] # "print" => t_time[t] = t_lastSecond[t]
        /\ stage[t] \in {"print", "append"} => t_lastSecond[t] = Lg!Top(t).time_
    /\ Lg!TimesTruthful

\* A thread that aborts has flushed the line for which it does.
FatalInv ==
    /\ \A t \in LogThreads :
        /\ stage[t] = "flush" => \E k \in 1..Len(output) : output[k].level = "FATAL"
        /\ stage[t] = "abort" => \E k \in 1..flushed : output[k].level = "FATAL"
    /\ aborted => \E k \in 1..flushed : output[k].level = "FATAL"
    /\ Lg!FatalSurvives

LoggingInv == LoggingTypes /\ TimesInv /\ FatalInv

\* The last element of a sequence of lines is a line.
LEMMA TopIsLine ==
    ASSUME LoggingTypes, NEW t \in LogThreads, composing[t] # <<>>
    PROVE  /\ Len(composing[t]) \in Nat /\ Len(composing[t]) > 0
           /\ Lg!Top(t) \in Line
<1>1. composing[t] \in Seq(Line)
  BY DEF LoggingTypes
<1>2. Len(composing[t]) \in Nat /\ Len(composing[t]) # 0
  BY <1>1, EmptySeq
<1> QED BY <1>1, <1>2 DEF Lg!Top

\* The constructor begins a line that has no text yet.
LEMMA LogLineKeeps ==
    ASSUME LoggingInv, NEW t \in LogThreads, NEW level \in Lg!LevelNames, Lg!LogLine(t, level)
    PROVE  LoggingInv'
<1> DEFINE line == [level |-> level, time_ |-> clock, text |-> 0]
<1>1. /\ stage[t] = "user"
      /\ composing' = [composing EXCEPT ![t] = Append(composing[t], line)]
      /\ stage' = [stage EXCEPT ![t] = "format"]
      /\ UNCHANGED <<clock, t_lastSecond, t_time, output, flushed, aborted>>
  BY DEF Lg!LogLine, Lg!At, Lg!Goes
<1>2. line \in Line /\ composing[t] \in Seq(Line)
  BY DEF LoggingInv, LoggingTypes, Line
<1> HIDE DEF line
<1>3. /\ composing'[t] = Append(composing[t], line) /\ stage'[t] = "format"
      /\ \A u \in LogThreads \ {t} : composing'[u] = composing[u] /\ stage'[u] = stage[u]
      /\ composing'[t] \in Seq(Line) /\ composing'[t] # <<>>
      /\ Len(composing'[t]) = Len(composing[t]) + 1
      /\ \A k \in 1..Len(composing[t]) : composing'[t][k] = composing[t][k]
  BY <1>1, <1>2 DEF LoggingInv, LoggingTypes
<1>4. LoggingTypes'
  BY <1>1, <1>2, <1>3 DEF LoggingInv, LoggingTypes
<1>5. TimesInv'
  <2>1. Lg!TimesTruthful'
    BY <1>1 DEF LoggingInv, TimesInv, Lg!TimesTruthful
  <2>2. ASSUME NEW u \in LogThreads
        PROVE  /\ Timeless(u)' => composing'[u] # <<>>
               /\ \A k \in 1..Len(composing'[u]) :
                     \/ Timeless(u)' /\ k = Len(composing'[u])
                     \/ composing'[u][k].text = composing'[u][k].time_
               /\ stage'[u] # "print" => t_time'[u] = t_lastSecond'[u]
               /\ stage'[u] \in {"print", "append"} => t_lastSecond'[u] = Lg!Top(u)'.time_
    <3>1. CASE u = t
      <4>1. ASSUME NEW k \in 1..Len(composing'[t])
            PROVE  k = Len(composing'[t]) \/ composing'[t][k].text = composing'[t][k].time_
        <5>1. Len(composing[t]) \in Nat
          BY <1>2
        <5>2. k = Len(composing'[t]) \/ k \in 1..Len(composing[t])
          BY <1>3, <5>1
        <5> QED BY <1>1, <1>3, <5>2 DEF LoggingInv, TimesInv, Timeless
      <4>2. t_time[t] = t_lastSecond[t]
        BY <1>1 DEF LoggingInv, TimesInv
      <4> QED BY <1>1, <1>3, <3>1, <4>1, <4>2 DEF Timeless
    <3>2. CASE u # t
      BY <1>1, <1>3, <3>2 DEF LoggingInv, TimesInv, Timeless, Lg!Top
    <3> QED BY <3>1, <3>2
  <2> QED BY <2>1, <2>2 DEF TimesInv
<1>6. FatalInv'
  BY <1>1, <1>3 DEF LoggingInv, FatalInv, Lg!FatalSurvives
<1> QED BY <1>4, <1>5, <1>6 DEF LoggingInv

\* The steps of formatTime before the text is appended leave all lines alone.
LEMMA FormatKeeps ==
    ASSUME LoggingInv, NEW t \in LogThreads,
           Lg!NewSecond(t) \/ Lg!PrintTime(t) \/ Lg!KeepTime(t)
    PROVE  LoggingInv'
<1>1. /\ stage[t] \in {"format", "print"} /\ composing[t] # <<>> /\ Timeless(t)
      /\ \E s \in {"print", "append"} : stage' = [stage EXCEPT ![t] = s]
      /\ UNCHANGED <<clock, composing, output, flushed, aborted>>
  BY DEF Lg!NewSecond, Lg!PrintTime, Lg!KeepTime, Lg!At, Lg!Goes, LoggingInv, TimesInv, Timeless
<1>2. Lg!Top(t).time_ \in Nat
  BY <1>1, TopIsLine DEF LoggingInv, Line
<1>3. LoggingTypes'
  BY <1>1, <1>2 DEF Lg!NewSecond, Lg!PrintTime, Lg!KeepTime, LoggingInv, LoggingTypes
<1>4. TimesInv'
  <2>1. Lg!TimesTruthful'
    BY <1>1 DEF LoggingInv, TimesInv, Lg!TimesTruthful
  <2>2. ASSUME NEW u \in LogThreads PROVE Lg!Top(u)' = Lg!Top(u)
    BY <1>1 DEF Lg!Top
  <2>3. Timeless(t)' /\ \A u \in LogThreads \ {t} : stage'[u] = stage[u]
    BY <1>1 DEF LoggingInv, LoggingTypes, Timeless
  <2>4. \A u \in LogThreads \ {t} : t_time'[u] = t_time[u] /\ t_lastSecond'[u] = t_lastSecond[u]
    BY DEF Lg!NewSecond, Lg!PrintTime, Lg!KeepTime, LoggingInv, LoggingTypes
  <2>5. /\ stage'[t] # "print" => t_time'[t] = t_lastSecond'[t]
        /\ t_lastSecond'[t] = Lg!Top(t).time_
    <3>1. CASE Lg!NewSecond(t)
      BY <3>1 DEF Lg!NewSecond, Lg!At, Lg!Goes, LoggingInv, LoggingTypes
    <3>2. CASE Lg!PrintTime(t)
      BY <3>2 DEF Lg!PrintTime, Lg!At, Lg!Goes, LoggingInv, LoggingTypes, TimesInv
    <3>3. CASE Lg!KeepTime(t)
      BY <3>3 DEF Lg!KeepTime, Lg!SameSecond, Lg!At, Lg!Goes, LoggingInv, LoggingTypes, TimesInv
    <3> QED BY <3>1, <3>2, <3>3
  <2> QED BY <1>1, <2>1, <2>2, <2>3, <2>4, <2>5 DEF LoggingInv, TimesInv, Timeless
<1>5. FatalInv'
  BY <1>1 DEF LoggingInv, LoggingTypes, FatalInv, Lg!FatalSurvives
<1> QED BY <1>3, <1>4, <1>5 DEF LoggingInv

\* The cached text is that of the line when it is appended to it.
LEMMA AppendTimeKeeps ==
    ASSUME LoggingInv, NEW t \in LogThreads, Lg!AppendTime(t)
    PROVE  LoggingInv'
<1> DEFINE n == Len(composing[t])
           line == [composing[t][n] EXCEPT !.text = t_time[t]]
<1>1. /\ stage[t] = "append" /\ composing[t] # <<>>
      /\ composing' = [composing EXCEPT ![t] = [composing[t] EXCEPT ![n] = line]]
      /\ stage' = [stage EXCEPT ![t] = "user"]
      /\ UNCHANGED <<clock, t_lastSecond, t_time, output, flushed, aborted>>
  BY DEF Lg!AppendTime, Lg!SetTop, Lg!Top, Lg!At, Lg!Goes, LoggingInv, TimesInv, Timeless
<1>2. n \in Nat /\ n > 0 /\ composing[t][n] \in Line /\ composing[t] \in Seq(Line)
  BY <1>1, TopIsLine DEF LoggingInv, LoggingTypes, Lg!Top
<1>3. line \in Line /\ line.text = line.time_
  <2>1. t_time[t] \in Nat /\ t_time[t] = composing[t][n].time_
    BY <1>1 DEF LoggingInv, LoggingTypes, TimesInv, Lg!Top
  <2> QED BY <1>2, <2>1 DEF Line
<1> HIDE DEF line
<1>4. /\ \A u \in LogThreads \ {t} : composing'[u] = composing[u] /\ stage'[u] = stage[u]
      /\ composing'[t] = [composing[t] EXCEPT ![n] = line] /\ stage'[t] = "user"
      /\ composing'[t] \in Seq(Line) /\ Len(composing'[t]) = n
      /\ composing'[t][n] = line
      /\ \A k \in 1..n : k # n => composing'[t][k] = composing[t][k]
  BY <1>1, <1>2, <1>3 DEF LoggingInv, LoggingTypes
<1>5. LoggingTypes'
  BY <1>1, <1>4 DEF LoggingInv, LoggingTypes
<1>6. TimesInv'
  <2>1. Lg!TimesTruthful'
    BY <1>1 DEF LoggingInv, TimesInv, Lg!TimesTruthful
  <2>2. \A k \in 1..n : composing'[t][k].text = composing'[t][k].time_
    BY <1>3, <1>4 DEF LoggingInv, TimesInv
  <2> QED BY <1>1, <1>4, <2>1, <2>2 DEF LoggingInv, TimesInv, Timeless, Lg!Top
<1>7. FatalInv'
  BY <1>1, <1>4 DEF LoggingInv, FatalInv, Lg!FatalSurvives
<1> QED BY <1>5, <1>6, <1>7 DEF LoggingInv

\* The destructor outputs the innermost line, which has its time.
LEMMA FinishLineKeeps ==
    ASSUME LoggingInv, NEW t \in LogThreads, Lg!FinishLine(t)
    PROVE  LoggingInv'
<1> DEFINE n == Len(composing[t])
           line == composing[t][n]
           next == IF line.level = "FATAL" THEN "flush" ELSE "user"
<1>1. /\ stage[t] = "user" /\ composing[t] # <<>>
      /\ composing' = [composing EXCEPT ![t] = SubSeq(composing[t], 1, n - 1)]
      /\ output' = Append(output, line)
      /\ stage' = [stage EXCEPT ![t] = next]
      /\ UNCHANGED <<clock, t_lastSecond, t_time, flushed, aborted>>
  BY DEF Lg!FinishLine, Lg!Top, Lg!At, Lg!Goes
<1>2. n \in Nat /\ n > 0 /\ line \in Line /\ composing[t] \in Seq(Line)
  BY <1>1, TopIsLine DEF LoggingInv, LoggingTypes, Lg!Top
<1>3. line.text = line.time_
  BY <1>1, <1>2 DEF LoggingInv, TimesInv, Timeless
<1>4. next \in {"user", "flush"} /\ (next = "flush" <=> line.level = "FATAL")
  OBVIOUS
<1> HIDE DEF line, next
<1>5. /\ \A u \in LogThreads \ {t} : composing'[u] = composing[u] /\ stage'[u] = stage[u]
      /\ composing'[t] = SubSeq(composing[t], 1, n - 1) /\ stage'[t] = next
      /\ composing'[t] \in Seq(Line) /\ Len(composing'[t]) = n - 1
      /\ \A k \in 1..(n - 1) : composing'[t][k] = composing[t][k]
  <2>1. /\ \A u \in LogThreads \ {t} : composing'[u] = composing[u] /\ stage'[u] = stage[u]
        /\ composing'[t] = SubSeq(composing[t], 1, n - 1) /\ stage'[t] = next
    BY <1>1 DEF LoggingInv, LoggingTypes
  <2>2. n - 1 \in Nat /\ 1..(n - 1) \subseteq 1..n
    BY <1>2
  <2>3. /\ SubSeq(composing[t], 1, n - 1) \in Seq(Line)
        /\ Len(SubSeq(composing[t], 1, n - 1)) = n - 1
        /\ \A k \in 1..(n - 1) : SubSeq(composing[t], 1, n - 1)[k] = composing[t][k]
    BY <1>2, <2>2, SubSeqProperties
  <2> QED BY <2>1, <2>3
<1>6. /\ output \in Seq(Line) /\ Len(output) \in Nat /\ output' \in Seq(Line)
      /\ Len(output') = Len(output) + 1 /\ output'[Len(output) + 1] = line
      /\ \A k \in 1..Len(output) : output'[k] = output[k]
  BY <1>1, <1>2 DEF LoggingInv, LoggingTypes
<1>7. LoggingTypes'
  BY <1>1, <1>4, <1>5, <1>6 DEF LoggingInv, LoggingTypes
<1>8. TimesInv'
  <2>1. Lg!TimesTruthful'
    <3> SUFFICES ASSUME NEW k \in 1..Len(output') PROVE output'[k].text = output'[k].time_
      BY DEF Lg!TimesTruthful
    <3>1. k \in 1..Len(output) \/ k = Len(output) + 1
      BY <1>6
    <3> QED BY <1>3, <1>6, <3>1 DEF LoggingInv, TimesInv, Lg!TimesTruthful
  <2>2. \A k \in 1..(n - 1) : composing'[t][k].text = composing'[t][k].time_
    <3> SUFFICES ASSUME NEW k \in 1..(n - 1)
                 PROVE  composing'[t][k].text = composing'[t][k].time_
      OBVIOUS
    <3>1. k \in 1..n
      BY <1>2
    <3> QED BY <1>1, <1>5, <3>1 DEF LoggingInv, TimesInv, Timeless
  <2> QED BY <1>1, <1>4, <1>5, <2>1, <2>2 DEF LoggingInv, TimesInv, Timeless, Lg!Top
<1>9. FatalInv'
  <2>1. flushed \in 0..Len(output)
    BY DEF LoggingInv, LoggingTypes
  <2>2. \A k \in 1..flushed : output'[k] = output[k]
    BY <1>6, <2>1
  <2>3. ASSUME NEW u \in LogThreads, stage'[u] = "flush"
        PROVE  \E k \in 1..Len(output') : output'[k].level = "FATAL"
    <3>1. CASE u = t
      BY <1>4, <1>5, <1>6, <2>3, <3>1
    <3>2. CASE u # t
      <4>1. PICK k \in 1..Len(output) : output[k].level = "FATAL"
        BY <1>5, <2>3, <3>2 DEF LoggingInv, FatalInv
      <4> QED BY <1>6, <4>1
    <3> QED BY <3>1, <3>2
  <2>4. ASSUME NEW u \in LogThreads, stage'[u] = "abort"
        PROVE  \E k \in 1..flushed : output'[k].level = "FATAL"
    BY <1>4, <1>5, <2>2, <2>4 DEF LoggingInv, FatalInv
  <2>5. aborted => \E k \in 1..flushed : output'[k].level = "FATAL"
    BY <2>2 DEF LoggingInv, FatalInv
  <2>6. ASSUME NEW k \in 1..Len(output'), output'[k].level = "FATAL"
        PROVE  k <= flushed \/ \E u \in LogThreads : stage'[u] = "flush"
    <3>1. CASE k = Len(output) + 1
      BY <1>4, <1>5, <1>6, <2>6, <3>1
    <3>2. CASE k \in 1..Len(output)
      <4>1. k <= flushed \/ \E u \in LogThreads : stage[u] = "flush"
        BY <1>6, <2>6, <3>2 DEF LoggingInv, FatalInv, Lg!FatalSurvives
      <4>2. \A u \in LogThreads : stage[u] = "flush" => stage'[u] = "flush"
        BY <1>1, <1>5
      <4> QED BY <4>1, <4>2
    <3> QED BY <1>6, <3>1, <3>2
  <2> QED BY <1>1, <2>3, <2>4, <2>5, <2>6 DEF FatalInv, Lg!FatalSurvives
<1> QED BY <1>7, <1>8, <1>9 DEF LoggingInv

\* g_flush() and abort().
LEMMA FlushAndAbortKeep ==
    ASSUME LoggingInv, NEW t \in LogThreads, Lg!Flush(t) \/ Lg!Abort(t)
    PROVE  LoggingInv'
<1>1. /\ stage[t] \in {"flush", "abort"} /\ stage' = [stage EXCEPT ![t] = "abort"]
      /\ flushed' \in {flushed, Len(output)}
      /\ UNCHANGED <<clock, t_lastSecond, t_time, composing, output>>
  BY DEF Lg!Flush, Lg!Abort, Lg!At, Lg!Goes, LoggingInv, LoggingTypes
<1>2. Len(output) \in Nat
  BY DEF LoggingInv, LoggingTypes
<1>3. LoggingTypes'
  BY <1>1, <1>2 DEF LoggingInv, LoggingTypes
<1>4. TimesInv'
  <2>1. Lg!TimesTruthful'
    BY <1>1 DEF LoggingInv, TimesInv, Lg!TimesTruthful
  <2>2. stage'[t] = "abort" /\ \A u \in LogThreads \ {t} : stage'[u] = stage[u]
    BY <1>1 DEF LoggingInv, LoggingTypes
  <2> QED BY <1>1, <2>1, <2>2 DEF LoggingInv, TimesInv, Timeless, Lg!Top
<1>5. FatalInv'
  <2>1. CASE Lg!Flush(t)
    BY <1>1, <1>2, <2>1 DEF Lg!Flush, Lg!At, LoggingInv, LoggingTypes, FatalInv, Lg!FatalSurvives
  <2>2. CASE Lg!Abort(t)
    BY <1>1, <2>2 DEF Lg!Abort, Lg!At, LoggingInv, LoggingTypes, FatalInv, Lg!FatalSurvives
  <2> QED BY <2>1, <2>2
<1> QED BY <1>3, <1>4, <1>5 DEF LoggingInv

\* The invariant holds of every behaviour.
LEMMA LoggingInvariant == Lg!Spec => []LoggingInv
<1>1. Lg!Init => LoggingInv
  BY DEF Lg!Init, LoggingInv, LoggingTypes, TimesInv, FatalInv, Timeless, Lg!TimesTruthful,
         Lg!FatalSurvives
<1>2. LoggingInv /\ [Lg!Next]_(Lg!vars) => LoggingInv'
  <2> SUFFICES ASSUME LoggingInv, [Lg!Next]_(Lg!vars) PROVE LoggingInv'
    OBVIOUS
  <2>1. ASSUME Lg!Tick \/ (\E level \in Lg!LevelNames : Lg!SetLogLevel(level)) \/ UNCHANGED Lg!vars
        PROVE  LoggingInv'
    <3>1. /\ clock' \in Nat
          /\ UNCHANGED <<t_lastSecond, t_time, composing, stage, output, flushed, aborted>>
      BY <2>1 DEF Lg!Tick, Lg!SetLogLevel, Lg!vars, LoggingInv, LoggingTypes
    <3> QED BY <3>1 DEF LoggingInv, LoggingTypes, TimesInv, FatalInv, Timeless, Lg!Top,
                        Lg!TimesTruthful, Lg!FatalSurvives
  <2> QED BY <2>1, LogLineKeeps, FormatKeeps, AppendTimeKeeps, FinishLineKeeps, FlushAndAbortKeep
          DEF Lg!Next
<1> QED BY <1>1, <1>2, PTL DEF Lg!Spec

\* For any threads, and lines begun within each other to any depth: the time that a line shows
\* is that of the second in which it was begun, although its text is cached (Logging.cpp).
THEOREM LoggingTimesTruthful == Lg!Spec => []Lg!TimesTruthful
<1>1. LoggingInv => Lg!TimesTruthful
  BY DEF LoggingInv, TimesInv
<1> QED BY <1>1, LoggingInvariant, PTL

\* Whatever other threads log meanwhile, a FATAL line and what was output before it are safe
\* when the process aborts (Logging.cpp:185-195).
THEOREM LoggingFatalSurvives == Lg!Spec => []Lg!FatalSurvives
<1>1. LoggingInv => Lg!FatalSurvives
  BY DEF LoggingInv, FatalInv
<1> QED BY <1>1, LoggingInvariant, PTL

-----------------------------------------------------------------------------
(***************************************************************************)
(* LogFile.                                                                *)
(***************************************************************************)

\* What Base calls them; count_ is called lineCount here.
now == v1
lineCount == v2
startOfPeriod_ == v3
lastRoll_ == v4
lastFlush_ == v5
files == v6
writtenBytes_ == v7
lineTime == v8
lost == v9
late == v10
checkedAt == v11
setBack == v12

USE DEF now, lineCount, startOfPeriod_, lastRoll_, lastFlush_, files, writtenBytes_, lineTime,
    lost, late, checkedAt, setBack

LogFiles == [name : Nat, lines : Seq(Nat), flushed : Nat]

\* What holds of files fs with the lines 1..n but for those that were lost, the set cut.
FlushedUp(fs) ==
    /\ \A k \in 1..Len(fs) : fs[k].flushed <= Len(fs[k].lines)
    /\ \A k \in 1..(Len(fs) - 1) : fs[k].flushed = Len(fs[k].lines)
NamesAscend(fs) == \A j, k \in 1..Len(fs) : j < k => fs[j].name < fs[k].name
LinesAscend(fs) ==
    \A j, k \in 1..Len(fs) :
        \A a \in 1..Len(fs[j].lines), b \in 1..Len(fs[k].lines) :
            j < k \/ (j = k /\ a < b) => fs[j].lines[a] < fs[k].lines[b]
LinesWithin(fs, Lines) ==
    \A k \in 1..Len(fs) : \A a \in 1..Len(fs[k].lines) : fs[k].lines[a] \in Lines
LinesThere(fs, Lines) ==
    \A i \in Lines : \E k \in 1..Len(fs) : \E a \in 1..Len(fs[k].lines) : fs[k].lines[a] = i
FilesHold(fs, n, cut) ==
    /\ fs \in Seq(LogFiles) /\ Len(fs) > 0
    /\ FlushedUp(fs) /\ NamesAscend(fs) /\ LinesAscend(fs)
    /\ LinesWithin(fs, (1..n) \ cut) /\ LinesThere(fs, (1..n) \ cut)

\* An element of a sequence is replaced.
LEMMA Replaced ==
    ASSUME NEW S, NEW s \in Seq(S), NEW i \in 1..Len(s), NEW e \in S,
           NEW t, t = [s EXCEPT ![i] = e]
    PROVE  /\ t \in Seq(S) /\ Len(t) = Len(s) /\ t[i] = e
           /\ \A k \in 1..Len(s) : k # i => t[k] = s[k]
<1>1. /\ [s EXCEPT ![i] = e] \in Seq(S)
      /\ Len([s EXCEPT ![i] = e]) = Len(s)
      /\ \A j \in 1..Len(s) : [s EXCEPT ![i] = e][j] = IF j = i THEN e ELSE s[j]
  BY ExceptSeq
<1>2. /\ t \in Seq(S) /\ Len(t) = Len(s)
      /\ \A j \in 1..Len(s) : t[j] = IF j = i THEN e ELSE s[j]
  BY <1>1, Zenon
<1> QED BY <1>2, Zenon

\* The parts of the files of a sequence.
LEMMA FilesOf ==
    ASSUME NEW fs \in Seq(LogFiles)
    PROVE  /\ Len(fs) \in Nat
           /\ \A k \in 1..Len(fs) :
                 /\ fs[k] \in LogFiles
                 /\ fs[k].name \in Nat /\ fs[k].flushed \in Nat
                 /\ fs[k].lines \in Seq(Nat) /\ Len(fs[k].lines) \in Nat
<1>1. Len(fs) \in Nat /\ \A k \in 1..Len(fs) : fs[k] \in LogFiles
  OBVIOUS
<1>2. ASSUME NEW f \in LogFiles
      PROVE  f.name \in Nat /\ f.flushed \in Nat /\ f.lines \in Seq(Nat) /\ Len(f.lines) \in Nat
  BY DEF LogFiles
<1> QED BY <1>1, <1>2, Zenon

\* A number up to the next one.
LEMMA UpToNext == \A m \in Nat : \A a \in 1..(m + 1) : a \in 1..m \/ a = m + 1
<1> QED OBVIOUS

\* A line is written to the last file.
LEMMA LineWritten ==
    ASSUME NEW fs, NEW n \in Nat, NEW cut \in SUBSET (1..n), FilesHold(fs, n, cut),
           NEW gs \in Seq(LogFiles), Len(gs) = Len(fs),
           \A k \in 1..Len(fs) : k # Len(fs) => gs[k] = fs[k],
           Len(gs[Len(fs)].lines) = Len(fs[Len(fs)].lines) + 1,
           \A a \in 1..Len(fs[Len(fs)].lines) : gs[Len(fs)].lines[a] = fs[Len(fs)].lines[a],
           gs[Len(fs)].lines[Len(fs[Len(fs)].lines) + 1] = n + 1,
           gs[Len(fs)].name = fs[Len(fs)].name, gs[Len(fs)].flushed <= Len(gs[Len(fs)].lines)
    PROVE  FilesHold(gs, n + 1, cut)
<1> DEFINE l == Len(fs)
<1>1. l \in Nat /\ l > 0 /\ fs \in Seq(LogFiles) /\ fs[l] \in LogFiles
  BY DEF FilesHold
<1>3. Len(fs[l].lines) \in Nat /\ n + 1 \in Nat
  <2>1. l \in 1..Len(fs)
    BY <1>1
  <2> QED BY <1>1, <2>1, FilesOf
<1>4. /\ Len(gs[l].lines) = Len(fs[l].lines) + 1
      /\ \A a \in 1..Len(fs[l].lines) : gs[l].lines[a] = fs[l].lines[a]
      /\ gs[l].lines[Len(fs[l].lines) + 1] = n + 1
  OBVIOUS
<1>6. /\ gs \in Seq(LogFiles) /\ Len(gs) = l
      /\ \A k \in 1..l : k # l => gs[k] = fs[k]
      /\ gs[l].name = fs[l].name
      /\ gs[l].flushed <= Len(gs[l].lines)
  OBVIOUS
<1>7. \A k \in 1..l : fs[k] \in LogFiles /\ Len(fs[k].lines) \in Nat /\ fs[k].flushed \in Nat
  BY <1>1, FilesOf
<1> HIDE DEF l
<1>8. ASSUME NEW k \in 1..l, NEW a \in 1..Len(gs[k].lines)
      PROVE  \/ a \in 1..Len(fs[k].lines) /\ gs[k].lines[a] = fs[k].lines[a]
             \/ k = l /\ a = Len(fs[l].lines) + 1 /\ gs[k].lines[a] = n + 1
  <2>1. CASE k # l
    BY <1>6, <2>1
  <2>2. CASE k = l
    <3>1. a \in 1..(Len(fs[l].lines) + 1)
      BY <1>4, <2>2
    <3>2. a \in 1..Len(fs[l].lines) \/ a = Len(fs[l].lines) + 1
      BY <1>3, <3>1, UpToNext
    <3> QED BY <1>4, <2>2, <3>2
  <2> QED BY <2>1, <2>2
<1>9. \A k \in 1..l : \A a \in 1..Len(fs[k].lines) : fs[k].lines[a] \in (1..n) \ cut
  BY DEF FilesHold, LinesWithin, l
<1>10. ASSUME NEW k \in 1..l, NEW a \in 1..Len(gs[k].lines)
       PROVE  gs[k].lines[a] \in (1..(n + 1)) \ cut
  <2>1. CASE a \in 1..Len(fs[k].lines) /\ gs[k].lines[a] = fs[k].lines[a]
    <3>1. gs[k].lines[a] \in (1..n) \ cut
      BY <1>9, <2>1
    <3> QED BY <3>1
  <2>2. CASE gs[k].lines[a] = n + 1
    <3>1. n + 1 \in (1..(n + 1)) \ cut
      OBVIOUS
    <3> QED BY <2>2, <3>1
  <2> QED BY <1>8, <2>1, <2>2
<1>11. ASSUME NEW j \in 1..l, NEW k \in 1..l, NEW a \in 1..Len(gs[j].lines),
              NEW b \in 1..Len(gs[k].lines), j < k \/ (j = k /\ a < b)
       PROVE  gs[j].lines[a] < gs[k].lines[b]
  <2>1. a \in 1..Len(fs[j].lines) /\ gs[j].lines[a] = fs[j].lines[a]
    <3>1. CASE j # l
      BY <1>8, <3>1
    <3>2. CASE j = l
      <4>1. k = l /\ a < b
        BY <1>1, <1>11, <3>2
      <4>2. b \in 1..(Len(fs[l].lines) + 1)
        BY <1>4, <1>6, <4>1
      <4>3. a \in 1..Len(fs[l].lines)
        BY <1>3, <1>4, <1>6, <3>2, <4>1, <4>2
      <4> QED BY <1>4, <1>6, <3>2, <4>3
    <3> QED BY <3>1, <3>2
  <2>2. CASE b \in 1..Len(fs[k].lines) /\ gs[k].lines[b] = fs[k].lines[b]
    BY <1>11, <2>1, <2>2 DEF FilesHold, LinesAscend, l
  <2>3. CASE gs[k].lines[b] = n + 1
    <3>1. fs[j].lines[a] \in 1..n
      BY <1>9, <2>1
    <3>2. fs[j].lines[a] < n + 1
      <4>1. \A i \in 1..n : i < n + 1
        OBVIOUS
      <4> QED BY <3>1, <4>1, Zenon
    <3> QED BY <2>1, <2>3, <3>2, Zenon
  <2> QED BY <1>8, <2>2, <2>3
<1>12. ASSUME NEW i \in (1..(n + 1)) \ cut
       PROVE  \E k \in 1..l : \E a \in 1..Len(gs[k].lines) : gs[k].lines[a] = i
  <2>1. CASE i = n + 1
    <3>0. \A m \in Nat : m + 1 \in 1..(m + 1)
      OBVIOUS
    <3>1. Len(fs[l].lines) + 1 \in 1..Len(gs[l].lines)
      BY <1>3, <1>4, <3>0, Zenon
    <3>2. l \in 1..l
      BY <1>1
    <3> QED BY <1>4, <2>1, <3>1, <3>2, Zenon
  <2>2. CASE i \in 1..n
    <3>1. PICK k \in 1..l : \E a \in 1..Len(fs[k].lines) : fs[k].lines[a] = i
      BY <2>2 DEF FilesHold, LinesThere, l
    <3>2. PICK a \in 1..Len(fs[k].lines) : fs[k].lines[a] = i
      BY <3>1
    <3>3. a \in 1..Len(gs[k].lines) /\ gs[k].lines[a] = i
      <4>1. CASE k # l
        BY <1>6, <3>2, <4>1, Zenon
      <4>2. CASE k = l
        <5>1. \A m \in Nat : \A x \in 1..m : x \in 1..(m + 1)
          OBVIOUS
        <5> QED BY <1>3, <1>4, <3>2, <4>2, <5>1, Zenon
      <4> QED BY <4>1, <4>2, Zenon
    <3> QED BY <3>3, Zenon
  <2> QED BY <2>1, <2>2
<1>13. \A j, k \in 1..l : j < k => gs[j].name < gs[k].name
  BY <1>6 DEF FilesHold, NamesAscend, l
<1>14. \A k \in 1..l : gs[k].flushed <= Len(gs[k].lines)
  <2>1. \A k \in 1..l : k # l => gs[k].flushed <= Len(gs[k].lines)
    BY <1>6 DEF FilesHold, FlushedUp, l
  <2> QED BY <1>6, <2>1
<1>15. \A k \in 1..(l - 1) : gs[k].flushed = Len(gs[k].lines)
  <2>1. \A k \in 1..(l - 1) : k \in 1..l /\ k # l
    BY <1>1
  <2> QED BY <1>6, <2>1 DEF FilesHold, FlushedUp, l
<1>16. FilesHold(gs, n + 1, cut)
  <2>1. FlushedUp(gs) /\ NamesAscend(gs)
    BY <1>6, <1>13, <1>14, <1>15 DEF FlushedUp, NamesAscend
  <2>2. LinesAscend(gs)
    BY <1>6, <1>11 DEF LinesAscend
  <2>3. LinesWithin(gs, (1..(n + 1)) \ cut) /\ LinesThere(gs, (1..(n + 1)) \ cut)
    BY <1>6, <1>10, <1>12 DEF LinesWithin, LinesThere
  <2> QED BY <1>1, <1>6, <2>1, <2>2, <2>3 DEF FilesHold
<1> QED BY <1>16

\* A file that gets other lines, and files of which the last one does.
OtherFile(f, s, k) == [f EXCEPT !.lines = s, !.flushed = k]
OtherLast(fs, s, k) == [fs EXCEPT ![Len(fs)] = OtherFile(fs[Len(fs)], s, k)]
\* What can be said of them.
IsOtherFile(g, f, s, k) ==
    g \in LogFiles /\ g.lines = s /\ g.name = f.name /\ g.flushed = k
IsOtherLast(gs, fs, s, k) ==
    /\ gs \in Seq(LogFiles) /\ Len(gs) = Len(fs)
    /\ \A j \in 1..Len(fs) : j # Len(fs) => gs[j] = fs[j]
    /\ gs[Len(fs)].lines = s /\ gs[Len(fs)].name = fs[Len(fs)].name
    /\ gs[Len(fs)].flushed = k
\* A file with other lines is a file.
LEMMA OtherLines ==
    ASSUME NEW f \in LogFiles, NEW s \in Seq(Nat), NEW k \in Nat,
           NEW g, g = OtherFile(f, s, k)
    PROVE  IsOtherFile(g, f, s, k)
<1> QED BY DEF LogFiles, OtherFile, IsOtherFile

\* The last file gets other lines.
LEMMA LastFileChanged ==
    ASSUME NEW fs \in Seq(LogFiles), Len(fs) > 0, NEW s \in Seq(Nat), NEW k \in Nat,
           NEW gs, gs = OtherLast(fs, s, k)
    PROVE  IsOtherLast(gs, fs, s, k)
<1>0. PICK l \in 1..Len(fs) : l = Len(fs)
  BY FilesOf
<1>1. fs[l] \in LogFiles
  BY FilesOf
<1>2. PICK g : g = OtherFile(fs[l], s, k)
  OBVIOUS
<1>3. g \in LogFiles /\ g.lines = s /\ g.name = fs[l].name /\ g.flushed = k
  <2>1. IsOtherFile(g, fs[l], s, k)
    BY <1>1, <1>2, OtherLines, Zenon
  <2> QED BY <2>1, Zenon DEF IsOtherFile
<1>4. gs = [fs EXCEPT ![l] = g]
  BY <1>0, <1>2, Zenon DEF OtherLast
<1>5. /\ gs \in Seq(LogFiles) /\ Len(gs) = Len(fs) /\ gs[l] = g
      /\ \A j \in 1..Len(fs) : j # l => gs[j] = fs[j]
  BY <1>3, <1>4, Replaced
<1> QED BY <1>0, <1>3, <1>5, Zenon DEF IsOtherLast

\* The files when the last one has got another line and its first k lines are on disk.
Longer(fs, line, k) == OtherLast(fs, Append(fs[Len(fs)].lines, line), k)
IsLonger(gs, fs, line, k) ==
    /\ gs \in Seq(LogFiles) /\ Len(gs) = Len(fs)
    /\ \A j \in 1..Len(fs) : j # Len(fs) => gs[j] = fs[j]
    /\ Len(gs[Len(fs)].lines) = Len(fs[Len(fs)].lines) + 1
    /\ \A a \in 1..Len(fs[Len(fs)].lines) : gs[Len(fs)].lines[a] = fs[Len(fs)].lines[a]
    /\ gs[Len(fs)].lines[Len(fs[Len(fs)].lines) + 1] = line
    /\ gs[Len(fs)].name = fs[Len(fs)].name
    /\ gs[Len(fs)].flushed = k
\* Only the last file is changed, by one line at its end.
LEMMA LongerFile ==
    ASSUME NEW fs \in Seq(LogFiles), Len(fs) > 0, NEW line \in Nat, NEW k \in Nat,
           NEW gs, gs = Longer(fs, line, k)
    PROVE  IsLonger(gs, fs, line, k)
<1> DEFINE l == Len(fs)
           longer == Append(fs[l].lines, line)
<1>1. l \in 1..l /\ fs[l].lines \in Seq(Nat)
  BY FilesOf
<1>2. /\ longer \in Seq(Nat)
      /\ Len(longer) = Len(fs[l].lines) + 1
      /\ \A a \in 1..Len(fs[l].lines) : longer[a] = fs[l].lines[a]
      /\ longer[Len(fs[l].lines) + 1] = line
  BY <1>1, AppendProperties
<1>3. gs = OtherLast(fs, longer, k)
  BY Zenon DEF Longer
<1> HIDE DEF longer
<1>4. IsOtherLast(gs, fs, longer, k)
  BY <1>2, <1>3, LastFileChanged, Zenon
<1> QED BY <1>2, <1>4, Zenon DEF IsOtherLast, IsLonger

\* A line is cut short by an error.
LEMMA LineCut ==
    ASSUME NEW fs, NEW n \in Nat, NEW cut \in SUBSET (1..n), FilesHold(fs, n, cut)
    PROVE  FilesHold(fs, n + 1, cut \cup {n + 1})
<1>1. (1..(n + 1)) \ (cut \cup {n + 1}) = (1..n) \ cut
  OBVIOUS
<1> QED BY <1>1 DEF FilesHold

\* The first k lines of a sequence.
LEMMA FirstLines ==
    ASSUME NEW s \in Seq(Nat), NEW k \in 0..Len(s)
    PROVE  /\ SubSeq(s, 1, k) \in Seq(Nat) /\ Len(SubSeq(s, 1, k)) = k
           /\ \A a \in 1..k : SubSeq(s, 1, k)[a] = s[a]
<1>1. Len(s) \in Nat /\ k \in Nat /\ k <= Len(s)
  OBVIOUS
<1>2. \A a \in 1..k : s[a] \in Nat
  BY <1>1
<1> QED BY <1>1, <1>2, SubSeqProperties

\* What can be said of files of which the last one was written out.
IsWrittenOut(gs, fs) ==
    /\ Len(gs) = Len(fs)
    /\ \A j \in 1..Len(fs) : gs[j].name = fs[j].name
    /\ gs[Len(fs)].flushed = Len(gs[Len(fs)].lines) /\ Len(gs[Len(fs)].lines) \in Nat
\* When the buffer of the last file was written out up to line k, the files hold the lines
\* they held but those after k.
LEMMA FileWrittenOut ==
    ASSUME NEW fs, NEW n \in Nat, NEW cut, FilesHold(fs, n, cut),
           NEW k \in Lf!Reached(fs), NEW gs, gs = Lf!WrittenOut(fs, k)
    PROVE  /\ FilesHold(gs, n, cut \cup Lf!LinesAfter(fs, k)) /\ IsWrittenOut(gs, fs)
           /\ Lf!LinesAfter(fs, k) \subseteq 1..n
<1> DEFINE l == Len(fs)
           s == SubSeq(fs[l].lines, 1, k)
           gone == Lf!LinesAfter(fs, k)
<1>1. /\ l \in Nat /\ l > 0 /\ l \in 1..l /\ fs \in Seq(LogFiles) /\ fs[l] \in LogFiles
      /\ fs[l].lines \in Seq(Nat) /\ Len(fs[l].lines) \in Nat /\ fs[l].flushed \in Nat
  BY FilesOf DEF FilesHold
<1>2. k \in 0..Len(fs[l].lines) /\ k \in Nat
  BY <1>1 DEF Lf!Reached
<1>3. s \in Seq(Nat) /\ Len(s) = k /\ \A a \in 1..k : s[a] = fs[l].lines[a]
  BY <1>1, <1>2, FirstLines
<1>4. gs = OtherLast(fs, s, k)
  BY DEF Lf!WrittenOut, OtherLast, OtherFile
<1>5. gone = {fs[l].lines[a] : a \in (k + 1)..Len(fs[l].lines)}
  BY DEF Lf!LinesAfter
<1> HIDE DEF s, gone
<1>6. /\ gs \in Seq(LogFiles) /\ Len(gs) = l
      /\ \A j \in 1..l : j # l => gs[j] = fs[j]
      /\ gs[l].lines = s /\ gs[l].name = fs[l].name /\ gs[l].flushed = k
  <2>1. IsOtherLast(gs, fs, s, k)
    BY <1>1, <1>2, <1>3, <1>4, LastFileChanged, Zenon
  <2> QED BY <2>1, Zenon DEF IsOtherLast
<1> HIDE DEF l
<1>7. /\ FlushedUp(fs) /\ NamesAscend(fs) /\ LinesAscend(fs)
      /\ LinesWithin(fs, (1..n) \ cut) /\ LinesThere(fs, (1..n) \ cut) /\ l = Len(fs)
  BY DEF FilesHold, l
<1>8. \A j \in 1..l : gs[j].name = fs[j].name
  BY <1>6
<1>9. ASSUME NEW j \in 1..l, NEW a \in 1..Len(gs[j].lines)
      PROVE  /\ a \in 1..Len(fs[j].lines) /\ gs[j].lines[a] = fs[j].lines[a]
             /\ j = l => a <= k
  <2>1. CASE j # l
    BY <1>6, <2>1
  <2>2. CASE j = l
    <3>1. gs[j].lines = s /\ a \in 1..k
      BY <1>3, <1>6, <2>2, Zenon
    <3>2. a \in 1..Len(fs[j].lines) /\ a <= k
      BY <1>1, <1>2, <2>2, <3>1
    <3> QED BY <1>3, <2>2, <3>1, <3>2, Zenon
  <2> QED BY <2>1, <2>2
<1>10. \A j \in 1..l : \A a \in 1..Len(fs[j].lines) : fs[j].lines[a] \in (1..n) \ cut
  BY <1>7 DEF LinesWithin
<1>11. \A b \in (k + 1)..Len(fs[l].lines) : b \in 1..Len(fs[l].lines) /\ k < b
  BY <1>1, <1>2
<1>12. gone \subseteq 1..n
  BY <1>1, <1>5, <1>10, <1>11
<1>13. ASSUME NEW j \in 1..l, NEW a \in 1..Len(gs[j].lines)
       PROVE  gs[j].lines[a] \in (1..n) \ (cut \cup gone)
  <2>1. /\ a \in 1..Len(fs[j].lines) /\ gs[j].lines[a] = fs[j].lines[a]
        /\ (j = l => a <= k) /\ fs[j].lines[a] \in (1..n) \ cut
    BY <1>9, <1>10
  <2>2. ASSUME NEW b \in (k + 1)..Len(fs[l].lines) PROVE fs[j].lines[a] # fs[l].lines[b]
    <3>1. b \in 1..Len(fs[l].lines) /\ k < b /\ b \in Nat
      BY <1>1, <1>2, <1>11
    <3>2. j < l \/ (j = l /\ a < b)
      BY <1>1, <1>2, <2>1, <3>1
    <3>3. fs[j].lines[a] < fs[l].lines[b]
      BY <1>1, <1>7, <2>1, <3>1, <3>2 DEF LinesAscend
    <3>4. fs[j].lines[a] \in Nat /\ fs[l].lines[b] \in Nat
      <4>1. l \in 1..l /\ b \in 1..Len(fs[l].lines)
        BY <1>1, <3>1, Zenon
      <4>2. fs[l].lines[b] \in (1..n) \ cut
        BY <1>10, <4>1, Zenon
      <4>3. \A x \in (1..n) \ cut : x \in Nat
        OBVIOUS
      <4> QED BY <2>1, <4>2, <4>3, Zenon
    <3> QED BY <3>3, <3>4
  <2>3. fs[j].lines[a] \notin gone
    BY <1>5, <2>2
  <2> QED BY <2>1, <2>3
<1>14. ASSUME NEW i \in (1..n) \ (cut \cup gone)
       PROVE  \E j \in 1..l : \E a \in 1..Len(gs[j].lines) : gs[j].lines[a] = i
  <2>1. PICK j \in 1..l : \E a \in 1..Len(fs[j].lines) : fs[j].lines[a] = i
    BY <1>7 DEF LinesThere
  <2>2. PICK a \in 1..Len(fs[j].lines) : fs[j].lines[a] = i
    BY <2>1
  <2>3. CASE j # l
    BY <1>6, <2>2, <2>3
  <2>4. CASE j = l
    <3>1. a \notin (k + 1)..Len(fs[l].lines)
      BY <1>5, <2>2, <2>4
    <3>2. a \in 1..k
      BY <1>1, <1>2, <2>4, <3>1
    <3> QED BY <1>3, <1>6, <2>2, <2>4, <3>2
  <2> QED BY <2>3, <2>4
<1>15. FlushedUp(gs)
  <2>1. \A j \in 1..(l - 1) : j \in 1..l /\ j # l
    BY <1>1
  <2>2. \A j \in 1..(l - 1) : gs[j].flushed = Len(gs[j].lines)
    BY <1>6, <1>7, <2>1 DEF FlushedUp
  <2>3. \A j \in 1..l : j # l => gs[j].flushed <= Len(gs[j].lines)
    BY <1>6, <1>7 DEF FlushedUp
  <2>4. gs[l].flushed <= Len(gs[l].lines)
    BY <1>2, <1>3, <1>6
  <2> QED BY <1>6, <2>2, <2>3, <2>4 DEF FlushedUp
<1>16. NamesAscend(gs)
  BY <1>6, <1>7, <1>8 DEF NamesAscend
<1>17. LinesAscend(gs)
  <2> SUFFICES ASSUME NEW j \in 1..Len(gs), NEW m \in 1..Len(gs),
                      NEW a \in 1..Len(gs[j].lines), NEW b \in 1..Len(gs[m].lines),
                      j < m \/ (j = m /\ a < b)
               PROVE  gs[j].lines[a] < gs[m].lines[b]
    BY Zenon DEF LinesAscend
  <2>0. j \in 1..l /\ m \in 1..l
    BY <1>6
  <2>1. /\ a \in 1..Len(fs[j].lines) /\ gs[j].lines[a] = fs[j].lines[a]
        /\ b \in 1..Len(fs[m].lines) /\ gs[m].lines[b] = fs[m].lines[b]
    BY <1>9, <2>0
  <2> QED BY <1>7, <2>0, <2>1 DEF LinesAscend
<1>18. LinesWithin(gs, (1..n) \ (cut \cup gone)) /\ LinesThere(gs, (1..n) \ (cut \cup gone))
  BY <1>6, <1>13, <1>14 DEF LinesWithin, LinesThere
<1>19. FilesHold(gs, n, cut \cup gone)
  BY <1>1, <1>6, <1>15, <1>16, <1>17, <1>18 DEF FilesHold
<1>20. IsWrittenOut(gs, fs)
  BY <1>2, <1>3, <1>6, <1>8 DEF IsWrittenOut, l
<1> QED BY <1>12, <1>19, <1>20 DEF gone

\* The next file is begun, with a later name.
Begun(fs, t) == Append(fs, Lf!NewFile(t))
\* A new file with a later name holds no line yet, so that the files hold the same lines.
LEMMA FileBegun ==
    ASSUME NEW fs, NEW n \in Nat, NEW cut, FilesHold(fs, n, cut), NEW t \in Nat,
           fs[Len(fs)].name < t, fs[Len(fs)].flushed = Len(fs[Len(fs)].lines),
           NEW gs, gs = Begun(fs, t)
    PROVE  /\ FilesHold(gs, n, cut) /\ Len(gs) = Len(fs) + 1
           /\ gs[Len(fs) + 1] = Lf!NewFile(t)
<1> DEFINE l == Len(fs)
<1>1. l \in Nat /\ l > 0 /\ fs \in Seq(LogFiles)
  BY DEF FilesHold
<1>2. Lf!NewFile(t) \in LogFiles /\ Lf!NewFile(t).name = t /\ Lf!NewFile(t).flushed = 0
      /\ Lf!NewFile(t).lines = <<>> /\ Len(Lf!NewFile(t).lines) = 0
  BY DEF Lf!NewFile, LogFiles
<1>3. /\ gs \in Seq(LogFiles) /\ Len(gs) = l + 1 /\ gs[l + 1] = Lf!NewFile(t)
      /\ \A k \in 1..l : gs[k] = fs[k]
  BY <1>1, <1>2 DEF Begun
<1> HIDE DEF l
<1>4. \A k \in 1..(l + 1) : k \in 1..l \/ k = l + 1
  BY <1>1
<1>5. \A a \in 1..Len(gs[l + 1].lines) : FALSE
  BY <1>2, <1>3
<1>6. \A k \in 1..l : fs[k].name \in Nat /\ fs[k].name < t
  <2> SUFFICES ASSUME NEW k \in 1..l PROVE fs[k].name \in Nat /\ fs[k].name < t
    OBVIOUS
  <2>1. fs[k].name \in Nat /\ fs[l].name \in Nat
    BY <1>1, FilesOf DEF l
  <2>2. k = l \/ fs[k].name < fs[l].name
    BY <1>1 DEF FilesHold, NamesAscend, l
  <2> QED BY <2>1, <2>2 DEF l
<1>7. \A j, k \in 1..(l + 1) : j < k => gs[j].name < gs[k].name
  <2> SUFFICES ASSUME NEW j \in 1..(l + 1), NEW k \in 1..(l + 1), j < k
               PROVE  gs[j].name < gs[k].name
    OBVIOUS
  <2>1. j \in 1..l
    BY <1>1
  <2> QED BY <1>2, <1>3, <1>4, <1>6, <2>1 DEF FilesHold, NamesAscend, l
<1>8. \A k \in 1..l : gs[k].flushed = Len(gs[k].lines)
  <2>1. \A k \in 1..l : k = l \/ k \in 1..(l - 1)
    BY <1>1
  <2> QED BY <1>3, <2>1 DEF FilesHold, FlushedUp, l
<1>9. \A k \in 1..(l + 1) : gs[k].flushed <= Len(gs[k].lines)
  <2>1. \A k \in 1..l : Len(gs[k].lines) \in Nat
    BY <1>1, <1>3, FilesOf DEF l
  <2> QED BY <1>2, <1>3, <1>4, <1>8, <2>1
<1>10. ASSUME NEW j \in 1..(l + 1), NEW k \in 1..(l + 1), NEW a \in 1..Len(gs[j].lines),
              NEW b \in 1..Len(gs[k].lines), j < k \/ (j = k /\ a < b)
       PROVE  gs[j].lines[a] < gs[k].lines[b]
  <2>1. j \in 1..l /\ k \in 1..l
    BY <1>4, <1>5
  <2> QED BY <1>3, <1>10, <2>1 DEF FilesHold, LinesAscend, l
<1>11. ASSUME NEW k \in 1..(l + 1), NEW a \in 1..Len(gs[k].lines)
       PROVE  gs[k].lines[a] \in (1..n) \ cut
  <2>1. k \in 1..l
    BY <1>4, <1>5
  <2> QED BY <1>3, <2>1 DEF FilesHold, LinesWithin, l
<1>12. ASSUME NEW i \in (1..n) \ cut
       PROVE  \E k \in 1..(l + 1) : \E a \in 1..Len(gs[k].lines) : gs[k].lines[a] = i
  <2>1. PICK k \in 1..l : \E a \in 1..Len(fs[k].lines) : fs[k].lines[a] = i
    BY DEF FilesHold, LinesThere, l
  <2>2. k \in 1..(l + 1)
    BY <1>1
  <2> QED BY <1>3, <2>1, <2>2
<1>13. l + 1 - 1 = l /\ l + 1 > 0
  BY <1>1
<1>14. FilesHold(gs, n, cut)
  <2>0. Len(gs) = l + 1 /\ Len(gs) - 1 = l
    <3>1. Len(gs) = l + 1
      BY <1>3
    <3> QED BY <1>1, <3>1
  <2>1. FlushedUp(gs) /\ NamesAscend(gs)
    <3>1. NamesAscend(gs)
      BY <2>0, <1>7, Zenon DEF NamesAscend
    <3>2. \A k \in 1..Len(gs) : gs[k].flushed <= Len(gs[k].lines)
      BY <2>0, <1>9, Zenon
    <3>3. \A k \in 1..(Len(gs) - 1) : gs[k].flushed = Len(gs[k].lines)
      BY <2>0, <1>8, Zenon
    <3> QED BY <3>1, <3>2, <3>3, Zenon DEF FlushedUp
  <2>2. LinesAscend(gs)
    <3>1. \A j, k \in 1..Len(gs) : j \in 1..(l + 1) /\ k \in 1..(l + 1)
      BY <2>0, Zenon
    <3> SUFFICES ASSUME NEW j \in 1..Len(gs), NEW k \in 1..Len(gs),
                        NEW a \in 1..Len(gs[j].lines), NEW b \in 1..Len(gs[k].lines),
                        j < k \/ (j = k /\ a < b)
                 PROVE  gs[j].lines[a] < gs[k].lines[b]
      BY Zenon DEF LinesAscend
    <3> QED BY <1>10, <3>1
  <2>3. LinesWithin(gs, (1..n) \ cut) /\ LinesThere(gs, (1..n) \ cut)
    BY <1>3, <1>11, <1>12 DEF LinesWithin, LinesThere
  <2> QED BY <1>3, <1>13, <2>1, <2>2, <2>3 DEF FilesHold
<1> QED BY <1>3, <1>14 DEF l

\* The lines of the last file that are not flushed were appended after the last flush that
\* append made, and not too long before it last looked at the clock.
UnflushedRecent(fs, times, flush, check) ==
    \A k \in (fs[Len(fs)].flushed + 1)..Len(fs[Len(fs)].lines) :
        /\ flush <= times[fs[Len(fs)].lines[k]]
        /\ check <= times[fs[Len(fs)].lines[k]] + flushInterval_

FilesReady(fs, times, cut, roll, flush, check, back) ==
    /\ FilesHold(fs, Len(times), cut)
    /\ fs[Len(fs)].name = roll
    /\ \A k \in 1..Len(fs) : fs[k].name \in 1..MaxNow
    /\ ~back => UnflushedRecent(fs, times, flush, check)

\* Numbers of LogFile: unless the clock was set back, the last roll, the last flush and the
\* last look at the clock are in the past, and no more lines of a later period are in the file
\* than were appended since that look.
LogFileTypes ==
    /\ now \in 1..MaxNow /\ lastRoll_ \in 1..MaxNow /\ lastFlush_ \in 1..MaxNow
    /\ checkedAt \in 1..MaxNow /\ lineCount \in 0..(checkEveryN_ - 1)
    /\ startOfPeriod_ = Lf!Period(lastRoll_)
    /\ writtenBytes_ \in Nat /\ late \in Nat /\ setBack \in BOOLEAN
    /\ lineTime \in Seq(Nat) /\ Len(lineTime) <= MaxLines
    /\ lost \subseteq 1..Len(lineTime)

ClockInv ==
    /\ writtenBytes_ > rollSize_ => Len(lineTime) > 0 /\ lineTime[Len(lineTime)] <= lastRoll_
    /\ ~setBack => /\ lastRoll_ <= now /\ lastFlush_ <= now /\ checkedAt <= now
                   /\ late <= lineCount
                   /\ late > 0 => startOfPeriod_ < Lf!Period(now)

LogFileInv ==
    /\ LogFileTypes /\ ClockInv
    /\ FilesReady(files, lineTime, lost, lastRoll_, lastFlush_, checkedAt, setBack)

\* Periods follow each other.
LEMMA Periods ==
    ASSUME Lf!SizeAssumption, NEW a \in Nat, NEW b \in Nat, a <= b
    PROVE  /\ Lf!Period(a) \in Nat /\ Lf!Period(a) <= a
           /\ Lf!Period(a) <= Lf!Period(b)
<1> DEFINE k == kRollPerSeconds_
           q == a \div k
           r == b \div k
<1>1. k \in Nat /\ k > 0
  BY DEF Lf!SizeAssumption
<1>2. q \in Nat /\ r \in Nat /\ k * q <= a /\ b < k * (r + 1)
  BY <1>1
<1> HIDE DEF q, r, k
<1>3. q <= r
  <2> SUFFICES ASSUME r + 1 <= q PROVE FALSE
    BY <1>2
  <2>1. k * (r + 1) <= k * q
    BY <1>1, <1>2
  <2> QED BY <1>1, <1>2, <2>1
<1>4. q * k \in Nat /\ q * k <= a /\ q * k <= r * k
  BY <1>1, <1>2, <1>3
<1> QED BY <1>4 DEF Lf!Period, q, r, k

\* The next file, with the one before written out, is ready.
LEMMA NextFileReady ==
    ASSUME Lf!SizeAssumption, NEW fs, NEW times, NEW cut, NEW roll, NEW flush, NEW check, NEW back,
           FilesReady(fs, times, cut, roll, flush, check, back), Len(times) \in Nat,
           cut \subseteq 1..Len(times),
           NEW t \in 1..MaxNow, t > roll, Lf!NextFile(fs, cut, t),
           NEW flush2, NEW check2, NEW back2
    PROVE  /\ FilesReady(files', times, lost', t, flush2, check2, back2)
           /\ lost' \subseteq 1..Len(times)
<1>1. PICK x \in Lf!Reached(fs) : /\ files' = Append(Lf!WrittenOut(fs, x), Lf!NewFile(t))
                                 /\ lost' = cut \cup Lf!LinesAfter(fs, x)
  BY DEF Lf!NextFile
<1> DEFINE gs == Lf!WrittenOut(fs, x)
<1> HIDE DEF gs
<1>2. files' = Begun(gs, t)
  BY <1>1 DEF Begun, gs
<1>3. FilesHold(fs, Len(times), cut)
  BY DEF FilesReady
<1>4. /\ FilesHold(gs, Len(times), lost') /\ Len(gs) = Len(fs)
      /\ \A k \in 1..Len(fs) : gs[k].name = fs[k].name
      /\ gs[Len(fs)].flushed = Len(gs[Len(fs)].lines)
      /\ Lf!LinesAfter(fs, x) \subseteq 1..Len(times)
  <2>1. PICK n \in Nat : n = Len(times)
    OBVIOUS
  <2>2. FilesHold(fs, n, cut) /\ gs = Lf!WrittenOut(fs, x)
    BY <1>3, <2>1 DEF gs
  <2>3. /\ FilesHold(gs, n, cut \cup Lf!LinesAfter(fs, x)) /\ IsWrittenOut(gs, fs)
        /\ Lf!LinesAfter(fs, x) \subseteq 1..n
    BY <2>2, FileWrittenOut, Zenon
  <2> QED BY <1>1, <2>1, <2>3, Zenon DEF IsWrittenOut
<1>5. Len(fs) \in Nat /\ Len(fs) > 0 /\ Len(fs) \in 1..Len(fs)
  BY <1>3, FilesOf DEF FilesHold
<1>6. gs[Len(gs)].name < t /\ gs[Len(gs)].flushed = Len(gs[Len(gs)].lines)
  BY <1>4, <1>5 DEF FilesReady
<1>7. t \in Nat
  BY DEF Lf!SizeAssumption
<1>8. /\ FilesHold(files', Len(times), lost') /\ Len(files') = Len(gs) + 1
      /\ files'[Len(gs) + 1] = Lf!NewFile(t)
  <2>1. PICK n \in Nat : n = Len(times)
    OBVIOUS
  <2>2. PICK hs : hs = Begun(gs, t)
    OBVIOUS
  <2>3. FilesHold(gs, n, lost')
    BY <1>4, <2>1
  <2>4. FilesHold(hs, n, lost') /\ Len(hs) = Len(gs) + 1 /\ hs[Len(gs) + 1] = Lf!NewFile(t)
    BY <1>6, <1>7, <2>2, <2>3, FileBegun
  <2> QED BY <1>2, <2>1, <2>2, <2>4
<1>9. files'[Len(files')].name = t
  BY <1>8 DEF Lf!NewFile
<1>10. \A k \in 1..Len(files') : files'[k].name \in 1..MaxNow
  <2> SUFFICES ASSUME NEW k \in 1..Len(files') PROVE files'[k].name \in 1..MaxNow
    OBVIOUS
  <2>1. CASE k = Len(files')
    BY <1>9, <2>1
  <2>2. CASE k # Len(files')
    <3>1. k \in 1..Len(fs)
      BY <1>4, <1>5, <1>8, <2>2
    <3>2. files'[k] = gs[k]
      <4>1. gs \in Seq(LogFiles) /\ Lf!NewFile(t) \in LogFiles
        BY <1>4, <1>7 DEF FilesHold, Lf!NewFile, LogFiles
      <4> QED BY <1>2, <1>4, <3>1, <4>1, AppendProperties DEF Begun
    <3> QED BY <1>4, <3>1, <3>2 DEF FilesReady
  <2> QED BY <2>1, <2>2
<1>11. UnflushedRecent(files', times, flush2, check2)
  <2>1. (Lf!NewFile(t).flushed + 1)..Len(Lf!NewFile(t).lines) = {}
    BY DEF Lf!NewFile
  <2> QED BY <1>8, <2>1 DEF UnflushedRecent
<1>12. lost' \subseteq 1..Len(times)
  BY <1>1, <1>4
<1> QED BY <1>8, <1>9, <1>10, <1>11, <1>12 DEF FilesReady

\* The files with the last one written out are ready.
LEMMA WrittenOutReady ==
    ASSUME NEW fs, NEW times, NEW cut, NEW roll, NEW flush, NEW check, NEW back,
           FilesReady(fs, times, cut, roll, flush, check, back), Len(times) \in Nat,
           NEW k \in Lf!Reached(fs), NEW gs, gs = Lf!WrittenOut(fs, k),
           NEW flush2, NEW check2, NEW back2
    PROVE  /\ FilesReady(gs, times, cut \cup Lf!LinesAfter(fs, k), roll, flush2, check2, back2)
           /\ Lf!LinesAfter(fs, k) \subseteq 1..Len(times)
<1>1. FilesHold(fs, Len(times), cut)
  BY DEF FilesReady
<1>2. /\ FilesHold(gs, Len(times), cut \cup Lf!LinesAfter(fs, k)) /\ Len(gs) = Len(fs)
      /\ \A j \in 1..Len(fs) : gs[j].name = fs[j].name
      /\ gs[Len(fs)].flushed = Len(gs[Len(fs)].lines) /\ Len(gs[Len(fs)].lines) \in Nat
      /\ Lf!LinesAfter(fs, k) \subseteq 1..Len(times)
  <2>1. /\ FilesHold(gs, Len(times), cut \cup Lf!LinesAfter(fs, k)) /\ IsWrittenOut(gs, fs)
        /\ Lf!LinesAfter(fs, k) \subseteq 1..Len(times)
    BY <1>1, FileWrittenOut, Zenon
  <2> QED BY <2>1, Zenon DEF IsWrittenOut
<1>3. Len(fs) \in 1..Len(fs)
  BY <1>1, FilesOf DEF FilesHold
<1>4. (gs[Len(gs)].flushed + 1)..Len(gs[Len(gs)].lines) = {}
  <2>1. \A m \in Nat : (m + 1)..m = {}
    OBVIOUS
  <2> QED BY <1>2, <2>1, Zenon
<1>5. UnflushedRecent(gs, times, flush2, check2)
  BY <1>4, Zenon DEF UnflushedRecent
<1>6. gs[Len(gs)].name = roll /\ \A j \in 1..Len(gs) : gs[j].name \in 1..MaxNow
  BY <1>2, <1>3, Zenon DEF FilesReady
<1> QED BY <1>2, <1>5, <1>6, Zenon DEF FilesReady

\* What LongerFile and LineWritten say together.
LEMMA LineAdded ==
    ASSUME NEW fs, NEW n \in Nat, NEW cut \in SUBSET (1..n), FilesHold(fs, n, cut),
           NEW k \in Nat, k <= Len(fs[Len(fs)].lines) + 1,
           NEW gs, gs = Longer(fs, n + 1, k)
    PROVE  FilesHold(gs, n + 1, cut) /\ IsLonger(gs, fs, n + 1, k)
<1>1. fs \in Seq(LogFiles) /\ Len(fs) > 0 /\ n + 1 \in Nat
  BY DEF FilesHold
<1>2. IsLonger(gs, fs, n + 1, k)
  BY <1>1, LongerFile, Zenon
<1>3. gs[Len(fs)].flushed <= Len(gs[Len(fs)].lines)
  BY <1>2, Zenon DEF IsLonger
<1>4. FilesHold(gs, n + 1, cut)
  BY <1>2, <1>3, LineWritten, Zenon DEF IsLonger
<1> QED BY <1>2, <1>4, Zenon

\* The times when the next line has been appended.
NextTimes == Append(lineTime, now)
\* One time more is known, the earlier ones stay.
LEMMA TimesGrow ==
    ASSUME LogFileTypes
    PROVE  /\ NextTimes \in Seq(Nat) /\ Len(NextTimes) = Len(lineTime) + 1
           /\ NextTimes[Len(lineTime) + 1] = now
           /\ \A k \in 1..Len(lineTime) : NextTimes[k] = lineTime[k]
<1>1. lineTime \in Seq(Nat) /\ now \in Nat
  BY DEF LogFileTypes
<1> QED BY <1>1, AppendProperties DEF NextTimes

\* A file fs that append() has left, and the lines that are lost then.
AfterAppend(fs, gone) ==
    /\ FilesReady(fs, NextTimes, gone, lastRoll_, lastFlush_, checkedAt, setBack)
    /\ NextTimes \in Seq(Nat) /\ Len(NextTimes) = Len(lineTime) + 1
    /\ NextTimes[Len(NextTimes)] = now /\ gone \subseteq 1..Len(NextTimes)

\* The times that files with the lines so far need are those known before.
LEMMA SameTimes ==
    ASSUME Lf!SizeAssumption, LogFileInv
    PROVE  ~setBack =>
             /\ \A k \in (files[Len(files)].flushed + 1)..Len(files[Len(files)].lines) :
                    /\ lastFlush_ <= NextTimes[files[Len(files)].lines[k]]
                    /\ checkedAt <= NextTimes[files[Len(files)].lines[k]] + flushInterval_
             /\ lastFlush_ <= now /\ checkedAt <= now + flushInterval_
<1> DEFINE n == Len(lineTime)
           l == Len(files)
<1>1. /\ lineTime \in Seq(Nat) /\ now \in Nat /\ n \in Nat /\ flushInterval_ \in Nat
  BY DEF LogFileInv, LogFileTypes, Lf!SizeAssumption
<1>2. \A k \in 1..n : NextTimes[k] = lineTime[k]
  BY TimesGrow DEF LogFileInv
<1>4. /\ FilesHold(files, n, lost)
      /\ ~setBack => UnflushedRecent(files, lineTime, lastFlush_, checkedAt)
  BY DEF LogFileInv, FilesReady
<1>5. /\ l \in 1..l
      /\ files[l].flushed \in Nat /\ Len(files[l].lines) \in Nat
      /\ \A a \in 1..Len(files[l].lines) : files[l].lines[a] \in 1..n
  BY <1>4, FilesOf DEF FilesHold, LinesWithin
<1>6. ~setBack => \A k \in (files[l].flushed + 1)..Len(files[l].lines) :
                     /\ lastFlush_ <= lineTime[files[l].lines[k]]
                     /\ checkedAt <= lineTime[files[l].lines[k]] + flushInterval_
  BY <1>4 DEF UnflushedRecent
<1>7. ASSUME ~setBack, NEW k \in (files[l].flushed + 1)..Len(files[l].lines)
      PROVE  /\ lastFlush_ <= NextTimes[files[l].lines[k]]
             /\ checkedAt <= NextTimes[files[l].lines[k]] + flushInterval_
  <2>1. k \in 1..Len(files[l].lines)
    BY <1>5
  <2>2. NextTimes[files[l].lines[k]] = lineTime[files[l].lines[k]]
    BY <1>2, <1>5, <2>1
  <2> QED BY <1>6, <1>7, <2>2
<1>8. ~setBack => lastFlush_ <= now /\ checkedAt <= now + flushInterval_
  BY <1>1 DEF LogFileInv, LogFileTypes, ClockInv
<1> QED BY <1>7, <1>8

\* The files with the next line in them are ready.
LEMMA LineReady ==
    ASSUME Lf!SizeAssumption, LogFileInv,
           NEW k \in {Lf!File.flushed, Len(Lf!File.lines), Len(Lf!File.lines) + 1},
           NEW fs, fs = Lf!WithLine(k)
    PROVE  AfterAppend(fs, lost)
<1> DEFINE n == Len(lineTime)
           l == Len(files)
<1>1. n \in Nat /\ lost \in SUBSET (1..n) /\ lost \subseteq 1..(n + 1)
  BY DEF LogFileInv, LogFileTypes
<1>2. /\ NextTimes \in Seq(Nat) /\ Len(NextTimes) = n + 1 /\ NextTimes[n + 1] = now
  BY TimesGrow DEF LogFileInv
<1>3. /\ FilesHold(files, n, lost) /\ files[l].name = lastRoll_
      /\ \A j \in 1..l : files[j].name \in 1..MaxNow
  BY DEF LogFileInv, FilesReady
<1>4. /\ l \in 1..l /\ files[l].flushed \in Nat /\ Len(files[l].lines) \in Nat
      /\ files[l].flushed <= Len(files[l].lines)
  BY <1>3, FilesOf DEF FilesHold, FlushedUp
<1>5. k \in Nat /\ files[l].flushed <= k /\ k <= Len(files[l].lines) + 1
  BY <1>4 DEF Lf!File
<1>6. fs = Longer(files, n + 1, k)
  BY DEF Lf!WithLine, Lf!NewLine, Lf!File, Longer, OtherLast, OtherFile
<1>7. /\ FilesHold(fs, n + 1, lost) /\ Len(fs) = l
      /\ \A j \in 1..l : j # l => fs[j] = files[j]
      /\ Len(fs[l].lines) = Len(files[l].lines) + 1
      /\ \A a \in 1..Len(files[l].lines) : fs[l].lines[a] = files[l].lines[a]
      /\ fs[l].lines[Len(files[l].lines) + 1] = n + 1
      /\ fs[l].name = files[l].name /\ fs[l].flushed = k
  <2>1. FilesHold(fs, n + 1, lost) /\ IsLonger(fs, files, n + 1, k)
    BY <1>1, <1>3, <1>5, <1>6, LineAdded, Zenon
  <2> QED BY <2>1, Zenon DEF IsLonger
<1>8. ~setBack => /\ \A j \in (files[l].flushed + 1)..Len(files[l].lines) :
                        /\ lastFlush_ <= NextTimes[files[l].lines[j]]
                        /\ checkedAt <= NextTimes[files[l].lines[j]] + flushInterval_
                  /\ lastFlush_ <= now /\ checkedAt <= now + flushInterval_
  BY SameTimes, Zenon
<1> HIDE DEF n, l
<1>9. fs[l].name = lastRoll_ /\ \A j \in 1..l : fs[j].name \in 1..MaxNow
  BY <1>3, <1>7
<1>10. ASSUME ~setBack, NEW j \in (fs[l].flushed + 1)..Len(fs[l].lines)
       PROVE  /\ lastFlush_ <= NextTimes[fs[l].lines[j]]
              /\ checkedAt <= NextTimes[fs[l].lines[j]] + flushInterval_
  <2>1. j \in 1..(Len(files[l].lines) + 1) /\ j >= files[l].flushed + 1
    BY <1>4, <1>5, <1>7
  <2>2. CASE j \in 1..Len(files[l].lines)
    <3>1. j \in (files[l].flushed + 1)..Len(files[l].lines)
      BY <1>4, <2>1, <2>2
    <3> QED BY <1>7, <1>8, <1>10, <2>2, <3>1
  <2>3. CASE j = Len(files[l].lines) + 1
    BY <1>2, <1>7, <1>8, <1>10, <2>3
  <2> QED BY <1>4, <2>1, <2>2, <2>3, UpToNext
<1>11. ~setBack => UnflushedRecent(fs, NextTimes, lastFlush_, checkedAt)
  BY <1>7, <1>10 DEF UnflushedRecent
<1>12. FilesReady(fs, NextTimes, lost, lastRoll_, lastFlush_, checkedAt, setBack)
  BY <1>2, <1>7, <1>9, <1>11 DEF FilesReady
<1> QED BY <1>1, <1>2, <1>12 DEF AfterAppend, n

\* The files without it, after a failed write, are ready.
LEMMA NoLineReady ==
    ASSUME Lf!SizeAssumption, LogFileInv, NEW k \in Lf!Reached(files),
           NEW fs, fs = Lf!WrittenOut(files, k),
           NEW gone, gone = lost \cup Lf!LinesAfter(files, k) \cup {Lf!NewLine}
    PROVE  AfterAppend(fs, gone)
<1> DEFINE n == Len(lineTime)
           cut == lost \cup Lf!LinesAfter(files, k)
<1>1. n \in Nat /\ lost \subseteq 1..n
  BY DEF LogFileInv, LogFileTypes
<1>2. /\ NextTimes \in Seq(Nat) /\ Len(NextTimes) = n + 1 /\ NextTimes[n + 1] = now
  BY TimesGrow DEF LogFileInv
<1>3. FilesReady(files, lineTime, lost, lastRoll_, lastFlush_, checkedAt, setBack)
  BY DEF LogFileInv
<1>4. /\ FilesReady(fs, lineTime, cut, lastRoll_, lastFlush_, checkedAt, setBack)
      /\ Lf!LinesAfter(files, k) \subseteq 1..n
  BY <1>1, <1>3, WrittenOutReady, Zenon
<1>5. cut \in SUBSET (1..n) /\ gone = cut \cup {n + 1} /\ gone \subseteq 1..(n + 1)
  <2>1. cut \subseteq 1..n
    BY <1>1, <1>4, Zenon
  <2>2. gone = cut \cup {n + 1}
    BY Zenon DEF Lf!NewLine
  <2>3. \A m \in Nat : 1..m \subseteq 1..(m + 1) /\ m + 1 \in 1..(m + 1)
    OBVIOUS
  <2> QED BY <1>1, <2>1, <2>2, <2>3, Zenon
<1> HIDE DEF n, cut
<1>6. FilesHold(fs, n, cut) /\ fs[Len(fs)].name = lastRoll_
      /\ \A j \in 1..Len(fs) : fs[j].name \in 1..MaxNow
  BY <1>4 DEF FilesReady, n
<1>7. FilesHold(fs, n + 1, gone)
  BY <1>1, <1>5, <1>6, LineCut
<1>8. UnflushedRecent(fs, NextTimes, lastFlush_, checkedAt)
  <2>1. /\ FilesHold(files, n, lost) /\ n \in Nat
    BY <1>1, <1>3 DEF FilesReady, n
  <2>2. /\ Len(fs) = Len(files) /\ fs[Len(files)].flushed = Len(fs[Len(files)].lines)
        /\ Len(fs[Len(files)].lines) \in Nat
    <3>1. IsWrittenOut(fs, files)
      BY <2>1, FileWrittenOut, Zenon
    <3> QED BY <3>1, Zenon DEF IsWrittenOut
  <2>3. \A m \in Nat : (m + 1)..m = {}
    OBVIOUS
  <2>4. (fs[Len(fs)].flushed + 1)..Len(fs[Len(fs)].lines) = {}
    BY <2>2, <2>3, Zenon
  <2> QED BY <2>4, Zenon DEF UnflushedRecent
<1>9. FilesReady(fs, NextTimes, gone, lastRoll_, lastFlush_, checkedAt, setBack)
  BY <1>2, <1>6, <1>7, <1>8 DEF FilesReady
<1> QED BY <1>2, <1>5, <1>9 DEF AfterAppend, n

\* The count of lines of a later period, once the next line is in the file.
LEMMA LateLines ==
    ASSUME Lf!SizeAssumption, LogFileTypes, ClockInv, NEW t \in {now, now + 1}
    PROVE  /\ now \in Nat /\ t \in Nat /\ now <= t
           /\ Lf!NewLate \in Nat /\ Lf!NewLate <= late + 1
           /\ ~setBack =>
                 /\ Lf!NewLate > 0 => startOfPeriod_ < Lf!Period(t)
                 /\ Lf!Period(now) = startOfPeriod_ => Lf!NewLate = 0
                 /\ t <= lastRoll_ => Lf!Period(now) = startOfPeriod_
<1>1. now \in Nat /\ t \in Nat /\ now <= t /\ late \in Nat /\ lastRoll_ \in Nat
      /\ startOfPeriod_ = Lf!Period(lastRoll_)
  BY DEF LogFileTypes
<1>2. /\ Lf!Period(now) \in Nat /\ Lf!Period(t) \in Nat /\ Lf!Period(now) <= Lf!Period(t)
      /\ startOfPeriod_ \in Nat
  BY <1>1, Periods
<1>3. Lf!NewLate \in Nat /\ Lf!NewLate <= late + 1
      /\ (Lf!NewLate > 0 => late > 0 \/ Lf!Period(now) # startOfPeriod_)
      /\ (Lf!Period(now) = startOfPeriod_ => Lf!NewLate = late)
  BY <1>1 DEF Lf!NewLate
<1>4. ASSUME ~setBack PROVE /\ lastRoll_ <= now /\ (late > 0 => startOfPeriod_ < Lf!Period(now))
                            /\ startOfPeriod_ <= Lf!Period(now)
  <2>1. lastRoll_ <= now /\ (late > 0 => startOfPeriod_ < Lf!Period(now))
    BY <1>4 DEF ClockInv
  <2> QED BY <1>1, <2>1, Periods
<1>5. ASSUME ~setBack, Lf!NewLate > 0 PROVE startOfPeriod_ < Lf!Period(t)
  BY <1>2, <1>3, <1>4, <1>5
<1>6. ASSUME ~setBack, Lf!Period(now) = startOfPeriod_ PROVE Lf!NewLate = 0
  BY <1>1, <1>2, <1>3, <1>4, <1>6
<1>7. ASSUME ~setBack, t <= lastRoll_ PROVE Lf!Period(now) = startOfPeriod_
  <2>1. lastRoll_ <= now
    BY <1>4, <1>7
  <2>2. now = lastRoll_
    BY <1>1, <1>7, <2>1
  <2> QED BY <1>1, <2>2
<1> QED BY <1>1, <1>3, <1>5, <1>6, <1>7


\* If append looks at the clock and has flushed lately, the lines are still recent.
LEMMA CheckedReady ==
    ASSUME NEW fs, NEW times \in Seq(Nat), NEW cut, NEW roll, NEW flush \in Nat, NEW check,
           NEW back, FilesReady(fs, times, cut, roll, flush, check, back),
           flushInterval_ \in Nat, NEW check2 \in Nat, check2 <= flush + flushInterval_
    PROVE  FilesReady(fs, times, cut, roll, flush, check2, back)
<1>1. FilesHold(fs, Len(times), cut) /\ Len(times) \in Nat
  BY DEF FilesReady
<1>2. Len(fs) \in 1..Len(fs) /\ Len(fs[Len(fs)].lines) \in Nat /\ fs[Len(fs)].flushed \in Nat
  BY <1>1, FilesOf DEF FilesHold
<1>3. \A a \in 1..Len(fs[Len(fs)].lines) : fs[Len(fs)].lines[a] \in 1..Len(times)
  BY <1>1, <1>2 DEF FilesHold, LinesWithin
<1>4. ASSUME ~back, NEW k \in (fs[Len(fs)].flushed + 1)..Len(fs[Len(fs)].lines)
      PROVE  /\ flush <= times[fs[Len(fs)].lines[k]]
             /\ check2 <= times[fs[Len(fs)].lines[k]] + flushInterval_
  <2>1. k \in 1..Len(fs[Len(fs)].lines)
    BY <1>2
  <2>0. \A x \in 1..Len(times) : times[x] \in Nat
    OBVIOUS
  <2>2. times[fs[Len(fs)].lines[k]] \in Nat
    BY <1>3, <2>0, <2>1, Zenon
  <2>3. flush <= times[fs[Len(fs)].lines[k]]
    BY <1>4 DEF FilesReady, UnflushedRecent
  <2>4. \A w \in Nat : flush <= w => check2 <= w + flushInterval_
    OBVIOUS
  <2> QED BY <2>2, <2>3, <2>4, Zenon
<1>5. ~back => UnflushedRecent(fs, times, flush, check2)
  BY <1>4 DEF UnflushedRecent
<1> QED BY <1>5 DEF FilesReady

\* append begins the next file.
LEMMA AppendRolls ==
    ASSUME Lf!SizeAssumption, LogFileInv, NEW fs, NEW gone, AfterAppend(fs, gone),
           NEW t \in {now, now + 1}, t <= MaxNow, t > lastRoll_, Lf!NewLine <= MaxLines,
           lineTime' = NextTimes,
           Lf!NextFile(fs, gone, t),
           lastRoll_' = t, lastFlush_' = t, startOfPeriod_' = Lf!Period(t), now' = t,
           setBack' = setBack, lineCount' \in {0, lineCount}, checkedAt' \in {checkedAt, now}
    PROVE  LogFileInv'
<1>1. /\ FilesReady(fs, lineTime', gone, lastRoll_, lastFlush_, checkedAt, setBack)
      /\ lineTime' \in Seq(Nat) /\ Len(lineTime') = Len(lineTime) + 1
      /\ lineTime'[Len(lineTime')] = now /\ gone \subseteq 1..Len(lineTime')
  BY Zenon DEF AfterAppend
<1>2. /\ now \in 1..MaxNow /\ checkedAt \in 1..MaxNow /\ lineCount \in 0..(checkEveryN_ - 1)
      /\ MaxNow \in Nat /\ checkEveryN_ \in Nat /\ checkEveryN_ > 0
      /\ setBack \in BOOLEAN /\ lastRoll_ \in 1..MaxNow /\ Len(lineTime) \in Nat
      /\ Len(lineTime) + 1 <= MaxLines
  BY DEF LogFileInv, LogFileTypes, Lf!SizeAssumption, Lf!NewLine
<1>3. t \in 1..MaxNow /\ now <= t
  BY <1>2
<1>4. /\ FilesReady(files', lineTime', lost', t, lastFlush_', checkedAt', setBack')
      /\ lost' \subseteq 1..Len(lineTime')
  <2>1. Len(lineTime') \in Nat
    BY <1>1, <1>2
  <2> QED BY <1>1, <1>3, <2>1, NextFileReady, Zenon
<1>5. writtenBytes_' = 0 /\ late' = 0
  BY DEF Lf!NextFile
<1>6. lineCount' \in 0..(checkEveryN_ - 1) /\ checkedAt' \in 1..MaxNow
  BY <1>2
<1>7. LogFileTypes'
  BY <1>1, <1>2, <1>3, <1>4, <1>5, <1>6 DEF LogFileTypes, Lf!Period
<1>8. ~setBack => checkedAt' <= t
  BY <1>2, <1>3 DEF LogFileInv, ClockInv
<1>9. ClockInv'
  <2>1. rollSize_ \in Nat
    BY DEF Lf!SizeAssumption
  <2>2. ~(writtenBytes_' > rollSize_) /\ late' <= lineCount' /\ ~(late' > 0)
    BY <1>5, <1>6, <2>1
  <2>3. lastRoll_' <= now' /\ lastFlush_' <= now' /\ (~setBack' => checkedAt' <= now')
    BY <1>3, <1>8
  <2> QED BY <2>2, <2>3 DEF ClockInv
<1> QED BY <1>4, <1>7, <1>9 DEF LogFileInv

\* append leaves the line in the file.
LEMMA AppendStays ==
    ASSUME Lf!SizeAssumption, LogFileInv, NEW written \in Nat,
           NEW t \in {now, now + 1}, t <= MaxNow,
           lineTime' \in Seq(Nat), Len(lineTime') > 0, Len(lineTime') <= MaxLines,
           lineTime'[Len(lineTime')] = now, lost' \subseteq 1..Len(lineTime'),
           writtenBytes_' = writtenBytes_ + written, late' = Lf!NewLate,
           Lf!TooLong(written) => t <= lastRoll_,
           UNCHANGED <<lastRoll_, startOfPeriod_>>, now' = t, setBack' = setBack,
           lastFlush_' \in {lastFlush_, now}, checkedAt' \in {checkedAt, now},
           lineCount' \in 0..(checkEveryN_ - 1),
           \/ lineCount' = lineCount + 1
           \/ ~setBack => Lf!Period(now) = startOfPeriod_,
           FilesReady(files', lineTime', lost', lastRoll_, lastFlush_', checkedAt', setBack)
    PROVE  LogFileInv'
<1>1. /\ now \in 1..MaxNow /\ checkedAt \in 1..MaxNow /\ lastFlush_ \in 1..MaxNow
      /\ setBack \in BOOLEAN /\ lastRoll_ \in 1..MaxNow /\ writtenBytes_ \in Nat /\ late \in Nat
      /\ startOfPeriod_ = Lf!Period(lastRoll_) /\ lineCount \in Nat
      /\ MaxNow \in Nat /\ rollSize_ \in Nat /\ checkEveryN_ \in Nat
  BY DEF LogFileInv, LogFileTypes, Lf!SizeAssumption
<1>2. /\ now <= t /\ Lf!NewLate \in Nat /\ Lf!NewLate <= late + 1
      /\ ~setBack =>
            /\ Lf!NewLate > 0 => startOfPeriod_ < Lf!Period(t)
            /\ Lf!Period(now) = startOfPeriod_ => Lf!NewLate = 0
  BY LateLines DEF LogFileInv
<1>3. ~setBack => lastRoll_ <= now /\ lastFlush_ <= now /\ checkedAt <= now /\ late <= lineCount
  BY DEF LogFileInv, ClockInv
<1>4. LogFileTypes'
  BY <1>1, <1>2 DEF LogFileTypes, Lf!Period
<1>5. writtenBytes_' > rollSize_ => lineTime'[Len(lineTime')] <= lastRoll_'
  <2>1. writtenBytes_' > rollSize_ => t <= lastRoll_
    BY DEF Lf!TooLong
  <2> QED BY <1>1, <1>2, <2>1
<1>6. ~setBack => lastRoll_' <= now' /\ lastFlush_' <= now' /\ checkedAt' <= now'
  BY <1>1, <1>2, <1>3
<1>7. ~setBack => late' <= lineCount'
  <2>1. CASE lineCount' = lineCount + 1
    BY <1>1, <1>2, <1>3, <2>1
  <2>2. CASE ~setBack => Lf!Period(now) = startOfPeriod_
    BY <1>2, <2>2
  <2> QED BY <2>1, <2>2
<1>8. ~setBack => (late' > 0 => startOfPeriod_' < Lf!Period(t))
  BY <1>2
<1>9. ClockInv'
  <2>1. Lf!Period(now)' = Lf!Period(t)
    BY DEF Lf!Period
  <2>2. setBack' = setBack /\ Len(lineTime') > 0
    OBVIOUS
  <2> QED BY <1>5, <1>6, <1>7, <1>8, <2>1, <2>2 DEF ClockInv
<1>10. FilesReady(files', lineTime', lost', lastRoll_', lastFlush_', checkedAt', setBack')
  OBVIOUS
<1> QED BY <1>4, <1>9, <1>10 DEF LogFileInv

\* append keeps the invariant, whatever becomes of the line.
LEMMA AppendedKeepsLogFile ==
    ASSUME Lf!SizeAssumption, LogFileInv, NEW fs, NEW gone, AfterAppend(fs, gone),
           NEW written \in Nat, NEW t \in {now, now + 1}, t <= MaxNow,
           Lf!NewLine <= MaxLines, lineTime' = NextTimes, now' = t, setBack' = setBack,
           Lf!Appended(fs, gone, written, t)
    PROVE  LogFileInv'
<1>1. Lf!NewLine <= MaxLines /\ lineTime' = NextTimes /\ now' = t /\ setBack' = setBack
  OBVIOUS
<1>2. /\ FilesReady(fs, lineTime', gone, lastRoll_, lastFlush_, checkedAt, setBack)
      /\ lineTime' \in Seq(Nat) /\ Len(lineTime') = Len(lineTime) + 1
      /\ lineTime'[Len(lineTime')] = now /\ gone \subseteq 1..Len(lineTime')
  BY Zenon DEF AfterAppend
<1>3. /\ Len(lineTime) \in Nat /\ lineCount \in 0..(checkEveryN_ - 1) /\ now \in Nat
      /\ lastFlush_ \in Nat /\ flushInterval_ \in Nat /\ checkEveryN_ \in Nat
      /\ checkEveryN_ > 0 /\ lastRoll_ \in Nat /\ written \in Nat
  BY DEF LogFileInv, LogFileTypes, Lf!SizeAssumption
<1>4. Len(lineTime') > 0 /\ Len(lineTime') <= MaxLines /\ Len(lineTime') \in Nat
  BY <1>1, <1>2, <1>3 DEF Lf!NewLine
<1>5. /\ lineCount + 1 >= checkEveryN_ \/ lineCount + 1 \in 0..(checkEveryN_ - 1)
      /\ 0 \in 0..(checkEveryN_ - 1)
  BY <1>3
<1>6. ~setBack /\ t <= lastRoll_ => Lf!Period(now) = startOfPeriod_
  BY LateLines DEF LogFileInv
<1>7. ASSUME t > lastRoll_, Lf!RollFile(fs, gone, written, t), lineCount' \in {0, lineCount},
             checkedAt' \in {checkedAt, now}
      PROVE  LogFileInv'
  <2>1. /\ lastRoll_' = t /\ lastFlush_' = t /\ startOfPeriod_' = Lf!Period(t)
        /\ Lf!NextFile(fs, gone, t)
    BY <1>7 DEF Lf!RollFile
  <2> QED BY <1>1, <1>7, <2>1, AppendRolls
<1>8. ASSUME ~(t > lastRoll_), Lf!RollFile(fs, gone, written, t), lineCount' \in {0, lineCount},
             checkedAt' = checkedAt \/ ~(Lf!Period(now) = startOfPeriod_),
             checkedAt' \in {checkedAt, now}
      PROVE  LogFileInv'
  <2>1. /\ files' = fs /\ lost' = gone /\ writtenBytes_' = writtenBytes_ + written /\ late' = Lf!NewLate
        /\ UNCHANGED <<lastRoll_, lastFlush_, startOfPeriod_>>
    BY <1>8 DEF Lf!RollFile, Lf!Stays
  <2>2. t <= lastRoll_ /\ lineCount' \in 0..(checkEveryN_ - 1)
    BY <1>3, <1>5, <1>8
  <2>3. ~setBack => Lf!Period(now) = startOfPeriod_
    BY <1>6, <2>2
  <2>4. FilesReady(files', lineTime', lost', lastRoll_, lastFlush_', checkedAt', setBack)
    <3>1. CASE checkedAt' = checkedAt
      BY <1>2, <2>1, <3>1
    <3>2. CASE setBack
      BY <1>2, <2>1, <3>2 DEF FilesReady
    <3> QED BY <1>8, <2>3, <3>1, <3>2, Zenon
  <2> QED BY <1>1, <1>2, <1>3, <1>4, <1>8, <2>1, <2>2, <2>3, <2>4, AppendStays
<1>9. CASE /\ Lf!TooLong(written)
           /\ Lf!RollFile(fs, gone, written, t)
           /\ UNCHANGED <<lineCount, checkedAt>>
  BY <1>7, <1>8, <1>9
<1>10. CASE /\ ~Lf!TooLong(written) /\ Lf!Due
            /\ lineCount' = 0 /\ checkedAt' = now
            /\ Lf!CheckTime(fs, gone, written, t)
  <2>1. CASE Lf!Period(now) # startOfPeriod_
    BY <1>7, <1>8, <1>10, <2>1 DEF Lf!CheckTime
  <2>2. CASE Lf!Period(now) = startOfPeriod_ /\ now > lastFlush_ + flushInterval_
    <3>1. /\ Lf!FlushFile(fs, gone) /\ writtenBytes_' = writtenBytes_ + written
          /\ late' = Lf!NewLate /\ lastFlush_' = now /\ UNCHANGED <<lastRoll_, startOfPeriod_>>
      BY <1>10, <2>2 DEF Lf!CheckTime
    <3>2. /\ FilesReady(files', lineTime', lost', lastRoll_, lastFlush_', checkedAt', setBack)
          /\ lost' \subseteq 1..Len(lineTime')
      <4>1. PICK k \in Lf!Reached(fs) : /\ files' = Lf!WrittenOut(fs, k)
                                       /\ lost' = gone \cup Lf!LinesAfter(fs, k)
        BY <3>1 DEF Lf!FlushFile
      <4>2. /\ FilesReady(files', lineTime', lost', lastRoll_, lastFlush_', checkedAt', setBack)
            /\ Lf!LinesAfter(fs, k) \subseteq 1..Len(lineTime')
        BY <1>2, <1>4, <4>1, WrittenOutReady, Zenon
      <4> QED BY <1>2, <4>1, <4>2
    <3> QED BY <1>1, <1>2, <1>3, <1>4, <1>5, <1>10, <2>2, <3>1, <3>2, AppendStays
  <2>3. CASE Lf!Period(now) = startOfPeriod_ /\ ~(now > lastFlush_ + flushInterval_)
    <3>1. /\ files' = fs /\ lost' = gone /\ writtenBytes_' = writtenBytes_ + written
          /\ late' = Lf!NewLate /\ UNCHANGED <<lastRoll_, lastFlush_, startOfPeriod_>>
      BY <1>10, <2>3 DEF Lf!CheckTime, Lf!Stays
    <3>2. FilesReady(files', lineTime', lost', lastRoll_, lastFlush_', checkedAt', setBack)
      <4>1. now <= lastFlush_ + flushInterval_
        BY <1>3, <2>3
      <4>2. FilesReady(fs, lineTime', gone, lastRoll_, lastFlush_, now, setBack)
        BY <1>2, <1>3, <4>1, CheckedReady
      <4> QED BY <1>10, <3>1, <4>2
    <3> QED BY <1>1, <1>2, <1>3, <1>4, <1>5, <1>10, <2>3, <3>1, <3>2, AppendStays
  <2> QED BY <2>1, <2>2, <2>3
<1>11. CASE /\ ~Lf!TooLong(written) /\ ~Lf!Due
            /\ lineCount' = lineCount + 1
            /\ Lf!Stays(fs, gone, written)
            /\ UNCHANGED <<startOfPeriod_, lastRoll_, lastFlush_, checkedAt>>
  <2>1. files' = fs /\ lost' = gone /\ writtenBytes_' = writtenBytes_ + written /\ late' = Lf!NewLate
    BY <1>11 DEF Lf!Stays
  <2>2. lineCount' \in 0..(checkEveryN_ - 1)
    BY <1>5, <1>11 DEF Lf!Due
  <2>3. FilesReady(files', lineTime', lost', lastRoll_, lastFlush_', checkedAt', setBack)
    BY <1>2, <1>11, <2>1
  <2> QED BY <1>1, <1>2, <1>3, <1>4, <1>11, <2>1, <2>2, <2>3, AppendStays
<1> QED BY <1>9, <1>10, <1>11 DEF Lf!Appended

\* append keeps the invariant.
LEMMA AppendKeepsLogFile ==
    ASSUME Lf!SizeAssumption, LogFileInv, NEW len \in Nat, NEW written \in 0..len,
           NEW t \in {now, now + 1}, t <= MaxNow, Lf!AppendLine(len, written, t)
    PROVE  LogFileInv'
<1>1. /\ lineTime' = NextTimes /\ Lf!NewLine <= MaxLines /\ now' = t /\ setBack' = setBack
      /\ written \in Nat
  BY DEF Lf!AppendLine, NextTimes
<1>2. ASSUME NEW k \in {Lf!File.flushed, Len(Lf!File.lines), Len(Lf!File.lines) + 1},
             Lf!Appended(Lf!WithLine(k), lost, written, t)
      PROVE  LogFileInv'
  <2>1. AfterAppend(Lf!WithLine(k), lost)
    BY <1>2, LineReady, Zenon
  <2> QED BY <1>1, <1>2, <2>1, AppendedKeepsLogFile, Zenon
<1>3. ASSUME NEW k \in Lf!Reached(files),
             Lf!Appended(Lf!WrittenOut(files, k),
                         lost \cup Lf!LinesAfter(files, k) \cup {Lf!NewLine}, written, t)
      PROVE  LogFileInv'
  <2>1. AfterAppend(Lf!WrittenOut(files, k),
                    lost \cup Lf!LinesAfter(files, k) \cup {Lf!NewLine})
    BY <1>3, NoLineReady, Zenon
  <2> QED BY <1>1, <1>3, <2>1, AppendedKeepsLogFile, Zenon
<1> QED BY <1>2, <1>3, Zenon DEF Lf!AppendLine

\* The constructor establishes the invariant of LogFile.
LEMMA LogFileStarts ==
    ASSUME Lf!SizeAssumption, Lf!Init
    PROVE  LogFileInv
<1>1. /\ now \in 1..MaxNow /\ now \in Nat /\ lineCount = 0 /\ startOfPeriod_ = Lf!Period(now)
      /\ lastRoll_ = now /\ lastFlush_ = now /\ files = <<Lf!NewFile(now)>>
      /\ writtenBytes_ = 0 /\ lineTime = <<>> /\ lost = {} /\ late = 0
      /\ checkedAt = now /\ setBack = FALSE
      /\ rollSize_ \in Nat /\ checkEveryN_ \in Nat /\ checkEveryN_ > 0 /\ MaxLines \in Nat
  BY DEF Lf!Init, Lf!SizeAssumption
<1>2. LogFileTypes
  <2>1. lineTime \in Seq(Nat) /\ Len(lineTime) = 0 /\ lost \subseteq 1..0
    BY <1>1
  <2>2. 0 \in 0..(checkEveryN_ - 1)
    BY <1>1
  <2>3. startOfPeriod_ = Lf!Period(lastRoll_)
    BY <1>1, Zenon
  <2>4. Len(lineTime) <= MaxLines /\ lost \subseteq 1..Len(lineTime)
    BY <1>1, <2>1
  <2>5. /\ lastRoll_ \in 1..MaxNow /\ lastFlush_ \in 1..MaxNow /\ checkedAt \in 1..MaxNow
        /\ lineCount \in 0..(checkEveryN_ - 1) /\ writtenBytes_ \in Nat /\ late \in Nat
        /\ setBack \in BOOLEAN
    BY <1>1, <2>2
  <2> QED BY <1>1, <2>1, <2>3, <2>4, <2>5, Zenon DEF LogFileTypes
<1>3. ClockInv
  BY <1>1 DEF ClockInv
<1>4. /\ Lf!NewFile(now) \in LogFiles /\ Lf!NewFile(now).name = now
      /\ Lf!NewFile(now).flushed = 0 /\ Lf!NewFile(now).lines = <<>>
  BY <1>1 DEF Lf!NewFile, LogFiles
<1> DEFINE f == Lf!NewFile(now)
<1> HIDE DEF f
<1>5. /\ f \in LogFiles /\ f.name = now /\ f.flushed = 0 /\ Len(f.lines) = 0
      /\ files = <<f>>
  BY <1>1, <1>4 DEF f
<1>6. files \in Seq(LogFiles) /\ Len(files) = 1 /\ files[1] = f
  BY <1>5
<1>7. FilesHold(files, 0, {})
  <2>1. \A k \in 1..1 : k = 1
    OBVIOUS
  <2>2. FlushedUp(files)
    BY <1>5, <1>6 DEF FlushedUp
  <2>3. NamesAscend(files)
    BY <1>6 DEF NamesAscend
  <2>4. LinesAscend(files)
    BY <1>5, <1>6 DEF LinesAscend
  <2>5. LinesWithin(files, (1..0) \ {}) /\ LinesThere(files, (1..0) \ {})
    BY <1>5, <1>6 DEF LinesWithin, LinesThere
  <2> QED BY <1>6, <2>2, <2>3, <2>4, <2>5 DEF FilesHold
<1>8. UnflushedRecent(files, lineTime, lastFlush_, checkedAt)
  BY <1>5, <1>6 DEF UnflushedRecent
<1>9. FilesReady(files, lineTime, lost, lastRoll_, lastFlush_, checkedAt, setBack)
  BY <1>1, <1>5, <1>6, <1>7, <1>8 DEF FilesReady
<1> QED BY <1>2, <1>3, <1>9 DEF LogFileInv

\* Every step keeps the invariant of LogFile.
LEMMA LogFileStep ==
    ASSUME Lf!SizeAssumption, LogFileInv, [Lf!Next]_(Lf!vars)
    PROVE  LogFileInv'
<1>1. ASSUME NEW len \in Lengths, NEW written \in 0..len, NEW t \in {now, now + 1},
             t <= MaxNow, Lf!AppendLine(len, written, t)
      PROVE  LogFileInv'
  <2>1. len \in Nat
    BY DEF Lf!SizeAssumption
  <2> QED BY <1>1, <2>1, AppendKeepsLogFile
<1>2. CASE Lf!Flush
  <2>1. PICK k \in Lf!Reached(files) : /\ files' = Lf!WrittenOut(files, k)
                                      /\ lost' = lost \cup Lf!LinesAfter(files, k)
    BY <1>2 DEF Lf!Flush, Lf!FlushFile
  <2>2. UNCHANGED <<now, lineCount, startOfPeriod_, lastRoll_, lastFlush_, writtenBytes_,
                    lineTime, late, checkedAt, setBack>>
    BY <1>2 DEF Lf!Flush
  <2>3. Len(lineTime) \in Nat /\ lost \subseteq 1..Len(lineTime)
    BY DEF LogFileInv, LogFileTypes
  <2>4. /\ FilesReady(files', lineTime, lost', lastRoll_, lastFlush_, checkedAt, setBack)
        /\ Lf!LinesAfter(files, k) \subseteq 1..Len(lineTime)
    BY <2>1, <2>3, WrittenOutReady, Zenon DEF LogFileInv
  <2>5. LogFileTypes'
    BY <2>1, <2>2, <2>3, <2>4 DEF LogFileInv, LogFileTypes, Lf!Period
  <2>6. ClockInv'
    BY <2>2 DEF LogFileInv, ClockInv, Lf!Period
  <2> QED BY <2>2, <2>4, <2>5, <2>6 DEF LogFileInv
<1>3. ASSUME NEW t \in {now, now + 1}, t <= MaxNow, Lf!UserRolls(t)
      PROVE  LogFileInv'
  <2>1. /\ t > lastRoll_ /\ Lf!NextFile(files, lost, t)
        /\ lastRoll_' = t /\ lastFlush_' = t /\ startOfPeriod_' = Lf!Period(t)
        /\ writtenBytes_' = 0 /\ late' = 0 /\ now' = t
        /\ UNCHANGED <<lineCount, lineTime, checkedAt, setBack>>
    BY <1>3 DEF Lf!UserRolls, Lf!RollFile, Lf!NextFile
  <2>2. /\ now \in 1..MaxNow /\ t \in 1..MaxNow /\ now <= t /\ checkedAt \in Nat
        /\ Len(lineTime) \in Nat /\ lineCount \in Nat /\ rollSize_ \in Nat
        /\ lost \subseteq 1..Len(lineTime)
    BY <1>3 DEF LogFileInv, LogFileTypes, Lf!SizeAssumption
  <2>3. /\ FilesReady(files', lineTime, lost', t, lastFlush_', checkedAt, setBack)
        /\ lost' \subseteq 1..Len(lineTime)
    BY <2>1, <2>2, NextFileReady, Zenon DEF LogFileInv
  <2>4. LogFileTypes'
    BY <2>1, <2>2, <2>3 DEF LogFileInv, LogFileTypes, Lf!Period
  <2>5. ~setBack => checkedAt <= t
    BY <2>2 DEF LogFileInv, ClockInv
  <2>6. ClockInv'
    BY <2>1, <2>2, <2>5 DEF ClockInv
  <2> QED BY <2>1, <2>3, <2>4, <2>6 DEF LogFileInv
<1>4. ASSUME NEW t \in 1..MaxNow, Lf!Tick(t)
      PROVE  LogFileInv'
  <2>1. /\ t = now + 1 \/ t < now
        /\ now' = t /\ setBack' = (setBack \/ t < now)
        /\ UNCHANGED <<lineCount, startOfPeriod_, lastRoll_, lastFlush_, files, writtenBytes_,
                       lineTime, lost, late, checkedAt>>
    BY <1>4 DEF Lf!Tick
  <2>2. setBack \in BOOLEAN /\ setBack' \in BOOLEAN /\ (~setBack' => ~setBack /\ ~(t < now))
    BY <2>1 DEF LogFileInv, LogFileTypes
  <2>3. LogFileTypes'
    BY <2>1, <2>2 DEF LogFileInv, LogFileTypes, Lf!Period
  <2>4. FilesReady(files, lineTime, lost, lastRoll_, lastFlush_, checkedAt, setBack')
    BY <2>2 DEF LogFileInv, FilesReady
  <2>5. ASSUME ~setBack'
        PROVE  /\ lastRoll_ <= t /\ lastFlush_ <= t /\ checkedAt <= t /\ late <= lineCount
               /\ late > 0 => startOfPeriod_ < Lf!Period(t)
    <3>1. /\ now \in Nat /\ t \in Nat /\ now <= t /\ lastRoll_ \in Nat /\ lastFlush_ \in Nat
          /\ checkedAt \in Nat /\ late \in Nat /\ startOfPeriod_ = Lf!Period(lastRoll_)
      BY <2>1, <2>2, <2>5 DEF LogFileInv, LogFileTypes
    <3>2. /\ lastRoll_ <= now /\ lastFlush_ <= now /\ checkedAt <= now /\ late <= lineCount
          /\ late > 0 => startOfPeriod_ < Lf!Period(now)
      BY <2>2, <2>5 DEF LogFileInv, ClockInv
    <3>3. /\ Lf!Period(now) \in Nat /\ Lf!Period(t) \in Nat /\ Lf!Period(now) <= Lf!Period(t)
          /\ startOfPeriod_ \in Nat
      BY <3>1, Periods
    <3> QED BY <3>1, <3>2, <3>3
  <2>6. writtenBytes_ > rollSize_ => Len(lineTime) > 0 /\ lineTime[Len(lineTime)] <= lastRoll_
    BY DEF LogFileInv, ClockInv
  <2>7. ClockInv'
    <3>1. Lf!Period(now)' = Lf!Period(t)
      BY <2>1 DEF Lf!Period
    <3> QED BY <2>1, <2>5, <2>6, <3>1 DEF ClockInv
  <2> QED BY <2>1, <2>3, <2>4, <2>7 DEF LogFileInv
<1>5. CASE UNCHANGED Lf!vars
  BY <1>5 DEF Lf!vars, LogFileInv, LogFileTypes, ClockInv, Lf!Period
<1> QED BY <1>1, <1>2, <1>3, <1>4, <1>5 DEF Lf!Next

\* The properties follow from the invariant.
LEMMA LogFileHolds ==
    ASSUME Lf!SizeAssumption, LogFileInv
    PROVE  /\ Lf!LinesInOrder /\ Lf!TooLongOnlyBriefly /\ Lf!PeriodKept
           /\ Lf!FlushedInTime /\ Lf!ClosedIsFlushed
<1>1. /\ FilesHold(files, Len(lineTime), lost)
      /\ ~setBack => UnflushedRecent(files, lineTime, lastFlush_, checkedAt)
  BY DEF LogFileInv, FilesReady
<1>2. UNION {Lf!LinesOf(files[k]) : k \in 1..Len(files)} = (1..Len(lineTime)) \ lost
  <2>1. \A k \in 1..Len(files) : \A i :
            i \in Lf!LinesOf(files[k]) <=> \E a \in 1..Len(files[k].lines) : files[k].lines[a] = i
    BY DEF Lf!LinesOf
  <2>2. ASSUME NEW i, i \in UNION {Lf!LinesOf(files[k]) : k \in 1..Len(files)}
        PROVE  i \in (1..Len(lineTime)) \ lost
    <3>1. PICK k \in 1..Len(files) : i \in Lf!LinesOf(files[k])
      BY <2>2, Zenon
    <3>2. PICK a \in 1..Len(files[k].lines) : files[k].lines[a] = i
      BY <2>1, <3>1, Zenon
    <3>3. LinesWithin(files, (1..Len(lineTime)) \ lost)
      BY <1>1, Zenon DEF FilesHold
    <3>4. files[k].lines[a] \in (1..Len(lineTime)) \ lost
      BY <3>3, Zenon DEF LinesWithin
    <3> QED BY <3>2, <3>4, Zenon
  <2>3. ASSUME NEW i \in (1..Len(lineTime)) \ lost
        PROVE  i \in UNION {Lf!LinesOf(files[k]) : k \in 1..Len(files)}
    <3>1. PICK k \in 1..Len(files) : i \in Lf!LinesOf(files[k])
      BY <1>1, <2>1, Zenon DEF FilesHold, LinesThere
    <3> QED BY <3>1, Zenon
  <2> QED BY <2>2, <2>3, Zenon
<1>3. Lf!LinesInOrder
  BY <1>1, <1>2 DEF FilesHold, NamesAscend, LinesAscend, Lf!LinesInOrder
<1>4. Lf!ClosedIsFlushed
  BY <1>1 DEF FilesHold, FlushedUp, Lf!ClosedIsFlushed
<1>5. Lf!FlushedInTime
  BY <1>1 DEF UnflushedRecent, Lf!FlushedInTime, Lf!File
<1>6. Lf!TooLongOnlyBriefly
  BY DEF LogFileInv, LogFileTypes, ClockInv, Lf!TooLongOnlyBriefly
<1>7. Lf!PeriodKept
  BY DEF LogFileInv, LogFileTypes, ClockInv, Lf!PeriodKept, Lf!SizeAssumption
<1> QED BY <1>3, <1>4, <1>5, <1>6, <1>7

\* Types follow from the invariant: a line that is in a file is one of those appended.
LEMMA LogFileTypesHold ==
    ASSUME Lf!SizeAssumption, LogFileInv
    PROVE  Lf!TypeOK
<1>1. /\ now \in 1..MaxNow /\ lastRoll_ \in 1..MaxNow /\ lastFlush_ \in 1..MaxNow
      /\ lineCount \in 0..(checkEveryN_ - 1) /\ writtenBytes_ \in Nat
      /\ startOfPeriod_ = Lf!Period(lastRoll_)
      /\ Len(lineTime) \in Nat /\ Len(lineTime) <= MaxLines /\ MaxNow \in Nat /\ MaxLines \in Nat
  BY DEF LogFileInv, LogFileTypes, Lf!SizeAssumption
<1>2. startOfPeriod_ \in 0..MaxNow
  <2>1. PICK p : p = Lf!Period(lastRoll_)
    OBVIOUS
  <2>2. p \in Nat /\ p <= lastRoll_ /\ lastRoll_ \in Nat
    BY <1>1, <2>1, Periods
  <2>3. p \in 0..MaxNow
    BY <1>1, <2>2
  <2> QED BY <1>1, <2>1, <2>3, Zenon
<1>3. /\ files \in Seq(LogFiles) /\ FlushedUp(files)
      /\ LinesWithin(files, (1..Len(lineTime)) \ lost)
      /\ \A k \in 1..Len(files) : files[k].name \in 1..MaxNow
  BY Zenon DEF LogFileInv, FilesReady, FilesHold
<1>4. ASSUME NEW k \in 1..Len(files)
      PROVE  files[k].lines \in Seq(1..MaxLines) /\ files[k].flushed <= Len(files[k].lines)
  <2>1. files[k].flushed <= Len(files[k].lines)
    BY <1>3, Zenon DEF FlushedUp
  <2>2. files[k] \in LogFiles
    BY <1>3
  <2>3. PICK q : q = files[k].lines
    OBVIOUS
  <2>4. q \in Seq(Nat)
    BY <2>2, <2>3 DEF LogFiles
  <2>5. \A a \in 1..Len(q) : q[a] \in (1..Len(lineTime)) \ lost
    BY <1>3, <2>3, Zenon DEF LinesWithin
  <2>6. \A a \in 1..Len(q) : q[a] \in 1..MaxLines
    BY <1>1, <2>5
  <2>7. q \in Seq(1..MaxLines)
    <3>1. Len(q) \in Nat /\ q \in [1..Len(q) -> Nat]
      BY <2>4
    <3>2. q \in [1..Len(q) -> 1..MaxLines]
      BY <2>6, <3>1
    <3>3. PICK n \in Nat : n = Len(q)
      BY <3>1, Zenon
    <3>4. q \in UNION {[1..i -> 1..MaxLines] : i \in Nat}
      BY <3>2, <3>3, Zenon
    <3> QED BY <3>4, SeqDef, Zenon
  <2> QED BY <2>1, <2>3, <2>7, Zenon
<1> QED BY <1>1, <1>2, <1>3, <1>4, Zenon DEF Lf!TypeOK

\* LogFile never leaves its invariant.
LEMMA LogFileInvariant ==
    ASSUME Lf!SizeAssumption
    PROVE  Lf!Spec => []LogFileInv
<1>1. Lf!Init => LogFileInv
  BY LogFileStarts
<1>2. LogFileInv /\ [Lf!Next]_(Lf!vars) => LogFileInv'
  BY LogFileStep
<1> QED BY <1>1, <1>2, PTL DEF Lf!Spec

\* Sorted by name the log files give the lines in the order of their logging, each line once and
\* none missing but those that a failed fwrite, fflush or fclose lost, also when the clock is set back
\* (LogFile::append, rollFile).
THEOREM LogFileLinesInOrder ==
    ASSUME Lf!SizeAssumption
    PROVE  Lf!Spec => []Lf!LinesInOrder
<1>1. LogFileInv => Lf!LinesInOrder
  BY LogFileHolds
<1> QED BY <1>1, LogFileInvariant, PTL

\* A log file is rolled when it is too long or its period is over, and flushed in time, as far
\* as append looks at the clock; a closed file has nothing unwritten (append_unlocked, rollFile).
THEOREM LogFileRollsAndFlushes ==
    ASSUME Lf!SizeAssumption
    PROVE  Lf!Spec => [](/\ Lf!TooLongOnlyBriefly /\ Lf!PeriodKept
                         /\ Lf!FlushedInTime /\ Lf!ClosedIsFlushed)
<1>1. LogFileInv => /\ Lf!TooLongOnlyBriefly /\ Lf!PeriodKept
                    /\ Lf!FlushedInTime /\ Lf!ClosedIsFlushed
  BY LogFileHolds
<1> QED BY <1>1, LogFileInvariant, PTL

-----------------------------------------------------------------------------
(***************************************************************************)
(* TimeZoneFile.                                                           *)
(***************************************************************************)

\* What Base calls them.
isTZif == v1
timecnt == v2
indexes == v3
typecnt == v4
available == v5
pos == v6
trans == v7
locals == v8
type == v9
data == v10
caught == v11

USE DEF isTZif, timecnt, indexes, typecnt, available, pos, trans, locals, type, data, caught

\* How many of the n items that begin behind the item first have been read, of p items in all.
Reached(p, first, n) == IF p <= first THEN 0 ELSE IF p - first <= n THEN p - first ELSE n

LocalTimes == [gmtOffset : Nat, isDst : BOOLEAN, arrbIdx : Nat]

\* What the file means by its k-th time, if it has a local time with its index.
Means(t, idx, m, k) ==
    /\ t.gmttime = k /\ t.localtimeIdx = idx[k]
    /\ idx[k] < m => t.localtime = k + Tf!Offset(idx[k])

\* What the file says, and how far it has been read: no further than its head or its counts
\* if it is of another kind or timecnt is negative.
FileSays(tz, cnt, n, idx, m, has, p) ==
    /\ cnt \in Int /\ (~tz => p = 0) /\ (cnt < 0 => p <= 9)
    /\ n = IF cnt > 0 THEN cnt ELSE 0
    /\ n \in Nat /\ m \in Nat /\ idx \in [1..n -> Nat]
    /\ has \in Nat /\ has <= 10 + 2 * n + 3 * m /\ p \in Nat /\ p <= has

\* The items that have been read so far are in their vectors, and in no other one.
TimesRead(q, n, p) ==
    /\ q \in Seq(Nat) /\ Len(q) = Reached(p, 9, n)
    /\ \A k \in 1..Len(q) : q[k] = k
IndexesRead(q, idx, n, p) ==
    /\ q \in Seq(Nat) /\ Len(q) = Reached(p, 9 + n, n)
    /\ \A k \in 1..Len(q) : q[k] = idx[k]
TypesRead(half, q, n, m, p) ==
    /\ half \in Seq(Nat) /\ q \in Seq(LocalTimes)
    /\ 3 * Len(q) + Len(half) = Reached(p, 9 + 2 * n, 3 * m) /\ Len(half) < 3
    /\ \A k \in 1..Len(q) : q[k] = Tf!LocalTime(k - 1)

\* The transitions are made of complete vectors, and the abbreviation comes last.
MadeWhole(q, abbreviation, n, idx, m, p) ==
    /\ \/ q = <<>>
       \/ /\ p >= 9 + 2 * n + 3 * m /\ Len(q) = n
          /\ q = [k \in 1..n |-> q[k]]
          /\ \A k \in 1..n : Means(q[k], idx, m, k)
    /\ abbreviation => Len(q) = n /\ p = 10 + 2 * n + 3 * m

IsData(d) ==
    d = [localtimes |-> d.localtimes, transitions |-> d.transitions,
         abbreviation |-> d.abbreviation]

ZoneFileInv ==
    /\ FileSays(isTZif, timecnt, Tf!Times, indexes, typecnt, available, pos) /\ IsData(data)
    /\ TimesRead(trans, Tf!Times, pos) /\ IndexesRead(locals, indexes, Tf!Times, pos)
    /\ TypesRead(type, data.localtimes, Tf!Times, typecnt, pos)
    /\ MadeWhole(data.transitions, data.abbreviation, Tf!Times, indexes, typecnt, pos)

\* A step that leaves the file as it is.
SameFile ==
    /\ isTZif' = isTZif /\ timecnt' = timecnt /\ Tf!Times' = Tf!Times /\ indexes' = indexes
    /\ typecnt' = typecnt /\ available' = available
\* UNCHANGED says so.
LEMMA FileStays == UNCHANGED Tf!file => SameFile
BY DEF Tf!file, Tf!Times, SameFile

\* One item more.
LEMMA ReachedSteps ==
    ASSUME NEW p \in Nat, NEW first \in Nat, NEW n \in Nat
    PROVE  /\ Reached(p, first, n) \in Nat /\ Reached(p, first, n) <= n
           /\ p < first \/ p >= first + n => Reached(p + 1, first, n) = Reached(p, first, n)
           /\ p >= first /\ p < first + n => /\ Reached(p + 1, first, n) = Reached(p, first, n) + 1
                                             /\ Reached(p, first, n) < n
           /\ p >= first + n => Reached(p, first, n) = n
BY DEF Reached

\* A longer sequence.
LEMMA OneMore ==
    ASSUME NEW S, NEW s \in Seq(S), NEW e \in S
    PROVE  /\ Append(s, e) \in Seq(S) /\ Len(s) \in Nat /\ Len(Append(s, e)) = Len(s) + 1
           /\ \A k \in 1..Len(s) : Append(s, e)[k] = s[k]
           /\ Append(s, e)[Len(s) + 1] = e
           /\ \A k \in 1..Len(Append(s, e)) : k \in 1..Len(s) \/ k = Len(s) + 1
<1>1. /\ Append(s, e) \in Seq(S)
      /\ Len(Append(s, e)) = Len(s) + 1
      /\ \A i \in 1..Len(s) : Append(s, e)[i] = s[i]
      /\ Append(s, e)[Len(s) + 1] = e
  BY AppendProperties
<1>2. Len(s) \in Nat
  OBVIOUS
<1> QED BY <1>1, <1>2, UpToNext, Zenon

\* One transition time more, or an item that is none.
LEMMA ZoneTimesGrow ==
    ASSUME NEW n \in Nat, NEW p \in Nat, NEW q, TimesRead(q, n, p)
    PROVE  /\ p < 9 \/ p >= 9 + n => TimesRead(q, n, p + 1)
           /\ p >= 9 /\ p < 9 + n => TimesRead(Append(q, Len(q) + 1), n, p + 1)
<1>1. q \in Seq(Nat) /\ Len(q) + 1 \in Nat /\ \A k \in 1..Len(q) : q[k] = k
  BY DEF TimesRead
<1>2. p < 9 \/ p >= 9 + n => TimesRead(q, n, p + 1)
  BY ReachedSteps DEF TimesRead
<1>3. ASSUME p >= 9, p < 9 + n PROVE TimesRead(Append(q, Len(q) + 1), n, p + 1)
  <2>1. Reached(p + 1, 9, n) = Len(q) + 1
    BY <1>3, ReachedSteps DEF TimesRead
  <2>2. PICK e \in Nat : e = Len(q) + 1
    BY <1>1, Zenon
  <2>3. Append(q, e) \in Seq(Nat) /\ Len(Append(q, e)) = Len(q) + 1
    BY <1>1, OneMore, Zenon
  <2>4. ASSUME NEW k \in 1..Len(Append(q, e)) PROVE Append(q, e)[k] = k
    <3>1. /\ \A i \in 1..Len(q) : Append(q, e)[i] = q[i]
          /\ Append(q, e)[Len(q) + 1] = e
          /\ \A i \in 1..Len(Append(q, e)) : i \in 1..Len(q) \/ i = Len(q) + 1
      BY <1>1, OneMore, Zenon
    <3>2. CASE k \in 1..Len(q)
      BY <1>1, <3>1, <3>2, Zenon
    <3>3. CASE k = Len(q) + 1
      BY <3>1, <2>2, <3>3, Zenon
    <3> QED BY <2>4, <3>1, <3>2, <3>3, Zenon
  <2> QED BY <2>1, <2>2, <2>3, <2>4, Zenon DEF TimesRead
<1> QED BY <1>2, <1>3

\* One index of a local time more, or an item that is none.
LEMMA IndexesGrow ==
    ASSUME NEW n \in Nat, NEW p \in Nat, NEW idx \in [1..n -> Nat],
           NEW q, IndexesRead(q, idx, n, p)
    PROVE  /\ p < 9 + n \/ p >= 9 + 2 * n => IndexesRead(q, idx, n, p + 1)
           /\ p >= 9 + n /\ p < 9 + 2 * n =>
                  IndexesRead(Append(q, idx[Len(q) + 1]), idx, n, p + 1)
<1>0. q \in Seq(Nat)
  BY DEF IndexesRead
<1>1. q \in Seq(Nat) /\ Len(q) \in Nat /\ Len(q) = Reached(p, 9 + n, n) /\ 9 + n \in Nat
      /\ 9 + n + n = 9 + 2 * n /\ \A k \in 1..Len(q) : q[k] = idx[k]
  BY DEF IndexesRead
<1>2. p < 9 + n \/ p >= 9 + 2 * n => IndexesRead(q, idx, n, p + 1)
  BY <1>1, ReachedSteps DEF IndexesRead
<1>3. ASSUME p >= 9 + n, p < 9 + 2 * n
      PROVE  IndexesRead(Append(q, idx[Len(q) + 1]), idx, n, p + 1)
  <2>1. Reached(p + 1, 9 + n, n) = Len(q) + 1 /\ Reached(p, 9 + n, n) < n
    BY <1>1, <1>3, ReachedSteps
  <2>2. Len(q) + 1 \in 1..n
    BY <1>1, <2>1
  <2>3. idx[Len(q) + 1] \in Nat
    BY <2>2
  <2>4. PICK e \in Nat : e = idx[Len(q) + 1]
    BY <2>3, Zenon
  <2>5. Append(q, e) \in Seq(Nat) /\ Len(Append(q, e)) = Len(q) + 1
    BY <1>0, OneMore
  <2>6. ASSUME NEW k \in 1..Len(Append(q, e)) PROVE Append(q, e)[k] = idx[k]
    <3>1. /\ Append(q, e) \in Seq(Nat)
          /\ \A i \in 1..Len(q) : Append(q, e)[i] = q[i]
          /\ Append(q, e)[Len(q) + 1] = e
          /\ \A i \in 1..Len(Append(q, e)) : i \in 1..Len(q) \/ i = Len(q) + 1
      BY <1>0, OneMore
    <3>2. CASE k \in 1..Len(q)
      BY <1>1, <3>1, <3>2, Zenon
    <3>3. CASE k = Len(q) + 1
      BY <3>1, <2>4, <3>3, Zenon
    <3> QED BY <2>6, <3>1, <3>2, <3>3, Zenon
  <2> QED BY <2>1, <2>4, <2>5, <2>6, Zenon DEF IndexesRead
<1> QED BY <1>2, <1>3

\* One item of a local time more: its third one completes it.
LEMMA TypesGrow ==
    ASSUME NEW n \in Nat, NEW p \in Nat, NEW m \in Nat, NEW half, NEW q,
           TypesRead(half, q, n, m, p)
    PROVE  /\ p < 9 + 2 * n \/ p >= 9 + 2 * n + 3 * m => TypesRead(half, q, n, m, p + 1)
           /\ p >= 9 + 2 * n /\ p < 9 + 2 * n + 3 * m /\ Len(half) < 2 =>
                  TypesRead(Append(half, p), q, n, m, p + 1)
           /\ p >= 9 + 2 * n /\ p < 9 + 2 * n + 3 * m /\ ~(Len(half) < 2) =>
                  TypesRead(<<>>, Append(q, Tf!LocalTime(Len(q))), n, m, p + 1)
<1>0. q \in Seq(LocalTimes)
  BY DEF TypesRead
<1>1. /\ half \in Seq(Nat) /\ q \in Seq(LocalTimes) /\ Len(q) \in Nat /\ Len(half) \in Nat
      /\ 3 * Len(q) + Len(half) = Reached(p, 9 + 2 * n, 3 * m) /\ Len(half) < 3
      /\ \A k \in 1..Len(q) : q[k] = Tf!LocalTime(k - 1)
  BY DEF TypesRead
<1>2. 9 + 2 * n \in Nat /\ 3 * m \in Nat
  OBVIOUS
<1>3. p < 9 + 2 * n \/ p >= 9 + 2 * n + 3 * m => TypesRead(half, q, n, m, p + 1)
  <2>1. p < 9 + 2 * n \/ p >= 9 + 2 * n + 3 * m =>
            Reached(p + 1, 9 + 2 * n, 3 * m) = Reached(p, 9 + 2 * n, 3 * m)
    BY <1>2, ReachedSteps
  <2> QED BY <1>1, <2>1, Zenon DEF TypesRead
<1>4. ASSUME p >= 9 + 2 * n, p < 9 + 2 * n + 3 * m
      PROVE  Reached(p + 1, 9 + 2 * n, 3 * m) = 3 * Len(q) + Len(half) + 1
  BY <1>1, <1>2, <1>4, ReachedSteps
<1>5. ASSUME p >= 9 + 2 * n, p < 9 + 2 * n + 3 * m, Len(half) < 2
      PROVE  TypesRead(Append(half, p), q, n, m, p + 1)
  <2>1. Append(half, p) \in Seq(Nat) /\ Len(Append(half, p)) = Len(half) + 1
    BY <1>1, OneMore
  <2>2. 3 * Len(q) + (Len(half) + 1) = Reached(p + 1, 9 + 2 * n, 3 * m) /\ Len(half) + 1 < 3
    BY <1>1, <1>4, <1>5
  <2> QED BY <1>1, <2>1, <2>2, Zenon DEF TypesRead
<1>6. ASSUME p >= 9 + 2 * n, p < 9 + 2 * n + 3 * m, ~(Len(half) < 2)
      PROVE  TypesRead(<<>>, Append(q, Tf!LocalTime(Len(q))), n, m, p + 1)
  <2>1. Tf!LocalTime(Len(q)) \in LocalTimes
    BY <1>1 DEF Tf!LocalTime, Tf!Offset, LocalTimes
  <2>2. PICK e \in LocalTimes : e = Tf!LocalTime(Len(q))
    BY <2>1, Zenon
  <2>3. <<>> \in Seq(Nat) /\ Len(<<>>) = 0 /\ 0 < 3 /\ Len(q) + 1 - 1 = Len(q)
    BY <1>1
  <2>4. 3 * (Len(q) + 1) + 0 = Reached(p + 1, 9 + 2 * n, 3 * m)
    BY <1>1, <1>4, <1>6
  <2>5. Append(q, e) \in Seq(LocalTimes) /\ Len(Append(q, e)) = Len(q) + 1
    BY <1>1, OneMore, Zenon
  <2>6. ASSUME NEW k \in 1..Len(Append(q, e)) PROVE Append(q, e)[k] = Tf!LocalTime(k - 1)
    <3>1. /\ Append(q, e) \in Seq(LocalTimes)
          /\ \A i \in 1..Len(q) : Append(q, e)[i] = q[i]
          /\ Append(q, e)[Len(q) + 1] = e
          /\ \A i \in 1..Len(Append(q, e)) : i \in 1..Len(q) \/ i = Len(q) + 1
      BY <1>0, OneMore
    <3>2. CASE k \in 1..Len(q)
      BY <1>1, <3>1, <3>2, Zenon
    <3>3. CASE k = Len(q) + 1
      <4>1. k - 1 = Len(q)
        BY <1>1, <3>3
      <4>2. Append(q, e)[k] = e
        BY <3>1, <3>3, Zenon
      <4> QED BY <2>2, <4>1, <4>2, Zenon
    <3> QED BY <2>6, <3>1, <3>2, <3>3, Zenon
  <2> QED BY <2>2, <2>3, <2>4, <2>5, <2>6, Zenon DEF TypesRead
<1> QED BY <1>3, <1>5, <1>6

\* The local times after the last item of them.
LEMMA TypesThere ==
    ASSUME NEW n \in Nat, NEW m \in Nat, NEW p \in Nat, p >= 9 + 2 * n + 3 * m,
           NEW half, NEW ls, TypesRead(half, ls, n, m, p)
    PROVE  Len(ls) = m
<1>1. 9 + 2 * n \in Nat /\ 3 * m \in Nat /\ p >= 9 + 2 * n + 3 * m
  OBVIOUS
<1>2. Reached(p, 9 + 2 * n, 3 * m) = 3 * m
  BY <1>1, ReachedSteps
<1>3. 3 * Len(ls) + Len(half) = 3 * m /\ Len(half) < 3 /\ Len(half) \in Nat /\ Len(ls) \in Nat
  BY <1>2 DEF TypesRead
<1> QED BY <1>3

\* The vectors after the last item of each.
LEMMA AllThere ==
    ASSUME NEW n \in Nat, NEW m \in Nat, NEW p \in Nat, p >= 9 + 2 * n + 3 * m,
           NEW idx, NEW half, NEW ts, NEW is, NEW ls,
           TimesRead(ts, n, p), IndexesRead(is, idx, n, p), TypesRead(half, ls, n, m, p)
    PROVE  /\ Len(ts) = n /\ Len(is) = n /\ Len(ls) = m
           /\ \A i \in 0..(m - 1) : ls[i + 1] = Tf!LocalTime(i)
<1>1. Len(ts) = n
  BY ReachedSteps DEF TimesRead
<1>2. Len(is) = n
  <2>1. 9 + n \in Nat /\ p >= 9 + n + n
    OBVIOUS
  <2> QED BY <2>1, ReachedSteps DEF IndexesRead
<1>3. Len(ls) = m
  BY TypesThere
<1>4. ASSUME NEW i \in 0..(m - 1) PROVE ls[i + 1] = Tf!LocalTime(i)
  <2>1. i + 1 \in 1..Len(ls) /\ i + 1 - 1 = i
    BY <1>3
  <2>2. \A k \in 1..Len(ls) : ls[k] = Tf!LocalTime(k - 1)
    BY Zenon DEF TypesRead
  <2> QED BY <2>1, <2>2
<1> QED BY <1>1, <1>2, <1>3, <1>4

\* The transitions and the abbreviation, while items are read.
LEMMA WholeStays ==
    ASSUME NEW n \in Nat, NEW m \in Nat, NEW p \in Nat, p < 10 + 2 * n + 3 * m, NEW idx, NEW q,
           NEW ab, MadeWhole(q, ab, n, idx, m, p)
    PROVE  ~ab /\ MadeWhole(q, ab, n, idx, m, p + 1)
<1>1. ~ab
  BY DEF MadeWhole
<1>2. p >= 9 + 2 * n + 3 * m => p + 1 >= 9 + 2 * n + 3 * m
  OBVIOUS
<1> QED BY <1>1, <1>2, Zenon DEF MadeWhole

\* Nothing has been read of a file before it is opened.
LEMMA ZoneFileBegins == ASSUME Tf!CountAssumption, Tf!Init PROVE ZoneFileInv
<1>1. /\ timecnt \in -1..MaxCount /\ typecnt \in 0..MaxCount /\ MaxCount \in Nat
      /\ indexes \in [1..Tf!Times -> 0..MaxCount]
      /\ available \in 0..Tf!Complete
      /\ pos = 0 /\ trans = <<>> /\ locals = <<>> /\ type = <<>>
      /\ data = [localtimes |-> <<>>, transitions |-> <<>>, abbreviation |-> FALSE]
  BY DEF Tf!CountAssumption, Tf!Init
<1>2. FileSays(isTZif, timecnt, Tf!Times, indexes, typecnt, available, pos)
  <2>1. timecnt \in Int /\ typecnt \in Nat /\ Tf!Times = IF timecnt > 0 THEN timecnt ELSE 0
    BY <1>1 DEF Tf!Times
  <2>2. Tf!Times \in Nat
    BY <2>1
  <2>3. indexes \in [1..Tf!Times -> Nat]
    <3>1. \A i \in 1..Tf!Times : indexes[i] \in Nat
      BY <1>1
    <3> QED BY <1>1, <3>1
  <2>4. 0 <= available /\ available \in Nat /\ available <= 10 + 2 * Tf!Times + 3 * typecnt
    BY <1>1, <2>1, <2>2 DEF Tf!Complete, Tf!Header
  <2> QED BY <1>1, <2>1, <2>2, <2>3, <2>4 DEF FileSays
<1>3. /\ data.localtimes = <<>> /\ data.transitions = <<>> /\ data.abbreviation = FALSE
      /\ IsData(data)
  BY <1>1 DEF IsData
<1>4. <<>> \in Seq(Nat) /\ <<>> \in Seq(LocalTimes) /\ Len(<<>>) = 0
  OBVIOUS
<1>5. TimesRead(<<>>, Tf!Times, 0)
  BY <1>4 DEF TimesRead, Reached
<1>6. IndexesRead(<<>>, indexes, Tf!Times, 0)
  BY <1>2, <1>4 DEF FileSays, IndexesRead, Reached
<1>7. TypesRead(<<>>, <<>>, Tf!Times, typecnt, 0)
  BY <1>2, <1>4 DEF FileSays, TypesRead, Reached
<1>8. MadeWhole(<<>>, FALSE, Tf!Times, indexes, typecnt, 0)
  BY DEF MadeWhole
<1> QED BY <1>1, <1>2, <1>3, <1>5, <1>6, <1>7, <1>8, Zenon DEF ZoneFileInv

\* Every item that is read, and every end of the reading, keeps the order.
LEMMA ZoneFileStep == ASSUME ZoneFileInv, [Tf!Next]_(Tf!vars) PROVE ZoneFileInv'
<1>1. /\ Tf!Times \in Nat /\ typecnt \in Nat /\ available \in Nat /\ pos \in Nat
      /\ timecnt \in Int /\ (~isTZif => pos = 0) /\ (timecnt < 0 => pos <= 9)
      /\ indexes \in [1..Tf!Times -> Nat]
      /\ pos <= available /\ available <= 10 + 2 * Tf!Times + 3 * typecnt
      /\ Tf!Complete = 10 + 2 * Tf!Times + 3 * typecnt /\ Tf!Header = 9
  BY DEF ZoneFileInv, FileSays, Tf!Complete, Tf!Header
<1>2. /\ IsData(data)
      /\ TimesRead(trans, Tf!Times, pos) /\ IndexesRead(locals, indexes, Tf!Times, pos)
      /\ TypesRead(type, data.localtimes, Tf!Times, typecnt, pos)
      /\ MadeWhole(data.transitions, data.abbreviation, Tf!Times, indexes, typecnt, pos)
  BY Zenon DEF ZoneFileInv, SameFile
\* the next item, whichever it is
<1>3. ASSUME pos < available, pos' = pos + 1,
             SameFile, pos = 0 => isTZif, pos >= 9 => timecnt >= 0
      PROVE  FileSays(isTZif, timecnt, Tf!Times, indexes, typecnt, available, pos)'
  BY <1>1, <1>3 DEF ZoneFileInv, FileSays, SameFile
<1>4. ASSUME pos < available
      PROVE  MadeWhole(data.transitions, data.abbreviation, Tf!Times, indexes, typecnt, pos + 1)
  BY <1>1, <1>2, <1>4, WholeStays
<1>5. CASE Tf!ReadHeader
  <2>1. /\ pos < 9 /\ pos < available /\ pos' = pos + 1
        /\ SameFile /\ (pos = 0 => isTZif) /\ (pos >= 9 => timecnt >= 0)
        /\ trans' = trans /\ locals' = locals /\ type' = type /\ data' = data
    BY <1>1, <1>5, FileStays DEF Tf!ReadHeader, Tf!Read
  <2>2. pos < 9 + Tf!Times /\ pos < 9 + 2 * Tf!Times
    BY <1>1, <2>1
  <2>3. /\ TimesRead(trans, Tf!Times, pos + 1) /\ IndexesRead(locals, indexes, Tf!Times, pos + 1)
        /\ TypesRead(type, data.localtimes, Tf!Times, typecnt, pos + 1)
    BY <1>1, <1>2, <2>1, <2>2, ZoneTimesGrow, IndexesGrow, TypesGrow, Zenon
  <2> QED BY <1>2, <1>3, <1>4, <2>1, <2>3, Zenon DEF ZoneFileInv, SameFile
<1>6. CASE Tf!ReadTime
  <2>1. /\ pos >= 9 /\ pos < 9 + Tf!Times /\ pos < available /\ pos' = pos + 1
        /\ SameFile /\ (pos = 0 => isTZif) /\ (pos >= 9 => timecnt >= 0)
        /\ trans' = Append(trans, Len(trans) + 1)
        /\ locals' = locals /\ type' = type /\ data' = data
    BY <1>1, <1>6, FileStays DEF Tf!ReadTime, Tf!Read
  <2>2. pos < 9 + 2 * Tf!Times
    BY <1>1, <2>1
  <2>3. TimesRead(Append(trans, Len(trans) + 1), Tf!Times, pos + 1)
    BY <1>1, <1>2, <2>1, ZoneTimesGrow, Zenon
  <2>4. /\ IndexesRead(locals, indexes, Tf!Times, pos + 1)
        /\ TypesRead(type, data.localtimes, Tf!Times, typecnt, pos + 1)
    BY <1>1, <1>2, <2>1, <2>2, IndexesGrow, TypesGrow, Zenon
  <2> QED BY <1>2, <1>3, <1>4, <2>1, <2>3, <2>4, Zenon DEF ZoneFileInv, SameFile
<1>7. CASE Tf!ReadIndex
  <2>1. /\ pos >= 9 + Tf!Times /\ pos < 9 + 2 * Tf!Times /\ pos < available /\ pos' = pos + 1
        /\ SameFile /\ (pos = 0 => isTZif) /\ (pos >= 9 => timecnt >= 0)
        /\ locals' = Append(locals, indexes[Len(locals) + 1])
        /\ trans' = trans /\ type' = type /\ data' = data
    BY <1>1, <1>7, FileStays DEF Tf!ReadIndex, Tf!Read
  <2>2. IndexesRead(Append(locals, indexes[Len(locals) + 1]), indexes, Tf!Times, pos + 1)
    BY <1>1, <1>2, <2>1, IndexesGrow, Zenon
  <2>3. /\ TimesRead(trans, Tf!Times, pos + 1)
        /\ TypesRead(type, data.localtimes, Tf!Times, typecnt, pos + 1)
    BY <1>1, <1>2, <2>1, ZoneTimesGrow, TypesGrow, Zenon
  <2> QED BY <1>2, <1>3, <1>4, <2>1, <2>2, <2>3, Zenon DEF ZoneFileInv, SameFile
<1>8. CASE Tf!ReadType
  <2>1. /\ pos >= 9 + 2 * Tf!Times /\ pos < 9 + 2 * Tf!Times + 3 * typecnt
        /\ pos < available /\ pos' = pos + 1
        /\ SameFile /\ (pos = 0 => isTZif) /\ (pos >= 9 => timecnt >= 0)
        /\ trans' = trans /\ locals' = locals
    BY <1>1, <1>8, FileStays DEF Tf!ReadType, Tf!Read
  <2>2. pos >= 9 + Tf!Times
    BY <1>1, <2>1
  <2>3. TimesRead(trans, Tf!Times, pos + 1) /\ IndexesRead(locals, indexes, Tf!Times, pos + 1)
    BY <1>1, <1>2, <2>1, <2>2, ZoneTimesGrow, IndexesGrow, Zenon
  <2>4. CASE Len(type) < 2
    <3>1. type' = Append(type, pos) /\ data' = data
      BY <1>8, <2>4, Zenon DEF Tf!ReadType
    <3>2. TypesRead(Append(type, pos), data.localtimes, Tf!Times, typecnt, pos + 1)
      BY <1>1, <1>2, <2>1, <2>4, TypesGrow, Zenon
    <3> QED BY <1>2, <1>3, <1>4, <2>1, <2>3, <3>1, <3>2, Zenon DEF ZoneFileInv, SameFile
  <2>5. CASE ~(Len(type) < 2)
    <3>1. PICK more : more = Append(data.localtimes, Tf!LocalTime(Len(data.localtimes)))
      OBVIOUS
    <3>2. type' = <<>> /\ data' = [data EXCEPT !.localtimes = more]
      BY <1>8, <2>5, <3>1, Zenon DEF Tf!ReadType
    <3>3. /\ IsData(data') /\ data'.localtimes = more /\ data'.transitions = data.transitions
          /\ data'.abbreviation = data.abbreviation
      BY <1>2, <3>2 DEF IsData
    <3>4. TypesRead(<<>>, more, Tf!Times, typecnt, pos + 1)
      BY <1>1, <1>2, <2>1, <2>5, <3>1, TypesGrow, Zenon
    <3> QED BY <1>3, <1>4, <2>1, <2>3, <3>2, <3>3, <3>4, Zenon DEF ZoneFileInv, SameFile
  <2> QED BY <2>4, <2>5
<1>9. CASE Tf!MakeTransitions
  <2>1. PICK behind \in [1..Tf!Times -> Garbage] :
            data' = [data EXCEPT !.transitions =
                        [k \in 1..Tf!Times |->
                            [gmttime |-> trans[k],
                             localtime |-> trans[k] + (IF locals[k] < Len(data.localtimes)
                                                       THEN data.localtimes[locals[k] + 1].gmtOffset
                                                       ELSE behind[k]),
                             localtimeIdx |-> locals[k]]]]
    BY <1>9, Zenon DEF Tf!MakeTransitions
  <2>0. PICK made : made =
            [k \in 1..Tf!Times |->
                [gmttime |-> trans[k],
                 localtime |-> trans[k] + (IF locals[k] < Len(data.localtimes)
                                           THEN data.localtimes[locals[k] + 1].gmtOffset
                                           ELSE behind[k]),
                 localtimeIdx |-> locals[k]]]
    OBVIOUS
  <2>2. /\ data' = [data EXCEPT !.transitions = made] /\ pos' = pos
        /\ SameFile /\ trans' = trans /\ locals' = locals /\ type' = type
    <3>1. data' = [data EXCEPT !.transitions = made]
      BY <2>0, <2>1, Zenon
    <3>2. /\ pos' = pos /\ UNCHANGED Tf!file
          /\ trans' = trans /\ locals' = locals /\ type' = type
      BY <1>9, Zenon DEF Tf!MakeTransitions
    <3> QED BY <3>1, <3>2, FileStays, Zenon
  <2>3. pos = 9 + 2 * Tf!Times + 3 * typecnt
    BY <1>1, <1>9 DEF Tf!MakeTransitions
  <2>4. /\ Len(trans) = Tf!Times /\ Len(locals) = Tf!Times /\ Len(data.localtimes) = typecnt
        /\ \A i \in 0..(typecnt - 1) : data.localtimes[i + 1] = Tf!LocalTime(i)
    BY <1>1, <1>2, <2>3, AllThere
  <2>5. ASSUME NEW k \in 1..Tf!Times PROVE Means(made[k], indexes, typecnt, k)
    <3>1. trans[k] = k /\ locals[k] = indexes[k]
      BY <1>2, <2>4, Zenon DEF TimesRead, IndexesRead
    <3>2. indexes[k] \in Nat
      BY <1>1
    <3>3. /\ made[k].gmttime = k /\ made[k].localtimeIdx = indexes[k]
          /\ made[k].localtime = k + (IF indexes[k] < typecnt
                                      THEN data.localtimes[indexes[k] + 1].gmtOffset
                                      ELSE behind[k])
      BY <2>0, <2>4, <3>1
    <3>4. ASSUME indexes[k] < typecnt
          PROVE  made[k].localtime = k + Tf!Offset(indexes[k])
      <4>1. indexes[k] \in 0..(typecnt - 1)
        BY <1>1, <3>2, <3>4
      <4>2. data.localtimes[indexes[k] + 1] = Tf!LocalTime(indexes[k])
        BY <2>4, <4>1, Zenon
      <4>3. data.localtimes[indexes[k] + 1].gmtOffset = Tf!Offset(indexes[k])
        BY <4>2 DEF Tf!LocalTime
      <4>4. made[k].localtime = k + data.localtimes[indexes[k] + 1].gmtOffset
        BY <3>3, <3>4
      <4> QED BY <4>3, <4>4
    <3> QED BY <3>3, <3>4, Zenon DEF Means
  <2>6. Len(made) = Tf!Times /\ made = [k \in 1..Tf!Times |-> made[k]]
    BY <1>1, <2>0
  <2>7. /\ IsData(data') /\ data'.localtimes = data.localtimes /\ data'.transitions = made
        /\ data'.abbreviation = data.abbreviation
    BY <1>2, <2>2 DEF IsData
  <2>8. ~data.abbreviation
    <3>1. pos < 10 + 2 * Tf!Times + 3 * typecnt
      BY <1>1, <2>3
    <3> QED BY <1>1, <1>2, <3>1, WholeStays
  <2>9. MadeWhole(made, data.abbreviation, Tf!Times, indexes, typecnt, pos)
    <3>1. pos >= 9 + 2 * Tf!Times + 3 * typecnt
      BY <1>1, <2>3
    <3> QED BY <2>5, <2>6, <2>8, <3>1, Zenon DEF MadeWhole
  <2>10. FileSays(isTZif, timecnt, Tf!Times, indexes, typecnt, available, pos)
    BY Zenon DEF ZoneFileInv, SameFile
  <2> QED BY <1>2, <2>2, <2>7, <2>9, <2>10, Zenon DEF ZoneFileInv, SameFile
<1>10. CASE Tf!ReadAbbreviation
  <2>1. /\ pos < available /\ pos' = pos + 1
        /\ Len(data.transitions) = Tf!Times
        /\ SameFile /\ trans' = trans /\ locals' = locals /\ type' = type
        /\ data' = [data EXCEPT !.abbreviation = TRUE]
        /\ (pos >= Tf!Header => timecnt >= 0)
    BY <1>10, FileStays, Zenon DEF Tf!ReadAbbreviation, Tf!Read
  <2>2. pos = 9 + 2 * Tf!Times + 3 * typecnt
    <3>1. pos \in (Tf!Complete - 1)..(Tf!Complete - 1)
      BY <1>10, Zenon DEF Tf!ReadAbbreviation, Tf!Read
    <3> QED BY <1>1, <3>1
  <2>3. pos >= 9 + Tf!Times /\ pos >= 9 + 2 * Tf!Times /\ pos >= 9 + 2 * Tf!Times + 3 * typecnt
        /\ pos + 1 >= 9 + 2 * Tf!Times + 3 * typecnt /\ pos + 1 = 10 + 2 * Tf!Times + 3 * typecnt
        /\ (pos = 0 => isTZif) /\ (pos >= 9 => timecnt >= 0)
    <3>1. /\ pos >= 9 + Tf!Times /\ pos >= 9 + 2 * Tf!Times
          /\ pos >= 9 + 2 * Tf!Times + 3 * typecnt
          /\ pos + 1 >= 9 + 2 * Tf!Times + 3 * typecnt
          /\ pos + 1 = 10 + 2 * Tf!Times + 3 * typecnt /\ pos >= 9
      BY <1>1, <2>2
    <3>2. pos # 0
      BY <1>1, <3>1
    <3>3. pos >= Tf!Header => timecnt >= 0
      BY <2>1, Zenon
    <3>4. pos >= 9 => timecnt >= 0
      BY <1>1, <3>3
    <3> QED BY <3>1, <3>2, <3>4, Zenon
  <2>4. /\ IsData(data') /\ data'.localtimes = data.localtimes
        /\ data'.transitions = data.transitions /\ data'.abbreviation = TRUE
    BY <1>2, <2>1 DEF IsData
  <2>5. /\ TimesRead(trans, Tf!Times, pos + 1) /\ IndexesRead(locals, indexes, Tf!Times, pos + 1)
        /\ TypesRead(type, data.localtimes, Tf!Times, typecnt, pos + 1)
    BY <1>1, <1>2, <2>3, ZoneTimesGrow, IndexesGrow, TypesGrow, Zenon
  <2>6. MadeWhole(data.transitions, TRUE, Tf!Times, indexes, typecnt, pos + 1)
    BY <1>2, <2>1, <2>3, Zenon DEF MadeWhole
  <2> QED BY <1>3, <2>1, <2>3, <2>4, <2>5, <2>6, Zenon DEF ZoneFileInv, SameFile
<1>11. ASSUME /\ SameFile /\ trans' = trans /\ locals' = locals /\ type' = type
              /\ data' = data /\ pos' = pos
       PROVE  ZoneFileInv'
  BY <1>11, Zenon DEF ZoneFileInv, SameFile
<1>12. CASE Tf!LogicError
  BY <1>11, <1>12, FileStays DEF Tf!LogicError
<1>13. CASE UNCHANGED Tf!vars
  BY <1>11, <1>13 DEF Tf!vars, SameFile, Tf!Times
<1> QED BY <1>5, <1>6, <1>7, <1>8, <1>9, <1>10, <1>12, <1>13, Zenon DEF Tf!Next

\* Whatever the file of a time zone says and wherever it is cut short, no half read local time
\* gets into Data, and the transitions are there all or not at all, with the local times of the
\* file before them and their own offsets unless the file's index is too large; a file of another
\* kind leaves nothing (readTimeZoneFile).
THEOREM ZoneFileNothingHalfRead == Tf!CountAssumption /\ Tf!Spec => []Tf!NothingHalfRead
<1>1. ASSUME ZoneFileInv PROVE Tf!NothingHalfRead
  <2>1. /\ Tf!Times \in Nat /\ typecnt \in Nat /\ pos \in Nat /\ pos <= available
        /\ timecnt \in Int /\ (~isTZif => pos = 0) /\ (timecnt < 0 => pos <= 9)
        /\ Tf!Times = (IF timecnt > 0 THEN timecnt ELSE 0)
        /\ Tf!Complete = 10 + 2 * Tf!Times + 3 * typecnt
    BY <1>1 DEF ZoneFileInv, FileSays, Tf!Complete, Tf!Header
  <2>2. /\ TimesRead(trans, Tf!Times, pos) /\ IndexesRead(locals, indexes, Tf!Times, pos)
        /\ TypesRead(type, data.localtimes, Tf!Times, typecnt, pos)
        /\ MadeWhole(data.transitions, data.abbreviation, Tf!Times, indexes, typecnt, pos)
    BY <1>1, Zenon DEF ZoneFileInv
  <2>3. data.localtimes = [k \in 1..Len(data.localtimes) |-> Tf!LocalTime(k - 1)]
    <3>1. PICK q : q = data.localtimes
      OBVIOUS
    <3>2. q \in Seq(LocalTimes) /\ \A k \in 1..Len(q) : q[k] = Tf!LocalTime(k - 1)
      BY <2>2, <3>1, Zenon DEF TypesRead
    <3>3. q = [k \in 1..Len(q) |-> q[k]]
      BY <3>2
    <3> QED BY <3>1, <3>2, <3>3, Zenon
  <2>4. ASSUME data.transitions # <<>>
        PROVE  /\ Len(data.transitions) = Tf!Times /\ Len(data.localtimes) = typecnt
               /\ \A k \in 1..Tf!Times : Means(data.transitions[k], indexes, typecnt, k)
    <3>1. /\ pos >= 9 + 2 * Tf!Times + 3 * typecnt /\ Len(data.transitions) = Tf!Times
          /\ \A k \in 1..Tf!Times : Means(data.transitions[k], indexes, typecnt, k)
      BY <2>2, <2>4, Zenon DEF MadeWhole
    <3>2. Len(data.localtimes) = typecnt
      BY <2>1, <2>2, <3>1, TypesThere, Zenon
    <3> QED BY <3>1, <3>2
  <2>5. data.abbreviation => Len(data.transitions) = Tf!Times /\ pos = Tf!Complete
    BY <2>1, <2>2 DEF MadeWhole
  <2>6. ASSUME ~isTZif \/ timecnt < 0
        PROVE  data.localtimes = <<>> /\ data.transitions = <<>> /\ ~data.abbreviation
    <3>1. pos <= 9 /\ pos <= 9 + 2 * Tf!Times /\ pos # 10 + 2 * Tf!Times + 3 * typecnt
      BY <2>1, <2>6
    <3>2. data.localtimes = <<>>
      <4>1. PICK q : q = data.localtimes
        OBVIOUS
      <4>2. /\ q \in Seq(LocalTimes) /\ Len(type) \in Nat
            /\ 3 * Len(q) + Len(type) = Reached(pos, 9 + 2 * Tf!Times, 3 * typecnt)
        BY <2>2, <4>1 DEF TypesRead
      <4>3. Reached(pos, 9 + 2 * Tf!Times, 3 * typecnt) = 0
        BY <3>1 DEF Reached
      <4>4. Len(q) = 0
        BY <4>2, <4>3
      <4> QED BY <4>1, <4>2, <4>4
    <3>3. ~data.abbreviation
      BY <2>2, <3>1, Zenon DEF MadeWhole
    <3>4. data.transitions = <<>>
      <4>1. CASE ~(pos >= 9 + 2 * Tf!Times + 3 * typecnt)
        BY <2>2, <4>1, Zenon DEF MadeWhole
      <4>2. CASE pos >= 9 + 2 * Tf!Times + 3 * typecnt
        <5>1. Tf!Times = 0
          BY <2>1, <3>1, <4>2
        <5> QED BY <2>2, <5>1 DEF MadeWhole
      <4> QED BY <4>1, <4>2
    <3> QED BY <3>2, <3>3, <3>4
  <2> QED BY <2>1, <2>3, <2>4, <2>5, <2>6, Zenon DEF Tf!NothingHalfRead, Means
<1>2. Tf!CountAssumption /\ Tf!Init => ZoneFileInv
  BY ZoneFileBegins
<1>3. ZoneFileInv /\ [Tf!Next]_(Tf!vars) => ZoneFileInv'
  BY ZoneFileStep
<1>4. ZoneFileInv => Tf!NothingHalfRead
  BY <1>1
<1> QED BY <1>2, <1>3, <1>4, PTL DEF Tf!Spec

-----------------------------------------------------------------------------
(***************************************************************************)
(* InetAddress.                                                            *)
(***************************************************************************)

\* What Base calls it.
asked == v1

USE DEF asked

\* The bytes of a port, the most significant one first, mean the port.
LEMMA PortBytes ==
    ASSUME Ia!AddressAssumption, NEW p \in Ia!Ports
    PROVE  /\ Ia!FromMemory(Ia!networkToHost16(Ia!hostToNetwork16(Ia!InMemory(p)))) = p
           /\ Ia!hostToNetwork16(Ia!InMemory(p))[1] * PortRadix
                  + Ia!hostToNetwork16(Ia!InMemory(p))[2] = p
<1>1. PortRadix \in Nat /\ PortRadix > 0 /\ p \in Int
  BY DEF Ia!AddressAssumption, Ia!Ports
<1>2. PICK q \in Int, r \in Int : q = p \div PortRadix /\ r = p % PortRadix
  BY <1>1
<1>3. p = PortRadix * q + r
  BY <1>1, <1>2
<1>4. q * PortRadix + r = p /\ r + PortRadix * q = p
  BY <1>1, <1>3
<1>5. Ia!InMemory(p) = <<r, q>> /\ Ia!hostToNetwork16(Ia!InMemory(p)) = <<q, r>>
  BY <1>2 DEF Ia!InMemory, Ia!hostToNetwork16
<1> QED BY <1>4, <1>5 DEF Ia!FromMemory, Ia!networkToHost16

\* An address that a constructor makes is of one of two families and has the bytes of the port.
LEMMA AddressMade ==
    ASSUME Ia!AddressAssumption, NEW a \in Ia!Arguments
    PROVE  LET addr == Ia!InetAddress(a)
           IN  /\ addr.family = IF a.ipv6 \/ a.text.colon THEN "AF_INET6" ELSE "AF_INET"
               /\ addr.port = Ia!hostToNetwork16(Ia!InMemory(a.port))
               /\ addr.ip = IF a.text.notation = addr.family THEN a.text.ip ELSE Ia!Any
               /\ Ia!Port(addr) = a.port /\ addr.port[1] * PortRadix + addr.port[2] = a.port
<1>1. a.port \in Ia!Ports
  BY DEF Ia!Arguments
<1> QED BY <1>1, PortBytes DEF Ia!InetAddress, Ia!fromIpPort, Ia!Port

\* What was given to InetAddress comes back from it, and from the network.
LEMMA AddressesKept ==
    ASSUME Ia!AddressAssumption, asked \in Ia!Arguments \X Ia!Arguments
    PROVE  Ia!AddressKept
<1> DEFINE a == asked[1]
           addr == Ia!InetAddress(a)
<1>1. /\ a \in Ia!Arguments /\ a.text \in Ia!IpTexts /\ a.port \in Ia!Ports /\ a.ipv6 \in BOOLEAN
      /\ a.text.colon \in BOOLEAN
      /\ a = [text |-> a.text, port |-> a.port, ipv6 |-> a.ipv6]
  <2>1. a \in Ia!Arguments
    OBVIOUS
  <2>2. PICK b : b = a
    OBVIOUS
  <2>3. /\ b.text \in Ia!IpTexts /\ b.port \in Ia!Ports /\ b.ipv6 \in BOOLEAN
        /\ b = [text |-> b.text, port |-> b.port, ipv6 |-> b.ipv6]
    BY <2>1, <2>2 DEF Ia!Arguments
  <2>4. b.text.colon \in BOOLEAN
    <3>1. ASSUME NEW t \in Ia!IpTexts PROVE t.colon \in BOOLEAN
      <4>1. \/ \E i \in Ips : t = [notation |-> "AF_INET", ip |-> i, colon |-> FALSE]
            \/ \E i \in Ips : t = [notation |-> "AF_INET6", ip |-> i, colon |-> TRUE]
            \/ \E c \in BOOLEAN : t = [notation |-> "none", ip |-> Ia!Any, colon |-> c]
        BY Zenon DEF Ia!IpTexts
      <4>2. ASSUME NEW i, NEW n, NEW c \in BOOLEAN, t = [notation |-> n, ip |-> i, colon |-> c]
            PROVE  t.colon \in BOOLEAN
        BY <4>2
      <4>3. FALSE \in BOOLEAN /\ TRUE \in BOOLEAN
        OBVIOUS
      <4> QED BY <4>1, <4>2, <4>3, Zenon
    <3> QED BY <2>3, <3>1, Zenon
  <2> QED BY <2>1, <2>2, <2>3, <2>4, Zenon
<1>2. /\ addr.family = IF a.ipv6 \/ a.text.colon THEN "AF_INET6" ELSE "AF_INET"
      /\ addr.port = Ia!hostToNetwork16(Ia!InMemory(a.port))
      /\ addr.ip = IF a.text.notation = addr.family THEN a.text.ip ELSE Ia!Any
      /\ Ia!Port(addr) = a.port /\ addr.port[1] * PortRadix + addr.port[2] = a.port
  BY <1>1, AddressMade
<1> HIDE DEF addr, a
<1>3. addr.family = "AF_INET" <=> ~a.ipv6 /\ ~a.text.colon
  BY <1>2
<1>4. Ia!toIp(addr) = <<addr.family, IF a.text.notation = addr.family THEN a.text.ip ELSE Ia!Any>>
  BY <1>2 DEF Ia!toIp
<1>5. \A found \in BOOLEAN, ip \in Ips : Ia!Port(Ia!resolve(addr, found, ip)) = a.port
  BY <1>2 DEF Ia!resolve, Ia!Port
<1>6. ASSUME NEW loopbackOnly \in BOOLEAN
      PROVE  Ia!toIpPort(Ia!InetAddressOfPort(a.port, loopbackOnly, a.ipv6)) =
                Ia!toIpPort(Ia!InetAddress([a EXCEPT
                    !.text = [notation |-> IF a.ipv6 THEN "AF_INET6" ELSE "AF_INET",
                              ip |-> IF loopbackOnly THEN Ia!Loopback ELSE Ia!Any,
                              colon |-> a.ipv6]]))
  BY <1>1 DEF Ia!InetAddressOfPort, Ia!InetAddress, Ia!fromIpPort
<1> QED BY <1>2, <1>3, <1>4, <1>5, <1>6, Zenon DEF Ia!AddressKept, addr, a

\* The text of an endpoint means the endpoint.
LEMMA TextsIdentify ==
    ASSUME Ia!AddressAssumption, asked \in Ia!Arguments \X Ia!Arguments
    PROVE  Ia!TextIdentifies
<1>1. PICK a, b : a = asked[1] /\ b = asked[2]
  OBVIOUS
<1>2. a \in Ia!Arguments /\ b \in Ia!Arguments
  BY <1>1
<1>3. PICK local, peer : local = Ia!InetAddress(a) /\ peer = Ia!InetAddress(b)
  OBVIOUS
<1>4. /\ local.port = Ia!hostToNetwork16(Ia!InMemory(a.port)) /\ Ia!Port(local) = a.port
      /\ peer.port = Ia!hostToNetwork16(Ia!InMemory(b.port)) /\ Ia!Port(peer) = b.port
      /\ local.family \in {"AF_INET", "AF_INET6"}
  BY <1>2, <1>3, AddressMade
<1>5. Ia!Port(local) = Ia!Port(peer) <=> local.port = peer.port
  BY <1>4 DEF Ia!Port
<1>6. ASSUME local.family = peer.family
      PROVE  Ia!toIpPort(local) = Ia!toIpPort(peer) <=> Ia!isSelfConnect(local, peer)
  BY <1>4, <1>5, <1>6 DEF Ia!toIpPort, Ia!toIp, Ia!isSelfConnect
<1> QED BY <1>1, <1>3, <1>6 DEF Ia!TextIdentifies

\* Addresses and ports come back from an InetAddress in the order of the network and as text,
\* and the text tells an endpoint from all others of its family (InetAddress, SocketsOps), for
\* any addresses and any size of a byte.
THEOREM AddressesIdentified ==
    Ia!AddressAssumption /\ Ia!Spec => [](Ia!AddressKept /\ Ia!TextIdentifies)
<1> DEFINE Inv == Ia!AddressAssumption /\ asked \in Ia!Arguments \X Ia!Arguments
<1>1. Ia!AddressAssumption /\ Ia!Init => Inv
  BY DEF Ia!Init
<1>2. Inv /\ [Ia!Next]_v1 => Inv'
  BY DEF Ia!Next, Ia!AddressAssumption, Ia!Arguments, Ia!IpTexts, Ia!Ports
<1>3. Inv => Ia!AddressKept /\ Ia!TextIdentifies
  BY AddressesKept, TextsIdentify
<1> HIDE DEF Inv
<1> QED BY <1>1, <1>2, <1>3, PTL DEF Ia!Spec

-----------------------------------------------------------------------------
(***************************************************************************)
(* StringPiece.                                                            *)
(***************************************************************************)

\* What Base calls them; text is the variable that is called wholeText here.
wholeText == v1
ptr_ == v2
length_ == v3
other == v4

USE DEF wholeText, ptr_, length_, other

Strings == Seq(Nat)

\* A character of a string.
LEMMA Character == ASSUME NEW s \in Strings, NEW k \in 1..Len(s) PROVE s[k] \in Nat
BY DEF Strings

\* x and y begin alike, with n characters.
Alike(x, y, n) == \A k \in 1..n : x[k] = y[k]

\* The character that memcmp finds first.
Differs(x, y, k) == x[k] # y[k] /\ Alike(x, y, k - 1)

\* memcmp compares the first characters that differ.
LEMMA MemcmpFinds ==
    ASSUME NEW x, NEW y, NEW n \in Nat
    PROVE  \/ Alike(x, y, n) /\ Sp!memcmp(x, y, n) = 0
           \/ \E k \in 1..n : Differs(x, y, k) /\ Sp!memcmp(x, y, n) = x[k] - y[k]
<1>1. PICK D : D = {k \in 1..n : x[k] # y[k]}
  OBVIOUS
<1>2. Sp!memcmp(x, y, n) = IF D = {} THEN 0 ELSE x[Sp!Min(D)] - y[Sp!Min(D)]
  BY <1>1, Zenon DEF Sp!memcmp
<1>3. CASE D = {}
  BY <1>1, <1>2, <1>3, Zenon DEF Alike
<1>4. CASE D # {}
  <2>1. D \subseteq Nat
    BY <1>1
  <2>2. \E k \in D : \A j \in D : k <= j
    BY <1>4, <2>1, Least, Zenon
  <2>3. Sp!Min(D) \in D /\ \A j \in D : Sp!Min(D) <= j
    BY <2>2, Zenon DEF Sp!Min
  <2>4. PICK k : k = Sp!Min(D)
    OBVIOUS
  <2>5. k \in 1..n /\ x[k] # y[k] /\ \A j \in 1..n : x[j] # y[j] => k <= j
    BY <1>1, <2>3, <2>4, Zenon
  <2>6. Alike(x, y, k - 1)
    BY <2>5 DEF Alike
  <2>7. Sp!memcmp(x, y, n) = x[k] - y[k]
    BY <1>2, <1>4, <2>4, Zenon
  <2> QED BY <2>5, <2>6, <2>7, Zenon DEF Differs
<1> QED BY <1>3, <1>4

\* Beginnings of strings are equal if they are alike.
LEMMA AlikeBeginnings ==
    ASSUME NEW x \in Strings, NEW y \in Strings, NEW n \in Nat, n <= Len(x), n <= Len(y)
    PROVE  SubSeq(x, 1, n) = SubSeq(y, 1, n) <=> Alike(x, y, n)
<1>1. /\ SubSeq(x, 1, n) = [k \in 1..n |-> x[k]] /\ SubSeq(y, 1, n) = [k \in 1..n |-> y[k]]
  BY DEF Strings
<1>2. ASSUME NEW a, NEW b, a = [k \in 1..n |-> x[k]], b = [k \in 1..n |-> y[k]]
      PROVE  a = b <=> Alike(x, y, n)
  <2>1. ASSUME a = b, NEW k \in 1..n PROVE x[k] = y[k]
    <3>1. a[k] = x[k] /\ b[k] = y[k]
      BY <1>2, Zenon
    <3> QED BY <2>1, <3>1, Zenon
  <2>2. ASSUME Alike(x, y, n) PROVE a = b
    BY <1>2, <2>2, Zenon DEF Alike
  <2> QED BY <2>1, <2>2, Zenon DEF Alike
<1> QED BY <1>1, <1>2, Zenon

\* Strings that are alike in all their characters are equal.
LEMMA AlikeStrings ==
    ASSUME NEW x \in Strings, NEW y \in Strings, Len(x) = Len(y), Alike(x, y, Len(x))
    PROVE  x = y
<1>1. x = [k \in 1..Len(x) |-> x[k]] /\ y = [k \in 1..Len(x) |-> y[k]]
  BY DEF Strings
<1> QED BY <1>1, Zenon DEF Alike

\* The order of strings that have a first difference, or have none within the shorter one.
LEMMA OrderOfDifferent ==
    ASSUME NEW x \in Strings, NEW y \in Strings, NEW k \in 1..Len(x), k <= Len(y), Differs(x, y, k)
    PROVE  Sp!Precedes(x, y) <=> x[k] < y[k]
<1>1. Len(x) \in Nat /\ Len(y) \in Nat /\ k \in Nat /\ k - 1 \in Nat
  BY DEF Strings
<1>2. ~Sp!IsStrictPrefix(x, y)
  <2> SUFFICES ASSUME Sp!IsPrefix(x, y) PROVE FALSE
    BY DEF Sp!IsStrictPrefix
  <2>1. Alike(x, y, Len(x))
    BY <1>1, AlikeBeginnings DEF Sp!IsPrefix
  <2> QED BY <2>1, Zenon DEF Alike, Differs
<1>3. ASSUME x[k] < y[k] PROVE Sp!Precedes(x, y)
  <2>1. SubSeq(x, 1, k - 1) = SubSeq(y, 1, k - 1)
    BY <1>1, AlikeBeginnings DEF Differs
  <2> QED BY <1>3, <2>1, Zenon DEF Sp!Precedes
<1>4. ASSUME Sp!Precedes(x, y) PROVE x[k] < y[k]
  <2>1. PICK j \in 1..Len(x) : j <= Len(y) /\ SubSeq(x, 1, j - 1) = SubSeq(y, 1, j - 1) /\ x[j] < y[j]
    BY <1>2, <1>4, Zenon DEF Sp!Precedes
  <2>2. j \in Nat /\ j - 1 \in Nat /\ j - 1 <= Len(x) /\ j - 1 <= Len(y)
    BY <1>1, <2>1
  <2>3. Alike(x, y, j - 1) /\ Alike(x, y, k - 1) /\ x[k] # y[k]
    BY <2>1, <2>2, AlikeBeginnings, Zenon DEF Differs
  <2>4. x[j] # y[j]
    <3>1. j \in 1..Len(y)
      BY <1>1, <2>1, <2>2
    <3>2. x[j] \in Nat /\ y[j] \in Nat
      BY <3>1, Character, Zenon
    <3> QED BY <2>1, <3>2
  <2>5. ~(j < k) /\ ~(k < j)
    <3>1. j < k => j \in 1..(k - 1)
      BY <2>2
    <3>2. k < j => k \in 1..(j - 1)
      BY <1>1, <2>2
    <3> QED BY <2>3, <2>4, <3>1, <3>2, Zenon DEF Alike
  <2>6. j = k
    BY <1>1, <2>2, <2>5
  <2> QED BY <2>1, <2>6, Zenon
<1> QED BY <1>3, <1>4

\* Two texts that are alike as far as the shorter one goes are ordered by their lengths.
LEMMA OrderOfAlike ==
    ASSUME NEW x \in Strings, NEW y \in Strings, NEW n \in Nat, n <= Len(x), n <= Len(y),
           n = Len(x) \/ n = Len(y), Alike(x, y, n)
    PROVE  /\ Sp!Precedes(x, y) <=> Len(x) < Len(y)
           /\ x = y <=> Len(x) = Len(y)
<1>1. Len(x) \in Nat /\ Len(y) \in Nat
  BY DEF Strings
<1>2. ASSUME Len(x) < Len(y) PROVE Sp!Precedes(x, y)
  <2>1. n = Len(x)
    BY <1>1, <1>2
  <2>2. Sp!IsPrefix(x, y)
    BY <1>1, <1>2, <2>1, AlikeBeginnings DEF Sp!IsPrefix
  <2>3. x # y
    BY <1>1, <1>2
  <2> QED BY <2>2, <2>3, Zenon DEF Sp!Precedes, Sp!IsStrictPrefix
<1>3. ASSUME Len(x) = Len(y) PROVE x = y
  <2>1. n = Len(x)
    BY <1>1, <1>3
  <2>2. Alike(x, y, Len(x))
    BY <2>1, Zenon
  <2> QED BY <1>3, <2>2, AlikeStrings, Zenon
<1>4. ASSUME Sp!Precedes(x, y) PROVE Len(x) < Len(y)
  <2>1. CASE Sp!IsStrictPrefix(x, y)
    <3>1. Len(x) <= Len(y) /\ x # y
      BY <2>1 DEF Sp!IsStrictPrefix, Sp!IsPrefix
    <3> QED BY <1>1, <1>3, <3>1
  <2>2. CASE ~Sp!IsStrictPrefix(x, y)
    <3>1. PICK j \in 1..Len(x) : j <= Len(y) /\ x[j] < y[j]
      BY <1>4, <2>2, Zenon DEF Sp!Precedes
    <3>2. j \in 1..Len(y) /\ j \in 1..n
      BY <1>1, <3>1
    <3>3. x[j] \in Nat /\ y[j] \in Nat
      BY <3>2, Character, Zenon
    <3>4. x[j] # y[j]
      BY <3>1, <3>3
    <3> QED BY <3>2, <3>4, Zenon DEF Alike
  <2> QED BY <2>1, <2>2
<1> QED BY <1>2, <1>3, <1>4

\* Common tells the two cases apart.
LEMMA CommonOrders ==
    ASSUME NEW x \in Strings, NEW y \in Strings
    PROVE  /\ Sp!Common(x, y) \in Int
           /\ Sp!Common(x, y) < 0 => Sp!Precedes(x, y) /\ ~Sp!Precedes(y, x) /\ x # y
           /\ Sp!Common(x, y) > 0 => Sp!Precedes(y, x) /\ ~Sp!Precedes(x, y) /\ x # y
           /\ Sp!Common(x, y) = 0 => /\ Sp!Precedes(x, y) <=> Len(x) < Len(y)
                                     /\ Sp!Precedes(y, x) <=> Len(y) < Len(x)
                                     /\ x = y <=> Len(x) = Len(y)
<1>1. Len(x) \in Nat /\ Len(y) \in Nat
  BY DEF Strings
<1>2. PICK n \in Nat : n = IF Len(x) < Len(y) THEN Len(x) ELSE Len(y)
  BY <1>1
<1>3. n <= Len(x) /\ n <= Len(y) /\ (n = Len(x) \/ n = Len(y))
  BY <1>1, <1>2
<1>4. Sp!Common(x, y) = Sp!memcmp(x, y, n)
  BY <1>2, Zenon DEF Sp!Common
<1>5. CASE Alike(x, y, n) /\ Sp!memcmp(x, y, n) = 0
  <2>1. Alike(y, x, n)
    BY <1>5, Zenon DEF Alike
  <2>2. /\ Sp!Precedes(x, y) <=> Len(x) < Len(y)
        /\ x = y <=> Len(x) = Len(y)
        /\ Sp!Precedes(y, x) <=> Len(y) < Len(x)
    BY <1>3, <1>5, <2>1, OrderOfAlike
  <2> QED BY <1>4, <1>5, <2>2
<1>6. ASSUME NEW k \in 1..n, Differs(x, y, k), Sp!memcmp(x, y, n) = x[k] - y[k]
      PROVE  /\ Sp!Common(x, y) \in Int
             /\ Sp!Common(x, y) < 0 => Sp!Precedes(x, y) /\ ~Sp!Precedes(y, x) /\ x # y
             /\ Sp!Common(x, y) > 0 => Sp!Precedes(y, x) /\ ~Sp!Precedes(x, y) /\ x # y
             /\ Sp!Common(x, y) # 0
  <2>1. k \in 1..Len(x) /\ k \in 1..Len(y) /\ k <= Len(y) /\ k <= Len(x)
    BY <1>1, <1>3
  <2>2. x[k] \in Nat /\ y[k] \in Nat
    BY <2>1, Character, Zenon
  <2>3. Differs(y, x, k) /\ x # y /\ x[k] # y[k]
    BY <1>6, Zenon DEF Differs, Alike
  <2>4. (Sp!Precedes(x, y) <=> x[k] < y[k]) /\ (Sp!Precedes(y, x) <=> y[k] < x[k])
    BY <1>6, <2>1, <2>3, OrderOfDifferent
  <2>5. PICK a \in Nat, b \in Nat : a = x[k] /\ b = y[k]
    BY <2>2
  <2>6. Sp!Common(x, y) = a - b /\ a # b
    BY <1>4, <1>6, <2>3, <2>5, Zenon
  <2> QED BY <2>3, <2>4, <2>5, <2>6
<1>7. \/ Alike(x, y, n) /\ Sp!memcmp(x, y, n) = 0
      \/ \E k \in 1..n : Differs(x, y, k) /\ Sp!memcmp(x, y, n) = x[k] - y[k]
  BY MemcmpFinds
<1> QED BY <1>5, <1>6, <1>7

\* Comparing the first n characters for equality.
LEMMA EqualBeginnings ==
    ASSUME NEW x \in Strings, NEW y \in Strings, NEW n \in Nat, n <= Len(x), n <= Len(y)
    PROVE  Sp!memcmp(x, y, n) = 0 <=> Alike(x, y, n)
<1>1. ASSUME NEW k \in 1..n, Differs(x, y, k), Sp!memcmp(x, y, n) = x[k] - y[k]
      PROVE  ~Alike(x, y, n) /\ Sp!memcmp(x, y, n) # 0
  <2>1. x[k] \in Nat /\ y[k] \in Nat /\ x[k] # y[k]
    <3>1. Len(x) \in Nat /\ Len(y) \in Nat
      BY DEF Strings
    <3>2. k \in 1..Len(x) /\ k \in 1..Len(y)
      BY <3>1
    <3> QED BY <1>1, <3>2, Character, Zenon DEF Differs
  <2>2. x[k] - y[k] # 0
    BY <2>1
  <2> QED BY <1>1, <2>1, <2>2, Zenon DEF Alike
<1> QED BY <1>1, MemcmpFinds

\* All comparisons of two strings mean the order of strings.
LEMMA StringsOrdered ==
    ASSUME NEW x \in Strings, NEW y \in Strings
    PROVE  /\ Sp!Less(x, y) <=> Sp!Precedes(x, y)
           /\ Sp!Greater(x, y) <=> Sp!Precedes(y, x)
           /\ Sp!LessEqual(x, y) <=> Sp!Precedes(x, y) \/ x = y
           /\ Sp!GreaterEqual(x, y) <=> Sp!Precedes(y, x) \/ x = y
           /\ Sp!Equal(x, y) <=> x = y
           /\ Sp!compare(x, y) < 0 <=> Sp!Precedes(x, y)
           /\ Sp!compare(x, y) > 0 <=> Sp!Precedes(y, x)
           /\ Sp!starts_with(x, y) <=> Sp!IsPrefix(y, x)
<1>1. Len(x) \in Nat /\ Len(y) \in Nat
  BY DEF Strings
<1>2. PICK c : c = Sp!Common(x, y)
  OBVIOUS
<1>3. /\ c \in Int
      /\ c < 0 => Sp!Precedes(x, y) /\ ~Sp!Precedes(y, x) /\ x # y
      /\ c > 0 => Sp!Precedes(y, x) /\ ~Sp!Precedes(x, y) /\ x # y
      /\ c = 0 => /\ Sp!Precedes(x, y) <=> Len(x) < Len(y)
                  /\ Sp!Precedes(y, x) <=> Len(y) < Len(x)
                  /\ x = y <=> Len(x) = Len(y)
  BY <1>2, CommonOrders, Zenon
<1>4. /\ Sp!Less(x, y) <=> c < 0 \/ (c = 0 /\ Len(x) < Len(y))
      /\ Sp!LessEqual(x, y) <=> c < 0 \/ (c = 0 /\ Len(x) <= Len(y))
      /\ Sp!Greater(x, y) <=> c > 0 \/ (c = 0 /\ Len(x) > Len(y))
      /\ Sp!GreaterEqual(x, y) <=> c > 0 \/ (c = 0 /\ Len(x) >= Len(y))
  BY <1>2 DEF Sp!Less, Sp!LessEqual, Sp!Greater, Sp!GreaterEqual, Sp!Ordered
<1>5. Sp!compare(x, y) =
          IF c # 0 THEN c ELSE IF Len(x) < Len(y) THEN -1 ELSE IF Len(x) > Len(y) THEN 1 ELSE 0
  BY <1>2, Zenon DEF Sp!compare
<1>6. c < 0 \/ c = 0 \/ c > 0
  BY <1>3
<1>7. /\ Sp!Less(x, y) <=> Sp!Precedes(x, y)
      /\ Sp!Greater(x, y) <=> Sp!Precedes(y, x)
      /\ Sp!LessEqual(x, y) <=> Sp!Precedes(x, y) \/ x = y
      /\ Sp!GreaterEqual(x, y) <=> Sp!Precedes(y, x) \/ x = y
  BY <1>1, <1>3, <1>4, <1>6
<1>8. /\ Sp!compare(x, y) < 0 <=> Sp!Precedes(x, y)
      /\ Sp!compare(x, y) > 0 <=> Sp!Precedes(y, x)
  BY <1>1, <1>3, <1>5, <1>6
<1>9. Sp!Equal(x, y) <=> x = y
  <2>1. ASSUME Len(x) = Len(y) PROVE Sp!memcmp(x, y, Len(x)) = 0 <=> x = y
    <3>1. Sp!memcmp(x, y, Len(x)) = 0 <=> Alike(x, y, Len(x))
      BY <1>1, <2>1, EqualBeginnings
    <3>2. Alike(x, y, Len(x)) => x = y
      BY <2>1, AlikeStrings
    <3>3. x = y => Alike(x, y, Len(x))
      BY Zenon DEF Alike
    <3> QED BY <3>1, <3>2, <3>3
  <2> QED BY <2>1, Zenon DEF Sp!Equal
<1>10. Sp!starts_with(x, y) <=> Sp!IsPrefix(y, x)
  <2>1. ASSUME Len(y) <= Len(x)
        PROVE  Sp!memcmp(x, y, Len(y)) = 0 <=> SubSeq(y, 1, Len(y)) = SubSeq(x, 1, Len(y))
    <3>1. Sp!memcmp(x, y, Len(y)) = 0 <=> Alike(x, y, Len(y))
      BY <1>1, <2>1, EqualBeginnings
    <3>2. SubSeq(x, 1, Len(y)) = SubSeq(y, 1, Len(y)) <=> Alike(x, y, Len(y))
      BY <1>1, <2>1, AlikeBeginnings
    <3> QED BY <3>1, <3>2, Zenon
  <2>2. Len(x) >= Len(y) <=> Len(y) <= Len(x)
    BY <1>1
  <2> QED BY <2>1, <2>2, Zenon DEF Sp!starts_with, Sp!IsPrefix
<1> QED BY <1>7, <1>8, <1>9, <1>10

\* A piece is one of its text.
PieceInv ==
    /\ wholeText \in Strings /\ other \in Strings
    /\ ptr_ \in Nat /\ length_ \in Nat /\ ptr_ + length_ <= Len(wholeText)

\* Every comparison of a StringPiece with a text means the order of strings, and a piece stays
\* within its text (StringPiece.h:92-140), for any characters and texts of any length.
THEOREM PiecesOrdered ==
    Sp!TextAssumption /\ Sp!Spec => [](Sp!OneOrder /\ Sp!WithinText)
<1>1. ASSUME Sp!TextAssumption, Sp!Init PROVE PieceInv
  <2>1. ASSUME NEW s \in Sp!Texts PROVE s \in Strings
    <3>1. PICK n \in 0..MaxPiece : s \in [1..n -> Chars]
      BY <2>1, Zenon DEF Sp!Texts
    <3>2. n \in Nat /\ s \in [1..n -> Nat]
      <4>1. Chars \subseteq Nat /\ n \in Nat
        BY <1>1, <3>1 DEF Sp!TextAssumption
      <4>2. \A k \in 1..n : s[k] \in Nat
        BY <3>1, <4>1, Zenon
      <4>3. s = [k \in 1..n |-> s[k]]
        BY <3>1, Zenon
      <4> QED BY <4>1, <4>2, <4>3, Zenon
    <3>3. s \in UNION {[1..i -> Nat] : i \in Nat}
      BY <3>2, Zenon
    <3> QED BY <3>3, SeqDef, Zenon DEF Strings
  <2>2. wholeText \in Strings /\ other \in Strings /\ ptr_ = 0 /\ length_ = Len(wholeText)
    BY <1>1, <2>1 DEF Sp!Init
  <2> QED BY <2>2 DEF PieceInv, Strings
<1>2. ASSUME PieceInv, [Sp!Next]_(Sp!vars) PROVE PieceInv'
  <2>1. Len(wholeText) \in Nat
    BY <1>2 DEF PieceInv, Strings
  <2>2. ASSUME NEW n \in 0..MaxPiece, Sp!RemovePrefix(n) PROVE PieceInv'
    BY <1>2, <2>1, <2>2 DEF PieceInv, Strings, Sp!RemovePrefix
  <2>3. ASSUME NEW n \in 0..MaxPiece, Sp!RemoveSuffix(n) PROVE PieceInv'
    BY <1>2, <2>1, <2>3 DEF PieceInv, Strings, Sp!RemoveSuffix
  <2>4. CASE UNCHANGED Sp!vars
    BY <1>2, <2>4 DEF PieceInv, Strings, Sp!vars
  <2> QED BY <1>2, <2>2, <2>3, <2>4 DEF Sp!Next
<1>3. ASSUME PieceInv PROVE Sp!OneOrder /\ Sp!WithinText
  <2>1. PICK x : x = Sp!AsString
    OBVIOUS
  <2>2. x \in Strings
    <3>1. PICK s, m, n : s = wholeText /\ m = ptr_ + 1 /\ n = ptr_ + length_
      OBVIOUS
    <3>2. s \in Strings /\ m \in 1..(Len(s) + 1) /\ n \in (m - 1)..Len(s)
      BY <1>3, <3>1 DEF PieceInv, Strings
    <3>3. SubSeq(s, m, n) \in Seq(Nat)
      BY <3>2, SubSeqProperties DEF Strings
    <3> QED BY <2>1, <3>1, <3>3, Zenon DEF Sp!AsString, Strings
  <2>3. Sp!OneOrder
    BY <1>3, <2>1, <2>2, StringsOrdered, Zenon DEF PieceInv, Sp!OneOrder
  <2> QED BY <1>3, <2>3 DEF PieceInv, Sp!WithinText
<1>4. Sp!TextAssumption /\ Sp!Init => PieceInv
  BY <1>1
<1>5. PieceInv /\ [Sp!Next]_(Sp!vars) => PieceInv'
  BY <1>2
<1>6. PieceInv => Sp!OneOrder /\ Sp!WithinText
  BY <1>3
<1> QED BY <1>4, <1>5, <1>6, PTL DEF Sp!Spec

-----------------------------------------------------------------------------
(***************************************************************************)
(* TimeZone.  The time of the clock lies between two transitions.          *)
(***************************************************************************)

\* What Base calls them.
localtimes == v1
transitions == v2
seconds == v3

USE DEF localtimes, transitions, seconds

\* After k transitions, the local time is the other one after each.
LocalNo(k) == localtimes[IF k % 2 = 1 THEN 2 ELSE 1]
Off(k) == LocalNo(k).gmtOffset
Dst(k) == LocalNo(k).isDst
Changes == Len(transitions)
At(k) == transitions[k].gmttime

\* The zone is one of standard and summer time.
ZoneKept ==
    /\ \A k \in Nat : Off(k) \in Int /\ Dst(k) \in BOOLEAN /\ (Dst(k + 1) <=> ~Dst(k))
                      /\ Off(k + 1) = IF Dst(k) THEN Off(k) - Hour ELSE Off(k) + Hour
    /\ LocalNo(0) = localtimes[1]
    /\ Changes \in Nat /\ (transitions = <<>> <=> Changes = 0)
    /\ \A k \in 1..Changes :
           /\ At(k) \in Nat /\ localtimes[transitions[k].localtimeIdx] = LocalNo(k)
           /\ transitions[k].localtime = At(k) + Off(k)
    /\ \A j, k \in 1..Changes : j < k => At(k) - At(j) >= Spacing
    /\ Hour \in Nat /\ Hour > 0 /\ Spacing \in Nat /\ Spacing > 2 * Hour

\* The k-th transition is the last that is not after the time.
LastNotAfter(k, t, byGmt) ==
    /\ k \in 0..Changes
    /\ k >= 1 => Tz!Key(transitions[k], byGmt) <= t
    /\ k < Changes => t < Tz!Key(transitions[k + 1], byGmt)

\* The transitions are in order, by UTC and by the clock.
LEMMA KeysInOrder ==
    ASSUME ZoneKept, NEW byGmt \in BOOLEAN
    PROVE  /\ \A k \in 1..Changes : Tz!Key(transitions[k], byGmt) \in Int
           /\ \A j, k \in 1..Changes :
                  j < k => Tz!Key(transitions[j], byGmt) < Tz!Key(transitions[k], byGmt)
<1>1. ASSUME NEW k \in 1..Changes
      PROVE  /\ At(k) \in Int /\ Off(k) \in Int /\ Off(k) + At(k) \in Int
             /\ Tz!Key(transitions[k], byGmt) = IF byGmt THEN At(k) ELSE At(k) + Off(k)
  <2>1. k \in Nat
    BY DEF ZoneKept
  <2>2. /\ At(k) \in Nat /\ Off(k) \in Int /\ transitions[k].localtime = At(k) + Off(k)
    BY <2>1 DEF ZoneKept
  <2> QED BY <2>2, SMT DEF Tz!Key, At
<1>2. ASSUME NEW k \in Nat, NEW j \in Nat PROVE Off(k) - Off(j) \in {-Hour, 0, Hour}
  <2>1. Off(k) = Off(0) \/ Off(k) = Off(1)
    BY SMT DEF Off, LocalNo
  <2>2. Off(j) = Off(0) \/ Off(j) = Off(1)
    BY SMT DEF Off, LocalNo
  <2>3. /\ Off(0) \in Int /\ Off(1) \in Int /\ Hour \in Nat
        /\ Off(1) = Off(0) - Hour \/ Off(1) = Off(0) + Hour
    <3>1. 0 \in Nat /\ 1 \in Nat /\ 0 + 1 = 1
      OBVIOUS
    <3> QED BY <3>1 DEF ZoneKept
  <2> QED BY <2>1, <2>2, <2>3, SMT
<1>3. ASSUME NEW j \in 1..Changes, NEW k \in 1..Changes, j < k
      PROVE  Tz!Key(transitions[j], byGmt) < Tz!Key(transitions[k], byGmt)
  <2>1. j \in Nat /\ k \in Nat
    BY DEF ZoneKept
  <2>2. Off(k) - Off(j) \in {-Hour, 0, Hour}
    BY <1>2, <2>1
  <2>3. /\ At(k) - At(j) >= Spacing
        /\ Hour \in Nat /\ Hour > 0 /\ Spacing \in Nat /\ Spacing > 2 * Hour
    BY <1>3 DEF ZoneKept
  <2>4. /\ At(k) \in Int /\ Off(k) \in Int /\ At(j) \in Int /\ Off(j) \in Int
    BY <1>1
  <2>5. At(j) < At(k) /\ At(j) + Off(j) < At(k) + Off(k)
    BY <2>2, <2>3, <2>4, SMT
  <2> QED BY <1>1, <2>5
<1> QED BY <1>1, <1>3, SMT

\* The least one of a set of numbers.
LEMMA LeastIs ==
    ASSUME NEW S, S \subseteq Int, NEW x \in S, \A y \in S : x <= y
    PROVE  Tz!Min(S) = x
<1>1. \E z \in S : \A y \in S : z <= y
  OBVIOUS
<1>2. Tz!Min(S) \in S /\ \A y \in S : Tz!Min(S) <= y
  BY <1>1 DEF Tz!Min
<1>3. PICK z \in Int : z = Tz!Min(S)
  BY <1>2
<1>4. x \in Int /\ z <= x /\ x <= z
  BY <1>2, <1>3
<1> QED BY <1>3, <1>4

\* findLocaltime gives the local time of the last transition that is not after the time.
LEMMA LocaltimeFound ==
    ASSUME ZoneKept, NEW byGmt \in BOOLEAN, NEW t \in Int, NEW p, LastNotAfter(p, t, byGmt)
    PROVE  Tz!findLocaltime(t, byGmt) = LocalNo(p)
<1> DEFINE K(k) == Tz!Key(transitions[k], byGmt)
           from == {k \in 1..Changes : K(k) >= t}
           transI == IF from = {} THEN Changes + 1 ELSE Tz!Min(from)
           kk == IF from # {} /\ K(transI) = t THEN transI ELSE transI - 1
<1>1. /\ \A k \in 1..Changes : K(k) \in Int
      /\ \A j, k \in 1..Changes : j < k => K(j) < K(k)
  BY KeysInOrder
<1>2. /\ p \in 0..Changes /\ (p >= 1 => K(p) <= t) /\ (p < Changes => t < K(p + 1))
      /\ Changes \in Nat
  BY DEF LastNotAfter, ZoneKept
<1>3. Tz!findLocaltime(t, byGmt) =
          IF transitions = <<>> \/ t < K(1) THEN localtimes[1]
          ELSE localtimes[transitions[kk].localtimeIdx]
  BY Zenon DEF Tz!findLocaltime, Changes
<1> HIDE DEF K
<1>4. CASE p = 0
  <2>1. transitions = <<>> \/ t < K(1)
    <3>1. transitions = <<>> <=> Changes = 0
      BY DEF ZoneKept
    <3>2. Changes = 0 \/ t < K(0 + 1)
      BY <1>2, <1>4
    <3>3. 0 + 1 = 1
      OBVIOUS
    <3> QED BY <3>1, <3>2, <3>3
  <2>2. LocalNo(p) = localtimes[1]
    BY <1>4 DEF ZoneKept
  <2> QED BY <1>3, <2>1, <2>2, Zenon
<1>5. CASE p >= 1
  <2>1. ~(transitions = <<>> \/ t < K(1))
    <3>1. transitions = <<>> <=> Changes = 0
      BY DEF ZoneKept
    <3>2. p \in 1..Changes /\ 1 \in 1..Changes /\ Changes # 0
      BY <1>2, <1>5, SMT
    <3>3. K(1) <= t
      BY <1>1, <1>2, <1>5, <3>2, SMT
    <3> QED BY <1>1, <3>1, <3>2, <3>3, SMT
  <2>2. kk = p
    <3>1. p \in 1..Changes
      BY <1>2, <1>5, SMT
    <3>2. \A k \in 1..Changes : k < p => K(k) < t
      BY <1>1, <1>2, <1>5, <3>1, SMT
    <3>3. \A k \in 1..Changes : k > p => K(k) > t
      BY <1>1, <1>2, <1>5, <3>1, SMT
    <3>4. CASE K(p) = t
      <4>1. p \in from /\ \A k \in from : p <= k
        BY <1>1, <1>2, <3>1, <3>2, <3>4, SMT
      <4>2. Tz!Min(from) = p
        <5>1. from \subseteq Int
          BY <1>2, SMT
        <5> HIDE DEF from
        <5> QED BY <4>1, <5>1, LeastIs, Zenon
      <4>3. from # {}
        BY <4>1
      <4> HIDE DEF from
      <4> QED BY <3>4, <4>2, <4>3
    <3>5. CASE K(p) # t /\ p = Changes
      <4>1. from = {}
        BY <1>1, <1>2, <3>1, <3>2, <3>5, SMT
      <4> HIDE DEF from
      <4> QED BY <1>2, <3>5, <4>1
    <3>6. CASE K(p) # t /\ p < Changes
      <4>1. p + 1 \in from /\ \A k \in from : p + 1 <= k
        BY <1>1, <1>2, <3>1, <3>2, <3>6, SMT
      <4>2. Tz!Min(from) = p + 1
        <5>1. from \subseteq Int
          BY <1>2, SMT
        <5> HIDE DEF from
        <5> QED BY <4>1, <5>1, LeastIs, Zenon
      <4>3. from # {} /\ K(p + 1) # t
        BY <1>1, <1>2, <3>6, <4>1, SMT
      <4> HIDE DEF from
      <4> QED BY <1>2, <4>2, <4>3, SMT
    <3> QED BY <1>2, <3>4, <3>5, <3>6, SMT
  <2>3. localtimes[transitions[p].localtimeIdx] = LocalNo(p)
    <3>1. p \in 1..Changes
      BY <1>2, <1>5, SMT
    <3> QED BY <3>1, Zenon DEF ZoneKept
  <2> HIDE DEF kk
  <2> QED BY <1>3, <2>1, <2>2, <2>3, Zenon
<1> QED BY <1>2, <1>4, <1>5, SMT

\* There is such a transition.
LEMMA LastExists ==
    ASSUME ZoneKept, NEW t \in Int
    PROVE  \E p \in 0..Changes : LastNotAfter(p, t, TRUE)
<1>1. /\ \A k \in 1..Changes : Tz!Key(transitions[k], TRUE) \in Int
      /\ Changes \in Nat
  BY KeysInOrder DEF ZoneKept
<1> DEFINE after == {k \in 1..Changes : t < Tz!Key(transitions[k], TRUE)} \cup {Changes + 1}
<1>2. /\ \A y \in after : y \in Nat /\ 1 <= y /\ y <= Changes + 1
                          /\ (y <= Changes => t < Tz!Key(transitions[y], TRUE))
      /\ \A y \in 1..Changes : t < Tz!Key(transitions[y], TRUE) => y \in after
      /\ Changes + 1 \in after
  <2>1. PICK n \in Nat : n = Changes
    BY <1>1
  <2>2. ASSUME NEW y \in after
        PROVE  /\ y \in Nat /\ 1 <= y /\ y <= n + 1
               /\ (y <= n => t < Tz!Key(transitions[y], TRUE))
    <3>1. CASE y \in {k \in 1..Changes : t < Tz!Key(transitions[k], TRUE)}
      <4>1. y \in 1..n /\ t < Tz!Key(transitions[y], TRUE)
        BY <2>1, <3>1, Zenon
      <4>2. y \in 1..n
        BY <4>1
      <4>3. y \in Nat /\ 1 <= y /\ y <= n + 1
        BY <4>2
      <4> QED BY <4>1, <4>3, Zenon
    <3>2. CASE y = Changes + 1
      <4>1. y = n + 1
        BY <2>1, <3>2
      <4>2. y \in Nat /\ 1 <= y /\ y <= n + 1 /\ ~(y <= n)
        BY <4>1
      <4> QED BY <4>2, Zenon
    <3> QED BY <3>1, <3>2
  <2> QED BY <2>1, <2>2
<1> HIDE DEF after
<1>3. PICK x \in after : \A y \in after : x <= y
  <2>1. after \subseteq Nat /\ after # {}
    BY <1>2
  <2> QED BY <2>1, Least
<1>4. /\ x \in Nat /\ 1 <= x /\ x <= Changes + 1
      /\ (x <= Changes => t < Tz!Key(transitions[x], TRUE))
  BY <1>2, <1>3
<1>5. PICK p : p = x - 1
  OBVIOUS
<1>6. p \in 0..Changes /\ x \in Nat /\ p + 1 = x
  BY <1>1, <1>4, <1>5
<1>7. p < Changes => t < Tz!Key(transitions[p + 1], TRUE)
  <2>1. p < Changes => x <= Changes
    BY <1>1, <1>6
  <2> QED BY <1>4, <1>6, <2>1
<1>8. p >= 1 => Tz!Key(transitions[p], TRUE) <= t
  <2>1. ASSUME p >= 1 PROVE Tz!Key(transitions[p], TRUE) <= t
    <3>1. p \in 1..Changes
      BY <1>1, <1>6, <2>1, SMT
    <3>2. ~(t < Tz!Key(transitions[p], TRUE))
      <4>1. p \notin after
        BY <1>3, <1>6, <3>1, SMT
      <4> QED BY <1>2, <3>1, <4>1, Zenon
    <3>3. PICK kp \in Int : kp = Tz!Key(transitions[p], TRUE)
      BY <1>1, <3>1
    <3>4. ~(t < kp)
      BY <3>2, <3>3
    <3>5. kp <= t
      BY <3>4
    <3> QED BY <3>3, <3>5
  <2> QED BY <2>1
<1> QED BY <1>6, <1>7, <1>8 DEF LastNotAfter

\* What LastNotAfter says by UTC, and the local time that toLocalTime shows.
LEMMA ClockAt ==
    ASSUME ZoneKept, NEW t \in Int, NEW p, LastNotAfter(p, t, TRUE)
    PROVE  /\ p \in 0..Changes /\ p \in Nat /\ Off(p) \in Int /\ Changes \in Nat
           /\ p >= 1 => At(p) \in Nat /\ At(p) <= t
           /\ p < Changes => At(p + 1) \in Nat /\ t < At(p + 1)
           /\ Tz!toLocalTime(t).clock = t + Off(p) /\ Tz!toLocalTime(t).isDst = Dst(p)
<1>1. /\ p \in 0..Changes /\ Changes \in Nat
      /\ p >= 1 => At(p) <= t
      /\ p < Changes => t < At(p + 1)
  BY SMT DEF LastNotAfter, Tz!Key, At, ZoneKept
<1>2. p \in Nat
  BY <1>1
<1>3. /\ Off(p) \in Int
      /\ \A k \in 1..Changes : At(k) \in Nat
  BY <1>2 DEF ZoneKept
<1>4. Tz!findLocaltime(t, TRUE) = LocalNo(p)
  BY LocaltimeFound
<1>5. Tz!toLocalTime(t) = [clock |-> t + Off(p), isDst |-> Dst(p)]
  BY <1>4, Zenon DEF Tz!toLocalTime, Off, Dst
<1> QED BY <1>1, <1>2, <1>3, <1>5, SMT

\* An offset moves both times alike.
LEMMA Moved ==
    ASSUME NEW a \in Int, NEW b \in Int, NEW o \in Int
    PROVE  (a <= b => a + o <= b + o) /\ (~(a + o <= b) => b < a + o)
           /\ \A n \in Nat : a > b + n => b + o < a + o
OBVIOUS

\* Every moment is found again from its clock.
LEMMA RoundTripHolds ==
    ASSUME ZoneKept, NEW t \in Int
    PROVE  Tz!fromLocalTime(Tz!toLocalTime(t)) = t
<1>1. PICK p \in 0..Changes : LastNotAfter(p, t, TRUE)
  BY LastExists
<1>2. PICK tm : tm = Tz!toLocalTime(t)
  OBVIOUS
<1>3. /\ p \in Nat /\ Off(p) \in Int /\ Changes \in Nat
      /\ p >= 1 => At(p) \in Nat /\ At(p) <= t
      /\ p < Changes => At(p + 1) \in Nat /\ t < At(p + 1)
      /\ tm.clock = t + Off(p) /\ tm.isDst = Dst(p)
  BY <1>1, <1>2, ClockAt
<1>4. PICK c \in Int : c = tm.clock
  <2>1. tm.clock \in Int
    BY <1>3
  <2> QED BY <2>1
<1>5. /\ Hour \in Nat /\ Hour > 0 /\ Spacing \in Nat /\ Spacing > 2 * Hour
      /\ Dst(p) \in BOOLEAN
  BY <1>3 DEF ZoneKept
<1>6. p + 1 \in Nat /\ p + 2 \in Nat /\ p + 1 + 1 = p + 2
  BY <1>3
<1>7. /\ Off(p + 1) = IF Dst(p) THEN Off(p) - Hour ELSE Off(p) + Hour
      /\ Dst(p + 1) <=> ~Dst(p)
      /\ Dst(p + 1) \in BOOLEAN
  BY <1>3, <1>6 DEF ZoneKept
<1>8. Off(p + 2) = Off(p)
  <2>1. Off(p + 1 + 1) = IF Dst(p + 1) THEN Off(p + 1) - Hour ELSE Off(p + 1) + Hour
    BY <1>6 DEF ZoneKept
  <2> QED BY <1>3, <1>5, <1>6, <1>7, <2>1, SMT
<1>9. \A k \in 1..Changes : Tz!Key(transitions[k], FALSE) = At(k) + Off(k)
  BY Zenon DEF Tz!Key, ZoneKept
<1>10. CASE p < Changes /\ At(p + 1) + Off(p + 1) <= c
  <2>1. Dst(p) = TRUE /\ Off(p + 1) = Off(p) - Hour /\ At(p + 1) <= t + Hour
    BY <1>3, <1>4, <1>5, <1>7, <1>10, SMT
  <2>2. p + 1 \in 1..Changes
    BY <1>3, <1>10
  <2>3. p + 1 < Changes => At(p + 2) \in Nat /\ At(p + 2) > t + 2 * Hour
    <3>1. ASSUME p + 1 < Changes PROVE At(p + 2) \in Nat /\ At(p + 2) > t + 2 * Hour
      <4>1. p + 2 \in 1..Changes /\ p + 1 < p + 2
        BY <1>3, <3>1
      <4>2. At(p + 2) \in Nat /\ At(p + 2) - At(p + 1) >= Spacing
        BY <2>2, <4>1 DEF ZoneKept
      <4> QED BY <1>3, <1>5, <1>10, <4>2, SMT
    <3> QED BY <3>1
  <2>4. LastNotAfter(p + 1, c, FALSE)
    <3>1. Tz!Key(transitions[p + 1], FALSE) <= c
      BY <1>9, <1>10, <2>2
    <3>2. p + 1 < Changes => c < Tz!Key(transitions[p + 1 + 1], FALSE)
      <4>1. ASSUME p + 1 < Changes PROVE c < Tz!Key(transitions[p + 2], FALSE)
        <5>1. p + 2 \in 1..Changes
          BY <1>3, <4>1
        <5>2. Tz!Key(transitions[p + 2], FALSE) = At(p + 2) + Off(p)
          BY <1>8, <1>9, <5>1
        <5>3. At(p + 2) \in Nat /\ At(p + 2) > t + 2 * Hour
          BY <2>3, <4>1
        <5>4. At(p + 2) \in Int /\ Off(p) \in Int /\ c = t + Off(p) /\ 2 * Hour \in Nat
          BY <1>3, <1>4, <1>5, <5>3
        <5>5. t + Off(p) < At(p + 2) + Off(p)
          BY <5>3, <5>4, Moved, Zenon
        <5> QED BY <5>2, <5>4, <5>5, Zenon
      <4> QED BY <1>6, <4>1
    <3>3. p + 1 \in 0..Changes
      BY <2>2
    <3> QED BY <3>1, <3>2, <3>3 DEF LastNotAfter
  <2>5. Tz!findLocaltime(c, FALSE) = LocalNo(p + 1)
    BY <2>4, LocaltimeFound
  <2>6. PICK u \in Int : u = c - Off(p + 1)
    <3>1. c - Off(p + 1) \in Int
      BY <1>3, <1>5, <2>1
    <3> QED BY <3>1
  <2>7. u = t + Hour
    BY <1>3, <1>4, <1>5, <2>1, <2>6, SMT
  <2>8. LastNotAfter(p + 1, u, TRUE)
    <3>1. Tz!Key(transitions[p + 1], TRUE) <= u
      BY <2>1, <2>7 DEF Tz!Key, At
    <3>2. p + 1 < Changes => u < Tz!Key(transitions[p + 1 + 1], TRUE)
      <4>1. ASSUME p + 1 < Changes PROVE u < At(p + 2)
        BY <1>5, <2>3, <2>7, <4>1, SMT
      <4> QED BY <1>6, <4>1 DEF Tz!Key, At
    <3>3. p + 1 \in 0..Changes
      BY <2>2
    <3> QED BY <3>1, <3>2, <3>3 DEF LastNotAfter
  <2>9. Tz!toLocalTime(u).clock = u + Off(p + 1) /\ Tz!toLocalTime(u).isDst = Dst(p + 1)
    BY <2>8, ClockAt
  <2>10. Tz!toLocalTime(u).clock = c /\ ~Tz!toLocalTime(u).isDst
    BY <1>3, <1>5, <1>7, <2>1, <2>6, <2>9, SMT
  <2>11. Tz!fromLocalTime(tm) = c - Hour - Off(p + 1)
    BY <1>3, <1>4, <2>1, <2>5, <2>6, <2>10, Zenon DEF Tz!fromLocalTime, Off
  <2> QED BY <1>2, <1>3, <1>4, <1>5, <2>1, <2>11, SMT
<1>11. CASE ~(p < Changes /\ At(p + 1) + Off(p + 1) <= c)
  <2>1. LastNotAfter(p, c, FALSE)
    <3>1. p >= 1 => Tz!Key(transitions[p], FALSE) <= c
      <4>1. ASSUME p >= 1 PROVE Tz!Key(transitions[p], FALSE) <= c
        <5>1. p \in 1..Changes
          BY <1>1, <1>3, <4>1
        <5>2. Tz!Key(transitions[p], FALSE) = At(p) + Off(p)
          BY <1>9, <5>1
        <5>3. At(p) \in Nat /\ At(p) <= t
          BY <1>3, <4>1
        <5>4. c = t + Off(p) /\ Off(p) \in Int /\ At(p) \in Int
          BY <1>3, <1>4, <5>3
        <5>5. At(p) + Off(p) <= t + Off(p)
          BY <5>3, <5>4, Moved, Zenon
        <5> QED BY <5>2, <5>4, <5>5, Zenon
      <4> QED BY <4>1
    <3>2. p < Changes => c < Tz!Key(transitions[p + 1], FALSE)
      <4>1. ASSUME p < Changes PROVE c < Tz!Key(transitions[p + 1], FALSE)
        <5>1. p + 1 \in 1..Changes
          BY <1>3, <4>1
        <5>2. Tz!Key(transitions[p + 1], FALSE) = At(p + 1) + Off(p + 1)
          BY <1>9, <5>1
        <5>3. At(p + 1) \in Int /\ Off(p + 1) \in Int
          BY <1>3, <1>5, <1>7, <4>1
        <5>4. ~(At(p + 1) + Off(p + 1) <= c)
          BY <1>11, <4>1
        <5>5. c < At(p + 1) + Off(p + 1)
          BY <1>4, <5>3, <5>4, Moved, Zenon
        <5> QED BY <5>2, <5>5, Zenon
      <4> QED BY <4>1
    <3> QED BY <1>1, <3>1, <3>2 DEF LastNotAfter
  <2>2. Tz!findLocaltime(c, FALSE) = LocalNo(p)
    BY <2>1, LocaltimeFound
  <2>3. c - Off(p) = t
    BY <1>3, <1>4
  <2>4. Tz!toLocalTime(t).isDst = tm.isDst
    BY <1>2
  <2>5. Tz!fromLocalTime(tm) = c - Off(p)
    BY <1>4, <2>2, <2>3, <2>4, Zenon DEF Tz!fromLocalTime, Off
  <2> QED BY <1>2, <2>3, <2>5
<1> QED BY <1>10, <1>11

\* The clock runs, but at a transition.
LEMMA ClockRuns ==
    ASSUME ZoneKept, seconds \in Nat
    PROVE  Tz!ClockChanges
<1>1. PICK t \in Int, u \in Int : t = seconds /\ u = t + 1
  <2>1. seconds \in Int /\ seconds + 1 \in Int
    OBVIOUS
  <2> QED BY <2>1
<1>2. PICK p \in 0..Changes : LastNotAfter(p, t, TRUE)
  BY LastExists
<1>3. /\ p \in Nat /\ Off(p) \in Int /\ Changes \in Nat
      /\ p >= 1 => At(p) \in Nat /\ At(p) <= t
      /\ p < Changes => At(p + 1) \in Nat /\ t < At(p + 1)
      /\ Tz!toLocalTime(t).clock = t + Off(p) /\ Tz!toLocalTime(t).isDst = Dst(p)
  BY <1>2, ClockAt
<1>4. /\ Hour \in Nat /\ Hour > 0 /\ Spacing \in Nat /\ Spacing > 2 * Hour
      /\ \A k \in 1..Changes : At(k) \in Nat
      /\ \A j, k \in 1..Changes : j < k => At(k) - At(j) >= Spacing
  BY DEF ZoneKept
<1>5. CASE p < Changes /\ At(p + 1) = u
  <2>1. p + 1 \in 1..Changes /\ p + 1 \in Nat
    BY <1>3, <1>5
  <2>2. LastNotAfter(p + 1, u, TRUE)
    <3>1. p + 1 < Changes => u < At(p + 1 + 1)
      <4>1. ASSUME p + 1 < Changes PROVE u < At(p + 1 + 1)
        <5>1. p + 1 + 1 \in 1..Changes /\ p + 1 < p + 1 + 1
          BY <1>3, <4>1
        <5>2. At(p + 1 + 1) - At(p + 1) >= Spacing /\ At(p + 1 + 1) \in Nat
          BY <1>4, <2>1, <5>1
        <5> QED BY <1>4, <1>5, <5>2, SMT
      <4> QED BY <4>1
    <3>2. At(p + 1) <= u
      BY <1>5
    <3>3. p + 1 \in 0..Changes
      BY <2>1
    <3> QED BY <3>1, <3>2, <3>3 DEF LastNotAfter, Tz!Key, At
  <2>3. Tz!toLocalTime(u).clock = u + Off(p + 1)
    BY <2>2, ClockAt
  <2>4. Off(p + 1) = IF Dst(p) THEN Off(p) - Hour ELSE Off(p) + Hour
    BY <1>3 DEF ZoneKept
  <2>5. Tz!toLocalTime(u).clock - Tz!toLocalTime(t).clock =
            IF Tz!toLocalTime(t).isDst THEN 1 - Hour ELSE 1 + Hour
    BY <1>1, <1>3, <1>4, <2>3, <2>4, SMT
  <2>6. \E k \in 1..Len(transitions) : transitions[k].gmttime = seconds + 1
    BY <1>1, <1>5, <2>1 DEF Changes, At
  <2> QED BY <1>1, <2>5, <2>6, Zenon DEF Tz!ClockChanges
<1>6. CASE ~(p < Changes /\ At(p + 1) = u)
  <2>1. LastNotAfter(p, u, TRUE)
    BY <1>1, <1>2, <1>3, <1>6, SMT DEF LastNotAfter, Tz!Key, At
  <2>2. Tz!toLocalTime(u).clock = u + Off(p)
    BY <2>1, ClockAt
  <2>3. Tz!toLocalTime(u).clock - Tz!toLocalTime(t).clock = 1
    BY <1>1, <1>3, <2>2, SMT
  <2>4. ~\E k \in 1..Len(transitions) : transitions[k].gmttime = seconds + 1
    <3>1. ASSUME NEW k \in 1..Changes, At(k) = u PROVE FALSE
      <4>1. \A j \in 1..Changes : j < p => At(j) < At(p)
        <5>1. ASSUME NEW j \in 1..Changes, j < p PROVE At(j) < At(p)
          <6>1. p \in 1..Changes
            BY <1>3, <5>1, SMT
          <6>2. At(p) - At(j) >= Spacing /\ At(p) \in Nat /\ At(j) \in Nat
            BY <1>4, <5>1, <6>1
          <6> QED BY <1>4, <6>2, SMT
        <5> QED BY <5>1
      <4>2. k \in Nat /\ At(k) \in Nat
        BY <1>3, <1>4
      <4>3. k > p
        BY <1>1, <1>3, <3>1, <4>1, <4>2, SMT
      <4>4. k > p + 1 /\ p + 1 \in 1..Changes
        BY <1>3, <1>6, <3>1, <4>2, <4>3, SMT
      <4>5. At(k) - At(p + 1) >= Spacing
        BY <1>4, <4>4
      <4> QED BY <1>1, <1>3, <1>4, <3>1, <4>2, <4>4, <4>5, SMT
    <3> QED BY <1>1, <3>1 DEF Changes, At
  <2> QED BY <1>1, <2>3, <2>4, Zenon DEF Tz!ClockChanges
<1> QED BY <1>5, <1>6

\* The zones of Init are of this kind.
LEMMA ZoneMade == ASSUME Tz!TimeAssumption, Tz!Init PROVE ZoneKept
<1>1. /\ Hour \in Nat /\ Hour > 0 /\ Spacing \in Nat /\ Spacing > 2 * Hour
      /\ Offsets \subseteq Int /\ TransitionTimes \subseteq Nat /\ MaxTransitions \in Nat
  BY SMT DEF Tz!TimeAssumption
<1>2. PICK offset \in Offsets, firstIsDst \in BOOLEAN :
          localtimes = << [gmtOffset |-> IF firstIsDst THEN offset + Hour ELSE offset,
                           isDst |-> firstIsDst],
                          [gmtOffset |-> IF ~firstIsDst THEN offset + Hour ELSE offset,
                           isDst |-> ~firstIsDst] >>
  BY Zenon DEF Tz!Init
<1>3. /\ localtimes[1].gmtOffset = IF firstIsDst THEN offset + Hour ELSE offset
      /\ localtimes[1].isDst = firstIsDst
      /\ localtimes[2].gmtOffset = IF ~firstIsDst THEN offset + Hour ELSE offset
      /\ localtimes[2].isDst = ~firstIsDst
  BY <1>2
<1>4. PICK n \in 0..MaxTransitions : \E times \in [1..n -> TransitionTimes] :
          /\ \A j, k \in 1..n : j < k => times[k] - times[j] >= Spacing
          /\ transitions = [k \in 1..n |->
                  Tz!Transition(localtimes, times[k], IF k % 2 = 1 THEN 2 ELSE 1)]
  BY Zenon DEF Tz!Init
<1>5. PICK times \in [1..n -> TransitionTimes] :
          /\ \A j, k \in 1..n : j < k => times[k] - times[j] >= Spacing
          /\ transitions = [k \in 1..n |->
                  Tz!Transition(localtimes, times[k], IF k % 2 = 1 THEN 2 ELSE 1)]
  BY <1>4, Zenon
<1>6. n \in Nat
  BY <1>1
<1>7. Changes = n /\ (transitions = <<>> <=> n = 0)
  <2>1. PICK e : e = {transitions[k] : k \in 1..n}
    OBVIOUS
  <2>2. transitions \in [1..n -> e]
    BY <1>5, <2>1, Zenon
  <2>3. transitions \in Seq(e)
    BY <1>6, <2>2, SMT
  <2>4. Len(transitions) \in Nat /\ DOMAIN transitions = 1..Len(transitions)
    BY <2>3, LenProperties, Zenon
  <2>5. DOMAIN transitions = 1..n
    BY <2>2, Zenon
  <2>6. PICK m \in Nat : m = Len(transitions)
    BY <2>4
  <2>7. 1..m = 1..n
    BY <2>4, <2>5, <2>6
  <2>8. m = n
    <3>1. m >= 1 => m \in 1..n
      BY <2>7, SMT
    <3>2. n >= 1 => n \in 1..m
      BY <1>6, <2>7, SMT
    <3> QED BY <1>6, <3>1, <3>2, SMT
  <2>9. transitions = <<>> <=> Len(transitions) = 0
    <3>1. transitions # <<>> => Len(transitions) \in Nat \ {0}
      BY <2>3, EmptySeq, Zenon
    <3>2. transitions = <<>> => Len(transitions) = 0
      BY EmptySeq, Zenon
    <3> QED BY <3>1, <3>2
  <2> QED BY <2>6, <2>8, <2>9 DEF Changes
<1>8. ASSUME NEW k \in 1..n
      PROVE  /\ At(k) = times[k] /\ At(k) \in Nat
             /\ localtimes[transitions[k].localtimeIdx] = LocalNo(k)
             /\ transitions[k].localtime = At(k) + Off(k)
  <2>1. transitions[k] = Tz!Transition(localtimes, times[k], IF k % 2 = 1 THEN 2 ELSE 1)
    BY <1>5
  <2>2. PICK idx : idx = IF k % 2 = 1 THEN 2 ELSE 1
    OBVIOUS
  <2>3. transitions[k] = [gmttime |-> times[k], localtime |-> times[k] + localtimes[idx].gmtOffset,
                          localtimeIdx |-> idx]
    BY <2>1, <2>2, Zenon DEF Tz!Transition
  <2>4. LocalNo(k) = localtimes[idx]
    BY <2>2, Zenon DEF LocalNo
  <2>5. times[k] \in Nat
    BY <1>1, <1>5
  <2> QED BY <2>3, <2>4, <2>5 DEF At, Off
<1>9. ASSUME NEW k \in Nat
      PROVE  /\ Off(k) \in Int /\ Dst(k) \in BOOLEAN /\ (Dst(k + 1) <=> ~Dst(k))
             /\ Off(k + 1) = IF Dst(k) THEN Off(k) - Hour ELSE Off(k) + Hour
  <2>1. offset \in Int
    BY <1>1, <1>2
  <2>2. (k % 2 = 1 /\ (k + 1) % 2 # 1) \/ (k % 2 # 1 /\ (k + 1) % 2 = 1)
    BY SMT
  <2>3. CASE k % 2 = 1 /\ (k + 1) % 2 # 1
    <3>1. LocalNo(k) = localtimes[2] /\ LocalNo(k + 1) = localtimes[1]
      BY <2>3, Zenon DEF LocalNo
    <3>2. /\ Off(k) = localtimes[2].gmtOffset /\ Dst(k) = localtimes[2].isDst
          /\ Off(k + 1) = localtimes[1].gmtOffset /\ Dst(k + 1) = localtimes[1].isDst
      BY <3>1, Zenon DEF Off, Dst
    <3>3. CASE firstIsDst
      <4>1. Dst(k) = FALSE /\ Dst(k + 1) = TRUE /\ Off(k) = offset /\ Off(k + 1) = Off(k) + Hour
        BY <1>3, <3>2, <3>3, Zenon
      <4> QED BY <2>1, <4>1, Zenon
    <3>4. CASE ~firstIsDst
      <4>1. Dst(k) = TRUE /\ Dst(k + 1) = FALSE /\ Off(k) = offset + Hour /\ Off(k + 1) = offset
        BY <1>3, <3>2, <3>4, Zenon
      <4> QED BY <1>1, <2>1, <4>1, SMT
    <3> QED BY <3>3, <3>4
  <2>4. CASE k % 2 # 1 /\ (k + 1) % 2 = 1
    <3>1. LocalNo(k) = localtimes[1] /\ LocalNo(k + 1) = localtimes[2]
      BY <2>4, Zenon DEF LocalNo
    <3>2. /\ Off(k) = localtimes[1].gmtOffset /\ Dst(k) = localtimes[1].isDst
          /\ Off(k + 1) = localtimes[2].gmtOffset /\ Dst(k + 1) = localtimes[2].isDst
      BY <3>1, Zenon DEF Off, Dst
    <3>3. CASE firstIsDst
      <4>1. Dst(k) = TRUE /\ Dst(k + 1) = FALSE /\ Off(k) = offset + Hour /\ Off(k + 1) = offset
        BY <1>3, <3>2, <3>3, Zenon
      <4> QED BY <1>1, <2>1, <4>1, SMT
    <3>4. CASE ~firstIsDst
      <4>1. Dst(k) = FALSE /\ Dst(k + 1) = TRUE /\ Off(k) = offset /\ Off(k + 1) = Off(k) + Hour
        BY <1>3, <3>2, <3>4, Zenon
      <4> QED BY <2>1, <4>1, Zenon
    <3> QED BY <3>3, <3>4
  <2> QED BY <2>2, <2>3, <2>4
<1>10. LocalNo(0) = localtimes[1]
  <2>1. 0 % 2 # 1
    BY SMT
  <2> QED BY <2>1, Zenon DEF LocalNo
<1>11. \A j, k \in 1..Changes : j < k => At(k) - At(j) >= Spacing
  BY <1>5, <1>7, <1>8
<1>12. \A k \in 1..Changes :
           /\ At(k) \in Nat /\ localtimes[transitions[k].localtimeIdx] = LocalNo(k)
           /\ transitions[k].localtime = At(k) + Off(k)
  BY <1>7, <1>8
<1> QED BY <1>1, <1>6, <1>7, <1>9, <1>10, <1>11, <1>12, Zenon DEF ZoneKept

\* A time is converted to the clock of its zone and back, for zones of standard and summer time
\* with any number of changes at any times, more than two hours from each other; the clock
\* changes by an hour at the changes and at no other time (TimeZone.cpp:214-319).
THEOREM ZonesConvert ==
    Tz!TimeAssumption /\ Tz!Spec => [](Tz!LocalRoundTrip /\ Tz!ClockChanges)
<1>1. Tz!TimeAssumption /\ Tz!Init => ZoneKept /\ seconds \in Nat
  <2>1. Tz!Init => seconds = 0
    BY Zenon DEF Tz!Init
  <2> QED BY <2>1, ZoneMade
<1>2. ASSUME ZoneKept, seconds \in Nat, [Tz!Next]_<<v1, v2, v3>>
      PROVE  (ZoneKept /\ seconds \in Nat)'
  <2>1. UNCHANGED localtimes /\ UNCHANGED transitions /\ seconds' \in Nat
    BY <1>2 DEF Tz!Next
  <2>2. ZoneKept'
    BY <1>2, <2>1 DEF ZoneKept, LocalNo, Off, Dst, Changes, At
  <2> QED BY <2>1, <2>2
<1>3. ZoneKept /\ seconds \in Nat => Tz!LocalRoundTrip /\ Tz!ClockChanges
  <2>1. ASSUME ZoneKept, seconds \in Nat PROVE Tz!LocalRoundTrip
    <3>1. seconds \in Int
      BY <2>1
    <3> QED BY <2>1, <3>1, RoundTripHolds DEF Tz!LocalRoundTrip
  <2>2. ASSUME ZoneKept, seconds \in Nat PROVE Tz!ClockChanges
    BY <2>2, ClockRuns
  <2> QED BY <2>1, <2>2
<1> QED BY <1>1, <1>2, <1>3, PTL DEF Tz!Spec, Tz!vars

-----------------------------------------------------------------------------
(***************************************************************************)
(* Date.  The formulas count years that begin in March.                    *)
(***************************************************************************)

\* What Base calls them.
today == v1
count == v2

USE DEF today, count

IsDay(d) ==
    /\ d = [year |-> d.year, month |-> d.month, day |-> d.day]
    /\ d.year \in Nat /\ d.month \in 1..12 /\ d.day \in 1..Dt!MonthLength(d.year, d.month)

\* The year that begins in March, the month in it (from 0), the days before that month and the
\* days before that year.
MarchYear(y, m) == IF m <= 2 THEN y + 4799 ELSE y + 4800
MarchMonth(m) == IF m <= 2 THEN m + 9 ELSE m - 3
DaysBefore(m) == (153 * m + 2) \div 5
Years(y) == y * 365 + y \div 4 - y \div 100 + y \div 400
YearsByParts(n, b, q, r) == 146097 * n + 36524 * b + 365 * (4 * q + r) + q
PartsOfYear(y, n, b, q, r) == y = 400 * n + 100 * b + 4 * q + r
LeapLast(y, b, q, r) == Dt!IsLeap(y + 1) => r = 3 /\ (q = 24 => b = 3)
FromMarch(y, m, day) == day + DaysBefore(m) + Years(y) - 32045

\* The day k (from 0) of the month is one, and the formulas find a month and a year of a century
\* from the days before it.
InMonth(m, k) == k < IF m = 11 THEN 29 ELSE IF m \in {1, 3, 6, 8} THEN 30 ELSE 31
MonthFound(m, k, e) ==
    /\ (5 * e + 2) \div 153 = m /\ e - DaysBefore(m) = k /\ e \in 0..365
    /\ e = 365 => m = 11 /\ k = 28
YearFound(k, s, e) == (4 * s + 3) \div 1461 = k /\ s - ((1461 * k) \div 4) = e

\* The days before each month.
LEMMA MonthTable ==
    /\ DaysBefore(0) = 0 /\ DaysBefore(1) = 31 /\ DaysBefore(2) = 61 /\ DaysBefore(3) = 92
    /\ DaysBefore(4) = 122 /\ DaysBefore(5) = 153 /\ DaysBefore(6) = 184 /\ DaysBefore(7) = 214
    /\ DaysBefore(8) = 245 /\ DaysBefore(9) = 275 /\ DaysBefore(10) = 306
    /\ DaysBefore(11) = 337
BY SMT DEF DaysBefore

\* Both counts are numbers.
LEMMA CountsAreNumbers ==
    /\ \A m \in Int : DaysBefore(m) \in Int
    /\ \A y \in Int : Years(y) \in Int
<1>1. ASSUME NEW m \in Int PROVE DaysBefore(m) \in Int
  BY SMT DEF DaysBefore
<1>2. ASSUME NEW y \in Int PROVE Years(y) \in Int
  <2>1. y \div 4 \in Int /\ y \div 100 \in Int /\ y \div 400 \in Int /\ y * 365 \in Int
    BY SMT
  <2> QED BY <2>1, SMT DEF Years
<1> QED BY <1>1, <1>2

\* A month and its year, counted from March.
LEMMA MarchTypes ==
    ASSUME NEW y \in Nat, NEW m \in 1..12
    PROVE  MarchMonth(m) \in 0..11 /\ MarchYear(y, m) \in Nat
BY SMT DEF MarchYear, MarchMonth

\* The Julian day number, by years that begin in March.
LEMMA JulianOf ==
    ASSUME NEW y \in Nat, NEW m \in 1..12, NEW day \in Int
    PROVE  Dt!getJulianDayNumber(y, m, day) = FromMarch(MarchYear(y, m), MarchMonth(m), day)
<1> DEFINE a == (14 - m) \div 12
<1>1. /\ a = IF m <= 2 THEN 1 ELSE 0
      /\ a \in Int
  BY SMT
<1> HIDE DEF a
<1>2. PICK yy : yy = y + 4800 - a
  OBVIOUS
<1>3. PICK mm : mm = m + 12 * a - 3
  OBVIOUS
<1>4. /\ yy = MarchYear(y, m) /\ mm = MarchMonth(m)
      /\ yy \in Nat /\ mm \in 0..11
  BY <1>1, <1>2, <1>3, SMT DEF MarchYear, MarchMonth
<1>5. DaysBefore(mm) \in Int /\ Years(yy) \in Int
  BY <1>4, CountsAreNumbers
<1>6. Dt!getJulianDayNumber(y, m, day) =
          day + DaysBefore(mm) + yy * 365 + yy \div 4 - yy \div 100 + yy \div 400 - 32045
  BY <1>2, <1>3, SMT DEF a, Dt!getJulianDayNumber, DaysBefore
<1>7. yy \div 4 \in Int /\ yy \div 100 \in Int /\ yy \div 400 \in Int /\ yy * 365 \in Int
  BY <1>4, SMT
<1>8. Dt!getJulianDayNumber(y, m, day) = day + DaysBefore(mm) + Years(yy) - 32045
  BY <1>5, <1>6, <1>7, SMT DEF Years
<1> QED BY <1>4, <1>8, SMT DEF FromMarch

\* The next number leaves the quotient as it is, or begins a new one.
LEMMA QuotientsGrow ==
    ASSUME NEW y \in Nat
    PROVE  /\ (y + 1) \div 4 = y \div 4 + (IF (y + 1) % 4 = 0 THEN 1 ELSE 0)
           /\ (y + 1) \div 100 = y \div 100 + (IF (y + 1) % 100 = 0 THEN 1 ELSE 0)
           /\ (y + 1) \div 400 = y \div 400 + (IF (y + 1) % 400 = 0 THEN 1 ELSE 0)
<1>1. (y + 1) \div 4 = y \div 4 + (IF (y + 1) % 4 = 0 THEN 1 ELSE 0)
  BY SMT
<1>2. (y + 1) \div 100 = y \div 100 + (IF (y + 1) % 100 = 0 THEN 1 ELSE 0)
  BY SMT
<1>3. (y + 1) \div 400 = y \div 400 + (IF (y + 1) % 400 = 0 THEN 1 ELSE 0)
  BY SMT
<1> QED BY <1>1, <1>2, <1>3, SMT

\* A year has a day more if the next February has.
LEMMA YearsGrow ==
    ASSUME NEW y \in Nat
    PROVE  Years(y + 1) = Years(y) + (IF Dt!IsLeap(y + 1) THEN 366 ELSE 365)
<1>1. PICK z : z = y + 1
  OBVIOUS
<1>2. PICK a : a = y \div 4
  OBVIOUS
<1>3. PICK b : b = y \div 100
  OBVIOUS
<1>4. PICK c : c = y \div 400
  OBVIOUS
<1>5. /\ z \in Nat /\ a \in Int /\ b \in Int /\ c \in Int /\ z * 365 = y * 365 + 365
      /\ y * 365 \in Int
  BY <1>1, <1>2, <1>3, <1>4, SMT
<1>6. /\ z \div 4 = a + (IF z % 4 = 0 THEN 1 ELSE 0)
      /\ z \div 100 = b + (IF z % 100 = 0 THEN 1 ELSE 0)
      /\ z \div 400 = c + (IF z % 400 = 0 THEN 1 ELSE 0)
  BY <1>1, <1>2, <1>3, <1>4, QuotientsGrow
<1>7. (z % 400 = 0 => z % 100 = 0) /\ (z % 100 = 0 => z % 4 = 0)
  <2>1. z % 400 = 0 => z % 100 = 0
    BY <1>5, SMT
  <2>2. z % 100 = 0 => z % 4 = 0
    BY <1>5, SMT
  <2> QED BY <2>1, <2>2
<1>8. Years(y) = y * 365 + a - b + c
  BY <1>2, <1>3, <1>4, SMT DEF Years
<1>9. Years(z) = y * 365 + 365 + (a + (IF z % 4 = 0 THEN 1 ELSE 0))
                     - (b + (IF z % 100 = 0 THEN 1 ELSE 0)) + (c + (IF z % 400 = 0 THEN 1 ELSE 0))
  BY <1>5, <1>6, SMT DEF Years
<1>10. Years(z) = Years(y) + (IF Dt!IsLeap(z) THEN 366 ELSE 365)
  <2>1. CASE z % 400 = 0
    BY <1>5, <1>7, <1>8, <1>9, <2>1, SMT DEF Dt!IsLeap
  <2>2. CASE z % 400 # 0 /\ z % 100 = 0
    BY <1>5, <1>7, <1>8, <1>9, <2>2, SMT DEF Dt!IsLeap
  <2>3. CASE z % 100 # 0 /\ z % 4 = 0
    BY <1>5, <1>7, <1>8, <1>9, <2>3, SMT DEF Dt!IsLeap
  <2>4. CASE z % 4 # 0
    BY <1>5, <1>7, <1>8, <1>9, <2>4, SMT DEF Dt!IsLeap
  <2> QED BY <2>1, <2>2, <2>3, <2>4
<1> QED BY <1>1, <1>10

\* The calendar repeats itself after 4800 years.
LEMMA LeapShifted == ASSUME NEW y \in Nat PROVE Dt!IsLeap(y + 4800) <=> Dt!IsLeap(y)
<1>1. PICK z : z = y + 4800
  OBVIOUS
<1>2. z % 4 = y % 4
  BY <1>1, SMT
<1>3. z % 100 = y % 100
  BY <1>1, SMT
<1>4. z % 400 = y % 400
  BY <1>1, SMT
<1> HIDE <1>1
<1>5. Dt!IsLeap(z) <=> Dt!IsLeap(y)
  BY <1>2, <1>3, <1>4 DEF Dt!IsLeap
<1> QED BY <1>1, <1>5

\* A day, taken apart.
LEMMA PartsOfDay ==
    ASSUME NEW d, IsDay(d)
    PROVE  \E y \in Nat, m \in 1..12, day \in 1..31 :
               /\ d = [year |-> y, month |-> m, day |-> day]
               /\ day <= Dt!MonthLength(y, m)
<1>1. /\ d.year \in Nat /\ d.month \in 1..12 /\ d.day \in 1..31
      /\ d.day <= Dt!MonthLength(d.year, d.month)
  BY SMT DEF IsDay, Dt!MonthLength
<1>2. d = [year |-> d.year, month |-> d.month, day |-> d.day]
  BY Zenon DEF IsDay
<1> QED BY <1>1, <1>2, Zenon

\* The first day of a month, and every other one.
LEMMA DayIsDay ==
    ASSUME NEW y \in Nat, NEW m \in 1..12, NEW day \in 1..31, day <= Dt!MonthLength(y, m)
    PROVE  IsDay([year |-> y, month |-> m, day |-> day])
<1>1. PICK n : n = Dt!MonthLength(y, m)
  OBVIOUS
<1>2. n \in Int
  BY <1>1, SMT DEF Dt!MonthLength
<1>3. PICK d : d = [year |-> y, month |-> m, day |-> day]
  OBVIOUS
<1>4. d.year = y /\ d.month = m /\ d.day = day /\ day \in 1..n
  BY <1>1, <1>2, <1>3
<1>5. d = [year |-> d.year, month |-> d.month, day |-> d.day]
  BY <1>3, <1>4, Zenon
<1>6. IsDay(d)
  BY <1>1, <1>4, <1>5, Zenon DEF IsDay
<1> QED BY <1>3, <1>6

\* The next day of the calendar has the next number.
LEMMA NextDayCounted ==
    ASSUME NEW d, IsDay(d)
    PROVE  /\ IsDay(Dt!NextDay(d)) /\ Dt!Julian(Dt!NextDay(d)) = Dt!Julian(d) + 1
           /\ Dt!Julian(d) \in Int
<1>1. PICK y \in Nat, m \in 1..12, day \in 1..31 :
          d = [year |-> y, month |-> m, day |-> day] /\ day <= Dt!MonthLength(y, m)
  BY PartsOfDay
<1>2. d.year = y /\ d.month = m /\ d.day = day /\ day \in Int
  BY <1>1
<1>3. PICK mm \in 0..11, my \in Nat : mm = MarchMonth(m) /\ my = MarchYear(y, m)
  BY MarchTypes, Zenon
<1>4. Dt!Julian(d) = FromMarch(my, mm, day)
  BY <1>2, <1>3, JulianOf, Zenon DEF Dt!Julian
<1>5. DaysBefore(mm) \in Int /\ Years(my) \in Int
  BY <1>3, CountsAreNumbers
<1>6. PICK n \in Int : n = Dt!MonthLength(y, m) /\ n \in 28..31
  <2>1. Dt!MonthLength(y, m) \in 28..31
    BY SMT DEF Dt!MonthLength
  <2> QED BY <2>1
<1>7. CASE day < n
  <2>1. Dt!NextDay(d) = [year |-> y, month |-> m, day |-> day + 1]
    <3>1. Dt!NextDay(d) = [d EXCEPT !.day = day + 1]
      BY <1>2, <1>6, <1>7, SMT DEF Dt!NextDay
    <3> QED BY <1>1, <3>1
  <2>2. day + 1 \in 1..31 /\ day + 1 <= n
    BY <1>6, <1>7
  <2>3. PICK k \in 1..31 : k = day + 1
    BY <2>2
  <2>4. IsDay([year |-> y, month |-> m, day |-> k])
    BY <1>6, <2>2, <2>3, DayIsDay
  <2>5. Dt!Julian([year |-> y, month |-> m, day |-> k]) = Dt!getJulianDayNumber(y, m, k)
    BY Zenon DEF Dt!Julian
  <2>6. Dt!getJulianDayNumber(y, m, k) = FromMarch(my, mm, k)
    <3>1. k \in Int
      OBVIOUS
    <3> QED BY <1>3, <3>1, JulianOf, Zenon
  <2> QED BY <1>4, <1>5, <2>1, <2>3, <2>4, <2>5, <2>6, SMT DEF FromMarch
<1>8. CASE day = n /\ m < 12
  <2>1. Dt!NextDay(d) = [year |-> y, month |-> m + 1, day |-> 1]
    <3>1. Dt!NextDay(d) = [d EXCEPT !.day = 1, !.month = m + 1]
      BY <1>2, <1>6, <1>8, SMT DEF Dt!NextDay
    <3> QED BY <1>1, <3>1
  <2>2. PICK m2 \in 1..12 : m2 = m + 1
    BY <1>8
  <2>3. IsDay([year |-> y, month |-> m2, day |-> 1])
    <3>1. 1 <= Dt!MonthLength(y, m2)
      BY SMT DEF Dt!MonthLength
    <3>2. 1 \in 1..12 /\ 1 \in 1..31
      OBVIOUS
    <3> QED BY <3>1, <3>2, DayIsDay, Zenon
  <2>4. Dt!Julian([year |-> y, month |-> m2, day |-> 1]) = Dt!getJulianDayNumber(y, m2, 1)
    BY Zenon DEF Dt!Julian
  <2>5. PICK mm2 \in 0..11, my2 \in Nat : mm2 = MarchMonth(m2) /\ my2 = MarchYear(y, m2)
    BY MarchTypes, Zenon
  <2>6. Dt!getJulianDayNumber(y, m2, 1) = FromMarch(my2, mm2, 1)
    <3>1. 1 \in Int
      OBVIOUS
    <3> QED BY <2>5, <3>1, JulianOf, Zenon
  <2>7. DaysBefore(mm2) \in Int /\ Years(my2) \in Int
    BY <2>5, CountsAreNumbers
  <2>8. 1 + DaysBefore(mm2) + Years(my2) = day + 1 + DaysBefore(mm) + Years(my)
    <3>1. CASE m = 2
      <4>1. mm = 11 /\ mm2 = 0 /\ my = y + 4799 /\ my2 = my + 1 /\ my + 1 = y + 4800
        BY <1>3, <2>2, <2>5, <3>1, SMT DEF MarchMonth, MarchYear
      <4>2. Years(my2) = Years(my) + (IF Dt!IsLeap(y + 4800) THEN 366 ELSE 365)
        BY <4>1, YearsGrow, SMT
      <4>3. day = IF Dt!IsLeap(y + 4800) THEN 29 ELSE 28
        BY <1>6, <1>8, <3>1, LeapShifted, SMT DEF Dt!MonthLength
      <4>4. DaysBefore(mm) = 337 /\ DaysBefore(mm2) = 0
        BY <4>1, MonthTable
      <4> QED BY <1>5, <4>2, <4>3, <4>4, SMT
    <3>2. CASE m # 2
      <4>1. my2 = my /\ mm2 = mm + 1
        BY <1>3, <2>2, <2>5, <3>2, SMT DEF MarchYear, MarchMonth
      <4>2. /\ m \in {1, 3, 4, 5, 6, 7, 8, 9, 10, 11}
            /\ day = IF m \in {4, 6, 9, 11} THEN 30 ELSE 31
        BY <1>6, <1>8, <3>2, SMT DEF Dt!MonthLength
      <4>3. mm = IF m = 1 THEN 10 ELSE m - 3
        BY <1>3, <4>2, SMT DEF MarchMonth
      <4>4. DaysBefore(mm2) = DaysBefore(mm) + day
        BY <4>1, <4>2, <4>3, MonthTable, SMT
      <4> QED BY <1>5, <4>1, <4>4, SMT
    <3> QED BY <3>1, <3>2
  <2> QED BY <1>4, <1>5, <2>1, <2>2, <2>3, <2>4, <2>6, <2>7, <2>8, SMT DEF FromMarch
<1>9. CASE day = n /\ ~(m < 12)
  <2>1. m = 12 /\ day = 31
    BY <1>6, <1>9, SMT DEF Dt!MonthLength
  <2>2. Dt!NextDay(d) = [year |-> y + 1, month |-> 1, day |-> 1]
    BY <1>2, <1>6, <1>9, SMT DEF Dt!NextDay
  <2>3. PICK y2 \in Nat : y2 = y + 1
    OBVIOUS
  <2>4. IsDay([year |-> y2, month |-> 1, day |-> 1])
    <3>1. 1 <= Dt!MonthLength(y2, 1)
      BY SMT DEF Dt!MonthLength
    <3>2. 1 \in 1..12 /\ 1 \in 1..31
      OBVIOUS
    <3> QED BY <3>1, <3>2, DayIsDay, Zenon
  <2>5. Dt!Julian([year |-> y2, month |-> 1, day |-> 1]) = Dt!getJulianDayNumber(y2, 1, 1)
    BY Zenon DEF Dt!Julian
  <2>6. mm = 9 /\ MarchMonth(1) = 10 /\ MarchYear(y2, 1) = my
    BY <1>3, <2>1, <2>3, SMT DEF MarchMonth, MarchYear
  <2>7. Dt!getJulianDayNumber(y2, 1, 1) = FromMarch(my, 10, 1)
    <3>1. 1 \in Int /\ 1 \in 1..12
      OBVIOUS
    <3> QED BY <2>6, <3>1, JulianOf, Zenon
  <2>8. DaysBefore(mm) = 275 /\ DaysBefore(10) = 306
    BY <2>6, MonthTable
  <2> QED BY <1>4, <1>5, <2>1, <2>2, <2>3, <2>4, <2>5, <2>7, <2>8, SMT DEF FromMarch
<1>10. day < n \/ day = n
  BY <1>1, <1>6
<1>11. Dt!Julian(d) \in Int
  BY <1>2, <1>4, <1>5, SMT DEF FromMarch
<1> QED BY <1>7, <1>8, <1>9, <1>10, <1>11

\* Quotients, by the numbers that the formulas divide by.
LEMMA Division4 ==
    ASSUME NEW x \in Int, NEW k \in Int, NEW r \in 0..3, x = 4 * k + r
    PROVE  x \div 4 = k
BY SMTT(20)

\* The same for 100.
LEMMA Division100 ==
    ASSUME NEW x \in Int, NEW k \in Int, NEW r \in 0..99, x = 100 * k + r
    PROVE  x \div 100 = k
BY SMTT(20)

\* The same for 400.
LEMMA Division400 ==
    ASSUME NEW x \in Int, NEW k \in Int, NEW r \in 0..399, x = 400 * k + r
    PROVE  x \div 400 = k
BY SMTT(20)

\* The same for 1461.
LEMMA Division1461 ==
    ASSUME NEW x \in Int, NEW k \in Int, NEW r \in Nat, r < 1461, x = 1461 * k + r
    PROVE  x \div 1461 = k
BY SMTT(20)

\* The same for 146097.
LEMMA Division146097 ==
    ASSUME NEW x \in Int, NEW k \in Int, NEW r \in Nat, r < 146097, x = 146097 * k + r
    PROVE  x \div 146097 = k
BY SMTT(20)

\* Back from the number: four centuries, then the years of a century, then the months.
LEMMA CenturiesOf ==
    ASSUME NEW n \in Nat, NEW b \in 0..3, NEW s \in Nat, s <= 36524, b < 3 => s <= 36523,
           NEW a \in Int, a = 146097 * n + 36524 * b + s
    PROVE  /\ (4 * a + 3) \div 146097 = 4 * n + b
           /\ a - (((4 * n + b) * 146097) \div 4) = s
<1>1. PICK k : k = 4 * n + b
  OBVIOUS
<1>2. k \in Int
  BY <1>1, SMT
<1>3. PICK r : r = 4 * s + 3 - b
  OBVIOUS
<1>4. r \in Int /\ 4 * a + 3 = 146097 * k + r
  BY <1>1, <1>3, SMT
<1>5. r \in Nat /\ r < 146097
  <2>1. CASE b = 3
    BY <1>3, <2>1, SMT
  <2>2. CASE b < 3
    BY <1>3, <2>2, SMT
  <2> QED BY <2>1, <2>2, SMT
<1>6. PICK x : x = 4 * a + 3
  OBVIOUS
<1>7. x \in Int /\ x = 146097 * k + r
  BY <1>4, <1>6, SMT
<1>8. x \div 146097 = k
  BY <1>2, <1>5, <1>7, Division146097, SMT
<1>9. PICK c : c = 146097 * n + 36524 * b
  OBVIOUS
<1>10. PICK z : z = k * 146097
  OBVIOUS
<1>11. c \in Int /\ z \in Int /\ z = 4 * c + b /\ a - c = s
  BY <1>1, <1>9, <1>10, SMT
<1>12. z \div 4 = c
  BY <1>11, Division4, SMT
<1> QED BY <1>1, <1>6, <1>8, <1>10, <1>11, <1>12

\* The year of a century, and the day of the year.
LEMMA YearsOf ==
    ASSUME NEW q \in 0..24, NEW r \in 0..3, NEW e \in 0..365, e = 365 => r = 3,
           NEW k, k = 4 * q + r, NEW s \in Int, s = 365 * k + q + e
    PROVE  YearFound(k, s, e)
<1>2. k \in Int
  BY SMT
<1>3. PICK u : u = 4 * e + 3 - r
  OBVIOUS
<1>4. u \in Nat /\ u < 1461 /\ 4 * s + 3 = 1461 * k + u
  BY <1>3, SMT
<1>5. PICK x : x = 4 * s + 3
  OBVIOUS
<1>6. x \in Int /\ x = 1461 * k + u
  BY <1>4, <1>5, SMT
<1>7. x \div 1461 = k
  BY <1>2, <1>4, <1>6, Division1461, SMT
<1>8. PICK c : c = 1461 * q + 365 * r
  OBVIOUS
<1>9. PICK z : z = 1461 * k
  OBVIOUS
<1>10. c \in Int /\ z \in Int /\ z = 4 * c + r /\ s - c = e
  BY <1>8, <1>9, SMT
<1>11. z \div 4 = c
  BY <1>10, Division4, SMT
<1> QED BY <1>5, <1>7, <1>9, <1>10, <1>11 DEF YearFound

\* The months of a year that begins in March, of at most 31 days each, and 29 of the last.
LEMMA MonthsOf ==
    ASSUME NEW m \in 0..11, NEW k \in Nat,
           InMonth(m, k), NEW e, e = DaysBefore(m) + k
    PROVE  MonthFound(m, k, e)
<1>1. m \in {0, 1, 2, 3, 4, 5, 6, 7, 8, 9, 10, 11}
  BY SMT
<1>2. CASE m = 0
  BY <1>2, MonthTable, SMT DEF InMonth, MonthFound
<1>3. CASE m = 1
  BY <1>3, MonthTable, SMT DEF InMonth, MonthFound
<1>4. CASE m = 2
  BY <1>4, MonthTable, SMT DEF InMonth, MonthFound
<1>5. CASE m = 3
  BY <1>5, MonthTable, SMT DEF InMonth, MonthFound
<1>6. CASE m = 4
  BY <1>6, MonthTable, SMT DEF InMonth, MonthFound
<1>7. CASE m = 5
  BY <1>7, MonthTable, SMT DEF InMonth, MonthFound
<1>8. CASE m = 6
  BY <1>8, MonthTable, SMT DEF InMonth, MonthFound
<1>9. CASE m = 7
  BY <1>9, MonthTable, SMT DEF InMonth, MonthFound
<1>10. CASE m = 8
  BY <1>10, MonthTable, SMT DEF InMonth, MonthFound
<1>11. CASE m = 9
  BY <1>11, MonthTable, SMT DEF InMonth, MonthFound
<1>12. CASE m = 10
  BY <1>12, MonthTable, SMT DEF InMonth, MonthFound
<1>13. CASE m = 11
  BY <1>13, MonthTable, SMT DEF InMonth, MonthFound
<1> QED
  BY <1>1, <1>2, <1>3, <1>4, <1>5, <1>6, <1>7, <1>8, <1>9, <1>10, <1>11, <1>12, <1>13, SMT

\* A year by four centuries, centuries, leap years and years.
LEMMA YearParts ==
    ASSUME NEW y \in Nat
    PROVE  \E n \in Nat, b \in 0..3, q \in 0..24, r \in 0..3 :
               PartsOfYear(y, n, b, q, r)
<1>1. PICK n : n = y \div 400
  OBVIOUS
<1>2. PICK u : u = y % 400
  OBVIOUS
<1>3. n \in Nat /\ u \in 0..399 /\ y = 400 * n + u
  BY <1>1, <1>2, SMT
<1>4. PICK b : b = u \div 100
  OBVIOUS
<1>5. PICK v : v = u % 100
  OBVIOUS
<1>6. b \in 0..3 /\ v \in 0..99 /\ u = 100 * b + v
  BY <1>3, <1>4, <1>5, SMT
<1>7. PICK q : q = v \div 4
  OBVIOUS
<1>8. PICK r : r = v % 4
  OBVIOUS
<1>9. q \in 0..24 /\ r \in 0..3 /\ v = 4 * q + r
  BY <1>6, <1>7, <1>8, SMT
<1>10. y = 400 * n + 100 * b + 4 * q + r
  BY <1>3, <1>6, <1>9, SMT
<1> QED BY <1>3, <1>6, <1>9, <1>10, SMT DEF PartsOfYear

\* The days before a year, by the same parts.
LEMMA YearsSplit ==
    ASSUME NEW n \in Nat, NEW b \in 0..3, NEW q \in 0..24, NEW r \in 0..3,
           NEW y \in Nat, PartsOfYear(y, n, b, q, r)
    PROVE  Years(y) = YearsByParts(n, b, q, r) /\ LeapLast(y, b, q, r)
<1>0. y = 400 * n + 100 * b + 4 * q + r
  BY DEF PartsOfYear
<1>1. y \div 400 = n
  <2>1. PICK u : u = 100 * b + 4 * q + r
    OBVIOUS
  <2>2. u \in 0..399 /\ y = 400 * n + u
    BY <1>0, <2>1, SMT
  <2> QED BY <2>2, Division400, SMT
<1>2. y \div 100 = 4 * n + b
  <2>1. PICK u : u = 4 * q + r
    OBVIOUS
  <2>2. PICK k : k = 4 * n + b
    OBVIOUS
  <2>3. u \in 0..99 /\ k \in Int /\ y = 100 * k + u
    BY <1>0, <2>1, <2>2, SMT
  <2> QED BY <2>2, <2>3, Division100, SMT
<1>3. y \div 4 = 100 * n + 25 * b + q
  <2>1. PICK k : k = 100 * n + 25 * b + q
    OBVIOUS
  <2>2. k \in Int /\ y = 4 * k + r
    BY <1>0, <2>1, SMT
  <2> QED BY <2>1, <2>2, Division4, SMT
<1>4. Years(y) = YearsByParts(n, b, q, r)
  BY <1>0, <1>1, <1>2, <1>3, SMT DEF Years, YearsByParts
<1>5. PICK z : z = y + 1
  OBVIOUS
<1>6. z \in Nat
  BY <1>5
<1>7. z % 4 = 0 => r = 3
  BY <1>0, <1>5, SMT
<1>8. r = 3 /\ q = 24 => z % 100 = 0
  BY <1>0, <1>5, SMT
<1>9. r = 3 /\ q = 24 /\ z % 400 = 0 => b = 3
  BY <1>0, <1>5, SMT
<1>10. Dt!IsLeap(z) => r = 3 /\ (q = 24 => b = 3)
  BY <1>7, <1>8, <1>9 DEF Dt!IsLeap
<1> QED BY <1>4, <1>5, <1>10, Zenon DEF LeapLast

\* getYearMonthDay, one line after the other.
Lines(j, a, b, s, k, e, mm) ==
    /\ j \in Int /\ a \in Int /\ b \in Int /\ s \in Int /\ k \in Int /\ e \in Int /\ mm \in Int
    /\ a = j + 32044 /\ b = (4 * a + 3) \div 146097 /\ s = a - ((b * 146097) \div 4)
    /\ k = (4 * s + 3) \div 1461 /\ e = s - ((1461 * k) \div 4) /\ mm = (5 * e + 2) \div 153
DateFrom(b, k, e, mm) ==
    [year |-> b * 100 + k - 4800 + mm \div 10, month |-> mm + 3 - 12 * (mm \div 10),
     day |-> e - ((153 * mm + 2) \div 5) + 1]

\* The lines give the date.
LEMMA DateOf ==
    ASSUME NEW j, NEW a, NEW b, NEW s, NEW k, NEW e, NEW mm, Lines(j, a, b, s, k, e, mm)
    PROVE  Dt!getYearMonthDay(j) = DateFrom(b, k, e, mm)
BY SMTT(30) DEF Dt!getYearMonthDay, Lines, DateFrom

\* The number of a day leads back to the day.
LEMMA DayFound == ASSUME NEW d, IsDay(d) PROVE Dt!getYearMonthDay(Dt!Julian(d)) = d
<1>1. PICK y \in Nat, m \in 1..12, day \in 1..31 :
          d = [year |-> y, month |-> m, day |-> day] /\ day <= Dt!MonthLength(y, m)
  BY PartsOfDay
<1>2. d.year = y /\ d.month = m /\ d.day = day /\ day \in Int
  BY <1>1
<1>3. PICK mm \in 0..11, my \in Nat : mm = MarchMonth(m) /\ my = MarchYear(y, m)
  BY MarchTypes, Zenon
<1>4. Dt!Julian(d) = FromMarch(my, mm, day)
  BY <1>2, <1>3, JulianOf, Zenon DEF Dt!Julian
<1>5. PICK k \in Nat : k = day - 1
  <2>1. day - 1 \in Nat
    BY SMT
  <2> QED BY <2>1
<1>6. InMonth(mm, k)
  <2>1. day <= IF m = 2 THEN 29 ELSE IF m \in {4, 6, 9, 11} THEN 30 ELSE 31
    BY <1>1, SMT DEF Dt!MonthLength
  <2>2. mm = IF m <= 2 THEN m + 9 ELSE m - 3
    BY <1>3, Zenon DEF MarchMonth
  <2> QED BY <1>5, <2>1, <2>2, SMT DEF InMonth
<1>7. PICK e : e = DaysBefore(mm) + k
  OBVIOUS
<1>8. /\ (5 * e + 2) \div 153 = mm /\ e - DaysBefore(mm) = k /\ e \in 0..365
      /\ e = 365 => mm = 11 /\ k = 28
  <2>1. MonthFound(mm, k, e)
    BY <1>6, <1>7, MonthsOf, Zenon
  <2> QED BY <2>1, SMT DEF MonthFound
<1>9. e = 365 => Dt!IsLeap(my + 1)
  <2>1. ASSUME mm = 11, k = 28 PROVE Dt!IsLeap(my + 1)
    <3>1. m = 2 /\ my + 1 = y + 4800 /\ day = 29
      BY <1>3, <1>5, <2>1, SMT DEF MarchMonth, MarchYear
    <3>2. Dt!IsLeap(y)
      BY <1>1, <3>1, SMT DEF Dt!MonthLength
    <3> QED BY <3>1, <3>2, LeapShifted, SMT
  <2> QED BY <1>8, <2>1
<1>10. PICK n \in Nat, b \in 0..3, q \in 0..24, r \in 0..3 : PartsOfYear(my, n, b, q, r)
  BY YearParts, Zenon
<1>11. /\ Years(my) = YearsByParts(n, b, q, r)
       /\ Dt!IsLeap(my + 1) => r = 3 /\ (q = 24 => b = 3)
  <2>1. Years(my) = YearsByParts(n, b, q, r) /\ LeapLast(my, b, q, r)
    BY <1>10, YearsSplit, Zenon
  <2> QED BY <2>1 DEF LeapLast
<1>12. PICK p : p = 4 * q + r
  OBVIOUS
<1>13. PICK s : s = 365 * p + q + e
  OBVIOUS
<1>14. s \in Nat
  BY <1>8, <1>13, <1>12, SMT
<1>15. s <= 36524 /\ (b < 3 => s <= 36523)
  <2>1. CASE e = 365
    <3>1. r = 3 /\ (q = 24 => b = 3)
      BY <1>9, <1>11, <2>1
    <3> QED BY <1>13, <1>12, <2>1, <3>1, SMT
  <2>2. CASE e # 365
    <3>1. e \in 0..364
      BY <1>8, <2>2, SMT
    <3> QED BY <1>13, <1>12, <3>1, SMT
  <2> QED BY <2>1, <2>2
<1>16. PICK a : a = 146097 * n + 36524 * b + s
  OBVIOUS
<1>17. a \in Int
  BY <1>14, <1>16, SMT
<1>18. Dt!Julian(d) + 32044 = a
  <2>1. DaysBefore(mm) \in Int
    BY CountsAreNumbers
  <2> QED BY <1>4, <1>5, <1>7, <1>11, <1>13, <1>16, <1>12, <2>1, SMT DEF FromMarch, YearsByParts
<1>19. PICK c : c = 4 * n + b
  OBVIOUS
<1>20. (4 * a + 3) \div 146097 = c /\ a - ((c * 146097) \div 4) = s
  BY <1>14, <1>15, <1>16, <1>17, <1>19, CenturiesOf, SMT
<1>21. (4 * s + 3) \div 1461 = p /\ s - ((1461 * p) \div 4) = e
  <2>1. e = 365 => r = 3
    BY <1>9, <1>11
  <2>2. e \in 0..365 /\ s \in Int
    BY <1>8, <1>14
  <2>3. YearFound(p, s, e)
    BY <1>13, <1>12, <2>1, <2>2, YearsOf, Zenon
  <2> QED BY <2>3, SMT DEF YearFound
<1>22. c \in Int /\ p \in Int /\ e \in Int /\ s \in Int /\ Dt!Julian(d) \in Int
  BY <1>8, <1>14, <1>19, <1>12, NextDayCounted, SMT
<1>23. PICK j : j = Dt!Julian(d)
  OBVIOUS
<1>24. Dt!getYearMonthDay(j) = DateFrom(c, p, e, mm)
  <2>1. Lines(j, a, c, s, p, e, mm)
    BY <1>8, <1>17, <1>18, <1>20, <1>21, <1>22, <1>23, SMT DEF Lines
  <2> QED BY <2>1, DateOf, Zenon
<1>25. mm \div 10 = IF m <= 2 THEN 1 ELSE 0
  BY <1>3, SMT DEF MarchMonth
<1>26. c * 100 + p - 4800 + mm \div 10 = y
  <2>1. c * 100 + p = my
    BY <1>10, <1>19, <1>12, SMT DEF PartsOfYear
  <2> QED BY <1>3, <1>19, <1>12, <1>25, <2>1, SMT DEF MarchYear
<1>27. mm + 3 - 12 * (mm \div 10) = m
  BY <1>3, <1>25, SMT DEF MarchMonth
<1>28. e - ((153 * mm + 2) \div 5) + 1 = day
  BY <1>5, <1>8, SMT DEF DaysBefore
<1> QED BY <1>1, <1>24, <1>26, <1>27, <1>28, <1>23, SMT DEF DateFrom

\* The division of C++, which rounds towards zero, and its correction give the day and the
\* second of it, also before 1970.
LEMMA TimeSplit ==
    ASSUME NEW day \in Int, NEW sod \in Nat, sod < 86400
    PROVE  Dt!SplitTime(day * Dt!kSecondsPerDay + sod) = [days |-> day, seconds |-> sod]
<1>1. PICK t : t = day * 86400 + sod
  OBVIOUS
<1>2. t \in Int
  BY <1>1, SMT
<1>3. PICK n : n = Dt!kSecondsPerDay
  OBVIOUS
<1>4. n = 86400 /\ day * n + sod = t
  BY <1>1, <1>3, SMT DEF Dt!kSecondsPerDay
<1>5. Dt!SplitTime(t) =
          IF Dt!Remainder(t, n) < 0
          THEN [days |-> Dt!Quotient(t, n) - 1, seconds |-> Dt!Remainder(t, n) + n]
          ELSE [days |-> Dt!Quotient(t, n), seconds |-> Dt!Remainder(t, n)]
  BY <1>3, SMT DEF Dt!SplitTime
<1>6. CASE t >= 0
  <2>1. t \div 86400 = day
    BY <1>1, <1>2, <1>6, SMTT(20)
  <2>2. Dt!Quotient(t, n) = day
    BY <1>4, <1>6, <2>1, SMT DEF Dt!Quotient
  <2>3. Dt!Remainder(t, n) = sod
    BY <1>1, <1>4, <2>2, SMT DEF Dt!Remainder
  <2> QED BY <1>3, <1>4, <1>5, <2>2, <2>3, SMT
<1>7. CASE ~(t >= 0) /\ sod = 0
  <2>1. PICK u : u = -t
    OBVIOUS
  <2>2. u \in Int /\ u = (-day) * 86400
    BY <1>1, <1>2, <1>7, <2>1, SMT
  <2>3. u \div 86400 = -day
    BY <2>2, SMTT(20)
  <2>4. Dt!Quotient(t, n) = day
    BY <1>4, <1>7, <2>1, <2>3, SMT DEF Dt!Quotient
  <2>5. Dt!Remainder(t, n) = sod
    BY <1>1, <1>4, <2>4, SMT DEF Dt!Remainder
  <2> QED BY <1>3, <1>4, <1>5, <2>4, <2>5, SMT
<1>8. CASE ~(t >= 0) /\ sod # 0
  <2>1. PICK u : u = -t
    OBVIOUS
  <2>2. u \in Int /\ u = (-day - 1) * 86400 + (86400 - sod)
    BY <1>1, <1>2, <1>8, <2>1, SMT
  <2>3. u \div 86400 = -day - 1
    BY <1>8, <2>2, SMTT(20)
  <2>4. Dt!Quotient(t, n) = day + 1
    BY <1>4, <1>8, <2>1, <2>3, SMT DEF Dt!Quotient
  <2>5. Dt!Remainder(t, n) = sod - 86400
    BY <1>1, <1>4, <2>4, SMT DEF Dt!Remainder
  <2>6. day + 1 - 1 = day /\ sod - 86400 + n = sod /\ sod - 86400 < 0
    BY <1>4, SMT
  <2> QED BY <1>3, <1>4, <1>5, <2>4, <2>5, <2>6, SMT
<1> QED BY <1>6, <1>7, <1>8, SMT

\* Hours, minutes and seconds.
LEMMA ClockSplit ==
    ASSUME NEW sod \in Nat, sod < 86400
    PROVE  /\ sod \div 3600 \in 0..23 /\ (sod \div 60) % 60 \in 0..59 /\ sod % 60 \in 0..59
           /\ (sod \div 3600) * 3600 + ((sod \div 60) % 60) * 60 + (sod % 60) = sod
<1>1. PICK h : h = sod \div 3600
  OBVIOUS
<1>2. PICK u : u = sod % 3600
  OBVIOUS
<1>3. h \in 0..23 /\ u \in Nat /\ u < 3600 /\ sod = 3600 * h + u
  BY <1>1, <1>2, SMT
<1>4. PICK i : i = u \div 60
  OBVIOUS
<1>5. PICK s : s = u % 60
  OBVIOUS
<1>6. i \in 0..59 /\ s \in 0..59 /\ u = 60 * i + s
  BY <1>3, <1>4, <1>5, SMT
<1>7. PICK j : j = 60 * h + i
  OBVIOUS
<1>8. j \in Int /\ sod = 60 * j + s
  BY <1>3, <1>6, <1>7, SMT
<1>9. sod \div 60 = j /\ sod % 60 = s
  BY <1>6, <1>8, SMT
<1>10. j % 60 = i
  BY <1>3, <1>6, <1>7, SMT
<1> QED BY <1>1, <1>3, <1>6, <1>9, <1>10, SMT

\* The reference counts days.
Counted(d, n) ==
    IsDay(d) /\ n \in Nat /\ Dt!Julian(d) = Dt!getJulianDayNumber(FirstYear, 1, 1) + n
DateInv ==
    /\ FirstYear \in Nat /\ \A sod \in TimesOfDay : sod \in Nat /\ sod < 86400
    /\ Counted(today, count)

\* Days of the week repeat themselves.
LEMMA WeekOf == \A j \in Int : (j + 1 + 1) % 7 = (((j + 1) % 7) + 1) % 7
BY SMT

\* 1 January 1970.
LEMMA Epoch == Dt!kJulianDayOf1970_01_01 = 2440588
BY SMT DEF Dt!kJulianDayOf1970_01_01, Dt!getJulianDayNumber

\* A Julian day number is a number.
LEMMA JulianIsNumber == \A y \in Nat : Dt!getJulianDayNumber(y, 1, 1) \in Int
<1>1. ASSUME NEW y \in Nat PROVE Dt!getJulianDayNumber(y, 1, 1) \in Int
  <2>1. 1 \in Int /\ 1 \in 1..12
    OBVIOUS
  <2>2. PICK mm \in 0..11, my \in Nat : mm = MarchMonth(1) /\ my = MarchYear(y, 1)
    BY <2>1, MarchTypes, Zenon
  <2>3. Dt!getJulianDayNumber(y, 1, 1) = FromMarch(my, mm, 1)
    BY <2>1, <2>2, JulianOf, Zenon
  <2>4. DaysBefore(mm) \in Int /\ Years(my) \in Int
    BY CountsAreNumbers
  <2> QED BY <2>3, <2>4, SMT DEF FromMarch
<1> QED BY <1>1

\* What toUtcTime promises of a second of a day, and what the day is.
UtcRight(utc, t, sod, d, yday) ==
    /\ utc.date = d /\ utc.yday = yday
    /\ utc.hour * 3600 + utc.min * 60 + utc.sec = sod
    /\ utc.hour \in 0..23 /\ utc.min \in 0..59 /\ utc.sec \in 0..59
    /\ Dt!fromUtcTime(utc) = t
SecondOfDay(sod) == sod \in Nat /\ sod < 86400
NumberedDay(day, d, j, jan) ==
    /\ day \in Int /\ j \in Int /\ jan \in Int
    /\ day + Dt!kJulianDayOf1970_01_01 = j /\ Dt!getYearMonthDay(j) = d
    /\ Dt!getJulianDayNumber(d.year, d.month, d.day) = j
    /\ jan = Dt!getJulianDayNumber(d.year, 1, 1)

\* toUtcTime and back, for a second of a day.
LEMMA UtcOf ==
    ASSUME NEW day, NEW d, NEW j, NEW jan, NumberedDay(day, d, j, jan),
           NEW sod, SecondOfDay(sod), NEW t, t = day * Dt!kSecondsPerDay + sod,
           NEW utc, utc = Dt!toUtcTime(t)
    PROVE  UtcRight(utc, t, sod, d, j - jan)
<1>1. PICK epoch : epoch = Dt!kJulianDayOf1970_01_01
  OBVIOUS
<1>2. /\ day \in Int /\ j \in Int /\ jan \in Int /\ epoch \in Int
       /\ day + epoch = j /\ Dt!getYearMonthDay(j) = d
       /\ Dt!getJulianDayNumber(d.year, d.month, d.day) = j
       /\ jan = Dt!getJulianDayNumber(d.year, 1, 1)
       /\ sod \in Nat /\ sod < 86400
  BY <1>1, Epoch, SMT DEF NumberedDay, SecondOfDay
<1>3. Dt!SplitTime(t) = [days |-> day, seconds |-> sod]
  BY <1>2, TimeSplit, SMT
<1>4. Dt!SplitTime(t).days = day /\ Dt!SplitTime(t).seconds = sod
  BY <1>3
<1>5. utc = [date |-> d, sec |-> sod % 60, min |-> (sod \div 60) % 60, hour |-> sod \div 3600,
             wday |-> Dt!weekDay(j), yday |-> j - jan]
  BY <1>1, <1>4, <1>2, SMT DEF Dt!toUtcTime
<1>6. /\ utc.date = d /\ utc.sec = sod % 60 /\ utc.min = (sod \div 60) % 60
      /\ utc.hour = sod \div 3600 /\ utc.yday = j - jan
  BY <1>5, SMT
<1>7. /\ utc.hour \in 0..23 /\ utc.min \in 0..59 /\ utc.sec \in 0..59
      /\ utc.hour * 3600 + utc.min * 60 + utc.sec = sod
  BY <1>6, <1>2, ClockSplit, SMT
<1>8. Dt!fromUtcTime(utc) = t
  <2>1. Dt!fromUtcTime(utc) =
            (j - epoch) * Dt!kSecondsPerDay + utc.hour * 3600 + utc.min * 60 + utc.sec
    BY <1>1, <1>6, <1>2, SMT DEF Dt!fromUtcTime
  <2>2. PICK n : n = Dt!kSecondsPerDay
    OBVIOUS
  <2>3. n = 86400 /\ t = day * n + sod
    BY <1>2, <2>2, SMT DEF Dt!kSecondsPerDay
  <2>4. j - epoch = day
    BY <1>2, SMT
  <2>5. Dt!fromUtcTime(utc) = day * n + utc.hour * 3600 + utc.min * 60 + utc.sec
    BY <2>1, <2>2, <2>4
  <2>6. PICK h : h = utc.hour
    OBVIOUS
  <2>7. PICK m : m = utc.min
    OBVIOUS
  <2>8. PICK s : s = utc.sec
    OBVIOUS
  <2>9. /\ h \in Int /\ m \in Int /\ s \in Int /\ h * 3600 + m * 60 + s = sod
        /\ Dt!fromUtcTime(utc) = day * n + h * 3600 + m * 60 + s
    BY <1>7, <2>5, <2>6, <2>7, <2>8, SMT
  <2>10. day * n \in Int
    BY <1>2, <2>3, SMT
  <2>11. \A x \in Int : x + h * 3600 + m * 60 + s = x + (h * 3600 + m * 60 + s)
    BY <2>9, SMT
  <2> QED BY <2>3, <2>9, <2>10, <2>11, SMT
<1> QED BY <1>6, <1>7, <1>8, SMT DEF UtcRight

\* What the formulas promise of one day.
LEMMA DateHolds ==
    ASSUME DateInv
    PROVE  Dt!DaysCounted /\ Dt!WeekDaysFollow /\ Dt!UtcRoundTrip
<1>1. /\ IsDay(today) /\ count \in Nat /\ FirstYear \in Nat
      /\ Dt!Julian(today) = Dt!getJulianDayNumber(FirstYear, 1, 1) + count
  BY SMT DEF DateInv, Counted
<1>2. \A sod \in TimesOfDay : SecondOfDay(sod)
  BY SMT DEF DateInv, SecondOfDay
<1>3. /\ Dt!getYearMonthDay(Dt!Julian(today)) = today
      /\ Dt!Julian(Dt!NextDay(today)) = Dt!Julian(today) + 1 /\ Dt!Julian(today) \in Int
  BY <1>1, DayFound, NextDayCounted, Zenon
<1>4. PICK j : j = Dt!Julian(today)
  OBVIOUS
<1>5. Dt!DaysCounted
  BY <1>1, <1>3, Zenon DEF Dt!DaysCounted
<1>6. Dt!WeekDaysFollow
  <2>1. (2440588 + 1) % 7 = 4
    BY SMT
  <2>2. Dt!weekDay(Dt!kJulianDayOf1970_01_01) = 4
    BY <2>1, Epoch, SMT DEF Dt!weekDay, Dt!kDaysPerWeek
  <2>3. Dt!weekDay(j + 1) = (Dt!weekDay(j) + 1) % Dt!kDaysPerWeek
    BY <1>3, <1>4, WeekOf, SMT DEF Dt!weekDay, Dt!kDaysPerWeek
  <2> QED BY <1>3, <1>4, <2>2, <2>3, Zenon DEF Dt!WeekDaysFollow
<1>7. Dt!UtcRoundTrip
  <2>1. PICK epoch : epoch = Dt!kJulianDayOf1970_01_01
    OBVIOUS
  <2>2. PICK day : day = j - epoch
    OBVIOUS
  <2>3. epoch \in Int /\ day \in Int /\ day + epoch = j /\ j \in Int
    BY <1>3, <1>4, <2>1, <2>2, Epoch, SMT
  <2>4. Dt!DayTime.day = day
    BY <1>4, <2>1, <2>2, Zenon DEF Dt!DayTime
  <2>5. PICK jan : jan = Dt!getJulianDayNumber(today.year, 1, 1)
    OBVIOUS
  <2>6. PICK f : f = Dt!getJulianDayNumber(FirstYear, 1, 1)
    OBVIOUS
  <2>7. jan \in Int /\ f \in Int
    <3>1. today.year \in Nat
      BY <1>1, Zenon DEF IsDay
    <3> QED BY <1>1, <2>5, <2>6, <3>1, JulianIsNumber, Zenon
  <2>8. Dt!YearDay = j - jan
    <3>1. Dt!YearDay = count - jan + f
      <4>1. Dt!Julian([year |-> today.year, month |-> 1, day |-> 1]) = jan
        BY <2>5, Zenon DEF Dt!Julian
      <4> QED BY <2>6, <4>1, Zenon DEF Dt!YearDay
    <3>2. j = f + count
      BY <1>1, <1>4, <2>6, Zenon
    <3> QED BY <1>1, <2>7, <3>1, <3>2, SMT
  <2>9. Dt!getYearMonthDay(j) = today /\ Dt!getJulianDayNumber(today.year, today.month, today.day) = j
    BY <1>3, <1>4, Zenon DEF Dt!Julian
  <2>10. ASSUME NEW sod \in TimesOfDay, NEW t, t = day * Dt!kSecondsPerDay + sod,
                NEW utc, utc = Dt!toUtcTime(t)
         PROVE  UtcRight(utc, t, sod, today, j - jan)
    <3>1. NumberedDay(day, today, j, jan)
      BY <2>1, <2>3, <2>5, <2>7, <2>9, Zenon DEF NumberedDay
    <3> QED BY <1>2, <2>10, <3>1, UtcOf, Zenon
  <2>11. \A sod \in TimesOfDay :
             UtcRight(Dt!toUtcTime(day * Dt!kSecondsPerDay + sod), day * Dt!kSecondsPerDay + sod,
                      sod, today, Dt!YearDay)
    <3>1. ASSUME NEW sod \in TimesOfDay
          PROVE  UtcRight(Dt!toUtcTime(day * Dt!kSecondsPerDay + sod),
                          day * Dt!kSecondsPerDay + sod, sod, today, Dt!YearDay)
      <4>1. PICK t : t = day * Dt!kSecondsPerDay + sod
        OBVIOUS
      <4>2. PICK utc : utc = Dt!toUtcTime(t)
        OBVIOUS
      <4>3. UtcRight(utc, t, sod, today, j - jan)
        BY <2>10, <4>1, <4>2
      <4> QED BY <2>8, <4>1, <4>2, <4>3, Zenon
    <3> QED BY <3>1
  <2>12. \A sod \in {sod \in TimesOfDay : Dt!DayTime.day \in -MaxDays..MaxDays} :
             UtcRight(Dt!toUtcTime(Dt!DayTime.day * Dt!kSecondsPerDay + sod),
                      Dt!DayTime.day * Dt!kSecondsPerDay + sod, sod, today, Dt!YearDay)
    BY <2>4, <2>11, Zenon
  <2> QED BY <2>12, SMT DEF Dt!UtcRoundTrip, UtcRight
<1> QED BY <1>5, <1>6, <1>7

\* The formulas of Date agree with the calendar on every day, from any year on, and the
\* conversions of toUtcTime and fromUtcTime are inverse to each other before and after 1970
\* (Date.cpp, TimeZone.cpp:344-378).
THEOREM DatesCounted ==
    Dt!YearAssumption /\ Dt!TimeAssumption /\ Dt!Spec =>
        [](Dt!DaysCounted /\ Dt!WeekDaysFollow /\ Dt!UtcRoundTrip)
<1>1. ASSUME Dt!YearAssumption, Dt!TimeAssumption, Dt!Init PROVE DateInv
  <2>1. today = [year |-> FirstYear, month |-> 1, day |-> 1] /\ count = 0 /\ FirstYear \in Nat
    BY <1>1, Zenon DEF Dt!Init, Dt!YearAssumption
  <2>6. \A sod \in TimesOfDay : sod \in Nat /\ sod < 86400
    <3>1. PICK n : n = Dt!kSecondsPerDay
      OBVIOUS
    <3>2. TimesOfDay \subseteq 0..(n - 1)
      BY <1>1, <3>1 DEF Dt!TimeAssumption
    <3>3. n \in Nat /\ n = 86400
      BY <3>1, SMT DEF Dt!kSecondsPerDay
    <3>4. n \in Nat
      BY <3>3
    <3>5. \A sod \in TimesOfDay : sod \in Nat /\ sod < n
      BY <3>2, <3>4, SMT
    <3> QED BY <3>3, <3>5, SMT
  <2>2. IsDay([year |-> FirstYear, month |-> 1, day |-> 1])
    <3>1. 1 <= Dt!MonthLength(FirstYear, 1)
      BY SMT DEF Dt!MonthLength
    <3>2. 1 \in 1..12 /\ 1 \in 1..31
      OBVIOUS
    <3> QED BY <2>1, <3>1, <3>2, DayIsDay, Zenon
  <2>3. Dt!Julian([year |-> FirstYear, month |-> 1, day |-> 1]) = Dt!getJulianDayNumber(FirstYear, 1, 1)
    BY Zenon DEF Dt!Julian
  <2>4. Dt!getJulianDayNumber(FirstYear, 1, 1) \in Int
    BY <2>1, JulianIsNumber, Zenon
  <2>5. Dt!Julian(today) = Dt!getJulianDayNumber(FirstYear, 1, 1) + count
    BY <2>1, <2>3, <2>4, SMT
  <2> QED BY <2>1, <2>2, <2>5, <2>6, SMT DEF DateInv, Counted
<1>2. ASSUME DateInv, [Dt!Next]_<<v1, v2>> PROVE DateInv'
  <2>1. CASE Dt!Next
    <3>1. PICK d : d = Dt!NextDay(today)
      OBVIOUS
    <3>2. today' = d /\ count' = count + 1
      BY <2>1, <3>1, Zenon DEF Dt!Next
    <3>3. IsDay(d) /\ Dt!Julian(d) = Dt!Julian(today) + 1
      BY <1>2, <3>1, NextDayCounted, SMT DEF DateInv, Counted
    <3>4. PICK f \in Int : f = Dt!getJulianDayNumber(FirstYear, 1, 1)
      BY <1>2, JulianIsNumber, SMT DEF DateInv, Counted
    <3>5. Dt!Julian(d) = f + (count + 1) /\ count + 1 \in Nat
      BY <1>2, <3>3, <3>4, SMT DEF DateInv, Counted
    <3>6. Counted(today', count')
      BY <3>2, <3>3, <3>4, <3>5, Zenon DEF Counted
    <3> QED BY <1>2, <3>6, SMT DEF DateInv
  <2>2. CASE UNCHANGED <<v1, v2>>
    <3>1. today' = today /\ count' = count
      BY <2>2
    <3>2. Counted(today', count')
      <4>1. Counted(today, count)
        BY <1>2 DEF DateInv
      <4> QED BY <3>1, <4>1, Zenon
    <3> QED BY <1>2, <3>2, SMT DEF DateInv
  <2> QED BY <1>2, <2>1, <2>2
<1>3. Dt!YearAssumption /\ Dt!TimeAssumption /\ Dt!Init => DateInv
  BY <1>1
<1>4. DateInv /\ [Dt!Next]_<<v1, v2>> => DateInv'
  BY <1>2
<1>5. DateInv => Dt!DaysCounted /\ Dt!WeekDaysFollow /\ Dt!UtcRoundTrip
  BY DateHolds
<1> QED BY <1>3, <1>4, <1>5, PTL DEF Dt!Spec

-----------------------------------------------------------------------------
(***************************************************************************)
(* Base: a behaviour is one of its part, and the part is no other one      *)
(* later, so that the theorems above hold of Base.                         *)
(***************************************************************************)

\* A behaviour of Base begins like one of its part.
LEMMA PartBegins ==
    ASSUME BaseInit
    PROVE  /\ part = "Buffer" => Buf!Init
           /\ part = "LogFile" => Lf!Init
           /\ part = "ReadSmallFile" => Rf!Init
           /\ part = "Logging" => Lg!Init
           /\ part = "Date" => Dt!Init
           /\ part = "TimeZone" => Tz!Init
           /\ part = "TimeZoneFile" => Tf!Init
           /\ part = "StringPiece" => Sp!Init
           /\ part = "InetAddress" => Ia!Init
           /\ part = "CountDownLatch" => La!LatchInit
           /\ part = "Thread" => Th!ThreadInit
           /\ part = "Singleton" => Sg!Init
BY Zenon DEF BaseInit

\* A step of Base is a step of its part.
LEMMA PartGoesOn ==
    ASSUME [BaseNext]_baseVars
    PROVE  /\ part' = part
           /\ part = "Buffer" => [Buf!Next]_(Buf!vars)
           /\ part = "LogFile" => [Lf!Next]_(Lf!vars)
           /\ part = "ReadSmallFile" => [Rf!Next]_(Rf!vars)
           /\ part = "Logging" => [Lg!Next]_(Lg!vars)
           /\ part = "Date" => [Dt!Next]_<<v1, v2>>
           /\ part = "TimeZone" => [Tz!Next]_(Tz!vars)
           /\ part = "TimeZoneFile" => [Tf!Next]_(Tf!vars)
           /\ part = "StringPiece" => [Sp!Next]_(Sp!vars)
           /\ part = "InetAddress" => [Ia!Next]_v1
           /\ part = "CountDownLatch" => [La!LatchNext]_(La!latchVars)
           /\ part = "Thread" => [Th!ThreadNext]_<<Th!latchVars, Th!threadVars>>
           /\ part = "Singleton" => [Sg!Next]_(Sg!vars)
<1>1. CASE BaseNext
  BY <1>1, Zenon DEF BaseNext
<1>2. CASE UNCHANGED baseVars
  <2>1. part' = part /\ v1' = v1 /\ v2' = v2 /\ v3' = v3 /\ v4' = v4 /\ v5' = v5 /\ v6' = v6
        /\ v7' = v7 /\ v8' = v8 /\ v9' = v9 /\ v10' = v10 /\ v11' = v11 /\ v12' = v12
    BY <1>2 DEF baseVars
  <2> QED BY <2>1 DEF Buf!vars, Lf!vars, Rf!vars, Lg!vars, Tz!vars, Tf!vars, Sp!vars,
             La!latchVars, Th!latchVars, Th!threadVars, Sg!vars
<1> QED BY <1>1, <1>2

\* Threads, latches and the objects that are made once keep their promises: the invariant of
\* Base for any threads and counts.
THEOREM BaseThreadsInStep == BaseSpec => []ThreadsInStep
<1>1. BaseInit => /\ part = "CountDownLatch" => La!LatchInit
                  /\ part = "Thread" => Th!ThreadInit
                  /\ part = "Singleton" => Sg!Init
  BY PartBegins
<1>2. [BaseNext]_baseVars =>
          /\ part = "CountDownLatch" => (part = "CountDownLatch")' /\ [La!LatchNext]_(La!latchVars)
          /\ ~(part = "CountDownLatch") => ~(part = "CountDownLatch")'
          /\ part = "Thread" => (part = "Thread")' /\ [Th!ThreadNext]_<<Th!latchVars, Th!threadVars>>
          /\ ~(part = "Thread") => ~(part = "Thread")'
          /\ part = "Singleton" => (part = "Singleton")' /\ [Sg!Next]_(Sg!vars)
          /\ ~(part = "Singleton") => ~(part = "Singleton")'
  BY PartGoesOn
<1>3. LatchConstants /\ Th!LatchAssumption /\ SingletonConstants
  BY BaseAssumption DEF LatchConstants, SingletonConstants
<1>4. /\ ~(part = "CountDownLatch") /\ ~(part = "Thread") /\ ~(part = "Singleton") => ThreadsInStep
      /\ part = "CountDownLatch" /\ La!HolderInStep /\ La!OpensOnce => ThreadsInStep
      /\ part = "Thread" /\ Th!HolderInStep /\ Th!ObjectOutlived => ThreadsInStep
      /\ part = "Singleton" /\ Sg!OneObject /\ Sg!OnePerThread => ThreadsInStep
  BY DEF ThreadsInStep
<1>5. LatchConstants /\ La!LatchSpec => [](La!HolderInStep /\ La!OpensOnce)
  BY LatchHolderInStep, LatchOpensOnce, PTL
<1>6. Th!LatchAssumption /\ Th!ThreadSpec => [](Th!HolderInStep /\ Th!ObjectOutlived)
  BY ThreadObjectOutlived, ThreadHolderInStep, PTL
<1>7. SingletonConstants /\ Sg!Spec => [](Sg!OneObject /\ Sg!OnePerThread)
  BY SingletonOneObject, SingletonOnePerThread, PTL
<1> QED BY <1>1, <1>2, <1>3, <1>4, <1>5, <1>6, <1>7, PTL
        DEF BaseSpec, La!LatchSpec, Th!ThreadSpec, Sg!Spec

\* What the logs and the readers of files promise holds of Base: the invariant for any sizes,
\* times, threads and numbers of lines and transitions.
THEOREM BaseFilesTruthful == BaseSpec => []FilesTruthful
<1>1. BaseInit => /\ part = "Logging" => Lg!Init
                  /\ part = "LogFile" => Lf!Init
                  /\ part = "ReadSmallFile" => Rf!Init
                  /\ part = "TimeZoneFile" => Tf!Init
  BY PartBegins
<1>2. [BaseNext]_baseVars =>
          /\ part = "Logging" => (part = "Logging")' /\ [Lg!Next]_(Lg!vars)
          /\ ~(part = "Logging") => ~(part = "Logging")'
          /\ part = "LogFile" => (part = "LogFile")' /\ [Lf!Next]_(Lf!vars)
          /\ ~(part = "LogFile") => ~(part = "LogFile")'
          /\ part = "ReadSmallFile" => (part = "ReadSmallFile")' /\ [Rf!Next]_(Rf!vars)
          /\ ~(part = "ReadSmallFile") => ~(part = "ReadSmallFile")'
          /\ part = "TimeZoneFile" => (part = "TimeZoneFile")' /\ [Tf!Next]_(Tf!vars)
          /\ ~(part = "TimeZoneFile") => ~(part = "TimeZoneFile")'
  BY PartGoesOn
<1>3. Lf!SizeAssumption /\ Rf!SizeAssumption /\ Tf!CountAssumption
  BY BaseAssumption
<1>4. /\ ~(part = "Logging") /\ ~(part = "LogFile") /\ ~(part = "ReadSmallFile")
         /\ ~(part = "TimeZoneFile") => FilesTruthful
      /\ part = "Logging" /\ Lg!TimesTruthful /\ Lg!FatalSurvives => FilesTruthful
      /\ part = "LogFile" /\ Lf!TypeOK /\ Lf!LinesInOrder /\ Lf!TooLongOnlyBriefly
         /\ Lf!FlushedInTime /\ Lf!ClosedIsFlushed /\ Lf!PeriodKept => FilesTruthful
      /\ part = "ReadSmallFile" /\ Rf!ContentIsBeginning /\ Rf!BufferTerminated
         /\ Rf!FailureReported => FilesTruthful
      /\ part = "TimeZoneFile" /\ Tf!NothingHalfRead => FilesTruthful
  BY DEF FilesTruthful
<1>5. Lg!Spec => [](Lg!TimesTruthful /\ Lg!FatalSurvives)
  BY LoggingTimesTruthful, LoggingFatalSurvives, PTL
<1>6. Lf!SizeAssumption /\ LogFileInv =>
          /\ Lf!TypeOK /\ Lf!LinesInOrder /\ Lf!TooLongOnlyBriefly
          /\ Lf!FlushedInTime /\ Lf!ClosedIsFlushed /\ Lf!PeriodKept
  BY LogFileTypesHold, LogFileHolds
<1>7. Lf!Spec => [](/\ Lf!TypeOK /\ Lf!LinesInOrder /\ Lf!TooLongOnlyBriefly
                    /\ Lf!FlushedInTime /\ Lf!ClosedIsFlushed /\ Lf!PeriodKept)
  <2>1. LogFileInv =>
            /\ Lf!TypeOK /\ Lf!LinesInOrder /\ Lf!TooLongOnlyBriefly
            /\ Lf!FlushedInTime /\ Lf!ClosedIsFlushed /\ Lf!PeriodKept
    BY <1>3, <1>6
  <2>2. Lf!Spec => []LogFileInv
    BY <1>3, LogFileInvariant
  <2> QED BY <2>1, <2>2, PTL
<1>8. Rf!Spec => [](Rf!ContentIsBeginning /\ Rf!BufferTerminated /\ Rf!FailureReported)
  <2>1. Rf!Spec => []Rf!ContentIsBeginning
    BY <1>3, ReadContentIsBeginning
  <2>2. Rf!Spec => [](Rf!BufferTerminated /\ Rf!FailureReported)
    BY <1>3, ReadBufferTerminated
  <2> QED BY <2>1, <2>2, PTL
<1>9. Tf!CountAssumption /\ Tf!Spec => []Tf!NothingHalfRead
  BY ZoneFileNothingHalfRead
<1> QED BY <1>1, <1>2, <1>3, <1>4, <1>5, <1>7, <1>8, <1>9, PTL
        DEF BaseSpec, Lg!Spec, Lf!Spec, Rf!Spec, Tf!Spec

\* The asserts of Buffer hold and it is the queue of bytes that its callers take it for: the
\* invariant of Base for any sizes, bytes and widths.
THEOREM BaseBufferContent == BaseSpec => []BufferContent
<1>1. BaseInit => (part = "Buffer" => Buf!Init)
  BY PartBegins
<1>2. [BaseNext]_baseVars =>
          /\ part = "Buffer" => (part = "Buffer")' /\ [Buf!Next]_(Buf!vars)
          /\ ~(part = "Buffer") => ~(part = "Buffer")'
  BY PartGoesOn
<1>3. BufferConstants /\ ByteConstants
  BY BaseAssumption DEF BufferConstants, ByteConstants
<1>4. /\ ~(part = "Buffer") => BufferContent
      /\ part = "Buffer" /\ Buf!TypeOK /\ Buf!AssertsHold /\ Buf!ContentKept
         /\ Buf!LineEndsFound => BufferContent
  BY DEF BufferContent
<1>5. Buf!Spec => []Buf!TypeOK
  BY <1>3, BufferTypes, PTL
<1>6. Buf!Spec => [](Buf!AssertsHold /\ Buf!ContentKept)
  BY <1>3, BufferContentKept
<1>7. Buf!Spec => []Buf!LineEndsFound
  BY <1>3, BufferLineEndsFound
<1> QED BY <1>1, <1>2, <1>4, <1>5, <1>6, <1>7, PTL DEF BaseSpec, Buf!Spec

\* Every conversion of dates, times, addresses and strings is right: the invariant of Base for any
\* years, zones, addresses and texts.
THEOREM BaseConversionsExact == BaseSpec => []ConversionsExact
<1>1. BaseInit => /\ part = "Date" => Dt!Init
                  /\ part = "TimeZone" => Tz!Init
                  /\ part = "StringPiece" => Sp!Init
                  /\ part = "InetAddress" => Ia!Init
  BY PartBegins
<1>2. [BaseNext]_baseVars =>
          /\ part = "Date" => (part = "Date")' /\ [Dt!Next]_<<v1, v2>>
          /\ ~(part = "Date") => ~(part = "Date")'
          /\ part = "TimeZone" => (part = "TimeZone")' /\ [Tz!Next]_(Tz!vars)
          /\ ~(part = "TimeZone") => ~(part = "TimeZone")'
          /\ part = "StringPiece" => (part = "StringPiece")' /\ [Sp!Next]_(Sp!vars)
          /\ ~(part = "StringPiece") => ~(part = "StringPiece")'
          /\ part = "InetAddress" => (part = "InetAddress")' /\ [Ia!Next]_v1
          /\ ~(part = "InetAddress") => ~(part = "InetAddress")'
  BY PartGoesOn
<1>3. /\ Dt!YearAssumption /\ Dt!TimeAssumption /\ Tz!TimeAssumption
      /\ Sp!TextAssumption /\ Ia!AddressAssumption
  BY BaseAssumption
<1>4. /\ ~(part = "Date") /\ ~(part = "TimeZone") /\ ~(part = "StringPiece")
         /\ ~(part = "InetAddress") => ConversionsExact
      /\ part = "Date" /\ Dt!DaysCounted /\ Dt!WeekDaysFollow /\ Dt!UtcRoundTrip
         => ConversionsExact
      /\ part = "TimeZone" /\ Tz!LocalRoundTrip /\ Tz!ClockChanges => ConversionsExact
      /\ part = "StringPiece" /\ Sp!OneOrder /\ Sp!WithinText => ConversionsExact
      /\ part = "InetAddress" /\ Ia!AddressKept /\ Ia!TextIdentifies => ConversionsExact
  BY Zenon DEF ConversionsExact
<1>5. Dt!Spec => [](Dt!DaysCounted /\ Dt!WeekDaysFollow /\ Dt!UtcRoundTrip)
  BY <1>3, DatesCounted, PTL
<1>6. Tz!Spec => [](Tz!LocalRoundTrip /\ Tz!ClockChanges)
  BY <1>3, ZonesConvert, PTL
<1>7. Sp!Spec => [](Sp!OneOrder /\ Sp!WithinText)
  BY <1>3, PiecesOrdered, PTL
<1>8. Ia!Spec => [](Ia!AddressKept /\ Ia!TextIdentifies)
  BY <1>3, AddressesIdentified, PTL
<1> QED BY <1>1, <1>2, <1>4, <1>5, <1>6, <1>7, <1>8, PTL
        DEF BaseSpec, Dt!Spec, Tz!Spec, Tz!vars, Sp!Spec, Ia!Spec

=============================================================================
