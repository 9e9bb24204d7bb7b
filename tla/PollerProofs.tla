----------------------------- MODULE PollerProofs -----------------------------
(***************************************************************************)
(* Proofs about the pollers, for any finite set of descriptors: what       *)
(* index_ of a channel says is always true, no assert and no epoll_ctl     *)
(* fails, and both pollers implement Poller; and about Dispatch: the loop  *)
(* follows pointers to live channels only, and uses its poller as the      *)
(* pollers are meant to be used.                                           *)
(***************************************************************************)
EXTENDS Dispatch, SequenceTheorems, FiniteSetTheorems, TLAPS

EventSets == SUBSET {"read", "write"}

-----------------------------------------------------------------------------
(***************************************************************************)
(* EPollPoller.                                                            *)
(***************************************************************************)

\* What has to hold of EPollPoller is inductive as it stands.
EPollInv == ePollPoller!IndexInStep /\ ePollPoller!NoFailure

\* A call of Channel::enable... or disable... keeps the epoll set and index_ in step.
LEMMA EPollSetEvents ==
    ASSUME EPollInv, NEW fd \in Fds, NEW ev \in EventSets, ePollPoller!SetEvents(fd, ev)
    PROVE  EPollInv'
<1> USE DEF EPollInv, EventSets, ePollPoller!IndexInStep, ePollPoller!NoFailure,
        ePollPoller!TypeOK, ePollPoller!RemovedIsForgotten, ePollPoller!InKernel,
        ePollPoller!Absent, ePollPoller!Events
<1>1. ev # {"absent"}
  OBVIOUS
<1>2. CASE index_[fd] \in {"kNew", "kDeleted"}
  <2>1. epoll[fd] = {"absent"}
    BY <1>2
  <2>2. /\ epoll' = [epoll EXCEPT ![fd] = ev]
        /\ asserted' = {}
        /\ index_' = [index_ EXCEPT ![fd] = "kAdded"]
        /\ channels_' = channels_ \cup {fd}
    BY <1>2, <2>1 DEF ePollPoller!SetEvents, ePollPoller!UpdateChannel, ePollPoller!Ctl
  <2> QED BY <1>1, <2>2 DEF ePollPoller!SetEvents
<1>3. CASE index_[fd] = "kAdded"
  <2>1. epoll[fd] # {"absent"} /\ fd \in channels_
    BY <1>3
  <2>2. /\ asserted' = {}
        /\ channels_' = channels_
    BY <1>3, <2>1 DEF ePollPoller!SetEvents, ePollPoller!UpdateChannel, ePollPoller!Ctl
  <2>3. CASE ev = {}
    <3>1. /\ epoll' = [epoll EXCEPT ![fd] = {"absent"}]
          /\ index_' = [index_ EXCEPT ![fd] = "kDeleted"]
      BY <1>3, <2>3 DEF ePollPoller!SetEvents, ePollPoller!UpdateChannel, ePollPoller!Ctl
    <3> QED BY <2>1, <2>2, <2>3, <3>1 DEF ePollPoller!SetEvents
  <2>4. CASE ev # {}
    <3>1. /\ epoll' = [epoll EXCEPT ![fd] = ev]
          /\ index_' = [index_ EXCEPT ![fd] = "kAdded"]
      BY <1>3, <2>4 DEF ePollPoller!SetEvents, ePollPoller!UpdateChannel, ePollPoller!Ctl
    <3> QED BY <1>1, <2>1, <2>2, <3>1 DEF ePollPoller!SetEvents
  <2> QED BY <2>3, <2>4
<1> QED BY <1>2, <1>3

\* So does Channel::remove.
LEMMA EPollRemove ==
    ASSUME EPollInv, NEW fd \in Fds, ePollPoller!Remove(fd)
    PROVE  EPollInv'
BY DEF EPollInv, ePollPoller!IndexInStep, ePollPoller!NoFailure, ePollPoller!TypeOK,
       ePollPoller!RemovedIsForgotten, ePollPoller!InKernel, ePollPoller!Absent,
       ePollPoller!Events, ePollPoller!Remove, ePollPoller!RemoveChannel, ePollPoller!Ctl

\* The kernel reports channels of the map only, and the list stays within its bound.
LEMMA EPollPoll ==
    ASSUME EPollInv, NEW reported \in SUBSET Fds, ePollPoller!Poll(reported)
    PROVE  EPollInv'
<1> USE DEF EPollInv, ePollPoller!IndexInStep, ePollPoller!NoFailure, ePollPoller!TypeOK,
        ePollPoller!RemovedIsForgotten, ePollPoller!InKernel
<1>1. reported \subseteq channels_
  BY DEF ePollPoller!Poll
<1>2. listSize' \in kInitEventListSize..MaxEventListSize
  BY SizeAssumption DEF ePollPoller!Poll
<1> QED BY <1>1, <1>2 DEF ePollPoller!Poll

\* Every step of EPollPoller keeps the invariant.
LEMMA EPollNext ==
    ASSUME EPollInv, ePollPoller!Next
    PROVE  EPollInv'
<1>1. ASSUME NEW fd \in Fds, NEW e \in ePollPoller!Events,
             ePollPoller!Enable(fd, e) \/ ePollPoller!Disable(fd, e)
      PROVE  EPollInv'
  <2>1. events_[fd] \cup {e} \in EventSets /\ events_[fd] \ {e} \in EventSets
    BY <1>1 DEF EventSets, ePollPoller!Events, EPollInv, ePollPoller!IndexInStep, ePollPoller!TypeOK
  <2> QED BY <1>1, <2>1, EPollSetEvents DEF ePollPoller!Enable, ePollPoller!Disable
<1>2. ASSUME NEW fd \in Fds, ePollPoller!DisableAll(fd) PROVE EPollInv'
  BY <1>2, EPollSetEvents DEF ePollPoller!DisableAll, EventSets
<1> QED BY <1>1, <1>2, EPollRemove, EPollPoll DEF ePollPoller!Next

-----------------------------------------------------------------------------
(***************************************************************************)
(* PollPoller.                                                             *)
(***************************************************************************)

\* the entry of a channel of the map
Entry(fd) == [fd |-> IF events_[fd] = {} THEN -fd - 1 ELSE fd, events |-> events_[fd]]

Entries == [fd : Int, events : EventSets]

\* pollfds_ and the map name each other: the entry at index_ is that of the channel, and
\* there are as many entries as channels.
PollInv ==
    /\ events_ \in [Fds -> EventSets]
    /\ index_ \in [Fds -> -1..Cardinality(Fds)]
    /\ channels_ \subseteq Fds
    /\ pollfds_ \in Seq(Entries)
    /\ Len(pollfds_) = Cardinality(channels_)
    /\ \A fd \in channels_ :
          index_[fd] \in 0..Len(pollfds_) - 1 /\ pollfds_[index_[fd] + 1] = Entry(fd)
    /\ \A i \in 1..Len(pollfds_) : \E fd \in channels_ : index_[fd] = i - 1
    /\ asserted = {}

\* The size of the map is a natural number, at most that of the set of descriptors.
LEMMA MapFinite ==
    ASSUME NEW channels \in SUBSET Fds
    PROVE  /\ IsFiniteSet(channels)
           /\ Cardinality(channels) \in Nat /\ Cardinality(Fds) \in Nat
           /\ Cardinality(channels) <= Cardinality(Fds)
           /\ channels # Fds => Cardinality(channels) < Cardinality(Fds)
<1>1. /\ IsFiniteSet(channels)
      /\ Cardinality(channels) <= Cardinality(Fds)
      /\ Cardinality(Fds) = Cardinality(channels) => Fds = channels
  BY FdAssumption, FS_Subset
<1>2. Cardinality(channels) \in Nat /\ Cardinality(Fds) \in Nat
  BY <1>1, FdAssumption, FS_CardinalityType
<1> QED BY <1>1, <1>2

\* Two channels have different entries, so they have different positions.
LEMMA PositionsDiffer ==
    ASSUME PollInv, NEW f \in channels_, NEW g \in channels_, index_[f] = index_[g]
    PROVE  f = g
<1>1. Entry(f) = Entry(g)
  BY DEF PollInv
<1>2. Entry(f).fd = Entry(g).fd /\ Entry(f).events = Entry(g).events
  BY <1>1
<1>3. f \in Nat /\ g \in Nat
  BY FdAssumption DEF PollInv
<1> QED BY <1>2, <1>3 DEF Entry

\* The descriptor of an entry, ignored or not, tells whose it is.
LEMMA StoredOfEntry ==
    ASSUME NEW fd \in Fds
    PROVE  /\ Entry(fd).fd \in Int
           /\ pollPoller!Stored(Entry(fd).fd) = fd
           /\ Entry(fd).fd \in {fd, pollPoller!Ignored(fd)}
           /\ Entry(fd).fd < 0 <=> events_[fd] = {}
BY FdAssumption DEF Entry, pollPoller!Stored, pollPoller!Ignored

\* Cardinality means the same inside the instance.
LEMMA SameCardinality == \A S : pollPoller!Cardinality(S) = Cardinality(S)
BY DEF Cardinality, pollPoller!Cardinality

\* The invariant has what the run checks.
LEMMA PollInvMeans ==
    ASSUME PollInv
    PROVE  pollPoller!IndexInStep /\ pollPoller!NoFailure
<1>1. Len(pollfds_) \in Nat /\ Cardinality(Fds) \in Nat /\ Len(pollfds_) <= Cardinality(Fds)
  BY MapFinite DEF PollInv
<1>2. \A i \in 1..Len(pollfds_) : pollPoller!Stored(pollfds_[i].fd) \in Fds
  <2>1. TAKE i \in 1..Len(pollfds_)
  <2>2. PICK fd \in channels_ : index_[fd] = i - 1
    BY DEF PollInv
  <2>3. pollfds_[i] = Entry(fd) /\ fd \in Fds
    BY <2>2 DEF PollInv
  <2> QED BY <2>3, StoredOfEntry
<1>3. ASSUME NEW fd \in channels_
      PROVE  /\ pollPoller!Valid(index_[fd])
             /\ pollfds_[index_[fd] + 1].fd \in {fd, pollPoller!Ignored(fd)}
             /\ pollfds_[index_[fd] + 1].events = events_[fd]
             /\ pollfds_[index_[fd] + 1].fd < 0 <=> events_[fd] = {}
  <2>1. fd \in Fds /\ pollfds_[index_[fd] + 1] = Entry(fd)
    BY DEF PollInv
  <2>2. Entry(fd).events = events_[fd]
    BY DEF Entry
  <2> QED BY <2>1, <2>2, StoredOfEntry DEF PollInv, pollPoller!Valid
<1>4. pollPoller!TypeOK
  BY <1>1, <1>2, SameCardinality DEF PollInv, pollPoller!TypeOK, pollPoller!Events, EventSets
<1> QED BY <1>3, <1>4, SameCardinality DEF PollInv, pollPoller!IndexInStep, pollPoller!NoFailure,
        pollPoller!Valid

\* A channel that the poller does not know gets the entry at the end.
LEMMA PollNewEntry ==
    ASSUME PollInv, NEW fd \in Fds, NEW ev \in EventSets,
           index_[fd] < 0, pollPoller!SetEvents(fd, ev)
    PROVE  PollInv'
<1> DEFINE n == Len(pollfds_)
           e == [fd |-> fd, events |-> ev]
<1>1. /\ fd \notin channels_ /\ ev # {} /\ n \in Nat /\ fd \in Nat
      /\ e \in Entries
  BY FdAssumption DEF PollInv, pollPoller!SetEvents, pollPoller!EnabledFirst, Entries
<1>2. /\ events_' = [events_ EXCEPT ![fd] = ev]
      /\ pollfds_' = Append(pollfds_, e)
      /\ index_' = [index_ EXCEPT ![fd] = n]
      /\ channels_' = channels_ \cup {fd}
      /\ asserted' = {}
  BY <1>1 DEF PollInv, pollPoller!SetEvents, pollPoller!UpdateChannel, pollPoller!Failed
<1>3. /\ pollfds_' \in Seq(Entries) /\ Len(pollfds_') = n + 1
      /\ \A i \in 1..n : pollfds_'[i] = pollfds_[i]
      /\ pollfds_'[n + 1] = e
  BY <1>1, <1>2, AppendProperties DEF PollInv
<1>4. Len(pollfds_') = Cardinality(channels_') /\ n < Cardinality(Fds)
  <2>1. IsFiniteSet(channels_) /\ n = Cardinality(channels_) /\ channels_ # Fds
    BY <1>1, MapFinite DEF PollInv
  <2>2. n < Cardinality(Fds)
    BY <2>1, MapFinite DEF PollInv
  <2>3. Cardinality(channels_ \cup {fd}) = Cardinality(channels_) + 1
    BY <1>1, <2>1, FS_AddElement
  <2> QED BY <1>2, <1>3, <2>1, <2>2, <2>3
<1>5. ASSUME NEW g \in channels_'
      PROVE  index_'[g] \in 0..Len(pollfds_') - 1 /\ pollfds_'[index_'[g] + 1] = Entry(g)'
  <2>1. CASE g = fd
    BY <1>1, <1>2, <1>3, <2>1 DEF PollInv, Entry
  <2>2. CASE g # fd
    <3>1. /\ g \in channels_ /\ index_'[g] = index_[g] /\ index_[g] + 1 \in 1..n
          /\ pollfds_[index_[g] + 1] = Entry(g) /\ events_'[g] = events_[g]
      BY <1>2, <2>2 DEF PollInv
    <3>2. Entry(g)' = Entry(g)
      BY <3>1 DEF Entry
    <3>3. pollfds_'[index_[g] + 1] = pollfds_[index_[g] + 1]
      BY <1>3, <3>1
    <3>4. index_'[g] \in 0..n
      BY <1>1, <3>1 DEF PollInv
    <3> QED BY <1>3, <3>1, <3>2, <3>3, <3>4
  <2> QED BY <2>1, <2>2
<1>6. ASSUME NEW i \in 1..Len(pollfds_') PROVE \E g \in channels_' : index_'[g] = i - 1
  <2>1. CASE i = n + 1
    BY <1>1, <1>2, <2>1 DEF PollInv
  <2>2. CASE i # n + 1
    <3>1. PICK g \in channels_ : index_[g] = i - 1
      BY <1>1, <1>3, <2>2 DEF PollInv
    <3> QED BY <1>1, <1>2, <3>1 DEF PollInv
  <2> QED BY <2>1, <2>2
<1>7. /\ events_' \in [Fds -> EventSets] /\ channels_' \subseteq Fds
      /\ index_' \in [Fds -> -1..Cardinality(Fds)]
  BY <1>1, <1>2, <1>4, MapFinite DEF PollInv
<1> QED BY <1>2, <1>3, <1>4, <1>5, <1>6, <1>7 DEF PollInv

\* A channel that it knows keeps its position.
LEMMA PollKnownEntry ==
    ASSUME PollInv, NEW fd \in channels_, NEW ev \in EventSets, pollPoller!SetEvents(fd, ev)
    PROVE  PollInv'
<1> DEFINE n == Len(pollfds_)
           k == index_[fd] + 1
           e == [fd |-> IF ev = {} THEN -fd - 1 ELSE fd, events |-> ev]
<1>1. /\ fd \in Fds /\ fd \in Nat /\ n \in Nat /\ k \in 1..n /\ index_[fd] \in Int
      /\ pollfds_[k] = Entry(fd) /\ ~(index_[fd] < 0) /\ e \in Entries
  BY FdAssumption DEF PollInv, Entries
<1>2. /\ events_' = [events_ EXCEPT ![fd] = ev]
      /\ pollfds_' = [pollfds_ EXCEPT ![k] = e]
      /\ UNCHANGED <<index_, channels_>>
  BY <1>1 DEF pollPoller!SetEvents, pollPoller!UpdateChannel, pollPoller!Ignored
<1>3. asserted' = {}
  <2>1. pollPoller!Valid(index_[fd])
    BY <1>1 DEF pollPoller!Valid
  <2>2. pollfds_[index_[fd] + 1].fd \in {fd, pollPoller!Ignored(fd)}
    BY <1>1, StoredOfEntry
  <2> QED BY <1>1, <2>1, <2>2 DEF PollInv, pollPoller!SetEvents, pollPoller!UpdateChannel,
          pollPoller!Failed
<1>4. /\ pollfds_' \in Seq(Entries) /\ Len(pollfds_') = n
      /\ pollfds_'[k] = e
      /\ \A i \in 1..n : i # k => pollfds_'[i] = pollfds_[i]
  BY <1>1, <1>2, ExceptSeq DEF PollInv
<1>5. ASSUME NEW g \in channels_ PROVE pollfds_'[index_[g] + 1] = Entry(g)'
  <2>1. CASE g = fd
    BY <1>1, <1>2, <1>4, <2>1 DEF PollInv, Entry
  <2>2. CASE g # fd
    <3>1. index_[g] # index_[fd] /\ g \in Fds /\ index_[g] \in 0..n - 1
      BY <2>2, PositionsDiffer DEF PollInv
    <3>2. events_'[g] = events_[g] /\ index_[g] + 1 \in 1..n /\ index_[g] + 1 # k
      BY <1>1, <1>2, <2>2, <3>1 DEF PollInv
    <3>3. Entry(g)' = Entry(g)
      BY <3>2 DEF Entry
    <3> QED BY <1>4, <3>2, <3>3 DEF PollInv
  <2> QED BY <2>1, <2>2
<1>6. events_' \in [Fds -> EventSets]
  BY <1>2 DEF PollInv
<1> QED BY <1>2, <1>3, <1>4, <1>5, <1>6 DEF PollInv

\* removeChannel: the last entry fills the gap and the indexes follow.
LEMMA PollRemove ==
    ASSUME PollInv, NEW fd \in Fds, pollPoller!Remove(fd)
    PROVE  PollInv'
<1> DEFINE n == Len(pollfds_)
           k == index_[fd] + 1
           moved == [pollfds_ EXCEPT ![k] = pollfds_[n]]
<1>1. /\ fd \in channels_ /\ events_[fd] = {} /\ events_' = events_
      /\ n \in Nat /\ k \in 1..n /\ index_[fd] \in 0..n - 1 /\ n \in 1..n
      /\ pollfds_[k] = Entry(fd) /\ pollfds_[n] \in Entries
      /\ channels_' = channels_ \ {fd}
  BY ElementOfSeq DEF PollInv, pollPoller!Remove, pollPoller!RemoveChannel
<1>2. asserted' = {}
  <2>1. Entry(fd) = [fd |-> pollPoller!Ignored(fd), events |-> events_[fd]]
    BY <1>1 DEF Entry, pollPoller!Ignored
  <2> QED BY <1>1, <2>1 DEF PollInv, pollPoller!Remove, pollPoller!RemoveChannel,
          pollPoller!Failed
<1>3. /\ moved \in Seq(Entries) /\ Len(moved) = n
      /\ \A i \in 1..n : moved[i] = IF i = k THEN pollfds_[n] ELSE pollfds_[i]
  BY <1>1, ExceptSeq DEF PollInv
<1>4. pollfds_' = SubSeq(moved, 1, n - 1)
  BY DEF pollPoller!Remove, pollPoller!RemoveChannel
<1>5. /\ pollfds_' \in Seq(Entries) /\ Len(pollfds_') = n - 1
      /\ \A i \in 1..n - 1 : pollfds_'[i] = IF i = k THEN pollfds_[n] ELSE pollfds_[i]
  BY <1>1, <1>3, <1>4, SubSeqProperties
<1>6. PICK last \in channels_ : index_[last] = n - 1
  BY <1>1 DEF PollInv
<1>7. /\ pollfds_[n] = Entry(last) /\ last \in Fds
      /\ pollPoller!Stored(pollfds_[n].fd) = last
  BY <1>1, <1>6, StoredOfEntry DEF PollInv
<1>8. /\ index_' = [index_ EXCEPT ![last] = index_[fd]]
  <2>1. CASE index_[fd] = n - 1
    <3>1. last = fd
      BY <1>1, <1>6, <2>1, PositionsDiffer
    <3>2. index_' = index_
      BY <2>1 DEF pollPoller!Remove, pollPoller!RemoveChannel
    <3> QED BY <3>1, <3>2 DEF PollInv
  <2>2. CASE index_[fd] # n - 1
    BY <1>7, <2>2 DEF pollPoller!Remove, pollPoller!RemoveChannel, pollPoller!FillGap
  <2> QED BY <2>1, <2>2
<1>9. Len(pollfds_') = Cardinality(channels_')
  <2>1. IsFiniteSet(channels_) /\ n = Cardinality(channels_)
    BY MapFinite DEF PollInv
  <2>2. Cardinality(channels_ \ {fd}) = Cardinality(channels_) - 1
    BY <1>1, <2>1, FS_RemoveElement
  <2> QED BY <1>1, <1>5, <2>1, <2>2
<1>10. ASSUME NEW g \in channels_'
       PROVE  /\ index_'[g] \in 0..Len(pollfds_') - 1
              /\ pollfds_'[index_'[g] + 1] = Entry(g)'
  <2>1. /\ g \in channels_ /\ g # fd /\ g \in Fds /\ index_[g] \in 0..n - 1
        /\ pollfds_[index_[g] + 1] = Entry(g) /\ Entry(g)' = Entry(g)
        /\ index_[g] # index_[fd]
    BY <1>1, PositionsDiffer DEF PollInv, Entry
  <2>2. CASE g = last
    <3>1. index_'[g] = index_[fd] /\ index_[fd] # n - 1 /\ k \in 1..n - 1
      BY <1>1, <1>6, <1>8, <2>1, <2>2 DEF PollInv
    <3> QED BY <1>1, <1>5, <1>7, <2>1, <2>2, <3>1
  <2>3. CASE g # last
    <3>1. index_'[g] = index_[g] /\ index_[g] # n - 1
      BY <1>6, <1>8, <2>1, <2>3, PositionsDiffer DEF PollInv
    <3>2. index_[g] + 1 \in 1..n - 1 /\ index_[g] + 1 # k
      BY <1>1, <2>1, <3>1
    <3> QED BY <1>1, <1>5, <2>1, <3>1, <3>2
  <2> QED BY <2>2, <2>3
<1>11. ASSUME NEW i \in 1..Len(pollfds_') PROVE \E g \in channels_' : index_'[g] = i - 1
  <2>1. CASE i = k
    <3>1. last # fd
      BY <1>1, <1>5, <1>6, <2>1
    <3> QED BY <1>1, <1>6, <1>7, <1>8, <2>1, <3>1 DEF PollInv
  <2>2. CASE i # k
    <3>1. i \in 1..n /\ i # n /\ i \in Int
      BY <1>1, <1>5
    <3>2. PICK g \in channels_ : index_[g] = i - 1
      BY <3>1 DEF PollInv
    <3>3. g # fd /\ g # last /\ g \in Fds
      BY <1>1, <1>6, <2>2, <3>1, <3>2 DEF PollInv
    <3> QED BY <1>1, <1>8, <3>2, <3>3 DEF PollInv
  <2> QED BY <2>1, <2>2
<1>12. index_' \in [Fds -> -1..Cardinality(Fds)] /\ channels_' \subseteq Fds
  BY <1>1, <1>8 DEF PollInv
<1> QED BY <1>1, <1>2, <1>5, <1>9, <1>10, <1>11, <1>12 DEF PollInv

\* Every step of PollPoller keeps the invariant.
LEMMA PollNext ==
    ASSUME PollInv, pollPoller!Next
    PROVE  PollInv'
<1>1. ASSUME NEW fd \in Fds, NEW ev \in EventSets, pollPoller!InUse(fd),
             pollPoller!SetEvents(fd, ev)
      PROVE  PollInv'
  BY <1>1, PollNewEntry, PollKnownEntry DEF pollPoller!InUse
<1>2. ASSUME NEW fd \in Fds, NEW e \in pollPoller!Events, pollPoller!InUse(fd),
             pollPoller!Enable(fd, e) \/ pollPoller!Disable(fd, e)
      PROVE  PollInv'
  <2>1. events_[fd] \cup {e} \in EventSets /\ events_[fd] \ {e} \in EventSets
    BY <1>2 DEF EventSets, pollPoller!Events, PollInv
  <2> QED BY <1>1, <1>2, <2>1 DEF pollPoller!Enable, pollPoller!Disable
<1>3. ASSUME NEW fd \in Fds, pollPoller!InUse(fd), pollPoller!DisableAll(fd) PROVE PollInv'
  BY <1>1, <1>3 DEF pollPoller!DisableAll, EventSets
<1>4. ASSUME NEW fd \in Fds, pollPoller!NewChannel(fd) PROVE PollInv'
  <2>1. /\ fd \notin channels_ /\ index_' = [index_ EXCEPT ![fd] = -1]
        /\ UNCHANGED <<events_, channels_, pollfds_, asserted>>
    BY <1>4 DEF pollPoller!NewChannel
  <2>2. index_' \in [Fds -> -1..Cardinality(Fds)]
    BY <2>1, MapFinite DEF PollInv
  <2>3. \A g \in channels_ : index_'[g] = index_[g] /\ Entry(g)' = Entry(g)
    BY <2>1 DEF PollInv, Entry
  <2> QED BY <2>1, <2>2, <2>3 DEF PollInv
<1>5. ASSUME NEW reported \in SUBSET Fds, pollPoller!Poll(reported) PROVE PollInv'
  <2>1. /\ UNCHANGED <<events_, index_, channels_, pollfds_>>
        /\ \A fd \in reported : \E i \in 1..Len(pollfds_) : pollfds_[i].fd = fd
    BY <1>5 DEF pollPoller!Poll
  <2>2. ASSUME NEW fd \in reported PROVE fd \in channels_
    <3>1. PICK i \in 1..Len(pollfds_) : pollfds_[i].fd = fd
      BY <2>1
    <3>2. PICK g \in channels_ : index_[g] = i - 1
      BY DEF PollInv
    <3>3. pollfds_[i] = Entry(g) /\ g \in Fds
      BY <3>2 DEF PollInv
    <3>4. fd \in Nat /\ g \in Nat
      BY <3>3, FdAssumption
    <3> QED BY <3>1, <3>3, <3>4 DEF Entry
  <2>3. asserted' = {}
    BY <1>5, <2>2 DEF pollPoller!Poll, pollPoller!Failed, PollInv
  <2>4. \A g \in channels_ : Entry(g)' = Entry(g)
    BY <2>1 DEF Entry
  <2> QED BY <2>1, <2>3, <2>4 DEF PollInv
<1> QED BY <1>2, <1>3, <1>4, <1>5, PollRemove DEF pollPoller!Next

-----------------------------------------------------------------------------
(***************************************************************************)
(* Either poller.                                                          *)
(***************************************************************************)

\* The invariant of the poller that newDefaultPoller has chosen.
Inv == /\ usePoll \in BOOLEAN
       /\ IF usePoll THEN PollInv ELSE EPollInv

\* A poller starts without channels.
LEMMA InvInit == ASSUME Init PROVE Inv
<1>1. CASE usePoll
  <2>1. Cardinality(Fds) \in Nat /\ Cardinality({}) = 0
    BY MapFinite, FS_EmptySet
  <2>2. <<>> \in Seq(Entries) /\ Len(<<>>) = 0
    BY EmptySeq
  <2>3. -1 \in -1..Cardinality(Fds)
    BY <2>1
  <2>4. events_ \in [Fds -> EventSets] /\ index_ \in [Fds -> -1..Cardinality(Fds)]
    BY <1>1, <2>3 DEF Init, pollPoller!Init, EventSets
  <2>5. channels_ = {} /\ pollfds_ = <<>> /\ asserted = {}
    BY <1>1 DEF Init, pollPoller!Init
  <2> QED BY <1>1, <2>1, <2>2, <2>4, <2>5 DEF Inv, PollInv
<1>2. CASE ~usePoll
  <2>1. kInitEventListSize \in kInitEventListSize..MaxEventListSize
    BY SizeAssumption
  <2> QED BY <1>2, <2>1 DEF Init, Inv, EPollInv, ePollPoller!Init, ePollPoller!IndexInStep,
          ePollPoller!TypeOK, ePollPoller!RemovedIsForgotten, ePollPoller!InKernel,
          ePollPoller!Absent, ePollPoller!Events, ePollPoller!NoFailure
<1> QED BY <1>1, <1>2 DEF Init

\* Whichever poller was chosen keeps its invariant, and the choice does not change.
LEMMA InvNext == ASSUME Inv, [Next]_vars PROVE Inv'
<1>1. CASE PollPollerStep
  BY <1>1, PollNext DEF PollPollerStep, Inv
<1>2. CASE EPollPollerStep
  BY <1>2, EPollNext DEF EPollPollerStep, Inv
<1>3. CASE UNCHANGED vars
  <2>1. CASE usePoll
    BY <1>3, <2>1 DEF vars, Inv, PollInv, Entry
  <2>2. CASE ~usePoll
    BY <1>3, <2>2 DEF vars, Inv, EPollInv, ePollPoller!IndexInStep, ePollPoller!TypeOK,
       ePollPoller!RemovedIsForgotten, ePollPoller!InKernel, ePollPoller!NoFailure
  <2> QED BY <2>1, <2>2
<1> QED BY <1>1, <1>2, <1>3 DEF Next

\* index_ is always what the poller needs to know about the channel: its state in the
\* kernel, or the position of its entry.
THEOREM PollerIndexInStep == Spec => []IndexInStep
<1>1. Inv => IndexInStep
  BY PollInvMeans DEF Inv, EPollInv, IndexInStep
<1> QED BY <1>1, InvInit, InvNext, PTL DEF Spec

\* No assert of a poller and no epoll_ctl fails.
THEOREM PollerNoFailure == Spec => []NoFailure
<1>1. Inv => NoFailure
  BY PollInvMeans DEF Inv, EPollInv, NoFailure
<1> QED BY <1>1, InvInit, InvNext, PTL DEF Spec

\* What either poller asks the operating system for: the events of the channel.
Asked(fd) == IF fd \notin channels_ THEN {"absent"} ELSE events_[fd]

\* The two agree: ctl and the entries of pollfds_ follow events_ and the map.
LEMMA WatchedIsAsked == ASSUME Inv, NEW fd \in Fds PROVE Watched(fd) = Asked(fd)
<1>1. CASE ~usePoll
  BY <1>1 DEF Inv, EPollInv, ePollPoller!IndexInStep, ePollPoller!Watched, Watched, Asked,
     ePollPoller!InKernel, ePollPoller!Absent, ePollPoller!TypeOK
<1>2. CASE usePoll
  <2>1. CASE fd \notin channels_
    BY <1>2, <2>1 DEF Watched, pollPoller!Watched, Asked
  <2>2. CASE fd \in channels_
    <3> DEFINE own == {i \in 1..Len(pollfds_) : pollfds_[i].fd = fd}
               k == index_[fd] + 1
    <3>1. k \in 1..Len(pollfds_) /\ pollfds_[k] = Entry(fd) /\ fd \in Nat
      BY <1>2, <2>2, FdAssumption DEF Inv, PollInv
    <3>2. ASSUME NEW i \in own PROVE i = k /\ events_[fd] # {}
      <4>1. PICK g \in channels_ : index_[g] = i - 1
        BY <1>2 DEF Inv, PollInv
      <4>2. pollfds_[i] = Entry(g) /\ g \in Nat
        <5>1. i \in Int /\ index_[g] + 1 = i
          BY <4>1
        <5> QED BY <1>2, <5>1, FdAssumption DEF Inv, PollInv
      <4>3. Entry(g).fd = fd
        BY <4>2
      <4> QED BY <3>1, <4>1, <4>2, <4>3 DEF Entry
    <3>3. CASE events_[fd] = {}
      <4>1. UNION {pollfds_[i].events : i \in own} = {}
        BY <3>2, <3>3
      <4> QED BY <1>2, <2>2, <3>3, <4>1 DEF Watched, pollPoller!Watched, Asked
    <3>4. CASE events_[fd] # {}
      <4>1. Entry(fd).fd = fd /\ Entry(fd).events = events_[fd]
        BY <3>4 DEF Entry
      <4>2. own = {k}
        BY <3>1, <3>2, <4>1
      <4>3. UNION {pollfds_[i].events : i \in own} = events_[fd]
        BY <3>1, <4>1, <4>2
      <4> QED BY <1>2, <2>2, <4>3 DEF Watched, pollPoller!Watched, Asked
    <3> QED BY <3>3, <3>4
  <2> QED BY <2>1, <2>2
<1> QED BY <1>1, <1>2

\* A call of Channel::enable... or disable... on either poller.
IsUpdate(fd, ev) ==
    /\ events_' = [events_ EXCEPT ![fd] = ev]
    /\ channels_' = channels_ \cup {fd}

IsRemoval(fd) ==
    /\ fd \in channels_ /\ events_[fd] = {} /\ events_' = events_
    /\ channels_' = channels_ \ {fd}

\* Whatever Channel or EventLoop calls, events_ and the map change in one of three ways.
LEMMA StepsOfPollers ==
    ASSUME Inv, [Next]_vars
    PROVE  \/ \E fd \in Fds, ev \in EventSets : IsUpdate(fd, ev)
           \/ \E fd \in Fds : IsRemoval(fd)
           \/ UNCHANGED <<events_, channels_>>
<1>1. events_ \in [Fds -> EventSets]
  BY DEF Inv, PollInv, EPollInv, ePollPoller!IndexInStep, ePollPoller!TypeOK,
     ePollPoller!Events, EventSets
<1>2. CASE PollPollerStep
  <2> USE <1>2 DEF PollPollerStep, Inv
  <2>1. ASSUME NEW fd \in Fds, NEW ev \in EventSets, pollPoller!InUse(fd),
               pollPoller!SetEvents(fd, ev)
        PROVE  IsUpdate(fd, ev)
    <3>1. CASE index_[fd] < 0
      BY <2>1, <3>1 DEF pollPoller!SetEvents, pollPoller!UpdateChannel, IsUpdate
    <3>2. CASE ~(index_[fd] < 0)
      BY <2>1, <3>2 DEF pollPoller!SetEvents, pollPoller!UpdateChannel, IsUpdate,
         pollPoller!InUse
    <3> QED BY <3>1, <3>2
  <2>2. \A fd \in Fds : \A e \in pollPoller!Events :
            events_[fd] \cup {e} \in EventSets /\ events_[fd] \ {e} \in EventSets
    BY <1>1 DEF pollPoller!Events, EventSets
  <2>3. {} \in EventSets
    BY DEF EventSets
  <2> QED BY <2>1, <2>2, <2>3 DEF pollPoller!Next, pollPoller!Enable, pollPoller!Disable,
          pollPoller!DisableAll, pollPoller!Remove, pollPoller!RemoveChannel, IsRemoval,
          pollPoller!NewChannel, pollPoller!Poll
<1>3. CASE EPollPollerStep
  <2> USE <1>3 DEF EPollPollerStep, Inv
  <2>1. ASSUME NEW fd \in Fds, NEW ev \in EventSets, ePollPoller!SetEvents(fd, ev)
        PROVE  IsUpdate(fd, ev)
    BY <2>1 DEF ePollPoller!SetEvents, ePollPoller!UpdateChannel, IsUpdate, EPollInv,
       ePollPoller!IndexInStep, ePollPoller!TypeOK
  <2>2. \A fd \in Fds : \A e \in ePollPoller!Events :
            events_[fd] \cup {e} \in EventSets /\ events_[fd] \ {e} \in EventSets
    BY <1>1 DEF ePollPoller!Events, EventSets
  <2>3. {} \in EventSets
    BY DEF EventSets
  <2> QED BY <2>1, <2>2, <2>3 DEF ePollPoller!Next, ePollPoller!Enable, ePollPoller!Disable,
          ePollPoller!DisableAll, ePollPoller!Remove, ePollPoller!RemoveChannel, IsRemoval,
          ePollPoller!Poll
<1>4. CASE UNCHANGED vars
  BY <1>4 DEF vars
<1> QED BY <1>2, <1>3, <1>4 DEF Next

\* Both pollers implement Poller: the operating system is asked for what the channel of
\* each descriptor wants, from the call until the removal.
THEOREM PollersImplementPoller == Spec => PollerSpec
<1> DEFINE interest == [fd \in Fds |-> Watched(fd)]
           asked == [fd \in Fds |-> Asked(fd)]
<1>1. Init => Abstract!Init
  <2> SUFFICES ASSUME Init PROVE Abstract!Init
    OBVIOUS
  <2>1. events_ = [fd \in Fds |-> {}] /\ channels_ = {}
    BY DEF Init, pollPoller!Init, ePollPoller!Init
  <2>2. \A fd \in Fds : Watched(fd) = {"absent"}
    BY <2>1, InvInit, WatchedIsAsked DEF Asked
  <2> QED BY <2>1, <2>2 DEF Abstract!Init, Abstract!Absent
<1>2. Inv => interest = asked
  BY WatchedIsAsked
<1>3. Inv /\ interest = asked /\ (interest = asked)' /\ [Next]_vars
          => [Abstract!Next]_<<events_, interest>>
  <2> SUFFICES ASSUME Inv, interest = asked, (interest = asked)', [Next]_vars
               PROVE  [Abstract!Next]_<<events_, interest>>
    OBVIOUS
  <2>1. interest = asked
    OBVIOUS
  <2>2. interest' = asked'
    OBVIOUS
  <2>3. ASSUME NEW fd \in Fds, NEW ev \in EventSets, IsUpdate(fd, ev)
        PROVE  Abstract!Next
    <3>1. asked' = [asked EXCEPT ![fd] = ev]
      BY <2>3 DEF IsUpdate, Asked, Inv, PollInv, EPollInv, ePollPoller!IndexInStep,
         ePollPoller!TypeOK
    <3> QED BY <2>1, <2>2, <2>3, <3>1 DEF Abstract!Next, Abstract!UpdateChannel, IsUpdate,
            EventSets
  <2>4. ASSUME NEW fd \in Fds, IsRemoval(fd) PROVE Abstract!Next
    <3>1. asked' = [asked EXCEPT ![fd] = {"absent"}] /\ asked[fd] = {}
      BY <2>4 DEF IsRemoval, Asked
    <3> QED BY <2>1, <2>2, <2>4, <3>1 DEF Abstract!Next, Abstract!RemoveChannel, IsRemoval,
            Abstract!Absent
  <2>5. CASE UNCHANGED <<events_, channels_>>
    BY <2>1, <2>2, <2>5 DEF Asked
  <2> QED BY <2>3, <2>4, <2>5, StepsOfPollers
<1> QED BY <1>1, <1>2, <1>3, InvInit, InvNext, PTL DEF Spec, PollerSpec, Abstract!Spec

-----------------------------------------------------------------------------
(***************************************************************************)
(* Dispatch: what the calls of the loop do to the poller.                  *)
(***************************************************************************)

\* the types that both pollers share
LEMMA PollerTypes ==
    ASSUME Inv
    PROVE  /\ events_ \in [Fds -> EventSets] /\ channels_ \subseteq Fds
           /\ usePoll \in BOOLEAN
           /\ usePoll => index_ \in [Fds -> Int]
           /\ ~usePoll => index_ \in [Fds -> {"kNew", "kAdded", "kDeleted"}]
<1>1. CASE usePoll
  <2>1. -1..Cardinality(Fds) \subseteq Int
    BY MapFinite
  <2> QED BY <1>1, <2>1 DEF Inv, PollInv
<1>2. CASE ~usePoll
  BY <1>2 DEF Inv, EPollInv, ePollPoller!IndexInStep, ePollPoller!TypeOK, EventSets,
     ePollPoller!Events
<1> QED BY <1>1, <1>2 DEF Inv

\* The channel of fd is in use, or new: Channel::update may be called.
Usable(fd) == usePoll => fd \in channels_ \/ index_[fd] < 0

\* One event more, one less, or none: the calls of Channel.
OneCall(fd, ev) ==
    \/ ev = {}
    \/ \E e \in {"read", "write"} : ev = events_[fd] \cup {e} \/ ev = events_[fd] \ {e}

\* Each of them is a step of the poller.
LEMMA SetEventsIsNext ==
    ASSUME NEW fd \in Fds, NEW ev, Usable(fd), OneCall(fd, ev), SetEvents(fd, ev)
    PROVE  Next
<1>1. CASE usePoll
  <2>1. pollPoller!SetEvents(fd, ev) /\ pollPoller!InUse(fd) /\ UNCHANGED <<usePoll, ePollPollerOnly>>
    BY <1>1 DEF SetEvents, Usable, pollPoller!InUse
  <2>2. pollPoller!Next
    BY <2>1 DEF OneCall, pollPoller!Next, pollPoller!Enable, pollPoller!Disable,
       pollPoller!DisableAll, pollPoller!Events
  <2> QED BY <1>1, <2>1, <2>2 DEF Next, PollPollerStep
<1>2. CASE ~usePoll
  <2>1. ePollPoller!SetEvents(fd, ev) /\ UNCHANGED <<usePoll, pollfds_>>
    BY <1>2 DEF SetEvents
  <2>2. ePollPoller!Next
    BY <2>1 DEF OneCall, ePollPoller!Next, ePollPoller!Enable, ePollPoller!Disable,
       ePollPoller!DisableAll, ePollPoller!Events
  <2> QED BY <1>2, <2>1, <2>2 DEF Next, EPollPollerStep
<1> QED BY <1>1, <1>2

\* What such a call changes, for the loop.
LEMMA SetEventsDoes ==
    ASSUME Inv, NEW fd \in Fds, NEW ev, Usable(fd), SetEvents(fd, ev)
    PROVE  /\ events_' = [events_ EXCEPT ![fd] = ev]
           /\ channels_' = channels_ \cup {fd}
           /\ usePoll' = usePoll
           /\ \A g \in Fds : g # fd => index_'[g] = index_[g]
           /\ ~usePoll /\ fd \in channels_ /\ events_[fd] # {} /\ ev = {} =>
                  index_'[fd] = "kDeleted"
<1>1. CASE usePoll
  <2>1. index_[fd] >= 0 => fd \in channels_
    BY <1>1, PollerTypes DEF Usable
  <2>2. \/ index_' = [index_ EXCEPT ![fd] = Len(pollfds_)] /\ channels_' = channels_ \cup {fd}
        \/ index_' = index_ /\ channels_' = channels_ /\ index_[fd] >= 0
    <3>1. index_[fd] \in Int
      BY <1>1, PollerTypes
    <3>2. pollPoller!UpdateChannel(fd, ev)
      BY <1>1 DEF SetEvents, pollPoller!SetEvents
    <3>3. CASE index_[fd] < 0
      BY <3>2, <3>3 DEF pollPoller!UpdateChannel
    <3>4. CASE ~(index_[fd] < 0)
      BY <3>1, <3>2, <3>4 DEF pollPoller!UpdateChannel
    <3> QED BY <3>3, <3>4
  <2>3. events_' = [events_ EXCEPT ![fd] = ev] /\ usePoll' = usePoll
    BY <1>1 DEF SetEvents, pollPoller!SetEvents
  <2> QED BY <1>1, <2>1, <2>2, <2>3, PollerTypes
<1>2. CASE ~usePoll
  <2>1. /\ index_[fd] # "kNew" <=> fd \in channels_
        /\ index_[fd] = "kDeleted" => events_[fd] = {}
    BY <1>2 DEF Inv, EPollInv, ePollPoller!IndexInStep
  <2>2. ePollPoller!SetEvents(fd, ev) /\ usePoll' = usePoll
    BY <1>2 DEF SetEvents
  <2>3. index_ \in [Fds -> {"kNew", "kAdded", "kDeleted"}]
    BY <1>2, PollerTypes
  <2>4. CASE index_[fd] \in {"kNew", "kDeleted"}
    <3>1. channels_' = channels_ \cup {fd} /\ index_' = [index_ EXCEPT ![fd] = "kAdded"]
      BY <2>2, <2>4 DEF ePollPoller!SetEvents, ePollPoller!UpdateChannel
    <3> QED BY <1>2, <2>1, <2>2, <2>3, <2>4, <3>1 DEF ePollPoller!SetEvents
  <2>5. CASE index_[fd] = "kAdded"
    <3>1. /\ channels_' = channels_ /\ fd \in channels_
          /\ index_' = [index_ EXCEPT ![fd] = IF ev = {} THEN "kDeleted" ELSE "kAdded"]
      BY <2>1, <2>2, <2>5 DEF ePollPoller!SetEvents, ePollPoller!UpdateChannel
    <3> QED BY <1>2, <2>2, <2>3, <3>1 DEF ePollPoller!SetEvents
  <2> QED BY <2>3, <2>4, <2>5
<1> QED BY <1>1, <1>2

\* Channel::remove is a step, and forgets the channel.
LEMMA RemoveDoes ==
    ASSUME Inv, NEW fd \in Fds, Remove(fd)
    PROVE  /\ Next
           /\ events_' = events_ /\ usePoll' = usePoll
           /\ channels_' = channels_ \ {fd} /\ fd \in channels_
           /\ \A g \in Fds : g # fd /\ (usePoll => g \notin channels_) => index_'[g] = index_[g]
<1>1. CASE usePoll
  <2>1. pollPoller!Remove(fd) /\ UNCHANGED <<usePoll, ePollPollerOnly>>
    BY <1>1 DEF Remove
  <2>2. Next
    BY <1>1, <2>1 DEF Next, PollPollerStep, pollPoller!Next
  <2>3. /\ fd \in channels_ /\ events_' = events_ /\ channels_' = channels_ \ {fd}
        /\ \/ index_' = index_
           \/ index_' = [index_ EXCEPT
                             ![pollPoller!Stored(pollfds_[Len(pollfds_)].fd)] = index_[fd]]
    BY <2>1 DEF pollPoller!Remove, pollPoller!RemoveChannel, pollPoller!FillGap
  <2>4. Len(pollfds_) \in Nat \ {0}
    BY <1>1, <2>3, LenProperties DEF Inv, PollInv
  <2>5. PICK last \in channels_ : index_[last] = Len(pollfds_) - 1
    BY <1>1, <2>4 DEF Inv, PollInv
  <2>6. pollfds_[Len(pollfds_)] = Entry(last)
    <3>1. index_[last] + 1 = Len(pollfds_)
      BY <2>4, <2>5
    <3> QED BY <1>1, <3>1 DEF Inv, PollInv
  <2>7. pollPoller!Stored(pollfds_[Len(pollfds_)].fd) \in channels_
    BY <1>1, <2>6, StoredOfEntry DEF Inv, PollInv
  <2> QED BY <1>1, <2>1, <2>2, <2>3, <2>7, PollerTypes
<1>2. CASE ~usePoll
  <2>1. ePollPoller!Remove(fd) /\ UNCHANGED <<usePoll, pollfds_>>
    BY <1>2 DEF Remove
  <2>2. Next
    BY <1>2, <2>1 DEF Next, EPollPollerStep, ePollPoller!Next
  <2> QED BY <1>2, <2>1, <2>2, PollerTypes DEF ePollPoller!Remove, ePollPoller!RemoveChannel
<1> QED BY <1>1, <1>2

\* poll() is a step that leaves the channels alone, and reports those that are asked for.
LEMMA PollDoes ==
    ASSUME Inv, NEW reported \in SUBSET Fds, Poll(reported)
    PROVE  /\ Next
           /\ UNCHANGED <<events_, channels_, index_, usePoll>>
           /\ \A fd \in reported : /\ fd \in channels_
                                   /\ usePoll => events_[fd] # {}
                                   /\ ~usePoll => index_[fd] = "kAdded"
<1>1. CASE usePoll
  <2>1. pollPoller!Poll(reported) /\ UNCHANGED <<usePoll, ePollPollerOnly>>
    BY <1>1 DEF Poll
  <2>2. Next
    BY <1>1, <2>1 DEF Next, PollPollerStep, pollPoller!Next
  <2>3. ASSUME NEW fd \in reported PROVE fd \in channels_ /\ events_[fd] # {}
    <3>1. PICK i \in 1..Len(pollfds_) : pollfds_[i].fd = fd
      BY <2>1, <2>3 DEF pollPoller!Poll
    <3>2. PICK g \in channels_ : index_[g] = i - 1
      BY <1>1 DEF Inv, PollInv
    <3>3. pollfds_[i] = Entry(g)
      <4>1. index_[g] + 1 = i
        BY <3>2, LenProperties DEF Inv, PollInv
      <4> QED BY <1>1, <4>1 DEF Inv, PollInv
    <3>4. g \in Nat /\ fd \in Nat
      BY <1>1, <2>3, FdAssumption DEF Inv, PollInv
    <3> QED BY <3>1, <3>3, <3>4 DEF Entry
  <2> QED BY <1>1, <2>1, <2>2, <2>3 DEF pollPoller!Poll
<1>2. CASE ~usePoll
  <2>1. ePollPoller!Poll(reported) /\ UNCHANGED <<usePoll, pollfds_>>
    BY <1>2 DEF Poll
  <2>2. Next
    BY <1>2, <2>1 DEF Next, EPollPollerStep, ePollPoller!Next
  <2> QED BY <1>2, <2>1, <2>2 DEF ePollPoller!Poll, Inv, EPollInv, ePollPoller!IndexInStep
<1> QED BY <1>1, <1>2

-----------------------------------------------------------------------------
(***************************************************************************)
(* Dispatch: the inductive invariant.                                      *)
(***************************************************************************)

Queued(kind, fd) == <<kind, fd>> \in pendingFunctors_ \cup functors

\* What holds in each phase of loop().
LoopInv ==
    /\ inCallback \in BOOLEAN /\ mayStopRead \in BOOLEAN
    /\ phase # "dispatch" => toHandle = {} /\ currentActiveChannel_ = None
    /\ phase # "functors" => functors = {} /\ doomed = {} /\ NotDestroying
    /\ inCallback /\ phase # "functors" => phase = "dispatch" /\ currentActiveChannel_ # None
    /\ phase = "setup" =>
           /\ owner = [fd \in Fds |-> IF fd = AcceptFd THEN "up" ELSE "none"]
           /\ channels_ = {} /\ pendingFunctors_ = {}
           /\ \A fd \in Fds : events_[fd] = {} /\ (usePoll => index_[fd] < 0)

\* A channel that is still to be handled is up; the one that is being handled may have
\* been closed by its own callback, and then at most a write is left of what was reported.
HandleInv ==
    /\ \A fd \in toHandle : owner[fd] = "up"
    /\ currentActiveChannel_ \notin toHandle
    /\ currentActiveChannel_ # None =>
          \/ owner[currentActiveChannel_] = "up"
          \/ /\ owner[currentActiveChannel_] = "down"
             /\ revents_[currentActiveChannel_] \subseteq {"out"}
    /\ revents_[AcceptFd] \subseteq {"in"}

\* The owners and the poller: who is not removed is in the map, who is closed wants
\* nothing, and a free descriptor has a channel that is new to the poller.
OwnerInv ==
    /\ owner[AcceptFd] # "down"
    /\ phase # "setup" =>
           \A fd \in Fds : owner[fd] \in {"up", "down", "dying"} <=> fd \in channels_
    /\ \A fd \in Fds : owner[fd] # "up" => events_[fd] = {}
    /\ \A fd \in Fds : usePoll /\ owner[fd] = "none" => index_[fd] < 0
    /\ \A fd \in Connections : owner[fd] = "up" /\ ~mayStopRead => "read" \in events_[fd]
    /\ \A fd \in doomed : owner[fd] = "up"

\* The functors: one connectDestroyed for each closed connection, and when poll() is
\* called with one queued the kernel no longer watches the descriptor.
QueueInv ==
    /\ ClosedIsQueued
    /\ \A kind, fd : Queued(kind, fd) =>
           /\ kind = "destroyServer" <=> fd = AcceptFd
           /\ kind = "forceClose" => ~mayStopRead
    /\ \A fd \in Fds : ~(/\ <<"connectDestroyed", fd>> \in pendingFunctors_
                         /\ <<"connectDestroyed", fd>> \in functors)
    /\ phase # "dispatch" /\ ~usePoll =>
           \A fd \in Fds : owner[fd] = "down" /\ <<"connectDestroyed", fd>> \notin functors
                               => index_[fd] = "kDeleted"

DInv == DispatchTypeOK /\ LoopInv /\ HandleInv /\ OwnerInv /\ QueueInv /\ failed = {}

\* None is no descriptor.
LEMMA NoneIsNoFd == None \notin Fds
BY FdAssumption DEF None

\* Steps of the loop that leave the poller and the owners alone.
LEMMA LoopKeeps ==
    ASSUME Inv, DInv,
           PollTimeout \/ EventsDone \/ FunctorsDone \/ AcceptNothing \/ CallbackReturns
    PROVE  DInv' /\ UNCHANGED vars
<1> USE NoneIsNoFd, AcceptAssumption
<1>1. UNCHANGED <<vars, events_, channels_, index_, usePoll, owner, failed, mayStopRead>>
  BY DEF PollTimeout, EventsDone, FunctorsDone, AcceptNothing, Handling, CallbackReturns, vars,
     ownerVars, loopVars
<1>2. DispatchTypeOK'
  BY <1>1 DEF DInv, DispatchTypeOK, LoopInv, PollTimeout, EventsDone, FunctorsDone, AcceptNothing,
     Handling, Handled, CallbackReturns, ownerVars, loopVars
<1>3. LoopInv'
  <2>1. CASE PollTimeout
    BY <1>1, <2>1 DEF DInv, LoopInv, PollTimeout, ownerVars, NotDestroying
  <2>2. CASE EventsDone
    BY <1>1, <2>2 DEF DInv, LoopInv, EventsDone, AllHandled, NotDestroying
  <2>3. CASE FunctorsDone
    BY <1>1, <2>3 DEF DInv, LoopInv, FunctorsDone, ownerVars, NotDestroying
  <2>4. CASE AcceptNothing
    BY <1>1, <2>4 DEF DInv, LoopInv, AcceptNothing, Handling, ownerVars, NotDestroying
  <2>5. CASE CallbackReturns
    BY <1>1, <2>5 DEF DInv, LoopInv, CallbackReturns, ownerVars, loopVars, NotDestroying
  <2> QED BY <2>1, <2>2, <2>3, <2>4, <2>5
<1>4. HandleInv'
  BY <1>1 DEF DInv, DispatchTypeOK, HandleInv, PollTimeout, EventsDone, FunctorsDone, AcceptNothing,
     Handling, Handled, CallbackReturns, ownerVars, loopVars
<1>5. OwnerInv'
  BY <1>1 DEF DInv, LoopInv, OwnerInv, PollTimeout, EventsDone, FunctorsDone, AcceptNothing,
     Handling, CallbackReturns, ownerVars, loopVars
<1>6. QueueInv'
  <2>1. CASE EventsDone
    BY <1>1, <2>1 DEF DInv, LoopInv, OwnerInv, QueueInv, ClosedIsQueued, Queued, EventsDone,
       Connections
  <2>2. CASE ~EventsDone
    <3>1. /\ UNCHANGED <<pendingFunctors_, functors>>
          /\ phase' # "dispatch" => phase # "dispatch"
      BY <2>2 DEF PollTimeout, FunctorsDone, AcceptNothing, Handling, CallbackReturns, ownerVars,
         loopVars
    <3> QED BY <1>1, <3>1 DEF DInv, QueueInv, ClosedIsQueued, Queued
  <2> QED BY <2>1, <2>2
<1> QED BY <1>1, <1>2, <1>3, <1>4, <1>5, <1>6 DEF DInv

\* poll() returns channels that are up.
LEMMA PollKeeps ==
    ASSUME Inv, DInv, NEW reported \in SUBSET Fds, PollReturns(reported)
    PROVE  DInv' /\ Next
<1> USE NoneIsNoFd, AcceptAssumption
<1>1. /\ phase = "poll" /\ phase' = "dispatch"
      /\ UNCHANGED <<owner, pendingFunctors_, functors, doomed, failed, inCallback, mayStopRead,
                     currentActiveChannel_>>
      /\ toHandle' = reported /\ activeChannels_' = reported
      /\ revents_' \in [Fds -> SUBSET Reportable]
      /\ revents_'[AcceptFd] \subseteq {"in"}
  BY DEF PollReturns, ownerVars, Reports, DInv, HandleInv
<1>2. Next /\ UNCHANGED <<events_, channels_, index_, usePoll>>
  BY PollDoes DEF PollReturns
<1>3. ASSUME NEW fd \in reported PROVE owner[fd] = "up"
  <2>1. owner[fd] \in {"up", "down", "dying"} /\ owner[fd] # "dying"
    BY <1>1, <1>3, PollDoes DEF PollReturns, DInv, OwnerInv, LoopInv, NotDestroying
  <2>2. owner[fd] # "down"
    <3>1. usePoll => events_[fd] # {}
      BY PollDoes DEF PollReturns
    <3>2. ~usePoll => index_[fd] # "kDeleted"
      BY PollDoes DEF PollReturns
    <3> QED BY <1>1, <1>3, <3>1, <3>2 DEF DInv, OwnerInv, QueueInv, LoopInv
  <2> QED BY <2>1, <2>2
<1>4. DispatchTypeOK' /\ LoopInv' /\ HandleInv'
  BY <1>1, <1>2, <1>3 DEF DInv, DispatchTypeOK, LoopInv, HandleInv, NotDestroying
<1>5. OwnerInv' /\ QueueInv'
  BY <1>1, <1>2 DEF DInv, OwnerInv, QueueInv, ClosedIsQueued, Queued
<1> QED BY <1>1, <1>2, <1>4, <1>5 DEF DInv

\* The listening channel is made known to the poller.
LEMMA ListenKeeps ==
    ASSUME Inv, DInv, Listen
    PROVE  DInv' /\ Next
<1> USE AcceptAssumption
<1>1. /\ phase = "setup" /\ phase' = "poll"
      /\ UNCHANGED <<owner, pendingFunctors_, functors, doomed, failed, inCallback, mayStopRead,
                     currentActiveChannel_, toHandle, activeChannels_, revents_>>
      /\ SetEvents(AcceptFd, {"read"})
  BY DEF Listen, ownerVars
<1>2. Usable(AcceptFd) /\ OneCall(AcceptFd, {"read"})
  BY <1>1 DEF DInv, LoopInv, Usable, OneCall
<1>3. /\ events_' = [events_ EXCEPT ![AcceptFd] = {"read"}]
      /\ channels_' = channels_ \cup {AcceptFd} /\ usePoll' = usePoll
      /\ \A g \in Fds : g # AcceptFd => index_'[g] = index_[g]
  BY <1>1, <1>2, SetEventsDoes
<1>4. Next
  BY <1>1, <1>2, SetEventsIsNext
<1>5. /\ owner = [fd \in Fds |-> IF fd = AcceptFd THEN "up" ELSE "none"]
      /\ channels_ = {} /\ pendingFunctors_ = {} /\ functors = {} /\ doomed = {}
  BY <1>1 DEF DInv, LoopInv
<1>6. DispatchTypeOK' /\ LoopInv' /\ HandleInv'
  BY <1>1 DEF DInv, DispatchTypeOK, LoopInv, HandleInv, NotDestroying
<1>7. OwnerInv'
  BY <1>1, <1>3, <1>5, PollerTypes DEF DInv, OwnerInv, LoopInv, Connections
<1>8. QueueInv'
  BY <1>1, <1>5 DEF DInv, QueueInv, ClosedIsQueued, Queued
<1> QED BY <1>1, <1>4, <1>6, <1>7, <1>8 DEF DInv

\* The for loop over activeChannels_.
LEMMA ForKeeps ==
    ASSUME Inv, DInv, NEW fd \in Fds, NextChannel(fd) \/ HandleEventReturns(fd)
    PROVE  DInv' /\ UNCHANGED vars
<1> USE NoneIsNoFd, AcceptAssumption
<1>1. /\ UNCHANGED <<vars, events_, channels_, index_, usePoll, owner, failed, mayStopRead,
                     revents_, activeChannels_, phase, pendingFunctors_, functors, doomed,
                     inCallback>>
      /\ toHandle' \subseteq toHandle
  BY DEF NextChannel, HandleEventReturns, vars, ownerVars
<1>2. phase = "dispatch"
  BY DEF NextChannel, HandleEventReturns, DInv, LoopInv
<1>3. DispatchTypeOK' /\ HandleInv'
  BY <1>1 DEF DInv, DispatchTypeOK, HandleInv, NextChannel, HandleEventReturns
<1>4. LoopInv'
  <2>1. ~inCallback
    BY <1>2 DEF DInv, LoopInv, NextChannel, HandleEventReturns
  <2> QED BY <1>1, <1>2, <2>1 DEF DInv, LoopInv, NotDestroying
<1>5. OwnerInv' /\ QueueInv'
  BY <1>1 DEF DInv, OwnerInv, QueueInv, ClosedIsQueued, Queued
<1> QED BY <1>1, <1>3, <1>4, <1>5 DEF DInv

\* A connection that is up is closed, by its own event or by a functor.
LEMMA CloseKeeps ==
    ASSUME Inv, DInv, NEW fd \in Connections, owner[fd] = "up", HandleClose(fd),
           phase \in {"dispatch", "functors"}, doomed = {},
           UNCHANGED <<phase, activeChannels_, toHandle, currentActiveChannel_, doomed,
                       mayStopRead>>,
           revents_' \in [Fds -> SUBSET Reportable],
           \A g \in Fds : g # fd => revents_'[g] = revents_[g],
           \/ /\ phase = "dispatch" /\ currentActiveChannel_ = fd /\ fd \notin toHandle
              /\ revents_'[fd] \subseteq {"out"} /\ functors' = functors
           \/ /\ phase = "functors" /\ ~mayStopRead
              /\ functors' = functors \ {<<"forceClose", fd>>}
    PROVE  DInv' /\ Next
<1> USE NoneIsNoFd, AcceptAssumption
<1>1. /\ fd \in Fds /\ fd # AcceptFd /\ fd \in channels_
      /\ owner \in [Fds -> {"none", "up", "down", "dying", "removed"}]
  BY DEF Connections, DInv, OwnerInv, DispatchTypeOK
<1>2. /\ Usable(fd) /\ OneCall(fd, {}) /\ SetEvents(fd, {})
      /\ owner' = [owner EXCEPT ![fd] = "down"]
      /\ pendingFunctors_' = pendingFunctors_ \cup {<<"connectDestroyed", fd>>}
      /\ inCallback' = TRUE /\ failed' = {}
  <2>1. Usable(fd) /\ OneCall(fd, {})
    BY <1>1 DEF Usable, OneCall
  <2>2. failed' = {}
    BY DEF HandleClose, Fails, DInv
  <2> QED BY <2>1, <2>2 DEF HandleClose
<1>3. /\ events_' = [events_ EXCEPT ![fd] = {}]
      /\ channels_' = channels_ /\ usePoll' = usePoll
      /\ \A g \in Fds : g # fd => index_'[g] = index_[g]
      /\ ~usePoll /\ events_[fd] # {} => index_'[fd] = "kDeleted"
  <2>1. channels_ = channels_ \cup {fd}
    BY <1>1
  <2> QED BY <1>1, <1>2, <2>1, SetEventsDoes
<1>4. Next
  BY <1>1, <1>2, SetEventsIsNext
<1>5. DispatchTypeOK'
  <2>1. functors' \subseteq functors
    OBVIOUS
  <2> QED BY <1>1, <1>2, <2>1 DEF DInv, DispatchTypeOK
<1>6. LoopInv'
  BY <1>1, <1>2 DEF DInv, LoopInv, NotDestroying
<1>7. HandleInv'
  <2>1. revents_'[AcceptFd] \subseteq {"in"}
    BY <1>1 DEF DInv, HandleInv
  <2>2. CASE phase = "dispatch"
    BY <1>1, <1>2, <2>1, <2>2 DEF DInv, HandleInv, DispatchTypeOK
  <2>3. CASE phase = "functors"
    BY <2>1, <2>3 DEF DInv, LoopInv, HandleInv
  <2> QED BY <2>2, <2>3
<1>8. OwnerInv'
  BY <1>1, <1>2, <1>3, PollerTypes DEF DInv, OwnerInv
<1>9. QueueInv'
  <2>1. /\ <<"connectDestroyed", fd>> \notin pendingFunctors_ \cup functors
        /\ \A kind, g : <<kind, g>> \in pendingFunctors_' =>
               <<kind, g>> \in pendingFunctors_ \/ (kind = "connectDestroyed" /\ g = fd)
        /\ \A kind, g : <<kind, g>> \in functors' => <<kind, g>> \in functors
        /\ \A g : <<"connectDestroyed", g>> \in functors => <<"connectDestroyed", g>> \in functors'
        /\ \A f \in pendingFunctors_ : f \in pendingFunctors_'
    BY <1>2 DEF DInv, QueueInv, ClosedIsQueued
  <2>2. ClosedIsQueued'
    BY <1>1, <1>2, <2>1 DEF DInv, QueueInv, ClosedIsQueued, Connections
  <2>3. phase = "functors" /\ ~usePoll => index_'[fd] = "kDeleted"
    BY <1>1, <1>3 DEF DInv, OwnerInv
  <2>4. phase' # "dispatch" /\ ~usePoll' =>
            \A g \in Fds : owner'[g] = "down" /\ <<"connectDestroyed", g>> \notin functors'
                               => index_'[g] = "kDeleted"
    BY <1>1, <1>2, <1>3, <2>1, <2>3 DEF DInv, QueueInv
  <2>5. \A g \in Fds : ~(/\ <<"connectDestroyed", g>> \in pendingFunctors_'
                         /\ <<"connectDestroyed", g>> \in functors')
    BY <2>1 DEF DInv, QueueInv
  <2>6. \A kind, g : Queued(kind, g)' =>
           /\ kind = "destroyServer" <=> g = AcceptFd
           /\ kind = "forceClose" => ~mayStopRead'
    BY <1>1, <2>1 DEF DInv, QueueInv, Queued
  <2> QED BY <2>2, <2>4, <2>5, <2>6 DEF QueueInv
<1> QED BY <1>2, <1>4, <1>5, <1>6, <1>7, <1>8, <1>9 DEF DInv

\* Where a callback of handleEvent runs.
LEMMA Handles ==
    ASSUME DInv, NEW fd \in Fds, Handling(fd)
    PROVE  /\ phase = "dispatch" /\ functors = {} /\ doomed = {}
           /\ currentActiveChannel_ = fd /\ fd \notin toHandle /\ NotDestroying
           /\ ~inCallback /\ revents_ \in [Fds -> SUBSET Reportable]
           /\ owner[fd] = "up" \/ (owner[fd] = "down" /\ revents_[fd] \subseteq {"out"})
BY NoneIsNoFd DEF DInv, DispatchTypeOK, LoopInv, HandleInv, Handling

\* The steps that leave the objects alone, with revents_ looked at or not.
LEMMA QuietKeeps ==
    ASSUME Inv, DInv, phase \in {"dispatch", "functors"},
           UNCHANGED <<events_, channels_, index_, usePoll, owner, pendingFunctors_, functors,
                       doomed, failed, phase, activeChannels_, toHandle,
                       currentActiveChannel_, mayStopRead>>,
           inCallback' \in BOOLEAN,
           inCallback' => phase = "functors" \/ currentActiveChannel_ # None,
           revents_' \in [Fds -> SUBSET Reportable],
           \A g \in Fds : revents_'[g] \subseteq revents_[g]
    PROVE  DInv'
<1> USE NoneIsNoFd, AcceptAssumption
<1>1. DispatchTypeOK'
  BY DEF DInv, DispatchTypeOK
<1>2. LoopInv'
  BY DEF DInv, LoopInv, NotDestroying
<1>3. HandleInv'
  BY DEF DInv, HandleInv, DispatchTypeOK
<1>4. OwnerInv' /\ QueueInv'
  BY DEF DInv, OwnerInv, QueueInv, ClosedIsQueued, Queued
<1> QED BY <1>1, <1>2, <1>3, <1>4 DEF DInv

\* A connection that is up asks for other events.
LEMMA UpdateKeeps ==
    ASSUME Inv, DInv, NEW fd \in Connections, NEW ev, owner[fd] = "up", SetEvents(fd, ev),
           OneCall(fd, ev), ~mayStopRead /\ "read" \in events_[fd] => "read" \in ev,
           phase \in {"dispatch", "functors"},
           UNCHANGED <<owner, pendingFunctors_, functors, doomed, failed, phase,
                       activeChannels_, toHandle, currentActiveChannel_, mayStopRead, inCallback>>,
           revents_' \in [Fds -> SUBSET Reportable],
           \A g \in Fds : revents_'[g] \subseteq revents_[g]
    PROVE  DInv' /\ Next
<1> USE NoneIsNoFd, AcceptAssumption
<1>1. fd \in Fds /\ fd # AcceptFd /\ fd \in channels_ /\ Usable(fd)
  BY DEF Connections, DInv, OwnerInv, Usable
<1>2. channels_ \cup {fd} = channels_
  BY <1>1
<1>3. /\ events_' = [events_ EXCEPT ![fd] = ev]
      /\ channels_' = channels_ /\ usePoll' = usePoll
      /\ \A g \in Fds : g # fd => index_'[g] = index_[g]
  BY <1>1, <1>2, SetEventsDoes
<1>4. Next
  BY <1>1, SetEventsIsNext
<1>5. DispatchTypeOK'
  BY DEF DInv, DispatchTypeOK
<1>6. LoopInv'
  BY DEF DInv, LoopInv, NotDestroying
<1>7. HandleInv'
  BY DEF DInv, HandleInv, DispatchTypeOK
<1>8. OwnerInv'
  BY <1>1, <1>3, PollerTypes DEF DInv, OwnerInv
<1>9. QueueInv'
  BY <1>1, <1>3 DEF DInv, QueueInv, ClosedIsQueued, Queued
<1> QED BY <1>4, <1>5, <1>6, <1>7, <1>8, <1>9 DEF DInv

\* The callbacks of Channel::handleEvent other than that of the Acceptor.
LEMMA HandleKeeps ==
    ASSUME Inv, DInv, NEW fd \in Fds, CloseCallback(fd) \/ ReadCallback(fd) \/ WriteCallback(fd)
    PROVE  DInv' /\ [Next]_vars
<1> USE NoneIsNoFd
<1>1. Handling(fd) /\ UNCHANGED <<phase, activeChannels_, toHandle, currentActiveChannel_,
                                  mayStopRead, functors, doomed>>
  BY DEF CloseCallback, ReadCallback, WriteCallback, Handling
<1>2. fd \in Connections
  BY <1>1 DEF DInv, HandleInv, Connections, CloseCallback, ReadCallback, WriteCallback
<1>3. ASSUME NEW r \in SUBSET Reportable, Handled(fd, r)
      PROVE  /\ revents_' \in [Fds -> SUBSET Reportable]
             /\ revents_'[fd] = revents_[fd] \ r
             /\ \A g \in Fds : g # fd => revents_'[g] = revents_[g]
             /\ \A g \in Fds : revents_'[g] \subseteq revents_[g]
  BY <1>1, <1>3, Handles DEF Handled
<1>4. {"hup"} \in SUBSET Reportable /\ {"in", "hup"} \in SUBSET Reportable /\ {"out"} \in SUBSET Reportable
  BY DEF Reportable
<1>5. CASE CloseCallback(fd)
  <2>1. Handled(fd, {"hup"}) /\ HandleClose(fd) /\ "hup" \in revents_[fd] /\ "in" \notin revents_[fd]
    BY <1>5 DEF CloseCallback
  <2>2. owner[fd] = "up"
    BY <1>1, <2>1, Handles
  <2>3. revents_'[fd] \subseteq {"out"}
    BY <1>1, <1>3, <1>4, <2>1, Handles DEF Reportable
  <2> QED BY <1>1, <1>2, <1>3, <1>4, <2>1, <2>2, <2>3, Handles, CloseKeeps
<1>6. CASE ReadCallback(fd)
  <2>1. Handled(fd, {"in", "hup"}) /\ "in" \in revents_[fd]
    BY <1>6 DEF ReadCallback
  <2>2. owner[fd] = "up"
    BY <1>1, <2>1, Handles
  <2>3. revents_'[fd] \subseteq {"out"}
    BY <1>1, <1>3, <1>4, <2>1, Handles DEF Reportable
  <2>4. CASE HandleClose(fd)
    BY <1>1, <1>2, <1>3, <1>4, <2>1, <2>2, <2>3, <2>4, Handles, CloseKeeps
  <2>5. CASE inCallback' = TRUE /\ UNCHANGED <<vars, owner, pendingFunctors_, failed>>
    <3>1. UNCHANGED <<events_, channels_, index_, usePoll>>
      BY <2>5 DEF vars
    <3> QED BY <1>1, <1>3, <1>4, <2>1, <2>5, <3>1, Handles, QuietKeeps
  <2> QED BY <1>6, <2>4, <2>5 DEF ReadCallback
<1>7. CASE WriteCallback(fd)
  <2>1. Handled(fd, {"out"}) /\ UNCHANGED <<owner, pendingFunctors_, inCallback>>
    BY <1>7 DEF WriteCallback
  <2>2. failed' = failed /\ ("write" \in events_[fd] => owner[fd] = "up")
    <3>1. "write" \in events_[fd] => owner[fd] = "up"
      BY <1>1, Handles DEF DInv, OwnerInv
    <3> QED BY <1>7, <3>1 DEF WriteCallback, Fails
  <2>3. CASE UNCHANGED vars
    <3>1. UNCHANGED <<events_, channels_, index_, usePoll>>
      BY <2>3 DEF vars
    <3>2. inCallback' \in BOOLEAN /\ ~inCallback'
      BY <1>1, <2>1, Handles DEF DInv, LoopInv
    <3> QED BY <1>1, <1>3, <1>4, <2>1, <2>2, <2>3, <3>1, <3>2, Handles, QuietKeeps
  <2>4. CASE "write" \in events_[fd] /\ SetEvents(fd, events_[fd] \ {"write"})
    <3>1. OneCall(fd, events_[fd] \ {"write"})
      BY DEF OneCall
    <3>2. "read" \in events_[fd] => "read" \in events_[fd] \ {"write"}
      OBVIOUS
    <3> QED BY <1>1, <1>2, <1>3, <1>4, <2>1, <2>2, <2>4, <3>1, <3>2, Handles, UpdateKeeps
  <2> QED BY <1>7, <2>3, <2>4 DEF WriteCallback
<1> QED BY <1>5, <1>6, <1>7

\* A new connection, on a descriptor that is free.
LEMMA AcceptKeeps ==
    ASSUME Inv, DInv, NEW conn \in Fds, AcceptCallback(conn)
    PROVE  DInv' /\ Next
<1> USE NoneIsNoFd, AcceptAssumption
<1>1. /\ Handling(AcceptFd) /\ conn # AcceptFd /\ owner[conn] = "none"
      /\ owner' = [owner EXCEPT ![conn] = "up"] /\ SetEvents(conn, {"read"})
      /\ inCallback' = TRUE /\ revents_' = [revents_ EXCEPT ![AcceptFd] = @ \ {"in"}]
      /\ UNCHANGED <<phase, activeChannels_, toHandle, currentActiveChannel_, mayStopRead,
                     pendingFunctors_, functors, doomed, failed>>
  BY DEF AcceptCallback, Handling, Handled
<1>2. /\ phase = "dispatch" /\ currentActiveChannel_ = AcceptFd
      /\ owner \in [Fds -> {"none", "up", "down", "dying", "removed"}]
      /\ revents_ \in [Fds -> SUBSET Reportable]
  BY <1>1, Handles DEF DInv, DispatchTypeOK
<1>3. conn \notin channels_ /\ events_[conn] = {} /\ Usable(conn) /\ OneCall(conn, {"read"})
  BY <1>1, <1>2 DEF DInv, OwnerInv, Usable, OneCall
<1>4. /\ events_' = [events_ EXCEPT ![conn] = {"read"}]
      /\ channels_' = channels_ \cup {conn} /\ usePoll' = usePoll
      /\ \A g \in Fds : g # conn => index_'[g] = index_[g]
  BY <1>1, <1>3, SetEventsDoes
<1>5. Next
  BY <1>1, <1>3, SetEventsIsNext
<1>6. DispatchTypeOK'
  BY <1>1, <1>2 DEF DInv, DispatchTypeOK
<1>7. LoopInv'
  BY <1>1, <1>2 DEF DInv, LoopInv, NotDestroying
<1>8. HandleInv'
  BY <1>1, <1>2 DEF DInv, HandleInv, DispatchTypeOK
<1>9. OwnerInv'
  BY <1>1, <1>2, <1>4, PollerTypes DEF DInv, OwnerInv
<1>10. QueueInv'
  BY <1>1, <1>2, <1>4 DEF DInv, QueueInv, ClosedIsQueued, Queued
<1> QED BY <1>1, <1>5, <1>6, <1>7, <1>8, <1>9, <1>10 DEF DInv

\* A functor that closes nothing by itself is queued.
LEMMA EnqueueKeeps ==
    ASSUME DInv, NEW kind \in {"forceClose", "destroyServer"}, NEW fd \in Fds,
           kind = "destroyServer" <=> fd = AcceptFd,
           kind = "forceClose" => ~mayStopRead,
           pendingFunctors_' = pendingFunctors_ \cup {<<kind, fd>>},
           phase # "setup", InCallback, UNCHANGED vars
    PROVE  DInv'
<1>1. UNCHANGED <<events_, channels_, index_, usePoll, phase, activeChannels_, toHandle,
                  currentActiveChannel_, revents_, owner, functors, doomed, failed,
                  inCallback, mayStopRead>>
  BY DEF InCallback, vars, loopVars
<1>2. DispatchTypeOK'
  BY <1>1 DEF DInv, DispatchTypeOK
<1>3. LoopInv' /\ HandleInv' /\ OwnerInv'
  BY <1>1 DEF DInv, LoopInv, HandleInv, OwnerInv, NotDestroying
<1>4. \A k, g : <<k, g>> \in pendingFunctors_' <=> <<k, g>> \in pendingFunctors_ \/ (k = kind /\ g = fd)
  OBVIOUS
<1>5. ClosedIsQueued'
  BY <1>1, <1>4 DEF DInv, QueueInv, ClosedIsQueued
<1>6. QueueInv'
  BY <1>1, <1>4, <1>5 DEF DInv, QueueInv, Queued
<1> QED BY <1>1, <1>2, <1>3, <1>6 DEF DInv

\* What the application does in a callback.
LEMMA CallKeeps ==
    ASSUME Inv, DInv, QueueDestroyServer \/ \E conn \in Connections : Called(conn)
    PROVE  DInv' /\ [Next]_vars
<1>1. InCallback
  BY DEF QueueDestroyServer, Called, Send, StartRead, StopRead, ForceClose
<1>2. /\ phase \in {"dispatch", "functors"} /\ phase # "setup"
      /\ UNCHANGED <<phase, activeChannels_, toHandle, currentActiveChannel_, revents_, owner,
                     functors, doomed, failed, inCallback, mayStopRead>>
      /\ revents_ \in [Fds -> SUBSET Reportable]
      /\ \A g \in Fds : revents_'[g] \subseteq revents_[g]
  BY <1>1 DEF InCallback, loopVars, DInv, DispatchTypeOK, LoopInv
<1>3. CASE QueueDestroyServer
  BY <1>1, <1>2, <1>3, AcceptAssumption, EnqueueKeeps DEF QueueDestroyServer
<1>4. ASSUME NEW conn \in Connections, Called(conn)
      PROVE  DInv' /\ [Next]_vars
  <2>1. conn \in Fds /\ conn # AcceptFd
    BY DEF Connections
  <2>2. CASE ForceClose(conn)
    BY <1>1, <1>2, <2>1, <2>2, EnqueueKeeps DEF ForceClose
  <2>3. ASSUME NEW ev, SetEvents(conn, ev), OneCall(conn, ev), owner[conn] = "up",
               ~mayStopRead /\ "read" \in events_[conn] => "read" \in ev,
               UNCHANGED pendingFunctors_
        PROVE  DInv' /\ Next
    BY <1>2, <2>3, UpdateKeeps
  <2>4. CASE Send(conn)
    <3>1. OneCall(conn, events_[conn] \cup {"write"})
      BY DEF OneCall
    <3> QED BY <2>3, <2>4, <3>1 DEF Send
  <2>5. CASE StartRead(conn)
    <3>1. OneCall(conn, events_[conn] \cup {"read"})
      BY DEF OneCall
    <3> QED BY <2>3, <2>5, <3>1 DEF StartRead
  <2>6. CASE StopRead(conn)
    <3>1. OneCall(conn, events_[conn] \ {"read"})
      BY DEF OneCall
    <3> QED BY <2>3, <2>6, <3>1 DEF StopRead
  <2> QED BY <1>4, <2>2, <2>4, <2>5, <2>6 DEF Called
<1> QED BY <1>3, <1>4

\* The functors that the library has queued.
LEMMA RunKeeps ==
    ASSUME Inv, DInv, NEW fd \in Fds,
           RunForceClose(fd) \/ RunConnectDestroyed(fd) \/ RunDestroyServer
    PROVE  DInv' /\ [Next]_vars
<1> USE NoneIsNoFd, AcceptAssumption
<1>1. /\ phase = "functors" /\ ~inCallback /\ doomed = {} /\ NotDestroying
      /\ UNCHANGED <<phase, activeChannels_, toHandle, currentActiveChannel_, revents_,
                     mayStopRead>>
      /\ revents_ \in [Fds -> SUBSET Reportable]
      /\ owner \in [Fds -> {"none", "up", "down", "dying", "removed"}]
  BY DEF RunForceClose, RunConnectDestroyed, RunDestroyServer, Run, loopVars, DInv, DispatchTypeOK
<1>2. CASE RunForceClose(fd)
  <2>1. /\ <<"forceClose", fd>> \in functors /\ functors' = functors \ {<<"forceClose", fd>>}
        /\ doomed' = doomed
    BY <1>2 DEF RunForceClose, Run
  <2>2. fd \in Connections /\ ~mayStopRead
    BY <2>1 DEF DInv, QueueInv, Queued, Connections
  <2>3. CASE owner[fd] = "up" /\ HandleClose(fd)
    BY <1>1, <2>1, <2>2, <2>3, CloseKeeps
  <2>4. CASE UNCHANGED <<vars, owner, pendingFunctors_, failed, inCallback>>
    <3>1. UNCHANGED <<events_, channels_, index_, usePoll>>
      BY <2>4 DEF vars
    <3>2. DispatchTypeOK'
      BY <1>1, <2>1, <2>4 DEF DInv, DispatchTypeOK
    <3>3. LoopInv' /\ HandleInv' /\ OwnerInv'
      BY <1>1, <2>1, <2>4, <3>1 DEF DInv, LoopInv, HandleInv, OwnerInv, NotDestroying
    <3>4. \A kind, g : <<kind, g>> \in functors' <=>
              <<kind, g>> \in functors /\ ~(kind = "forceClose" /\ g = fd)
      BY <2>1
    <3>5. QueueInv'
      BY <1>1, <2>4, <3>1, <3>4 DEF DInv, QueueInv, ClosedIsQueued, Queued
    <3> QED BY <2>4, <3>2, <3>3, <3>5 DEF DInv
  <2> QED BY <1>2, <2>3, <2>4 DEF RunForceClose
<1>3. CASE RunConnectDestroyed(fd)
  <2>1. /\ <<"connectDestroyed", fd>> \in functors
        /\ functors' = functors \ {<<"connectDestroyed", fd>>}
        /\ owner' = [owner EXCEPT ![fd] = "dying"]
        /\ UNCHANGED <<vars, pendingFunctors_, doomed, failed, inCallback>>
    BY <1>3 DEF RunConnectDestroyed, Run
  <2>2. UNCHANGED <<events_, channels_, index_, usePoll>>
    BY <2>1 DEF vars
  <2>3. fd \in Connections /\ owner[fd] = "down" /\ fd # AcceptFd
    BY <2>1 DEF DInv, QueueInv, ClosedIsQueued, Queued, Connections
  <2>4. \A kind, g : <<kind, g>> \in functors' <=>
            <<kind, g>> \in functors /\ ~(kind = "connectDestroyed" /\ g = fd)
    BY <2>1
  <2>5. DispatchTypeOK'
    BY <1>1, <2>1 DEF DInv, DispatchTypeOK
  <2>6. LoopInv' /\ HandleInv'
    BY <1>1, <2>1, <2>2 DEF DInv, LoopInv, HandleInv
  <2>7. OwnerInv'
    BY <1>1, <2>1, <2>2, <2>3 DEF DInv, OwnerInv
  <2>8. QueueInv'
    BY <1>1, <2>1, <2>2, <2>3, <2>4 DEF DInv, QueueInv, ClosedIsQueued, Queued
  <2> QED BY <2>1, <2>5, <2>6, <2>7, <2>8 DEF DInv
<1>4. CASE RunDestroyServer
  <2>1. /\ functors' = functors \ {<<"destroyServer", AcceptFd>>}
        /\ doomed' = {g \in Fds : owner[g] = "up"}
        /\ UNCHANGED <<vars, owner, pendingFunctors_, failed, inCallback>>
    BY <1>4 DEF RunDestroyServer, Run
  <2>2. UNCHANGED <<events_, channels_, index_, usePoll>>
    BY <2>1 DEF vars
  <2>3. \A kind, g : <<kind, g>> \in functors' <=>
            <<kind, g>> \in functors /\ ~(kind = "destroyServer" /\ g = AcceptFd)
    BY <2>1
  <2>4. DispatchTypeOK'
    BY <1>1, <2>1 DEF DInv, DispatchTypeOK
  <2>5. LoopInv' /\ HandleInv' /\ OwnerInv'
    BY <1>1, <2>1, <2>2 DEF DInv, LoopInv, HandleInv, OwnerInv, NotDestroying
  <2>6. QueueInv'
    BY <1>1, <2>1, <2>2, <2>3 DEF DInv, QueueInv, ClosedIsQueued, Queued
  <2> QED BY <2>1, <2>4, <2>5, <2>6 DEF DInv
<1> QED BY <1>2, <1>3, <1>4

\* connectDestroyed and ~Acceptor take the channel out of the poller; at last the object
\* and its channel are deleted.
LEMMA DestroyKeeps ==
    ASSUME Inv, DInv, NEW fd \in Fds, DestroyDoomed(fd) \/ RemoveChannel(fd) \/ Destroyed(fd)
    PROVE  DInv' /\ [Next]_vars
<1> USE NoneIsNoFd, AcceptAssumption
<1>1. /\ UNCHANGED <<phase, activeChannels_, toHandle, currentActiveChannel_, revents_,
                     pendingFunctors_, functors, mayStopRead>>
      /\ owner \in [Fds -> {"none", "up", "down", "dying", "removed"}]
  BY DEF DestroyDoomed, RemoveChannel, Destroyed, loopVars, DInv, DispatchTypeOK
<1>2. CASE DestroyDoomed(fd)
  <2>1. /\ fd \in doomed /\ doomed' = doomed \ {fd} /\ owner' = [owner EXCEPT ![fd] = "dying"]
        /\ SetEvents(fd, {}) /\ inCallback' \in BOOLEAN /\ UNCHANGED failed
    BY <1>2 DEF DestroyDoomed
  <2>2. phase = "functors" /\ owner[fd] = "up"
    BY <2>1 DEF DInv, LoopInv, OwnerInv
  <2>3. fd \in channels_ /\ Usable(fd) /\ OneCall(fd, {})
    BY <2>2 DEF DInv, OwnerInv, Usable, OneCall
  <2>4. channels_ \cup {fd} = channels_
    BY <2>3
  <2>5. /\ events_' = [events_ EXCEPT ![fd] = {}]
        /\ channels_' = channels_ /\ usePoll' = usePoll
        /\ \A g \in Fds : g # fd => index_'[g] = index_[g]
    BY <2>1, <2>3, <2>4, SetEventsDoes
  <2>6. Next
    BY <2>1, <2>3, SetEventsIsNext
  <2>7. DispatchTypeOK'
    BY <1>1, <2>1 DEF DInv, DispatchTypeOK
  <2>8. LoopInv' /\ HandleInv'
    BY <1>1, <2>1, <2>2 DEF DInv, LoopInv, HandleInv
  <2>9. OwnerInv'
    BY <1>1, <2>1, <2>2, <2>3, <2>5, PollerTypes DEF DInv, OwnerInv
  <2>10. QueueInv'
    BY <1>1, <2>1, <2>2, <2>5 DEF DInv, QueueInv, ClosedIsQueued, Queued
  <2> QED BY <2>1, <2>6, <2>7, <2>8, <2>9, <2>10 DEF DInv
<1>3. CASE RemoveChannel(fd)
  <2>1. /\ owner[fd] = "dying" /\ owner' = [owner EXCEPT ![fd] = "removed"] /\ Remove(fd)
        /\ UNCHANGED <<doomed, inCallback>>
    BY <1>3 DEF RemoveChannel
  <2>2. phase = "functors"
    BY <2>1 DEF DInv, LoopInv, NotDestroying
  <2>3. failed' = {}
    BY <1>3, <2>2 DEF RemoveChannel, Fails, DInv
  <2>4. /\ Next /\ events_' = events_ /\ usePoll' = usePoll
        /\ channels_' = channels_ \ {fd}
        /\ \A g \in Fds : g # fd /\ (usePoll => g \notin channels_) => index_'[g] = index_[g]
    BY <2>1, RemoveDoes
  <2>5. DispatchTypeOK'
    BY <1>1, <2>1 DEF DInv, DispatchTypeOK
  <2>6. LoopInv' /\ HandleInv'
    BY <1>1, <2>1, <2>2 DEF DInv, LoopInv, HandleInv
  <2>7. OwnerInv'
    BY <1>1, <2>1, <2>2, <2>4, PollerTypes DEF DInv, OwnerInv
  <2>8. QueueInv'
    BY <1>1, <2>1, <2>2, <2>4 DEF DInv, QueueInv, ClosedIsQueued, Queued
  <2> QED BY <2>3, <2>4, <2>5, <2>6, <2>7, <2>8 DEF DInv
<1>4. CASE Destroyed(fd)
  <2>1. /\ owner[fd] = "removed" /\ ~Referenced(fd) /\ owner' = [owner EXCEPT ![fd] = "none"]
        /\ UNCHANGED <<doomed, failed, inCallback>>
    BY <1>4 DEF Destroyed
  <2>2. phase # "setup"
    BY <2>1 DEF DInv, LoopInv
  <2>3. /\ [Next]_vars /\ UNCHANGED <<events_, channels_, usePoll>>
        /\ \A g \in Fds : g # fd => index_'[g] = index_[g]
        /\ usePoll => index_'[fd] < 0
    <3>1. CASE usePoll
      <4>1. pollPoller!NewChannel(fd) /\ UNCHANGED <<usePoll, ePollPollerOnly>>
        BY <1>4, <3>1 DEF Destroyed
      <4>2. Next
        BY <3>1, <4>1 DEF Next, PollPollerStep, pollPoller!Next
      <4> QED BY <3>1, <4>1, <4>2, PollerTypes DEF pollPoller!NewChannel
    <3>2. CASE ~usePoll
      BY <1>4, <3>2 DEF Destroyed, vars
    <3> QED BY <3>1, <3>2
  <2>4. DispatchTypeOK'
    BY <1>1, <2>1 DEF DInv, DispatchTypeOK
  <2>5. LoopInv' /\ HandleInv'
    BY <1>1, <2>1, <2>2 DEF DInv, LoopInv, HandleInv, NotDestroying
  <2>6. OwnerInv'
    BY <1>1, <2>1, <2>2, <2>3, PollerTypes DEF DInv, OwnerInv
  <2>7. QueueInv'
    BY <1>1, <2>1, <2>2, <2>3 DEF DInv, QueueInv, ClosedIsQueued, Queued
  <2> QED BY <2>1, <2>3, <2>4, <2>5, <2>6, <2>7 DEF DInv
<1> QED BY <1>2, <1>3, <1>4

\* Every step keeps the invariant and is a step of the poller, or none.
LEMMA DispatchStep ==
    ASSUME Inv, DInv, [DispatchNext]_allVars
    PROVE  DInv' /\ [Next]_vars
<1>1. CASE UNCHANGED allVars
  <2>1. UNCHANGED <<events_, channels_, index_, usePoll>>
    BY <1>1 DEF allVars, vars
  <2> QED BY <1>1, <2>1 DEF allVars, loopVars, ownerVars, DInv, DispatchTypeOK, LoopInv, HandleInv,
          OwnerInv, QueueInv, ClosedIsQueued, Queued, NotDestroying
<1>2. CASE DispatchNext
  BY <1>2, AcceptAssumption, ListenKeeps, LoopKeeps, PollKeeps, ForKeeps, HandleKeeps, AcceptKeeps,
     CallKeeps, RunKeeps, DestroyKeeps DEF DispatchNext, Dispatched, FunctorStep
<1> QED BY <1>1, <1>2

\* The invariant holds when the loop is set up.
LEMMA DispatchInits == ASSUME DispatchInit PROVE DInv
<1>1. /\ events_ = [fd \in Fds |-> {}] /\ channels_ = {}
      /\ usePoll => \A fd \in Fds : index_[fd] < 0
  BY DEF DispatchInit, Init, pollPoller!Init, ePollPoller!Init
<1>2. DispatchTypeOK /\ LoopInv /\ HandleInv
  BY <1>1, NoneIsNoFd, AcceptAssumption
  DEF DispatchInit, DispatchTypeOK, LoopInv, HandleInv, NotDestroying
<1>3. OwnerInv /\ QueueInv
  BY <1>1, AcceptAssumption DEF DispatchInit, OwnerInv, QueueInv, ClosedIsQueued, Queued, Connections
<1> QED BY <1>2, <1>3 DEF DInv, DispatchInit

\* So both invariants hold always.
LEMMA DispatchInvariant == DispatchSpec => [](Inv /\ DInv)
<1>1. DispatchInit => Inv /\ DInv
  BY InvInit, DispatchInits DEF DispatchInit
<1>2. Inv /\ DInv /\ [DispatchNext]_allVars => (Inv /\ DInv)'
  BY DispatchStep, InvNext
<1> QED BY <1>1, <1>2, PTL DEF DispatchSpec

\* The loop with its channels, connections and acceptor calls the poller only as the pollers
\* expect it: what is proved about them holds in the loop.
THEOREM DispatchUsesPollers == DispatchSpec => Spec
<1>1. DispatchInit => Init
  BY DEF DispatchInit
<1>2. Inv /\ DInv /\ [DispatchNext]_allVars => [Next]_vars
  BY DispatchStep
<1> QED BY <1>1, <1>2, DispatchInvariant, PTL DEF DispatchSpec, Spec

\* In the loop, too, index_ says what the poller needs to know (EPollPoller.cpp:87-155,
\* PollPoller.cpp:54-119), in any order of events, callbacks and functors.
THEOREM DispatchIndexInStep == DispatchSpec => []IndexInStep
BY DispatchUsesPollers, PollerIndexInStep

\* No assert of a poller and no epoll_ctl fails in the loop.
THEOREM DispatchNoFailure == DispatchSpec => []NoFailure
BY DispatchUsesPollers, PollerNoFailure

\* The operating system is asked for what the channels of the loop want, from the call of
\* the Acceptor or the connection to the removal in connectDestroyed.
THEOREM DispatchImplementsPoller == DispatchSpec => PollerSpec
BY DispatchUsesPollers, PollersImplementPoller

\* Whatever the callbacks do, the pointers that the loop has still to follow are those of
\* live channels, no assert of removeChannel or handleClose fails, and a stale revents_ does
\* not reach a closed connection (EventLoop.cpp:119-123, Channel.cpp:98-140).
THEOREM DispatchActiveAlive == DispatchSpec => []ActiveAlive
<1>1. DInv => ActiveAlive
  BY DEF DInv, HandleInv, OwnerInv, QueueInv, ActiveAlive
<1> QED BY <1>1, DispatchInvariant, PTL

=============================================================================
