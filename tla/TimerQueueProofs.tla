--------------------------- MODULE TimerQueueProofs ---------------------------
(***************************************************************************)
(* Proofs about TimerQueue, for any addresses, delays and number of        *)
(* timers: the two sets agree and every Timer has one owner, no timer is   *)
(* lost or resurrected, and the timerfd is armed for the earliest.         *)
(***************************************************************************)
EXTENDS TimerQueue, FiniteSetTheorems, FunctionTheorems, SequenceTheorems, TLAPS

-----------------------------------------------------------------------------
(***************************************************************************)
(* The order of a std::set of entries.                                     *)
(***************************************************************************)

Rank(ts, e) == Cardinality({f \in ts : Before(f, e)})

\* Later entries have more entries before them.
LEMMA RankOrder ==
    ASSUME NEW ts \in SUBSET (Nat \X Nat), IsFiniteSet(ts), NEW e \in ts
    PROVE  /\ Rank(ts, e) \in 0..(Cardinality(ts) - 1)
           /\ \A g \in ts : Before(e, g) => Rank(ts, e) < Rank(ts, g)
<1> DEFINE Prev(x) == {f \in ts : Before(f, x)}
<1>1. \A x \in ts : IsFiniteSet(Prev(x)) /\ Cardinality(Prev(x)) \in Nat
  BY FS_Subset, FS_CardinalityType
<1>2. e \notin Prev(e)
  BY DEF Before
<1>3. Cardinality(Prev(e) \cup {e}) = Cardinality(Prev(e)) + 1
  BY <1>1, <1>2, FS_AddElement
<1>4. Cardinality(Prev(e)) + 1 <= Cardinality(ts) /\ Cardinality(ts) \in Nat
  <2>1. Prev(e) \cup {e} \in SUBSET ts
    OBVIOUS
  <2> QED BY <2>1, <1>3, FS_Subset, FS_CardinalityType
<1>5. ASSUME NEW g \in ts, Before(e, g) PROVE Cardinality(Prev(e)) < Cardinality(Prev(g))
  <2>1. Prev(e) \cup {e} \in SUBSET Prev(g)
    <3>1. ASSUME NEW f \in ts, Before(f, e) PROVE Before(f, g)
      <4>1. e[1] \in Nat /\ e[2] \in Nat /\ f[1] \in Nat /\ f[2] \in Nat /\ g[1] \in Nat /\ g[2] \in Nat
        OBVIOUS
      <4> QED BY <4>1, <3>1, <1>5 DEF Before
    <3> QED BY <3>1, <1>5
  <2>2. Cardinality(Prev(e) \cup {e}) <= Cardinality(Prev(g))
    BY <2>1, <1>1, <1>5, FS_Subset
  <2>3. Cardinality(Prev(g)) \in Nat /\ Cardinality(Prev(e)) \in Nat
    BY <1>1
  <2> QED BY <2>2, <2>3, <1>3
<1>6. \A x \in ts : Rank(ts, x) = Cardinality(Prev(x))
  BY DEF Rank
<1> HIDE DEF Prev
<1>7. Cardinality(Prev(e)) \in 0..(Cardinality(ts) - 1)
  BY <1>1, <1>4
<1> QED BY <1>5, <1>6, <1>7

\* Of two entries one is before the other.
LEMMA BeforeTotal ==
    ASSUME NEW e \in Nat \X Nat, NEW f \in Nat \X Nat
    PROVE  /\ e = f \/ Before(e, f) \/ Before(f, e)
           /\ ~ (Before(e, f) /\ Before(f, e))
           /\ ~ Before(e, e)
<1>1. /\ e[1] \in Nat /\ e[2] \in Nat /\ f[1] \in Nat /\ f[2] \in Nat
      /\ e = <<e[1], e[2]>> /\ f = <<f[1], f[2]>>
  OBVIOUS
<1>2. e[1] = f[1] /\ e[2] = f[2] => e = f
  BY <1>1
<1> QED BY <1>1, <1>2 DEF Before

\* Each position of the order belongs to one entry.
LEMMA RankBijection ==
    ASSUME NEW ts \in SUBSET (Nat \X Nat), IsFiniteSet(ts)
    PROVE  /\ Cardinality(ts) \in Nat
           /\ \A e \in ts : Rank(ts, e) \in 0..(Cardinality(ts) - 1)
           /\ \A e, f \in ts : Rank(ts, e) = Rank(ts, f) => e = f
           /\ \A n \in 0..(Cardinality(ts) - 1) : \E e \in ts : Rank(ts, e) = n
<1> DEFINE R == [e \in ts |-> Rank(ts, e)]
           Places == 0..(Cardinality(ts) - 1)
<1>1. Cardinality(ts) \in Nat
  BY FS_CardinalityType
<1>2. \A e \in ts : Rank(ts, e) \in Places
  BY RankOrder
<1>3. ASSUME NEW e \in ts, NEW f \in ts, Rank(ts, e) = Rank(ts, f) PROVE e = f
  <2>1. Rank(ts, e) \in Nat /\ Rank(ts, f) \in Nat
    BY <1>1, <1>2
  <2>2. ~Before(e, f) /\ ~Before(f, e)
    BY <2>1, <1>3, RankOrder
  <2> QED BY <2>2, BeforeTotal
<1>4. R \in Injection(ts, Places)
  BY <1>2, <1>3, Fun_IsInj
<1>5. IsFiniteSet(Places) /\ Cardinality(Places) = Cardinality(ts)
  <2>1. 0 \in Int /\ Cardinality(ts) - 1 \in Int
    BY <1>1
  <2>2. /\ IsFiniteSet(Places)
        /\ Cardinality(Places) = IF 0 > Cardinality(ts) - 1 THEN 0
                                 ELSE (Cardinality(ts) - 1) - 0 + 1
    BY <2>1, FS_Interval
  <2> QED BY <1>1, <2>2
<1>6. R \in Surjection(ts, Places)
  BY <1>4, <1>5, FS_Injection
<1>7. \A n \in Places : \E e \in ts : R[e] = n
  BY <1>6 DEF Surjection
<1> QED BY <1>1, <1>2, <1>3, <1>7

\* begin() of a set that is not empty.
LEMMA EarliestIsFirst ==
    ASSUME NEW ts \in SUBSET (Nat \X Nat), IsFiniteSet(ts), ts # {}
    PROVE  /\ Earliest(ts) \in ts
           /\ Earliest(ts)[1] \in Nat
           /\ \A e \in ts : Earliest(ts)[1] <= e[1]
<1>1. PICK e \in ts : Rank(ts, e) = 0
  <2>1. Cardinality(ts) \in Nat \ {0}
    BY FS_CardinalityType, FS_EmptySet
  <2> QED BY <2>1, RankBijection
<1>2. \A f \in ts : e = f \/ Before(e, f)
  <2>1. {f \in ts : Before(f, e)} = {}
    <3>1. IsFiniteSet({f \in ts : Before(f, e)})
      BY FS_Subset
    <3> QED BY <3>1, <1>1, FS_EmptySet DEF Rank
  <2> QED BY <2>1, BeforeTotal
<1>3. Earliest(ts) \in ts /\ \A f \in ts : Earliest(ts) = f \/ Before(Earliest(ts), f)
  BY <1>1, <1>2 DEF Earliest
<1>4. ASSUME NEW f \in ts PROVE Earliest(ts)[1] <= f[1]
  <2>1. f[1] \in Nat /\ Earliest(ts)[1] \in Nat
    BY <1>3
  <2> QED BY <1>3, <2>1 DEF Before
<1> QED BY <1>3, <1>4

\* getExpired copies the due entries: each address once, whatever their order.
LEMMA SortedAddrsOnce ==
    ASSUME NEW ts \in SUBSET (Nat \X Addrs), IsFiniteSet(ts),
           \A e, f \in ts : e[2] = f[2] => e = f
    PROVE  LET s == SortedAddrs(ts)
           IN  /\ s \in Seq(Addrs)
               /\ Len(s) \in Nat
               /\ {s[k] : k \in 1..Len(s)} = {e[2] : e \in ts}
               /\ \A j, k \in 1..Len(s) : s[j] = s[k] => j = k
<1> DEFINE n == Cardinality(ts)
           At(k) == CHOOSE e \in ts : Rank(ts, e) = k - 1
           s == SortedAddrs(ts)
<1>0. ts \in SUBSET (Nat \X Nat)
  BY AddrAssumption
<1>1. n \in Nat
  BY <1>0, RankBijection
<1>2. \A k \in 1..n : At(k) \in ts /\ Rank(ts, At(k)) = k - 1
  <2> SUFFICES ASSUME NEW k \in 1..n PROVE At(k) \in ts /\ Rank(ts, At(k)) = k - 1
    OBVIOUS
  <2>1. k - 1 \in 0..(n - 1)
    BY <1>1
  <2>2. \E e \in ts : Rank(ts, e) = k - 1
    BY <2>1, <1>0, RankBijection
  <2> QED BY <2>2
<1>3. s = [k \in 1..n |-> At(k)[2]]
  BY DEF SortedAddrs, Rank
<1>4. \A k \in 1..n : At(k)[2] \in Addrs
  BY <1>2
<1> HIDE DEF At
<1>5. s \in Seq(Addrs) /\ Len(s) = n
  BY <1>1, <1>3, <1>4
<1>6. \A e \in ts : Rank(ts, e) + 1 \in 1..n /\ At(Rank(ts, e) + 1) = e
  <2> SUFFICES ASSUME NEW e \in ts
               PROVE  Rank(ts, e) + 1 \in 1..n /\ At(Rank(ts, e) + 1) = e
    OBVIOUS
  <2>1. Rank(ts, e) \in 0..(n - 1)
    BY <1>0, RankBijection
  <2>2. Rank(ts, e) + 1 \in 1..n /\ (Rank(ts, e) + 1) - 1 = Rank(ts, e)
    BY <2>1, <1>1
  <2>3. At(Rank(ts, e) + 1) \in ts /\ Rank(ts, At(Rank(ts, e) + 1)) = Rank(ts, e)
    BY <2>2, <1>2
  <2> QED BY <2>2, <2>3, <1>0, RankBijection
<1>7. {s[k] : k \in 1..Len(s)} = {e[2] : e \in ts}
  <2>1. \A k \in 1..n : s[k] = At(k)[2] /\ At(k) \in ts
    BY <1>2, <1>3
  <2>2. \A e \in ts : \E k \in 1..n : s[k] = e[2]
    BY <1>6, <2>1
  <2> HIDE DEF s, n
  <2> QED BY <2>1, <2>2, <1>5
<1>8. ASSUME NEW j \in 1..n, NEW k \in 1..n, s[j] = s[k] PROVE j = k
  <2>1. At(j) = At(k)
    BY <1>8, <1>2, <1>3
  <2>2. j - 1 = k - 1
    BY <2>1, <1>2
  <2> QED BY <2>2, <1>1
<1> HIDE DEF s, n
<1>9. Len(s) \in Nat
  BY <1>1, <1>5
<1> QED BY <1>5, <1>7, <1>8, <1>9 DEF s

-----------------------------------------------------------------------------
(***************************************************************************)
(* The invariant.                                                          *)
(***************************************************************************)

Ids == Addrs \X (0..MaxTimers)

Requests == ({"add"} \X Addrs) \cup ({"cancel"} \X Ids)

\* The addresses of the timers in the two sets.
Queued == {a \in Addrs : ActiveTimer(a) \in activeTimers_}

\* The Timer objects: no two of them have the same sequence.
HeapInv ==
    /\ heap \in [Addrs -> [expiration : Nat, interval : Nat, sequence : 0..numCreated]]
    /\ numCreated \in 0..MaxTimers
    /\ \A a \in Live : heap[a].sequence # 0 /\ heap[a].expiration # 0
    /\ \A a, b \in Live : heap[a].sequence = heap[b].sequence => a = b
    /\ ids \subseteq Ids /\ caller \subseteq Ids
    /\ cancelled \subseteq 1..numCreated

\* The requests of other threads; an object is on its way to the loop once.
FunctorsInv ==
    /\ queue \in Seq(Requests)
    /\ left \in 0..Len(queue)
    /\ \A j, k \in 1..Len(queue) :
           queue[j][1] = "add" /\ queue[k] = queue[j] => j = k

\* What the loop thread has in hand.
LoopInv ==
    /\ now \in 1..MaxNow
    /\ pc \in {"poll", "events", "running", "callback", "functors", "gone"}
    /\ polled \in BOOLEAN /\ readable \in BOOLEAN /\ remaining \in Nat
    /\ polled => pc = "events"
    /\ callingExpiredTimers_ \in BOOLEAN
    /\ cancelingTimers_ \subseteq Ids
    /\ expired \in Seq(Addrs) /\ done \in 0..Len(expired) /\ handleNow \in Nat
    /\ pc \in {"running", "callback"} => callingExpiredTimers_ /\ handleNow # 0
    /\ pc \notin {"running", "callback"} => expired = <<>>
    /\ FunctorsInv

\* Each timer of the sets is in both, with what its object says.
SetsInv ==
    /\ timers_ = {Entry(a) : a \in Queued}
    /\ activeTimers_ = {ActiveTimer(a) : a \in Queued}
    /\ IsFiniteSet(timers_)

\* Each Timer has one owner.
OwnersInv ==
    /\ Live = Queued \cup Batch \cup QueuedAdds
    /\ Queued \cap Batch = {} /\ Queued \cap QueuedAdds = {} /\ Batch \cap QueuedAdds = {}
    /\ \A j, k \in 1..Len(expired) : expired[j] = expired[k] => j = k

\* What has happened to a timer: of the batch those that were cancelled are remembered.
CancelInv ==
    /\ \A a \in Queued \cup QueuedAdds : heap[a].sequence \notin cancelled
    /\ \A a \in Batch :
           heap[a].sequence \in cancelled <=> ActiveTimer(a) \in cancelingTimers_
    /\ \A k \in 1..done : heap[expired[k]].sequence \in ran
    /\ NoTimerLost

IInv == HeapInv /\ LoopInv /\ SetsInv /\ OwnersInv /\ CancelInv /\ Armed

\* A new TimerQueue has no timer.
LEMMA InitIInv == ASSUME Init PROVE IInv
<1> USE DEF Init
<1>1. Live = {} /\ Queued = {} /\ Batch = {} /\ QueuedAdds = {}
  BY DEF Live, Queued, Batch, QueuedAdds
<1>2. HeapInv
  BY <1>1, BoundAssumption DEF HeapInv, Free
<1>3. LoopInv
  <2>1. /\ expired \in Seq(Addrs) /\ Len(expired) = 0
        /\ queue \in Seq(Requests) /\ Len(queue) = 0
    BY EmptySeq
  <2>2. now \in 1..MaxNow
    BY BoundAssumption
  <2>3. done \in 0..Len(expired) /\ left \in 0..Len(queue)
    BY <2>1
  <2>4. FunctorsInv
    BY <2>1, <2>3 DEF FunctorsInv
  <2> QED BY <2>1, <2>2, <2>3, <2>4 DEF LoopInv
<1>4. SetsInv
  BY <1>1, FS_EmptySet DEF SetsInv
<1>5. OwnersInv /\ CancelInv /\ Armed
  BY <1>1 DEF OwnersInv, CancelInv, NoTimerLost, Armed
<1> QED BY <1>2, <1>3, <1>4, <1>5 DEF IInv

-----------------------------------------------------------------------------
(***************************************************************************)
(* The two sets.                                                           *)
(***************************************************************************)

\* An entry is a time and an address, found by either.
LEMMA EntryFacts ==
    ASSUME HeapInv, SetsInv
    PROVE  /\ timers_ \in SUBSET (Nat \X Addrs) /\ timers_ \in SUBSET (Nat \X Nat)
           /\ activeTimers_ \in SUBSET (Addrs \X (0..MaxTimers))
           /\ \A e \in timers_ : e[2] \in Queued /\ e = Entry(e[2])
           /\ \A t \in activeTimers_ : t[1] \in Queued /\ t = ActiveTimer(t[1])
           /\ \A a \in Queued : Entry(a) \in timers_ /\ ActiveTimer(a) \in activeTimers_
<1>1. \A a \in Queued : /\ a \in Addrs /\ a \in Nat /\ heap[a].expiration \in Nat
                       /\ heap[a].sequence \in 0..MaxTimers
  BY AddrAssumption, BoundAssumption DEF HeapInv, Queued
<1> QED BY <1>1 DEF SetsInv, Entry, ActiveTimer

\* timers_ is not empty when a timer is queued.
LEMMA QueuedEmpty == ASSUME SetsInv PROVE timers_ = {} <=> Queued = {}
BY DEF SetsInv

\* The wait for a time is positive, and longer for a later time.
LEMMA HowMuch ==
    ASSUME now \in Int, NEW x \in Int
    PROVE  /\ HowMuchTimeFromNow(x) \in Nat \ {0}
           /\ \A y \in Int : x <= y => HowMuchTimeFromNow(x) <= HowMuchTimeFromNow(y)
BY DEF HowMuchTimeFromNow

\* A timerfd that is early enough stays so when timers_ gets no earlier entry.
LEMMA StaysArmed ==
    ASSUME Armed, LoopInv, timers_ \in SUBSET (Nat \X Nat), IsFiniteSet(timers_),
           timers_' \in SUBSET (Nat \X Nat), IsFiniteSet(timers_'),
           \A e \in timers_' : \E f \in timers_ : f[1] <= e[1],
           UNCHANGED <<timerfd, now, polled, clockSet>>,
           pc' \in {"poll", "events", "functors"} => pc \in {"poll", "events", "functors"}
    PROVE  Armed'
<1> SUFFICES ASSUME pc' \in {"poll", "events", "functors"}, timers_' # {},
                    ~readable, ~polled
             PROVE  /\ remaining > 0
                    /\ clockSet \/ remaining <= HowMuchTimeFromNow(Earliest(timers_')[1])
  BY DEF Armed, timerfd, HowMuchTimeFromNow
<1>1. /\ Earliest(timers_') \in timers_' /\ Earliest(timers_')[1] \in Nat
  BY EarliestIsFirst
<1>2. PICK f \in timers_ : f[1] <= Earliest(timers_')[1]
  BY <1>1
<1>3. f[1] \in Nat /\ timers_ # {}
  BY <1>2
<1>4. Earliest(timers_)[1] \in Nat /\ Earliest(timers_)[1] <= f[1]
  BY <1>3, EarliestIsFirst
<1>5. Earliest(timers_)[1] <= Earliest(timers_')[1]
  BY <1>1, <1>2, <1>3, <1>4
<1>6. now \in Int
  BY DEF LoopInv
<1>7. /\ HowMuchTimeFromNow(Earliest(timers_)[1]) <= HowMuchTimeFromNow(Earliest(timers_')[1])
      /\ HowMuchTimeFromNow(Earliest(timers_)[1]) \in Nat
      /\ HowMuchTimeFromNow(Earliest(timers_')[1]) \in Nat
  BY <1>1, <1>4, <1>5, <1>6, HowMuch
<1>8. remaining > 0 /\ (clockSet \/ remaining <= HowMuchTimeFromNow(Earliest(timers_)[1]))
  BY <1>3 DEF Armed
<1>9. remaining \in Nat
  BY DEF LoopInv
<1> QED BY <1>7, <1>8, <1>9

\* addTimerInLoop queues one timer more, and arms the timerfd if it is the earliest.
LEMMA AddedToSets ==
    ASSUME HeapInv, LoopInv, SetsInv, Armed, NEW a \in Addrs, a \notin Queued, NEW obj,
           heap'[a] = obj, \A b \in Addrs \ {a} : heap'[b] = heap[b],
           obj.expiration \in Nat, obj.sequence \in 0..MaxTimers,
           AddTimerInLoop(a, obj), UNCHANGED <<now, polled, clockSet, pc>>
    PROVE  /\ Queued' = Queued \cup {a}
           /\ SetsInv'
           /\ remaining' \in Nat /\ readable' \in BOOLEAN
           /\ Armed'
<1> DEFINE q == Queued \cup {a}
<1>0. Queued \subseteq Addrs /\ a \in Nat
  BY AddrAssumption DEF Queued
<1>1. timers_' = {<<heap'[b].expiration, b>> : b \in q}
  BY <1>0 DEF AddTimerInLoop, SetsInv, Entry
<1>2. activeTimers_' = {<<b, heap'[b].sequence>> : b \in q}
  BY <1>0 DEF AddTimerInLoop, SetsInv, ActiveTimer
<1>3. Queued' = q
  <2>1. q = {b \in Addrs : <<b, heap'[b].sequence>> \in activeTimers_'}
    <3>1. \A b \in q : b \in Addrs
      BY <1>0
    <3>2. \A b \in Addrs : <<b, heap'[b].sequence>> \in activeTimers_' <=> b \in q
      BY <1>2
    <3> QED BY <3>1, <3>2
  <2> QED BY <2>1 DEF Queued, ActiveTimer
<1>4. timers_' = timers_ \cup {<<obj.expiration, a>>} /\ IsFiniteSet(timers_')
  BY FS_AddElement DEF AddTimerInLoop, SetsInv
<1>5. SetsInv'
  BY <1>1, <1>2, <1>3, <1>4 DEF SetsInv, Entry, ActiveTimer
<1>6. timers_' \in SUBSET (Nat \X Nat) /\ timers_ \in SUBSET (Nat \X Nat)
  BY <1>0, <1>4, EntryFacts
<1>7. now \in Int /\ readable \in BOOLEAN /\ remaining \in Nat /\ IsFiniteSet(timers_)
  BY DEF LoopInv, SetsInv
<1>8. CASE EarliestChanged(timers_, obj.expiration)
  <2>1. remaining' = HowMuchTimeFromNow(obj.expiration) /\ readable' = FALSE
    BY <1>8 DEF AddTimerInLoop, ResetTimerfd
  <2>2. remaining' \in Nat \ {0}
    BY <2>1, <1>7, HowMuch
  <2>3. Earliest(timers_')[1] = obj.expiration
    <3>1. /\ Earliest(timers_') \in timers_' /\ Earliest(timers_')[1] \in Nat
          /\ Earliest(timers_')[1] <= obj.expiration
      <4>1. <<obj.expiration, a>> \in timers_'
        BY <1>4
      <4>2. timers_' # {} /\ IsFiniteSet(timers_')
        BY <4>1, <1>4
      <4>3. Earliest(timers_')[1] <= <<obj.expiration, a>>[1]
        BY <4>1, <4>2, <1>6, EarliestIsFirst
      <4> QED BY <4>2, <4>3, <1>6, EarliestIsFirst
    <3>2. ASSUME Earliest(timers_') \in timers_ PROVE obj.expiration <= Earliest(timers_')[1]
      <4>1. Earliest(timers_)[1] \in Nat /\ Earliest(timers_)[1] <= Earliest(timers_')[1]
        BY <3>2, <1>6, <1>7, EarliestIsFirst
      <4> QED BY <4>1, <3>1, <3>2, <1>8 DEF EarliestChanged
    <3> QED BY <3>1, <3>2, <1>4
  <2>4. Armed'
    BY <2>1, <2>2, <2>3 DEF Armed, HowMuchTimeFromNow
  <2> QED BY <2>1, <2>2, <2>4, <1>3, <1>5
<1>9. CASE ~EarliestChanged(timers_, obj.expiration)
  <2>1. UNCHANGED timerfd /\ timers_ # {} /\ ~(obj.expiration < Earliest(timers_)[1])
    BY <1>9 DEF AddTimerInLoop, EarliestChanged
  <2>2. /\ Earliest(timers_) \in timers_ /\ Earliest(timers_)[1] \in Nat
    BY <2>1, <1>6, <1>7, EarliestIsFirst
  <2>3. \A e \in timers_' : \E f \in timers_ : f[1] <= e[1]
    <3> SUFFICES ASSUME NEW e \in timers_' PROVE \E f \in timers_ : f[1] <= e[1]
      OBVIOUS
    <3>1. CASE e \in timers_
      <4>1. e[1] \in Nat
        BY <3>1, <1>6
      <4> QED BY <3>1, <4>1
    <3>2. CASE e = <<obj.expiration, a>>
      BY <3>2, <2>1, <2>2
    <3> QED BY <3>1, <3>2, <1>4
  <2>4. Armed'
    BY <2>1, <2>3, <1>4, <1>6, <1>7, StaysArmed
  <2> QED BY <2>1, <2>4, <1>3, <1>5, <1>7 DEF timerfd
<1> QED BY <1>8, <1>9

\* The owners of a Timer, one at a time.
LEMMA OwnersKnown ==
    ASSUME OwnersInv, LoopInv
    PROVE  /\ Queued \subseteq Live /\ Batch \subseteq Live /\ QueuedAdds \subseteq Live
           /\ Live \subseteq Addrs
           /\ \A a \in Queued : a \notin Batch /\ a \notin QueuedAdds
           /\ \A a \in Batch : a \notin QueuedAdds
           /\ \A a \in Live : a \in Queued \/ a \in Batch \/ a \in QueuedAdds
           /\ Batch # {} => pc \in {"running", "callback"} /\ callingExpiredTimers_
<1>1. Live \subseteq Addrs
  BY DEF Live
<1>2. Batch # {} => pc \in {"running", "callback"} /\ callingExpiredTimers_
  <2>1. expired = <<>> => Batch = {}
    BY DEF Batch
  <2> QED BY <2>1 DEF LoopInv
<1> QED BY <1>1, <1>2 DEF OwnersInv

\* `new Timer` takes an address nobody has and a number nobody had.
LEMMA CreateTimer ==
    ASSUME IInv, NEW a \in Addrs, NEW d \in Nat, NEW i \in Nat, CanCreate(a),
           heap' = [heap EXCEPT ![a] = NewTimer(d, i)], numCreated' = numCreated + 1,
           UNCHANGED <<cancelled, ran, expired, done, cancelingTimers_, pc>>,
           ids' \subseteq Addrs \X (0..MaxTimers), caller' \subseteq Addrs \X (0..MaxTimers),
           Queued' \cup QueuedAdds' = Queued \cup QueuedAdds \cup {a}
    PROVE  /\ a \notin Live /\ Live' = Live \cup {a}
           /\ HeapInv' /\ CancelInv'
<1> DEFINE obj == NewTimer(d, i)
<1>1. /\ a \notin Live /\ numCreated \in Nat /\ numCreated + 1 \in 0..MaxTimers
      /\ now \in Nat \ {0}
  BY BoundAssumption DEF CanCreate, IInv, HeapInv, LoopInv
<1>2. /\ obj \in [expiration : Nat, interval : Nat, sequence : 0..(numCreated + 1)]
      /\ obj.expiration # 0 /\ obj.sequence = numCreated + 1 /\ obj # Free
  BY <1>1 DEF NewTimer, Free
<1>3. heap \in [Addrs -> [expiration : Nat, interval : Nat, sequence : 0..numCreated]]
  BY DEF IInv, HeapInv
<1>4. heap'[a] = obj /\ \A b \in Addrs : b # a => heap'[b] = heap[b]
  BY <1>3
<1> HIDE DEF obj
<1>5. Live' = Live \cup {a}
  BY <1>2, <1>4 DEF Live, Free
<1>6. heap' \in [Addrs -> [expiration : Nat, interval : Nat, sequence : 0..numCreated']]
  <2>1. \A b \in Addrs : heap'[b] \in [expiration : Nat, interval : Nat, sequence : 0..numCreated']
    BY <1>1, <1>2, <1>3, <1>4
  <2> QED BY <2>1, <1>3
<1>7. \A b \in Live : b # a /\ b \in Addrs /\ heap'[b] = heap[b] /\ heap[b].sequence \in 0..numCreated
  BY <1>1, <1>3, <1>4 DEF Live
<1>8. \A b \in Live' : heap'[b].sequence # 0 /\ heap'[b].expiration # 0
  BY <1>1, <1>2, <1>4, <1>5, <1>7 DEF IInv, HeapInv
<1>9. \A b, c \in Live' : heap'[b].sequence = heap'[c].sequence => b = c
  <2>1. \A b \in Live : heap'[b].sequence # heap'[a].sequence
    BY <1>1, <1>2, <1>4, <1>7
  <2> QED BY <2>1, <1>5, <1>7 DEF IInv, HeapInv
<1>10. cancelled' \subseteq 1..numCreated' /\ numCreated' \in 0..MaxTimers
  BY <1>1 DEF IInv, HeapInv
<1>11. HeapInv'
  BY <1>6, <1>8, <1>9, <1>10 DEF HeapInv, Ids
<1>12. Queued \subseteq Live /\ Batch \subseteq Live /\ QueuedAdds \subseteq Live
  BY OwnersKnown DEF IInv
<1>13. Batch' = Batch /\ done' = done /\ \A k \in 1..done : expired[k] \in Batch
  <2>1. Batch' = Batch /\ done' = done
    BY DEF Batch
  <2>2. \A k \in 1..done : k \in 1..Len(expired)
    BY LenProperties DEF IInv, LoopInv
  <2> QED BY <2>1, <2>2 DEF Batch
<1>14. CancelInv'
  <2>1. \A b \in Queued' \cup QueuedAdds' : heap'[b].sequence \notin cancelled'
    <3>1. heap'[a].sequence \notin cancelled
      BY <1>1, <1>2, <1>4 DEF IInv, HeapInv
    <3> QED BY <3>1, <1>7, <1>12 DEF IInv, CancelInv
  <2>2. \A b \in Batch' : heap'[b].sequence \in cancelled' <=> ActiveTimer(b)' \in cancelingTimers_'
    BY <1>7, <1>12, <1>13 DEF IInv, CancelInv, ActiveTimer
  <2>3. \A k \in 1..done' : heap'[expired'[k]].sequence \in ran'
    BY <1>7, <1>12, <1>13 DEF IInv, CancelInv
  <2>4. NoTimerLost'
    <3>1. ASSUME pc' # "gone", NEW n \in 1..(numCreated + 1)
          PROVE  n \in {heap'[b].sequence : b \in Live'} \cup cancelled' \cup ran'
      <4>1. CASE n = numCreated + 1
        BY <4>1, <1>2, <1>4, <1>5
      <4>2. CASE n \in 1..numCreated
        <5>1. n \in {heap[b].sequence : b \in Live} \cup cancelled \cup ran
          BY <4>2, <3>1 DEF IInv, CancelInv, NoTimerLost
        <5> QED BY <5>1, <1>5, <1>7
      <4> QED BY <4>1, <4>2, <1>1
    <3> QED BY <3>1 DEF NoTimerLost
  <2> QED BY <2>1, <2>2, <2>3, <2>4 DEF CancelInv
<1> QED BY <1>1, <1>5, <1>11, <1>14

\* cancelInLoop deletes a queued timer, or remembers one of the batch; a timer that has
\* taken the address of another is told from it by its sequence.
LEMMA CancelTimer ==
    ASSUME IInv, NEW id \in Ids, CancelInLoop(id), QueuedAdds' = QueuedAdds,
           UNCHANGED <<now, numCreated, timerfd, polled, handling, caller, ids, ran,
                       clockSet, pc>>
    PROVE  /\ HeapInv' /\ SetsInv' /\ OwnersInv' /\ CancelInv' /\ Armed'
           /\ cancelingTimers_' \subseteq Ids
<1> DEFINE a == id[1]
<1>0. /\ HeapInv /\ LoopInv /\ SetsInv /\ OwnersInv /\ CancelInv /\ Armed
      /\ cancelingTimers_ \subseteq Ids
  BY DEF IInv, LoopInv
<1>1. Batch' = Batch
  BY DEF Batch, handling
<1>2. heap \in [Addrs -> [expiration : Nat, interval : Nat, sequence : 0..numCreated]]
  BY <1>0 DEF HeapInv
<1>3. numCreated' = numCreated /\ expired' = expired /\ done' = done /\ pc' = pc /\ ran' = ran
  BY DEF handling
<1>4. CASE Found(id) # {}
  <2>1. id \in activeTimers_
    BY <1>4 DEF Found
  <2>2. a \in Queued /\ id = ActiveTimer(a)
    BY <2>1, <1>0, EntryFacts
  <2>3. Found(id) = {id}
    BY <2>1 DEF Found
  <2>4. /\ timers_' = timers_ \ {Entry(a)} /\ activeTimers_' = activeTimers_ \ {ActiveTimer(a)}
        /\ heap' = [heap EXCEPT ![a] = Free] /\ cancelingTimers_' = cancelingTimers_
        /\ cancelled' = cancelled \cup Named(id)
    BY <1>4, <2>2, <2>3 DEF CancelInLoop
  <2>5. a \in Addrs /\ a \in Live /\ a \notin QueuedAdds /\ a \notin Batch
    BY <2>2, <1>0, OwnersKnown DEF Live
  <2>6. heap'[a] = Free /\ \A b \in Addrs : b # a => heap'[b] = heap[b]
    BY <2>4, <2>5, <1>2
  <2>7. Live' = Live \ {a}
    BY <2>6 DEF Live, Free
  <2>8. Named(id) = {heap[a].sequence}
    BY <2>2, <2>5 DEF Named, ActiveTimer
  <2> HIDE DEF a
  <2>9. \A b \in Live : b \in Addrs /\ (b # a => heap'[b] = heap[b] /\ heap[b].sequence # heap[a].sequence)
    BY <2>5, <2>6, <1>0 DEF HeapInv, Live
  <2>10. Queued' = Queued \ {a}
    <3>1. activeTimers_' = {ActiveTimer(b) : b \in Queued \ {a}}
      BY <2>4, <1>0 DEF SetsInv, ActiveTimer
    <3>2. \A b \in Queued \ {a} : b \in Addrs /\ ActiveTimer(b) = <<b, heap'[b].sequence>>
      BY <2>6 DEF Queued, ActiveTimer
    <3>3. \A b \in Addrs : <<b, heap'[b].sequence>> \in activeTimers_' <=> b \in Queued \ {a}
      BY <3>1, <3>2 DEF ActiveTimer
    <3>4. Queued' = {b \in Addrs : <<b, heap'[b].sequence>> \in activeTimers_'}
      BY DEF Queued, ActiveTimer
    <3> QED BY <3>2, <3>3, <3>4
  <2>11. SetsInv'
    <3>1. timers_' = {Entry(b) : b \in Queued \ {a}}
      BY <2>4, <1>0 DEF SetsInv, Entry
    <3>2. activeTimers_' = {ActiveTimer(b) : b \in Queued \ {a}}
      BY <2>4, <1>0 DEF SetsInv, ActiveTimer
    <3>3. \A b \in Queued \ {a} : Entry(b) = Entry(b)' /\ ActiveTimer(b) = ActiveTimer(b)'
      BY <2>6 DEF Queued, ActiveTimer, Entry
    <3>4. IsFiniteSet(timers_')
      BY <2>4, <1>0, FS_Subset DEF SetsInv
    <3>5. timers_' = {Entry(b)' : b \in Queued \ {a}}
      BY <3>1, <3>3
    <3>6. activeTimers_' = {ActiveTimer(b)' : b \in Queued \ {a}}
      BY <3>2, <3>3
    <3> QED BY <2>10, <3>4, <3>5, <3>6 DEF SetsInv
  <2>12. OwnersInv'
    BY <2>2, <2>5, <2>7, <2>10, <1>0, <1>1, <1>3 DEF OwnersInv
  <2>13. HeapInv'
    <3>1. heap' \in [Addrs -> [expiration : Nat, interval : Nat, sequence : 0..numCreated]]
      <4>1. numCreated \in Nat
        BY <1>0, BoundAssumption DEF HeapInv
      <4>2. Free \in [expiration : Nat, interval : Nat, sequence : 0..numCreated]
        BY <4>1 DEF Free
      <4> QED BY <4>2, <2>4, <1>2
    <3>2. \A b \in Live' : b # a /\ b \in Live /\ heap'[b] = heap[b]
      BY <2>7, <2>9
    <3>3. heap[a].sequence \in 1..numCreated
      BY <2>5, <1>0, <1>2, BoundAssumption DEF HeapInv
    <3> QED BY <3>1, <3>2, <3>3, <2>4, <2>8, <1>0, <1>3 DEF HeapInv
  <2>14. CancelInv'
    <3>1. \A b \in Queued' \cup QueuedAdds' : heap'[b].sequence \notin cancelled'
      BY <2>4, <2>5, <2>8, <2>9, <2>10, <1>0, OwnersKnown DEF CancelInv
    <3>2. \A b \in Batch' : heap'[b].sequence \in cancelled' <=> ActiveTimer(b)' \in cancelingTimers_'
      BY <2>4, <2>5, <2>8, <2>9, <1>0, <1>1, OwnersKnown DEF CancelInv, ActiveTimer
    <3>3. \A k \in 1..done : expired[k] \in Batch
      BY <1>0, LenProperties DEF LoopInv, Batch
    <3>4. \A k \in 1..done' : heap'[expired'[k]].sequence \in ran'
      BY <3>3, <2>5, <2>9, <1>0, <1>3, OwnersKnown DEF CancelInv
    <3>5. NoTimerLost'
      BY <2>4, <2>7, <2>8, <2>9, <1>0, <1>3 DEF CancelInv, NoTimerLost
    <3> QED BY <3>1, <3>2, <3>4, <3>5 DEF CancelInv
  <2>15. Armed'
    <3>1. /\ timers_ \in SUBSET (Nat \X Nat) /\ IsFiniteSet(timers_)
          /\ timers_' \in SUBSET (Nat \X Nat) /\ IsFiniteSet(timers_')
      BY <2>4, <2>11, <1>0, EntryFacts DEF SetsInv
    <3>2. \A e \in timers_' : e \in timers_ /\ e[1] \in Nat
      BY <2>4, <3>1
    <3>3. \A e \in timers_' : \E f \in timers_ : f[1] <= e[1]
      BY <3>2
    <3> QED BY <3>1, <3>3, <1>0, StaysArmed
  <2> QED BY <2>4, <2>11, <2>12, <2>13, <2>14, <2>15, <1>0
<1>5. CASE Found(id) = {}
  <2>1. /\ UNCHANGED <<timers_, activeTimers_, heap>>
        /\ cancelingTimers_' = IF callingExpiredTimers_ THEN cancelingTimers_ \cup {id}
                               ELSE cancelingTimers_
        /\ cancelled' = cancelled \cup Named(id)
    BY <1>5 DEF CancelInLoop
  <2>2. Queued' = Queued /\ Live' = Live
    BY <2>1 DEF Queued, Live, ActiveTimer
  <2>3. \A b \in Live \ QueuedAdds : ActiveTimer(b) = id => b \in Batch
    BY <1>5, <1>0, OwnersKnown, EntryFacts DEF Found
  <2>4. \A n \in Named(id) : \E b \in Batch : n = heap[b].sequence /\ ActiveTimer(b) = id
    BY <2>3 DEF Named
  <2>5. \A b \in Batch : heap[b].sequence \in Named(id) <=> ActiveTimer(b) = id
    <3>1. \A b \in Batch : b \in Live /\ b \notin QueuedAdds
      BY <1>0, OwnersKnown
    <3>2. \A b, c \in Batch : heap[b].sequence = heap[c].sequence => b = c
      BY <3>1, <1>0 DEF HeapInv
    <3>3. \A b \in Batch : ActiveTimer(b) = id => heap[b].sequence \in Named(id)
      BY <3>1 DEF Named
    <3> QED BY <2>4, <3>2, <3>3
  <2>6. HeapInv'
    <3>1. Named(id) \subseteq 1..numCreated
      <4>1. \A b \in Batch : heap[b].sequence \in 1..numCreated
        BY <1>0, <1>2, OwnersKnown, BoundAssumption DEF HeapInv, Live
      <4> QED BY <4>1, <2>4
    <3> QED BY <3>1, <2>1, <2>2, <1>0, <1>3 DEF HeapInv
  <2>7. SetsInv' /\ OwnersInv'
    BY <2>1, <2>2, <1>0, <1>1, <1>3 DEF SetsInv, OwnersInv, Entry, ActiveTimer
  <2>8. CancelInv'
    <3>1. \A b \in Queued' \cup QueuedAdds' : heap'[b].sequence \notin cancelled'
      <4>1. \A b \in Queued \cup QueuedAdds : b \in Live /\ b \notin Batch
        BY <1>0, OwnersKnown
      <4>2. \A b \in Batch : b \in Live
        BY <1>0, OwnersKnown
      <4>3. \A b \in Queued \cup QueuedAdds : heap[b].sequence \notin Named(id)
        BY <4>1, <4>2, <2>4, <1>0 DEF HeapInv
      <4> QED BY <4>3, <2>1, <2>2, <1>0 DEF CancelInv
    <3>2. ASSUME NEW b \in Batch
          PROVE  heap'[b].sequence \in cancelled' <=> ActiveTimer(b)' \in cancelingTimers_'
      <4>1. cancelingTimers_' = cancelingTimers_ \cup {id}
        BY <2>1, <1>0, <3>2, OwnersKnown
      <4> QED BY <4>1, <2>1, <2>5, <1>0 DEF CancelInv, ActiveTimer
    <3>3. NoTimerLost'
      BY <2>1, <2>2, <1>0, <1>3 DEF CancelInv, NoTimerLost
    <3> QED BY <3>1, <3>2, <3>3, <2>1, <1>0, <1>1, <1>3 DEF CancelInv
  <2>9. Armed'
    BY <2>1, <1>0 DEF Armed, timerfd, HowMuchTimeFromNow
  <2>10. cancelingTimers_' \subseteq Ids
    BY <2>1, <1>0
  <2> QED BY <2>6, <2>7, <2>8, <2>9, <2>10
<1> QED BY <1>4, <1>5

-----------------------------------------------------------------------------
(***************************************************************************)
(* handleRead.                                                             *)
(***************************************************************************)

\* getExpired moves the due timers from the two sets to the batch.
LEMMA HandleReadIInv == ASSUME IInv, HandleRead PROVE IInv'
<1> DEFINE due == {a \in Queued : heap[a].expiration <= now}
<1>0. /\ HeapInv /\ LoopInv /\ SetsInv /\ OwnersInv /\ CancelInv
      /\ pc = "events" /\ expired = <<>> /\ Batch = {}
  BY OwnersKnown DEF IInv, HandleRead, LoopInv
<1>1. /\ Due(timers_) = {Entry(a) : a \in due}
      /\ timers_' = timers_ \ Due(timers_)
      /\ activeTimers_' = activeTimers_ \ {ActiveTimer(a) : a \in due}
  <2>1. Due(timers_) = {Entry(a) : a \in due}
    BY <1>0 DEF SetsInv, Due, Entry
  <2>2. {ActiveTimer(e[2]) : e \in Due(timers_)} = {ActiveTimer(a) : a \in due}
    <3>1. \A a \in due : Entry(a) \in Due(timers_) /\ Entry(a)[2] = a
      BY <2>1 DEF Entry
    <3>2. \A e \in Due(timers_) : e[2] \in due
      BY <2>1 DEF Entry
    <3> HIDE DEF due
    <3> QED BY <3>1, <3>2
  <2> QED BY <2>1, <2>2 DEF HandleRead
<1>2. /\ UNCHANGED <<now, heap, numCreated, remaining, functors, caller, history>>
      /\ expired' = SortedAddrs(Due(timers_)) /\ cancelingTimers_' = {} /\ done' = 0
      /\ callingExpiredTimers_' = TRUE /\ handleNow' = now /\ pc' = "running"
      /\ polled' = FALSE /\ readable' = FALSE
  BY DEF HandleRead
<1>3. /\ expired' \in Seq(Addrs) /\ Len(expired') \in Nat /\ Batch' = due
      /\ \A j, k \in 1..Len(expired') : expired'[j] = expired'[k] => j = k
  <2>1. Due(timers_) \in SUBSET (Nat \X Addrs) /\ IsFiniteSet(Due(timers_))
    BY <1>0, EntryFacts, FS_Subset DEF Due, SetsInv
  <2>2. \A e, f \in Due(timers_) : e[2] = f[2] => e = f
    BY <1>1 DEF Entry
  <2>3. /\ expired' \in Seq(Addrs) /\ Len(expired') \in Nat
        /\ {expired'[k] : k \in 1..Len(expired')} = {e[2] : e \in Due(timers_)}
        /\ \A j, k \in 1..Len(expired') : expired'[j] = expired'[k] => j = k
    <3> DEFINE t == SortedAddrs(Due(timers_))
    <3>1. /\ t \in Seq(Addrs) /\ Len(t) \in Nat
          /\ {t[k] : k \in 1..Len(t)} = {e[2] : e \in Due(timers_)}
          /\ \A j, k \in 1..Len(t) : t[j] = t[k] => j = k
      BY <2>1, <2>2, SortedAddrsOnce
    <3>2. expired' = t
      BY <1>2
    <3> HIDE DEF t
    <3> QED BY <3>1, <3>2
  <2>4. {e[2] : e \in Due(timers_)} = due
    <3>1. \A a \in due : Entry(a) \in Due(timers_) /\ Entry(a)[2] = a
      BY <1>1 DEF Entry
    <3>2. \A e \in Due(timers_) : e[2] \in due
      BY <1>1 DEF Entry
    <3> HIDE DEF due
    <3> QED BY <3>1, <3>2
  <2> QED BY <2>3, <2>4 DEF Batch
<1>4. due \subseteq Queued /\ Queued \subseteq Addrs
  BY DEF Queued
<1> HIDE DEF due
<1>5. Live' = Live /\ QueuedAdds' = QueuedAdds
  BY <1>2 DEF Live, QueuedAdds, functors
<1>6. Queued' = Queued \ due
  BY <1>0, <1>1, <1>2, <1>4 DEF Queued, ActiveTimer, SetsInv
<1>7. SetsInv'
  <2>1. timers_' = {Entry(a) : a \in Queued \ due}
    BY <1>0, <1>1, <1>4 DEF SetsInv, Entry
  <2>2. activeTimers_' = {ActiveTimer(a) : a \in Queued \ due}
    BY <1>0, <1>1, <1>4 DEF SetsInv, ActiveTimer
  <2>3. IsFiniteSet(timers_')
    BY <1>0, <1>1, FS_Subset DEF SetsInv
  <2> QED BY <2>1, <2>2, <2>3, <1>2, <1>6 DEF SetsInv, Entry, ActiveTimer
<1>8. OwnersInv'
  BY <1>0, <1>3, <1>4, <1>5, <1>6 DEF OwnersInv
<1>9. CancelInv'
  <2>1. \A a \in Queued : heap[a].sequence \notin cancelled
    BY <1>0 DEF CancelInv
  <2>2. \A a \in Batch' :
            heap'[a].sequence \in cancelled' <=> ActiveTimer(a)' \in cancelingTimers_'
    BY <2>1, <1>2, <1>3, <1>4 DEF history
  <2>3. \A a \in Queued' \cup QueuedAdds' : heap'[a].sequence \notin cancelled'
    BY <1>0, <1>2, <1>4, <1>5, <1>6 DEF CancelInv, history
  <2>4. NoTimerLost'
    BY <1>0, <1>2, <1>5 DEF CancelInv, NoTimerLost, history
  <2>5. \A k \in 1..done' : FALSE
    BY <1>2
  <2> QED BY <2>2, <2>3, <2>4, <2>5 DEF CancelInv
<1>10. HeapInv'
  BY <1>0, <1>2, <1>5 DEF HeapInv, history
<1>11. LoopInv'
  <2>1. now \in Nat \ {0} /\ done' \in 0..Len(expired')
    BY <1>0, <1>2, <1>3 DEF LoopInv
  <2>2. FunctorsInv'
    BY <1>0, <1>2 DEF FunctorsInv, LoopInv, functors
  <2> QED BY <2>1, <2>2, <1>0, <1>2, <1>3 DEF LoopInv
<1>12. Armed'
  BY <1>2 DEF Armed
<1> QED BY <1>7, <1>8, <1>9, <1>10, <1>11, <1>12 DEF IInv

\* reset() puts the periodic timers of the batch back that were not cancelled, deletes the
\* others, and arms the timerfd for the earliest timer there is.
LEMMA ResetIInv == ASSUME IInv, Reset PROVE IInv'
<1> DEFINE again == {a \in Batch : Restarted(a)}
           next(a) == handleNow + heap[a].interval
           entries == {<<next(a), a>> : a \in again}
<1>0. /\ HeapInv /\ LoopInv /\ SetsInv /\ OwnersInv /\ CancelInv
      /\ pc = "running" /\ done = Len(expired) /\ handleNow \in Nat \ {0}
  BY DEF IInv, Reset, LoopInv
<1>1. /\ heap' = [a \in Addrs |->
                     IF a \in again THEN [heap[a] EXCEPT !.expiration = next(a)]
                     ELSE IF a \in Batch THEN Free ELSE heap[a]]
      /\ timers_' = timers_ \cup entries
      /\ activeTimers_' = activeTimers_ \cup {ActiveTimer(a) : a \in again}
      /\ Rearm(timers_', entries)
  BY DEF Reset, Batch
<1>2. /\ UNCHANGED <<now, numCreated, cancelingTimers_, polled, functors, caller, history>>
      /\ callingExpiredTimers_' = FALSE /\ pc' = "events"
      /\ expired' = <<>> /\ done' = 0 /\ handleNow' = 0
  BY DEF Reset
<1>3. heap \in [Addrs -> [expiration : Nat, interval : Nat, sequence : 0..numCreated]]
  BY <1>0 DEF HeapInv
<1>4. /\ Queued \subseteq Live /\ Batch \subseteq Live /\ QueuedAdds \subseteq Live
      /\ Live \subseteq Addrs
      /\ \A a \in Queued \cup QueuedAdds : a \notin Batch
  BY <1>0, OwnersKnown
<1>5. \A a \in again : /\ a \in Batch /\ a \in Live /\ a \in Addrs
                      /\ next(a) \in Nat \ {0}
                      /\ heap[a].sequence # 0 /\ ActiveTimer(a) \notin cancelingTimers_
  BY <1>0, <1>3, <1>4 DEF Restarted, HeapInv
<1>6. Batch \subseteq Addrs /\ \A a \in Batch \ again :
          heap[a].interval = 0 \/ ActiveTimer(a) \in cancelingTimers_
  BY <1>3, <1>4 DEF Restarted
<1>7. IsFiniteSet(entries)
  <2> DEFINE places == {k \in 1..Len(expired) : Restarted(expired[k])}
             f == [k \in places |-> <<next(expired[k]), expired[k]>>]
  <2>1. IsFiniteSet(places)
    <3>1. Len(expired) \in Nat
      BY <1>0, LenProperties DEF LoopInv
    <3>2. IsFiniteSet(1..Len(expired))
      BY <3>1, FS_Interval
    <3> QED BY <3>2, FS_Subset
  <2>2. f \in [places -> entries]
    BY DEF Batch
  <2>3. \A e \in entries : \E k \in places : f[k] = e
    BY DEF Batch
  <2>4. f \in Surjection(places, entries)
    BY <2>2, <2>3, Fun_IsSurj
  <2> QED BY <2>1, <2>4, FS_Surjection
<1>8. /\ \A a \in again : /\ heap'[a].sequence = heap[a].sequence
                          /\ heap'[a].expiration = next(a)
                          /\ heap'[a].interval = heap[a].interval
                          /\ heap'[a] \in [expiration : Nat, interval : Nat,
                                          sequence : 0..numCreated]
      /\ \A a \in Batch \ again : heap'[a] = Free
      /\ \A a \in Addrs \ Batch : heap'[a] = heap[a]
  BY <1>1, <1>3, <1>5, <1>6
<1>9. Batch' = {} /\ QueuedAdds' = QueuedAdds
  BY <1>2 DEF Batch, QueuedAdds, functors
<1> HIDE DEF again, next
<1>10. Live' = (Live \ Batch) \cup again
  <2>1. \A a \in again : heap'[a] # Free
    BY <1>5, <1>8 DEF Free
  <2> QED BY <2>1, <1>4, <1>5, <1>6, <1>8 DEF Live
<1>11. \A a \in Live' : a \in Live /\ a \in Addrs /\ heap'[a].sequence = heap[a].sequence
  BY <1>4, <1>5, <1>8, <1>10
<1>12. HeapInv'
  <2>1. heap' \in [Addrs -> [expiration : Nat, interval : Nat, sequence : 0..numCreated]]
    <3>1. Free \in [expiration : Nat, interval : Nat, sequence : 0..numCreated]
      BY <1>0, BoundAssumption DEF Free, HeapInv
    <3>2. \A a \in Addrs :
              heap'[a] \in [expiration : Nat, interval : Nat, sequence : 0..numCreated]
      BY <3>1, <1>3, <1>5, <1>8
    <3> QED BY <3>2, <1>1
  <2>2. \A a \in Live' : heap'[a].sequence # 0 /\ heap'[a].expiration # 0
    BY <1>0, <1>5, <1>8, <1>10, <1>11 DEF HeapInv
  <2>3. \A a, b \in Live' : heap'[a].sequence = heap'[b].sequence => a = b
    BY <1>0, <1>11 DEF HeapInv
  <2> QED BY <2>1, <2>2, <2>3, <1>0, <1>2 DEF HeapInv, history
<1>13. Queued' = Queued \cup again
  <2>1. \A a \in Queued \cup again : a \in Addrs /\ heap'[a].sequence = heap[a].sequence
    BY <1>4, <1>5, <1>8
  <2>2. activeTimers_' = {<<a, heap'[a].sequence>> : a \in Queued \cup again}
    BY <2>1, <1>0, <1>1 DEF SetsInv, ActiveTimer
  <2> QED BY <2>1, <2>2 DEF Queued, ActiveTimer
<1>14. SetsInv'
  <2>1. \A a \in Queued : heap'[a] = heap[a]
    BY <1>4, <1>8
  <2>2. \A a \in again : heap'[a].expiration = next(a) /\ heap'[a].sequence = heap[a].sequence
    BY <1>8
  <2>3. timers_' = {Entry(a) : a \in Queued} \cup {<<next(a), a>> : a \in again}
    BY <1>0, <1>1 DEF SetsInv
  <2>4. timers_' = {<<heap'[a].expiration, a>> : a \in Queued \cup again}
    <3>1. \A a \in Queued : Entry(a) = <<heap'[a].expiration, a>>
      BY <2>1 DEF Entry
    <3>2. \A a \in again : <<next(a), a>> = <<heap'[a].expiration, a>>
      BY <2>2
    <3>3. {Entry(a) : a \in Queued} = {<<heap'[a].expiration, a>> : a \in Queued}
      BY <3>1
    <3>4. {<<next(a), a>> : a \in again} = {<<heap'[a].expiration, a>> : a \in again}
      BY <3>2
    <3>5. \A S, T : {<<heap'[a].expiration, a>> : a \in S \cup T} =
              {<<heap'[a].expiration, a>> : a \in S} \cup {<<heap'[a].expiration, a>> : a \in T}
      OBVIOUS
    <3> QED BY <2>3, <3>3, <3>4, <3>5
  <2>5. activeTimers_' = {<<a, heap'[a].sequence>> : a \in Queued \cup again}
    <3>1. \A a \in Queued \cup again : heap'[a].sequence = heap[a].sequence
      BY <2>1, <2>2
    <3>2. activeTimers_' = {<<a, heap[a].sequence>> : a \in Queued \cup again}
      BY <1>0, <1>1 DEF SetsInv, ActiveTimer
    <3> QED BY <3>1, <3>2
  <2>6. IsFiniteSet(timers_')
    BY <1>0, <1>1, <1>7, FS_Union DEF SetsInv
  <2> QED BY <2>4, <2>5, <2>6, <1>13 DEF SetsInv, Entry, ActiveTimer
<1>15. OwnersInv'
  <2>1. Len(expired') = 0
    BY <1>2
  <2>2. Live' = Queued' \cup QueuedAdds' /\ Queued' \cap QueuedAdds' = {}
    BY <1>0, <1>4, <1>5, <1>9, <1>10, <1>13 DEF OwnersInv
  <2>3. \A j, k \in 1..Len(expired') : expired'[j] = expired'[k] => j = k
    BY <2>1
  <2> QED BY <2>2, <2>3, <1>9 DEF OwnersInv
<1>16. CancelInv'
  <2>1. \A a \in again : heap[a].sequence \notin cancelled
    BY <1>0, <1>5 DEF CancelInv
  <2>2. \A a \in Queued' \cup QueuedAdds' : heap'[a].sequence \notin cancelled'
    BY <2>1, <1>0, <1>2, <1>4, <1>8, <1>9, <1>13 DEF CancelInv, history
  <2>3. \A a \in Batch \ again : heap[a].sequence \in cancelled \cup ran
    <3>1. \A a \in Batch : \E k \in 1..done : a = expired[k]
      BY <1>0 DEF Batch
    <3> QED BY <3>1, <1>0, <1>6 DEF CancelInv
  <2>4. NoTimerLost'
    <3>1. ASSUME NEW n \in 1..numCreated
          PROVE  n \in {heap'[a].sequence : a \in Live'} \cup cancelled \cup ran
      <4>1. n \in {heap[a].sequence : a \in Live} \cup cancelled \cup ran
        BY <1>0 DEF CancelInv, NoTimerLost
      <4>2. ASSUME NEW a \in Live, n = heap[a].sequence
            PROVE  n \in {heap'[b].sequence : b \in Live'} \cup cancelled \cup ran
        BY <4>2, <2>3, <1>10, <1>11
      <4> QED BY <4>1, <4>2
    <3> QED BY <3>1, <1>2 DEF NoTimerLost, history
  <2>5. \A k \in 1..done' : FALSE
    BY <1>2
  <2> QED BY <2>2, <2>4, <2>5, <1>9 DEF CancelInv
<1>17. /\ remaining' \in Nat /\ readable' \in BOOLEAN /\ Armed'
  <2>1. CASE timers_' = {}
    BY <2>1, <1>0, <1>1 DEF Rearm, timerfd, LoopInv, Armed
  <2>2. CASE timers_' # {}
    <3>1. timers_' \in SUBSET (Nat \X Nat) /\ IsFiniteSet(timers_')
      <4>1. \A a \in Queued' : heap'[a].expiration \in Nat /\ a \in Nat
        BY <1>12, AddrAssumption DEF HeapInv, Queued
      <4> QED BY <4>1, <1>14 DEF SetsInv, Entry
    <3>2. Earliest(timers_') \in timers_' /\ Earliest(timers_')[1] \in Nat
      BY <2>2, <3>1, EarliestIsFirst
    <3>3. Earliest(timers_')[1] # 0
      <4>1. \A a \in Queued' : heap'[a].expiration # 0
        BY <1>12, <1>4, <1>5, <1>10, <1>13 DEF HeapInv
      <4>2. \A e \in timers_' : e[1] # 0
        BY <4>1, <1>14 DEF SetsInv, Entry
      <4> QED BY <3>2, <4>2
    <3>4. remaining' = HowMuchTimeFromNow(Earliest(timers_')[1]) /\ readable' = FALSE
      BY <2>2, <3>2, <3>3, <1>1 DEF Rearm, ResetTimerfd
    <3>5. remaining' \in Nat \ {0}
      <4>1. now \in Int
        BY <1>0 DEF LoopInv
      <4> QED BY <4>1, <3>2, <3>4, HowMuch
    <3>6. Armed'
      BY <3>4, <3>5, <1>2 DEF Armed, HowMuchTimeFromNow
    <3> QED BY <3>4, <3>5, <3>6
  <2> QED BY <2>1, <2>2
<1>18. LoopInv'
  <2>1. expired' \in Seq(Addrs) /\ Len(expired') = 0
    BY <1>2, EmptySeq
  <2>2. done' \in 0..Len(expired')
    BY <2>1, <1>2
  <2>3. FunctorsInv'
    BY <1>0, <1>2 DEF FunctorsInv, LoopInv, functors
  <2> QED BY <2>1, <2>2, <2>3, <1>0, <1>2, <1>17 DEF LoopInv
<1> QED BY <1>12, <1>14, <1>15, <1>16, <1>17, <1>18 DEF IInv

-----------------------------------------------------------------------------
(***************************************************************************)
(* The functors of other threads.                                          *)
(***************************************************************************)

\* queueInLoop: a request comes last.
LEMMA AppendRequest ==
    ASSUME FunctorsInv, NEW r \in Requests, queue' = Append(queue, r), left' = left,
           r[1] = "add" => r[2] \notin QueuedAdds
    PROVE  /\ FunctorsInv'
           /\ r[1] = "add" => QueuedAdds' = QueuedAdds \cup {r[2]}
           /\ r[1] # "add" => QueuedAdds' = QueuedAdds
<1> DEFINE n == Len(queue)
<1>1. /\ queue' \in Seq(Requests) /\ Len(queue') = n + 1 /\ n \in Nat
      /\ \A k \in 1..n : queue'[k] = queue[k]
      /\ queue'[n + 1] = r
  BY AppendProperties, LenProperties DEF FunctorsInv
<1> HIDE DEF n
<1>2. \A k \in 1..Len(queue') : k \in 1..n \/ k = n + 1
  BY <1>1
<1>3. \A k \in 1..n : queue[k][1] = "add" => queue[k][2] \in QueuedAdds
  BY DEF QueuedAdds, n
<1>4. \A j, k \in 1..Len(queue') : queue'[j][1] = "add" /\ queue'[k] = queue'[j] => j = k
  <2> SUFFICES ASSUME NEW j \in 1..Len(queue'), NEW k \in 1..Len(queue'),
                      queue'[j][1] = "add", queue'[k] = queue'[j]
               PROVE  j = k
    OBVIOUS
  <2>1. CASE j \in 1..n /\ k \in 1..n
    BY <2>1, <1>1 DEF FunctorsInv, n
  <2>2. CASE j = n + 1 /\ k = n + 1
    BY <2>2
  <2>3. CASE j = n + 1 /\ k \in 1..n
    BY <2>3, <1>1, <1>3
  <2>4. CASE j \in 1..n /\ k = n + 1
    BY <2>4, <1>1, <1>3
  <2> QED BY <2>1, <2>2, <2>3, <2>4, <1>2
<1>5. left' \in 0..Len(queue')
  BY <1>1 DEF FunctorsInv, n
<1>6. FunctorsInv'
  BY <1>1, <1>4, <1>5 DEF FunctorsInv
<1>7. \A a : a \in QueuedAdds' <=> a \in QueuedAdds \/ (r[1] = "add" /\ a = r[2])
  <2>1. \A a : a \in QueuedAdds' <=> \E k \in 1..Len(queue') : queue'[k][1] = "add" /\ a = queue'[k][2]
    BY DEF QueuedAdds
  <2>2. \A a : a \in QueuedAdds <=> \E k \in 1..n : queue[k][1] = "add" /\ a = queue[k][2]
    BY DEF QueuedAdds, n
  <2>3. n + 1 \in 1..Len(queue') /\ \A k \in 1..n : k \in 1..Len(queue')
    BY <1>1
  <2> QED BY <2>1, <2>2, <2>3, <1>1, <1>2
<1> QED BY <1>6, <1>7

\* doPendingFunctors: the first request is taken.
LEMMA TakeRequest ==
    ASSUME FunctorsInv, left > 0, queue' = Tail(queue), left' = left - 1
    PROVE  /\ FunctorsInv'
           /\ Head(queue) \in Requests
           /\ Head(queue)[1] = "add" =>
                  /\ Head(queue)[2] \in QueuedAdds
                  /\ QueuedAdds' = QueuedAdds \ {Head(queue)[2]}
           /\ Head(queue)[1] # "add" => QueuedAdds' = QueuedAdds
<1> DEFINE n == Len(queue)
           r == Head(queue)
<1>1. n \in Nat \ {0} /\ left \in 1..n /\ queue # <<>>
  BY LenProperties DEF FunctorsInv
<1>2. /\ r \in Requests /\ r = queue[1]
      /\ queue' \in Seq(Requests) /\ Len(queue') = n - 1
      /\ \A k \in 1..(n - 1) : queue'[k] = queue[k + 1]
  BY <1>1, HeadTailProperties DEF FunctorsInv
<1>3. \A j, k \in 1..n : queue[j][1] = "add" /\ queue[k] = queue[j] => j = k
  BY DEF FunctorsInv
<1>4. \A k \in 1..n : queue[k] \in Requests
  BY ElementOfSeq DEF FunctorsInv
<1> HIDE DEF n, r
<1>5. \A j, k \in 1..Len(queue') : queue'[j][1] = "add" /\ queue'[k] = queue'[j] => j = k
  <2> SUFFICES ASSUME NEW j \in 1..(n - 1), NEW k \in 1..(n - 1),
                      queue'[j][1] = "add", queue'[k] = queue'[j]
               PROVE  j = k
    BY <1>2
  <2>1. j + 1 \in 1..n /\ k + 1 \in 1..n /\ queue'[j] = queue[j + 1] /\ queue'[k] = queue[k + 1]
    BY <1>1, <1>2
  <2>2. j + 1 = k + 1
    BY <2>1, <1>3
  <2> QED BY <2>2
<1>6. left' \in 0..Len(queue')
  BY <1>1, <1>2
<1>7. FunctorsInv'
  BY <1>2, <1>5, <1>6 DEF FunctorsInv
<1>8. \A a : a \in QueuedAdds <=> \E k \in 1..n : queue[k][1] = "add" /\ a = queue[k][2]
  BY DEF QueuedAdds, n
<1>9. \A a : a \in QueuedAdds' <=>
                \E k \in 1..(n - 1) : queue[k + 1][1] = "add" /\ a = queue[k + 1][2]
  <2>1. \A a : a \in QueuedAdds' <=>
                 \E k \in 1..(n - 1) : queue'[k][1] = "add" /\ a = queue'[k][2]
    BY <1>2 DEF QueuedAdds
  <2>2. \A k \in 1..(n - 1) : queue'[k] = queue[k + 1]
    BY <1>2
  <2>3. ASSUME NEW a \in QueuedAdds'
        PROVE  \E k \in 1..(n - 1) : queue[k + 1][1] = "add" /\ a = queue[k + 1][2]
    <3>1. PICK k \in 1..(n - 1) : queue'[k][1] = "add" /\ a = queue'[k][2]
      BY <2>1
    <3> QED BY <3>1, <2>2
  <2>4. ASSUME NEW k \in 1..(n - 1), queue[k + 1][1] = "add"
        PROVE  queue[k + 1][2] \in QueuedAdds'
    <3>1. queue'[k][1] = "add" /\ queue'[k][2] = queue[k + 1][2]
      BY <2>2, <2>4
    <3> QED BY <3>1, <2>1
  <2>5. \A k \in 1..(n - 1) : queue[k + 1][1] = "add" => queue[k + 1][2] \in QueuedAdds'
    BY <2>4
  <2>6. ASSUME NEW a
        PROVE  a \in QueuedAdds' <=>
                   \E k \in 1..(n - 1) : queue[k + 1][1] = "add" /\ a = queue[k + 1][2]
    BY <2>3, <2>5
  <2> QED BY <2>6
<1>10. 1 \in 1..n /\ \A k \in 1..n : k = 1 \/ \E m \in 1..(n - 1) : k = m + 1
  <2>1. ASSUME NEW k \in 1..n, k # 1 PROVE \E m \in 1..(n - 1) : k = m + 1
    <3>1. k - 1 \in 1..(n - 1)
      BY <1>1, <2>1
    <3>2. k = (k - 1) + 1
      OBVIOUS
    <3> WITNESS k - 1 \in 1..(n - 1)
    <3> QED BY <3>2
  <2>2. 1 \in 1..n
    BY <1>1
  <2>3. \A k \in 1..n : k = 1 \/ \E m \in 1..(n - 1) : k = m + 1
    BY <2>1
  <2> QED BY <2>2, <2>3
<1>11. \A k \in 1..(n - 1) : k + 1 \in 1..n /\ k + 1 # 1
  BY <1>1
<1>12. CASE r[1] = "add"
  <2>1. r[2] \in QueuedAdds
    BY <1>2, <1>8, <1>10, <1>12
  <2>2. r[2] \notin QueuedAdds'
    <3>1. ASSUME NEW k \in 1..(n - 1), queue[k + 1][1] = "add", queue[k + 1][2] = r[2]
          PROVE  FALSE
      <4>1. PICK m \in 1..n : m = k + 1 /\ m # 1
        BY <1>11
      <4>2. queue[m][1] = "add" /\ queue[m][2] = queue[1][2] /\ queue[1][1] = "add"
        BY <4>1, <3>1, <1>2, <1>12
      <4>3. \A x \in Requests : x[1] = "add" => x = <<"add", x[2]>>
        BY DEF Requests
      <4>4. queue[m] = queue[1]
        BY <4>2, <4>3, <1>4, <1>10
      <4> QED BY <4>1, <4>2, <4>4, <1>3, <1>10
    <3> QED BY <3>1, <1>9
  <2>3. \A a : a \in QueuedAdds /\ a # r[2] => a \in QueuedAdds'
    <3> SUFFICES ASSUME NEW a \in QueuedAdds, a # r[2] PROVE a \in QueuedAdds'
      OBVIOUS
    <3>1. PICK k \in 1..n : queue[k][1] = "add" /\ a = queue[k][2]
      BY <1>8
    <3>2. PICK m \in 1..(n - 1) : k = m + 1
      BY <3>1, <1>2, <1>10
    <3> QED BY <3>1, <3>2, <1>9
  <2>4. \A a : a \in QueuedAdds' => a \in QueuedAdds
    BY <1>8, <1>9, <1>11
  <2> QED BY <2>1, <2>2, <2>3, <2>4, <1>2, <1>7, <1>12 DEF r
<1>13. CASE r[1] # "add"
  <2>1. \A a : a \in QueuedAdds <=> a \in QueuedAdds'
    BY <1>2, <1>8, <1>9, <1>10, <1>11, <1>13
  <2> QED BY <2>1, <1>2, <1>7, <1>13 DEF r
<1> QED BY <1>12, <1>13

-----------------------------------------------------------------------------
(***************************************************************************)
(* The other steps.                                                        *)
(***************************************************************************)

\* As long as objects, sets, batch and functors stay, so do the owners.
LEMMA SameTimers ==
    ASSUME HeapInv, SetsInv, OwnersInv, UNCHANGED <<heap, timers_, activeTimers_, expired, queue>>
    PROVE  /\ Live' = Live /\ Queued' = Queued /\ Batch' = Batch /\ QueuedAdds' = QueuedAdds
           /\ SetsInv' /\ OwnersInv'
<1>1. Live' = Live /\ Queued' = Queued /\ Batch' = Batch /\ QueuedAdds' = QueuedAdds
  BY DEF Live, Queued, Batch, QueuedAdds, ActiveTimer
<1> QED BY <1>1 DEF SetsInv, OwnersInv, Entry, ActiveTimer

\* Steps that only move the loop thread or the clock.
LEMMA QuietIInv ==
    ASSUME IInv, Poll \/ CallbackReturns \/ EventsDone \/ FunctorsDone \/ Tick \/ SetClock
                 \/ (\E t \in caller : CallerReturns(t))
    PROVE  IInv'
<1>0. HeapInv /\ LoopInv /\ SetsInv /\ OwnersInv /\ CancelInv /\ Armed /\ FunctorsInv
  BY DEF IInv, LoopInv
<1>1. /\ UNCHANGED <<heap, numCreated, timers_, activeTimers_, cancelingTimers_,
                      callingExpiredTimers_, expired, done, handleNow, queue, cancelled, ran>>
      /\ pc' # "gone"
  BY <1>0 DEF Poll, CallbackReturns, EventsDone, FunctorsDone, Tick, SetClock, CallerReturns, sets,
         handling, functors, history, LoopInv
<1>2. /\ Live' = Live /\ Queued' = Queued /\ Batch' = Batch /\ QueuedAdds' = QueuedAdds
      /\ SetsInv' /\ OwnersInv'
  BY <1>0, <1>1, SameTimers
<1>3. CancelInv'
  <2>1. pc # "gone"
    BY DEF Poll, CallbackReturns, EventsDone, FunctorsDone, Tick, SetClock, CallerReturns
  <2> QED BY <2>1, <1>0, <1>1, <1>2 DEF CancelInv, NoTimerLost, ActiveTimer
<1>4. HeapInv'
  <2>1. CASE UNCHANGED <<ids, caller>>
    BY <2>1, <1>0, <1>1, <1>2 DEF HeapInv
  <2>2. ASSUME NEW t \in caller, CallerReturns(t) PROVE HeapInv'
    <3>1. t[1] \in Addrs /\ \A s \in 0..numCreated : s \in 0..MaxTimers
      BY <1>0, BoundAssumption DEF HeapInv, Ids
    <3>2. heap[t[1]].sequence \in 0..numCreated
      BY <3>1, <1>0 DEF HeapInv
    <3>3. ids' \subseteq Ids /\ caller' = {}
      BY <2>2, <3>1, <3>2, <1>0 DEF CallerReturns, HeapInv, Ids
    <3> QED BY <3>3, <1>0, <1>1, <1>2 DEF HeapInv
  <2> QED BY <2>1, <2>2 DEF Poll, CallbackReturns, EventsDone, FunctorsDone, Tick, SetClock, history
<1>5. FunctorsInv'
  <2>1. left' = left \/ left' = Len(queue)
    BY DEF Poll, CallbackReturns, EventsDone, FunctorsDone, Tick, SetClock, CallerReturns, functors
  <2>2. Len(queue) \in Nat
    BY <1>0, LenProperties DEF FunctorsInv
  <2>3. left' \in 0..Len(queue)
    BY <2>1, <2>2, <1>0 DEF FunctorsInv
  <2> QED BY <2>3, <1>0, <1>1 DEF FunctorsInv
<1>6. LoopInv'
  <2>1. /\ now' \in 1..MaxNow
        /\ polled' \in BOOLEAN /\ readable' \in BOOLEAN /\ remaining' \in Nat
    <3>1. now \in 1..MaxNow /\ MaxNow \in Nat /\ remaining \in Nat
          /\ polled \in BOOLEAN /\ readable \in BOOLEAN
      BY <1>0, BoundAssumption DEF LoopInv
    <3>2. CASE Tick
      <4>1. now' \in 1..MaxNow /\ remaining' \in Nat
        BY <3>1, <3>2 DEF Tick
      <4>2. readable' \in BOOLEAN /\ polled' \in BOOLEAN
        BY <3>1, <3>2 DEF Tick
      <4> QED BY <4>1, <4>2
    <3>3. CASE SetClock
      BY <3>1, <3>3 DEF SetClock, timerfd
    <3>4. CASE Poll \/ CallbackReturns \/ EventsDone \/ FunctorsDone
               \/ \E t \in caller : CallerReturns(t)
      BY <3>1, <3>4 DEF Poll, CallbackReturns, EventsDone, FunctorsDone, CallerReturns, timerfd
    <3> QED BY <3>2, <3>3, <3>4
  <2>2. /\ pc' \in {"poll", "events", "running", "callback", "functors", "gone"}
        /\ polled' => pc' = "events"
        /\ pc' \in {"running", "callback"} <=> pc \in {"running", "callback"}
    BY <1>0 DEF LoopInv, Poll, CallbackReturns, EventsDone, FunctorsDone, Tick, SetClock, CallerReturns
  <2>3. /\ callingExpiredTimers_' \in BOOLEAN /\ cancelingTimers_' \subseteq Ids
        /\ expired' \in Seq(Addrs) /\ done' \in 0..Len(expired') /\ handleNow' \in Nat
        /\ pc \in {"running", "callback"} => callingExpiredTimers_' /\ handleNow' # 0
        /\ pc \notin {"running", "callback"} => expired' = <<>>
    BY <1>0, <1>1 DEF LoopInv
  <2>4. pc' \in {"running", "callback"} => callingExpiredTimers_' /\ handleNow' # 0
    BY <2>2, <2>3
  <2>5. pc' \notin {"running", "callback"} => expired' = <<>>
    BY <2>2, <2>3
  <2> QED BY <2>1, <2>2, <2>3, <2>4, <2>5, <1>5, Zenon DEF LoopInv
<1>7. Armed'
  <2>1. CASE Poll
    <3>1. pc = "poll" /\ UNCHANGED <<now, remaining, readable, clockSet>>
      BY <2>1 DEF Poll, timerfd, history
    <3>2. ~polled
      BY <3>1, <1>0 DEF LoopInv
    <3> QED BY <3>1, <3>2, <1>0, <1>1 DEF Armed, HowMuchTimeFromNow
  <2>2. CASE CallbackReturns \/ EventsDone \/ FunctorsDone \/ \E t \in caller : CallerReturns(t)
    BY <2>2, <1>0, <1>1 DEF CallbackReturns, EventsDone, FunctorsDone, CallerReturns, Armed,
       timerfd, HowMuchTimeFromNow, history
  <2>3. CASE SetClock
    BY <2>3, <1>0, <1>1 DEF SetClock, Armed, timerfd
  <2>4. CASE Tick
    <3> SUFFICES ASSUME pc \in {"poll", "events", "functors"}, timers_ # {},
                        ~readable', ~polled'
                 PROVE  remaining' > 0 /\ (clockSet \/ remaining' <=
                                             IF Earliest(timers_)[1] - now' < 1 THEN 1
                                             ELSE Earliest(timers_)[1] - now')
      BY <2>4, <1>1 DEF Armed, Tick, history, HowMuchTimeFromNow
    <3>1. ~readable /\ ~polled /\ remaining # 1
      BY <2>4 DEF Tick
    <3>2. remaining > 0 /\ (clockSet \/ remaining <= HowMuchTimeFromNow(Earliest(timers_)[1]))
      BY <3>1, <1>0 DEF Armed
    <3>3. /\ remaining' = (IF remaining > 0 THEN remaining - 1 ELSE 0)
          /\ now' = (IF now < MaxNow THEN now + 1 ELSE now)
      BY <2>4 DEF Tick
    <3>4. Earliest(timers_)[1] \in Nat
      BY <1>0, EntryFacts, EarliestIsFirst DEF SetsInv
    <3>5. now \in Nat /\ remaining \in Nat
      BY <1>0 DEF LoopInv
    <3> QED BY <3>1, <3>2, <3>3, <3>4, <3>5 DEF HowMuchTimeFromNow
  <2> QED BY <2>1, <2>2, <2>3, <2>4
<1> QED BY <1>2, <1>3, <1>4, <1>6, <1>7 DEF IInv

\* run() of the next timer of the batch.
LEMMA RunTimerIInv == ASSUME IInv, RunTimer PROVE IInv'
<1>0. /\ HeapInv /\ LoopInv /\ SetsInv /\ OwnersInv /\ CancelInv
      /\ pc = "running" /\ done < Len(expired)
  BY DEF IInv, RunTimer
<1>1. /\ UNCHANGED <<now, heap, numCreated, timers_, activeTimers_, cancelingTimers_, timerfd,
                      polled, expired, handleNow, callingExpiredTimers_, functors, caller,
                      ids, cancelled, clockSet>>
      /\ ran' = ran \cup {heap[expired[done + 1]].sequence}
      /\ done' = done + 1 /\ pc' = "callback"
  BY DEF RunTimer, sets
<1>2. /\ Live' = Live /\ Queued' = Queued /\ Batch' = Batch /\ QueuedAdds' = QueuedAdds
      /\ SetsInv' /\ OwnersInv'
  BY <1>0, <1>1, SameTimers DEF functors
<1>3. done \in Nat /\ Len(expired) \in Nat
  BY <1>0, LenProperties DEF LoopInv
<1>4. CancelInv'
  <2>1. \A k \in 1..done' : k \in 1..done \/ k = done + 1
    BY <1>1, <1>3
  <2>2. \A k \in 1..done' : heap'[expired'[k]].sequence \in ran'
    BY <2>1, <1>0, <1>1 DEF CancelInv
  <2> QED BY <2>2, <1>0, <1>1, <1>2 DEF CancelInv, NoTimerLost, ActiveTimer
<1>5. HeapInv'
  BY <1>0, <1>1, <1>2 DEF HeapInv
<1>6. LoopInv'
  <2>1. done' \in 0..Len(expired')
    BY <1>0, <1>1, <1>3
  <2>2. FunctorsInv'
    BY <1>0, <1>1 DEF FunctorsInv, LoopInv, functors
  <2> QED BY <2>1, <2>2, <1>0, <1>1 DEF LoopInv, timerfd
<1>7. Armed'
  BY <1>1 DEF Armed
<1> QED BY <1>2, <1>4, <1>5, <1>6, <1>7 DEF IInv

\* ~TimerQueue deletes the queued timers; those on their way to the loop stay behind.
LEMMA DestroyIInv == ASSUME IInv, Destroy PROVE IInv'
<1>0. /\ HeapInv /\ LoopInv /\ SetsInv /\ OwnersInv /\ CancelInv /\ Batch = {}
      /\ pc = "functors" /\ expired = <<>> /\ polled = FALSE
  BY OwnersKnown DEF IInv, Destroy, LoopInv
<1>1. /\ UNCHANGED <<now, numCreated, cancelingTimers_, polled, handling, functors, caller, history>>
      /\ timers_' = {} /\ activeTimers_' = {}
      /\ remaining' = 0 /\ readable' = FALSE /\ pc' = "gone"
      /\ heap' = [a \in Addrs |-> IF a \in Queued THEN Free ELSE heap[a]]
  <2>1. {e[2] : e \in timers_} = Queued
    BY <1>0, EntryFacts DEF Entry
  <2> QED BY <2>1 DEF Destroy
<1>2. heap \in [Addrs -> [expiration : Nat, interval : Nat, sequence : 0..numCreated]]
  BY <1>0 DEF HeapInv
<1>3. Queued' = {} /\ Batch' = {} /\ QueuedAdds' = QueuedAdds
  BY <1>0, <1>1 DEF Queued, Batch, QueuedAdds, functors, handling
<1>4. Live' = Live \ Queued
  BY <1>1 DEF Live
<1>5. \A a \in Live' : a \in Live /\ a \in Addrs /\ heap'[a] = heap[a]
  BY <1>1, <1>4 DEF Live
<1>6. HeapInv'
  <2>1. Free \in [expiration : Nat, interval : Nat, sequence : 0..numCreated]
    BY <1>0, BoundAssumption DEF Free, HeapInv
  <2>2. heap' \in [Addrs -> [expiration : Nat, interval : Nat, sequence : 0..numCreated]]
    BY <2>1, <1>1, <1>2
  <2>3. UNCHANGED <<numCreated, caller, ids, cancelled>>
    BY <1>1 DEF history
  <2>4. \A a \in Live' : heap'[a].sequence # 0 /\ heap'[a].expiration # 0
    BY <1>0, <1>5 DEF HeapInv
  <2>5. \A a, b \in Live' : heap'[a].sequence = heap'[b].sequence => a = b
    BY <1>0, <1>5 DEF HeapInv
  <2>6. numCreated \in 0..MaxTimers /\ ids \subseteq Ids /\ caller \subseteq Ids
        /\ cancelled \subseteq 1..numCreated
    BY <1>0 DEF HeapInv
  <2>7. Ids' = Ids
    BY DEF Ids
  <2> QED BY <2>2, <2>3, <2>4, <2>5, <2>6, <2>7 DEF HeapInv
<1>7. SetsInv'
  BY <1>1, <1>3, FS_EmptySet DEF SetsInv
<1>8. OwnersInv'
  BY <1>0, <1>1, <1>3, <1>4, OwnersKnown DEF OwnersInv, handling
<1>9. CancelInv'
  <2>1. \A a \in QueuedAdds : a \in Live'
    BY <1>0, <1>4, OwnersKnown
  <2>2. \A a \in Queued' \cup QueuedAdds' : heap'[a].sequence \notin cancelled'
    BY <2>1, <1>0, <1>1, <1>3, <1>5 DEF CancelInv, history
  <2>3. \A k \in 1..done' : FALSE
    <3>1. done \in 0..Len(expired) /\ Len(expired) = 0
      BY <1>0 DEF LoopInv
    <3> QED BY <3>1, <1>1 DEF handling
  <2> QED BY <2>2, <2>3, <1>1, <1>3 DEF CancelInv, NoTimerLost
<1>10. LoopInv'
  <2>1. FunctorsInv'
    BY <1>0, <1>1 DEF FunctorsInv, LoopInv, functors
  <2> QED BY <2>1, <1>0, <1>1 DEF LoopInv, handling
<1>11. Armed'
  BY <1>1 DEF Armed
<1> QED BY <1>6, <1>7, <1>8, <1>9, <1>10, <1>11 DEF IInv

\* cancel by the loop thread.
LEMMA LoopCancelIInv == ASSUME IInv, NEW id \in ids, LoopCancel(id) PROVE IInv'
<1>1. id \in Ids
  BY DEF IInv, HeapInv
<1>2. /\ CancelInLoop(id)
      /\ UNCHANGED <<now, numCreated, timerfd, polled, handling, functors, caller, ids, ran,
                      clockSet, pc>>
  BY DEF LoopCancel
<1>3. QueuedAdds' = QueuedAdds
  BY <1>2 DEF QueuedAdds, functors
<1>4. /\ HeapInv' /\ SetsInv' /\ OwnersInv' /\ CancelInv' /\ Armed'
      /\ cancelingTimers_' \subseteq Ids
  BY <1>1, <1>2, <1>3, CancelTimer
<1>5. FunctorsInv'
  BY <1>2 DEF FunctorsInv, LoopInv, IInv, functors
<1>6. LoopInv'
  BY <1>2, <1>4, <1>5 DEF IInv, LoopInv, handling, timerfd
<1> QED BY <1>4, <1>6 DEF IInv

\* cancel by another thread.
LEMMA CallerCancelIInv == ASSUME IInv, NEW id \in ids, CallerCancel(id) PROVE IInv'
<1>0. HeapInv /\ LoopInv /\ SetsInv /\ OwnersInv /\ CancelInv /\ Armed /\ FunctorsInv
  BY DEF IInv, LoopInv
<1>1. /\ UNCHANGED <<now, heap, numCreated, sets, timerfd, polled, handling, left, caller, history, pc>>
      /\ queue' = Append(queue, <<"cancel", id>>) /\ pc # "gone"
  BY DEF CallerCancel
<1>2. <<"cancel", id>> \in Requests
  BY <1>0 DEF HeapInv, Requests
<1>3. FunctorsInv' /\ QueuedAdds' = QueuedAdds
  BY <1>0, <1>1, <1>2, AppendRequest
<1>4. /\ Live' = Live /\ Queued' = Queued /\ Batch' = Batch
  BY <1>1 DEF Live, Queued, Batch, ActiveTimer, handling, sets
<1>5. SetsInv' /\ OwnersInv'
  BY <1>0, <1>1, <1>3, <1>4 DEF SetsInv, OwnersInv, Entry, ActiveTimer, handling, sets
<1>6. HeapInv' /\ CancelInv'
  BY <1>0, <1>1, <1>3, <1>4 DEF HeapInv, CancelInv, NoTimerLost, ActiveTimer, handling, sets, history
<1>7. LoopInv'
  BY <1>0, <1>1, <1>3 DEF LoopInv, handling, sets, timerfd
<1>8. Armed'
  BY <1>0, <1>1 DEF Armed, sets, timerfd, history, HowMuchTimeFromNow
<1> QED BY <1>5, <1>6, <1>7, <1>8 DEF IInv

\* addTimer by the loop thread: the new timer is in the sets at once.
LEMMA LoopAddIInv ==
    ASSUME IInv, NEW a \in Addrs, NEW d \in Nat, NEW i \in Nat, LoopAddTimer(a, d, i)
    PROVE  IInv'
<1> DEFINE obj == NewTimer(d, i)
<1>0. HeapInv /\ LoopInv /\ SetsInv /\ OwnersInv /\ CancelInv /\ Armed /\ FunctorsInv
  BY DEF IInv, LoopInv
<1>1. /\ CanCreate(a) /\ AddTimerInLoop(a, obj)
      /\ heap' = [heap EXCEPT ![a] = obj] /\ numCreated' = numCreated + 1
      /\ ids' = ids \cup {<<a, numCreated + 1>>} /\ cancelingTimers_' = cancelingTimers_
      /\ UNCHANGED <<now, polled, handling, functors, caller, cancelled, ran, clockSet, pc>>
  BY DEF LoopAddTimer, AddTimerInLoop
<1>2. /\ numCreated \in Nat /\ numCreated + 1 \in 0..MaxTimers /\ now \in Nat
      /\ a \notin Live /\ a \notin Queued /\ a \notin Batch /\ a \notin QueuedAdds
  BY <1>0, <1>1, BoundAssumption, OwnersKnown DEF CanCreate, HeapInv, LoopInv
<1>3. /\ obj.expiration \in Nat /\ obj.sequence \in 0..MaxTimers
      /\ heap'[a] = obj /\ \A b \in Addrs \ {a} : heap'[b] = heap[b]
  BY <1>0, <1>1, <1>2 DEF NewTimer, HeapInv
<1> HIDE DEF obj
<1>4. /\ Queued' = Queued \cup {a} /\ SetsInv' /\ Armed'
      /\ remaining' \in Nat /\ readable' \in BOOLEAN
  BY <1>0, <1>1, <1>2, <1>3, AddedToSets
<1>5. QueuedAdds' = QueuedAdds /\ Batch' = Batch
  BY <1>1 DEF QueuedAdds, Batch, functors, handling
<1>6. ids' \subseteq Addrs \X (0..MaxTimers) /\ caller' \subseteq Addrs \X (0..MaxTimers)
  BY <1>0, <1>1, <1>2 DEF HeapInv, Ids
<1>7. Live' = Live \cup {a} /\ HeapInv' /\ CancelInv'
  <2>1. UNCHANGED <<cancelled, ran, expired, done, cancelingTimers_, pc>>
    BY <1>1 DEF handling
  <2>2. Queued' \cup QueuedAdds' = Queued \cup QueuedAdds \cup {a}
    BY <1>4, <1>5
  <2> QED BY <2>1, <2>2, <1>1, <1>6, CreateTimer DEF obj
<1>8. OwnersInv'
  BY <1>0, <1>1, <1>2, <1>4, <1>5, <1>7 DEF OwnersInv, handling
<1>9. LoopInv'
  <2>1. FunctorsInv'
    BY <1>0, <1>1 DEF FunctorsInv, functors
  <2> QED BY <2>1, <1>0, <1>1, <1>4 DEF LoopInv, handling
<1> QED BY <1>4, <1>7, <1>8, <1>9 DEF IInv

\* addTimer by another thread: the new timer is on its way.
LEMMA CallerAddIInv ==
    ASSUME IInv, NEW a \in Addrs, NEW d \in Nat, NEW i \in Nat, CallerAddTimer(a, d, i)
    PROVE  IInv'
<1> DEFINE obj == NewTimer(d, i)
<1>0. HeapInv /\ LoopInv /\ SetsInv /\ OwnersInv /\ CancelInv /\ Armed /\ FunctorsInv
  BY DEF IInv, LoopInv
<1>1. /\ CanCreate(a) /\ heap' = [heap EXCEPT ![a] = obj] /\ numCreated' = numCreated + 1
      /\ queue' = Append(queue, <<"add", a>>) /\ caller' = {<<a, numCreated + 1>>}
      /\ UNCHANGED <<now, sets, timerfd, polled, handling, left, history, pc>>
  BY DEF CallerAddTimer
<1>2. /\ numCreated \in Nat /\ numCreated + 1 \in 0..MaxTimers
      /\ a \notin Live /\ a \notin Queued /\ a \notin Batch /\ a \notin QueuedAdds
      /\ Queued \subseteq Addrs
  BY <1>0, <1>1, BoundAssumption, OwnersKnown DEF CanCreate, HeapInv, Queued
<1>3. \A b \in Addrs \ {a} : heap'[b] = heap[b]
  BY <1>0, <1>1 DEF HeapInv
<1>4. <<"add", a>> \in Requests
  BY DEF Requests
<1>5. FunctorsInv' /\ QueuedAdds' = QueuedAdds \cup {a}
  BY <1>0, <1>1, <1>2, <1>4, AppendRequest
<1>6. Queued' = Queued
  <2>1. \A t \in activeTimers_ : t[1] # a
    BY <1>0, <1>2, EntryFacts
  <2>2. activeTimers_' = activeTimers_
    BY <1>1 DEF sets
  <2>3. \A b \in Addrs : <<b, heap'[b].sequence>> \in activeTimers_ <=>
                         <<b, heap[b].sequence>> \in activeTimers_
    <3>1. <<a, heap'[a].sequence>> \notin activeTimers_ /\ <<a, heap[a].sequence>> \notin activeTimers_
      BY <2>1
    <3> QED BY <3>1, <1>3
  <2> QED BY <2>2, <2>3 DEF Queued, ActiveTimer
<1>7. SetsInv'
  <2>1. \A b \in Queued : heap'[b] = heap[b]
    BY <1>2, <1>3
  <2> QED BY <2>1, <1>0, <1>1, <1>6 DEF SetsInv, Entry, ActiveTimer, sets
<1>8. ids' \subseteq Addrs \X (0..MaxTimers) /\ caller' \subseteq Addrs \X (0..MaxTimers)
  BY <1>0, <1>1, <1>2 DEF HeapInv, Ids, history
<1>9. Live' = Live \cup {a} /\ HeapInv' /\ CancelInv'
  <2>1. UNCHANGED <<cancelled, ran, expired, done, cancelingTimers_, pc>>
    BY <1>1 DEF handling, history, sets
  <2>2. Queued' \cup QueuedAdds' = Queued \cup QueuedAdds \cup {a}
    BY <1>5, <1>6
  <2> QED BY <2>1, <2>2, <1>1, <1>8, CreateTimer
<1>10. Batch' = Batch
  BY <1>1 DEF Batch, handling
<1>11. OwnersInv'
  BY <1>0, <1>1, <1>2, <1>5, <1>6, <1>9, <1>10 DEF OwnersInv, handling
<1>12. LoopInv'
  BY <1>0, <1>1, <1>5 DEF LoopInv, handling, sets, timerfd
<1>13. Armed'
  BY <1>0, <1>1 DEF Armed, sets, timerfd, history, HowMuchTimeFromNow
<1> QED BY <1>7, <1>9, <1>11, <1>12, <1>13 DEF IInv

\* doPendingFunctors runs addTimerInLoop or cancelInLoop.
LEMMA RunFunctorIInv == ASSUME IInv, RunFunctor PROVE IInv'
<1> DEFINE r == Head(queue)
<1>0. HeapInv /\ LoopInv /\ SetsInv /\ OwnersInv /\ CancelInv /\ Armed /\ FunctorsInv
  BY DEF IInv, LoopInv
<1>1. /\ left > 0 /\ left' = left - 1 /\ queue' = Tail(queue)
      /\ UNCHANGED <<now, numCreated, polled, handling, caller, ids, ran, clockSet, pc>>
  BY DEF RunFunctor
<1>2. /\ FunctorsInv' /\ r \in Requests
      /\ r[1] = "add" => r[2] \in QueuedAdds /\ QueuedAdds' = QueuedAdds \ {r[2]}
      /\ r[1] # "add" => QueuedAdds' = QueuedAdds
  BY <1>0, <1>1, TakeRequest
<1>3. CASE /\ r[1] = "add" /\ AddTimerInLoop(r[2], heap[r[2]])
           /\ UNCHANGED <<heap, cancelled>>
  <2> DEFINE a == r[2]
  <2>1. a \in Live /\ a \in Addrs /\ a \in QueuedAdds /\ a \notin Queued /\ a \notin Batch
    BY <1>0, <1>2, <1>3, OwnersKnown DEF Live
  <2>2. heap[a].expiration \in Nat /\ heap[a].sequence \in 0..MaxTimers
    BY <2>1, <1>0, BoundAssumption DEF HeapInv
  <2> HIDE DEF r
  <2>3. /\ Queued' = Queued \cup {a} /\ SetsInv' /\ Armed'
        /\ remaining' \in Nat /\ readable' \in BOOLEAN
    BY <2>1, <2>2, <1>0, <1>1, <1>3, AddedToSets
  <2>4. Live' = Live /\ Batch' = Batch /\ QueuedAdds' = QueuedAdds \ {a}
    BY <1>1, <1>2, <1>3 DEF Live, Batch, handling
  <2> HIDE DEF a
  <2>5. OwnersInv'
    BY <2>1, <2>3, <2>4, <1>0, <1>1 DEF OwnersInv, handling
  <2>6. HeapInv'
    BY <2>4, <1>0, <1>1, <1>3 DEF HeapInv
  <2>7. cancelingTimers_' = cancelingTimers_
    BY <1>3 DEF AddTimerInLoop
  <2>8. CancelInv'
    <3>1. \A b \in Queued' \cup QueuedAdds' : b \in Queued \cup QueuedAdds
      BY <2>1, <2>3, <2>4
    <3>2. \A b \in Queued' \cup QueuedAdds' : heap'[b].sequence \notin cancelled'
      BY <3>1, <1>0, <1>3 DEF CancelInv
    <3> QED BY <3>2, <2>4, <2>7, <1>0, <1>1, <1>3
            DEF CancelInv, NoTimerLost, ActiveTimer, handling
  <2>9. LoopInv'
    BY <2>3, <2>7, <1>0, <1>1, <1>2 DEF LoopInv, handling
  <2> QED BY <2>3, <2>5, <2>6, <2>8, <2>9 DEF IInv
<1>4. CASE r[1] = "cancel" /\ CancelInLoop(r[2]) /\ UNCHANGED timerfd
  <2>1. r[2] \in Ids /\ QueuedAdds' = QueuedAdds
    BY <1>2, <1>4 DEF Requests
  <2> HIDE DEF r
  <2>2. UNCHANGED <<now, numCreated, timerfd, polled, handling, caller, ids, ran, clockSet, pc>>
    BY <1>1, <1>4
  <2>3. /\ HeapInv' /\ SetsInv' /\ OwnersInv' /\ CancelInv' /\ Armed'
        /\ cancelingTimers_' \subseteq Ids
    BY <2>1, <2>2, <1>4, CancelTimer
  <2>4. LoopInv'
    BY <2>2, <2>3, <1>0, <1>2 DEF LoopInv, handling, timerfd
  <2> QED BY <2>3, <2>4 DEF IInv
<1> QED BY <1>3, <1>4 DEF RunFunctor

\* Every step keeps the invariant.
LEMMA NextIInv == ASSUME IInv, [Next]_vars PROVE IInv'
<1>1. ASSUME NEW a \in Addrs, NEW d \in Delays,
             LoopAddTimer(a, d, 0) \/ CallerAddTimer(a, d, 0)
      PROVE  IInv'
  BY <1>1, DelayAssumption, LoopAddIInv, CallerAddIInv
<1>2. ASSUME NEW a \in Addrs, NEW i \in Intervals,
             LoopAddTimer(a, i, i) \/ CallerAddTimer(a, i, i)
      PROVE  IInv'
  BY <1>2, DelayAssumption, LoopAddIInv, CallerAddIInv
<1>3. ASSUME NEW id \in ids, LoopCancel(id) \/ CallerCancel(id) PROVE IInv'
  BY <1>3, LoopCancelIInv, CallerCancelIInv
<1>4. CASE UserCalls
  BY <1>1, <1>2, <1>3, <1>4 DEF UserCalls
<1>5. CASE Poll \/ CallbackReturns \/ EventsDone \/ FunctorsDone \/ Tick \/ SetClock
  BY <1>5, QuietIInv
<1>6. CASE CallerStep
  BY <1>6, QuietIInv DEF CallerStep
<1>7. CASE HandleRead \/ RunTimer \/ Reset \/ RunFunctor \/ Destroy
  BY <1>7, HandleReadIInv, RunTimerIInv, ResetIInv, RunFunctorIInv, DestroyIInv
<1>8. CASE UNCHANGED vars
  <2>1. /\ UNCHANGED <<now, heap, numCreated, timers_, activeTimers_, callingExpiredTimers_,
                        cancelingTimers_, remaining, readable, polled>>
        /\ UNCHANGED <<expired, done, handleNow, queue, left, caller, ids, cancelled, ran,
                        clockSet, pc>>
    BY <1>8 DEF vars
  <2>2. HeapInv /\ LoopInv /\ SetsInv /\ OwnersInv /\ CancelInv /\ Armed
    BY DEF IInv
  <2>3. /\ Live' = Live /\ Queued' = Queued /\ Batch' = Batch /\ QueuedAdds' = QueuedAdds
        /\ SetsInv' /\ OwnersInv'
    BY <2>1, <2>2, SameTimers
  <2>4. HeapInv' /\ CancelInv' /\ Armed'
    BY <2>1, <2>2, <2>3 DEF HeapInv, CancelInv, NoTimerLost, Armed, ActiveTimer,
       HowMuchTimeFromNow
  <2>5. LoopInv'
    BY <2>1, <2>2 DEF LoopInv, FunctorsInv
  <2> QED BY <2>3, <2>4, <2>5 DEF IInv
<1> QED BY <1>4, <1>5, <1>6, <1>7, <1>8 DEF Next, LoopStep

-----------------------------------------------------------------------------
(***************************************************************************)
(* The theorems.                                                           *)
(***************************************************************************)

\* timers_, activeTimers_, the batch of handleRead and the functors on their way agree:
\* each Timer object is in the place it says, once, and none leaks or is used after its
\* deletion.
THEOREM TimerQueueInStep == Spec => []InStep
<1>1. IInv => InStep
  <2> SUFFICES ASSUME IInv PROVE InStep
    OBVIOUS
  <2>0. HeapInv /\ LoopInv /\ SetsInv /\ OwnersInv
    BY DEF IInv
  <2>1. /\ timers_ \subseteq Nat \X Addrs
        /\ \A e \in timers_ : e[2] \in Queued /\ e = Entry(e[2])
        /\ \A t \in activeTimers_ : t[1] \in Queued /\ t = ActiveTimer(t[1])
        /\ \A a \in Queued : Entry(a) \in timers_ /\ ActiveTimer(a) \in activeTimers_
    BY <2>0, EntryFacts
  <2>2. {e[2] : e \in timers_} = Queued
    BY <2>1 DEF Entry
  <2>3. {t[1] : t \in activeTimers_} = Queued
    BY <2>1 DEF ActiveTimer
  <2>4. activeTimers_ \subseteq Addrs \X (1..MaxTimers)
    <3>1. \A a \in Queued : a \in Addrs /\ heap[a].sequence \in 1..MaxTimers
      BY <2>0, OwnersKnown, BoundAssumption DEF HeapInv, Live
    <3>2. \A t \in activeTimers_ : t = <<t[1], heap[t[1]].sequence>> /\ t[1] \in Queued
      BY <2>1 DEF ActiveTimer
    <3> QED BY <3>1, <3>2
  <2>5. TypeOK
    <3>1. \A a \in Addrs : heap[a].sequence \in 0..numCreated
      BY <2>0 DEF HeapInv
    <3> QED BY <3>1, <2>0, <2>1, <2>4 DEF TypeOK, HeapInv, LoopInv, Ids
  <2>6. SetsAgree
    BY <2>1, <2>2, <2>3 DEF SetsAgree
  <2>7. OwnedOnce
    BY <2>0, <2>2 DEF OwnedOnce, OwnersInv
  <2> QED BY <2>5, <2>6, <2>7 DEF InStep
<1> QED BY <1>1, InitIInv, NextIInv, PTL DEF Spec

\* Each timer that was created is still there, or was cancelled, or has run.
THEOREM TimerQueueNoTimerLost == Spec => []NoTimerLost
<1>1. IInv => NoTimerLost
  BY DEF IInv, CancelInv
<1> QED BY <1>1, InitIInv, NextIInv, PTL DEF Spec

\* A timer that was cancelled is not in the queue again, whether it was queued or running
\* and whatever has become of its address.
THEOREM TimerQueueCancelledNotQueued == Spec => []CancelledNotQueued
<1>1. IInv => CancelledNotQueued
  <2> SUFFICES ASSUME IInv, NEW t \in activeTimers_ PROVE t[2] \notin cancelled
    BY DEF CancelledNotQueued
  <2>1. t[1] \in Queued /\ t = ActiveTimer(t[1])
    BY EntryFacts DEF IInv
  <2> QED BY <2>1 DEF IInv, CancelInv, ActiveTimer
<1> QED BY <1>1, InitIInv, NextIInv, PTL DEF Spec

\* Outside of handleRead the timerfd is armed, expired or about to be handled whenever a
\* timer is queued, and early enough for the earliest of them.
THEOREM TimerQueueArmed == Spec => []Armed
<1>1. IInv => Armed
  BY DEF IInv
<1> QED BY <1>1, InitIInv, NextIInv, PTL DEF Spec

=============================================================================
