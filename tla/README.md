# A TLA+ model of zing

zing is a small C++11 network library for Linux: one event loop per thread, non-blocking
sockets, timers, a TCP server on top, and a base library with threads, queues and logging.
This directory holds a specification of its core logic, TLC configurations that check it on
small instances, and TLAPS proofs that hold for every instance.

Contents: [1 Inventory](#1-inventory), [2 Modules](#2-modules-and-the-code),
[3 Runs](#3-runs), [4 Bounds](#4-bounds), [5 Fairness](#5-fairness),
[6 Proofs](#6-proofs), [7 Disagreements](#7-where-the-code-and-its-own-words-disagree),
[8 What is not modelled](#8-what-is-not-modelled), [9 Plan](#9-plan).

## 1 Inventory

| Component | State | Operations | Used by / uses |
|---|---|---|---|
| EventLoop | `looping_`, `quit_`, `callingPendingFunctors_`, `pendingFunctors_` (mutex), eventfd | `loop`, `quit`, `runInLoop`, `queueInLoop`, `wakeup`, `doPendingFunctors` | everything in net/; calls from any thread |
| EventLoopThread, EventLoopThreadPool | `loop_` (mutex, condition), the thread; `loops_`, `next_` | `startLoop`, destructor, `getNextLoop` | TcpServer |
| Channel, EPollPoller, PollPoller | events of a descriptor, `index_`; `channels_`, the kernel's set or `pollfds_` | `enable*`, `disable*`, `remove`, `updateChannel`, `removeChannel`, `poll` | every owner of a descriptor |
| Dispatch (EventLoop::loop with Channel) | `activeChannels_` (plain pointers), `currentActiveChannel_`, `eventHandling_`, `revents_` (a snapshot), `tie_` | `handleEvent`, the callbacks | the owners of channels, which may change each other's channels |
| TimerQueue, Timer, TimerId | `timers_`, `activeTimers_`, `cancelingTimers_`, timerfd, heap of `Timer`s | `addTimer`, `cancel`, `handleRead`, `reset` | EventLoop::runAt/After/Every |
| TcpConnection | `state_`, `reading_`, channel, `outputBuffer_`, references | `send`, `shutdown`, `forceClose(WithDelay)`, `start/stopRead`, `handle*`, `connectEstablished/Destroyed` | TcpServer, application callbacks, other threads |
| Acceptor | listening socket, `idleFd_`, the descriptor table | `listen`, `handleRead`, destructor | TcpServer |
| TcpServer | `connections_`, `nextConnId_` | `start`, `newConnection`, `removeConnection`, destructor | loops of the pool |
| Buffer | array, `readerIndex_`, `writerIndex_` | `append`, `retrieve*`, `prepend`, `unwrite`, `shrink`, `readFd` | TcpConnection |
| ThreadPool | `queue_`, `running_`, `threads_`, two conditions | `start`, `run`, `take`, `stop` | applications |
| BlockingQueue, BoundedBlockingQueue | `queue_`, one or two conditions | `put`, `take`, `drain` | applications |
| LogFile, AppendFile | file, `count_`, `lastRoll_`, `lastFlush_`, `startOfPeriod_`, `writtenBytes_` | `append`, `flush`, `rollFile` | Logging's output |
| LogStream, FixedBuffer | 4000 bytes and a position | `operator<<`, `append`, `resetBuffer`, `formatSI`, `formatIEC` | Logging |
| Logging | `g_logLevel`, the cached `t_lastSecond` and `t_time` of each thread, the output functions | the log macros, `~Logger` | everything |
| Date, TimeZone | a Julian day number; transitions | conversions, `readTimeZoneFile` | Logging |
| ReadSmallFile | descriptor, `buf_` | `readToString`, `readToBuffer` | ProcessInfo |
| Thread, CountDownLatch, MutexLock | `tid_`, `started_`, `joined_`; `count_`; `holder_` | `start`, `join`, destructor; `wait`, `countDown` | EventLoopThread, ThreadPool |
| Singleton, ThreadLocal, ThreadLocalSingleton | `ponce_`, `value_`; a pthread key | `instance`, `value`, `destroy` | applications |
| InetAddress, StringPiece | an address in network order; a pointer and a length | conversions, comparisons | Acceptor, TcpServer; logging |

Interaction: threads meet in `pendingFunctors_` of a loop (push under a mutex, then a write to
the eventfd), in the mutexes and conditions of the queues, and in a few unprotected fields
(`state_`, `quit_`, `loop_`, `running_`).  Within a loop thread, handlers run one after the other,
but they call the application back in the middle, and the application calls the library again.

What is hard to test: a call from another thread between two steps of a handler; a functor that is
still queued when its object, its loop or its server goes away; two reasons to close in the
same iteration; reused addresses and descriptors; lost wakeups; limits of buffers, of the descriptor
table and of calendars.  `PROJECT.json` lists these hazards with their source lines and the
properties that would notice.

The properties that make each part correct, in a sentence:

* EventLoop: a queued functor runs once, in order, and a blocked loop never has work without a
  wakeup on its way; `quit()` ends the loop.
* EventLoopThread: the published loop is alive; the destructor ends it and waits for the thread.
* Pollers: what is watched is what the channels ask for, and no kernel call or assert fails.
* Dispatch: a pointer that the loop has still to follow points to a living channel, whatever the
  callbacks before it have closed, removed or created.
* TimerQueue: the two sets agree, timers are neither lost nor resurrected, and the timerfd is armed.
* TcpConnection: bytes leave in order, half-close waits for them, `handleClose` runs once, and the
  destructor finds a disconnected, removed channel.
* TcpServer: each connection is in the map until it is closed, and destroyed in its own loop.
* Both: a connection is established once, closed once, leaves the loop once, and only then dies.
* Acceptor: no connection is lost, leaked or left waiting for ever, even without descriptors.
* Queues: first in first out, bounded, no lost notification.
* Logging: a line shows the second in which it was begun, although the text of the second is cached;
  what was logged before a FATAL line is on disk when the process aborts.
* LogFile: lines are in order, in the right file and flushed in time, but for those that a failing
  disk loses.  LogStream, Date, TimeZone: nothing overrun, conversions are inverse to each other.
* ReadSmallFile: what is delivered is the beginning of the file, or an error is reported.  The reader of
  zone files reports nothing; it delivers no half read local time, and transitions all or not at all.
* Thread, CountDownLatch: the latch opens once and for everybody; the new thread does not touch the
  Thread object when its owner may have destroyed it.  Singletons: one object, one per thread, which
  is destroyed with the thread.
* InetAddress, StringPiece: what goes in comes out; the six comparisons are one order.

## 2 Modules and the code

One step of a model is what a thread does without giving another thread a chance to notice: a
critical section, a handler up to a callback, or a read or write of an unprotected shared field.
`PROJECT.json` ("map") gives the source lines of every definition.

| Module | Models | Abstraction |
|---|---|---|
| `LoopExecutor` | abstract: functors are handed over and run once each, in order | |
| `EventLoop` | EventLoop.cpp | functors are names; a channel is ready or not; eventfd with its limit |
| `EventLoopThread` | EventLoopThread.cpp, Thread::start/join, over `EventLoop` | extends the loop with the life of its thread and owner; a use of the loop that is undefined is an action (`QuitUndefined`), after which the owner is nowhere |
| `TimerQueue` | TimerQueue.cpp, Timer.h | time in ticks; an address may be reused as soon as it is free |
| `TcpConnection` | TcpConnection.cpp, Channel::handleEvent, WeakCallback.h | a message is a fixed number of chunks, a write takes some of them; references are counted as "who holds one" |
| `TcpServer` | TcpServer.cpp, EventLoopThreadPool.cpp | a connection is its state and its loop; functors travel through one queue per loop |
| `Poller` | abstract: the set of events asked for and watched per channel | |
| `EPollPoller`, `PollPoller` | the two pollers with Channel.h | the epoll set of the kernel; the array with moved entries and `-fd-1` |
| `DefaultPoller` | DefaultPoller.cpp | the environment chooses one of the two in Init; both implement `Poller` |
| `Dispatch` | the event part of EventLoop::loop, Channel::handleEvent, and the owners of channels, over `DefaultPoller` | one listening channel, and the connections of a TcpServer without io threads; which descriptors are ready is arbitrary |
| `ConnectionLife` | abstract: none, connecting, up, closed, removed, destroyed | |
| `Acceptor` | Acceptor.cpp, sockets::accept | the kernel hands out the lowest free descriptor |
| `Buffer` | Buffer.h, Buffer.cpp, Endian.h | bytes from a small set; the specification keeps the content beside the array; integers of one or two bytes |
| `FifoQueue` | abstract: first in, first out, bounded | |
| `BlockingQueue` | BlockingQueue.h, BoundedBlockingQueue.h | `maxSize_`, chosen in Init, is 0 for the unbounded class |
| `ThreadPool` | ThreadPool.cpp | a task is a name and may pass another task to `run()` |
| `LogFile` | LogFile.cpp, AppendFile | a line is its number and length; the C library's buffer may be written out at any line, and each time this may fail and lose what was in it; the clock may move between two readings |
| `LogStream`, `LogFormat` | LogStream.cpp/.h | integers of `Width` bits; texts are their lengths; `formatSI`/`formatIEC` yield unit, decimals, digits |
| `Logging` | Logging.cpp/.h | a line is the second it shows and its level; each thread composes lines, one inside the other |
| `Date`, `TimeZone` | Date.cpp, TimeZone.cpp | a reference calendar that counts days; time in fractions of an hour |
| `TimeZoneFile` | readTimeZoneFile | a file is the counts of its header, the indexes in it, which may be too large, and how many of its items are there |
| `ReadSmallFile` | ReadSmallFile of FileUtil.cpp | a byte is its position; the file may grow between two reads, reads may be short or fail |
| `CountDownLatch` | CountDownLatch.cpp, MutexLock, Condition::wait | `holder_` is kept with its two guards; wakeups may be spurious |
| `Thread` | Thread.cpp, over `CountDownLatch` | one owner and one child; the object dies when the owner destroys it |
| `Singleton` | Singleton.h, ThreadLocal.h, ThreadLocalSingleton.h | pthread_once, atexit and key destructors as POSIX describes them: `Rounds` times through the keys at most |
| `InetAddress`, `StringPiece` | InetAddress.cpp, StringPiece.h | ports of two digits of `Radix`; texts over three characters, one of them above 127 |
| `EventLoopProofs`, `BlockingQueueProofs`, `PollerProofs`, `ThreadPoolProofs`, `ComponentProofs`, `TimerQueueProofs`, `TcpConnectionProofs`, `TcpServerProofs` | theorems, see section 6 | |

State keeps the names of the members (`pendingFunctors_`, `state_`, ...), actions those of the
functions.  Where a function is several steps its actions are named after them: `AppendLine` is
`append` with `append_unlocked`, but `UserTests`, `UserSets`, `UserQueues` are the three steps in
which another thread executes `shutdown()`.  Variables marked *history* do not influence the rest.
Operators whose comment begins with "mutant of" are deliberately wrong variants of
the definition after them; nothing else refers to them.  Substituting one for the original must
make TLC report the property that `PROJECT.json` ("mutants") names.

Most runs check the module of the component with a `.cfg` of its own.  An MC module exists where a
constant needs a definition: `MCTcpConnection` lists the seven kinds of programs around a connection
(`InLoop`, `Dropped`, `FromUser`, `Paused`, `UserCloses`, `ServerGone`, `PausedReset`), `MCThreadPool`
says which task calls `run()`, `MCBlockingQueue` declares the symmetry of the threads.  `Base` joins
fourteen modules that have nothing to do with each other: a behaviour is one of the module that
`part` names, whose variables are `v1`, `v2`, ... there; the properties of `Base` are conjunctions
of those of the parts, as its comments list them.  `MCBase` gives `Base` its values.

Asserts of the code are modelled by a variable that collects the failed ones, or by an invariant.
In `EventLoop` and `TcpConnection` the interplay between the loop and the rest is kept in full
(the swap of the functors, wakeups, flags); `TcpServer` needs of a loop only its order of work.
`Dispatch` has the pointers and the descriptors that `TcpConnection` and `TcpServer` leave out: there one connection may close another while the
loop is on its way to it.  Its application either closes with `forceClose()` or pauses with
`stopRead()` (`mayStopRead`), because both together break a promise (section 7).

Some parameters say how the code is used, and are chosen in Init so that one run covers all of them:
`Usages` in `TcpConnection` (what the callbacks call, what a second thread calls, which outside
events occur), `ThreadNums` and `DestroyedWith` in `TcpServer` (with how many io threads the server
may be destroyed while connections are up), `Sizes` in `BlockingQueue`, and whether standard
input is open and other threads race for descriptors in `Acceptor`.  Each of the `Usages` of
`EventLoopThread` is a set of things that the application may do there; the number of threads of a
`ThreadPool` is any number up to that of `Workers`, 0 included.  The usages of the passing runs are those in which
the classes keep their promises; section 7 lists the others.

## 3 Runs

| Run | Question | Properties |
|---|---|---|
| event_loop | two callers and the loop in every interleaving, without help from the 10 s timeout | `NoLostWakeup`, refinement `ExecutorSpec`, `FunctorsRun`, `QuitEndsLoop` |
| loop_thread | hand-over and destruction, with an init callback, without or with a functor that stops the loop while the destructor is at work | `PublishedLoopAlive`, `StartLoopReturns`, `DestructorReturns` |
| timer_queue | add and cancel from callbacks and another thread; the wall clock is set once | `InStep`, `Armed`, `NoTimerLost`, `CancelledNotQueued`, `DueTimersRun` |
| connection | seven programs: callbacks that close in every way or pause reading under a reset, a second thread that sends, shuts down, pauses or closes, a peer that closes, a server that goes away | `AssertionsHold`, refinement `LifeSpec`, `WireInOrder`, `ShutdownAfterOutput`, `ClosingCloses`, `ClosedIsDestroyed` |
| server | connections over several io loops or none, and the destructor | `AssertionsHold`, `MapInStep`, refinement `LifeSpec`, `ClosedIsDestroyed` |
| dispatch | the loop over the active channels, on either poller, while callbacks enable, disable, close and create channels and the server is destroyed | `ActiveAlive`, `IndexInStep`, `NoFailure`, refinement `PollerSpec` |
| acceptor | the descriptor table fills up; other threads take descriptors | `OwnDescriptors`, `AcceptedIsReported`, `BacklogServed` |
| thread_pool | bounded pool of no, one or two threads, nested `run()`, `stop()` at any time | `NoLostNotification`, `OnceInOrder`, `AcceptedTasksRun`, `StopReturns` |
| blocking_queue | late takers, `drain`, spurious wakeups | `NoLostNotification`, refinement `FifoSpec` |
| base | the fourteen parts of `Base`, each on all small sequences of calls | `BufferContent`, `FilesTruthful`, `IntegersExact`, `ConversionsExact`, `ThreadsInStep` |

All of these pass.  Several properties are conjunctions of named parts, which the modules define
just before them: `InStep` contains the types, `SetsAgree` and `OwnedOnce`; the `AssertionsHold` of a
connection contains the types and `SetInTime` (section 6); `ShutdownAfterOutput` contains
`WritingIffBuffered`; `MapInStep` contains `MapHoldsOpen` and `SpreadEvenly`; `OwnDescriptors` contains
`SpareKept` and `DestroyedClosesAll`; `NoLostNotification` is `NoLostTask` (`NoLostItem` in the blocking
queues) and `NoLostPlace`; `OnceInOrder` contains `QueueBounded` and `StoppedMeansOver`.  Two more runs,
loop_thread_early and server_shutdown, end in a counterexample (section 7).

Deadlock checking is off where the system may rightly stop: a destroyed object, a stopped pool, or a
bounded model whose inputs are used up.

Things the passing runs say that are not obvious from the code:

* A functor is never forgotten in a blocked loop, but only because of the second condition of
  `queueInLoop` (`callingPendingFunctors_`); without it TLC finds the functor queued by a functor.
* A cancelled timer whose address is reused is safe only because of the sequence number.
* `ThreadPool::stop()` returns even if all workers wait in `run()` on the full queue, because it also
  notifies `notFull_`.  Until then they do wait for each other, which the library does not prevent:
  `AcceptedTasksRun` promises that a task in the queue is run unless this happens (`WorkersAllInRun`; in the
  run it does, with one thread and a task that calls `run()`) or the pool is stopped.
* A plain pointer in `activeChannels_` stays good although a callback may close any connection,
  because the removal of a channel is always a functor and functors run after the events; and a new
  connection that gets the descriptor of a closed one does so only after that removal.
* `formatSI` and `formatIEC` print three digits exactly at all limits.
* `fromLocalTime` undoes `toLocalTime` as long as summer time is one hour ahead.  For other
  differences (half an hour) the constant 3600 in `fromLocalTime` is wrong, so such zones are excluded.

## 4 Bounds

Bounds are constants in the `.cfg` files.

* EventLoop: two functors (one in the batch, one queued meanwhile), two other threads, one channel,
  and an eventfd that can count to 1 only, so that a failing write happens.
* EventLoopThread: one owner and the thread; that is all the class has.  Both kinds of programs are run,
  those in which only the destructor ends the loop and those in which a functor may.
* TimerQueue: two addresses and two timers, so that an address is reused while an old
  TimerId exists; two ticks with delays 0 and 1, so that timers are due at once, together, and later.
* TcpConnection: one or two messages of two chunks (partial writes), the high-water mark inside their
  range, up to three further calls of the application.  Two messages are enough for reordering.
* TcpServer: three connections over two io loops or none: the round robin wraps, and the queues of
  three loops may hold functors of different connections at the same time.
* Dispatch: three descriptors, of which one is listening, so that removal moves an entry into a gap with
  a third beside it, and one connection may close the other; descriptor 0 for `-fd-1`; an event
  list that begins with 1 entry (16 in the code) and grows to 4.
* Acceptor: two peers and four descriptors, of which one or two remain for connections.
* Queues: two putters and three takers, sizes 0 (no limit), 1 and 2.  ThreadPool: two producers, up to two
  workers, four tasks, of which one calls `run()` itself, and a queue of two: one worker and a
  producer that fills the queue are enough for all workers to wait in `run()`.
* Buffer: `kCheapPrepend` and `kInitialSize` 2 (8 and 1024 in the code), a second block of 2 for
  `readFd` (65536), content up to 3 bytes, integers of 1 and 2 bytes: each of room at the front, room
  at the end, growth and the second block is exceeded by operations of up to 3 bytes.
* LogFile: files of 3 bytes, three lines of 1 or 2, a look at the clock every 2 lines, periods of 4
  seconds of which two occur; the clock is set back once.
* Logging: two threads, two seconds, three lines, a line inside a line.
* ReadSmallFile: a buffer of 2 bytes (64 KB) and files of up to 4: a read that fills the buffer, one that
  does not, one that ends a file whose size was wrong.
* LogStream: 7-bit integers, `SIZE` 20 and `kMaxNumericSize` 14; `SizeAssumption` is the static_assert.
* LogFormat: all values around the limits of the first two units; TLC's integers have 32 bits.
* Date: 1896 to 2105, with two centuries that are no leap years and one that is; seconds since 1970
  within 24000 days of it (32 bits).
* TimeZone: zones west and east of Greenwich with up to four transitions; an hour is four units.
  TimeZoneFile: `timecnt` from -1 to 2, up to two local times, indexes from 0 to 2 whatever the counts, every
  length of the file, and two numbers (`Garbage`) that may lie behind the vector.
* StringPiece: texts of up to three characters, a prefix and a difference after it fit.  InetAddress:
  three addresses and a radix of 2, enough to tell the two byte orders apart.
* CountDownLatch: two waiters and three that count down from 2, so that `wait()` also meets a count below 0.
  Singleton: two threads, two rounds through the keys (`PTHREAD_DESTRUCTOR_ITERATIONS` is at least 4), and
  destructors that make an object anew at most 2 times: enough for one to be leaked.

## 5 Fairness

* EventLoop: weak fairness of the loop thread and of a call that has still to write the eventfd: the
  scheduler runs both, and epoll_wait returns when a descriptor is ready.  There is no fairness for
  the timeout of poll, for calls or for events.
* EventLoopThread: weak fairness for both threads, which are never blocked except where the model
  says so (latch, condition, join).
* TimerQueue: the clock goes on, the loop runs, a call in another thread finishes.
* TcpConnection: the loop, the base loop and a call in progress go on; the timer expires.  The peer
  is assumed to read (strong fairness of a `handleWrite` that writes something: the socket becomes
  writable again and again) and to close after our FIN; without this `shutdown()` promises nothing.
* TcpServer: each loop and the destructor go on.
* Acceptor: the loop handles the level-triggered read event.
* Dispatch, the blocking queues and the base library have safety properties only, and no fairness.
* ThreadPool: a thread that does not wait gets the mutex.  There is no fairness for spurious wakeups.

## 6 Proofs

The theorems hold for all values of the constants that satisfy the named assumptions.

`EventLoopProofs` (`ChannelAssumption`: the wakeup channel is none of the others;
`EventfdAssumption`: the eventfd can count to 1) proves type correctness (`EventLoopTypeOK`),
`EventLoopNoLostWakeup` (from `EventLoopNoLostFunctor` and `EventLoopNoLostQuit`),
`EventLoopPhasesDisjoint` and `EventLoopRefinesExecutor`, for any number of threads, functors and
channels.  `NoLostFunctor` is not inductive: whether a functor needs a wakeup
depends on flags that the loop sets on its way to poll.  The inductive invariant `IInv` of `EventLoop` adds
`FlagsFollowPc` (the three flags as functions of the place of the loop thread) and `FunctorSignal`
(a functor that is queued once the loop thread has left its swap has a wakeup in the eventfd or
a caller that is about to write it), together with the types, the phases and `NoLostQuit`.
`NextIInv` has one step per action.  The refinement maps the executor's queue to the
unfinished part of the batch followed by `pendingFunctors_`: the swap is a stutter, and
`ConcatAppend` and `ConcatHeadTail` are the facts about sequences that make it so.
The same module proves `EventLoopThreadRefinesLoop`: the loop that an `EventLoopThread` runs is an
`EventLoop`, so that what is proved of one holds of the other, and
`EventLoopThreadPublishedLoopAlive`: `loop_` is null whenever the loop is not there; if no functor stops
the loop, the destructor's `quit()` begins on a published loop; and a `quit()` that misses
the loop does so after `loop()` has returned.  It does not say that the owner never reaches a loop that is
gone: the code does not prevent it (section 7).  The invariant
`HandOver` says what `loop_`, the life of the loop, the latch and the mutex are at each
place of the thread, and how far the thread is once the owner knows of its loop, and `LoopEndsByQuit` whose
`quit()` has ended the loop (`OwnerAssumption`: the owner is one of the threads that may call the loop).

`BlockingQueueProofs` (`SizeAssumption`, `ThreadAssumption`, `FiniteAssumption`: finitely many
threads, no thread is on two sides) proves
`BlockingQueueTypeOK`, `BlockingQueueBounded`, `BlockingQueueRefinesFifo` and
`BlockingQueueNoLostNotification`.  The refinement needs `Bounded`, because
`isFull` compares with `=`: a queue past its limit would not be full.  `NoLostItem` and `NoLostPlace`
are inductive relative to the types; the work is in counting the woken threads
(`OneMoreWoken`, `AtMostOneLess`, `NotifyCounts`).

`PollerProofs` (any finite set of descriptors) proves `PollerIndexInStep`, `PollerNoFailure` and
`PollersImplementPoller`, with one invariant per poller.  What is checked of `EPollPoller` is inductive as
it stands.  `PollInv` of `PollPoller` adds that `pollfds_` and the map name each other: the entry at
`index_` is the channel's, and there are as many entries as channels.  The hard case is
`removeChannel`, where the last entry moves into the gap and its channel must be told, also when the entry
is an ignored one.  The refinement is then that what is watched is what was asked for.
About `Dispatch` the module proves that the loop, its handlers and callbacks make only the calls that
the pollers' specification allows (`DispatchUsesPollers`), so that `DispatchIndexInStep`,
`DispatchNoFailure` and `DispatchImplementsPoller` are consequences, and
`DispatchActiveAlive`: no pointer that the loop has still to follow is to a channel
that is gone.  `DInv` says where the loop is (`LoopInv`), which of the active channels it has still to
handle and that these are up (`HandleInv`), how the owners, the poller's map and the events agree
(`OwnerInv`), and that a connection that was closed has its `connectDestroyed` queued once
(`QueueInv`): the destruction that waits for the functors is what keeps the active channels alive.

`ThreadPoolProofs` proves `ThreadPoolTypeOK`, `ThreadPoolBounded`, `ThreadPoolStopped` and
`ThreadPoolNoLostNotification` and `ThreadPoolOnceInOrder`.  `TypeInv` adds to the types who has a task (`TaskInv`) and where the owner
is in `start()` and `stop()` (`OwnerInv`).  `Found` counts the threads at a place of the code, so that a
notification becomes one thread more that is woken and one less that waits.  For the order,
`HistoryInv` says that the queue is the end of what `run()` has accepted, `WhereInv` that
a task is in one place at a time (a caller of `run()`, the queue, a worker, run or refused), and
`ChildInv` that a task which another one passes to `run()` is not there before that one runs
(`ChildAssumption`: a task is passed on by one other task at most, and by no producer).

`ComponentProofs` has the components that stand on their own.
It proves `LatchHolderInStep` and `LatchOpensOnce` of the latch, and
`ThreadObjectOutlived` of a thread.  What is checked of the latch is inductive (`LatchInv`), for any initial
count and any number of calls of `countDown()`, more than the count included.  For the thread,
`CountInv` says that the owner gets past `wait()` only after the child has left the critical section of
`countDown()`, and `OwnerInv` where the two are in `start()`, `join()` and `runInThread`.  What the modules assume of
the sets of threads is a premise of the theorems (`LatchConstants`, `LatchAssumption`).

Of `Buffer` it proves `BufferContentKept` (the asserts and the content) and `BufferLineEndsFound`, for any
sizes (`BufferConstants`).  The run base starts with a vector of four bytes; the proof is about
`Holds(b, c)`: a buffer `b` holds the queue of bytes `c` if `c` is what the
indexes delimit and no assert has failed.  Each operation has a lemma that says what it makes of `c`;
`MakeSpaceKeeps` is where the assert `kCheapPrepend < readerIndex_` follows from the test for
growing, `ReadFdKeeps` where two blocks become one piece.  `BufferTypes` is the same for the elements:
every operation leaves bytes in the vector, also where it was resized, and `append` of an integer
because the digits of a number in any radix are bytes (`NetworkOrder`, `BigEndianBytes`).
`PowerAssumption` says that the powers of the radix are positive integers: a fact of arithmetic that the prover
does not know, and TLC evaluates it.

Of `Acceptor` it proves `AcceptorOwnDescriptors` and `AcceptorAcceptedIsReported`, for any peers and any limit
with room for the descriptors that the constructor opens (`AcceptorConstants`).  `SpareInv` says which
descriptor `idleFd_` stands for at each place of `handleRead`, and that without other threads
there is a free one for `accept` and `open` after `close`; `BacklogInv` that a peer waits once and
not after it was reported.  The kernel's lowest free descriptor exists by
`Least`, the least-number principle for sets.

Of `Singleton` it proves `SingletonOneObject` and `SingletonOnePerThread` for any threads and number of rounds; `SingletonConstants`
keeps their names apart from the values "new" and "done" of `ponce_`, and there is at least one round.
`OnceInv` says that the one thread which pthread_once has let in is the one in `init()`, and that nobody
has got past it before; `LocalInv` that `t_value_` and the key of a thread both say whether it has an
object; `EndingInv` that each round behind the first began for an object that a destructor had made anew in the
round before, so that what is left behind the last round has cost as many as there are rounds.  Of `ReadSmallFile` it proves `ReadContentIsBeginning` and `ReadBufferTerminated`, for any sizes, with
what the result and `buf_` are at each place of the code (`ReadInv`).

Of `Logging` it proves `LoggingTimesTruthful` and `LoggingFatalSurvives`, for any threads.
`TimesInv` says that `t_time` is the text of the second `t_lastSecond` but between the two assignments, also
when one line is begun inside another, and that a line that has its text has the one of its own second;
`FatalInv` that a FATAL line is in the output before the flush and on disk before the abort.

Of `LogFile` it proves `LogFileLinesInOrder` and `LogFileRollsAndFlushes`, for any sizes, intervals and lengths,
under the module's `SizeAssumption`, wherever a write, a flush or a close fails.  `FilesHold(fs, n, cut)` says that
the files `fs` hold the lines up to `n` but for those in `cut`, which failed writes have cut short or lost with
the buffer, in order, with names that ascend and nothing of any but the last in a buffer;
`LineWritten`, `LineCut`, `FileWrittenOut` and `FileBegun` say what each thing that `append` does to the files
makes of it.  `FilesReady` adds to it what ties the last file to the clock: its name is `lastRoll_`, and, unless
the clock was set back, its unflushed lines are no older than `lastFlush_`, nor too old
for the last look at the clock.  For the periods, `ClockInv` says that no more lines of a later
period are in the file than were counted since that look: this is why `PeriodKept` has the bound
`checkEveryN_`, although `count_` goes on when the file is rolled for its length.
The bounds `MaxLines` and `MaxNow` are any numbers.

Of `TimeZoneFile` it proves `ZoneFileNothingHalfRead`: whatever counts and indexes the file has, and wherever it
ends, no local time in `Data` is half read, and either all transitions are delivered, behind all local times, or
none; a transition has the offset of its own local time unless its index points behind those that the
file announces.  What is left of a cut file may well be some local times without transitions, or all but the
abbreviations, in a zone that is `valid()` (section 7).  `ZoneFileInv` says how far each vector is at each place of the code.

Of `InetAddress` it proves `AddressesIdentified`, for any radix and set of addresses: the port survives
`htons` and `ntohs`, and different addresses have different texts.  Of `StringPiece` it proves `PiecesOrdered`, for
any characters and lengths: `==`, `<`, `compare` and `starts_with` mean the lexicographical order of the
unsigned characters.  `MemcmpFinds` gives the first difference, and `OrderOfDifferent` and
`OrderOfAlike` say what follows with and without one.

Of `TimeZone` it proves `ZonesConvert`, for zones that change between standard and summer time any number of
times, more than two hours apart (`Spacing`).  `ZoneKept` says what the transitions are; `LastNotAfter` that
`lower_bound` with the steps of `findLocaltime` after it comes to the last transition that is not after the time.
A time of the clock lies in the interval of its time or in the one that follows, and that is exactly when
`fromLocalTime` must take off the hour (`RoundTripHolds`).

Of `Date` it proves `DatesCounted`, for any first year and any number of days.  The formulas count years that begin
in March: `DaysBefore` are the days before a month and `Years` those before a year.  `NextDayCounted` shows
that the number of the next day is one more, at the end of a month, of a February and of a century;
`CenturiesOf`, `YearsOf` and `MonthsOf` that each division of `getYearMonthDay` finds the part it is meant for,
so that the two are inverse (`DayFound`).  `TimeSplit` is the same for the seconds of a day, before 1970 too.

About `Base` it proves `BaseBufferContent`, `BaseFilesTruthful`, `BaseConversionsExact` and `BaseThreadsInStep`:
a behaviour of `Base` begins as one of its part and goes on as one (`PartBegins`, `PartGoesOn`), so that what
holds of the parts holds of it.  The premises of the theorems above are the parts of `BaseAssumption`.

`TimerQueueProofs` proves `TimerQueueInStep`, `TimerQueueNoTimerLost`, `TimerQueueCancelledNotQueued` and
`TimerQueueArmed`, for any addresses, delays and number of timers.  `IInv` is the conjunction of
`HeapInv` (no two Timer objects have the same sequence), `LoopInv` (what the loop thread has in hand,
with the functors on their way), `SetsInv` (the two sets and the objects agree), `OwnersInv` (each object
is in the sets, in the batch or in a functor, and in one of them only), `CancelInv` (of a batch, exactly the
cancelled timers are in `cancelingTimers_`) and `Armed`.  `getExpired` lists a set in the order of
expiration and address; that the list exists is proved with a bijection that ranks the entries.

`TcpConnectionProofs` proves `TcpConnectionWireInOrder` and `TcpConnectionShutdownAfterOutput`, for any
programs, and for those that `Careful` describes `TcpConnectionAssertionsHold`,
`TcpConnectionCarefulShutdown` and `TcpConnectionLifeSpec`.
`DataInv` is about the bytes: sent, buffered and still in functors are, in this order, what was handed
to `send()`.  `FrontInv` says that `connectEstablished` is the first functor, so that nothing is sent before.
`ShutdownAfterOutput` has the premise `[]SetInTime`: no `shutdown()` of another thread sets
kDisconnecting after the connection was closed, which the code does not prevent
(section 7).

`Careful` says what the usages of the run connection have in common (TLC evaluates it on each of
them): the program does none of the things that section 7 lists about connections, such
as `send()` from a thread that drops its pointer, or `stopRead()` together with `forceClose()`.  Its
clauses are the hypotheses that the proof needed, nothing more.  `UsageInv` says that every functor, timer
and call in progress comes from a call that the program makes, and that whoever calls holds the
connection.  `LifeInv` is about the object: what the step at hand has still to do (`TodoInv`), when the channel is
in the loop and which events it has (`ObjectInv`), how far the server has let go
(`ServerInv`), that a peaceful program stays open (`CalmInv`), and that another
thread which has tested `state_` still finds it so (`SetInv`).  Every assert, and every use of
a plain `this`, follows from these; `SetInTime` is one of them, which gives
`TcpConnectionCarefulShutdown` without a premise.  The refinement of `ConnectionLife` reads the stage
of the life off `state_`, `addedToLoop_` and the references.

`TcpServerProofs` (`ConnsAssumption`, `ThreadAssumption`) proves `TcpServerMapInStep`,
`TcpServerAssertionsHold`, `TcpServerLifeSpec` and `TcpServerDestroyedClean`, for any number of connections and io threads.  The queue of a loop is
its batch followed by `pendingFunctors_`.  `Flow` says which functor of each connection is on its way, in
the queue of which loop, and what the connection is meanwhile; `BatchInv` and `PlacesInv` say where
the loops and the destructor are.  `KnownInv`, `NamesInv` and `DealtInv` give the map, the
different names, and the even spreading by the round robin.
For the life of a connection, `HoldInv` says that only a batch that runs holds connections besides the map
and the queues, and `Leaving` that a closed connection which is still in its loop has its removal
or its `connectDestroyed` on the way, so that the last pointer goes only after it.
All but `TcpServerMapInStep` assume that a server with io threads is destroyed only when
no connection is left (`DestroyedWith \subseteq {0}`); the run server_shutdown shows what happens otherwise.

Only model-checked are

* all liveness properties (fairness and ENABLED are outside of what the prover handles);
* `IntegersExact`: it is about powers of a radix and about what folds and recursive functions
  compute (the digits of an integer in a Buffer and in a LogStream, the units of `formatSI`), for which the
  prover has neither arithmetic nor induction over data;
* `SetInTime` for programs that are not careful: it is false for them.

## 7 Where the code and its own words disagree

Two of the disagreements are runs that end with a counterexample; `PROJECT.json` ("findings") quotes
the line of the repository that says otherwise.

| Run | What happens |
|---|---|
| loop_thread_early | `loop()` resets `quit_`, so a destructor that comes before `loop()` waits for ever in `join()` |
| server_shutdown | `~TcpServer` queues `connectDestroyed` in an io loop that stops before running it, and the connection is destroyed in kConnected |

The modelling met the following as well.  They are usages that the passing runs exclude (by the
parameters of section 2 or by the words of a property) and that a user of the library has to avoid:

* A functor that the loop thread queues before `loop()` wakes nobody (EventLoop.cpp:161; EventLoop.h:51
  says that queueInLoop wakes the thread); `NoLostWakeup` exempts it.
* `~EventLoopThread` reads `loop_` without the mutex (EventLoopThread.cpp:28) and uses it in the next line.
  If the thread has just cleared it, the members are destroyed while the thread still holds the mutex.  If a
  functor ends the loop by itself, the loop may be cleared and destroyed between the test and `quit()`,
  and even without one the thread may leave `loop()` and destroy the loop between the store to `quit_` and the
  write to the eventfd that `quit()` makes after it (EventLoop.cpp:135-138).  Both are undefined behaviour;
  the run loop_thread reaches them (`QuitUndefined`), and `DestructorReturns` promises the return of the
  destructor only where they do not occur.
* If the init callback queues a functor that quits the loop, the loop may be over before `startLoop`
  has seen `loop_`, and `startLoop` waits for ever.
* `cancel` in the loop thread overtakes the queued `addTimerInLoop` of a timer that another thread is
  adding: the cancel is forgotten (TimerQueue.cpp:124-157).
* `addTimer` in another thread reads the Timer after the loop may have deleted it (TimerQueue.cpp:119).
* `shutdown()` in another thread tests `state_` and sets it later (TcpConnection.cpp:192-194) and may
  overwrite kDisconnected; the comment above it asks for a compare and swap.
* After `stopRead()` the channel is out of the epoll set; the `disableAll()` of `handleClose` adds it
  again without events, a hangup is reported, and `handleClose` runs twice.
  The same happens with `stopRead()` and later `forceClose()` (`mayStopRead` of `Dispatch`).
* `startRead()` and `stopRead()` do not test `state_` (TcpConnection.cpp:268-291): after the close they
  put the channel back into the poller, and `handleClose` runs twice.
* A connection in kDisconnecting whose server is destroyed has its channel removed with events enabled
  (TcpConnection.cpp:307).
* `send()` in another thread binds a plain `this`, which the functor may outlive (TcpConnection.cpp:104).
* A server without io threads that is destroyed inside a callback removes the channels of its other
  connections at once.  If one of them is active, the assert of EventLoop.cpp:208 fails.
* `Logger::setTimeZone` in the middle of a second leaves the cached text of the old zone until the next
  second (Logging.cpp:127); a clock at second 0 meets the initial value of `t_lastSecond`.
* A line that fills the 4000 bytes of its LogStream loses its end, with the `'\n'`.
* The failures of `fflush` and `fclose` are not looked at (FileUtil.cpp:30, 57), and a failing `fwrite` gives up
  its own line only (FileUtil.cpp:41-48), while the buffer of 64 KB with the lines before it is lost as
  well: on a full disk `LogFile` loses lines that it has long accepted, and says so at most once.
* `instance()` of a Singleton fails its assert after exit() has deleted the object; destructors of keyed
  objects that make each other again in every round leak: an object is left of a thread that is over when
  they have made as many anew as pthread has rounds (`OnePerThread`).
* Tasks that call `run()` of their own pool may occupy all its threads while the queue is full; then they
  wait for each other until `stop()` (ThreadPool.cpp:84).
* A file that shrinks while `readToString` reads it is not noticed.
* `readTimeZoneFile` returns true for a file that could not be read (TimeZone.cpp:222), so such a
  TimeZone is `valid()`, and `findLocaltime` takes `front()` of an empty vector.  A file that is cut
  short leaves the local times read so far in such a zone, without transitions, or everything but
  the abbreviations.
* Neither the counts nor the indexes of a zone file are checked (TimeZone.cpp:168-205).  An index that is too
  large reads behind the vector of local times: the model has any number there, the build may also crash.
  A negative `timecnt` is a length_error, which is a logic_error and caught; a huge one is a bad_alloc, which
  is not, and a negative or huge `charcnt` an array on the stack of that size (TimeZone.cpp:126).  The last
  two end the process or worse and are not in the model.
* A channel that is disabled before it was ever enabled fails the assert of
  `PollPoller::removeChannel` (the destructor of an Acceptor that did not listen).
* With descriptor 0 free `accept` may return 0, which `handleRead` takes for an error (Acceptor.cpp:56).

## 8 What is not modelled

* Timestamp (a number), Atomic (compiler builtins), Types, copyable, Exception and ProcessInfo (reads
  of /proc, stack traces): no state that several steps could disturb.
* The wording and layout of log lines, `Fmt`, the `operator<<` that only forward a text.
* Socket options and the other wrappers of system calls.  `accept` and `close` are in
  `Acceptor`; results of `read` and `write` are nondeterministic in `TcpConnection` and `Buffer`.
* `getLoopForHash`, `getAllLoops` and Condition's `waitForSeconds`, which nothing calls.
* Failures that end the process (LOG_FATAL of a failed system call, an exception in a task, a failed
  `fopen`); what a FATAL line leaves on disk is in `Logging`.
* `errno` between `accept` and its test in `Acceptor::handleRead`, which the log call could change.
* Asynchronous logging, which the repository's README names, has no code in the repository.
* The echo example: its calls are among those of the application in `TcpConnection`.

## 9 Plan

The order of the work, the most important behaviour first: (a) the event loop, its abstract executor and
their proofs; (b) the thread around it and the timers; (c) connection and server; (d) pollers, dispatch,
acceptor, buffer; (e) the base library; (f) proofs of (b) to (e).  All of these are there.  What is left:

1. `TcpServer` composed with `Acceptor` and with the full connection, where they meet now in the
   abstract `ConnectionLife` only.
2. `IntegersExact`, when the prover has induction over data.
3. `TcpServerLifeSpec` for a server with io threads that is destroyed after its loops have run what was
   queued, which needs an order of the destructor that the code does not have.
