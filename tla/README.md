# codechiev: TLA+ specifications, model checking and proofs

codechiev is a C++ framework of POSIX threads, epoll-driven TCP, timers and a
PostgreSQL connection pool. This directory models its concurrent parts. Each
module translates the code it names; TLC checks small instances, and TLAPS
proves the safety properties for every value of the constants.

    tlc -config TcpEndpoint.cfg TcpEndpoint.tla      # one of the runs below
    tlapm TcpEndpointProofs.tla                      # one of the proof modules

## The system

| Part | State | Operations | Talks to |
|---|---|---|---|
| `BlockingQueue<N>` (base) | `queue_`, `running_`, `threads_`, a mutex, a condition | `addJob`, `takeJob`, `runInThread`, `commence`, `stop`, destructor | any thread adds jobs; jobs may stop the queue or throw |
| `Condition`, `Mutex` (base) | threads blocked | `wait`, `notify`, `notifyall` | the queue and the latch |
| `CountLatch` (base) | `count_` | `latch`, `reduce` | threads that wait for others |
| `FixedBuffer` (base) | `buffer_`, `reader_`, `writer_` | `append`, `read`, `readall`, `move`, `str` | each channel has two |
| `TimerQueue` (net) | tasks by deadline, one timerfd | `addTask`, `expire` | callers of any thread; tasks run in the scheduler's or the caller's thread |
| `Timer`, `Scheduler` (net) | timerfds and callbacks, `timers_`, what epoll watches | `after`, `every`, `addTimer`, `setTimer`, `removeTimer`, `pollEvent` | a thread of its own calls callbacks, which call the operations again |
| `TcpEndpoint`, `Channel`, `EPoll`, `EventLoop` (net) | two buffers, `event_`, the watched events, `errno` | `onRead`, `onWrite`, `onClose`, `write`, `send`, `poll` | the loop thread, sender threads, the kernel |
| `TcpServer` (net) | `channels_` by descriptor | `listen`, `onConnect`, `onClose`, `getChannel` | loop thread and job threads |
| `TcpLengthCoder`, RPC, `ProtoServer` (net/protobuf) | none beyond the buffers | `decode`, `AppendInt32`, `CallMethod`, `Callback`, `onMessage` | runs requests on a `BlockingQueue`, answers by `send` |
| `HttpServer` (net/http) | none beyond the buffers | `onMessage` | the loop thread |
| `TcpClient` (net) | `connected_` | `connect`, `onConnect`, `pollEvent` | the loop thread and writers |
| `DBManager`, `PSql` (db) | `dbs_`, `inUse_`, libpq sessions | `init`, `close`, `getDB`, `returnDB`, `query`, `select`, `queryById`, `selectById` | any thread |
| ORM macros (db) | a `PSql::Result` per call | `selectById`, `insert`, `update`, `DeleteById` | the operations of `PSql` |
| `Singleton`, `ThreadSingleton` (base) | `once_`, `t_`, a thread-specific key | `get`, `destructor` | jobs of any thread; `exit()` |
| `Thread` (base) | a pthread | `start`, `run`, `join`, `cancel` | the queue and the scheduler |
| `Logger`, `Time`, `Random`, openssl | | | helpers |

What is hard to get right here: signals sent with nobody blocked; state tested
with a mutex and written without it (`running_`, `tasks_`, `event_`); errno
read after a call that succeeded; an operation that fails between borrowing and
returning; buffers that fill up; descriptors that are reused; and messages put
together from two appends. `PROJECT.json` lists these under "hazards", each at
its line, with the properties that would show it.

What makes each part correct:

- the queue: a job is run once, in order, only while the queue runs; no job
  waits while every worker sleeps; `stop()` reaches every worker;
- the latch: it opens at zero, not before, and then holds nobody back;
- the timer queue: a task is called once, not early, and at all;
- the scheduler: it reaches no Timer that is gone; a timer that was set calls
  back; a thread that was cancelled can be joined;
- the pool: a connection has one user; what is not returned was lost by a
  failure; nothing of one operation is seen by the next; a result is read and
  cleared by the thread whose operation left it;
- singletons: one object, used only while it lives, and thread-specific ones
  that go with their threads;
- the connection: what was accepted is sent in order, once; what arrives is
  handed on; the events watched are those somebody waits for;
- the connection table: it says of each descriptor what the kernel says; plain
  pointers and `channel_ptr`s are to Channels that exist; an answer goes to the
  connection that asked; a connection that ended is freed;
- the RPC stream: messages are taken out as they were put in, and all of them;
- client and HTTP server: a request that was sent is taken, whole; nothing is
  written to what is not connected; a request that cannot be taken ends it.

## Modules

| Module | Models | Proofs |
|---|---|---|
| `Condition` | the condition variable, as operators on the set of blocked threads | |
| `JobQueue` | abstract: what the queue promises | |
| `BlockingQueue` | `base/BlockingQueue.hpp`; implements `JobQueue` | `PoolProgramProofs` |
| `MessageStream` | abstract: what the two ends of a connection promise | |
| `CountLatch` | `CountLatch` of `base/Condition.cpp` | `PoolProgramProofs` |
| `PoolProgram` | a program over the base library: `main()`, `BlockingQueue` (extended), `CountLatch` (instantiated), `base/Singleton.h`, and `exit()` | `PoolProgramProofs` |
| `TimerQueue` | `net/Timer.cpp`: `TimerQueue`'s `addTask`, `expire`, the polling of its timer | `TimerProofs` |
| `Scheduler` | `net/Timer.cpp`: `Timer` and `Scheduler` with several timers, on a `base::Thread` | `TimerProofs` |
| `ConnectionPool` | abstract: what a pool of connections promises | |
| `DBManager` | `db/SqlManager.h` and the operations of `db/Psql.cpp`; implements `ConnectionPool` | `DBManagerProofs` |
| `SqlClient` | the callers of those operations and their `PSql::Result`: `Psql.h`, `orm-psql.h`; extends `DBManager` | `DBManagerProofs` |
| `MCSqlClient` | `SqlClient` with the symmetry of threads and of addresses | |
| `FixedBuffer` | `base/FixedBuffer.h`, as operators on records | `FixedBufferProofs` |
| `TcpEndpoint` | one connection: `TcpServer.cpp` 30-138 and 196-226, `EPoll.cpp`, `EventLoop.h`, `Channel.cpp`; uses `FixedBuffer` | `TcpEndpointProofs` |
| `ConnectionTable` | many connections: `TcpServer.cpp` 228-272, `onData` and `onMessage` of `protoServer.cpp`, `Callback` of `Rpc.cpp`, descriptors that are used again | `ConnectionTableProofs` |
| `LengthCoder` | `net/TcpLengthCoder.h`, as operators on buffers; extends `FixedBuffer` | `RpcStreamProofs` |
| `TcpClient` | a client's connection from `connect()` to its close: `TcpClient.cpp`, with `onRead`, `onWrite` and `write` | `HttpExchangeProofs` |
| `HttpServer` | `http/HttpServer.cpp`: requests taken from what arrives | `HttpExchangeProofs` |
| `HttpExchange` | `TcpClient` and `HttpServer` composed, with the network between them; implements `MessageStream` safely | `HttpExchangeProofs` |
| `RpcStream` | one direction of an RPC connection: `Rpc.cpp`, `onData` of `ProtoServer` and `ProtoClient`; extends `LengthCoder`, implements `MessageStream` | `RpcStreamProofs` |

Names with an underscore at the end are the members of the code. A critical
section that no other thread can look into is one step. A function is cut where
another thread may see or change something in its middle:

- `takeJob()` is cut before the loop test and before `wait()`, because
  `commence()` writes `running_` without the mutex, and because holding the
  mutex from the test to the wait is what makes `stop()` and `addJob()` safe;
  `stop()` and `addJob()` wait for the mutex, as a guard on `mutex_`;
- `addTask()` is cut between its unlocked look at the first task and the locked
  insertion; `expire()` between locking, each task and each call;
- `TcpEndpoint::write()` is cut between `setEvent()` and `epoll_ctl()`, which
  reads `event_` again; so is the unlocked `updateChannel()` of `onRead()`;
  `pollEvent()` looks at `event_` twice and takes two steps. An iteration of
  `onWrite()` holds the mutex, and the only other writers of `event_`, `poll()`
  and `onRead()`, belong to its own thread: it is one step;
- `onConnect()` is cut between `accept()` with `addChannel()` and the locked
  insertion, `onClose()` between `close()` and the unlocked `erase()`,
  `getChannel()` between finding an entry and copying it, which `erase()` can
  come between; `onMessage()` before it answers and before it returns;
- a message is sent in two steps, `AppendInt32()` and `send()`; `onWrite()`'s
  last `write()`, of nothing, is one step and the reset of the buffer another,
  since `AppendInt32()` does not wait for the mutex;
- an operation of `PSql` takes one step per call of libpq or of the manager;
  its caller takes one more, in which it reads its result and clears it. An
  address is free to be allocated again from the clearing on, and clearing it a
  second time takes whatever is there by then;
- `Singleton::get()` is cut by `pthread_once()`: the first caller is inside
  `initRoutine()` for a step and the others wait, and a job holds its pointer
  until it reduces the latch. A thread's end is cut between the last line of
  `runInThread()` and the destructors of its thread-specific data, which
  `pthread_join()` waits for;
- `Scheduler::addTimer()` and `removeTimer()` are cut in the middle of their change
  to `timers_`, which `find()` may come upon; `pollEvent()` between the channels of a batch and at
  each callback, since callbacks may remove, set and add timers, and cancel;
  a cancelled thread ends at `epoll_wait()` or `read()`.

The modules of TCP share the code and divide its concerns: `TcpEndpoint`
has the events, `errno`, short writes and buffers of one connection;
`ConnectionTable` has many connections and their lifetimes, with requests and
answers whole; `RpcStream` has the bytes of messages and two senders, with a
kernel that takes what it is given; `TcpClient` has the connecting, and the
events again, since there they are changed by `onConnect()` too. `HttpExchange`
composes by conjunction: a step of one end leaves the other's variables alone
and learns of it only by the bytes and by the end of input, which are the
parameters `ended` of the actions that read.

`PoolProgram` composes in the same way: a step of the latch or of the queue is
the step of `CountLatch` or `BlockingQueue`, under the condition that the
program's thread has come to it, and leaves the rest alone. Its `main()` may call
the operations in any order, and the queue is a local variable of `main()` or a
static one: then `exit()` destroys the Singleton first, and joins the threads
afterwards.

What libraries and the kernel do is modelled from how the code uses it: POSIX
condition variables with spurious wake-ups, a level-triggered epoll, a
non-blocking socket whose send buffer has room for `Window` bytes, `accept()`
that gives the lowest free descriptor, a timerfd
with an absolute deadline and a period, `pthread_once()`, `exit()` handlers in
reverse order, cancellation at cancellation points, libpq calls that succeed or fail. `map` in
`PROJECT.json` marks those definitions external.

Definitions marked "Mutant" are plausible mistakes (a dropped guard, a missing
reset). They are used only in place of the definition next to them, to see that
a property notices.

## Runs and bounds

| Run | Instance | Shows |
|---|---|---|
| `bq_restart` | 4 jobs, one that stops the queue and two that throw `QueueBreak`; `ThreadNum` 2, up to 4 threads | safety over `commence`, `stop`, `commence`: `StopReachesAll`, `NoLostWakeup`, `JobsHaveWorkers`, `ImplementsSafely`; `EmptyHandOnlyAfterRestart`: `takeJob()` returns the empty function only across a restart |
| `pool_program` | 2 threads, 2 jobs that get the Singleton, 1 that gets a ThreadSingleton, 1 that stops the queue, a latch of 3, no `QueueBreak`; a local or a static queue | `Implements` (with liveness) and `ShutdownCompletes` of the queue under a program that waits, stops and returns; `NoneStranded`, `LatchFreesMain`; `SingletonIsLive`, `ThreadObjects` |
| `latch_two` | two waiters | `OpenLatchFrees` fails (finding) |
| `timer_fresh` | 3 tasks, 2 adding threads and the scheduler, 5 instants, accuracy 2 | `OnePlace`, `WaitingIsArmed`, `LatenessBound`, `CalledUnlessStale` |
| `timer_stale` | 2 tasks, 1 adding thread | `EveryTaskCalled` fails (finding) |
| `scheduler` | 2 Timers, seconds of 2 ticks, delays of half a second and a second, without a period and with one of half a second, time without end | `BatchIsLive`, `TimerFires`, `CancelEnds` |
| `sql_client` | 3 threads, 2 connections, 3 addresses for results, symmetric in threads and addresses | `ImplementsPool`, `UsesLive`, `CleanHandout` under the functions that call the operations; `ResultIsOwn` |
| `tcp_endpoint` | buffers of 4 bytes, 2 bytes a call, a send buffer of 2, 4 bytes each way, 2 senders | `BufferAsserts`, `StreamIntact`, `PendingIsWatched`, `PendingIsSent`, `LastInputSeen`, `InputIsRead`, `DrainedIsReset` |
| `tcp_reading_done` | one byte a call | `ReadingDone` fails (finding) |
| `conn_table` | 3 connections, 2 descriptors, 2 requests | `TableMatches`, `PointersAreLive`, `HeldIsLive`, `AnswerToAsker`, `EndIsFreed` |
| `http_exchange` | requests of 1, 2 and 5 bytes and the empty line (2), buffers of 6, 3 bytes a call | `ImplementsSafely`, `WritesEstablished`, `RequestIsTaken`, `FullIsClosed` |
| `rpc_stream` | 4 messages of 1 to 4 bytes, one with a zero byte, 2 senders, headers of 2 digits in base 3, buffers of 11, 3 bytes a call | `FramesIntact`, `Implements` |

Why the bounds are enough for the cases of interest:

- Two workers per `commence()` let one overtake another and let a signal find
  nobody; four threads make a second round possible while the first still
  runs. Four jobs exceed the workers of one round, so a queue of two behind two
  busy workers occurs. Two jobs that throw `QueueBreak` can end both workers of
  a round, and leave a running queue with jobs and nobody to run them. Each job
  is added once: a job is a submission.
- In `pool_program` both threads can be in `get()` at once, one inside
  `initRoutine()` and one waiting for it, with the queue stopped or destroyed
  under them; the latch can open before or after `main()` comes to it, and the
  queue can be stopped with uses still to come. `BreakJob` is empty there since
  `Implements` promises completion. In `latch_two` the count of 3, the amounts
  and `MaxBelow` let `reduce()` go on after zero.
- Two Timers are both reported in one batch, and one callback can remove, set
  or add the other before it is reached, and set its own again. A delay of
  half a second makes the sum of nanoseconds overflow in the second half of a
  second, one of a second never does. A period of one tick expires again while
  its Timer is in the batch or in its callback. Time is relative (`left`, the
  ticks that each timer has before it), so it has no end, and a timer can be set
  as often as one likes. Two fill epoll's vector, the doubling of which is not
  needed for more.
- Three threads and three addresses: a result cleared twice hits the thread that
  got the address meanwhile, or is free, or was allocated to a third. An
  address that a failed `BEGIN` keeps is one less for the others; when none is
  left the operations that need one go no further (a limit of the instance).
  One address that is used again is enough for the cases above.
- With an accuracy of 2 ticks and deadlines in 0..4 a task may be inserted
  without a timer up to one tick before the first, and three tasks let this add
  up twice. Time stops at `MaxTime`, which is also the last deadline, so every
  timer that is set expires.
- Two connections for three threads: `getDB()` both fails and has a choice.
- A buffer of 4 holds 3 bytes: 4 bytes overfill both buffers. A call moves at
  most 2 and the send buffer takes 2, so short writes, `EAGAIN` and several
  iterations occur. `errno` starts as `EAGAIN` or not: the thread may have
  served other connections before.
- Three connections for two descriptors: a descriptor is used again while a
  request that came by it is unanswered, and `accept()` finds none free. Two
  jobs hold the mutex, and copy, at the same time as the loop closes.
- A buffer of 11 has room for two or three messages of 3 to 5 bytes with their
  header: it is reset between them, or is full. 3 bytes a call split headers
  and bodies. In base 3 the lengths 1 and 2 have one digit and the lengths 3 and 4
  have two, as lengths of 256 bytes and more have in the code. A length that the
  header has no room for is never sent (`MsgAssumption` says so for
  other instances). A stream is not followed after it is spoiled (see below).
- A buffer of 6 holds the request of 1 or of 2 bytes with its end, not both
  whole, and never the one of 5: requests arrive in pieces and together, bytes
  are dropped at either end, and the buffer is full for good. 3 bytes a call
  split the empty line.

Deadlock checking is off everywhere: a queue without users, a latch nobody
reduces, an exhausted pool and an idle or closed connection may stop.

### Fairness

- `PoolProgram` (with `BlockingQueue`'s): threads that can run do run and jobs return (weak fairness of
  each worker, of starting threads and of joining). Nobody is obliged to add,
  stop, destroy, wait for the latch or return from `main()`; what `main()` is in
  the middle of, and `exit()`, go on. Spurious wake-ups end at some time: a worker woken again and
  again could take the mutex each time another one needs it, and
  `pthread_mutex_lock()` promises no order.
- `CountLatch`: weak fairness of each waiter's steps.
- `Scheduler`: time passes, its thread runs and callbacks return, and an
  `addTimer()` or `removeTimer()` that was begun and a `join()` that can return do.
- `TimerQueue`: time passes; the scheduler and threads inside `addTask()` go on.
- `TcpEndpoint`: the loop thread and senders inside `write()` go on, and the
  peer goes on reading; without the latter pending output need not be sent. The
  peer need not send or close.
- `ConnectionTable`: the loop thread and every job that can run do; the peers
  need not connect, ask or close.
- `RpcStream`: the two loop threads go on, and so does a thread that has
  appended a header. Nobody has to begin a message.
- `HttpExchange`: both loop threads go on, the program finishes a `write()` it
  is in, and the network delivers. `connect()` need not be answered.
- `DBManager` and `SqlClient` have safety properties only.

## What the runs found

1. `CountLatch::reduce()` (`Condition.cpp:67`) signals one thread; with two in
   `latch()` the other sleeps for ever, which the comment at `Condition.cpp:41`
   warns of. With one waiter, as in `singletin_test.cpp`, it is sound:
   `pool_program` shows it, and `NoneStrandedInProgram` and `LatchNoneStranded`
   prove it.
2. `TimerQueue::addTask()` (`Timer.cpp:105`) looks at the first task without
   the mutex. If `expire()` removes it before the insertion, the new task has no
   timer. `WaitingIsArmedHolds` proves that this is the only way to lose one.
3. `TcpEndpoint::onRead()` (`TcpServer.cpp:52`) tests `errno` after a `read()`
   that succeeded. "Reading done" is then decided by an earlier call. epoll
   reports the rest of the input again (`InputIsRead`); but on a thread whose
   errno was never `EAGAIN`, input that arrives together with the end of the
   stream never reaches `onData_` (`LastInputSeen` says that this is the only
   case).

Some properties are stated with the condition under which they hold, because
the code breaks them beyond it: `StreamIntact` until a `write()` fails with
`EAGAIN` (`TcpServer.cpp:79` then moves the reader back by one),
`PendingIsWatched` and `PendingIsSent` until the unlocked update of `onRead()`
overwrites the interest in output (`TcpServer.cpp:54`), `LatenessBound` and
`CalledUnlessStale` until a stale look. The condition is a history variable
(`full`, `raced`, `stale`) that is set at that one place and read by nothing
else in the model. In the same way

- `PointersAreLive` and `EndIsFreed` hold until a job that answers after its
  connection was closed calls `epoll_ctl(MOD)` with a descriptor that another
  connection has by then (`misled`, `EPoll.cpp:54`): epoll then reports the
  closed connection's Channel, and has a dangling pointer after the job;
- `HeldIsLive` excepts jobs that copied an entry of the table while `onClose()`
  erased it without the mutex (`torn`, `TcpServer.cpp:260`);
- `BatchIsLive` excepts Timers that `removeTimer()` was called on while they
  were reported, or called (`pulled`, `Timer.cpp:179`): the batch has plain
  pointers;
- `TimerFires` excepts Timers whose expirations `pollEvent()` reads and then calls
  nobody for (`missed`, `Timer.cpp:194`): one that was not in `timers_` at that
  moment, be it added again while the batch is still worked on, and one that
  `find()` missed because `addTimer()` or `removeTimer()` was changing the map.
  What they expire for after that is due again. It speaks of Timers that are not
  set anew for ever, each time before they are called. A timer whose
  `timerfd_settime()` was refused (`Timer.cpp:69`: the nanoseconds of two times
  are added without a carry) stays what it was, and is not due if it was not armed;
  the property shows that this needs a delay that is not in whole seconds
  (`refused`);
- `ResultIsOwn` excepts the callers of operations that failed (`failed`,
  `Psql.cpp:128`: `freeAll()` keeps the pointer), and those whose result
  such a caller then clears (`hit`); and of results that are left behind it
  excepts those of a `BEGIN` that failed: `transactionBegin()` returns before it
  comes to `PQclear()` (`leaked`, `Psql.cpp:46`);
- `DrainedIsReset` until the loop thread's `errno` was `EAGAIN` once: from then on
  `onWrite()` returns before the `write()` of nothing that resets the buffer
  (`TcpServer.cpp:86`), and the room that was read from is lost;
- `AnswerToAsker` says that an answer reaches another connection only if the
  asking one has been closed; it can, because a job knows its connection by
  descriptor (`protoServer.cpp:44`);
- `ImplementsSafely` of `HttpExchange` and `RequestIsTaken` until bytes are dropped by a buffer
  (`dropped`, `TcpServer.cpp:41`), and `RequestIsTaken` until the loop thread
  takes back the interest in output that is pending (`overwritten`): what is
  sent before the connection is established waits for the next `send()`,
  because `onConnect()` watches for input only (`TcpClient.cpp:97`);
- `FramesIntact` and `Implements` of `RpcStream` hold until the stream is spoiled, in one of
  four ways that `spoiled` names: two threads' headers and bodies overlap
  (`Rpc.cpp:40`), a header is appended to a buffer that is being reset
  (`TcpServer.cpp:86`), a message has a zero byte (`Channel.cpp:18`), or a
  buffer is full (`FixedBuffer.h:53`). The model is not followed further,
  because the bytes taken for a length may then be anything; the guard of
  `Next` says so. TLC reaches each of the four.

## Proofs

Every theorem holds for all values of the constants under the assumptions the
modules name, which say that names are distinct, numbers are numbers and sizes
are positive. Three say more: `LatchAssumption`, that the jobs that a latch counts
are finitely many; `EndAssumption` and `RequestAssumption`, that CR and LF are two
bytes, and that the text of a request has neither in it; and `MsgAssumption`, that
the length of a message with its header can be written in the header's digits,
however many of them it takes (the code has it in a `uint32_t`, and the message
in memory). `CountAssumption` is a hypothesis of
the theorems about `CountLatch`, and `PoolProgram` assumes it of its latch.

Each proof defines an inductive invariant, shows that `Init` gives it and that
every step keeps it, and takes the properties from it. It is named `IInv`, or,
where a module has two specifications or a property needs a part of its own,
`AnyLatchInv`, `SInv`, `ClientInv`, `StreamInv`. The types are a part of each, and
the runs do not check them again.

- `PoolProgramProofs`, the queue. `StopReachesAll` is not inductive: one needs that the
  mutex is held from a worker's test to its wait (`MutexHeld`) and so that what
  it tested still holds (`WaitJustified`), and that the blocked are where
  `cond_` says (`CondBlocked`). `NoLostWakeup` counts: each step that adds a job
  or puts a worker to sleep keeps at least as many awake workers as jobs, or
  nobody asleep. `OnePlace` follows each move of a job. For `JobsHaveWorkers`,
  `RoundInv` counts the workers of the last `commence()` that have ended while the
  queue runs: no more than the jobs that threw `QueueBreak`, since each of those
  ends one worker and no job is run twice. From it,
  `ImplementsSafelyHolds` shows every step to be a step of `JobQueue` or a
  stutter, under `pending <- queue_`, `executing <- Executing`,
  `done <- finished`, `open <- running_`. `Reopened`, that an open queue in which
  a worker is about to take nothing was commenced twice, gives
  `EmptyHandOnlyAfterRestart`.
- The latch. The same argument; `LatchNoneStranded` needs the hypothesis that
  there is one waiter, and `latch_two` shows that it does. The theorems are about
  an instance `AnyLatch` with parameters of its own, next to the program's latch.
- The program. Each step of it is a step of the queue or none of
  its own (`StepIsQueueStep`), so the queue's invariants and its refinement
  carry over. `Counted` says that the latch counts the jobs that have not
  counted themselves off, and `ReturnedInv` what `main()` has waited for; from
  them `NobodyUses`: no job is at work on an object once `main()` has returned.
  With `OnceInv` that is `SingletonIsLive`. `ThreadObjects` follows from what is
  true of threads that have ended (`EndedInv`).
- `TimerProofs`, the timer queue. `WaitingIsArmed` is inductive with the types: a task
  inserted without a timer has a first task before it, which is armed for, or
  `expire()` is about to look. `NeverEarly` needs that what `expire()` collected
  is due and stays so. `LatenessBound` is inductive by counting the tasks of the
  map: one inserted without a timer adds one to them and less than an `Accuracy`
  to the lateness.
- The Scheduler. `BatchIsLive` needs that epoll watches only Timers of
  `timers_` (`WatchedIsAdded`), that nothing is reported while `pollEvent()` is not
  at work (`BatchMatches`), and that what was reported is in `timers_` or was pulled
  by a callback (`BatchIsAdded`): the program may drop its `timer_ptr` at any time,
  so only `timers_` keeps a reported Timer alive.
- `DBManagerProofs`. A failed operation's connection stays marked in use
  (`Accounting`), so what it left open or freed (`IdleIsClean`, `FreedIsKnown`)
  is never handed out: `CleanHandout`, `UsesLive`, `FreedOnce`.
  `ImplementsPoolHolds` shows every step to be a step of `ConnectionPool` or a
  stutter, under `idle <- ` the connections made and not in use, `lent <- db` of
  the operations and `lost <- ` what failed operations kept. That needs `Exclusive`,
  `Accounting`, and that nothing is marked before `init()` has made it
  (`UnmadeIsFree`): an `init()` whose new connection were already marked would add
  nothing. `Exclusive` and `Accounting` are what an abstract pool makes evident, one
  user to a connection and each of them idle, lent or lost; they are theorems of
  their own, and no run checks them besides the refinement.
  `ClientImplementsManager` carries all this over to `SqlClient`, whose
  specification is the one that the run checks. For `ResultIsOwn`
  one needs both directions: a live result's owner points to it
  (`OwnerPoints`), and a pointer of one who neither failed nor was hit is to its
  own result (`PointerIsOwn`).
- `FixedBufferProofs`. What `append()`, `str()` and `read()` do to the bytes that
  are still to be read, for any buffer that is in order (`AppendAll`, `StrIsRead`,
  `AppendFits`). `Framed` says of a sequence of bytes that it is frames laid end to
  end, by the place each begins at: no recursion over the frames, so that what
  the streams need, to add a frame at the end (`FramedAppend`), to take the first
  one off (`FramedHead`) and to carry on the last (`FramedExtend`), has proofs.
- `TcpEndpointProofs`. `Numbered`: the bytes of the buffer carry on the numbering of
  the bytes sent, which each append, short write and reset preserves, so
  `StreamIntact` holds. `ReadInv` says where unseen input can be,
  `PendingIsWatched` is inductive, and so is `DrainedIsReset`, given the rest.
- `ConnectionTableProofs`. `Located` ties descriptors and Channels together: what
  the kernel or the table has under a descriptor is a Channel of that
  descriptor; `Stage` says what is true of `cur` at each point of the loop, and
  gives `TableMatches`. `FreedIsGone`: what is destroyed is neither in the table
  nor about to be. With `Directed` (until `misled`, epoll and `vec` have owners
  only) the plain pointers are live. `JobLocated` says by which descriptor a job
  came and what it may hold, which `HeldIsLive` and `AnswerToAsker` need.
- `HttpExchangeProofs`. `WritesEstablished` needs what the loop thread knows at
  each point (`LoopKnows`), and that a connection that is refused is found out by
  a `read()` before anything is written: the interest in output that `connect()`
  begins with stays until `onConnect()` has replaced it by the one in input, and
  `onRead()` comes first (`RefusedIsRead`). `RequestsIntact` needs that what is on
  its way, from the server's buffer back through the network to what the client
  has not written yet, is the requests that are still to be taken, laid end to
  end; and that the first empty line in it is the end of the first of them
  (`FindsFirst`).
- `RpcStreamProofs`. `DecodeEncode`: what `decode()` takes out of a header is the
  length that `AppendInt32()` put in, for any base and any number of digits.
  `FramesIntact` then follows as `RequestsIntact` did, but the bytes on their way
  may end in a header whose body is still to come (`FramesOnTheWay`): until the
  stream is spoiled only one thread is between the two appends (`OneSends`), and
  nothing is in a buffer that is about to be reset (`NothingToReset`).
  The digits of a length are recursive functions over an interval. That these
  exist, and induction over an interval, are lemmas of this module
  (`RecursionExists`, `IntervalInduction`), stated of a function and of a set, and
  proved from the library's well-founded order on the numbers: the library's own
  statements have an operator as a parameter, and no prover here instantiates
  one.
- From the invariants, `ImplementsSafelyHolds` of both modules shows each step to be
  one of `MessageStream` or a stutter, under `put <- ` the messages of `sent`,
  `taken <- got` or `requests`, and `stream` broken once it is spoiled or bytes are
  dropped: `send()` puts, `decode()` and an iteration of `onMessage()` take.

Every safety property that a run checks as an invariant has its theorem, and so
have the action properties that are safety (`ImplementsSafely`, `ImplementsPool`,
`CleanHandout`, `EmptyHandOnlyAfterRestart`). Only model-checked: liveness (`Implements` of the
queue and of `RpcStream`, beyond its safe part, `ShutdownCompletes`,
`LatchFreesMain`, `OpenLatchFrees`, `CalledUnlessStale`, `TimerFires`,
`CancelEnds`, `PendingIsSent`, `InputIsRead`, `EndIsFreed`, `RequestIsTaken`,
`FullIsClosed`), which needs fairness and ENABLED and is beyond the prover.

## Not modelled, and why

- A server that sends before its client does, and clients with several
  connections (the tests' `MultiClient`).
- What messages contain: protobuf's parsing and the dispatch by method name. The
  objects of a call that are never deleted (`PbRpcChannel`, `Closure`).
- Connection resets and SIGPIPE, `shut()` and `EPOLLHUP` of a connection: a
  `write()` to a connection that was reset ends the process, and there is
  nothing after it that a property could be about.
- `Scheduler::setTimer()` sets a Channel's events to what they have been since
  `addTimer()`, and changes nothing. Two threads in the middle of changing
  `timers_` at once: what becomes of the map is undefined.
- The texts of SQL statements and the conversion of fields (`orm.h`); a program
  that calls `Singleton::get()` from `exit()` handlers of its own.
- Memory effects: a data race is modelled by what the threads see at that step,
  not by a torn read or a broken container.
- `Logger`, `Time`, `Random`, `AtomicNumber`: thin wrappers of system calls and
  formatting. Protobuf output: generated. openssl wrappers: sequential library
  calls. `Poll`: an empty stub. `Internet.h`: conversions of addresses.

## Plan

Done, in the order of importance: the queue with its abstract specification and
refinement, the latch, the timer queue, the database pool, the buffer and one
connection, the connection table, the RPC stream, the client and the
HTTP server; then the Scheduler with several timers, the program that composes
queue, latch and singletons through `exit()`, and the callers of the database
operations; then the stream of messages and the pool of connections as abstract
specifications, and what implements them; with the proofs above.

Next:

1. A server that sends first, `shut()` and `EPOLLHUP` in `TcpEndpoint`.
2. Proofs of what they add, and `RpcStream` over the connection of `TcpEndpoint` in
   place of its own buffers and network.
