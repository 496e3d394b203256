# Verification of iolua

iolua runs Lua scripts as cooperative tasks on a pool of threads and lets them
exchange messages over channels. This directory holds TLA+ models of it, the
TLC configurations that check them on small instances, and proofs that TLAPS
checks for every value of the constants. Paths below are relative to the
repository; `ltask/` stands for `iolua/src/main/cpp/iolua/ltask/` and `lemon/`
for `lemon/src/main/cpp/lemon/`.

## 1. Inventory

### The parts, their state, and how they meet

| part | source | state | operations |
|---|---|---|---|
| scheduler | `ltask/scheduler.cpp` | run queue, map of tasks, map of sleeping tasks, channel table, generator of ids, exit flag, threads | `create_task`, `resume`, `exit`, `join`, `start`, the worker loop `do_schedule`, `create_channel`, `close_channel`, `get_channel`, `channel_select` |
| task | `ltask/task.cpp`, `task.hpp` | a Lua state, `_state`, `_resume` | `run`, `stay_awake`, `sleepable` |
| channel | `ltask/channel.cpp` | reference counter, message queue, queue of blocked task ids | `push`, `pop`, `do_select`, `addref`, `close` |
| Lua API | `ltask/builtin.cpp` | the C++ frame and the Lua loop of a call | `iolua.task`, `chan`, `close`, `send`, `select`, `raw_recv`, `recv` |
| program | `iolua/main.cpp` | | start the first task, join, destructor on failure |
| serializer | `ltask/serializer.c` | chain of 128-byte blocks, places of writer and reader | `seri_pack` over `wb_push`, `seri_unpack` over `rb_read`, `wb_free`, `rb_close` |
| log factory | `lemon/log/factory.cpp` | message queue, sinks, loggers and their levels, writer thread | `write`, `add_sink`, `remove_sink`, `close`, `get`, `setlevels` |
| file sink | `lemon/log/file_sink.cpp` | open stream, name, block number, files | `write` with `openfile` |
| reactor | `lemon/io/reactor_io_service*.hpp`, `reactor_io_object.hpp` | lists of waiting operations per object, completion queue, dispatcher thread, array of events | `run_one`, `complete`, `process`, register, unregister |
| streams, sockets, pipes | `lemon/io/reactor_io_stream.hpp`, `reactor_io_socket.hpp` | operations | `read`, `accept`, `connect`, `recv`, `send` |
| process | `lemon/os/exec*.hpp` | waiter thread, `_joined`, pid, exit code, pipes | `start`, `wait`, the waiter's `wait_proc`, the destructor |
| locks | `lemon/mutex.hpp` | | read-write and spin lock |
| paths, files | `lemon/fs/` | | parsing, system calls |
| vendored | Lua 5.3, SQLite | | |

Worker threads run tasks. A task calls the Lua API on the thread that runs it;
the API calls into the scheduler (under `scheduler::_mutex`, shared or
exclusive) and into channels (under each channel's spin lock). A send that
finds a blocked task calls `scheduler::resume`, which either moves the task
from the sleeping map to the run queue or sets its `_resume` flag. The worker
that holds the task reads the flag when `run` returns. Everything logs to the
log factory. The reactor and the process class are not used by the Lua API.

### What is hard, and what makes each part correct

- scheduler: any interleaving of the workers with `resume`, `create_task` and
  `exit`; a condition variable without a predicate; a requeue that notifies
  nobody; tasks deleted while their ids are still known. Correct if a task is in
  one place, none is lost, no resume is forgotten, a queued task finds a
  worker, and `exit` lets `join` return.
- channel: `close` racing the frames that hold the pointer; references that
  `send` and `select` never drop, in a counter that is an `int`. Correct if no
  pointer outlives its object and the object goes with its last reference.
- ids: drawn from a 32-bit generator under a shared lock and used later under the
  exclusive one; lookups that insert null entries. Correct if an id leads to
  what it was given out for.
- Lua API: the calls take and release two different locks several times, so
  what one section read is old in the next one. Correct if no task sleeps on a
  message it waits for.
- serializer: values that end at or cross the end of a block, blocks freed while
  they are read. Correct if reading gives back what was written and every block
  is freed once, also on an error.
- log factory: a writer thread that walks over the sinks without the mutex, and
  a close that must not overtake messages. Correct if every message accepted
  reaches every sink once and in order, and `close` returns when the loggers stop.
- file sink: rotation by size and day, restarts, failing opens. Correct if files
  stay within the maximum and no message is lost while the file system works.
- reactor: edge-triggered events, a first try outside any lock, operations that
  are in two lists in turn through one field. Correct if lists and queue hold
  what they should, and a waiting operation is completed and its callback
  called once.
- process: a waiter thread that outlives the call that made it, several threads
  in `wait`, children that are killed, forks that fail. Correct if a wait reports
  its own child, comes back, and the program is not terminated by a misplaced
  `start`.

## 2. Modules

`Scheduler.tla` models scheduler, task and program. One section of the mutex is
one action. `do_schedule` is cut where it releases the mutex: `Enter` (the
thread starts or returns from the wait, tests the loop, and waits, leaves or
takes a task), `BeginRun` (the start of `task::run`), `Yield` and `Finish` (its
two ends), and `Settle` (the section after `run`, which deletes, requeues or
puts to sleep, and takes the next turn of the loop in the same section). The
Lua code is any sequence of `Spawn` and `Wake` between `BeginRun` and `Yield`
or `Finish`. The constructor leaves `_resume` uninitialised: `CreateTask`
chooses its value. `BeginRun` writes `_resume` without the mutex, which is a
data race with `resume`. The model takes the write as atomic at any time
between the pop and the first Lua step. A later visible write would be
ordered by the first lock that the Lua code takes, and before that lock the
task has read nothing that a resume could be about. `owed` is a history
variable: the tasks resumed since their last run began.

`Channel.tla` models the channels with callers of any kind. `ref[t]` is the
pointer in the C++ frame of task `t`; `Release` is a frame that drops its
reference (`raw_recv`), `Forget` one that does not (`send`, `select`). The
counter has `IntSize` values and comes round (`Up`, `Down`); `lost` counts the
references nobody will drop. An operation on a deleted object is undefined and
has no step, and `NoUseAfterFree` says when there is a live one. The branch of
`addref` that takes an object for revived is in `GetChannel`. The proofs show that
the counter must have come round for it to be taken.

`ChannelTable.tla` extends `Channel` by the ids: `idgen`, the keys of `_channels` and
`_tasks` with the null entries that `operator[]` leaves, and a creation cut where
it changes from the shared lock to the exclusive one (`Begin`, `Draw` per turn
of the loop, `InsertChannel` or `InsertTask`; `AbandonTask` is a constructor of a
task that fails in between). `Exclusive` is the condition for
the exclusive lock: nobody draws. `draws` and `overtaken` are history
variables: how far the generator has gone since an id was drawn, and whether it
has gone all the way round.

`Ltask.tla` composes the two by `INSTANCE`. Each call of the Lua API is a
sequence of steps, one per critical section, with `pc[t]` the place in the
call. `SelectGet`, `SelectTry`, `RawRecv`, `PopMsg`, `ReleaseChan` and
`RecvYield` are the loop of `iolua.recv`; `Send`, `PushMsg` and `ResumePeer`
are `iolua.send`; `PackFails` is an error inside `seri_pack`. What a task may
call is a constant (`Spawns`, `Opens`, `Closes`, `Sends`, `Recvs`, `Servers`);
otherwise its code is arbitrary. It only uses channel ids that `iolua.chan`
has returned before. `Found` and `Missed` are the two answers of `get_channel`.

`BlockChain.tla` models `write_block` and `read_block`. One turn of the loops of
`wb_push` and `rb_read` is one step, and any sequence of pushes and reads may come.
A block is named by the number of bytes before it; memory that was never
written, or was freed, reads as `Junk`. `Serializer.tla` extends it by
`seri_pack` and `seri_unpack`: `PackOne` translates a value into pushes and
`PushValue` and `Use` decide from the bytes just read what is read next. It is the
only module with `RECURSIVE` operators, which is why the chain is a module of
its own. Numbers have digits to a small base, so that the limits of 1, 2, 4 and
8 bytes are within TLC's integers.

`Exec.tla` models `exec` and the POSIX `process`. A section of `exec::_mutex` is one
action; `Free` says that no caller hangs in `_waiter.join()` with it. With pipes
`wait` polls, and a turn that changes nothing is a stutter; `Drain` is the last
turn, which lets go of the mutex. `status` and `reaped` are the kernel's table
of children. A `pid` of -1, left by a fork that failed, makes `waitpid` take any
child. A child whose `execv` fails goes on with the caller's program in its own
process; to the parent it is a child that ends like others. The kernel gives
the id of a reaped child out again (`Replace`), so that starts and waits go on for
ever. `Launch` clears `_joined` and creates the waiter thread, which may fail: the
exception leaves `_joined` false, and nobody to set it.

`LogFactory.tla` models `write_loop` cut where it releases the mutex and, in the
inner loop, at every sink: `Top`, `WaitReturns`, `BeginMessage`, `Visit`,
`EndMessage`. What a change of the map of sinks does to a walk that is under way
is undefined in the code; the model lets the walk go on over any of the sinks
that are there, or crash when one was erased. Loggers may go on for ever: the
messages of `Msgs` are logged once each, so that their order can be told, but
`WriteOther` adds a message that no sink applies to as often as it likes. Of those
the queue remembers only whether it holds any (`others`), which is all that
`write_loop` tests. `accepted` and `early` are history
variables. `std::thread::join` from two threads at once is taken to throw in the
second one.

`FileSink.tla` models `openfile` in its two halves, `ByName` and `BySize`, as
functions of the sink and the files, and `write` as one action: the writer
thread is the only caller. Sizes are counted in messages; `std::endl` and
`flush` make the size that `file_size` sees the true one. Opening and writing
may fail. `Restart` is the end of the program and the start of the next one on
the files that are there.

`Reactor.tla` models an operation from its first try to its deletion. The lists
are chained through the field `next`, as in the code, because whether that
field is shared safely between the lists of an object and the completion queue
is the question. Streams push inside the mutex, in one step. Sockets push outside,
and each read and store is a step of its own: the test of the header (`PushTest`),
then the two stores to an empty list in either order (`PushHeader`, `PushTail`), or
the read of the tail (`PushRead`), the store to the `next` of what was read
(`PushLink`) and the store of the tail. The dispatcher's `pop` is cut in two where
such a push can see it: `Invoke` moves the header on, and `Invoked` clears the tail
of a list that it has emptied. `Valid` says what may be dereferenced. When a thread
is about to dereference anything else (`Stray`: the tail was cleared after the
test, or the operation it named was handed to `run_one` and deleted), the step is
`Break`, which sets `broken` and ends the model: what follows is undefined in the
code. `crowded` is a history variable: two operations have waited in one list.
`Arrive` and
`Reports` stand for the kernel. The array of events is left uninitialised by
the code, so that its first contents are arbitrary under epoll; the kqueue
backend sets both bits with every event, whatever they were.

`SchedulerProofs`, `ChannelProofs` (which has the proofs about `ChannelTable` too),
`LtaskProofs`, `LogFactoryProofs`, `FileSinkProofs`, `BlockChainProofs`, `ExecProofs`
and `ReactorProofs` hold the proofs. The `MC*` modules give instances. Definitions that a comment calls a mutant
are wrong versions of the definition after them, used to see that a property
notices.

## 3. Runs

| run | instance | what it checks |
|---|---|---|
| `scheduler` | 2 workers, 3 tasks, one may never yield | `TypeOK`, `OnePlace`, `NoTaskLost`, `WakeupKept`, `WorkConserving`, `QueuedRuns`, `WakeupRuns`, `ExitJoins` |
| `channel_table` | 2 callers, whose tasks may fail to be created, 2 channels, a counter of 5 values, a generator of 4, symmetric | `TypeOK`, `NoUseAfterFree`, `Reclaimed`, `IdsLead` |
| `ltask_shared` | 2 workers, a sender, a receiver on two channels of its own and a rival on a third, closes | `NoLostWakeup`, `SomeoneAwake`, `ChannelSpec` |
| `ltask_echo` | the ping-pong of `test/test.lua` and `test/echo.lua`, and a third channel | `RecvReturns`, `SchedulerSpec` |
| `log_factory` | 2 messages, and any number for no sink, 3 sinks of which one comes or goes, 2 closers | `TypeOK`, `InOrder`, `Accounted`, `ClosedIsFlushed`, `EndsWritten`, `CloseReturns` |
| `file_sink` | 8 messages, 2 days, 2 restarts, 2 failures | `TypeOK`, `SizeBound`, `BlocksFilled`, `BlocksInOrder`, `KeptUnlessFailed` |
| `reactor_safety` | epoll, 3 socket operations on a descriptor, up to 2 in one list, 2 runners, symmetric | `TypeOK`, `QueueSound`, `ListsSound` |
| `reactor_serves` | kqueue, a stream and a socket operation on 2 descriptors | `ReadyRuns`, `ReadsServed`, `WritesServed` |
| `serializer` | blocks of 8 bytes, values of every type and size at every distance from the end of a block | `Exact`, `BlocksFreed`, `RoundTrip` |
| `exec` | 2 objects, one with pipes, 2 threads, 3 process ids that come again, a fork or a creation of a thread that fails | `ReportsChild`, `OnlyUnwaited`, `WaitReturns` |
| `reactor_epoll_writes` | epoll, a read and a write on a socket | violates `WritesServed` |
| `reactor_two_reads` | kqueue, two reads on a stream | violates `RunsCompleted` |

What they show:

- A resume survives wherever it falls: before the run, in it, between the end
  of `run` and the lock, or while the task sleeps. `WakeupKept` says so of
  states and `WakeupRuns` of the long run.
- Requeueing without a notification is harmless, because the worker that
  requeues takes a task in the same section, and every other push notifies.
  `WorkConserving` bounds the queue by the workers on their way whenever some
  worker waits; `QueuedRuns` says that tasks are served though one worker is
  lost to a task that never yields.
- No wakeup is lost to a task for channels that it alone receives on, while they
  are open (`NoLostWakeup`, `RecvReturns`), although stale and double entries
  pile up in the blocked queues, and though other tasks share other channels.
- With two receivers on a channel this fails: a task can find the queue empty
  after `select` said otherwise, and sleep outside the blocked queue while a
  later message waits for it. What remains true is `SomeoneAwake`: as long as
  each rival receives on that channel alone in a call and does not end (`Pool`),
  they are not all asleep while it holds a message. Both conditions are needed: a
  resume that goes to a task which has ended, or which found its message on
  another channel, helps nobody else.
- A receiver whose channel is closed is not woken. `NoLostWakeup` and
  `RecvReturns` are therefore stated for tasks whose channels are all open.
- Every `send` and `select` leaves a reference behind. Until the `int` has no room
  for one more (`Few`; about 2^32 of them) pointers are safe and the object lives
  exactly as long as a reference was not dropped. After that it may be deleted
  under its table entry; `channel_table` goes there, with a counter of 5 values.
- An id leads to its own channel unless the generator goes once round between a
  draw and the insertion. Ids that were looked up in vain are keys for ever, and
  when all are, the drawing loop does not end; two creations that draw by turns
  may also keep passing each other's ids. So nothing is said here of the long
  run.
- `SchedulerSpec` and `ChannelSpec` state that `Ltask` implements `Scheduler`
  (with its fairness) and `Channel`: what is proved of those holds in the
  composition.
- What was packed is unpacked as the same values, wherever blocks end, and what
  cannot be packed (functions, tables nested too deep) is given up with every
  block freed.
- A wait reports the exit code of its object's own last command, and 0 for one
  that a signal ended: the loop calls `waitpid` again, which has no child left. A
  fork that fails falls through to the child's branch (`exec_posix.hpp:69`): the
  program is replaced by the command, or goes on and waits for any child, which
  is why `ReportsChild` is about runs in which no fork failed. A start after the
  command ended and before a wait ends the program.
- A caller in wait comes back (`WaitReturns`) if the other threads stop starting
  its object in the end: while they do not, each wakeup may find `_joined` false
  again, because a wait and a start of another thread were faster to get the
  mutex. Three cases are left in which it need not come back. The waiter thread
  could not be created (`Abandoned`): `start` has cleared `_joined` before
  (`exec.hpp:145`), so that every later wait hangs and every later start throws.
  Threads share an object with pipes (`HungInJoin`): one restarts it while
  the other has let go of the mutex in `io_service_run` and then joins the new
  waiter with the mutex held (`exec.hpp:160`). And after a fork that failed the
  object waits for any child of the program (`WaitsForAny`).
- A sink sees the messages in the order in which they were accepted even while
  sinks come and go; that none is missing or doubled holds only while they do
  not. Close flushes what was accepted before the flag was raised, wherever the
  writer stood, and it returns once the loggers have stopped. Until then it need not: the
  writer looks at the flag only when it finds the queue empty (`factory.cpp:21`),
  and a message that arrives during every batch keeps it from that. Without its
  hypothesis `CloseReturns` is violated by that loop. `iolua/main.cpp`
  never calls close, so the program itself does not profit from it.
- A log file goes over the maximum by one message, and a block with a suffix by
  one more per restart, since a new sink appends to every full block it passes.
  After a failed open, messages are dropped until the name or the block changes.
- Until two operations have waited in one list of an object, the reactor's
  lists and queue are sound and no bad pointer is used, with pushes outside the
  mutex too; `reactor_safety` lets two wait and goes on from there, with the types
  and the undefined behaviour that the code then has: a socket's push dereferences
  a tail that the dispatcher has cleared meanwhile, or whose operation is deleted.
  With streams, which push inside the mutex, two are too many as well
  (`reactor_two_reads`): `pop` leaves the field `next` of the operation
  it takes out (`reactor_io_object.hpp:159`), the operation goes to the end of
  the completion queue, and `run_one` follows `next` from it into the list of
  operations that still wait. It calls their callbacks and deletes them while the
  object still points to them.
- An event between the first try and the push is lost, and the operation is
  served by the next one; that holds for kqueue in both directions. With epoll
  writes are never served (`reactor_epoll_writes`), as `EPOLLOUT` sets the bit
  of reads (`reactor_io_service_epoll.hpp:100`). The test
  `lemon/src/test/cpp/io_test.cpp` waits for a connect.

Bounds. Two workers and three tasks give one worker that is held and one that
waits or is on its way, and a task that runs, one that sleeps and one that is
queued. In `channel_table` the counter must hold the table's reference, two
frames' and one that is lost, so 5 values are the fewest; `MaxLost` lets it come
round. The generator has 4 values, of which 0 is not used, so that two
creations and a task fill it. The bound in `Begin` keeps the creations of channels
to the objects that are left. In the `Ltask` runs the counter has 30 values, out
of reach of two messages, and every message is sent once, which bounds
everything else; a channel stands for its id, as `IdsLead` permits.

In `serializer` a block of 8 bytes is as long as the longest number, so that every
kind of read crosses its end; with `MaxCookie` 4 instead of 32 short and long
strings and both heads of a table occur, with `MaxDepth` 2 the deepest table and
one too deep. The arguments are each value behind a string of every length up to
a block and more, and each pair of values. In `exec`, `MaxPids` is the number
of process ids and bounds `Replace`: with three of them on two objects, one can
be started while the other runs, again and again. `MaxFailures` bounds what fails
in `StartFails` and `Launch`; one failure is enough for each exception of
`WaitReturns`.

In `log_factory` one message can be in the writer's hands while the other is
queued, or both be in one batch; `WriteOther` has no bound. In `file_sink` a file is full with two messages,
so that eight fill three blocks with a restart between them. `MaxDay`, `MaxMsg`,
`MaxRestarts`, `MaxFailures` and `MaxChanges` bound the guards of `Midnight`,
`Write`, `Restart`, `WriteFails` and `AddSink`/`RemoveSinks`. In `Reactor`,
`MaxAvail` caps what the kernel has ready and `MaxPending` the operations that
wait in one list: 2 in `reactor_safety` and `reactor_two_reads`, 1 where liveness is
checked. Each operation is started once.

Deadlock is checked in `channel_table` only: the other systems may stop, when every task sleeps, after `join`,
after `close`, when all is written or served.

### Fairness

`Scheduler` assumes that the operating system runs every thread and grants the
mutex to a thread that keeps asking (weak fairness of each worker's `Enter`,
`BeginRun`, `Settle`), that `main` goes on after `start`, and that the Lua code
of a task outside `Hogs` yields or ends. Nothing is assumed of spurious
wakeups, of `exit`, of spawning or of sending. `Ltask` assumes instead that Lua
code that runs takes its next step; `SchedulerSpec` shows that this gives the
fairness of `Scheduler` with no hogs in the instance checked.

`Serializer` assumes that both tasks go on and the message is delivered. `Exec`
assumes that the waiter threads and the callers in `wait` run, and that every
command ends; nothing is assumed of `start`, of calls of `wait` or of a `_mutex`
that a thread hangs on to, except that `WaitReturns` is about executions in which
an object is not started for ever.

`LogFactory` assumes that the writer and a closer that has begun go on; nothing
is assumed of loggers, except that `CloseReturns` is about executions in which they
stop in the end. `Reactor` assumes that the dispatcher runs, that threads
which start operations or call `run_one` get the mutex between its batches
(strong fairness: it is free again and again), that they call `run_one` with a
timeout, as the tests do (a thread that waits without one is not told of an
operation that `complete` queues), and that descriptors have events again.

## 4. Proofs

All are for every value of the constants: any finite set of workers, any tasks,
channels, messages, sinks and sizes.

`SchedulerProofs`: `TypeInv` is the type invariant with "a busy worker holds a
task". `PlaceInv` is `OnePlace`, `NoTaskLost`, `WakeupKept` and `OwedAwake`
("a task that was resumed while a worker runs it has its flag set"); the last
one is what makes `WakeupKept` inductive, because `Settle` decides by the flag,
and `OnePlace` is what keeps one worker from clearing the flag of a task
another one runs. `LoopPlaces` says once what the loop does to places, and
`EnterPlaces` and `SettlePlaces` use it. `WorkConserving` is inductive with the
types: a push adds at most one task and, if anybody waits, exactly one worker on
its way (`PushNotifies`); a worker that arrives leaves that set and takes a
task if there is one; a worker only starts to wait on an empty queue.

`ChannelProofs`: `RefInv` counts references, for every channel whose counter still
has room (`Few`): it is the number of owners (the table and the frames) and of
lost references, and the object lives as long as it is positive. Both
`NoUseAfterFree` and `Reclaimed` follow, and `NeverRevived`: such a counter is
never seen at zero, so `get_channel` gives a pointer.

The second half of the module is about `ChannelTable`: every step of the tables is one of `Channel`
(`TableImplementsChannel`). For `IdsLead` the invariant `NameInv` says, unless the
generator has overtaken a creation, that it stands as many ids behind a drawn one
as were drawn since (`Behind`), hence that no two creations of a kind hold the same
id (`Apart`) and none holds one that is in use (`Free`).

`LtaskProofs`: `Framed` ties the place of a task in its call to the pointer, the
message and the peer it holds. With it every step of a call is a step of
`Channel` and one of `Scheduler` (`ChannelsImplemented`, `SchedulerImplemented`),
whose theorems carry over by `INSTANCE` (`Inherited`). `NoWakeupIsLost` adds
`WaitInv`: only receivers are in a blocked queue (`OwnBlocked`), a task that
`select` sent to `raw_recv` finds a message there (`HasMessage`), and a channel
that a task has passed in its select is empty and remembers it, or the task has
been told, by a resume that has come or is on its way (`Watched`). Three facts of the
other modules carry it: `OnePlace` (the resume finds the task in one place),
`WakeupKept` (it is not forgotten before the task sleeps) and `NeverRevived` (no
lookup fails on an open channel).

`PoolStaysAwake` is about rivals for one channel, where `WaitInv` says nothing: a
task may find the queue empty after `select` said otherwise. Its invariant
`SharedInv` says of an open channel with a pool that either it is empty and the
next push resumes somebody, or one of the pool is `Active`: it will look at the
channel before it sleeps, or has been told not to sleep. A push to a channel with
a blocked task makes that task active, and it is one of the pool and alive
(`OwnBlocked`, `LiveServers`); a push without one needs the second case, and has
it, because the channel was not both empty and remembered. A task stops being
active in `do_select` on the empty channel, which gives the first case, and a task
that finds the queue empty in `raw_recv` was not active unless it was told; the
one that took the message from it is active, with the message in its hand.

`BlockChainProofs`: `IInv` consists of `Linked` (which blocks there are), `Holds`
(every block has its part of the message), `Writing` and `Reading` (where the two
sides stand), with the types and the properties themselves. `TurnKeeps` is the
writer's step and `AdvanceKeeps` the reader's; `Copied` says what a `memcpy` out
of a block gives.

`ExecProofs`: `ExecInv` says that a waiter thread nobody has joined belongs to a
start that is owed a wait (`WaiterOwed`) and, while nothing has failed, that
children and objects are one to one (`OneEach`), so that a waiter reaps its own
child and holds its code afterwards (`CodeKnown`).

`LogFactoryProofs`: `FlushInv` adds to the types that every accepted message is
with each of its sinks or on its way there (`NothingMissed`: in the queue, or in
the batch and not past this sink), and that the writer has left only with the
flag raised and the early messages written (`LeftLast`). The step that matters is
the one with which the writer leaves: queue and batch are empty, so nothing is
on its way. `OrderInv` carries `InOrder`: batch and queue are the end of what was
accepted (`Suffix`), and a sink holds nothing beyond the message the writer is at
(`GivenBefore`), so that what it is given next is never earlier than what it has
(`Ordered`), also when a disturbed walk comes back to it. `ExactInv` adds, while the set of sinks
stays as it is, that a sink has been given the messages for it up to the place
the writer has reached and none beyond (`GivenExactly`, where `Passed` counts the
message in hand for the sinks that have had it), and none twice (`GivenOnce`);
`Accounted` follows from both.

`FileSinkProofs`: `OpenfileResult` says what `openfile` leaves. `SizeBound` needs
`RoomAhead` to be inductive: a block that was not opened in this life of the
program has room for one message more than the bound of the lives before, and
it is such a block that `openfile` appends to without a look at its size.

`LogInv` is about the messages: the
sink has not gone back from a day or block it wrote to in this life (`Past`), a
message stays where it was written (`Kept`), and a stream is missing only after
a failure (`StreamGood`).

`ReactorProofs`: types hold for any callers and any number of operations in a list,
whatever reads and stores of a push the dispatcher comes between (`ReactorTypes`), up
to the first dereference of a pointer to no operation. The rest is proved of states
in which no two operations have waited in one list of an object (`~crowded`, which the
properties and the invariant say themselves). The code leaves that to its callers, and
it is no convenience: `reactor_two_reads` shows what becomes of the queue otherwise.
Callers that start one operation at a time for each direction keep to it, and then
nothing undefined happens either (`OneAtATime`). The completion queue is
chained through `next`; what a chain holds is defined as the least set closed
under `next` and not by recursion, so that a proof can reason about it by giving
such a set. The invariant says that a list has at most one operation that waits
(`Alone`), that `next` of one that is not done is null (`FreshInv`), that a list is
empty or its header the one operation that waits in it (`HeaderInv`), that operations
wait on registered objects and only a push that has not stored the header yet has its
operation unlinked (`PushInv`), that the operation which the dispatcher pops is the one
it holds (`HeldInv`), that `next` leads from head to tail through exactly the operations
that are done, no two of them to the same one (`QueueInv`), and that runners in a
callback have operations of their own (`RunInv`). `NotStray` concludes that no thread
is about to dereference a bad pointer. `pop` leaves the field `next` of what it takes
out; with one operation in the list that field is null, which is why `complete` may
append it to the queue.

Proof assumptions are the `ASSUME`s of the modules: finitely many threads, operations,
descriptors and frames, null values that are not ids, numbers that are naturals, a counter
with room for a reference of every task.

Every invariant that a run checks is proved. Only model-checked are liveness (fairness and `ENABLED` are beyond the prover),
the fairness half of `SchedulerSpec`, and `RoundTrip`, which is a liveness property
about recursive operators.

## 5. Not modelled

- Lua: what `lua_resume` is passed, `luaL_newstate` failing, calls of
  `iolua.select` and `iolua.raw_recv` outside `iolua.recv`.
- Serializer: the reader of a flat buffer and appending to a message, which
  nothing calls, and streams that `seri_pack` did not write.
- Ids: what the data race of two insertions into a hash table under the shared
  lock does to memory; the model has the entry that is left.
- Log: the text of messages, `get`, and `setlevels`, which gives a logger that it
  creates the levels of the factory instead of its argument (`factory.cpp:72`);
  the exit of the process with messages queued.
- Process: what moves through the pipes, and callbacks of the io service that run
  inside `exec::_mutex` (`run_one` is called with it, `exec.hpp:219`).
- Reactor: the end of the service, objects that register while it runs, failures
  of its system calls.
- Locks: `shared_mutex` and `spin_mutex` are the atomicity of actions elsewhere.
- Paths and files, which are pure or system calls; the Windows variants; test
  support and formatting helpers; the vendored Lua and SQLite, which are most of
  the repository's lines and whose behaviour is not this project's.

## 6. Plan

1. `TaskLife`, an abstract task (absent, ready, running, asleep, gone; with or
   without a wakeup kept) that `Scheduler` implements, and `Mailbox`, a channel as
   one atomic queue with messages delivered, queued or lost by a close, that
   `Ltask` implements.
2. `Reactor`: the end of the service (the backend's destructor closes its
   descriptor before the base joins the dispatcher), objects that register
   while it runs, a descriptor number that is used again, failing waits; then
   `Exec` with the io service that `wait` runs.
3. The log as a whole: a `LogFactory` whose sink is a `FileSink`, from `write` to
   the files, with the table of loggers and their levels.
4. `Filepath`: parsing and joining as pure operators.

Theorems to add: the refinements to `TaskLife` and `Mailbox`, with the modules. As far as
the properties of today go, what is left to prove is out of the prover's reach.
