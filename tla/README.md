# TLA+ for the Monk OS kernel

Monk OS is an operating system on the Bun runtime: a kernel on one JavaScript
thread, processes in Bun workers, syscalls as messages between them. This
directory holds TLA+ modules of the kernel's own logic, TLC configurations
that check them on small instances, and TLAPS proofs about them. Paths below
are from the repository's root, which is `src/` here: `src/src/kernel/kernel/exit.ts`
is the file of `exit()`.

## 1. Inventory

| Part | State it keeps | Operations | What is hard about it | What makes it correct |
|---|---|---|---|---|
| **Process lifecycle** `kernel/kernel/{spawn,exit,force-exit,kill,wait,notify-waiters,reap-zombie,create-*}.ts`, `process-table.ts`, `kernel.ts` | table of processes, init, each process's state, code, parent, worker, pid namespace; waiters; grace timers | spawn, create, exit, kill, wait, reap, reparent, worker error, shutdown | spawn and exit await in the middle; waiters act long after they resolved a pid; timers fire late; two waits for one child | waits end and report the right code; a waiter reaps nobody else's child; no worker leaks or is killed under a running process |
| **Handle table** `kernel/kernel/*-handle.ts`, `create-pipe.ts`, `accept-channel.ts`, `setup-*.ts`, `open-*.ts`, `interrupt-process.ts` | handles by id, reference counts, each process's descriptors | alloc, ref, unref, close, redirect, restore, inherit, teardown | handles are shared between processes; opens land after their process died; a redirect parks a count outside every descriptor | counts follow descriptors; a descriptor resolves; the last close, and no earlier one, closes |
| **Dispatcher** `dispatch/dispatcher.ts`, `dispatch/syscall/*` | active streams and ping handlers of each process | accept a message, revalidate, dispatch, respond | the caller may die between acceptance and dispatch | dead callers and foreign workers are refused |
| **Response streams** `dispatch/stream/controller.ts`, `rom/lib/process/syscall.ts` | items sent, acknowledged, paused, pending requests | send, ping, pause, resume, stall, cancel | pings race the stall timer; cancels race items | a slow consumer bounds the producer; a live one is never cut off |
| **Sigcalls** `dispatch/sigcall/registry.ts`, `rom/lib/process/sigcall.ts` | handler by name, pending calls | register, route, respond | the handler dies while a call is pending; responses name no process | every call is answered |
| **Worker pool** `kernel/pool.ts`, `kernel/kernel/{lease,release}-worker.ts` | idle, busy, waiting, leases by process | lease, warm up, release, reap, shutdown | concurrent leases over an await, releases twice, lessee's death | one lessee a worker; nobody waits while one idles; the size stays near the maximum |
| **Message pipes** `kernel/resource/message-pipe.ts` | queue, waiters, two closed flags | send, recv, close of either end | cancelled readers keep their place; close against a blocked receive | first in, first out; one message lost per cancel at most; the end reaches everyone |
| **Ports** `kernel/resource/*-port.ts`, `hal/network/listener.ts`, `hal/redis/memory.ts` | queue or slot, waiters, socket, iterator | bind, arrive, recv, close | closes and failures while receivers bind or wait | once and in order; nobody forgotten but where the code does forget |
| **HAL synchronisation** `hal/ipc.ts` | words of shared memory | lock, unlock, wait, signal, post | real parallelism; a notify between a look and a sleep | mutual exclusion, no lost wake-up |
| **VFS: tree** `vfs/vfs.ts`, `vfs/path-cache.ts` | mounts, cache of places, child keys in storage | resolve, create, unlink, setstat, load at boot | cache, keys and rows are changed in separate steps | the cache is a sound index and says what the table says |
| **VFS: open files** `vfs/models/entity.ts`, `kernel/handle/file.ts` | a copy of the contents, a position | open, write, seek, stream, close | the whole copy is put back at the close | what was stored goes only when a writer overwrites it; the row's size is the length |
| **EMS** `ems/entity-ops.ts`, `ems/ring/*` | entities in a database, transactions, caches | select, create, update, delete, revert, expire through rings of observers | read, await, write; one connection for all | caches follow commits |
| **Gateway** `gateway/gateway.ts`, `hal/network/*` | clients, each a virtual child of init; read buffers; streams by request id | accept, read, dispatch, respond, disconnect, shutdown | frames cut across chunks; requests run concurrently; clients that cannot ping | requests in order; a disconnect cancels all streams; every request is answered |
| **Services, tick** `kernel/services.ts`, `kernel/kernel/{activate-service,tick}.ts` | services, activation loops | load, activate, tick | handlers are spawned without a parent | as for processes |
| **HAL devices, block devices, timers, loader, OS layer, auth, LLM, audit, rom programs** | - | - | sequential wrappers, string work, external services | not modelled, see section 6 |

How they interact: a worker's message reaches `onWorkerMessage`, which refuses
zombies and foreign workers and runs `execute()`; `dispatch()` may await the
session's revalidation and then runs the handler in the same thread as every
other. Handlers call each other directly (exit closes handles, reparents,
notifies), share the process and handle tables, and interleave at their awaits
only. Timers, worker errors, the gateway's sockets and the host's calls enter
at the same points. Pipes, ports and open files sit behind handles: what they
yield goes through the stream controller, so that a cancelled call goes on until
its generator yields again. The tree of the VFS is rows of EMS, whose observers
keep the path cache.

## 2. What is modelled

An action is what runs between two awaits. A syscall is *accepted* in one
action and *begins* in a later one, as `dispatch()` may await in between. In
`IpcSync` threads are parallel and an action is one `Atomics` operation.

### ProcessLifecycle

| Model | Code |
|---|---|
| `state`, `exitCode`, `parent`, `virtual`, `worker`, `children`, `nextPid` | the fields of `Process` |
| `processes`, `initProcess` | `ProcessTable` |
| `liveWorkers` | workers started and not terminated |
| `wait` | calls of `wait()` and of the host's `wait`; the pending ones are `Kernel.waiters` |
| `timers`, `accepted`, `exiting`, `clients`, `phase` | armed grace timers, syscalls accepted and not begun, exits between their two halves, gateway connections, how far `shutdown()` is |

`spawn()` is `Spawn` (to the await of the worker) and `SpawnReady` or
`SpawnFails`; `exit()` is `ExitBegin` and `ExitEnd`; `forceExit()`, one
synchronous call, is an operator that `KillNow`, `GraceExpires`,
`ExternalKill`, `WorkerError`, `GatewayDisconnect` and `ShutdownKill` share;
`wait()` is `WaitZombie` or `WaitRegister`, `WaitTimeout` and the callbacks in
`ReparentAndNotify`; a wait keeps its target and, once over, the code it was told,
which for a host that asks after a process that has left the table is `"unknown"`
(`ExternalWait`, -1 in the code). The kernel process is init: it is registered first, has
no worker and makes no syscalls.

### HandleTable

| Model | Code |
|---|---|
| `fds`, `nextFd` | `proc.handles`, `proc.nextHandle` |
| `open`, `refs` | `Kernel.handles`, `Kernel.handleRefs` |
| `resource` | whether what is behind a handle is open |
| `opening`, `exiting`, `interrupting`, `closing`, `call` | handlers that are in an await |
| `saved` | the ids `redirectHandle` returned and `restoreHandle` has not put back, and the socket an accept took out of a descriptor: counts without a descriptor |
| `interrupted` | history: handles an `interruptProcess` has touched |

Every property of counts speaks of handles outside `interrupted`, because
`interruptProcess()` deletes handles whatever their count, under other processes
too. The shell is assumed to restore an id once, at the descriptor it came from.
`interruptProcess()` is reached from `ExternalProcessHandle.kill` and from
`shutdown()`; the module has the first, for processes without a parent. The end
of shutdown, where the tables are cleared, is left to ProcessLifecycle.

### SyscallStream

One streaming syscall, both ends of it. Kernel and worker are two event loops.

| Model | Code |
|---|---|
| `pc` | where `StreamController.wrap()` is: at its source, in `waitForResume()`, or returned |
| `itemsSent`, `itemsAcked`, `age`, `safety`, `aborted` | the controller's fields, `now - lastPingTime`, the timer of `waitForResume()`, its abort signal |
| `registered` | `streamPingHandlers` and `activeStreams` of the process have the request's id |
| `inFlight`, `up` | the two directions of the worker's `postMessage` |
| `entry`, `queued`, `processed`, `pinging`, `pingDue` | `pending.get(id)`, its queue, `stream.processed`, its interval timer |
| `loop` | the caller's `for await` |
| `endAt`, `terminal` | where the terminal response is, and what it is |

Actions are `SourceItem`, `SourceTerminal`, `SourceThrows`, `Swallow` and
`SafetyTimeout` (the body of `wrap()` and of `execute()` around it); `Receive`
with `OnPing`, `OnCancel`, `OnRequest` (`onWorkerMessage()`); `Signal`, `Exit`,
`ForceExit` (what ends of the process do to its streams); `Call`,
`DeliverItem`, `DeliverTerminal`, `AskNext`, `Leave`, `Ping` (the client in
`rom/lib/process/syscall.ts`).

Items are counted, not named: both channels are first in, first out, and the
terminal response comes last, so that a count says which items are where. Time
is counted in ping intervals (`Tick`): a message arrives in the interval it was
posted in, the kernel's timers are punctual, and the worker may be late with its
ping by any time. `StreamController.onCancel()` is never called: a cancel and a
signal abort the controller, and a stream that is paused then ends when its
safety timer fires, not before. `exit()` does not abort streams at all; the
zombie check in `execute()` ends them.

### WorkerPool

One pool, and `Kernel.leasedWorkers`.

| Model | Code |
|---|---|
| `idle`, `busy`, `waiters`, `pool` | the fields of `WorkerPool`, and whether `PoolManager` has made it |
| `thread` | the worker threads started and terminated |
| `lease`, `release` | calls of `leaseWorker()` and `workerRelease()` that are at an await, and what they hold there |
| `leased` | `Kernel.leasedWorkers` |
| `ended` | whether a process ended by `exit()` or by `forceExit()`; a lease or a release that was accepted before may still begin |
| `doubled` | history: workers that were given back twice |

`lease()` has no real wait but the one in `waiters`; its other awaits are over as
soon as the calls that began together have had their turn. Such calls exist: the
gateway starts every request of a chunk it reads before any of them goes on. So
`LeaseBegin`, `WarmPush`, `WarmEnd`, `Add`, `Track`, `ReleaseBegin` and
`ReleaseEnd` interleave freely, but for two facts that the order of the microtasks
gives: a release, which has one await, is over before a lease of the same worker,
which has three, is recorded; and `warmup()` awaits no event, so that while a call
warms the pool (`Warming`) only calls that came in the same turn begin, and find it
as the first did. The reaper is a timer and waits until all have gone on (`Quiet`).
`GiveBack` is the pool's `release()`, for one worker or for all those of a process.

`workerRelease()` keeps the map it found before its await; a map that has been
dropped meanwhile may be empty or not, and the model lets it be either (`gone`).

### IpcSync, over Synchronized

A mutex, a condition variable and a semaphore, one word of shared memory each, used
by threads that run in parallel.

| Model | Code |
|---|---|
| `lockWord`, `seqWord`, `semWord` | the words of `AtomicMutex`, `AtomicCondVar`, `AtomicSemaphore` |
| `asleep` | the waiter lists that `Atomics.wait` and `Atomics.notify` keep, first come first served |
| `pc`, `spins`, `timed`, `seen` | the `Atomics` operation a thread is about to do, and the locals of the call it is in |
| `holding` | threads whose last `lock()` returned |
| `owed` | history: who waited when a `signal()` stored, until one of them goes on |

`lock()` is `Lock`, `Acquire`, `Busy`, `LockWait`; `unlock()` is `Unlock`,
`UnlockNotify`; `wait()` of the condition variable is `Wait`, `WaitStore`,
`WaitNotify`, `WaitWait` and the `lock()` that follows; `signal()` and
`broadcast()` are `Add` and their notify; the semaphore's loops are `Load`,
`Decrement`, `Contended`, `SemWait`, and `Post`, `PostNotify`. `Sleep`, `Notify` and
`Leave` stand for the engine's `Atomics.wait` and `Atomics.notify`. The main thread
may not sleep: it spins, or gets a `TypeError`.

`Synchronized` says what the three objects promise: an owner, a set of waiters, a
count, and the operations as single steps. `ImplementsPromise` is the refinement,
with `owner`, `waiting` and `count` read off the words and the program counters.

### MessagePipe, over Conduit

| Model | Code |
|---|---|
| `messages`, `waiters`, `sendClosed`, `recvClosed` | the fields of `MessageQueue` |
| `pc`, `hand`, `cancelled` | a `handle:recv` stream: in `waiters`, its promise settled, waiting for `wrap()` to ask; what the promise settled with; its abort signal |
| `accepted`, `got`, `dropped`, `discarded`, `cancels` | history: the fate of each message |

`SendToWaiter`, `SendToQueue`, `CloseSend`, `CloseRecv` are the calls on either
end; `Open`, `WakeToEnd`, `WakeToMessage`, `WakeToNobody`, `GoOn`, `GiveUp`,
`Cancel` the receiving stream. `Conduit` is a bounded first-in-first-out pipe with
readers in line; `KeepsPromise` shows that the queue, whatever its readers do,
implements it.

### Ports

| Model | Code |
|---|---|
| `kind` | listener, udp, watch or pubsub |
| `queue`, `waiters`, `closed` | the queue and waiters of the port, or of the listener or subscription in the HAL below it |
| `socket` | udp: whether the socket is unbound, binding, open, failed or shut |
| `source` | watch: whether the VFS iterator runs, has ended or has thrown |
| `pc`, `hand`, `cancelled` | the `port:recv` calls |
| `arrived`, `got`, `dropped`, `discarded`, `cancels` | history: the fate of each message |

`Arrive`, `SourceStops` and `Bound` are the host's callbacks; `Recv`,
`RecvUnbound`, `RecvBound`, `Deliver`, `Drop`, `Refuse`, `Throw` the receivers;
`Close` is the four ports' `close()`, which differ: that of a subscription resolves
its waiters, that of a socket or watch port drops them (`forgotten`). One turn of the
event loop in a subscription's iterator is left out.

### Sigcalls

| Model | Code |
|---|---|
| `registry` | the map of `sigcall/registry.ts` |
| `caller`, `name`, `target`, `stage` | a call, up to its entry in `pendingSigcalls` |
| `inbox`, `handling`, `replies` | calls posted to the handler's worker, being handled, answered |
| `running` | processes that live |

The module ends where the code does: `OnResponse` drops the response.

### EntityStore

| Model | Code |
|---|---|
| `rows`, `detail`, `undo` | table `entities`, the detail tables, the open transaction of the one connection |
| `byId`, `childIndex`, `childrenOf` | `PathCache` |
| `index` | the keys `child:<parent>:<name>` in `hal.storage` |
| `job` | a task: the operation it is in and the statement it is at, with its locals |
| `born`, `undone`, `reverted`, `drifted`, `hidden` | history: ids given out; ids with a change a rollback or crash took back; ids that `revertAll()` brought back; ids whose updates overlapped or moved and renamed at once; ids whose key another took |

A task is a syscall. Creating is `CheckParent`, `Insert`, `CacheCreate`,
`AddChildIndex`; unlinking `CheckEntity`, `RemoveChildIndex`, `SelectToDelete`,
`Trash`, `CacheDelete`; an update `SelectToUpdate`, `Begin`, `UpdateRow`, `Commit` or
`Rollback`, `CacheUpdate`; and `Purge`, `Restore` for expire and revert. Statements of
other tasks join an open transaction, and a second `BEGIN` fails. `hal.storage` is a
second connection on the same SQLite file: its writes fail while a transaction is
open, and so does the task (`StorageLocked`). `Crash` rolls the open transaction
back, drops all tasks and loads the cache from the rows, as a boot does.

### OpenFiles

| Model | Code |
|---|---|
| `blob`, `size`, `undoSize` | `hal.storage` at the file's key; `size` in the detail row, `NoRow` once the row has expired; its value when the open transaction of another task began |
| `handle` | an `EntityHandleImpl` in its `FileHandleAdapter`: copy, position, dirty, flags, and how far its close is |
| `writes` | `write()` calls so far; what a call writes is a unit named by its number |
| `seen`, `mine`, `over`, `excused`, `parted` | history: contents at the open; units a handle wrote and where; units that were overwritten; whether closes overlapped or a rollback took a size back |

`Open` takes the copy; `Write`, `Seek` and `Recv` (a chunk of a stream) work on it;
`Close` puts it back if it was written to and `UpdateSize` writes the row. `Expire` of
another task deletes the row and leaves the blob. The close fails when it meets a
transaction or its row has gone, and the error is only logged.

### Gateway

| Model | Code |
|---|---|
| `conn`, `listening` | the handler of each client; whether the listeners are open |
| `wire`, `buffer` | bytes the client sent and the read loop has not read; `readBuffer` |
| `request` | each message: its client, its id, its form (a call, one that is answered with an error at once, or nil, which is not), and how far its `processMessage()` is |
| `streams` | `proc.activeStreams`: the request behind each id |
| `sent`, `begun`, `shared` | history: messages per client as written and as dispatched; requests that ran beside one with the same id |

A TCP frame is two units, a head (the length) and a body, and a chunk is any number
of units; a WebSocket message is a frame. `Arrive` is a turn of the read loop: it
appends the chunk, cuts the frames and starts each. `YieldItem`, `YieldLast` and
`Stall` are `execute()` with the stream controller of a client that never pings;
`EndOfClient`, `Shutdown` and an overflow of the buffer end a connection. The life of
the client's process is in ProcessLifecycle.

## 3. Runs

| Run | Instance | Shows |
|---|---|---|
| `tree` | 4 processes below one root, 2 waits, 2 syscalls of a process in flight, 2 processes busy; no shutdown, SIGTERM or worker errors | live parents list their registered children, a waiter reaps nobody but its target, no wake-up is lost |
| `lifecycle` | kernel process and 2 roots, 1 wait, every event on | a wait reports the code its target has then, and only an exit of its own changes a zombie's; workers match states, reaping is for good; SIGTERM is fatal and a wait for a zombie ends |
| `handles` | 2 processes, 3 handles, descriptors 0 to 2 of which 0 is stdio, `MAX_HANDLES` 2, a redirect or accept, 2 awaits in progress | counts balance, descriptors and saved ids resolve |
| `stream` | window 3, low mark 1, stall after 2 intervals, 5 items | items conserved, no wake-up or resume lost, gap bounded, only the silent stall; a caller's `next()` returns and dead streams end |
| `pool` | 3 processes, 3 workers, 2 leases and 2 releases at an await, min and max 1, one worker given back twice | workers are in one place and have one lessee, waiters are owed a worker, the pool's size stays near max |
| `ipc` | 3 threads, one of them main; 1 spin, semaphore made with 1 and bounded by 2, 2 signals or broadcasts | mutual exclusion, no wake-up lost, signals delivered, the refinement of `Synchronized`; a free lock is taken |
| `pipes` | 2 readers, mark 2, 4 messages, 2 cancels | each message has one fate, a cancel costs one, the refinement of `Conduit`; the end is seen |
| `ports` | all four kinds, 2 receivers, 3 arrivals, 2 cancels | each arrival has one fate, nobody is forgotten but by what is named; calls on a closed subscription or a failed bind come back |
| `store` | 2 tasks, 2 entities, 2 names, 3 syscalls, 1 crash | the cache is a sound index, and agrees with the table but for named causes |
| `files` | 3 handles, 2 writes, contents of up to 2 units | stored contents go only when a writer puts its copy back; the size is the length |
| `gateway` | a TCP and a WebSocket client, 3 requests, 2 ids, a buffer of 5 units, window 2 | requests begin once, in order, at once; a disconnect cancels every stream; calls are answered |
| `sigcall_answered` | 2 processes, 1 name, 2 calls | violated: the response to a sigcall is dropped |

Bounds, and why they are enough:

- `Proc`: reparenting needs a grandparent, a parent and a child; with the kernel
  process these are the four of `tree`. `Roots` are those that may start without
  a parent. `tree` and `lifecycle` are two runs because neither can afford what the
  other has: a waiter meets a pid used again only among four processes.
- `Waits`: two, so that two waits for a child, or waits of two callers, meet.
- `MaxInFlight`, `MaxBusy`: syscalls of a process that are accepted or inside
  `exit()`; two let a second `exit()` overtake the first. `MaxBusy` bounds how
  many processes have any.
- `Off`: kinds of event an instance leaves out, by name. Nothing in the proofs
  depends on it; `lifecycle` has none off.
- `MaxFd`, `MaxHandles`, `Calls`, `MaxAwaits`: descriptors of a process, its
  limit, redirects and accepts, and handlers inside an await. Two processes
  share a handle by inheriting; three handles are a pipe and a file; two awaits
  are an open that lands in an exit or an interrupt. `Off = {"late"}` leaves out
  opens that begin in a process that has ended.
- `HighWater` 3 and `LowWater` 1 leave room between a pause and a resume,
  `MaxItems` 5 is a whole window, the item that overruns it, and one more;
  `StallTicks` 2 makes late and too late different. The code has 1000, 100, 50
  and 5 s over 100 ms: the proofs are for any.
- `Lease`, `Release`: calls at an await, free again when they are over, so that two
  waiters, a hand-over that meets a lease, and two releases of a worker happen.
  `Worker` bounds how many are ever started: three, where the size is bounded by
  two. `MaxDoubled`: one worker given back twice, so that the others' properties are
  seen to hold beside it.
- `Thread` 3 is one that holds, one that sleeps and one that comes in between;
  `Spins` 1 has the spin and the sleep after it. `MaxSeq` and `MaxCount` bound the
  two words that only grow or go up and down.
- `Reader` 2, `MaxMessages` 4 and `HighWater` 2: a full queue with two messages
  handed over, to two readers; `MaxCancels` 2 cancels both.
- `Task` 2 overlap; two entities are a folder and what is in it; `MaxJobs` 3 lets a
  third syscall meet what two overlapping ones left. `MaxCrashes` 1.
- `Handle` 3 in `files`: a writer, another and a reader. Two writes are what two
  handles need to overwrite each other.
- `MaxRequests` 3 and `Id` 2: two requests that share an id and one that does not.
  `MaxBuffer` 5 is less than the three requests' six units, so that the buffer
  overflows. `HighWater` 2 lets a stream be found stalled and reach its mark.

Deadlock is checked in `stream`. In the other modules a finished system stops: every
process is reaped or a zombie, every client has gone, the bounds are used up.

### Fairness

What the code's own machinery does in the end is assumed, what a program
running on it does is not.

- ProcessLifecycle: a grace timer fires, the close that `exit()` awaits settles,
  and the synchronous kill loop of `shutdown()` runs to its end. A process need
  never exit, wait or spawn, and a worker need never come up.
- SyscallStream: both event loops run, posted messages arrive, intervals pass. The
  handler yields or throws in the end (a receive on a port that stays empty is
  outside this), a caller that does not leave its loop asks for the next item,
  and the grace timer ends a signalled process (`TermIsFatal`). A caller may
  leave, a process exit or be killed at any time, or never.
- IpcSync: a thread that is inside `lock()` or `unlock()` runs. No caller has to
  begin a call, no timeout has to end. The loops of the semaphore, where compare and
  exchange may fail for ever, have no liveness property.
- MessagePipe: settled promises are run (`Wake`). Nobody has to send, ask or close.
- Ports: a bind settles, one way or the other, and so does what has been resolved.
- Sigcalls: messages to a worker that lives arrive, handlers come to an end.
- Gateway: bytes that were sent arrive, a socket that `shutdown()` has ended is seen
  to be closed, timers fire, and a syscall yields its last response in the end. No
  client has to send or leave.

## 4. Proofs

`*Proofs.tla` prove, for all values of the constants and under the module's named
assumption only (`ProcAssumption`, `HandleAssumption`, `StreamAssumption`,
`PoolAssumption`, `IpcAssumption`, `PipeAssumption`, `PortAssumption`,
`StoreAssumption`, `FileAssumption`, `GatewayAssumption`), every invariant, action
property and refinement that the runs check on small instances, and what no run has
room for: invariants (`PidsUnique`, `FdLimit`, `FdNeverReused`, `Tracked`,
`RenamesSurvive`) and the safety half of some of the liveness properties, named below.
`GatewayAssumption` says that an id without a stream is told from one with a request.
`ProcessProofs` holds the proofs of ProcessLifecycle and, as its clients are processes,
Gateway; `StorageProofs` those of EntityStore and, as a file is an entity, OpenFiles.
The two components of a module share lemmas of the library, not theorems, and their
definitions have different names so that one module can extend both.

- **ProcessLifecycle.** Each invariant is preserved given those before it:
  types, then `TableConsistent` (only started processes are registered, have
  calls, workers or waiters; exit runs on zombies; zombies have codes), then
  pids, waiters, statuses, workers. `InitOutlivesSystem` and `LiveChildListed`
  need `KernelIsolated`: nothing names the kernel process, which takes pids
  being below `nextPid`, and a new child never being the kernel. `StatusReported` is
  an action property with two halves: what a wait is told as it returns (`Reports`,
  action by action: its target is a zombie in the next state, and the code is that
  zombie's), and that a zombie's code is rewritten by an `exit()` of its own and by
  nothing else (`ZombieKeepsCode`). An action property no run states is
  `TermsEndInDeath`: a grace timer goes as its target dies or once it is dead, which
  leaves to `TermIsFatal` that the timer fires. It needs `ArmedAreStarted`: a timer
  that found its target starting would do nothing.
- **HandleTable.** `IInv == TypeOK /\ Shape /\ Balance`. `Accounting` alone is not
  inductive: a handle being entered must have had no descriptor (`Fresh`), an
  unref must not close a counted one (`CountedIsOpen`), and what
  `interruptProcess()` drops must be in `interrupted` (`ClosingTouched`).
  Counting lemmas say what a changed descriptor does to
  `Cardinality(MappedTo(h))`.
- **SyscallStream.** `IInv` adds to the checked invariants where the terminal
  response can be (`Ends`), what the kernel's record says of itself
  (`Streaming`), that pings grow in the channel and a client that has gone has
  posted a cancel (`Channel`), that a stream being read is below its bound
  (`ReadingGap`), and that the kernel's idea of silence is never longer than the
  client's, whenever no ping is on its way (`Silence`): `StallOnlyWhenSilent`
  rests on the last.
- **WorkerPool.** `PoolInv` has the types, the queue (`Queued`, `Distinct`), that one
  call warms a pool (`OneWarms`) and `Owed`: while someone waits nothing is idle and
  a worker is busy or on its way. On it rests `PlaceInv`: a worker that was not
  given back twice is in exactly one of idle, busy and a call's hand (`Single`), and
  whoever is on record for it, or about to be, is alone (`Exclusive`). `Tracked`
  needs `KnownInv` besides: a worker that is being released is still on record,
  which fails once a worker has been given back twice. `SizeBounded` rests on
  `SizeInv`: every live worker, given back twice or not, is counted by the pool or
  carried by a call (`LiveSize`), so that a lease that starts one leaves room for
  the other leases in progress and no more.
- **IpcSync.** `LockInv`: the sleepers' lists and program counters agree, and
  whoever will store 0 holds the mutex. `SignalDelivered` is inductive with `Seen`
  (nobody has read a sequence number from the future) and `Owed`: those a signal is
  owed to wait, and of the sleepers they are the first. `UnitsAreOffered` takes
  counting lemmas for threads that come and go at the semaphore. The refinement
  has a lemma per step: an operation of `Synchronized`, or a stutter.
- **MessagePipe, Ports.** `QueueInv` and `PortInv`: the queue holds the last messages
  that came, by number, which leaves the earlier ones to `Fates` (each is in one
  place) and `Ordered` (what a reader has in hand is later than what it got). For
  Ports the same holds whatever kind of port it is. `KeepsPromise` is proved step by
  step from `QueueInv`, and so is the safety half of `EndIsSeen`, `SleepersMissNothing`:
  a reader asleep is listed once, beside an empty queue with an open send end.
- **EntityStore.** `StoreInv`: tasks have what their next step needs (`Jobs`), a task
  in a transaction owns it and its row is not yet changed (`Undoing`), no two
  entities share a place (`PlacesUnique`, the table's UNIQUE constraint, also in what
  a rollback would bring back). `CacheSound` needs to speak of parents that the cache
  has not been told of yet (`Family`, `Telling`): a child can be cached before its
  parent. `CacheFollowsTable` is proved from `FollowInv`, what each task that has
  read, written or committed a row knows of its place (`Follows`: the next one to
  tell the cache finds there what it has read), and `CachedInv`: who is still to add
  or to purge a live entity without an entry.
- **OpenFiles.** `FileInv`. A unit has one position wherever it is copied to
  (`Placed`), since a handle writes each at its own; a handle that writes has in its
  copy what it has written itself, and what it copied wherever it has not written over
  it (`Working`): so what its close stores lacks a unit of another handle only if that
  was not in the copy, was cut or was overwritten, which is what `excused` records.
  `StoredUntilOverwritten` follows for the stored contents. `SizeTellsLength` speaks of
  the time between closes and is not inductive: `OneFlushes` says that, unless closes
  overlapped, the one under way has the stored contents as its copy, whose length it is
  about to write.
- **Gateway.** `GatewayInv`, in four steps. `Delivering`: what a client has written and
  the handler has not begun is on the wire or in the buffer, in order, two units for
  each, so that cutting the buffer gives the next requests (`RequestsInOrder`; the
  arithmetic of halves is in lemmas of its own). `Messages`: each message is written
  once and waits as `sent`, so that a frame is always a new request. `Tabled`: of the
  requests that run, one that is alone under its id is behind that id in the table,
  although `Dispatched` puts in all requests of a chunk at once and the last one under an
  id wins. `StreamsCancelled` then holds as a disconnect aborts what is in the table.
  For what becomes of a request, `Owning`: a table holds requests of its own client,
  and a request is aborted only as its client goes. On it rest two action properties
  no run states: `FatesStay` (a request that is over stays as it ended) and
  `DropsAreExcused`, the safety half of `RequestsAreAnswered`: no call is dropped
  without a response while its connection is open, also when another shares its id
  (a response that a WebSocket refuses is `refused`).

Only model-checked, as liveness under fairness is out of the prover's reach:
`TermIsFatal`, `WaitOnZombieEnds`, `NextReturns`, `StreamEnds`, `FreeLockIsTaken`,
`EndIsSeen`, `CallsComeBack`, `RequestsAreAnswered`, and `CallsAreAnswered`, which the
code violates. ENABLED, induction over data and recursive operators are out of its
reach as well; no module here declares one.

## 5. Where code and documentation differ

The run `sigcall_answered` violates a statement of the repository, which
`PROJECT.json` quotes. Other differences met while modelling, not the subject of a
run:

Processes and handles

- A spawn that lands after its parent's exit registers a child of a zombie, which init
  never adopts (`spawn.ts:153`; `get-ppid.ts:67-69` says that it does).
- `exit()` of a process that was killed overwrites the code of a zombie (`exit.ts:142`),
  so that two waits for it may report different codes: `StatusReported` says that
  nothing but such an exit does. `exit()` keeps the leased workers of its process.
- Zombies below init are never reaped: init is the kernel process, which makes no
  syscalls, and `ProcessTable.getZombies()` has no caller.
- The parent of a virtual process can change by adoption, though its worker is
  still that of the creator.
- `shutdown()` clears the table while spawns may be awaited (`kernel.ts:753`); the first
  to land afterwards is registered as init, and pending waits are dropped unanswered.
  The model does the same; no property says what a table that is down should hold.
- `restoreHandle()` can leave a handle open with no count, `interruptProcess()` closes
  handles under other processes, `accept` takes the socket's descriptor away without
  giving up its count. `EMFILE` when an open lands leaks the resource it opened, and a
  child whose worker fails leaks the counts of its inherited stdio.

Streams, sigcalls and the gateway

- The buffer of a stream is not capped by the high-water mark: each pause that the
  safety timer ends lets one more item out. `GapBounded` is what holds.
- `unregisterAll()` runs in `forceExit()` only: a name stays with a handler that called
  `exit()`. `routeToUserspace()` stops when the call is done and would drop the
  responses still queued, had any been routed.
- INV-3 of the gateway ("cancel active streams") fails for requests that share an id,
  which requests without one do ("unknown", `gateway.ts:761`): only the last is known.
- A client of the gateway cannot ping, so that a stream of more than 1000 items, or
  one that is at a later item 5 s after its first, ends with `ETIMEDOUT`. On a
  WebSocket a send refused for backpressure ends the request without a word. So does a
  message that is msgpack's nil: `gateway.ts:761` throws outside the `try`, and the
  rejection is swallowed (`:583`, `:684`).
- `recv()` of a message pipe never looks at `recvClosed`: a reader that is held between
  two items while its end is closed, and then goes on, sleeps (`message-pipe.ts:310`).
  `EndIsSeen` is about the send end only.
- `close()` of a TCP listener leaves a pending `accept()` waiting, and with it the
  accept loop.

Pool and shared memory

- `LeasedWorker.release()` is not idempotent, as `release-worker.ts:42` has it: a worker
  given back twice is twice in `idle`, and two processes get it. `OnePlace` and
  `OneLessee` say that nothing else has that effect.
- A pool passes its `max` (`pool.ts:38`) when leases start together; `SizeBounded` is
  what holds instead. Pool configurations are not validated: `min` may exceed `max`.
- A worker's first message is `ready`; a `load()` that is sent before it arrives
  takes it for a failed load.
- Constructing an `AtomicMutex` or its siblings over shared memory resets the word
  (`ipc.ts:631`): a second worker that attaches frees a held lock.
- `BunBlockDevice` reads, changes and writes the whole file (`block.ts:572`), so that
  writers under disjoint range locks lose updates. Nothing uses the device.

VFS and EMS

- A move and rename in one update moves the row and leaves the cache where it was, for
  good (`path-cache.ts:577`, against INV-4 of that file), as two overlapping updates of an entity
  and `revertAll()` can.
- `computePath()` (`path-cache.ts:383`) does not end on a folder that was moved below
  itself, and nothing forbids such a move.
- A lookup that finds nothing in the cache takes a key of the storage on trust
  (`vfs.ts:1384`), even of an entity that has moved away.
- `storage.put()` fails while a transaction of EMS is open on the same SQLite file: a
  close then loses the contents, which only the log tells (`unref-handle.ts:138`). The
  close of a file whose row expired while it was open stores its copy all the same and
  then fails with ENOENT, or updates no row: the blob is left without a row.
- Appends of two handles are not both kept, though `vfs/handle.ts:130` promises it:
  each puts back its own copy. A file opened for truncation is cut only once it is written to
  and closed. `exclusive` is ignored, and redirections with `append=false` do not
  truncate (`create-io-target-handle.ts:177`).
- `EntityModel.watch()` throws `ENOSYS`: a watch port on entities leaves its receivers
  waiting. `matchTopic()` of the pub/sub patterns is used by tests only.

## 6. What is not modelled

- **HAL**: consoles, clocks, entropy, timers, HTTP, SQLite and PostgreSQL channels are
  wrappers of one host call each; the models keep the await and its two outcomes. Block
  devices have no user. `AtomicMutex` and its siblings are modelled once attached;
  attaching is in section 5. Their Mock classes are for tests.
- **Loader, OS layer, LLM, audit, auth**: string work, sequencing of boot, requests to
  external services, append-only records, tokens stored in EMS. Revalidating a session
  is the await before a syscall begins.
- **VFS**: access control lists, mounts (host, proc, entity; sequential lookups), and
  files of hosts and devices. Resolving a path is one step, where the code awaits a
  lookup for each name. Symbolic links and renames throw `EPERM` and `ENOSYS`.
- **EMS**: queries, validation, transforms, models and fields, the model cache. What
  runs concurrently there, the rings around an update, is in EntityStore.
- **Worker pool**: the messages between a lessee and its worker (load, ready, recv,
  reset).
- **Programs in `rom/`**: the shell, awk, the coreutils are sequential text processing
  on top of syscalls. They, the performance suites and the tests are most of the
  repository's lines: what the modules map is a small share of the whole and most of
  what runs concurrently in the kernel.
- Growth without bound (zombies of init, leaked handles) cannot be a property of a
  finite instance. Time is ordered, not measured, but for the ping intervals of a stream.

## 7. Plan

1. `PoolSession`: what a lessee hears from its worker is of its own lease.
2. Attaching to shared memory while others use it, for IpcSync.
3. Resolving a path name by name, beside creation and unlinking.
4. A specification of Gateway as its clients see it (a request has one fate, in the
   order of its connection), and the step simulation from Gateway to it.
