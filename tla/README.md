# Verification of the pith runtime

Pith is a self-hosted, natively compiled language; its compiler is written in
pith (`src/self-host`), its standard library in pith (`src/std`) and its code
generator and runtime in rust (`src/cranelift`). The part of it that a unit test
cannot settle is the concurrency runtime in `src/cranelift/runtime/src`: green
tasks multiplexed over worker threads, the synchronisation primitives that park
and wake them, the network poller and the reference counts. This directory
models that runtime in TLA+, checks small instances with TLC and proves what
TLAPS can prove.

Paths below are relative to `src/cranelift/runtime/src/` unless they start with
`src/`.

## 1. Inventory

### The parts, their state and their operations

| Part | Source | State | Operations |
| --- | --- | --- | --- |
| scheduling word | `concurrency/green/{task,wake,run}.rs` | one 64-bit word per sync block: run state, wake and preempt flags, owner worker | `wake_step`, `after_yield`, the claim in `run_task`, `set_preempt` |
| green tasks | `concurrency/green/{mod,task,run,wake,worker,queues}.rs`, `concurrency/scheduler.rs` (handles) | arena of sync blocks (word, coroutine, join record), id pools, injector, per-worker `local`, `pinned`, `deferred` | spawn, `run_task`, yield, `wake`, `wake_in_place`, `wake_with`, finish, await, detach, steal |
| worker pool | `concurrency/green/{worker,wake,queues}.rs` | parked flags, search tokens, the count of searchers, streaks, turn counters | `find_work`, steal, spin, park, `wake_worker`, `notify_one_worker` |
| monitor | `concurrency/green/preempt.rs` | per-worker epochs, coarse preempt flag | tick, `maybe_yield` |
| Mutex | `concurrency/mutex.rs` | word 0/1/2, waiter list under a lock of its own | lock, unlock |
| Semaphore | `concurrency/semaphore.rs` | count, max, condvar, fifo of green waiters | acquire, release |
| WaitGroup | `concurrency/waitgroup.rs` | count, condvar, green waiters | add, done, wait |
| buffered channel | `concurrency/channel.rs` | lock-free ring, closed flag, two gates, channel lock, two waiter lists, handoff cell in a block | send, recv, try_send, try_recv, close |
| unbuffered channel, select | `concurrency/channel.rs`, `src/self-host/ir_emitter_core.pith` | pending value, announced receivers, delivery count | the same; a select probes |
| handle counts | `concurrency/sync_handle.rs`, `concurrency/channel.rs` | a reference count per primitive, tagged pointers | retain, release, the count a parked operation holds |
| os-thread tasks | `concurrency/task.rs` | slab of slots with generations | spawn, await, detach |
| fd handles | `fd_handle.rs` | one word per descriptor number: generation, open bit, users | open, acquire, release, close, `finish_close` |
| network poller | `netpoll.rs`, `fdio.rs`, `netpoll_fallback.rs` | per worker: registrations and ready bits, waiters, deadlines; the notified flag, mode and eventfd of its wait | `wait_io`, `poll`, `idle_wait`, `notify`, `on_close` |
| blocking pool | `blocking.rs` | a slot per offloaded call | submit, claim_park, complete |
| struct counts | `runtime_core.rs` | strong and weak count, dead and buffered bits in a struct's header | retain, release, weak retain, weak release, upgrade |
| the stop of the world | `cycle.rs` | a slot per mutator, `GC_STOP`, the gate, the control record of forced collections | gate, native bracket, spawn, exit, stop, release, `collect_now` |
| heap and cycle collector | `cycle.rs`, `runtime_core.rs`, `collections/{list,map}.rs` | values and their counts, suspects, graveyard, overflow | suspect, drain, trial deletion, teardown, the death of a value |
| contexts, resilience, shutdown | `src/std/*.pith` | error cell, breaker and limiter counters, drain counters | cancel, deadline, allow, drain |

`PROJECT.json` lists all of them, and the parts outside the runtime, with the
reason where one is not modelled.

### How they interact

- A **block site** (mutex, semaphore, wait group, channel, await, poller)
  registers the task in a list of its own, drops its lock and calls
  `park_current`, which switches to the worker loop. The worker puts the
  coroutine back into the block and then moves the word from Running to Parked,
  or back to Ready if a flag was set meanwhile.
- A **wake** of a task is one CAS on the same word: Parked becomes Ready and the
  waker enqueues the task, Running keeps a flag, Ready and Done are left alone.
  The waker needs no lock of the site it wakes for, and a site does not know
  who else may wake the same task. So every site sees *stray* wakes and has to
  re-check its condition in a loop.
- A task that was never resumed has no stack and may run anywhere; a started one
  is pinned to the worker its word names, unless it is stolen from that worker's
  `pinned` fifo, or moved by its waker when migration is on.
- A buffered channel may pop a *receiver* off its list, claim it as a wake would,
  dequeue the ring for it, put the value in its block and only then enqueue it.
- Os threads (main, offloaded calls) use the same primitives through condvars
  and spinning.
- A worker without work sleeps in **its own poller**. Whoever queues work it may
  run reads its parked flag after the push; the worker raises the flag before its
  last look at the queues. A `notify` reaches a worker through a condvar or an
  eventfd, whichever it waits on.
- A green read that would block registers its descriptor number with the poller
  of the worker it runs on and parks. An edge, a deadline or a close takes the
  waiter off and wakes it. **Close** and the last call inside a descriptor decide
  on one word who calls close(2), after which the kernel may hand the number out
  again.
- A **release** that is not the last may make its struct a *suspect* of the cycle
  collector. The collector runs on a thread of its own while every mutator is
  parked at a gate, inside a native bracket, or gone. A `Drop` method that a
  destructor runs is ordinary code with gates in it, so a collection may find a
  destruction half done.

### What is hard about it, and what correct means

| Part | Hard behaviour | Correct means |
| --- | --- | --- |
| scheduling word, green tasks | wakes race suspension, stealing, finishing and the reuse of blocks | one holder per runnable task; none lost; none resumed without its coroutine; a stale id or handle reaches nothing |
| worker pool | sleeping against enqueuing | no queued task while every worker that may run it sleeps |
| Mutex | `swap(0)` comes before the list lock | exclusion; no task parked on a free mutex |
| Semaphore | one wake per permit, of either kind of waiter | permits conserved; no permit free beside a waiter with no wake to come |
| WaitGroup | re-listing against draining | nobody left at zero |
| channels | lock-free ring against gates and parking; a receiver woken with a value; close | bounded fifo, each value at most once; nobody parked beside what it waits for; a send answers truly |
| handle counts | release against a parked operation | freed once, after the last user |
| fd handles, poller | close, deadline and readiness race; the kernel recycles numbers | a number belongs to the calls inside it; no parked reader beside data, or on a closed handle; reads on a closed handle return |
| struct counts | release, upgrade, the suspect hook and the collector's drain race | one destructor, after the last owner; the header lives as long as anyone reads it |
| the stop of the world | the scan is not atomic; threads come, go and leave brackets meanwhile | nobody runs beside a collection; every forced collection is answered |
| collector | a heap in the middle of a destruction; shared, doubled and cyclic edges; a full buffer | frees what nobody can reach and nothing else; counts exact afterwards |

The hazards, line by line, with the properties that would catch each, are in
`PROJECT.json`.

## 2. Plan

Order of work, most important behaviour first:

1. `SchedWord`, `GreenTask`, `TaskFuture` (done): everything else parks and wakes
   through the scheduling word.
2. `PithMutex`, `PithSemaphore`, `PithWaitGroup` (done).
3. `BufferedChannel`, `BoundedFifo`, `UnbufferedChannel` (done).
4. The proofs of the scheduler and of the locks: `SchedulerProofs`, `LocksProofs`
   (done).
5. `WorkerPool`, `RunQueues`, `PollerPark`: looking for work, sleeping and being
   woken, the order inside one worker's queues, the notify (done).
6. `FdHandle`, `NetIo`: readiness, deadline and close for parked readers on a
   number the kernel recycles (done for reads; writes and connects wait the same
   way, pure timers do not touch a descriptor).
7. `StructCount`, `WorldStop`, `TrialDeletion`, `CycleHeap`: counts, the stop, and
   the collector on a heap with a mutator (done).
8. The proofs of 3, 6 and 7: `UnbufferedChannelProofs`, `BufferedChannelProofs`,
   `ChannelProofs`, `NetIoProofs`, `StructCountProofs`, `MemoryProofs`, and of the
   worker pool, in `SchedulerProofs` (done).
9. `SyncHandle` (the count a parked operation holds), `OsTask` (slot reuse of the
   os-thread backend), the blocking pool's `Slot`.
10. `Context`, the circuit breaker and limiter, the shutdown drain.

Abstract specifications: `TaskFuture` (a handle), `BoundedFifo` (a buffered
channel), `Garbage` (what trial deletion computes, as a definition).

Items 1 to 8 are done; 9 and 10 are open. The safety properties of the passing
runs are proved, but for the collector's and some types (section 5, "Only model-checked").

## 3. Modules

| Module | Models | Lines |
| --- | --- | --- |
| `SchedWord` | the word as a record and the decisions on it; instantiated by every module that parks | constant module |
| `GreenTask` | blocks, queues, workers, await and detach | state machine |
| `TaskFuture` | what a handle promises | abstract |
| `PithMutex` | lock and unlock, step by step | state machine |
| `PithSemaphore`, `PithWaitGroup` | a section under the primitive's mutex per step | state machines |
| `BufferedChannel` | ring, gates, parking, handoff, close | state machine |
| `BoundedFifo` | what a buffered channel promises | abstract |
| `UnbufferedChannel` | the rendezvous, and the probes of a select | state machine |
| `Procs` | who uses a primitive: tasks, os threads | constant module |
| `WorkerPool` | find, steal, spin, park, wake, tokens and searchers | state machine |
| `RunQueues` | slot, fifo, streak, turn counter of one worker | state machine |
| `PollerPark` | `idle_wait`, `poll`, `notify` of one worker | state machine |
| `FdHandle` | the word of a descriptor number and the decisions on it | constant module |
| `NetIo` | reads, pollers, deadlines, closes and the kernel | state machine |
| `StructCount` | the header of one struct | state machine |
| `WorldStop` | slots, gates, brackets, the stop, forced collections | state machine |
| `Garbage` | reachability, inner counts, what nobody owns | definitions |
| `TrialDeletion` | mark, scan, scan_black with their worklists | state machine over all small graphs |
| `CycleHeap` | values, destructions, suspects, a collection | state machine |
| `MCScheduler` | `GreenTask`, `WorkerPool` | instances |
| `MCLocks` | `PithMutex`, `PithSemaphore`, `PithWaitGroup`, `PollerPark` | instances |
| `MCBufferedChannel` | `BufferedChannel` | instances |
| `MCProgress` | `UnbufferedChannel`, `RunQueues`, `NetIo`, `WorldStop`, with fairness | instances |
| `MCMemory` | `StructCount`, `WorldStop` | instances |
| `MCRuntime` | `NetIo`, `MCMemory`, `CycleHeap`, `TrialDeletion` | instances |
| `SchedulerProofs` | theorems of `GreenTask`, which implements `TaskFuture`, and of the worker pool | proofs |
| `LocksProofs` | theorems of `PithMutex`, `PithSemaphore`, `PithWaitGroup`, `PollerPark`, and of the four parts of `MCLocks` together | proofs |
| `BufferedChannelProofs` | theorems of `BufferedChannel`, which implements `BoundedFifo` | proofs |
| `ChannelProofs` | the same for the behaviours of `MCBufferedChannel` | proofs |
| `UnbufferedChannelProofs` | theorems of `UnbufferedChannel` | proofs |
| `NetIoProofs` | theorems of `NetIo` | proofs |
| `StructCountProofs` | theorems of `StructCount` | proofs |
| `MemoryProofs` | theorems of `WorldStop`, and those of `StructCount`, for the behaviours of `MCMemory` | proofs |

An `MC` module that names several modules runs one of them per behaviour, chosen in
the initial state (`part`); the others stay in their initial state. They are
parts that meet only through the scheduling word, or not at all, and that is
modelled where it matters: a primitive sees stray wakes, a worker sees readiness
that is none of the pool's business. `NetIo` composes descriptor slots, pollers,
workers and scheduling words; `CycleHeap` composes counts, destructions and the
collector.

### Correspondence with the code

**What a step is.** One atomic operation on a shared word, or one section under
a lock. Where the code holds a lock over several operations that others can
tell apart (`finish_task` waking awaiters under the join lock, a channel trying
the ring under its lock, an unlock draining its list), the model holds it over
several steps. Steps that touch only the process's own state are merged into
the next shared one.

**GreenTask.** `word`, `coro` and the join variables are the fields of a
`SyncBlock`; `queue` has one entry per run queue; `pc` and `cur` say where each
worker is between `find_work` and the end of `run_task`. `claimed` is a task
between the CAS that made it Ready and the push on a queue. `want` is the handle
an awaiter is inside `green_await` for. A body is any sequence of spawns, wakes,
awaits, detaches, safe points and blocks. Every queue is a set: the order inside
a queue bears on fairness only, and any pop the code can make is one the model
can make. `issued` and `takes` are history.

**Mutex.** `Contend`, `Mark`/`Retry` and `Register` are the steps of the green
slow path: the failed CAS, the mark under the list lock, the list entry.
`Unlock` is the swap, `DrainStart`, `DrainWake`, `DrainEnd` the drain.

**Semaphore, WaitGroup.** `Take`/`Block` (`Return`/`Block`) are what acquire
(wait) does under the mutex, on entry and after each wake. `notify_one` picks
any waiting thread; a condvar may also return for nothing.

**BufferedChannel.** `enq`, `deq`, `seq`, `cell` are the ring. A claim (CAS of a
position) and its publication (store of the slot's sequence) are separate steps,
which is where two senders can overtake each other. `gate` is the pair
`parked_senders`, `parked_receivers`. `Slow` to `Register` are the parking path
under the channel lock; `GateShut`/`GateOpen` to `WakeRole` are `wake_parked`
with the direct handoff (`WakeHandoff`, `Fetch`, `Deposit`, `HandoffEnqueue`).

**WorkerPool.** Tasks are counted, not named: `injector`, `local`, `pinned`,
`deferred` are numbers, `unborn` tasks may still be spawned, `asleep` ones woken.
`pc` is where a worker is in `worker_loop`; `act` is a call into the scheduler that
an enqueuer is in the middle of: it has pushed (`search`), looks for a parked
worker (`scan`), has chosen one (`mark`: token swapped, flag not read yet) or is
about to notify it (`nudge`); or a theft (`steal`): `Watch` saw a busy peer, and
`StealPinned` pops from its queue later, when the peer may have gone on. The park's
timeout is a step that may always happen. `Seek` takes a searcher's slot,
`StopSearching` and `GiveUp` give it back; `LastLook` is the look after that, `Recheck`
the one after the parked flag is up.

**RunQueues.** `PopPinned` takes the affinity slot or the fifo by the streak;
`FindWork` asks the queues in the order the turn counter says, and a pop that finds
no pinned task ends the streak too. One worker, no thieves: the question is order.
`POLL_EVERY` and `MAX_AFFINITY_STREAK` are 2.

**PollerPark.** `Swap`, `ReadMode`, `Signal`, `Write` are a notifier; `ParkFutex` to
`Awake` the wait of a worker with nothing registered, `ParkEpoll` to `Leave` that of
one with something, `Consume` the end of both.

**FdHandle, NetIo.** `slot` is the word of the one number, a record; every
transition of it is one compare-exchange. `number` is the description the kernel
has on the number (a generation or free), `rx` whether there is something to
read, `inSet` and `edge` the epoll set of each worker's poller, `fds` the poller's
own map with its ready bits, `waiters` its list. `Register` and `Ask` are the two
halves of `wait_io` before it parks, `EpollWait`, `Take`, `Wake`, `Polled` a poll,
`Close`, `Shutdown`, `Sweep`, `Swept` a close, with `finish_close` for the last one
out. A wait that something else woke leaves a `stale` entry behind.

**StructCount.** One shared struct; a step is one load or one read-modify-write.
`LoadStrong` and `LoadWeak` are the two loads of the sole-owner check, `Suspect`,
`Mark`, `TakeWeak`, `Queue`, `Discard` the suspect hook, `Down` the decrement,
`Destroy` to `SetDead` the destructor under its guard count, `DropLoad`, `DropSub` a
weak drop. `EarlyDrop` says whether a reader may give the weak reference up while
it keeps what it upgraded.

**WorldStop.** A step is one access to a slot or `GC_STOP`, or a section under the
gate, the registry's lock or the control lock. `Scan` reads one slot;
`Rescan` starts over, `Deadline` may pass at any time, `GiveUp` is what follows it.
`born` is a thread between its registration in the spawner and its first
instruction. `late` is history: who was leaving a park when the stop was asked for,
and the threads those spawn. A slot that is reused by anyone else is no longer late.

**TrialDeletion, Garbage.** The worklists are sequences as in the code; `Painted`
takes counts off or puts them back once per edge. `Garbage.Unowned` says the same
without an algorithm, and `CycleHeap` uses that in its `Condemn`.

**CycleHeap.** `stack` holds the destructions under way, innermost first: the value,
which child is next, and whether the destruction frees the value (a release) or
leaves it to the collector's last pass. A list stands for the kinds without a
header of their own (lists, maps, closures): their box stays in the graveyard
while the buffer points to it. `MayOwn` says which types have fields of which. The
two guards are the code's: `DtorGuard` on a struct that is released for the last
time, and the smaller `WhiteGuard` on garbage, which a weak reference can still
upgrade. `Sweeping` is a `Drop` method that the collector runs: it may upgrade and
release garbage, and lets go of what it took before it returns.

**UnbufferedChannel.** `stage` is what an operation is doing (offering, having
deposited, taking, selecting), `pc` whether it runs, waits or is on its way back
to the lock. `before` is `handoffs_before`.

### Abstractions

- Memory is sequentially consistent. The code uses SeqCst fences at its Dekker
  pairs and ships loom models of them; the orderings themselves are not checked
  here.
- Task bodies, results and values are model values; panics are the result 0.
- A step that only retries (a lost CAS, a failed spin) is no step.
- Only legal use is modelled where the code checks nothing: the holder unlocks a
  mutex, a release follows an acquire.
- Stray wakes are allowed everywhere a task may be parked or about to park: other
  sites cause them by entries they leave behind.
- The read direction stands for both in `NetIo`; how long a deadline is does not
  matter, a registered one may expire at any moment.
- A heap operation is one step in `CycleHeap`, because a collection runs only while
  the world is stopped; what the parts of one operation do to each other is in
  `StructCount`, whether the world is stopped in `WorldStop`.
- Reuse of a block is bounded (`MaxGen`), so the wrap of the generation at 2^31
  and of the ring positions at 2^64 are not reached.

## 4. Runs

| Run | Module, cfg | Instance | Shows |
| --- | --- | --- | --- |
| `green_task` | `MCScheduler` | tasks: 2 workers, 1 os thread, 2 blocks used twice each, migration on; pool: 2 workers, a thread outside, 2 tasks | `ClaimProtocol`, `Placement`, `AwaiterListed`, `FreeIsDead`, `ResultOnce`; `SearchersCounted`, `WorkSeen` |
| `green_live` | `MCScheduler`, `LiveGreenTask.cfg` | 1 worker, 1 os thread, 2 blocks used once | the scheduler implements `TaskFuture`; `AwaitReturns` |
| `locks` | `MCLocks` | 2 tasks and 2 threads; 2 permits; adds of 1 and 2; 2 notifiers | `MutualExclusion`, `WaiterCovered`, `PermitsKept`, `NobodyLeft`, and progress of each |
| `buffered_channel` | `MCBufferedChannel` | 2 senders, 2 receivers, one green and one os each, 2 slots for a capacity of 1; or 1 sender with 3 values on 2 slots | `ParkedSound`, `NoMissedWake`, the channel implements `BoundedFifo` |
| `progress` | `MCProgress` | 2 senders and 2 receivers without a buffer; 3 tasks on one worker; 1 reader, 1 closing thread, 1 poller; 2 mutators | `SendHonest`, `NoMissedRendezvous`, `Rendezvous`, `EveryoneRuns`, `ReadReturns`, `ForcedReturns` |
| `runtime` | `MCRuntime` | see below | `NumberHeld`, `NoLostReadiness`, `DestroyedByLast`, `HeaderHeld`, `StoppedButLate`, `NoDangle`, `CountsExact`, `GarbageFound`, `WhitesExact` |
| `waitgroup_correction` | `MCLocks`, `AddCorrection.cfg` | as `locks`, and an add of -1 | violated |
| `unpublished_head` | `MCBufferedChannel`, `UnpublishedHead.cfg` | 2 os senders, 2 green receivers | violated |
| `select_recv` | `MCProgress`, `SelectRecv.cfg` | 2 senders, 2 receivers that may select | violated |
| `sole_release` | `MCRuntime`, `SoleRelease.cfg` | 3 threads, a weak reference may be given up early | violated |
| `world_outrun` | `MCRuntime`, `WorldOutrun.cfg` | 2 mutators | violated |
| `dying_list` | `MCRuntime`, `DyingList.cfg` | any type may own any other | violated |

The instances of `runtime`:

- descriptors: two readers on one worker with a third on an os thread that also
  closes, or one reader that two workers may resume with a thread that only
  closes. The number is a socket in its first life and a pipe in its second;
- counts: three threads on one struct;
- the stop: two mutators, one of them the main thread, two forced requests and one
  stop the collector asks for by itself;
- the heap: two structs and a list with one field each, a buffer of two, two local
  references. One struct has a `Drop` method with safe-points in it; `MayOwn` lets
  only such structs own such structs (see `dying_list` for what happens without).
  Then one struct with two fields, for a child that is owned twice;
- trial deletion: every graph of three values with at most two children each and
  at most one count from outside each, two of them suspects.

Some properties of these runs are conjunctions, so that one name says one thing:
`PermitsKept` is `PermitsConserved`, `FifoExact` and `PermitsCovered`; `NobodyLeft`
is the wait group's and the poller's `NoLostNotify`; `ParkedSound` is `HandoffHome`
and `GateCounts`; `WorkSeen` is `OwnWorkSeen` and `FreshWorkSeen`; `GarbageFound` is
`GarbageSuspected` and `GarbageGone`.

**Why the bounds are enough.** Two workers are what stealing, migration and
double enqueuing need; two blocks let one task await another, and using each
twice lets a stale handle or a stale wake meet the next task. The queues'
order does not matter in `GreenTask`, so a third task in a queue adds no new race
there; its `StealLocal` moves a batch like the task beside it, and a batch of more
than one is not reached. In `WorkerPool` the same two tasks may also start on
one worker, whose spawner has ended, so a thief finds more than it runs. For the
primitives, one process holds, one waits and one interferes; the fourth lets
both kinds of waiter be present. One value per sender fills and empties a
one-place ring against two receivers; laps are the exact ring's business. A
descriptor number needs two lives for a call or a close of the first to meet the
second. Of three threads on a struct one releases, one upgrades and one is the
collector or another owner. Two mutators let one ask for a collection in a
bracket while the other runs, spawns or leaves. On three values there are shared
children, doubled edges, cycles with a tail, and roots that reach each other.
Symmetry over workers, over tasks and over blocks is used in the runs without
liveness properties.

Deadlock checking is off everywhere: a program in which every task waits for a
message that is never sent may stop, and in a bounded instance it does.

### Fairness

Fairness is assumed only of what the runtime itself does, weak fairness unless
said otherwise.

- `GreenTask`: a worker that started a transition completes it, a waker enqueues
  what it claimed, a woken thread gets its mutex back, a Ready task is popped in
  the end. The last is strong fairness on popping each task from each queue. For a
  worker's own queues it stands for the turn counter and the streak limit, which
  `RunQueues` models; for the injector it stands for the turn of a worker whose
  local queue is empty, which a program that spawns for ever on every worker can
  put off (`pop_fresh` asks the local queue first). No handle of `green_live` does.
  A running body that neither ends nor blocks is preempted in the end, since
  compiled code meets safe points again and again and the monitor's flag stays
  up until one sees it.
- Locks: the list lock of the mutex is strongly fair: it is a std mutex held for a
  few instructions. The holder of a mutex or a permit gives it back.
- `RunQueues`: the worker looks for work, and a task that runs gives the worker
  back. That everyone is reached follows from the streak and the turn counter
  and is not assumed. It is claimed of woken, preempted and locally spawned
  tasks, not of the injector's.
- `PollerPark`: a notify that has begun is finished, and a wait ends when it is
  signalled. The timeout of a wait is not relied on.
- `NetIo`: a call that runs goes on; a worker that has nothing to run polls, again
  and again (strong fairness: other tasks may run in between); a Ready reader
  is resumed in the end. No peer has to send, nobody has to close, no deadline
  has to be set or to pass.
- `WorldStop`: the collector's thread runs, its deadline passes, and a mutator at a
  gate, at the edge of a bracket or with an answer goes on. A mutator that runs
  need never come to a gate and a bracket need never end.

Nothing makes a task finish, a message be sent, or a stray wake come. Progress of
a mutex and a semaphore is stated as "gets it, unless the others keep taking
it": neither is fair to waiters, newcomers may overtake.

### What the violated runs show

- `unpublished_head`: a value published behind a head that is claimed and not
  yet published is invisible to a receiver's re-try, and its sender saw no
  gate. The comment on `wake_parked` says one of the two always sees the other.
  When the head's sender publishes, it wakes one receiver; the second receiver
  stays parked while the channel holds a value, until another operation comes.
- `waitgroup_correction`: `add` with a negative delta that reaches zero wakes
  nobody, though waiters are said to wake when the counter reaches zero.
- `select_recv`: a select's receive probes never announce a receiver, and a
  blocking send on an unbuffered channel deposits only for an announced one.

- `sole_release`: `struct_release` reads the strong count and then the weak count. A
  reader that upgrades its weak reference between the two loads, and gives the
  weak one up, owns the struct whose destructor the releaser now runs. With
  `EarlyDrop = FALSE`, where a weak reference outlives what was read through it,
  `DestroyedByLast` passes (`runtime`).
- `world_outrun`: a mutator leaves the park loop with the gate open and stores
  "running" after it let go of the gate, without another look at `GC_STOP`. A second
  stop that began in between has already read "parked". `StoppedButLate`, which
  passes, says that this is the only way: whoever runs beside a collection was
  leaving a park when its stop was asked for.
- `dying_list`: a list in the suspect buffer that dies releases its elements before
  its magic word is scrubbed. If an element's `Drop` method stands at a safe-point,
  the collector finds a valid list without an owner, condemns it and frees its
  shell under the release. With `MayOwn` such that no such value dies as a part of a
  list, `NoDangle` passes (`runtime`).

`NoMissedWake` passes in `buffered_channel`, where slots are published in order by
construction (the first free slot is the only one senders compete for, or there
is one sender), and fails in `unpublished_head`. `NoMissedWakeHere` (section 5) proves
it wherever slots are published in that order.

Two more things the models reach, and no run states, because nothing in the
repository says otherwise: a search token left on a worker that woke by its
timeout (`wake.rs`, line 291) keeps spawns from notifying anybody until that worker
looks, which costs one park timeout at most; and a closer uses the number for
its shutdown and `on_close` after the compare-exchange, when the last call may have
closed the descriptor and the kernel handed the number out again
(`fd_handle.rs`, line 469).

`CycleHeap` reaches a third, which has no run of its own either. The collector
destroys the members of a cycle in the order of a hash map, so a `Drop` method it
runs may find, in a field, a value whose destructor has run before: its memory and
its count are there (`NoDangle`), what it owned has been released.
docs/ownership.md:693 says that every field is still live while `drop` runs.

### Mutated definitions

Operators marked `\* a mutant` are variants of the definition they stand before: a
guard dropped, a count not given back, a flag lost. No specification uses them.
Each property of a passing run is violated when one of them replaces the
original, so the property depends on the code it is about.

## 5. Proofs

### GreenTask

The first part of `SchedulerProofs` proves, for any sets of workers, threads and blocks and any
bound on reuse, from `WorkerAssumption` (`NoWorker` is no worker) and
`GreenTaskAssumption` (the kinds of actors and the null values are distinct,
`MaxGen` is a natural number, `Migrate` a flag):

- `TypeCorrect`: `Spec => []TypeOK`;
- `ClaimSafe`: `Spec => []ClaimProtocol`;
- `PlacedHome`: `Spec => []Placement`;
- `FreeDead`: `Spec => []FreeIsDead`;
- `OneResult`: `Spec => []ResultOnce`.

None of these is inductive alone. The invariant `IInv` is their conjunction with

- `Holding`: a worker is looking for work exactly when it has no task, and a
  task that is to be requeued has an owner. Without it `Requeued` could push on
  no worker's queue, and `Pop` could drop a task;
- `Lives`: for each block, which fields may be set when it is live, and that a
  task is live and not done until its join section, live and done until the end
  of it. It is what makes a free block safe to take: no worker is still between
  the Done store and the retirement, and no awaiter is left on its list;
- `History`: a handle names the present task of its block or an earlier one, and
  a result not handed out yet has not been counted. It turns "the block is live"
  into "for this handle", which is what `ResultOnce` needs when a block is
  reused under a handle somebody kept.

`FreeIsDead` follows from `Lives` and `History`. Each part has a lemma that
every step preserves it, with one step per action; the steps share lemmas on
what a wake (`WakeProtocol`), a turn of the worker's phase (`TurnProtocol`), a
pop (`TakeProtocol`) and letting go of a task (`DropProtocol`) do to the claim
protocol of every other block, and on what leaves a block's part of the
invariant alone (the `...Frame` lemmas). TLC agrees with `IInv` on one worker, one thread and two
blocks used twice.

The same module goes on to prove `NoLostAwait`: `Spec => []AwaiterListed`. What has to be
added is the time before the task is parked: between the section in which it saw
its target unfinished and the CAS of the worker, a task is listed or has a flag
that will turn it round (`Covered`). A step keeps that if it drops no unfinished
task's list (`JoinKept`) and no awaiter still to be woken (`DrainKept`); the
exceptions are the wake of the task itself, the join section of its target,
which moves the list into the drain, and its own suspension, which parks only
a task without a flag.

It also proves `Implements`: `Spec => FutureSpec`. `Spawn` maps to
`Spawn` (a block of the free pool has a generation no handle names yet),
`FinishJoin` to `Complete`, a detach of a done task and the end of a detached
one to `Release`, `AwaitStart` to `Await`, `AwaitTake` to `Answer`, `AwaitStale`
to `AnswerZero`; every other step leaves the status of every handle, the awaits
and the counts alone. The steps are taken from states that satisfy `IInv`.

### Worker pool

The rest of `SchedulerProofs` proves three theorems of `SchedulerSpec`, the
specification that the run `green_task` checks, for any finite pool and any number of
tasks, from `SchedulerBounds` (with `WorkerPoolAssumption`: the pool is finite and not
empty, as `worker_count` has it, and Main is none of its workers):

- `SearchersAlwaysCounted`: `SchedulerSpec => []SearchersCounted`;
- `WorkAlwaysSeen`: `SchedulerSpec => []WorkSeen`;
- `SchedulerTypes`: `SchedulerSpec => []TypesOK`.

The counter is compared with three cardinalities, and a step changes each of them
by one element at most (`CountStep`). That it never drops a slot it does not have
needs `PoolPlaces`: a worker about to give one up has one, and a mark names a
worker. Of `WorkSeen`, the part about a worker's own queues is inductive beside
`PoolPlaces`: parked is up before the queues are looked at, and a task is on
its queue before parked is read. The part about fresh tasks is not: it speaks of
states in which nobody is in the middle of a wake, and what keeps it true is what
Main, the only one awake, has done so far. `PoolFresh` says it: Main has not passed
anyone over. When it comes to take the slot it finds the counter at zero, because
by `SearchersCounted` nobody holds one.

`TypesOK` bounds every queue by the number of tasks, which no queue knows. The
proof counts: tasks in queues, in batches, asleep, unborn and in workers' hands
(`PoolLoad`) never become more.

### PithMutex

The first part of `LocksProofs` proves, for any sets of tasks and threads, from
`ProcAssumption` alone (tasks and threads are disjoint, `NoProc` is neither):

- `TypeCorrect`: `Spec => []TypeOK`;
- `Exclusion`: `Spec => []MutualExclusion`;
- `NoLostWake`: `Spec => []WaiterCovered`.

`WaiterCovered` is not inductive: that a parked task is listed depends on where
it was while its word still said Running, and that the list is non-empty only
under state 2 (or a pending drain) depends on who holds the list lock. The
inductive invariant `IInv` adds

- `ListLock`: the list lock is held exactly by the process in `register` or
  `draining`;
- `Awake`: a task's word is Running unless it is in `asleep`;
- `RegisterCovered`: while a task is between its mark and its list entry, the
  state is 2 or a drain is pending, because an unlock that took the mark cannot
  pass the list lock;
- `ParkCovered`: a task on its way to sleep is listed or has its wake flag set.

The proof has one step per action of `Next`, and a lemma on what a wake does to a
word. The same stray wakes that TLC explores are part of the induction.

### Semaphore, WaitGroup, and a worker's wait

The rest of `LocksProofs` proves three theorems of `LocksSpec`, the specification that the run
`locks` checks, for any sets of tasks and threads, any number of permits and any
set of deltas (`LocksBounds`, `ProcAssumption`, and `WorkerNamed`: the worker is none
of its notifiers):

- `TypesCorrect`: `LocksSpec => []TypesOK`;
- `PermitsKeptAlways`: `LocksSpec => []PermitsKept`;
- `NobodyLeftEver`: `LocksSpec => []NobodyLeft`, if no delta is negative. The
  hypothesis is needed: with one, the run `waitgroup_correction` shows a waiter left
  behind at zero.

Each part has an inductive invariant of its own and the four are put together at
the end, since a step of one leaves the others' variables alone.

- The semaphore's `PermitsCovered` (with a permit free, whoever waits has somebody
  on the way to look) is a comparison of cardinalities: permits, tasks woken and
  not yet back, threads at the lock again. `SCore` adds where a task may be off its
  worker (`SAwake`), that a task on its way to sleep is listed or has its wake
  flag set (`SParkCovered`), and that the sets counted are finite. What one
  release wakes and one acquire takes is then one element more or less on
  each side. That a stray wake leaves no entry behind rests on `WithoutFact`: a
  fifo that lists nobody twice, without its last entry of t, does not list t.
- The wait group needs `GAwake` only.
- A worker between its check of the flag and its sleep holds the park lock, and a
  notify that came since is still on its way to it (`PCheckCovered`).

### Buffered channel

`BufferedChannelProofs` proves, for any senders and receivers, green or not, any
capacity and any number of values, from `BufferedAssumption` (the roles are disjoint,
processes are finitely many, the null values are none of them, the capacity is not
zero) and `SlotsFit` (the ring has two slots at least, and no fewer than the capacity):

- `TypeCorrect`: `Spec => []TypeOK`;
- `ParkedSoundAlways`: `Spec => [](HandoffHome /\ GateCounts)`;
- `FifoRefined`: `Spec => FifoSpec`, the refinement of `BoundedFifo`;
- `NobodyInClosed`: nobody is parked in a closed channel;
- `NoMissedWakeInOrder`: `Spec => []NoMissedWake`, if `InOrder`: the capacity is one, or
  there is one sender. The hypothesis is about the order in which claimed slots are
  published; without it the run `unpublished_head` shows a receiver parked beside a value.

The invariant has three parts.

- `Control` is about parking and stands by itself: who holds the channel lock
  (`LockHeld`), which labels a role may have (`Roles`), where a task may be when its
  word is not Running (`Words`), that a list names only tasks inside the parking
  section which have been handed nothing (`Lists`), whom a waker holds between the claim of a
  receiver and its enqueue (`Hands`), where a handed value may lie (`Handoffs`), and
  that a gate is the number of processes between raising it and lowering it.
  A gate is a cardinality, so each step that raises or lowers one adds or takes
  exactly its own process; that a gate is not negative, and with it the last of the
  types, follows.
- `Ring`, `Worth` and `Once` are about the values. A step has one of nine effects on
  them (`StepEffect`): none, a send begun, a claim or a publication by either role, a
  handoff, a return of the value read or of the one handed over. `Ring` says what the sequence
  number of every slot is, for the positions from the head to a lap further on; that
  two positions less than a lap apart never share a slot is `SlotApart`. It is what
  makes the exact ring safe, where the sequence check alone keeps the capacity. `Once`
  says that a value is in one place only (`Has`: unsent, in the ring, being read, in
  somebody's hand, in a handoff cell) and has not been delivered from there. `FifoStep`
  is then the refinement, effect by effect: the claims are the queue's Put and Take.
- `Wakes` is about who waits. The gate and the ring are a Dekker pair between
  any number of processes, so it counts. While a receiver waits, or is about to
  (`Hungry`), there are at least as many on the way to the ring (`Coming`: receivers
  that will look again and wakers that will take one off the list) as values in it
  that somebody could dequeue (`Load`); this is `RecvSeen`. For senders, beside a free
  slot somebody is on the way to it (`SendSeen`). A parked task with no wake to come
  is still listed (`IdleListed`), so a waker that finds the list empty may turn back;
  nobody parks in a closed channel (`ClosedEmpty`). `InOrder` is used for `LastPut`: the
  only slot that can be claimed and unpublished is the last one.

TLC found no violation of `Wakes` on four instances before it was proved.

`ChannelProofs` carries the theorems over to `ChannelSpec`, the specification of the
run `buffered_channel`, whose behaviours use one of two channels: `TypesCorrect`,
`ParkedSoundHere`, `Refines`, and `NoMissedWakeHere` under `InOrder` of both. Which
channel a behaviour uses does not change, so it is a behaviour of that one (`SparePart`,
`ExactPart`).

`SlotsFit` is a fact of arithmetic about `SlotCount`, the next power of two. The
provers have no theory of exponents and no induction to give them one, so it is an
assumption, which TLC evaluates for both channels.

### Unbuffered channel

`UnbufferedChannelProofs` proves `TypeCorrect`, `SendHonestAlways` and
`NoMissedRendezvousEver`, for any senders and receivers, green or not, from
`ChannelAssumption` (the two roles are disjoint, the null values are none of them).
The invariant has two halves.

- `Values` follows a value: before its deposit it has no answer and nobody has it;
  while it is pending, the delivery count is the one its depositor remembered
  (`before`); once it is gone, the count has moved exactly if a receiver took it,
  and otherwise the channel is closed. That is why the answer read off the count
  is true, though other senders deposit in between.
- `Waits` says what whoever is asleep without a wake to come, or about to be, has
  seen, and that it is still so: a receiver is announced and there is no deposit
  for it, a depositor waits beside its deposit, an offer beside a channel that
  cannot take it. `NoMissedRendezvous` follows when everyone is in that state.

`Rendezvous` stays with TLC, and so does `SelectRendezvous`, which is false.

### Descriptors and pollers

`NetIoProofs` proves, for any tasks, threads, workers, closers, generations and
pipes, from `NetIoAssumption` (finitely many processes, `MaxGen` a natural number,
workers and processes apart, `NoWorker` no worker):

- `TypeCorrect`: `Spec => []TypeOK`;
- `NumberHeldAlways`: `Spec => []NumberHeld`;
- `NoLostReadinessEver`: `Spec => []NoLostReadiness`.

For `NumberHeld` the invariant adds `NumberTracksSlot`: the kernel's number is free,
or the slot's, or on its way from `accept` to `open`; a live slot has nobody
closing it. The count of users is a cardinality, so each step of a call has a
lemma on what it does to `Inside` and `Finishing`; the exclusion of two closers
comes from `MustFinish` being true of one transition only.

`NoLostReadiness` speaks of a reader that is parked. What makes it inductive is to
say the same of every reader from its registration on (`Covered`): its task will
find a wake noted when it parks, or somebody has a wake for it in hand, or it is
listed in a poller that has the edge or will get the next one, and, once it has
asked whether its handle is live, a close that made it dead has still to sweep that
poller. It rests on

- `EdgeKept`: an edge that falls between the read that would block and the
  registration is still in the kernel, because the reader occupies the worker that
  would have polled (`Seated`: a worker runs one task or its poll);
- `RegistryTracksKernel`, itself kept because `close(2)` comes after every poller
  was swept (`FinishSwept`);
- `Entries`: an entry that is not stale is the only one of its task's present wait
  and unresolved, so resolving one cannot answer another wait;
- `PollPhases`: what a poll took and whom it has still to wake belongs to its phase.

A step is looked at from three sides, one lemma each: a wake that is noted or in
hand stays so (`WakeSide`), a listed task stays listed with its edge or is woken
(`ListSide`), a watched one stays watched or is woken (`LiveSide`). A task comes to wait
by `Register` only (`EntersWait`), which covers it (`RegisterCovers`). TLC found no
violation of `IInv` on two tasks, a thread that closes and two workers before it was proved.

### Struct counts

`StructCountProofs` proves `CountTypes`, `DestroyedByLastAlways` and `HeaderHeldAlways`
for any number of tasks, from `CountAssumption` (finitely many tasks, fewer than the
destructor's guard count) and `EarlyDrop = FALSE`: a weak reference outlives the use
of what was read through it. Without it `DestroyedByLast` is false (`sole_release`).

The invariant says what the two counts count. `Strong`: the owners, until a
task has decided to destroy; then nothing, or the guard and the destructor's own
`self`. `Weak`: the readers, the weak drops under way, the suspect on its way into the
buffer, the buffer's entry, and one unit of the value itself. `Death` and `Buffer` say
that one task at most destroys, and one suspect at a time passes the buffered bit;
`Places` ties where a task is to what it holds, in particular that a releaser past
the first load of the shortcut is alone or has a reader that will not let go.

### The stop of the world

`MemoryProofs` proves `StopTypes` and `StoppedButLateHere` for any number of
mutators, from `WorldAssumption`. The scan reads slots one after the other, so the
invariant is that what it has read still stands (`ReadStands`): who was read as not
running runs no code of its own until the release, unless it was leaving an
earlier park (`late`). That needs what a slot says of its mutator (`SlotsTrue`), when
`GC_STOP` is up (`StopUp`), that nobody begins to leave a park while it is up
(`LeavingLate`), and that a collection follows a complete scan (`ScannedAll`).

The run `runtime` states these properties of `MCMemory`, where the counts and the
stop stand side by side, and the theorems of `MemoryProofs` are about its
specification, `MemorySpec`. A step of one leaves the other's variables alone: a
behaviour is one of the counts (`CountPart`), so `DestroyedByLastHere` and
`HeaderHeldHere` follow from the theorems of `StructCountProofs`, and the invariant of
the stop is kept by the steps of either (`StopInvAlways`). `MCMemory` is a module of its own
because the collector's, which `MCRuntime` adds, are recursive.

### Where the assumptions come from

Every named assumption is one on the constants of a model: kinds of actors are
disjoint, a null value is none of the things it stands for, a bound is a number.
TLC evaluates each in the runs that instantiate the module: `NetIoAssumption`,
`MemoryBounds` (`CountAssumption` and `WorldAssumption`) in `runtime`, the
`ChannelAssumption` of `UnbufferedChannel` in `progress` and that of
`MCBufferedChannel` (`BufferedAssumption` and `SlotsFit` of both its channels) in
`buffered_channel`, `LocksBounds`, `ProcAssumption` and `WorkerNamed` in `locks`,
`GreenTaskAssumption`, `WorkerAssumption` and `SchedulerBounds` in `green_task`.

Three hypotheses are about the program: no negative delta (`NobodyLeftEver`), no weak
reference dropped early (the theorems on struct counts), and slots published in
order (`NoMissedWakeHere`); a run shows for each what happens otherwise
(`waitgroup_correction`, `sole_release`, `unpublished_head`).

### Only model-checked

- All liveness: fairness and `ENABLED` are outside these provers. That is
  `AwaitReturns`, `LockProgress`, `AcquireProgress`, `WaitReturns`, `NotifyWakes`,
  `Rendezvous`, `EveryoneRuns`, `ReadReturns` and `ForcedReturns`.
- `NoDangle`, `CountsExact`, `GarbageFound` and `WhitesExact` of `CycleHeap` and
  `TrialDeletion`: what a value can reach is a recursive definition, and the
  worklists are an induction over data.
- The `TypesOK` of `MCProgress` and of `MCRuntime`. In the first, the types of `RunQueues`
  say how often a task is queued, a `Len` of a `SelectSeq` and so an induction over
  sequences; the second belongs to a module that reaches recursive operators. Of
  their parts, the types of `UnbufferedChannel`, `NetIo`, `StructCount` and `WorldStop` are
  proved, each for its own specification.
- `NoMissedWake` where slots may be published out of order: there it is false.

## 6. Not modelled

- Stacks, fibers and guard pages, the id pools' sharding, the spin and back-off
  constants, the monitor's clock: they bear on speed, or on memory the model has
  no notion of.
- The counts of handles (`sync_handle.rs`), the os-thread backend (`task.rs`), the
  blocking pool and `std.concurrent`: on the plan above.
- Of descriptors: the deadline and timeout tables, pure timers, writes and
  connects, the fallback without epoll.
- Of counts: the unshared fast path, which one thread runs, `share.rs`, which walks a
  graph before it is published, and the quarantine of the checking build.
- Of the collector: the tables of tracers per type, the statistics, the back-off
  after a stop that failed. Of a `Drop` method that it runs, what the method does to
  values outside the garbage, and what happens if it keeps a reference to garbage,
  which the documentation forbids for `self`. Maps and closures die as lists do and are not told
  apart from them.
- Strings, the layout of collections, codecs, the code generator and the compiler
  are sequential code, for which unit tests and fuzzing are the better tool.

`PROJECT.json` says so part by part.
