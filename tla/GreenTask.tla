------------------------------ MODULE GreenTask ------------------------------
(***************************************************************************)
(* The green task scheduler: task ids and their sync blocks, the           *)
(* scheduling word, the run queues, spawn / run / suspend / wake / finish, *)
(* and await / detach on a task handle.                                    *)
(*                                                                         *)
(* A step is one atomic action of the code: one CAS or store on a word,    *)
(* one critical section of a queue or join mutex.  `finish_task` holds the *)
(* join lock while it wakes its awaiters one by one, so it takes several   *)
(* steps and JoinFree keeps every other join section out meanwhile.        *)
(*                                                                         *)
(* Queue order is abstracted (a queue is a set, any entry may be popped).  *)
(* An awaiter list is a set too: the second of two entries of one task is  *)
(* one more stray wake.  A wake may come from any site at any time, stray  *)
(* ones included.                                                          *)
(***************************************************************************)
EXTENDS Naturals, FiniteSets, SchedWord

CONSTANTS
  Id,          \* indices of the sync arena that exist
  OsThread,    \* threads off the pool that spawn, await and wake (main, ...)
  MaxGen,      \* bound: a block is reused at most this often
  Migrate,     \* PITH_GREEN_MIGRATE
  NoTask, NoHandle, Zero

Gen == 0..MaxGen
Handle == Id \X Gen
Actor == Worker \cup OsThread
Awaiter == Id \cup OsThread     \* a green task awaits as itself

ASSUME GreenTaskAssumption ==
  /\ MaxGen \in Nat
  /\ Migrate \in BOOLEAN
  /\ NoTask \notin Id
  /\ NoHandle \notin Handle
  /\ Zero \notin Handle
  /\ Worker \cap OsThread = {}
  /\ Id \cap OsThread = {}
  /\ NoWorker \notin OsThread

VARIABLES
  word,        \* SyncBlock.word
  coro,        \* is SyncBlock.coro present?
  gen, live, done, result, detached, awaiters,   \* SyncBlock.join
  queue,       \* the run queues: the injector, and three per worker
  pc, cur,     \* what a worker is doing, and the task in its hands
  drain,       \* awaiters a finishing worker has still to wake
  claimed,     \* the task an actor made Ready and has not enqueued yet
  opc,         \* an os thread: running, or blocked on `joined`
  want,        \* the handle an awaiter is inside green_await for
  free,        \* ids in the free pools (WorkerCache::ids, SHARED_IDS)
  issued,      \* history: handles ever returned by spawn
  takes        \* history: how often each handle's result was handed out

joinVars == <<gen, live, done, result, detached, awaiters>>
vars == <<word, coro, joinVars, queue, pc, cur, drain, claimed, opc, want,
          free, issued, takes>>

\* `Scheduler::injector`, and `local`, `pinned`, `deferred` of each Worker.
Injector == <<"injector", NoWorker>>
Local(w) == <<"local", w>>
Pinned(w) == <<"pinned", w>>
Deferred(w) == <<"deferred", w>>
Queue == {Injector} \cup ({"local", "pinned", "deferred"} \X Worker)

Phase == {"find", "rehome", "claim", "body", "suspend", "yield", "defer",
          "repin", "finish", "drain"}

Init ==
  /\ word = [b \in Id |-> DoneWord]
  /\ coro = [b \in Id |-> FALSE]
  /\ gen = [b \in Id |-> 0]
  /\ live = [b \in Id |-> FALSE]
  /\ done = [b \in Id |-> FALSE]
  /\ result = [b \in Id |-> Zero]
  /\ detached = [b \in Id |-> FALSE]
  /\ awaiters = [b \in Id |-> {}]
  /\ queue = [q \in Queue |-> {}]
  /\ pc = [w \in Worker |-> "find"]
  /\ cur = [w \in Worker |-> NoTask]
  /\ drain = [w \in Worker |-> {}]
  /\ claimed = [a \in Actor |-> NoTask]
  /\ opc = [o \in OsThread |-> "run"]
  /\ want = [x \in Awaiter |-> NoHandle]
  /\ free = Id
  /\ issued = {}
  /\ takes = [h \in Handle |-> 0]

-----------------------------------------------------------------------------
(* The join half of a block.                                               *)

\* `Join::holds`: the handle names the task that holds the block.
Holds(h) == live[h[1]] /\ gen[h[1]] = h[2]

\* No finish_task is inside the join lock of b.
JoinFree(b) == \A w \in Worker : ~(pc[w] = "drain" /\ cur[w] = b)

RetireNot(b) == UNCHANGED <<live, gen, free>>    \* a mutant
RetireSameGen(b) ==    \* a mutant
  /\ live' = [live EXCEPT ![b] = FALSE]
  /\ free' = free \cup {b}
  /\ UNCHANGED gen

\* `Join::retire`, and `free_id` right after the join lock is dropped, as one
\* step: the handle stops resolving and the id returns to a pool.
Retire(b) ==
  /\ live' = [live EXCEPT ![b] = FALSE]
  /\ gen' = [gen EXCEPT ![b] = @ + 1]
  /\ free' = free \cup {b}

\* Pith code running in task b, or on os thread o, that is in no await and
\* has no half-done wake in hand.
TaskCode(w) == pc[w] = "body" /\ want[cur[w]] = NoHandle /\ claimed[w] = NoTask
OsCode(o) == opc[o] = "run" /\ want[o] = NoHandle /\ claimed[o] = NoTask
InCode(a) == \/ a \in Worker /\ TaskCode(a)
             \/ a \in OsThread /\ OsCode(a)

\* Who an actor's code runs as.
Self(a) == IF a \in Worker THEN cur[a] ELSE a

-----------------------------------------------------------------------------
(* spawn                                                                   *)

\* `green_spawn`: take an id, `arm` the block, and have the task in hand for
\* `enqueue_fresh` (Enqueue below).  The bound on reuse is MaxGen.
Spawn(a, b) ==
  /\ InCode(a)
  /\ b \in free /\ gen[b] \in Gen
  /\ free' = free \ {b}
  /\ coro' = [coro EXCEPT ![b] = TRUE]
  /\ live' = [live EXCEPT ![b] = TRUE]
  /\ done' = [done EXCEPT ![b] = FALSE]
  /\ result' = [result EXCEPT ![b] = Zero]
  /\ detached' = [detached EXCEPT ![b] = FALSE]
  /\ word' = [word EXCEPT ![b] = FreshWord]
  /\ claimed' = [claimed EXCEPT ![a] = b]
  /\ issued' = issued \cup {<<b, gen[b]>>}
  /\ UNCHANGED <<gen, awaiters, queue, pc, cur, drain, opc, want, takes>>

HomeQueueNearest(a, owner) ==    \* a mutant
  IF a \in Worker THEN Local(a) ELSE Injector

\* `enqueue_fresh` / `enqueue_woken`: put the task in hand on a queue.  The
\* home the claim returned is the owner its CAS wrote.
HomeQueue(a, owner) ==
  IF owner # NoWorker THEN Pinned(owner)
  ELSE IF a \in Worker THEN Local(a) ELSE Injector

Enqueue(a) ==
  LET b == claimed[a]
  IN  /\ b # NoTask
      /\ claimed' = [claimed EXCEPT ![a] = NoTask]
      /\ queue' = [queue EXCEPT ![HomeQueue(a, word[b].owner)] = @ \cup {b}]
      /\ UNCHANGED <<word, coro, joinVars, pc, cur, drain, opc, want, free,
                     issued, takes>>

-----------------------------------------------------------------------------
(* wake                                                                    *)

\* `claim_parked` on task b by actor a: what it does to the word, and whether
\* the actor now has the task to enqueue.
ClaimParked(a, b, mayMove) ==
  \/ /\ Claimable(word[b])
     /\ word' = [word EXCEPT ![b] =
                   ClaimedWord(HomeFor(@.owner, a, Migrate /\ mayMove))]
     /\ claimed' = [claimed EXCEPT ![a] = b]
  \/ /\ Pendable(word[b])
     /\ word' = [word EXCEPT ![b] = PendedWord(@)]
     /\ UNCHANGED claimed
  \/ /\ ~Claimable(word[b]) /\ ~Pendable(word[b])
     /\ UNCHANGED <<word, claimed>>

\* A wake from any block site, mutex unlock (mayMove = FALSE) or poller.
Wake(a, b, mayMove) ==
  /\ InCode(a) \/ (a \in Worker /\ pc[a] = "find" /\ claimed[a] = NoTask)
  /\ ClaimParked(a, b, mayMove)
  /\ UNCHANGED <<coro, joinVars, queue, pc, cur, drain, opc, want, free,
                 issued, takes>>

-----------------------------------------------------------------------------
(* a worker finds a task                                                   *)

Take(w, b, phase) ==
  /\ pc[w] = "find" /\ claimed[w] = NoTask
  /\ cur' = [cur EXCEPT ![w] = b]
  /\ pc' = [pc EXCEPT ![w] = phase]
  /\ UNCHANGED <<word, coro, joinVars, drain, claimed, opc, want, free, issued, takes>>

\* `find_work`: the worker's own queues and the injector, in an order that
\* depends on its streak and its turn counter.
Pop(w, q, b) ==
  /\ q \in {Pinned(w), Deferred(w), Local(w), Injector}
  /\ b \in queue[q]
  /\ queue' = [queue EXCEPT ![q] = @ \ {b}]
  /\ Take(w, b, "claim")

\* `steal_half`: run one fresh task of a peer and take half of it all along.
StealLocal(w, v, b) ==
  /\ v # w /\ b \in queue[Local(v)]
  /\ \E batch \in SUBSET (queue[Local(v)] \ {b}) :
       /\ Cardinality(batch) = (Cardinality(queue[Local(v)]) - 1) \div 2
       /\ queue' = [queue EXCEPT ![Local(v)] = @ \ ({b} \cup batch),
                                 ![Local(w)] = @ \cup batch]
  /\ Take(w, b, "claim")

\* `steal_pinned`: pop a started task off a peer's fifo (the test that the
\* peer is busy reads racy counters, so it excludes nothing here) ...
StealPinned(w, v, b) ==
  /\ v # w /\ b \in queue[Pinned(v)]
  /\ queue' = [queue EXCEPT ![Pinned(v)] = @ \ {b}]
  /\ Take(w, b, "rehome")

\* ... and then become its owner.
Rehome(w) ==
  LET b == cur[w]
  IN  /\ pc[w] = "rehome"
      /\ word' = [word EXCEPT ![b] =
                    IF @.st = "ready" THEN [@ EXCEPT !.owner = w] ELSE @]
      /\ pc' = [pc EXCEPT ![w] = "claim"]
      /\ UNCHANGED <<coro, joinVars, queue, cur, drain, claimed, opc, want,
                     free, issued, takes>>

-----------------------------------------------------------------------------
(* run_task                                                                *)

\* The Ready -> Running claim, and taking the coroutine out of the block.  The
\* early returns (not Ready, no coroutine) are never taken: ClaimProtocol.
ClaimRun(w) ==
  LET b == cur[w]
  IN  /\ pc[w] = "claim"
      /\ word[b].st = "ready" /\ coro[b]
      /\ word' = [word EXCEPT ![b] = RunningWord(@, w)]
      /\ coro' = [coro EXCEPT ![b] = FALSE]
      /\ pc' = [pc EXCEPT ![w] = "body"]
      /\ UNCHANGED <<joinVars, queue, cur, drain, claimed, opc, want, free,
                     issued, takes>>

\* `park_current` from a block site of some primitive: control is back in the
\* worker, the word still Running.
Block(w) ==
  /\ TaskCode(w)
  /\ pc' = [pc EXCEPT ![w] = "suspend"]
  /\ UNCHANGED <<word, coro, joinVars, queue, cur, drain, claimed, opc,
                 want, free, issued, takes>>

\* `pith_green_maybe_yield` past its gates.
MaybeYield(w) ==
  /\ TaskCode(w)
  /\ word' = [word EXCEPT ![cur[w]] = PreemptedWord(@)]
  /\ pc' = [pc EXCEPT ![w] = "suspend"]
  /\ UNCHANGED <<coro, joinVars, queue, cur, drain, claimed, opc, want,
                 free, issued, takes>>

\* The yield arm, first half: the coroutine goes back before the word moves.
PutBack(w) ==
  /\ pc[w] = "suspend"
  /\ coro' = [coro EXCEPT ![cur[w]] = TRUE]
  /\ pc' = [pc EXCEPT ![w] = "yield"]
  /\ UNCHANGED <<word, joinVars, queue, cur, drain, claimed, opc, want,
                 free, issued, takes>>

\* The yield arm, second half: the `after_yield` CAS.
Yield(w) ==
  LET b == cur[w]
      next == Requeue(word[b])
  IN  /\ pc[w] = "yield"
      /\ word' = [word EXCEPT ![b] = YieldedWord(@)]
      /\ \/ next # "none" /\ pc' = [pc EXCEPT ![w] = next] /\ UNCHANGED cur
         \/ /\ next = "none"
            /\ pc' = [pc EXCEPT ![w] = "find"]
            /\ cur' = [cur EXCEPT ![w] = NoTask]
      /\ UNCHANGED <<coro, joinVars, queue, drain, claimed, opc, want, free,
                     issued, takes>>

\* `enqueue_preempted` / `enqueue_woken` after a yield.
Requeued(w) ==
  LET b == cur[w]
      owner == word[b].owner
  IN  /\ \/ pc[w] = "defer" /\ queue' = [queue EXCEPT ![Deferred(owner)] = @ \cup {b}]
         \/ pc[w] = "repin" /\ queue' = [queue EXCEPT ![Pinned(owner)] = @ \cup {b}]
      /\ pc' = [pc EXCEPT ![w] = "find"]
      /\ cur' = [cur EXCEPT ![w] = NoTask]
      /\ UNCHANGED <<word, coro, joinVars, drain, claimed, opc, want, free,
                     issued, takes>>

-----------------------------------------------------------------------------
(* finish_task                                                             *)

\* The body returned or panicked: Done is stored before anything else.
FinishStore(w) ==
  /\ TaskCode(w)
  /\ word' = [word EXCEPT ![cur[w]] = DoneWord]
  /\ pc' = [pc EXCEPT ![w] = "finish"]
  /\ UNCHANGED <<coro, joinVars, queue, cur, drain, claimed, opc, want,
                 free, issued, takes>>

\* `joined.notify_all`: the os threads that wait for b.
NotifiedNone(b) == opc    \* a mutant
Notified(b) ==
  [o \in OsThread |->
     IF opc[o] = "blocked" /\ want[o][1] = b THEN "notified" ELSE opc[o]]

\* Under the join lock: done, the result (0 after a panic), the notify, and the
\* awaiters to wake.
FinishJoin(w) ==
  LET b == cur[w]
  IN  /\ pc[w] = "finish" /\ JoinFree(b)
      /\ done' = [done EXCEPT ![b] = TRUE]
      /\ \E r \in {<<b, gen[b]>>, Zero} : result' = [result EXCEPT ![b] = r]
      /\ opc' = Notified(b)
      /\ drain' = [drain EXCEPT ![w] = awaiters[b]]
      /\ awaiters' = [awaiters EXCEPT ![b] = {}]
      /\ pc' = [pc EXCEPT ![w] = "drain"]
      /\ UNCHANGED <<word, coro, gen, live, detached, queue, cur, claimed,
                     want, free, issued, takes>>

\* One awaiter of the drained list is woken (its enqueue is Enqueue(w)).
FinishWake(w, x) ==
  /\ pc[w] = "drain" /\ claimed[w] = NoTask /\ x \in drain[w]
  /\ ClaimParked(w, x, TRUE)
  /\ drain' = [drain EXCEPT ![w] = @ \ {x}]
  /\ UNCHANGED <<coro, joinVars, queue, pc, cur, opc, want, free, issued, takes>>

\* The end of the join section: a detached task retires itself.
FinishEnd(w) ==
  LET b == cur[w]
  IN  /\ pc[w] = "drain" /\ claimed[w] = NoTask /\ drain[w] = {}
      /\ \/ detached[b] /\ Retire(b)
         \/ ~detached[b] /\ UNCHANGED <<live, gen, free>>
      /\ pc' = [pc EXCEPT ![w] = "find"]
      /\ cur' = [cur EXCEPT ![w] = NoTask]
      /\ UNCHANGED <<word, coro, done, result, detached, awaiters, queue,
                     drain, claimed, opc, want, issued, takes>>

-----------------------------------------------------------------------------
(* await and detach                                                        *)

AwaitStart(a, h) ==
  /\ InCode(a) /\ h \in issued
  /\ want' = [want EXCEPT ![Self(a)] = h]
  /\ UNCHANGED <<word, coro, joinVars, queue, pc, cur, drain, claimed, opc,
                 free, issued, takes>>

\* An actor at the top of green_await's loop, holding the join lock.
Awaiting(a) ==
  /\ \/ a \in Worker /\ pc[a] = "body" /\ claimed[a] = NoTask
     \/ a \in OsThread /\ opc[a] = "run" /\ claimed[a] = NoTask
  /\ want[Self(a)] # NoHandle
  /\ JoinFree(want[Self(a)][1])

\* The handle is stale, or another awaiter was first: the answer is 0.
AwaitStale(a) ==
  /\ Awaiting(a)
  /\ ~Holds(want[Self(a)])
  /\ want' = [want EXCEPT ![Self(a)] = NoHandle]
  /\ UNCHANGED <<word, coro, joinVars, queue, pc, cur, drain, claimed, opc,
                 free, issued, takes>>

\* The task is done: take its result and retire it.
AwaitTake(a) ==
  LET h == want[Self(a)]
  IN  /\ Awaiting(a)
      /\ Holds(h) /\ done[h[1]]
      /\ want' = [want EXCEPT ![Self(a)] = NoHandle]
      /\ takes' = [k \in Handle |-> IF k = result[h[1]] THEN takes[k] + 1 ELSE takes[k]]
      /\ Retire(h[1])
      /\ UNCHANGED <<word, coro, done, result, detached, awaiters, queue, pc,
                     cur, drain, claimed, opc, issued>>

\* Not done: an os thread waits on the condvar; a green task lists itself,
\* drops the lock and suspends.
AwaitBlock(a) ==
  LET h == want[Self(a)]
  IN  /\ Awaiting(a)
      /\ Holds(h) /\ ~done[h[1]]
      /\ \/ /\ a \in OsThread
            /\ opc' = [opc EXCEPT ![a] = "blocked"]
            /\ UNCHANGED <<awaiters, pc>>
         \/ /\ a \in Worker
            /\ awaiters' = [awaiters EXCEPT ![h[1]] = @ \cup {cur[a]}]
            /\ pc' = [pc EXCEPT ![a] = "suspend"]
            /\ UNCHANGED opc
      /\ UNCHANGED <<word, coro, gen, live, done, result, detached, queue,
                     cur, drain, claimed, want, free, issued, takes>>

\* The condvar hands the join lock back to an os thread, for a notify or
\* spuriously.
OsUnblock(o) ==
  /\ opc[o] \in {"notified", "blocked"}
  /\ JoinFree(want[o][1])
  /\ opc' = [opc EXCEPT ![o] = "run"]
  /\ UNCHANGED <<word, coro, joinVars, queue, pc, cur, drain, claimed, want,
                 free, issued, takes>>

DetachNow(a, h) ==    \* a mutant
  /\ InCode(a) /\ h \in issued /\ JoinFree(h[1])
  /\ Holds(h)
  /\ Retire(h[1])
  /\ UNCHANGED <<word, coro, done, result, detached, awaiters, queue, pc, cur,
                 drain, claimed, opc, want, issued, takes>>

\* `green_detach`: a stale handle is a no-op (no step here).
Detach(a, h) ==
  /\ InCode(a) /\ h \in issued /\ JoinFree(h[1])
  /\ Holds(h)
  /\ \/ done[h[1]] /\ Retire(h[1]) /\ UNCHANGED detached
     \/ /\ ~done[h[1]]
        /\ detached' = [detached EXCEPT ![h[1]] = TRUE]
        /\ UNCHANGED <<live, gen, free>>
  /\ UNCHANGED <<word, coro, done, result, awaiters, queue, pc, cur, drain,
                 claimed, opc, want, issued, takes>>

-----------------------------------------------------------------------------
WorkerNext(w) ==
  \/ \E b \in Id : \/ \E q \in Queue : Pop(w, q, b)
                   \/ FinishWake(w, b)
                   \/ \E v \in Worker : StealLocal(w, v, b) \/ StealPinned(w, v, b)
  \/ Rehome(w) \/ ClaimRun(w) \/ Block(w) \/ MaybeYield(w) \/ PutBack(w)
  \/ Yield(w) \/ Requeued(w) \/ FinishStore(w) \/ FinishJoin(w) \/ FinishEnd(w)

ActorNext(a) ==
  \/ \E b \in Id : Spawn(a, b)
  \/ \E b \in Id, mayMove \in BOOLEAN : Wake(a, b, mayMove)
  \/ \E h \in Handle : AwaitStart(a, h) \/ Detach(a, h)
  \/ Enqueue(a) \/ AwaitStale(a) \/ AwaitTake(a) \/ AwaitBlock(a)

Next ==
  \/ \E w \in Worker : WorkerNext(w)
  \/ \E a \in Actor : ActorNext(a)
  \/ \E o \in OsThread : OsUnblock(o)

Spec == Init /\ [][Next]_vars

(***************************************************************************)
(* Fairness.  A worker that has begun a transition completes it: nothing   *)
(* in it waits but the join lock.  A queue is a fifo that a turn counter   *)
(* and a streak limit visit again and again, so a task that keeps being at *)
(* its home is popped.  Pith code meets safe points again and again and    *)
(* the monitor's flag stays up until one sees it, so a body that neither   *)
(* ends nor blocks is suspended in the end.  Nothing makes a blocked task  *)
(* be woken by its primitive, and nothing makes a task finish.             *)
(***************************************************************************)
Transition(w) ==
  \/ Rehome(w) \/ ClaimRun(w) \/ PutBack(w) \/ Yield(w) \/ Requeued(w)
  \/ FinishJoin(w) \/ FinishEnd(w) \/ \E x \in Id : FinishWake(w, x)

Fairness ==
  /\ \A w \in Worker :
       /\ WF_vars(Transition(w))
       /\ SF_vars(MaybeYield(w))
       /\ \A q \in Queue, b \in Id : SF_vars(Pop(w, q, b))
  /\ \A a \in Actor :
       /\ WF_vars(Enqueue(a))
       /\ WF_vars(AwaitStale(a)) /\ WF_vars(AwaitTake(a)) /\ WF_vars(AwaitBlock(a))
  /\ \A o \in OsThread : WF_vars(opc[o] = "notified" /\ OsUnblock(o))

FairSpec == Spec /\ Fairness

-----------------------------------------------------------------------------
(* Properties                                                              *)

\* Every variable has its type.
TypeOK ==
  /\ word \in [Id -> Word]
  /\ coro \in [Id -> BOOLEAN]
  /\ gen \in [Id -> 0..(MaxGen + 1)]
  /\ live \in [Id -> BOOLEAN]
  /\ done \in [Id -> BOOLEAN]
  /\ result \in [Id -> Handle \cup {Zero}]
  /\ detached \in [Id -> BOOLEAN]
  /\ awaiters \in [Id -> SUBSET Id]
  /\ queue \in [Queue -> SUBSET Id]
  /\ pc \in [Worker -> Phase]
  /\ cur \in [Worker -> Id \cup {NoTask}]
  /\ drain \in [Worker -> SUBSET Id]
  /\ claimed \in [Actor -> Id \cup {NoTask}]
  /\ opc \in [OsThread -> {"run", "blocked", "notified"}]
  /\ want \in [Awaiter -> Handle \cup {NoHandle}]
  /\ free \in SUBSET Id
  /\ issued \in SUBSET Handle
  /\ takes \in [Handle -> Nat]

\* One holder of a task at a time, whatever its kind: a queue entry, a worker,
\* or an actor between a claim and its enqueue.
OneHolder(b) ==
  /\ \A q \in Queue : b \in queue[q] =>
       /\ \A p \in Queue \ {q} : b \notin queue[p]
       /\ \A w \in Worker : cur[w] # b
       /\ \A a \in Actor : claimed[a] # b
  /\ \A w \in Worker : cur[w] = b =>
       /\ \A v \in Worker \ {w} : cur[v] # b
       /\ \A a \in Actor : claimed[a] # b
  /\ \A a \in Actor : claimed[a] = b => \A c \in Actor \ {a} : claimed[c] # b

\* Where a task that can run may be: in a queue, or between claim and enqueue.
Queued(b) == \E q \in Queue : b \in queue[q]
InHand(b) == \E a \in Actor : claimed[a] = b

\* The run state of b's word while a worker has b in its hands.
StateOfPhase(phase) ==
  CASE phase \in {"rehome", "claim", "defer", "repin"} -> "ready"
    [] phase \in {"body", "suspend", "yield"} -> "running"
    [] OTHER -> "done"

\* What the word of b says about who has b, and where its coroutine is.
Protocol(b) ==
  /\ OneHolder(b)
  /\ Queued(b) \/ InHand(b) => word[b].st = "ready"
  /\ \A w \in Worker : cur[w] = b => word[b].st = StateOfPhase(pc[w])
  /\ word[b].st = "ready" =>
       Queued(b) \/ InHand(b) \/ \E w \in Worker : cur[w] = b
  /\ word[b].st = "running" =>
       \E w \in Worker : cur[w] = b /\ (coro[b] <=> pc[w] = "yield")
  /\ word[b].st \in {"ready", "parked"} => coro[b]

\* The claim protocol of SyncBlock: exactly one thread holds a task that can
\* run (no wake enqueues it twice), none holds a parked one, whoever is about
\* to resume one finds it Ready with its coroutine in the block (the early
\* returns of `run_task` are never taken), and the coroutine is out of the
\* block while it runs.
ClaimProtocol == \A b \in Id : Protocol(b)

\* Placement: only a task that never ran is in a queue peers steal from
\* (moving it is safe, it has no stack), a started task is in queues of the
\* worker its word names, and a running task is pinned.
Placement ==
  /\ \A w \in Worker :
       /\ \A b \in queue[Local(w)] : word[b].owner = NoWorker
       /\ \A b \in queue[Pinned(w)] \cup queue[Deferred(w)] : word[b].owner = w
  /\ \A b \in queue[Injector] : word[b].owner = NoWorker
  /\ \A b \in Id : word[b].st \in {"running", "parked"} => word[b].owner # NoWorker

\* x, inside green_await, is on the list that the task it awaits will wake:
\* the task still holds the block and has not run its join section, or its
\* finisher has x yet to wake.
Listed(x) ==
  \/ Holds(want[x]) /\ ~done[want[x][1]] /\ x \in awaiters[want[x][1]]
  \/ \E w \in Worker : pc[w] = "drain" /\ x \in drain[w]

\* No lost wake in await: a task parked in green_await is listed with its
\* target, and an os thread asleep on `joined` has a target that is not done
\* yet, whatever finished, was retired or reused meanwhile.
AwaiterListed ==
  /\ \A x \in Id : want[x] # NoHandle /\ word[x].st = "parked" => Listed(x)
  /\ \A o \in OsThread :
       opc[o] = "blocked" => Holds(want[o]) /\ ~done[want[o][1]]

\* A free id is dead: a wake aimed at the task it last named is a no-op, and
\* no handle resolves to it; a live one holds the newest generation issued.
FreeIsDead ==
  /\ \A b \in free : word[b] = DoneWord /\ ~live[b] /\ awaiters[b] = {}
  /\ \A h \in issued : h[2] = gen[h[1]] => live[h[1]]
  /\ \A b \in Id : live[b] <=> b \notin free

\* Await hands a result to at most one awaiter, and it is the result of the
\* very task the handle was returned for.
ResultOnce ==
  /\ \A h \in Handle : takes[h] <= 1
  /\ \A b \in Id : live[b] /\ done[b] =>
       result[b] \in {<<b, gen[b]>>, Zero} /\ takes[<<b, gen[b]>>] = 0

\* Every await of a finished, consumed or detached task returns.
AwaitReturns ==
  \A x \in Awaiter :
    (want[x] # NoHandle /\ (~Holds(want[x]) \/ done[want[x][1]]))
      ~> want[x] = NoHandle

(***************************************************************************)
(* The handle's promise: TaskFuture under this mapping.                    *)
(***************************************************************************)
statusBar ==
  [h \in Handle |-> IF h \notin issued THEN "unborn"
                   ELSE IF ~Holds(h) THEN "gone"
                   ELSE IF done[h[1]] THEN "done" ELSE "pending"]

Future == INSTANCE TaskFuture WITH status <- statusBar

\* The scheduler implements TaskFuture: no await returns before its task is
\* done, and no handle is completed, answered or reissued twice.
FutureSpec == Future!Spec
=============================================================================
