------------------------------ MODULE WorkerPool ------------------------------
(***************************************************************************)
(* How the workers of the pool find work, sleep when there is none, and    *)
(* are woken (green/worker.rs, and enqueue_* and wake_* of green/wake.rs). *)
(* Tasks are counted, not named: which task a queue gives is RunQueues'    *)
(* business and what a task's word says is GreenTask's.  A step is one     *)
(* atomic operation on a flag or a counter, or one section under a queue   *)
(* lock.  A worker sleeps in its poller until it is notified, a socket or  *)
(* a timer of its own is due, or the timeout of the park runs out.         *)
(***************************************************************************)
EXTENDS Naturals, FiniteSets

CONSTANTS
  Worker,
  Main,         \* a thread outside the pool that spawns and wakes
  Tasks,        \* how many tasks there are
  NoWorker

WorkerPoolAssumption ==
  /\ IsFiniteSet(Worker) /\ Worker # {} /\ Tasks \in Nat
  /\ Main \notin Worker /\ NoWorker \notin Worker

Actor == Worker \cup {Main}

VARIABLES
  injector,     \* length of Scheduler.injector
  local,        \* lengths of the queues of fresh tasks
  pinned,       \*   ... of woken tasks
  deferred,     \*   ... of preempted tasks
  batch,        \* tasks a thief has drained and not yet put on its own queue
  asleep,       \* parked tasks, whoever owns them
  unborn,       \* tasks not spawned
  parked,       \* Worker.parked
  token,        \* Worker.search_token
  searching,    \* Scheduler.searching
  notified,     \* the poller's pending notify
  pc,           \* where worker_loop is
  searcher,     \* its local `searching`
  act           \* the enqueue, wake or theft an actor is in the middle of

queues == <<injector, local, pinned, deferred, batch, asleep, unborn>>
flags == <<parked, token, searching, notified>>
loop == <<pc, searcher>>
vars == <<queues, flags, loop, act>>

Op == {"none", "search", "scan", "mark", "nudge", "steal"}
Act == [op : Op, at : Worker \cup {NoWorker}, todo : SUBSET Worker]
Doing(op, i, todo) == [op |-> op, at |-> i, todo |-> todo]
Nothing == Doing("none", NoWorker, {})

\* Nobody looks for work, sleeps or runs a task.
Quiet ==
  /\ injector = 0 /\ asleep = 0
  /\ pinned = [w \in Worker |-> 0] /\ deferred = pinned /\ batch = pinned
  /\ parked = [w \in Worker |-> FALSE] /\ token = parked /\ notified = parked
  /\ searching = 0
  /\ pc = [w \in Worker |-> "top"] /\ searcher = parked
  /\ act = [a \in Actor |-> Nothing]

Init == unborn = Tasks /\ local = [w \in Worker |-> 0] /\ Quiet

Goto(w, l) == pc' = [pc EXCEPT ![w] = l]
At(w, l) == pc[w] = l /\ act[w] = Nothing
Start(a, op, i) == act' = [act EXCEPT ![a] = Doing(op, i, {})]
More(f, w, n) == [f EXCEPT ![w] = @ + n]
Less(f, w, n) == [f EXCEPT ![w] = @ - n]

AnyStealable == injector > 0 \/ \E w \in Worker : local[w] > 0
HasOwnWork(w) == pinned[w] > 0 \/ deferred[w] > 0    \* a mutant
HasAnyWork(w) == pinned[w] > 0 \/ AnyStealable \/ deferred[w] > 0

-----------------------------------------------------------------------------
(* Putting a task on a queue and waking someone for it                     *)

\* Who may call into the scheduler now: a worker whose task runs, or Main.
Calls(a) == act[a] = Nothing /\ (a \in Worker => pc[a] = "run")

\* A fresh task goes on the spawner's own queue, or on the injector ...
EnqueueFresh(a) ==
  /\ Calls(a) /\ unborn > 0
  /\ unborn' = unborn - 1
  /\ IF a \in Worker THEN local' = More(local, a, 1) /\ UNCHANGED injector
                     ELSE injector' = injector + 1 /\ UNCHANGED local
  /\ Start(a, "search", NoWorker)
  /\ UNCHANGED <<pinned, deferred, batch, asleep, flags, loop>>

\* ... and if nobody is searching for fresh tasks, the waker takes the one slot.
WakeSearcher(a) ==
  /\ act[a].op = "search"
  /\ IF searching = 0
     THEN searching' = 1 /\ act' = [act EXCEPT ![a] = Doing("scan", NoWorker, Worker)]
     ELSE act' = [act EXCEPT ![a] = Nothing] /\ UNCHANGED searching
  /\ UNCHANGED <<queues, parked, token, notified, loop>>

\* It looks for a parked worker, from an arbitrary one on, ...
Scan(a) ==
  /\ act[a].op = "scan"
  /\ \/ \E i \in act[a].todo :
          act' = [act EXCEPT ![a] =
                    Doing(IF parked[i] THEN "mark" ELSE "scan", i, @.todo \ {i})]
        /\ UNCHANGED searching
     \/ /\ act[a].todo = {}
        /\ searching' = searching - 1
        /\ act' = [act EXCEPT ![a] = Nothing]
  /\ UNCHANGED <<queues, parked, token, notified, loop>>

\* ... and gives the slot to the first that does not hold one already.
Mark(a) ==
  /\ act[a].op = "mark"
  /\ token' = [token EXCEPT ![act[a].at] = TRUE]
  /\ act' = [act EXCEPT ![a].op = IF token[act[a].at] THEN "scan" ELSE "nudge"]
  /\ UNCHANGED <<queues, parked, searching, notified, loop>>

\* wake_worker: only a worker that is parked is notified.  A notify of a worker
\* that has woken meanwhile costs it one more look, so that the load and the
\* notify are one step.
WakeWorker(a) ==
  /\ act[a].op = "nudge"
  /\ notified' = [notified EXCEPT ![act[a].at] = @ \/ parked[act[a].at]]
  /\ act' = [act EXCEPT ![a] = Nothing]
  /\ UNCHANGED <<queues, parked, token, searching, loop>>

\* A wake of a parked task: it goes to its owner's pinned queue, or to that of
\* the worker that wakes it, and that worker alone is nudged.
EnqueueWoken(a, h) ==
  /\ asleep > 0 /\ asleep' = asleep - 1
  /\ pinned' = More(pinned, h, 1)
  /\ Start(a, "nudge", h)

Wake(a, h) ==
  /\ Calls(a)
  /\ EnqueueWoken(a, h)
  /\ UNCHANGED <<injector, local, deferred, batch, unborn, flags, loop>>

-----------------------------------------------------------------------------
(* The worker loop                                                         *)

TakeTokenAgain(w) ==    \* a mutant
  /\ At(w, "top")
  /\ Goto(w, "find")
  /\ token' = [token EXCEPT ![w] = FALSE]
  /\ searcher' = [searcher EXCEPT ![w] = @ \/ token[w]]
  /\ UNCHANGED <<queues, parked, searching, notified, act>>

\* Take over the search slot a waker left.
TakeToken(w) ==
  /\ At(w, "top")
  /\ Goto(w, "find")
  /\ token' = [token EXCEPT ![w] = FALSE]
  /\ searching' = IF token[w] /\ searcher[w] THEN searching - 1 ELSE searching
  /\ searcher' = [searcher EXCEPT ![w] = @ \/ token[w]]
  /\ UNCHANGED <<queues, parked, notified, act>>

\* A task is found: a searcher gives its slot up before it runs it.
Found(w) == Goto(w, IF searcher[w] THEN "found" ELSE "run")

\* From its own queues or the injector, in any order: RunQueues says which goes
\* first.
FindOwn(w) ==
  /\ At(w, "find") /\ Found(w)
  /\ \/ pinned[w] > 0 /\ pinned' = Less(pinned, w, 1) /\ UNCHANGED <<injector, local, deferred>>
     \/ deferred[w] > 0 /\ deferred' = Less(deferred, w, 1) /\ UNCHANGED <<injector, local, pinned>>
     \/ local[w] > 0 /\ local' = Less(local, w, 1) /\ UNCHANGED <<injector, pinned, deferred>>
     \/ injector > 0 /\ injector' = injector - 1 /\ UNCHANGED <<local, pinned, deferred>>
  /\ UNCHANGED <<batch, asleep, unborn, flags, searcher, act>>

\* steal_half: the front task to run, and some of the rest (half of it in the
\* code, which is as good as any number) ...
StealHalf(w, v) ==
  /\ At(w, "find") /\ v # w
  /\ \E more \in 0..Tasks :
     /\ local[v] > more
     /\ local' = Less(local, v, 1 + more)
     /\ batch' = [batch EXCEPT ![w] = more]
     /\ IF more > 0 THEN Goto(w, "extend") ELSE Found(w)
  /\ UNCHANGED <<injector, pinned, deferred, asleep, unborn, flags, searcher, act>>

\* ... which goes on the thief's own queue, under that queue's lock.
Extend(w) ==
  /\ At(w, "extend") /\ Found(w)
  /\ local' = More(local, w, batch[w])
  /\ batch' = [batch EXCEPT ![w] = 0]
  /\ UNCHANGED <<injector, pinned, deferred, asleep, unborn, flags, searcher, act>>

InTask(v) == pc[v] = "run"

\* steal_pinned: from a peer that has been inside one task for a while, as far
\* as the thief saw.  How long it watched is left out: any time is long enough.
Watch(w, v) ==
  /\ At(w, "find") /\ v # w
  /\ pinned[v] > 0 /\ InTask(v)
  /\ Start(w, "steal", v)
  /\ UNCHANGED <<queues, flags, loop>>

\* Under the lock of the queue it takes what is there now.  If that is nothing,
\* or only the task the peer runs next, it looks elsewhere.
StealPinned(w, v) ==
  /\ pc[w] = "find" /\ act[w] = Doing("steal", v, {})
  /\ act' = [act EXCEPT ![w] = Nothing]
  /\ \/ pinned[v] > 0 /\ pinned' = Less(pinned, v, 1) /\ Found(w)
     \/ UNCHANGED <<pinned, pc>>
  /\ UNCHANGED <<injector, local, deferred, batch, asleep, unborn, flags, searcher>>

\* find_work came back empty: it saw each queue empty when it looked there, or
\* another thread held the queue's lock.
FindNothing(w) ==
  /\ At(w, "find") /\ Goto(w, "poll")
  /\ UNCHANGED <<queues, flags, searcher, act>>

\* stop_searching: drop the slot ...
StopSearching(w) ==
  /\ At(w, "found")
  /\ searcher' = [searcher EXCEPT ![w] = FALSE]
  /\ searching' = searching - 1
  /\ IF searching = 1 THEN Goto(w, "last_one") ELSE Goto(w, "run")
  /\ UNCHANGED <<queues, parked, token, notified, act>>

\* ... and the last searcher passes it on if fresh work is left.
PassOn(w) ==
  /\ At(w, "last_one") /\ Goto(w, "run")
  /\ IF AnyStealable THEN Start(w, "search", NoWorker) ELSE UNCHANGED act
  /\ UNCHANGED <<queues, flags, searcher>>

\* run_task returns: the task parked, ended, was woken while it suspended, or
\* was preempted.  The last two re-enqueue it and nudge its own worker.
RunEnds(w) ==
  /\ At(w, "run") /\ Goto(w, "top")
  /\ \/ asleep' = asleep + 1 /\ UNCHANGED <<pinned, deferred, act>>
     \/ UNCHANGED <<pinned, deferred, asleep, act>>
     \/ pinned' = More(pinned, w, 1) /\ Start(w, "nudge", w) /\ UNCHANGED <<deferred, asleep>>
     \/ deferred' = More(deferred, w, 1) /\ Start(w, "nudge", w) /\ UNCHANGED <<pinned, asleep>>
  /\ UNCHANGED <<injector, local, batch, unborn, flags, searcher>>

\* Out of work.  If poll_ready finds a socket whose task it can wake, look
\* again ...
PollReady(w) ==
  /\ At(w, "poll") /\ Goto(w, "top")
  /\ \E h \in Worker : EnqueueWoken(w, h)
  /\ UNCHANGED <<injector, local, deferred, batch, unborn, flags, searcher>>

SeekAgain(w) ==    \* a mutant
  /\ At(w, "poll") /\ Goto(w, "spin")
  /\ searcher' = [searcher EXCEPT ![w] = TRUE]
  /\ searching' = searching + 1
  /\ UNCHANGED <<queues, parked, token, notified, act>>

\* ... if not, be counted as a searcher ...
Seek(w) ==
  /\ At(w, "poll") /\ Goto(w, "spin")
  /\ searcher' = [searcher EXCEPT ![w] = TRUE]
  /\ searching' = IF searcher[w] THEN searching ELSE searching + 1
  /\ UNCHANGED <<queues, parked, token, notified, act>>

\* ... and spin for a moment, if there was work not long ago.
Spin(w) ==
  /\ At(w, "spin") /\ HasAnyWork(w) /\ Goto(w, "top")
  /\ UNCHANGED <<queues, flags, searcher, act>>

\* Give the slot up before the last look at the stealable queues.
GiveUp(w) ==
  /\ At(w, "spin") /\ Goto(w, "last_look")
  /\ searcher' = [searcher EXCEPT ![w] = FALSE]
  /\ searching' = searching - 1
  /\ UNCHANGED <<queues, parked, token, notified, act>>

LastLook(w) ==
  /\ At(w, "last_look")
  /\ Goto(w, IF AnyStealable THEN "top" ELSE "park")
  /\ UNCHANGED <<queues, flags, searcher, act>>

\* park: raise the flag ...
Park(w) ==
  /\ At(w, "park") /\ Goto(w, "recheck")
  /\ parked' = [parked EXCEPT ![w] = TRUE]
  /\ UNCHANGED <<queues, token, searching, notified, searcher, act>>

SleepAtOnce(w) ==    \* a mutant
  /\ At(w, "recheck") /\ Goto(w, "wait")
  /\ UNCHANGED <<queues, flags, searcher, act>>

\* ... look once more at every queue this worker may take from ...
Recheck(w) ==
  /\ At(w, "recheck")
  /\ Goto(w, IF HasAnyWork(w) THEN "unpark" ELSE "wait")
  /\ UNCHANGED <<queues, flags, searcher, act>>

\* ... and sleep, until notified or timed out.  Either way a pending notify
\* is used up.
IdleWait(w) ==
  /\ At(w, "wait") /\ Goto(w, "unpark")
  /\ notified' = [notified EXCEPT ![w] = FALSE]
  /\ UNCHANGED <<queues, parked, token, searching, searcher, act>>

\* The poll inside the sleep may wake tasks too.
IdlePoll(w) ==
  /\ At(w, "wait") /\ Goto(w, "unpark")
  /\ \E h \in Worker : EnqueueWoken(w, h)
  /\ notified' = [notified EXCEPT ![w] = FALSE]
  /\ UNCHANGED <<injector, local, deferred, batch, unborn, parked, token, searching, searcher>>

Unpark(w) ==
  /\ At(w, "unpark") /\ Goto(w, "top")
  /\ parked' = [parked EXCEPT ![w] = FALSE]
  /\ UNCHANGED <<queues, token, searching, notified, searcher, act>>

Enqueue(a) == EnqueueFresh(a) \/ \E h \in Worker : Wake(a, h)
WakeStep(a) == WakeSearcher(a) \/ Scan(a) \/ Mark(a) \/ WakeWorker(a)
Look(w) == TakeToken(w) \/ FindOwn(w) \/ FindNothing(w) \/ Extend(w)
           \/ \E v \in Worker : StealHalf(w, v) \/ Watch(w, v) \/ StealPinned(w, v)
Run(w) == StopSearching(w) \/ PassOn(w) \/ RunEnds(w)
Idle(w) == PollReady(w) \/ Seek(w) \/ Spin(w) \/ GiveUp(w) \/ LastLook(w)
           \/ Park(w) \/ Recheck(w) \/ IdleWait(w) \/ IdlePoll(w) \/ Unpark(w)

Next ==
  \/ \E a \in Actor : Enqueue(a) \/ WakeStep(a)
  \/ \E w \in Worker : Look(w) \/ Run(w) \/ Idle(w)

Spec == Init /\ [][Next]_vars

-----------------------------------------------------------------------------
(* Properties                                                              *)

Count == [Worker -> 0..Tasks]
Where == {"top", "find", "extend", "found", "last_one", "run", "poll", "spin",
          "last_look", "park", "recheck", "wait", "unpark"}

\* Every variable has its type.
TypeOK ==
  /\ {injector, unborn, asleep} \subseteq 0..Tasks
  /\ {local, pinned, deferred, batch} \subseteq Count
  /\ {parked, token, notified, searcher} \subseteq [Worker -> BOOLEAN]
  /\ searching \in 0..(3 * Cardinality(Worker) + 1)
  /\ pc \in [Worker -> Where]
  /\ act \in [Actor -> Act]

\* The counter of searchers never drifts, whichever way wakes, timeouts and
\* left-over tokens meet: it counts the workers that search, the tokens not
\* taken yet, and the wakers that hold the slot while they look for a worker.
SearchersCounted ==
  searching = Cardinality({w \in Worker : searcher[w]})
              + Cardinality({w \in Worker : token[w]})
              + Cardinality({a \in Actor : act[a].op \in {"scan", "mark"}})

Sleeps(w) == pc[w] = "wait" /\ ~notified[w]
Coming(w) == \E a \in Actor : act[a].op = "nudge" /\ act[a].at = w

\* No worker sleeps beside work only it may run, unless a notify is on its way.
OwnWorkSeen == \A w \in Worker : Sleeps(w) /\ pinned[w] + deferred[w] > 0 => Coming(w)

Stranded == AnyStealable /\ (\A w \in Worker : Sleeps(w)) /\ (\A a \in Actor : act[a] = Nothing)

\* Nor does the whole pool sleep beside a fresh task, unless a sleeping worker
\* was left a search slot by a waker that found it awake again.
FreshWorkSeen == Stranded => \E w \in Worker : token[w]
=============================================================================
