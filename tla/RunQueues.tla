------------------------------ MODULE RunQueues ------------------------------
(***************************************************************************)
(* The order in which one worker runs its tasks (green/queues.rs, and      *)
(* find_work and the turn counter of worker_loop in green/worker.rs): the  *)
(* affinity slot and the fifo of woken tasks, the queue of preempted ones, *)
(* and the two queues of tasks that have never run.  A step is one section *)
(* under a queue lock.  The pool has this one worker, so nothing is stolen *)
(* from it and nobody helps it; what peers do to a queue is WorkerPool's   *)
(* business.                                                               *)
(***************************************************************************)
EXTENDS Naturals, Sequences

CONSTANTS
  Task,
  MaxStreak,    \* MAX_AFFINITY_STREAK, 32 in the code
  PollEvery,    \* POLL_EVERY, 61 in the code
  NoTask

VARIABLES
  next,         \* PinnedQueue.next, the affinity slot
  fifo,         \* PinnedQueue.queue
  streak,       \* PinnedQueue.affinity_streak
  deferred,     \* Worker.deferred
  local,        \* Worker.local
  injector,     \* Scheduler.injector
  running,      \* the task inside run_task
  asleep,       \* started tasks that are parked
  sincePoll, turn, lastTurn    \* the locals of worker_loop

queues == <<next, fifo, streak, deferred, local, injector>>
turns == <<sincePoll, turn, lastTurn>>
vars == <<queues, running, asleep, turns>>

Elems(s) == {s[i] : i \in DOMAIN s}
Pinned == Elems(fifo) \cup ({next} \ {NoTask})
Fresh == Elems(local) \cup Elems(injector)
Queued == Pinned \cup Elems(deferred) \cup Fresh

\* A block that no task uses.
Unborn == Task \ (Queued \cup asleep \cup {running})

Init ==
  /\ next = NoTask /\ fifo = <<>> /\ streak = 0
  /\ deferred = <<>> /\ local = <<>> /\ injector = <<>>
  /\ running = NoTask /\ asleep = {}
  /\ sincePoll = 0 /\ turn = "none" /\ lastTurn = "fresh"

-----------------------------------------------------------------------------
(* Queues                                                                  *)

\* A wake by the owner itself: the task runs next, and the one that was to run
\* next goes to the back of the fifo.
PushNext(t) ==
  /\ next' = t
  /\ fifo' = IF next = NoTask THEN fifo ELSE Append(fifo, next)
  /\ UNCHANGED streak

\* Any other wake.
Push(t) == fifo' = Append(fifo, t) /\ UNCHANGED <<next, streak>>

PopSlotAlways ==    \* a mutant
  /\ running' = IF next # NoTask THEN next ELSE Head(fifo)
  /\ IF next # NoTask
     THEN next' = NoTask /\ UNCHANGED <<fifo, streak>>
     ELSE fifo' = Tail(fifo) /\ UNCHANGED <<next, streak>>

\* The slot first, MaxStreak times running; then the fifo has a turn.
PopPinned ==
  \/ /\ streak < MaxStreak /\ next # NoTask
     /\ running' = next
     /\ next' = NoTask /\ streak' = streak + 1
     /\ UNCHANGED fifo
  \/ /\ streak >= MaxStreak \/ next = NoTask
     /\ streak' = 0
     /\ IF fifo # <<>>
        THEN running' = Head(fifo) /\ fifo' = Tail(fifo) /\ UNCHANGED next
        ELSE running' = next /\ next' = NoTask /\ UNCHANGED fifo

\* This worker's own spawns first, then what came from outside the pool.
PopFresh ==
  IF local # <<>>
  THEN running' = Head(local) /\ local' = Tail(local) /\ UNCHANGED injector
  ELSE running' = Head(injector) /\ injector' = Tail(injector) /\ UNCHANGED local

PopDeferred == running' = Head(deferred) /\ deferred' = Tail(deferred)

-----------------------------------------------------------------------------
(* The worker loop                                                         *)

\* Which queue a waiting turn takes from: the preempted or the fresh tasks
\* first, the other kind next.
Waiting ==
  CASE turn = "deferred" /\ deferred # <<>> -> "deferred"
    [] turn # "none" /\ Fresh # {}          -> "fresh"
    [] turn = "fresh" /\ deferred # <<>>    -> "deferred"
    [] OTHER                                -> "none"

\* Which queue find_work takes from.
Source ==
  CASE Waiting # "none" -> Waiting
    [] Pinned # {}      -> "pinned"
    [] Fresh # {}       -> "fresh"
    [] deferred # <<>>  -> "deferred"
    [] OTHER            -> "none"

\* Unless a waiting turn was served, the pinned tasks are asked first: their
\* pop resets the streak even when it comes back empty.
FindWork ==
  /\ running = NoTask
  /\ turn' = "none"
  /\ \/ /\ Source = "pinned" /\ PopPinned
        /\ UNCHANGED <<deferred, local, injector, sincePoll>>
     \/ /\ Source # "pinned"
        /\ streak' = IF Waiting = "none" THEN 0 ELSE streak
        /\ \/ Source = "fresh" /\ PopFresh /\ UNCHANGED <<deferred, sincePoll>>
           \/ Source = "deferred" /\ PopDeferred /\ UNCHANGED <<local, injector, sincePoll>>
           \/ /\ Source = "none" /\ sincePoll' = 0
              /\ UNCHANGED <<deferred, local, injector, running>>
        /\ UNCHANGED <<next, fifo>>
  /\ UNCHANGED <<asleep, lastTurn>>

\* After each task; every PollEvery tasks the next find_work is a waiting
\* turn, for the preempted and the fresh tasks alternately.
CountTurn ==
  IF sincePoll + 1 >= PollEvery
  THEN /\ sincePoll' = 0
       /\ lastTurn' = IF lastTurn = "deferred" THEN "fresh" ELSE "deferred"
       /\ turn' = lastTurn'
  ELSE /\ sincePoll' = sincePoll + 1
       /\ UNCHANGED <<turn, lastTurn>>

\* run_task returns: the task parked, was preempted, was woken while it was
\* suspending, or ended and left its block to another.
RunEnds ==
  /\ running # NoTask
  /\ running' = NoTask
  /\ \/ asleep' = asleep \cup {running} /\ UNCHANGED queues
     \/ /\ deferred' = Append(deferred, running)
        /\ UNCHANGED <<next, fifo, streak, local, injector, asleep>>
     \/ PushNext(running) /\ UNCHANGED <<deferred, local, injector, asleep>>
     \/ UNCHANGED <<queues, asleep>>
  /\ CountTurn

-----------------------------------------------------------------------------
(* What tasks, the poller and other threads do meanwhile                   *)

\* A wake from this worker: by the task it runs, or by its poller.
WakeHere(t) ==
  /\ t \in asleep /\ asleep' = asleep \ {t}
  /\ PushNext(t)
  /\ UNCHANGED <<deferred, local, injector, running, turns>>

\* A wake from another thread.
WakeThere(t) ==
  /\ t \in asleep /\ asleep' = asleep \ {t}
  /\ Push(t)
  /\ UNCHANGED <<deferred, local, injector, running, turns>>

\* A spawn by the running task ...
SpawnHere(t) ==
  /\ t \in Unborn /\ running # NoTask
  /\ local' = Append(local, t)
  /\ UNCHANGED <<next, fifo, streak, deferred, injector, running, asleep, turns>>

\* ... and by a thread outside the pool.
SpawnThere(t) ==
  /\ t \in Unborn
  /\ injector' = Append(injector, t)
  /\ UNCHANGED <<next, fifo, streak, deferred, local, running, asleep, turns>>

Next ==
  \/ FindWork \/ RunEnds
  \/ \E t \in Task : WakeHere(t) \/ WakeThere(t) \/ SpawnHere(t) \/ SpawnThere(t)

Spec == Init /\ [][Next]_vars

(***************************************************************************)
(* Fairness.  The worker thread runs, and a task that neither ends nor     *)
(* blocks is preempted.  Nobody has to spawn or wake anything.             *)
(***************************************************************************)
Fairness == WF_vars(FindWork) /\ WF_vars(RunEnds)

FairSpec == Spec /\ Fairness

-----------------------------------------------------------------------------
(* Properties                                                              *)

\* Every variable has its type, and a task is in one place.
TypeOK ==
  /\ {next, running} \subseteq Task \cup {NoTask} /\ asleep \subseteq Task
  /\ streak \in 0..MaxStreak /\ sincePoll \in 0..(PollEvery - 1)
  /\ turn \in {"none", "deferred", "fresh"} /\ lastTurn \in {"deferred", "fresh"}
  /\ \A q \in {fifo, deferred, local, injector} : q \in Seq(Task)
  /\ \A t \in Task :
       Len(SelectSeq(fifo \o deferred \o local \o injector \o <<next, running>>,
                     LAMBDA x : x = t)) + (IF t \in asleep THEN 1 ELSE 0) <= 1

\* Nobody starves on a worker: a woken task behind a pair that wakes each other
\* for ever, a preempted task behind woken and fresh ones, and a task its own
\* worker spawned, all run in the end.
EveryoneRuns ==
  \A t \in Task : t \in Pinned \cup Elems(deferred) \cup Elems(local) ~> running = t
=============================================================================
