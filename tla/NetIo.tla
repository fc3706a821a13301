-------------------------------- MODULE NetIo --------------------------------
(***************************************************************************)
(* Reads on one descriptor number while others close it and the kernel     *)
(* hands it out again: fd_handle.rs, netpoll.rs and the read path of       *)
(* fdio.rs together.  A green reader waits in the poller of the worker it  *)
(* runs on: edge-triggered readiness, a deadline or a close ends its wait. *)
(* An os thread blocks in the kernel.  A close leaves the close(2) to the  *)
(* last call inside.  A step is one section under a poller's lock, one     *)
(* compare-exchange on the slot, one system call or one wake.              *)
(*                                                                         *)
(* The read direction stands for both; the time a deadline carries is      *)
(* dropped, a registered one may expire at any moment.  A wait that a      *)
(* stray wake ended leaves its entry behind, `stale`: nobody reads its     *)
(* outcome any more, but it still takes an edge and wakes its task.        *)
(***************************************************************************)
EXTENDS Naturals, FiniteSets, Procs

CONSTANTS
  Worker, NoWorker,
  Closer,       \* who closes handles
  MaxGen,       \* the last generation the number is opened at (a bound)
  Pipes         \* the generations that are pipes, not sockets

ASSUME NetIoAssumption ==
  /\ IsFiniteSet(Proc) /\ MaxGen \in Nat
  /\ Worker \cap Proc = {} /\ NoWorker \notin Worker

Gen == 0..MaxGen
Free == MaxGen + 1    \* the number names no open description

VARIABLES
  slot,         \* the number's word
  number,       \* the description the kernel has under the number
  rx,           \* what a read of a description would find
  inSet, edge,  \* the worker's epoll holds the open description; an edge of it
  fds,          \* Inner.fds of each poller: absent, or its ready bit
  waiters,      \* Inner.waiters and the deadlines that are still theirs
  poll, harvest,    \* where the worker's poll is, and whether it took the edge
  outcome,      \* of each task's present wait
  word, on,     \* a task's scheduling word, and the worker it runs on
  handle, timed,    \* what a call is on, and whether a deadline bounds it
  pc, todo, toWake  \* where a call is; the pollers and tasks its on_close has left

kernel == <<number, rx, inSet, edge>>
registry == <<fds, waiters, outcome>>
calls == <<handle, timed, pc, todo>>
vars == <<slot, kernel, registry, poll, harvest, word, on, calls, toWake>>

Slots == INSTANCE FdHandle WITH MaxUsers <- Cardinality(Proc)
Sched == INSTANCE SchedWord

Waiter == [task : Task, stale : BOOLEAN, timed : BOOLEAN]

Init ==
  /\ slot = Slots!Unopened /\ number = Free
  /\ rx = [g \in Gen |-> "empty"]
  /\ inSet = [w \in Worker |-> FALSE] /\ edge = inSet /\ harvest = inSet
  /\ fds = [w \in Worker |-> "none"] /\ waiters = [w \in Worker |-> {}]
  /\ poll = [w \in Worker |-> "none"]
  /\ outcome = [t \in Task |-> "pending"]
  /\ word = [t \in Task |-> Sched!RunningWord(Sched!FreshWord, NoWorker)]
  /\ on = [t \in Task |-> NoWorker]
  /\ handle = [p \in Proc |-> 0] /\ timed = [p \in Proc |-> FALSE]
  /\ pc = [p \in Proc |-> "idle"] /\ todo = [p \in Proc |-> {}]
  /\ toWake = [a \in Proc \cup Worker |-> {}]

Goto(p, l) == pc' = [pc EXCEPT ![p] = l]
IsLive(p) == Slots!IsLive(slot, handle[p])

\* A worker runs one task or its poll, never both.
Vacant(w) == poll[w] = "none" /\ \A t \in Task : on[t] # w

\* A task that begins or goes on runs on some worker that has nothing else.
RunsOn(p, w) ==
  IF p \in Task THEN w \in Worker /\ Vacant(w) /\ on' = [on EXCEPT ![p] = w]
                ELSE w = NoWorker /\ UNCHANGED on
Suspends(p) == on' = IF p \in Task THEN [on EXCEPT ![p] = NoWorker] ELSE on

\* The call returns.
Returns(p) ==
  /\ Goto(p, "idle") /\ Suspends(p)
  /\ handle' = [handle EXCEPT ![p] = 0] /\ timed' = [timed EXCEPT ![p] = FALSE]

-----------------------------------------------------------------------------
(* The kernel                                                              *)

Readable == number # Free /\ rx[number] # "empty"

\* The description's state changes: every epoll that holds it gets an edge.
Becomes(state) ==
  /\ rx' = [rx EXCEPT ![number] = state]
  /\ edge' = [w \in Worker |-> edge[w] \/ inSet[w]]
  /\ UNCHANGED <<number, inSet>>

\* The peer sends something.
PeerSends ==
  /\ number # Free /\ rx[number] = "empty"
  /\ Becomes("data")
  /\ UNCHANGED <<slot, registry, poll, harvest, word, on, calls, toWake>>

\* accept, connect or pipe returns the number ...
KernelOpens ==
  /\ number = Free /\ (slot.opened => slot.gen < MaxGen)
  /\ number' = Slots!NextGen(slot)
  /\ UNCHANGED <<slot, rx, inSet, edge, registry, poll, harvest, word, on, calls, toWake>>

\* ... and `open` makes a handle of it.
Open ==
  /\ number # Free /\ (slot.opened => slot.gen # number)
  /\ slot' = Slots!Opened(slot)
  /\ UNCHANGED <<kernel, registry, poll, harvest, word, on, calls, toWake>>

-----------------------------------------------------------------------------
(* A read: the guard, the system call, the wait                            *)

\* A stale handle is refused and changes nothing; deadline or not is the
\* socket's business.
Start(p, g, w, bounded) ==
  /\ pc[p] = "idle" /\ Slots!CanAcquire(slot, g) /\ RunsOn(p, w)
  /\ slot' = Slots!Acquired(slot)
  /\ handle' = [handle EXCEPT ![p] = g] /\ timed' = [timed EXCEPT ![p] = bounded]
  /\ Goto(p, "read")
  /\ UNCHANGED <<kernel, registry, poll, harvest, word, todo, toWake>>

\* The system call finds bytes, or the end of stream a shutdown leaves.
Read(p) ==
  /\ pc[p] = "read" /\ Readable
  /\ rx' = [rx EXCEPT ![number] = IF @ = "data" THEN "empty" ELSE @]
  /\ Goto(p, "release")
  /\ UNCHANGED <<slot, number, inSet, edge, registry, poll, harvest, word, on,
                 handle, timed, todo, toWake>>

\* A green call's would block: it waits, or its time is up already.
WouldBlock(t) ==
  /\ pc[t] = "read" /\ ~Readable
  /\ \/ Goto(t, "register")
     \/ timed[t] /\ Goto(t, "release")
  /\ UNCHANGED <<slot, kernel, registry, poll, harvest, word, on, handle, timed,
                 todo, toWake>>

(***************************************************************************)
(* `register_io`, under the poller's lock.  An edge that came while nobody *)
(* waited is consumed instead of waiting.  The first wait adds the number  *)
(* to the epoll set, which reports readiness it already has.               *)
(***************************************************************************)
Register(t) == LET w == on[t] IN
  /\ pc[t] = "register"
  /\ IF fds[w] = "ready"
     THEN /\ fds' = [fds EXCEPT ![w] = "clear"] /\ Goto(t, "ask retry")
          /\ UNCHANGED <<inSet, edge, waiters>>
     ELSE /\ fds' = [fds EXCEPT ![w] = "clear"]
          /\ inSet' = [inSet EXCEPT ![w] = @ \/ fds[w] = "none"]
          /\ edge' = [edge EXCEPT ![w] = @ \/ (fds[w] = "none" /\ Readable)]
          /\ waiters' = [waiters EXCEPT ![w] =
               @ \cup {[task |-> t, stale |-> FALSE, timed |-> timed[t]]}]
          /\ Goto(t, "ask")
  /\ UNCHANGED <<slot, number, rx, outcome, poll, harvest, word, on, handle, timed,
                 todo, toWake>>

AskNot(t) ==    \* a mutant
  /\ pc[t] \in {"ask", "ask retry"}
  /\ Goto(t, IF pc[t] = "ask" THEN "park" ELSE "read")
  /\ UNCHANGED <<slot, kernel, registry, poll, harvest, word, on, handle, timed,
                 todo, toWake>>

\* `live()`, after the registration: a reader that finds its handle closed runs
\* the close teardown itself before it parks.
Ask(t) ==
  /\ pc[t] \in {"ask", "ask retry"}
  /\ Goto(t, CASE pc[t] = "ask retry" -> IF IsLive(t) THEN "read" ELSE "release"
               [] OTHER -> IF IsLive(t) THEN "park" ELSE "self")
  /\ todo' = [todo EXCEPT ![t] = IF pc[t] = "ask" /\ ~IsLive(t) THEN Worker ELSE {}]
  /\ UNCHANGED <<slot, kernel, registry, poll, harvest, word, on, handle, timed, toWake>>

Park(t) ==
  /\ pc[t] = "park"
  /\ word' = [word EXCEPT ![t] = Sched!YieldedWord(@)]
  /\ Goto(t, "asleep") /\ Suspends(t)
  /\ UNCHANGED <<slot, kernel, registry, poll, harvest, handle, timed, todo, toWake>>

\* The entry of a wait that ended without an outcome stays where it is.
Abandoned(t) ==
  waiters' = [w \in Worker |->
    {[x EXCEPT !.stale = @ \/ x.task = t] : x \in waiters[w]}]

\* The wait is over: retry the call, or give up.
Resume(t, w) ==
  /\ pc[t] = "asleep" /\ word[t].st = "ready" /\ RunsOn(t, w)
  /\ word' = [word EXCEPT ![t] = Sched!RunningWord(@, NoWorker)]
  /\ Goto(t, IF outcome[t] \in {"ready", "pending"} THEN "read" ELSE "release")
  /\ Abandoned(t) /\ outcome' = [outcome EXCEPT ![t] = "pending"]
  /\ UNCHANGED <<slot, kernel, fds, poll, harvest, handle, timed, todo, toWake>>

\* The guard goes; the last one out of a closed handle closes the number.
Release(p) ==
  /\ pc[p] = "release" /\ Slots!CanRelease(slot, handle[p])
  /\ slot' = Slots!Released(slot)
  /\ IF Slots!MustFinish(slot')
     THEN Goto(p, "finish") /\ todo' = [todo EXCEPT ![p] = Worker]
          /\ UNCHANGED <<on, handle, timed>>
     ELSE Returns(p) /\ UNCHANGED todo
  /\ UNCHANGED <<kernel, registry, poll, harvest, word, toWake>>

-----------------------------------------------------------------------------
(* Close                                                                   *)

\* With nobody inside the number is closed at once.  Otherwise those inside are
\* woken: by a shutdown, which a pipe has not, and through the pollers.
Close(p, g, w) ==
  /\ p \in Closer /\ pc[p] = "idle" /\ Slots!IsLive(slot, g) /\ RunsOn(p, w)
  /\ slot' = Slots!Closed(slot)
  /\ handle' = [handle EXCEPT ![p] = g]
  /\ Goto(p, IF Slots!MustFinish(slot') THEN "finish"
             ELSE IF g \in Pipes THEN "notify" ELSE "shutdown")
  /\ todo' = [todo EXCEPT ![p] = Worker]
  /\ UNCHANGED <<kernel, registry, poll, harvest, word, timed, toWake>>

\* shutdown(2) names the number, whatever it is by now; only a socket minds.
Shutdown(p) ==
  /\ pc[p] = "shutdown"
  /\ IF number \in Pipes \cup {Free} THEN UNCHANGED kernel ELSE Becomes("shut")
  /\ Goto(p, "notify")
  /\ UNCHANGED <<slot, registry, poll, harvest, word, on, handle, timed, todo, toWake>>

SweepForget(p, w) ==    \* a mutant
  /\ pc[p] \in {"self", "notify", "finish"} /\ w \in todo[p]
  /\ todo' = [todo EXCEPT ![p] = @ \ {w}]
  /\ waiters' = [waiters EXCEPT ![w] = {}] /\ fds' = [fds EXCEPT ![w] = "none"]
  /\ inSet' = [inSet EXCEPT ![w] = FALSE] /\ edge' = [edge EXCEPT ![w] = FALSE]
  /\ UNCHANGED <<slot, number, rx, outcome, poll, harvest, word, on, handle,
                 timed, pc, toWake>>

Resolved(entries, result) ==
  outcome' = [t \in Task |->
    IF [task |-> t, stale |-> FALSE, timed |-> timed[t]] \in entries THEN result
    ELSE outcome[t]]
TasksOf(entries) == {x.task : x \in entries}

\* `close_in`, one poller at a time: its waiters are resolved as closed and the
\* number leaves its epoll set.
Sweep(p, w) ==
  /\ pc[p] \in {"self", "notify", "finish"} /\ w \in todo[p]
  /\ todo' = [todo EXCEPT ![p] = @ \ {w}]
  /\ Resolved(waiters[w], "closed")
  /\ toWake' = [toWake EXCEPT ![p] = @ \cup TasksOf(waiters[w])]
  /\ waiters' = [waiters EXCEPT ![w] = {}] /\ fds' = [fds EXCEPT ![w] = "none"]
  /\ inSet' = [inSet EXCEPT ![w] = FALSE] /\ edge' = [edge EXCEPT ![w] = FALSE]
  /\ UNCHANGED <<slot, number, rx, poll, harvest, word, on, handle, timed, pc>>

\* The locks are dropped before the wakes; the sweeps are done.
Wake(a, t) ==
  /\ t \in toWake[a] /\ (a \in Proc => todo[a] = {})
  /\ toWake' = [toWake EXCEPT ![a] = @ \ {t}]
  /\ word' = [word EXCEPT ![t] = Sched!WokenWord(@)]
  /\ UNCHANGED <<slot, kernel, registry, poll, harvest, on, calls>>

\* on_close returns; `finish_close` goes on to the close(2).
Swept(p) ==
  /\ pc[p] \in {"self", "notify", "finish"} /\ todo[p] = {} /\ toWake[p] = {}
  /\ IF pc[p] = "finish"
     THEN /\ number' = Free /\ rx' = [rx EXCEPT ![number] = "empty"]
          /\ inSet' = [w \in Worker |-> FALSE] /\ edge' = inSet'
     ELSE UNCHANGED kernel
  /\ IF pc[p] = "self" THEN Goto(p, "park") /\ UNCHANGED <<on, handle, timed>>
                       ELSE Returns(p)
  /\ UNCHANGED <<slot, registry, poll, harvest, word, todo, toWake>>

-----------------------------------------------------------------------------
(* A worker polls                                                          *)

\* epoll_wait returns with the edge, if the number is still ready by then, or
\* because a deadline is due.
EpollWait(w) ==
  /\ Vacant(w) /\ (edge[w] \/ \E x \in waiters[w] : x.timed)
  /\ harvest' = [harvest EXCEPT ![w] = edge[w] /\ Readable]
  /\ edge' = [edge EXCEPT ![w] = FALSE]
  /\ poll' = [poll EXCEPT ![w] = "take"]
  /\ UNCHANGED <<slot, number, rx, inSet, registry, word, on, calls, toWake>>

(***************************************************************************)
(* `take_event`, then `collect_expired`, in one hold of the lock.  An edge *)
(* wakes all who wait, or stays behind as the ready bit; an event of a     *)
(* number the poller does not track is dropped.                            *)
(***************************************************************************)
Take(w) == LET fired == IF harvest[w] THEN waiters[w] ELSE {} IN
  /\ poll[w] = "take"
  /\ poll' = [poll EXCEPT ![w] = "wake"] /\ harvest' = [harvest EXCEPT ![w] = FALSE]
  /\ fds' = IF harvest[w] /\ waiters[w] = {} /\ fds[w] # "none"
            THEN [fds EXCEPT ![w] = "ready"] ELSE fds
  /\ \E due \in SUBSET {x \in waiters[w] \ fired : x.timed} :
       /\ waiters' = [waiters EXCEPT ![w] = @ \ (fired \cup due)]
       /\ toWake' = [toWake EXCEPT ![w] = TasksOf(fired \cup due)]
       /\ Resolved(fired \cup due, IF fired # {} THEN "ready" ELSE "timed out")
  /\ UNCHANGED <<slot, kernel, word, on, calls>>

Polled(w) ==
  /\ poll[w] = "wake" /\ toWake[w] = {}
  /\ poll' = [poll EXCEPT ![w] = "none"]
  /\ UNCHANGED <<slot, kernel, registry, harvest, word, on, calls, toWake>>

\* Another site wakes a task by an entry it left there.
StrayWake(t) ==
  /\ pc[t] \in {"park", "asleep"}
  /\ word' = [word EXCEPT ![t] = Sched!WokenWord(@)]
  /\ UNCHANGED <<slot, kernel, registry, poll, harvest, on, calls, toWake>>

-----------------------------------------------------------------------------
Next ==
  \/ PeerSends \/ KernelOpens \/ Open
  \/ \E p \in Proc, w \in Worker \cup {NoWorker}, g \in Gen :
       \/ \E bounded \in BOOLEAN : (bounded => p \in Task) /\ Start(p, g, w, bounded)
       \/ Close(p, g, w)
  \/ \E p \in Proc : Read(p) \/ Release(p) \/ Shutdown(p) \/ Swept(p)
  \/ \E p \in Proc, w \in Worker : Sweep(p, w)
  \/ \E a \in Proc \cup Worker, t \in Task : Wake(a, t)
  \/ \E t \in Task : WouldBlock(t) \/ Register(t) \/ Ask(t) \/ Park(t) \/ StrayWake(t)
  \/ \E t \in Task, w \in Worker : Resume(t, w)
  \/ \E w \in Worker : EpollWait(w) \/ Take(w) \/ Polled(w)

Spec == Init /\ [][Next]_vars

(***************************************************************************)
(* Fairness.  A call that runs goes on, a worker with nothing to run polls *)
(* and finishes its poll, a Ready task gets a worker.  The peer need not   *)
(* send, nobody need close, and a deadline need not be there.              *)
(***************************************************************************)
Fairness ==
  /\ \A p \in Proc :
       /\ WF_vars(Read(p) \/ Release(p) \/ Shutdown(p) \/ Swept(p)
                  \/ \E w \in Worker : Sweep(p, w))
       /\ \A t \in Task : WF_vars(Wake(p, t))
  /\ \A t \in Task :
       /\ WF_vars(WouldBlock(t) \/ Register(t) \/ Ask(t) \/ Park(t))
       /\ SF_vars(\E w \in Worker : Resume(t, w))
  /\ \A w \in Worker :
       /\ SF_vars(EpollWait(w)) /\ WF_vars(Take(w) \/ Polled(w))
       /\ \A t \in Task : WF_vars(Wake(w, t))

FairSpec == Spec /\ Fairness

-----------------------------------------------------------------------------
(* Properties                                                              *)

\* Every variable has its type.
TypeOK ==
  /\ slot \in Slots!Slot(Gen) /\ number \in Gen \cup {Free}
  /\ rx \in [Gen -> {"empty", "data", "shut"}]
  /\ {inSet, edge, harvest} \subseteq [Worker -> BOOLEAN]
  /\ fds \in [Worker -> {"none", "clear", "ready"}]
  /\ waiters \in [Worker -> SUBSET Waiter]
  /\ poll \in [Worker -> {"none", "take", "wake"}]
  /\ outcome \in [Task -> {"pending", "ready", "timed out", "closed"}]
  /\ word \in [Task -> Sched!Word] /\ on \in [Task -> Worker \cup {NoWorker}]
  /\ handle \in [Proc -> Gen] /\ timed \in [Proc -> BOOLEAN]
  /\ pc \in [Proc -> {"idle", "read", "register", "ask", "ask retry", "self", "park",
                      "asleep", "release", "shutdown", "notify", "finish"}]
  /\ todo \in [Proc -> SUBSET Worker] /\ toWake \in [Proc \cup Worker -> SUBSET Task]

Inside == {p \in Proc : pc[p] \in {"read", "register", "ask", "ask retry", "self",
                                   "park", "asleep", "release"}}
Finishing == {p \in Proc : pc[p] = "finish"}

\* The number is not recycled under a call: while a guard is held, and while
\* the last one out closes it, the number is the description the handle names.
\* A closed handle's number is kept by exactly those inside or by the one that
\* closes it, so it is closed once and not leaked.
NumberHeld ==
  /\ \A p \in Inside \cup Finishing : number = handle[p] /\ slot.gen = handle[p]
  /\ slot.users = Cardinality(Inside)
  /\ Cardinality(Finishing) <= 1
  /\ number = slot.gen /\ slot.opened /\ ~slot.live =>
       (Inside = {} <=> Finishing # {})

Waits(t, w) == \E x \in waiters[w] : x.task = t /\ ~x.stale
Parked(t) == pc[t] = "asleep" /\ word[t].st = "parked"

\* The poller's map and the kernel's set agree: what the map holds is in the
\* epoll set for the description open now, never for one that is gone.
RegistryTracksKernel ==
  \A w \in Worker : (fds[w] # "none" <=> inSet[w]) /\ (inSet[w] => number # Free)

\* No wait is missed, and the registry is the kernel's.  A parked reader that
\* has been resolved has a wake on its way.  One that has not is registered in a
\* poller whose worker holds or has queued the edge if there is something to
\* read, and which somebody has yet to sweep if the handle is closed.
NoLostReadiness ==
  /\ RegistryTracksKernel
  /\ \A t \in Task : Parked(t) =>
    \/ \E a \in Proc \cup Worker : t \in toWake[a]
    \/ /\ outcome[t] = "pending"
       /\ \E w \in Worker :
            /\ Waits(t, w) /\ fds[w] # "none" /\ inSet[w]
            /\ Readable => edge[w] \/ harvest[w]
            /\ IsLive(t) \/ \E p \in Proc : pc[p] \in {"shutdown", "self", "notify"} /\ w \in todo[p]

\* A close ends the reads on it: every call inside a closed handle returns,
\* but for an os thread in a pipe, which its writer has to answer.
ReadReturns ==
  \A p \in Proc :
    (p \in Inside /\ ~IsLive(p) /\ (p \in Task \/ handle[p] \notin Pipes))
      ~> (p \notin Inside)
=============================================================================
