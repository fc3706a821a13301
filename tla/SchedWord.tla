------------------------------ MODULE SchedWord ------------------------------
(***************************************************************************)
(* The scheduling word of a green task and the pure decisions made on it:  *)
(* `wake_step` (green/wake.rs), `after_yield` and the claim in `run_task`  *)
(* (green/run.rs), over the bit layout of green/task.rs.  The word packs a *)
(* run state, two flags and the owner worker; here it is a record.  Every  *)
(* module that parks or wakes a green task goes through these operators,   *)
(* as every block site of the runtime goes through those functions.        *)
(***************************************************************************)
CONSTANTS
  Worker,      \* the worker threads of the pool
  NoWorker     \* the owner field of a task that has never been resumed

ASSUME WorkerAssumption == NoWorker \notin Worker

RunState == {"ready", "running", "parked", "done"}

Word == [st : RunState, wake : BOOLEAN, preempt : BOOLEAN,
         owner : Worker \cup {NoWorker}]

\* A run state and an owner, with both flags clear.
Clear(st, owner) ==
  [st |-> st, wake |-> FALSE, preempt |-> FALSE, owner |-> owner]

\* A block that holds no task: every wake of it is a no-op.
DoneWord == Clear("done", NoWorker)

\* What `arm` stores for a freshly spawned task: Ready, not pinned yet.
FreshWord == Clear("ready", NoWorker)

HomeForAnyone(owner, waker, mayMove) ==
  IF mayMove /\ owner # NoWorker THEN waker ELSE owner    \* a mutant

(***************************************************************************)
(* `home_for` in `claim_parked`: with migration on, a worker that wakes a  *)
(* task pinned elsewhere takes it over; a waker that is no worker, or a    *)
(* `wake_in_place`, leaves the owner alone.                                *)
(***************************************************************************)
HomeFor(owner, waker, mayMove) ==
  IF mayMove /\ owner # NoWorker /\ waker \in Worker THEN waker ELSE owner

\* WakeStep::Claim -- only a parked task is claimed; the flags are cleared.
ClaimableEarly(w) == w.st \in {"running", "parked"}    \* a mutant
Claimable(w) == w.st = "parked"
ClaimedWord(home) == Clear("ready", home)

\* WakeStep::Pend -- a task still running or suspending keeps the wake as a flag.
Pendable(w) == w.st = "running"
PendedDropped(w) == w    \* a mutant
PendedWord(w) == [w EXCEPT !.wake = TRUE]

\* `claim_parked` in place: the word of a task after a wake of it.  A Ready or
\* Done one is left alone.
WokenWord(w) ==
  IF Claimable(w) THEN ClaimedWord(w.owner)
  ELSE IF Pendable(w) THEN PendedWord(w)
  ELSE w

\* The Ready -> Running CAS of `run_task`; the first resume pins the owner.
RunningWord(w, worker) ==
  Clear("running", IF w.owner = NoWorker THEN worker ELSE w.owner)

\* The flag `pith_green_maybe_yield` sets before it parks an overrunning task.
PreemptedWord(w) == [w EXCEPT !.preempt = TRUE]

YieldedDropWake(w) ==    \* a mutant
  Clear(IF w.preempt THEN "ready" ELSE "parked", w.owner)

(***************************************************************************)
(* `after_yield`: a pending flag sends the task back to Ready, otherwise it *)
(* is Parked and the block site owns its wake.  Both flags are consumed.   *)
(***************************************************************************)
YieldedWord(w) ==
  Clear(IF w.preempt \/ w.wake THEN "ready" ELSE "parked", w.owner)

\* Where `run_task` puts the task that just suspended.
Requeue(w) == IF w.preempt THEN "defer" ELSE IF w.wake THEN "repin" ELSE "none"
=============================================================================
