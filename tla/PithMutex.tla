------------------------------ MODULE PithMutex ------------------------------
(***************************************************************************)
(* The pith Mutex (concurrency/mutex.rs): one atomic word, 0 free, 1 held, *)
(* 2 held with green tasks to wake, and a list of parked green tasks under *)
(* a lock of its own.  An os thread spins.  A green task that finds the    *)
(* mutex held marks it 2 under the list lock, lists itself and suspends.   *)
(*                                                                         *)
(* A step is one atomic operation on the state word or the scheduling      *)
(* word, or one access to the list under its lock.  Suspension and wake go *)
(* through SchedWord; placement (owners, queues) is GreenTask's subject,   *)
(* so the tasks here have no owner.  A task may be woken by something else *)
(* at any time.  Only the holder unlocks: the code does not check it.      *)
(***************************************************************************)
EXTENDS Naturals, Procs

VARIABLES
  state,       \* PithMutex.state: 0, 1 or 2
  waiters,     \* PithMutex.green_waiters; never a duplicate, so a set
  wlock,       \* who holds the lock of green_waiters
  pc,          \* where a process is in lock / unlock
  word         \* scheduling words

vars == <<state, waiters, wlock, pc, word>>

Sched == INSTANCE SchedWord WITH Worker <- {}, NoWorker <- NoProc

Phase == {"idle", "try", "contend", "register", "park", "asleep", "crit",
          "drain", "draining"}

Init ==
  /\ state = 0
  /\ waiters = {}
  /\ wlock = NoProc
  /\ pc = [p \in Proc |-> "idle"]
  /\ word = [t \in Task |-> Sched!RunningWord(Sched!FreshWord, NoProc)]

Goto(p, phase) == pc' = [pc EXCEPT ![p] = phase]

-----------------------------------------------------------------------------
(* lock                                                                    *)

Lock(p) ==
  /\ pc[p] = "idle"
  /\ Goto(p, "try")
  /\ UNCHANGED <<state, waiters, wlock, word>>

AcquireAdd(p) ==    \* a mutant
  /\ pc[p] = "try"
  /\ state' = state + 1
  /\ Goto(p, "crit")
  /\ UNCHANGED <<waiters, wlock, word>>

\* The 0 -> 1 compare-exchange, at the top of both loops.
Acquire(p) ==
  /\ pc[p] = "try" /\ state = 0
  /\ state' = 1
  /\ Goto(p, "crit")
  /\ UNCHANGED <<waiters, wlock, word>>

\* The green path found it held.  (`lock_os` just goes round its loop.)
Contend(t) ==
  /\ pc[t] = "try" /\ state # 0
  /\ Goto(t, "contend")
  /\ UNCHANGED <<state, waiters, wlock, word>>

MarkHeld(t) ==    \* a mutant
  /\ pc[t] = "contend" /\ wlock = NoProc
  /\ state \in {1, 2}
  /\ wlock' = t
  /\ Goto(t, "register")
  /\ UNCHANGED <<state, waiters, word>>

\* Under the list lock: 1 -> 2, or it is 2 already; t keeps the list lock.
Mark(t) ==
  /\ pc[t] = "contend" /\ wlock = NoProc
  /\ state \in {1, 2}
  /\ state' = 2
  /\ wlock' = t
  /\ Goto(t, "register")
  /\ UNCHANGED <<waiters, word>>

\* An unlock came in between: retry, the list lock is dropped.
Retry(t) ==
  /\ pc[t] = "contend" /\ wlock = NoProc
  /\ state = 0
  /\ Goto(t, "try")
  /\ UNCHANGED <<state, waiters, wlock, word>>

\* List the task (once) and drop the list lock.
Register(t) ==
  /\ pc[t] = "register"
  /\ waiters' = waiters \cup {t}
  /\ wlock' = NoProc
  /\ Goto(t, "park")
  /\ UNCHANGED <<state, word>>

\* `park_current` and the `after_yield` CAS.
Park(t) ==
  /\ pc[t] = "park"
  /\ word' = [word EXCEPT ![t] = Sched!YieldedWord(@)]
  /\ Goto(t, "asleep")
  /\ UNCHANGED <<state, waiters, wlock>>

\* A Ready task is resumed, inside the loop of `lock_green`.
Resume(t) ==
  /\ pc[t] = "asleep" /\ word[t].st = "ready"
  /\ word' = [word EXCEPT ![t] = Sched!RunningWord(@, NoProc)]
  /\ Goto(t, "try")
  /\ UNCHANGED <<state, waiters, wlock>>

-----------------------------------------------------------------------------
(* unlock                                                                  *)

\* `claim_parked` (mayMove = FALSE, and no owner to move).
Woken(t) == Sched!WokenWord(word[t])

\* The swap of 0 into the state.
Unlock(p) ==
  /\ pc[p] = "crit"
  /\ state' = 0
  /\ Goto(p, IF state = 2 THEN "drain" ELSE "idle")
  /\ UNCHANGED <<waiters, wlock, word>>

DrainStart(p) ==
  /\ pc[p] = "drain" /\ wlock = NoProc
  /\ wlock' = p
  /\ Goto(p, "draining")
  /\ UNCHANGED <<state, waiters, word>>

DrainWake(p, t) ==
  /\ pc[p] = "draining" /\ t \in waiters
  /\ waiters' = waiters \ {t}
  /\ word' = [word EXCEPT ![t] = Woken(t)]
  /\ UNCHANGED <<state, wlock, pc>>

DrainEnd(p) ==
  /\ pc[p] = "draining" /\ waiters = {}
  /\ wlock' = NoProc
  /\ Goto(p, "idle")
  /\ UNCHANGED <<state, waiters, word>>

-----------------------------------------------------------------------------
\* A wake from another block site, where the task is still listed.
StrayWake(t) ==
  /\ word' = [word EXCEPT ![t] = Woken(t)]
  /\ UNCHANGED <<state, waiters, wlock, pc>>

GreenNext(t) ==
  \/ Contend(t) \/ Mark(t) \/ Retry(t) \/ Register(t) \/ Park(t) \/ Resume(t)

Next ==
  \/ \E p \in Proc : \/ Lock(p) \/ Acquire(p) \/ Unlock(p)
                     \/ DrainStart(p) \/ DrainEnd(p)
                     \/ \E t \in Task : DrainWake(p, t)
  \/ \E t \in Task : GreenNext(t) \/ StrayWake(t)

Spec == Init /\ [][Next]_vars

(***************************************************************************)
(* Fairness.  Whoever is inside lock or unlock goes on: threads and        *)
(* workers run, the list lock is a std Mutex held for a few instructions   *)
(* (strong, since processes take it in turn), and a Ready task is popped   *)
(* (GreenTask).  The holder unlocks.  Nobody has to lock, and a stray wake *)
(* need never come.                                                        *)
(***************************************************************************)
Fairness ==
  /\ \A p \in Proc :
       /\ WF_vars(Acquire(p)) /\ WF_vars(Unlock(p))
       /\ SF_vars(DrainStart(p)) /\ WF_vars(DrainEnd(p))
       /\ WF_vars(\E t \in Task : DrainWake(p, t))
  /\ \A t \in Task :
       /\ WF_vars(Contend(t)) /\ SF_vars(Mark(t) \/ Retry(t))
       /\ WF_vars(Register(t) \/ Park(t) \/ Resume(t))

FairSpec == Spec /\ Fairness

-----------------------------------------------------------------------------
(* Properties                                                              *)

\* Every variable has its type.
TypeOK ==
  /\ state \in 0..2
  /\ waiters \in SUBSET Task
  /\ wlock \in Proc \cup {NoProc}
  /\ pc \in [Proc -> Phase]
  /\ word \in [Task -> Sched!Word]

\* At most one process is between lock and unlock, and then the word says so.
MutualExclusion ==
  /\ \A p, q \in Proc : pc[p] = "crit" /\ pc[q] = "crit" => p = q
  /\ \A p \in Proc : pc[p] = "crit" => state # 0

\* An unlock that read 2 and has not emptied the list yet.
Draining == \E p \in Proc : pc[p] \in {"drain", "draining"}

\* No lost wake: a task parked in lock is listed, and while anything is listed
\* the next unlock will read 2, or an earlier one has yet to drain the list.
WaiterCovered ==
  /\ \A t \in Task : pc[t] = "asleep" /\ word[t].st = "parked" => t \in waiters
  /\ waiters # {} => state = 2 \/ Draining

Waiting(p) == pc[p] \in {"try", "contend", "register", "park", "asleep"}

\* A process that wants the mutex gets it, unless the others keep taking it:
\* the lock lets newcomers overtake, but it never leaves a waiter asleep on a
\* mutex that nobody holds.
LockProgress ==
  \A p \in Proc :
    \/ Waiting(p) ~> pc[p] = "crit"
    \/ []<>(\E q \in Proc \ {p} : pc[q] = "crit")
=============================================================================
