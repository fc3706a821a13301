---------------------------- MODULE PithSemaphore ----------------------------
(***************************************************************************)
(* The counting semaphore (concurrency/semaphore.rs): a permit count under *)
(* a std mutex, a condvar for os threads and a fifo of parked green tasks. *)
(* A step is one section under that mutex, or a move of the scheduling     *)
(* word.  A release wakes one waiter of each kind; the loser re-checks the *)
(* count and waits again.  A task may be woken by something else, and an   *)
(* os thread for nothing, at any time.                                     *)
(***************************************************************************)
EXTENDS Naturals, FiniteSets, SequencesExt, Procs

CONSTANT Permits    \* `initial`, which is also `max`; a number above 0

VARIABLES
  count,       \* SemaphoreState.count
  waiters,     \* SemaphoreState.green_waiters
  pc, word

vars == <<count, waiters, pc, word>>

Sched == INSTANCE SchedWord WITH Worker <- {}, NoWorker <- NoProc

Init ==
  /\ count = Permits
  /\ waiters = <<>>
  /\ pc = [p \in Proc |-> "idle"]
  /\ word = [t \in Task |-> Sched!RunningWord(Sched!FreshWord, NoProc)]

Goto(p, l) == pc' = [pc EXCEPT ![p] = l]
Listed == {waiters[i] : i \in DOMAIN waiters}

WithStale(t) == waiters    \* a mutant

\* What `rposition` and `remove` leave: the last entry of t goes.
Without(t) ==
  LET last == SelectLastInSeq(waiters, LAMBDA w : w = t)
  IN IF last = 0 THEN waiters ELSE RemoveAt(waiters, last)

-----------------------------------------------------------------------------
(* acquire                                                                 *)

TakeAnyway(p) ==    \* a mutant
  /\ pc[p] \in {"idle", "relock"} /\ count >= 0
  /\ count' = count - 1
  /\ waiters' = Without(p)
  /\ Goto(p, "held")
  /\ UNCHANGED word

\* Under the mutex, on entry or after a wake: a task's own entry goes if a
\* release did not take it, and a free permit is taken.
Take(p) ==
  /\ pc[p] \in {"idle", "relock"} /\ count > 0
  /\ count' = count - 1
  /\ waiters' = Without(p)
  /\ Goto(p, "held")
  /\ UNCHANGED word

\* No permit: wait on the condvar, or join the fifo and let go of the mutex ...
Block(p) ==
  /\ pc[p] \in {"idle", "relock"} /\ count = 0
  /\ \/ p \in OsThread /\ Goto(p, "wait") /\ UNCHANGED waiters
     \/ p \in Task /\ Goto(p, "park") /\ waiters' = Append(Without(p), p)
  /\ UNCHANGED <<count, word>>

\* ... and suspend.
Park(t) ==
  /\ pc[t] = "park"
  /\ word' = [word EXCEPT ![t] = Sched!YieldedWord(@)]
  /\ Goto(t, "asleep")
  /\ UNCHANGED <<count, waiters>>

Resume(t) ==
  /\ pc[t] = "asleep" /\ word[t].st = "ready"
  /\ word' = [word EXCEPT ![t] = Sched!RunningWord(@, NoProc)]
  /\ Goto(t, "relock")
  /\ UNCHANGED <<count, waiters>>

\* A condvar may wake a thread for nothing.
Spurious(o) ==
  /\ pc[o] = "wait"
  /\ Goto(o, "relock")
  /\ UNCHANGED <<count, waiters, word>>

-----------------------------------------------------------------------------
(* release                                                                 *)

Woken(t) == Sched!WokenWord(word[t])

Waiting == {o \in OsThread : pc[o] = "wait"}

GiveBackShort == IF count < Permits - 1 THEN count + 1 ELSE count    \* a mutant

\* The permit goes back, never past `max`.
GiveBack == IF count < Permits THEN count + 1 ELSE count

\* The permit goes back; `notify_one` picks an os thread
\* that waits, and the front green task is woken.
Release(p) ==
  /\ pc[p] = "held"
  /\ count' = GiveBack
  /\ \E one \in {{o} : o \in Waiting} \cup (IF Waiting = {} THEN {{}} ELSE {}) :
       pc' = [q \in Proc |-> IF q \in one THEN "relock"
                             ELSE IF q = p THEN "idle" ELSE pc[q]]
  /\ \/ waiters = <<>> /\ UNCHANGED <<waiters, word>>
     \/ /\ waiters # <<>>
        /\ waiters' = Tail(waiters)
        /\ word' = [word EXCEPT ![Head(waiters)] = Woken(Head(waiters))]

StrayWake(t) ==
  /\ pc[t] \in {"park", "asleep"}
  /\ word' = [word EXCEPT ![t] = Woken(t)]
  /\ UNCHANGED <<count, waiters, pc>>

Next ==
  \/ \E p \in Proc : Take(p) \/ Block(p) \/ Release(p)
  \/ \E t \in Task : Park(t) \/ Resume(t) \/ StrayWake(t)
  \/ \E o \in OsThread : Spurious(o)

Spec == Init /\ [][Next]_vars

(***************************************************************************)
(* Fairness.  A woken waiter gets the mutex back, a Ready task is popped,  *)
(* and whoever holds a permit gives it back.  Nobody has to come for one.  *)
(***************************************************************************)
Fairness ==
  /\ \A p \in Proc : /\ WF_vars(pc[p] = "relock" /\ (Take(p) \/ Block(p)))
                     /\ WF_vars(Release(p))
  /\ \A t \in Task : WF_vars(Park(t) \/ Resume(t))

FairSpec == Spec /\ Fairness

-----------------------------------------------------------------------------
(* Properties                                                              *)

\* Every variable has its type.
TypeOK ==
  /\ count \in 0..Permits
  /\ waiters \in Seq(Task)
  /\ pc \in [Proc -> {"idle", "held", "park", "asleep", "wait", "relock"}]
  /\ word \in [Task -> Sched!Word]

Holders == {p \in Proc : pc[p] = "held"}

\* Permits are neither lost nor made: those out and those in add up.
PermitsConserved == count + Cardinality(Holders) = Permits

\* Tasks a release took off the fifo that have not looked at the count yet.
InFlight ==
  {t \in Task : pc[t] \in {"park", "asleep", "relock"} /\ t \notin Listed}

\* A task is in the fifo at most once, only while it waits, and it is there if
\* it is parked.  So a release never spends its one wake on a task that left.
FifoExact ==
  /\ \A i, j \in DOMAIN waiters : waiters[i] = waiters[j] => i = j
  /\ \A t \in Listed : pc[t] \in {"park", "asleep", "relock"}
  /\ \A t \in Task : pc[t] = "asleep" /\ word[t].st = "parked" => t \in Listed

\* One wake per permit is enough: while a green task is left in the fifo,
\* every free permit has a woken task on its way to it, and the same for os
\* threads asleep on the condvar.
PermitsCovered ==
  /\ Listed # {} => count <= Cardinality(InFlight)
  /\ Waiting # {} => count <= Cardinality({o \in OsThread : pc[o] = "relock"})

\* A waiter gets a permit, unless the others keep taking them.
AcquireProgress ==
  \A p \in Proc :
    \/ (pc[p] \in {"park", "asleep", "wait", "relock"}) ~> pc[p] = "held"
    \/ []<>(\E q \in Proc \ {p} : pc[q] = "held")
=============================================================================
