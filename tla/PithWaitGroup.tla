---------------------------- MODULE PithWaitGroup ----------------------------
(***************************************************************************)
(* The wait group (concurrency/waitgroup.rs): a counter under a std mutex, *)
(* a condvar for os threads and a list of parked green tasks.  A step is   *)
(* one section under that mutex, or a move of the scheduling word.  The    *)
(* processes that add and count down are not named: each step of theirs is *)
(* one section and keeps nothing.                                          *)
(***************************************************************************)
EXTENDS Integers, Procs

CONSTANTS
  Delta,       \* the arguments of add, integers
  MaxCount     \* bound: the counter is not added past it

VARIABLES
  count,       \* WaitGroupState.count
  waiters,     \* WaitGroupState.green_waiters; never a duplicate, so a set
  pc, word

vars == <<count, waiters, pc, word>>

Sched == INSTANCE SchedWord WITH Worker <- {}, NoWorker <- NoProc

Init ==
  /\ count = 0
  /\ waiters = {}
  /\ pc = [p \in Proc |-> "idle"]
  /\ word = [t \in Task |-> Sched!RunningWord(Sched!FreshWord, NoProc)]

Goto(p, l) == pc' = [pc EXCEPT ![p] = l]

Woken(t) == Sched!WokenWord(word[t])

-----------------------------------------------------------------------------
(* add and done                                                            *)

\* `add` moves the counter, not below 0, and wakes nobody.
Add(delta) ==
  /\ count + delta <= MaxCount
  /\ count' = IF count + delta < 0 THEN 0 ELSE count + delta
  /\ UNCHANGED <<waiters, pc, word>>

LessUnchecked == count - 1    \* a mutant
Less == IF count > 0 THEN count - 1 ELSE 0

\* `done` counts down; at 0 (also when it was 0) it wakes everybody.
Done ==
  /\ count' = Less
  /\ \/ /\ Less = 0
        /\ pc' = [p \in Proc |-> IF pc[p] = "wait" THEN "relock" ELSE pc[p]]
        /\ word' = [t \in Task |-> IF t \in waiters THEN Woken(t) ELSE word[t]]
        /\ waiters' = {}
     \/ Less # 0 /\ UNCHANGED <<waiters, pc, word>>

-----------------------------------------------------------------------------
(* wait                                                                    *)

\* Under the mutex, on entry or after a wake: an entry no `done` drained goes,
\* and the wait is over if the counter is 0.
Return(p) ==
  /\ pc[p] \in {"idle", "relock"} /\ count = 0
  /\ waiters' = waiters \ {p}
  /\ Goto(p, "idle")
  /\ UNCHANGED <<count, word>>

\* Wait on the condvar, or join the list and let go of the mutex ...
Block(p) ==
  /\ pc[p] \in {"idle", "relock"} /\ count > 0
  /\ \/ p \in OsThread /\ Goto(p, "wait") /\ UNCHANGED waiters
     \/ p \in Task /\ Goto(p, "park") /\ waiters' = waiters \cup {p}
  /\ UNCHANGED <<count, word>>

\* ... and suspend.
Park(t) ==
  /\ pc[t] = "park"
  /\ word' = [word EXCEPT ![t] = Sched!YieldedWord(@)]
  /\ Goto(t, "asleep")
  /\ UNCHANGED <<count, waiters>>

Resume(t) ==
  /\ pc[t] = "asleep" /\ word[t].st = "ready"
  /\ word' = [word EXCEPT ![t] = Sched!RunningWord(@, NoProc)]
  /\ Goto(t, "relock")
  /\ UNCHANGED <<count, waiters>>

\* A condvar may wake a thread, and another site a task, for nothing.
Spurious(o) ==
  /\ pc[o] = "wait"
  /\ Goto(o, "relock")
  /\ UNCHANGED <<count, waiters, word>>

StrayWake(t) ==
  /\ pc[t] \in {"park", "asleep"}
  /\ word' = [word EXCEPT ![t] = Woken(t)]
  /\ UNCHANGED <<count, waiters, pc>>

Next ==
  \/ \E delta \in Delta : Add(delta)
  \/ Done
  \/ \E p \in Proc : Return(p) \/ Block(p)
  \/ \E t \in Task : Park(t) \/ Resume(t) \/ StrayWake(t)
  \/ \E o \in OsThread : Spurious(o)

Spec == Init /\ [][Next]_vars

\* A woken waiter gets the mutex back, and a Ready task is popped.  Nobody has
\* to add or to count down.
Fairness ==
  /\ \A p \in Proc : WF_vars(pc[p] = "relock" /\ (Return(p) \/ Block(p)))
  /\ \A t \in Task : WF_vars(Park(t) \/ Resume(t))

FairSpec == Spec /\ Fairness

-----------------------------------------------------------------------------
(* Properties                                                              *)

\* Every variable has its type.
TypeOK ==
  /\ count \in 0..MaxCount
  /\ waiters \in SUBSET Task
  /\ pc \in [Proc -> {"idle", "park", "asleep", "wait", "relock"}]
  /\ word \in [Task -> Sched!Word]

\* No waiter is left behind: whoever is parked in `wait`, or on its way there
\* with no wake to come, sees a counter above 0, and a `done` will find it.
NobodyLeft ==
  /\ \A o \in OsThread : pc[o] = "wait" => count > 0
  /\ \A t \in Task :
       \/ pc[t] = "park" /\ ~word[t].wake
       \/ pc[t] = "asleep" /\ word[t].st = "parked"
       => count > 0 /\ t \in waiters

\* A wait returns once the count reaches zero and stays there.
WaitReturns ==
  \A p \in Proc : []<>(count > 0 \/ pc[p] = "idle")
=============================================================================
