----------------------------- MODULE MCScheduler -----------------------------
(***************************************************************************)
(* Small instances of GreenTask and of WorkerPool.  The first names the    *)
(* tasks and lets workers find them as they like, the second counts the    *)
(* tasks and has the workers look, sleep and be woken.  A behaviour        *)
(* exercises one of them, `part`.  The names of GreenTask are used as they *)
(* are; WorkerPool's have a P before them.                                 *)
(***************************************************************************)
EXTENDS GreenTask, TLC

CONSTANTS Parts, Main, Tasks

VARIABLES
  part,
  injector, local, pinned, deferred, batch, asleep, unborn, parked, token,
  searching, notified, pPc, searcher, act

pVars == <<injector, local, pinned, deferred, batch, asleep, unborn, parked,
           token, searching, notified, pPc, searcher, act>>

P == INSTANCE WorkerPool WITH pc <- pPc

ASSUME SchedulerBounds == Parts \subseteq {"tasks", "pool"} /\ P!WorkerPoolAssumption

\* The pool as it starts, or as a task has left it that spawned all the others
\* on its worker and ended: a thief finds more than one.
PoolInit ==
  \/ P!Init
  \/ /\ part = "pool" /\ unborn = 0 /\ P!Quiet
     /\ \E spawner \in Worker :
          local = [w \in Worker |-> IF w = spawner THEN Tasks ELSE 0]

SchedulerInit == part \in Parts /\ Init /\ PoolInit

SchedulerNext ==
  \/ part = "tasks" /\ Next /\ UNCHANGED <<part, pVars>>
  \/ part = "pool" /\ P!Next /\ UNCHANGED <<part, vars>>

SchedulerSpec == SchedulerInit /\ [][SchedulerNext]_<<part, vars, pVars>>

\* The tasks alone, under the fairness of the worker loop.
LiveSpec == SchedulerSpec /\ Fairness

\* Every variable has its type.
TypesOK == IF part = "tasks" THEN TypeOK ELSE P!TypeOK

\* The properties of WorkerPool, by the names they have there.
SearchersCounted == part = "pool" => P!SearchersCounted
WorkSeen == part = "pool" => P!OwnWorkSeen /\ P!FreshWorkSeen

\* Workers, and ids, are interchangeable; no liveness is checked here.
Symmetry == Permutations(Worker) \cup Permutations(Id)
=============================================================================
