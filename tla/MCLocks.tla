------------------------------- MODULE MCLocks -------------------------------
(***************************************************************************)
(* Small instances of Mutex, Semaphore, WaitGroup and a worker's wait on   *)
(* its poller.  The four share no state and never call each other, so a    *)
(* behaviour exercises one of them, `part`, and leaves the others in their *)
(* initial state, where no fair action of theirs is enabled.  The names of *)
(* PithMutex are used as they are; those of the others have an S, a G or a *)
(* P before them.                                                          *)
(***************************************************************************)
EXTENDS PithMutex, Integers

CONSTANTS Parts, Permits, Delta, MaxCount

ASSUME LocksBounds ==
  /\ Parts \subseteq {"mutex", "semaphore", "waitgroup", "park"}
  /\ Permits \in Nat \ {0}
  /\ Delta \subseteq Int /\ MaxCount \in Nat

VARIABLES
  part,
  sCount, sWaiters, sPc, sWord,
  gCount, gWaiters, gPc, gWord,
  notified, mode, eventfd, pLock, signalled, harvest, pPc

sVars == <<sCount, sWaiters, sPc, sWord>>
gVars == <<gCount, gWaiters, gPc, gWord>>
pVars == <<notified, mode, eventfd, pLock, signalled, harvest, pPc>>

S == INSTANCE PithSemaphore WITH count <- sCount, waiters <- sWaiters,
       pc <- sPc, word <- sWord
G == INSTANCE PithWaitGroup WITH count <- gCount, waiters <- gWaiters,
       pc <- gPc, word <- gWord
P == INSTANCE PollerPark WITH pc <- pPc, lock <- pLock,
       Notifier <- OsThread, Nobody <- NoProc

ASSUME WorkerNamed == P!ParkAssumption

LocksInit == part \in Parts /\ Init /\ S!Init /\ G!Init /\ P!Init

LocksNext ==
  \/ part = "mutex" /\ Next /\ UNCHANGED <<part, sVars, gVars, pVars>>
  \/ part = "semaphore" /\ S!Next /\ UNCHANGED <<part, vars, gVars, pVars>>
  \/ part = "waitgroup" /\ G!Next /\ UNCHANGED <<part, vars, sVars, pVars>>
  \/ part = "park" /\ P!Next /\ UNCHANGED <<part, vars, sVars, gVars>>

LocksSpec ==
  /\ LocksInit /\ [][LocksNext]_<<part, vars, sVars, gVars, pVars>>
  /\ Fairness /\ S!Fairness /\ G!Fairness /\ P!Fairness

\* What a program passes to add: a number of tasks to start, or a correction.
StartTasks == {1, 2}
WithCorrection == {2, -1}

\* Every variable of the four has its type.
TypesOK == TypeOK /\ S!TypeOK /\ G!TypeOK /\ P!TypeOK

\* Their other properties, by the names they have there.
PermitsKept == S!PermitsConserved /\ S!FifoExact /\ S!PermitsCovered
AcquireProgress == S!AcquireProgress
NobodyLeft == G!NobodyLeft /\ P!NoLostNotify
WaitReturns == G!WaitReturns
NotifyWakes == P!NotifyWakes
=============================================================================
