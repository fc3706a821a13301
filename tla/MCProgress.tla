------------------------------ MODULE MCProgress ------------------------------
(***************************************************************************)
(* Small instances of the unbuffered channel, a worker's run queues, reads *)
(* of a descriptor that is closed, and the collector's rendezvous.         *)
(* A behaviour exercises one of them, `part`, and leaves the others in     *)
(* their initial state, where no fair action of theirs is enabled: they    *)
(* know tasks only by their scheduling words and nothing of each other.    *)
(* The names of UnbufferedChannel are used as they are.                    *)
(***************************************************************************)
EXTENDS UnbufferedChannel

CONSTANTS
  Parts,
  Task, MaxStreak, PollEvery, NoTask,
  Reader, Thread, Poller, MaxGen,
  Mutator, Main, Nobody, MaxForce, MaxExtra

ASSUME ProgressBounds ==
  /\ Parts \subseteq {"rendezvous", "runqueues", "netio", "world"}
  /\ MaxStreak \in Nat \ {0} /\ PollEvery \in Nat \ {0} /\ NoTask \notin Task
  /\ Reader \cap Thread = {} /\ NoProc \notin Poller /\ MaxGen \in Nat

VARIABLES
  part,
  next, fifo, streak, deferred, local, injector, running, asleep, sincePoll,
  turn, lastTurn,
  slot, number, rx, inSet, edge, fds, waiters, poll, took, outcome, nWord, on,
  handle, timed, nPc, todo, toWake,
  wSlot, wPc, gcStop, ctrl, wPending, done, lastOk, seq, cpc, toScan, goal, ok,
  expired, extra, late

rVars == <<next, fifo, streak, deferred, local, injector, running, asleep,
           sincePoll, turn, lastTurn>>
nVars == <<slot, number, rx, inSet, edge, fds, waiters, poll, took, outcome,
           nWord, on, handle, timed, nPc, todo, toWake>>
wVars == <<wSlot, wPc, gcStop, ctrl, wPending, done, lastOk, seq, cpc, toScan,
           goal, ok, expired, extra, late>>

R == INSTANCE RunQueues
N == INSTANCE NetIo WITH pc <- nPc, word <- nWord, harvest <- took,
       Task <- Reader, OsThread <- Thread, Worker <- Poller, NoWorker <- NoProc,
       Closer <- Thread, Pipes <- {MaxGen}
W == INSTANCE WorldStop WITH slot <- wSlot, pc <- wPc, pending <- wPending

ASSUME W!WorldAssumption

ProgressInit == part \in Parts /\ Init /\ R!Init /\ N!Init /\ W!Init

ProgressNext ==
  \/ part = "rendezvous" /\ Next /\ UNCHANGED <<part, rVars, nVars, wVars>>
  \/ part = "runqueues" /\ R!Next /\ UNCHANGED <<part, vars, nVars, wVars>>
  \/ part = "netio" /\ N!Next /\ UNCHANGED <<part, vars, rVars, wVars>>
  \/ part = "world" /\ W!Next /\ UNCHANGED <<part, vars, rVars, nVars>>

ProgressSpec ==
  /\ ProgressInit /\ [][ProgressNext]_<<part, vars, rVars, nVars, wVars>>
  /\ Fairness /\ R!Fairness /\ N!Fairness /\ W!Fairness

\* Every variable of the four has its type.
TypesOK == TypeOK /\ R!TypeOK /\ N!TypeOK /\ W!TypeOK

\* The properties of the others, by the names they have there.
EveryoneRuns == R!EveryoneRuns
ReadReturns == N!ReadReturns
ForcedReturns == W!ForcedReturns
=============================================================================
