---------------------------- MODULE SchedulerProofs ----------------------------
(***************************************************************************)
(* Theorems about the scheduler, for any number of workers, os threads and *)
(* tasks.                                                                  *)
(*                                                                         *)
(* First, the claim protocol, placement, and the life of blocks and        *)
(* handles.  None of the four safety invariants is inductive alone: that a *)
(* parked task has no holder rests on what its last worker was doing       *)
(* (Holding), that a block is not reused under a worker rests on when it   *)
(* is live (Lives), and that a result goes to one awaiter rests on the     *)
(* generations handed out so far (History).  Together they are (IInv);     *)
(* each part has a lemma that every step preserves it.                     *)
(*                                                                         *)
(* Then what the handle of a task promises.  No wake of an await is lost:  *)
(* AwaiterListed speaks of a task that is parked; before that the task was *)
(* on its way to sleep, and a wake that came then is a flag on its word.   *)
(* Covered says so, and is inductive with IInv.  And the scheduler         *)
(* implements TaskFuture: under the mapping statusBar every step of        *)
(* GreenTask is one of its steps or a stutter.  The invariant supplies     *)
(* what the mapping needs: a block taken from the free pool has a          *)
(* generation no handle names, and a task that finishes still holds its    *)
(* block.                                                                  *)
(*                                                                         *)
(* Last, the pool of workers: whoever searches is counted, and queued work *)
(* is seen by somebody.                                                    *)
(***************************************************************************)
EXTENDS MCScheduler, FiniteSetTheorems, TLAPS

-----------------------------------------------------------------------------
(* Tasks, blocks and handles.                                              *)

\* A worker has a task in its hands from the pop to the end of its turn, and
\* one that is to be requeued is pinned.
Holding ==
  /\ \A w \in Worker : pc[w] = "find" <=> cur[w] = NoTask
  /\ \A w \in Worker : pc[w] \in {"defer", "repin"} => word[cur[w]].owner # NoWorker

\* A block is live from its spawn until its task is done and nobody needs it.
Lifecycle(b) ==
  /\ live[b] => gen[b] \in Gen
  /\ live[b] <=> b \notin free
  /\ word[b].st # "done" => live[b] /\ ~done[b]
  /\ word[b].st = "done" => word[b] = DoneWord
  /\ awaiters[b] # {} => live[b] /\ ~done[b]
  /\ \A w \in Worker : cur[w] = b /\ pc[w] = "finish" => live[b] /\ ~done[b]
  /\ \A w \in Worker : cur[w] = b /\ pc[w] = "drain" => live[b] /\ done[b]
Lives == \A b \in Id : Lifecycle(b)

\* A handle names the task that holds its block or an earlier one, no result of
\* the present or a later one was handed out, and an await is of a handle that
\* some spawn returned.
History ==
  /\ \A h \in issued : h[2] <= gen[h[1]] /\ (h[2] = gen[h[1]] => live[h[1]])
  /\ \A b \in Id : live[b] => <<b, gen[b]>> \in issued
  /\ \A x \in Awaiter : want[x] \in issued \cup {NoHandle}
  /\ \A h \in Handle : h[2] >= gen[h[1]] => takes[h] = 0

IInv ==
  /\ TypeOK
  /\ ClaimProtocol
  /\ Placement
  /\ Holding
  /\ Lives
  /\ History
  /\ ResultOnce

-----------------------------------------------------------------------------
(* The words that the operators of SchedWord make.                         *)

Owner == Worker \cup {NoWorker}

LEMMA ClearFact ==
  ASSUME NEW st \in RunState, NEW owner \in Owner
  PROVE  /\ Clear(st, owner) \in Word
         /\ Clear(st, owner).st = st
         /\ Clear(st, owner).owner = owner
BY DEF Clear, Word, Owner

LEMMA FixedWordFact ==
  /\ DoneWord \in Word /\ DoneWord.st = "done"
  /\ FreshWord \in Word /\ FreshWord.st = "ready" /\ FreshWord.owner = NoWorker
BY ClearFact DEF DoneWord, FreshWord, RunState, Owner

LEMMA HomeForFact ==
  ASSUME NEW owner \in Owner, NEW waker, NEW mayMove
  PROVE  /\ HomeFor(owner, waker, mayMove) \in Owner
         /\ owner # NoWorker => HomeFor(owner, waker, mayMove) # NoWorker
BY WorkerAssumption DEF HomeFor, Owner

LEMMA ClaimedWordFact ==
  ASSUME NEW home \in Owner
  PROVE  /\ ClaimedWord(home) \in Word
         /\ ClaimedWord(home).st = "ready"
         /\ ClaimedWord(home).owner = home
BY ClearFact DEF ClaimedWord, RunState

LEMMA FlagFact ==
  ASSUME NEW w \in Word
  PROVE  /\ PendedWord(w) \in Word /\ PreemptedWord(w) \in Word
         /\ PendedWord(w).st = w.st /\ PreemptedWord(w).st = w.st
         /\ PendedWord(w).owner = w.owner /\ PreemptedWord(w).owner = w.owner
BY DEF PendedWord, PreemptedWord, Word

LEMMA RunningWordFact ==
  ASSUME NEW w \in Word, NEW worker \in Worker
  PROVE  /\ RunningWord(w, worker) \in Word
         /\ RunningWord(w, worker).st = "running"
         /\ RunningWord(w, worker).owner # NoWorker
<1>1. w.owner \in Owner
  BY DEF Word, Owner
<1>2. (IF w.owner = NoWorker THEN worker ELSE w.owner) \in Owner \ {NoWorker}
  BY <1>1, WorkerAssumption DEF Owner
<1> QED
  BY <1>2, ClearFact DEF RunningWord, RunState

LEMMA YieldedWordFact ==
  ASSUME NEW w \in Word
  PROVE  /\ YieldedWord(w) \in Word
         /\ YieldedWord(w).owner = w.owner
         /\ YieldedWord(w).st = IF Requeue(w) = "none" THEN "parked" ELSE "ready"
         /\ Requeue(w) \in {"none", "defer", "repin"}
<1>1. w.owner \in Owner /\ w.preempt \in BOOLEAN /\ w.wake \in BOOLEAN
  BY DEF Word, Owner
<1>2. (IF w.preempt \/ w.wake THEN "ready" ELSE "parked") \in RunState
  BY DEF RunState
<1>3. /\ YieldedWord(w) \in Word
      /\ YieldedWord(w).owner = w.owner
      /\ YieldedWord(w).st = IF w.preempt \/ w.wake THEN "ready" ELSE "parked"
  BY <1>1, <1>2, ClearFact DEF YieldedWord
<1>4. /\ Requeue(w) \in {"none", "defer", "repin"}
      /\ Requeue(w) = "none" <=> ~(w.preempt \/ w.wake)
  BY <1>1 DEF Requeue
<1> QED
  BY <1>3, <1>4

-----------------------------------------------------------------------------
(* Types                                                                   *)

LEMMA QueueFact ==
  /\ Injector \in Queue
  /\ \A w \in Worker : Local(w) \in Queue /\ Pinned(w) \in Queue /\ Deferred(w) \in Queue
BY DEF Queue, Injector, Local, Pinned, Deferred

\* A task an actor claims keeps its type, and becomes Ready on a home.
LEMMA ClaimParkedType ==
  ASSUME TypeOK, NEW a \in Actor, NEW b \in Id, NEW m \in BOOLEAN,
         ClaimParked(a, b, m)
  PROVE  word' \in [Id -> Word] /\ claimed' \in [Actor -> Id \cup {NoTask}]
<1>1. word[b] \in Word /\ word[b].owner \in Owner
  BY DEF TypeOK, Word, Owner
<1>2. ClaimedWord(HomeFor(word[b].owner, a, Migrate /\ m)) \in Word
  BY <1>1, HomeForFact, ClaimedWordFact
<1>3. PendedWord(word[b]) \in Word
  BY <1>1, FlagFact
<1> QED
  BY <1>2, <1>3 DEF ClaimParked, TypeOK

\* Only a live block is retired, so its generation is within the bound.
LEMMA RetireType ==
  ASSUME TypeOK, NEW b \in Id, gen[b] \in Gen, Retire(b)
  PROVE  /\ live' \in [Id -> BOOLEAN]
         /\ gen' \in [Id -> 0..(MaxGen + 1)]
         /\ free' \in SUBSET Id
BY GreenTaskAssumption DEF TypeOK, Retire, Gen

LEMMA ActorType ==
  ASSUME TypeOK, Holding, Lives, NEW a \in Actor, ActorNext(a)
  PROVE  TypeOK'
<1> USE DEF TypeOK
<1>1. ASSUME NEW b \in Id, Spawn(a, b) PROVE TypeOK'
  BY <1>1, FixedWordFact DEF Spawn, Handle, joinVars
<1>2. ASSUME NEW b \in Id, NEW m \in BOOLEAN, Wake(a, b, m) PROVE TypeOK'
  <2>1. word' \in [Id -> Word] /\ claimed' \in [Actor -> Id \cup {NoTask}]
    BY <1>2, ClaimParkedType DEF Wake
  <2> QED
    BY <1>2, <2>1 DEF Wake, joinVars
<1>3. ASSUME NEW h \in Handle, AwaitStart(a, h) PROVE TypeOK'
  BY <1>3 DEF AwaitStart, joinVars
<1>4. ASSUME NEW h \in Handle, Detach(a, h) PROVE TypeOK'
  <2>1. h[1] \in Id /\ (Holds(h) => gen[h[1]] \in Gen)
    BY DEF Handle, Holds
  <2>2. CASE Retire(h[1]) /\ UNCHANGED detached
    BY <1>4, <2>1, <2>2, RetireType DEF Detach
  <2>3. CASE /\ detached' = [detached EXCEPT ![h[1]] = TRUE]
             /\ UNCHANGED <<live, gen, free>>
    BY <1>4, <2>1, <2>3 DEF Detach
  <2> QED
    BY <1>4, <2>2, <2>3 DEF Detach
<1>5. ASSUME Enqueue(a) PROVE TypeOK'
  BY <1>5 DEF Enqueue, joinVars
<1>6. ASSUME AwaitStale(a) PROVE TypeOK'
  BY <1>6 DEF AwaitStale, joinVars
<1>7. ASSUME AwaitTake(a) PROVE TypeOK'
  <2> DEFINE h == want[Self(a)]
  <2>1. Self(a) \in Awaiter
    BY <1>7, GreenTaskAssumption DEF AwaitTake, Awaiting, Self, Awaiter, Holding, Actor
  <2>2. h \in Handle
    BY <1>7, <2>1 DEF AwaitTake, Awaiting
  <2>3. h[1] \in Id /\ gen[h[1]] \in Gen
    BY <1>7, <2>2 DEF AwaitTake, Holds, Handle
  <2>4. takes' \in [Handle -> Nat]
    BY <1>7 DEF AwaitTake
  <2> QED
    BY <1>7, <2>3, <2>4, RetireType DEF AwaitTake
<1>8. ASSUME AwaitBlock(a) PROVE TypeOK'
  <2>1. a \in Worker => cur[a] \in Id
    BY <1>8, GreenTaskAssumption DEF AwaitBlock, Awaiting, Holding
  <2>2. CASE a \in OsThread
    BY <1>8, <2>2, GreenTaskAssumption DEF AwaitBlock
  <2>3. CASE a \in Worker
    BY <1>8, <2>1, <2>3, GreenTaskAssumption DEF AwaitBlock, Phase
  <2> QED
    BY <2>2, <2>3 DEF Actor
<1> QED
  BY <1>1, <1>2, <1>3, <1>4, <1>5, <1>6, <1>7, <1>8 DEF ActorNext

LEMMA WorkerType ==
  ASSUME TypeOK, Holding, Lives, NEW w \in Worker, WorkerNext(w)
  PROVE  TypeOK'
<1> USE DEF TypeOK
<1>1. ASSUME NEW q \in Queue, NEW b \in Id, Pop(w, q, b) PROVE TypeOK'
  BY <1>1 DEF Pop, Take, joinVars, Phase
<1>2. ASSUME NEW v \in Worker, NEW b \in Id, StealLocal(w, v, b) PROVE TypeOK'
  <2>1. queue' \in [Queue -> SUBSET Id]
    BY <1>2, QueueFact DEF StealLocal
  <2> QED
    BY <1>2, <2>1 DEF StealLocal, Take, joinVars, Phase
<1>3. ASSUME NEW v \in Worker, NEW b \in Id, StealPinned(w, v, b) PROVE TypeOK'
  BY <1>3, QueueFact DEF StealPinned, Take, joinVars, Phase
<1>4. ASSUME NEW x \in Id, FinishWake(w, x) PROVE TypeOK'
  <2>1. word' \in [Id -> Word] /\ claimed' \in [Actor -> Id \cup {NoTask}]
    BY <1>4, ClaimParkedType DEF FinishWake, Actor
  <2> QED
    BY <1>4, <2>1 DEF FinishWake, joinVars
<1>5. ASSUME pc[w] # "find" PROVE cur[w] \in Id /\ word[cur[w]] \in Word
  BY <1>5 DEF Holding
<1>6. ASSUME Rehome(w) PROVE TypeOK'
  <2>1. [word[cur[w]] EXCEPT !.owner = w] \in Word
    BY <1>5, <1>6 DEF Rehome, Word
  <2> QED
    BY <1>5, <1>6, <2>1 DEF Rehome, joinVars, Phase
<1>7. ASSUME ClaimRun(w) PROVE TypeOK'
  BY <1>5, <1>7, RunningWordFact DEF ClaimRun, joinVars, Phase
<1>8. ASSUME Block(w) PROVE TypeOK'
  BY <1>8 DEF Block, joinVars, Phase
<1>9. ASSUME MaybeYield(w) PROVE TypeOK'
  BY <1>5, <1>9, FlagFact DEF MaybeYield, TaskCode, joinVars, Phase
<1>10. ASSUME PutBack(w) PROVE TypeOK'
  BY <1>10 DEF PutBack, joinVars, Phase
<1>11. ASSUME Yield(w) PROVE TypeOK'
  <2>1. YieldedWord(word[cur[w]]) \in Word /\ Requeue(word[cur[w]]) \in Phase \cup {"none"}
    BY <1>5, <1>11, YieldedWordFact DEF Yield, Phase
  <2> QED
    BY <1>11, <2>1 DEF Yield, joinVars, Phase
<1>12. ASSUME Requeued(w) PROVE TypeOK'
  BY <1>5, <1>12 DEF Requeued, joinVars, Phase
<1>13. ASSUME FinishStore(w) PROVE TypeOK'
  BY <1>13, FixedWordFact DEF FinishStore, joinVars, Phase
<1>14. ASSUME FinishJoin(w) PROVE TypeOK'
  <2>1. cur[w] \in Id /\ gen[cur[w]] \in Gen
    BY <1>5, <1>14 DEF FinishJoin, Lives, Lifecycle
  <2>2. result' \in [Id -> Handle \cup {Zero}]
    BY <1>14, <2>1 DEF FinishJoin, Handle
  <2> QED
    BY <1>14, <2>1, <2>2 DEF FinishJoin, Notified, Phase
<1>15. ASSUME FinishEnd(w) PROVE TypeOK'
  <2>1. cur[w] \in Id /\ gen[cur[w]] \in Gen
    BY <1>5, <1>15 DEF FinishEnd, Lives, Lifecycle
  <2>2. /\ live' \in [Id -> BOOLEAN]
        /\ gen' \in [Id -> 0..(MaxGen + 1)]
        /\ free' \in SUBSET Id
    BY <1>15, <2>1, RetireType DEF FinishEnd
  <2> QED
    BY <1>15, <2>2 DEF FinishEnd, Phase
<1> QED
  BY <1>1, <1>2, <1>3, <1>4, <1>6, <1>7, <1>8, <1>9, <1>10, <1>11, <1>12, <1>13,
     <1>14, <1>15 DEF WorkerNext

LEMMA TypeInv == ASSUME TypeOK, Holding, Lives, [Next]_vars PROVE TypeOK'
<1>1. ASSUME NEW o \in OsThread, OsUnblock(o) PROVE TypeOK'
  BY <1>1 DEF TypeOK, OsUnblock, joinVars
<1>2. ASSUME UNCHANGED vars PROVE TypeOK'
  BY <1>2 DEF TypeOK, vars, joinVars
<1> QED
  BY <1>1, <1>2, ActorType, WorkerType DEF Next

-----------------------------------------------------------------------------
(* The claim protocol                                                      *)

\* A task that nobody touches keeps its part of the protocol.
LEMMA ProtocolFrame ==
  ASSUME NEW b \in Id, Protocol(b),
         word'[b] = word[b], coro'[b] = coro[b],
         \A q \in Queue : b \in queue'[q] <=> b \in queue[q],
         \A w \in Worker : /\ cur'[w] = b <=> cur[w] = b
                           /\ cur[w] = b => pc'[w] = pc[w],
         \A a \in Actor : claimed'[a] = b <=> claimed[a] = b
  PROVE  Protocol(b)'
<1>1. OneHolder(b)'
  BY DEF Protocol, OneHolder
<1>2. (Queued(b)' <=> Queued(b)) /\ (InHand(b)' <=> InHand(b))
  BY DEF Queued, InHand
<1>3. \A w \in Worker : cur'[w] = b => word'[b].st = StateOfPhase(pc'[w])
  BY DEF Protocol
<1>4. word'[b].st = "running" =>
        \E w \in Worker : cur'[w] = b /\ (coro'[b] <=> pc'[w] = "yield")
  BY DEF Protocol
<1> QED
  BY <1>1, <1>2, <1>3, <1>4 DEF Protocol

\* One turn of a worker that keeps its task: nobody else has it, and the word
\* follows the phase.
LEMMA TurnProtocol ==
  ASSUME ClaimProtocol, NEW w \in Worker, NEW phase, TypeOK, cur[w] \in Id,
         pc' = [pc EXCEPT ![w] = phase],
         UNCHANGED <<queue, cur, claimed>>,
         \A c \in Id \ {cur[w]} : word'[c] = word[c] /\ coro'[c] = coro[c],
         word'[cur[w]].st = StateOfPhase(phase),
         word'[cur[w]].st = "running" => (coro'[cur[w]] <=> phase = "yield"),
         word'[cur[w]].st = "ready" => coro'[cur[w]],
         word'[cur[w]].st # "parked"
  PROVE  ClaimProtocol'
<1> SUFFICES ASSUME NEW b \in Id PROVE Protocol(b)'
  BY DEF ClaimProtocol
<1>1. Protocol(b)
  BY DEF ClaimProtocol
<1>2. CASE b # cur[w]
  BY <1>1, <1>2, ProtocolFrame DEF TypeOK
<1>3. CASE b = cur[w]
  <2>1. OneHolder(b)' /\ ~Queued(b)' /\ ~InHand(b)'
    BY <1>1, <1>3 DEF Protocol, OneHolder, Queued, InHand
  <2>2. \A v \in Worker : cur'[v] = b => v = w
    BY <1>1, <1>3 DEF Protocol, OneHolder
  <2>3. pc'[w] = phase
    BY DEF TypeOK
  <2> QED
    BY <1>3, <2>1, <2>2, <2>3 DEF Protocol
<1> QED
  BY <1>2, <1>3

\* A wake: a parked task has no holder, so its one waker becomes the holder; a
\* running one keeps its worker and its run state.
LEMMA WakeProtocol ==
  ASSUME TypeOK, ClaimProtocol, NEW a \in Actor, NEW b \in Id, NEW m \in BOOLEAN,
         claimed[a] = NoTask, ClaimParked(a, b, m),
         UNCHANGED <<coro, queue, pc, cur>>
  PROVE  ClaimProtocol'
<1> SUFFICES ASSUME NEW c \in Id PROVE Protocol(c)'
  BY DEF ClaimProtocol
<1>1. Protocol(c) /\ Protocol(b) /\ word[b] \in Word
  BY DEF ClaimProtocol, TypeOK
<1>2. CASE c # b \/ (~Claimable(word[b]) /\ ~Pendable(word[b]))
  <2>1. word'[c] = word[c] /\ \A x \in Actor : claimed'[x] = c <=> claimed[x] = c
    BY <1>2, GreenTaskAssumption DEF ClaimParked, TypeOK, Claimable, Pendable
  <2> QED
    BY <1>1, <2>1, ProtocolFrame
<1>3. CASE c = b /\ Pendable(word[b])
  <2>1. word'[b].st = "running" /\ UNCHANGED claimed /\ word[b].st = "running"
    BY <1>1, <1>3, FlagFact DEF ClaimParked, TypeOK, Claimable, Pendable
  <2>2. UNCHANGED <<OneHolder(b), Queued(b), InHand(b)>>
    BY <2>1 DEF OneHolder, Queued, InHand
  <2> QED
    BY <1>1, <1>3, <2>1, <2>2 DEF Protocol
<1>4. CASE c = b /\ Claimable(word[b])
  <2>1. /\ word[b].st = "parked"
        /\ word'[b].st = "ready"
        /\ claimed' = [claimed EXCEPT ![a] = b]
    <3>1. word[b].owner \in Owner /\ word[b].st = "parked" /\ ~Pendable(word[b])
      BY <1>1, <1>4 DEF Claimable, Pendable, Word, Owner
    <3>2. ClaimedWord(HomeFor(word[b].owner, a, Migrate /\ m)).st = "ready"
      BY <3>1, HomeForFact, ClaimedWordFact
    <3> QED
      BY <1>4, <3>1, <3>2 DEF ClaimParked, TypeOK
  <2>2. /\ \A q \in Queue : b \notin queue'[q]
        /\ \A w \in Worker : cur'[w] # b
        /\ \A x \in Actor \ {a} : claimed'[x] # b
        /\ claimed'[a] = b
    BY <1>1, <2>1 DEF Protocol, Queued, InHand, StateOfPhase, TypeOK
  <2>3. OneHolder(b)' /\ InHand(b)'
    BY <2>2 DEF OneHolder, InHand
  <2> QED
    BY <1>1, <1>4, <2>1, <2>2, <2>3 DEF Protocol
<1> QED
  BY <1>2, <1>3, <1>4

LEMMA ActorProtocol ==
  ASSUME TypeOK, ClaimProtocol, Holding, Lives, NEW a \in Actor, ActorNext(a)
  PROVE  ClaimProtocol'
<1>1. ASSUME NEW b \in Id, Spawn(a, b) PROVE ClaimProtocol'
  <2> SUFFICES ASSUME NEW c \in Id PROVE Protocol(c)'
    BY DEF ClaimProtocol
  <2>1. Protocol(c) /\ claimed[a] = NoTask /\ word[b].st = "done"
    BY <1>1 DEF ClaimProtocol, Spawn, InCode, TaskCode, OsCode, Lives, Lifecycle
  <2>2. CASE c # b
    BY <1>1, <2>1, <2>2, ProtocolFrame, GreenTaskAssumption DEF Spawn, TypeOK
  <2>3. CASE c = b
    <3>1. word'[b].st = "ready" /\ coro'[b]
      BY <1>1, FixedWordFact DEF Spawn, TypeOK
    <3>2. /\ \A q \in Queue : b \notin queue'[q]
          /\ \A x \in Actor \ {a} : claimed'[x] # b
          /\ claimed'[a] = b
      BY <1>1, <2>1, <2>3 DEF Spawn, TypeOK, Protocol, Queued, InHand
    <3>3. ASSUME NEW w \in Worker PROVE cur'[w] # b
      <4>1. ~live[b] /\ cur'[w] = cur[w]
        BY <1>1 DEF Spawn, Lives, Lifecycle
      <4>2. cur[w] = b => pc[w] \in {"find", "finish", "drain"}
        BY <2>1, <2>3 DEF Protocol, StateOfPhase, TypeOK, Phase
      <4> QED
        BY <4>1, <4>2, GreenTaskAssumption DEF Lives, Lifecycle, Holding
    <3> QED
      BY <2>3, <3>1, <3>2, <3>3 DEF Protocol, OneHolder, InHand
  <2> QED
    BY <2>2, <2>3
<1>2. ASSUME NEW b \in Id, NEW m \in BOOLEAN, Wake(a, b, m) PROVE ClaimProtocol'
  BY <1>2, WakeProtocol DEF Wake, InCode, TaskCode, OsCode
<1>3. ASSUME Enqueue(a) PROVE ClaimProtocol'
  <2> DEFINE b == claimed[a]
             q == HomeQueue(a, word[b].owner)
  <2>1. b \in Id /\ Protocol(b) /\ word[b].st = "ready" /\ word[b] \in Word
    BY <1>3 DEF Enqueue, TypeOK, ClaimProtocol, Protocol, InHand
  <2>2. q \in Queue
    BY <2>1, QueueFact DEF HomeQueue, Word
  <2>3. /\ claimed' = [claimed EXCEPT ![a] = NoTask]
        /\ queue' = [queue EXCEPT ![q] = @ \cup {b}]
        /\ UNCHANGED <<word, coro, pc, cur>>
    BY <1>3 DEF Enqueue
  <2> HIDE DEF b, q
  <2> SUFFICES ASSUME NEW c \in Id PROVE Protocol(c)'
    BY DEF ClaimProtocol
  <2>4. CASE c # b
    <3>1. \A x \in Actor : claimed'[x] = c <=> claimed[x] = c
      BY <2>3, <2>4, GreenTaskAssumption DEF TypeOK, b
    <3>2. \A p \in Queue : c \in queue'[p] <=> c \in queue[p]
      BY <2>2, <2>3, <2>4 DEF TypeOK
    <3> QED
      BY <2>3, <3>1, <3>2, ProtocolFrame DEF ClaimProtocol
  <2>5. CASE c = b
    <3>1. /\ b \in queue'[q]
          /\ \A p \in Queue \ {q} : b \notin queue'[p]
          /\ \A w \in Worker : cur'[w] # b
          /\ \A x \in Actor : claimed'[x] # b
      BY <2>1, <2>2, <2>3, GreenTaskAssumption DEF TypeOK, Protocol, OneHolder, b
    <3> QED
      BY <2>1, <2>2, <2>3, <2>5, <3>1 DEF Protocol, OneHolder, Queued, InHand
  <2> QED
    BY <2>4, <2>5
<1>4. ASSUME AwaitBlock(a), a \in Worker PROVE ClaimProtocol'
  <2>1. /\ cur[a] \in Id /\ pc[a] = "body" /\ pc' = [pc EXCEPT ![a] = "suspend"]
        /\ UNCHANGED <<word, coro, queue, cur, claimed>>
    BY <1>4, GreenTaskAssumption DEF AwaitBlock, Awaiting, Holding, TypeOK
  <2>2. word[cur[a]].st = "running" /\ ~coro[cur[a]]
    BY <1>4, <2>1 DEF ClaimProtocol, Protocol, OneHolder, StateOfPhase
  <2> QED
    BY <1>4, <2>1, <2>2, TurnProtocol DEF StateOfPhase
<1>5. ASSUME UNCHANGED <<word, coro, queue, pc, cur, claimed>> PROVE ClaimProtocol'
  BY <1>5, ProtocolFrame DEF ClaimProtocol
<1>6. ASSUME AwaitBlock(a), a \in OsThread PROVE ClaimProtocol'
  BY <1>5, <1>6, GreenTaskAssumption DEF AwaitBlock
<1>7. ASSUME NEW h \in Handle, AwaitStart(a, h) \/ Detach(a, h) PROVE ClaimProtocol'
  BY <1>5, <1>7 DEF AwaitStart, Detach
<1>8. ASSUME AwaitStale(a) \/ AwaitTake(a) PROVE ClaimProtocol'
  BY <1>5, <1>8 DEF AwaitStale, AwaitTake
<1> QED
  BY <1>1, <1>2, <1>3, <1>4, <1>6, <1>7, <1>8 DEF ActorNext, Actor

\* A worker takes task b out of queues it alone then holds it from.
LEMMA TakeProtocol ==
  ASSUME TypeOK, ClaimProtocol, Holding, NEW w \in Worker, NEW b \in Id,
         NEW phase \in {"claim", "rehome"}, Take(w, b, phase),
         Queued(b), \A q \in Queue : b \notin queue'[q],
         \A c \in Id \ {b} : OneHolder(c) /\ Queued(c) =>
           (OneHolder(c) /\ Queued(c))',
         \A c \in Id \ {b}, q \in Queue : ~Queued(c) => c \notin queue'[q]
  PROVE  ClaimProtocol'
<1>1. /\ pc[w] = "find" /\ cur[w] = NoTask
      /\ cur' = [cur EXCEPT ![w] = b] /\ pc' = [pc EXCEPT ![w] = phase]
      /\ UNCHANGED <<word, coro, claimed>>
  BY DEF Take, Holding
<1> SUFFICES ASSUME NEW c \in Id PROVE Protocol(c)'
  BY DEF ClaimProtocol
<1>2. Protocol(c)
  BY DEF ClaimProtocol
<1>3. CASE c # b
  <2>1. \A v \in Worker : (cur'[v] = c <=> cur[v] = c) /\ (cur[v] = c => pc'[v] = pc[v])
    BY <1>1, <1>3, GreenTaskAssumption DEF TypeOK
  <2>2. CASE ~Queued(c)
    BY <1>1, <1>2, <1>3, <2>1, <2>2, ProtocolFrame DEF Queued
  <2>3. CASE Queued(c)
    <3>1. OneHolder(c)' /\ Queued(c)' /\ word[c].st = "ready"
      BY <1>2, <1>3, <2>3 DEF Protocol
    <3>2. \A v \in Worker : cur'[v] # c
      BY <1>2, <2>1, <2>3 DEF Protocol, OneHolder, Queued
    <3> QED
      BY <1>1, <1>2, <3>1, <3>2 DEF Protocol
  <2> QED
    BY <2>2, <2>3
<1>4. CASE c = b
  <2>1. /\ word[b].st = "ready"
        /\ \A v \in Worker : cur[v] # b
        /\ \A a \in Actor : claimed[a] # b
    BY <1>2, <1>4 DEF Protocol, OneHolder, Queued
  <2>2. \A v \in Worker : cur'[v] = b <=> v = w
    BY <1>1, <2>1 DEF TypeOK
  <2>3. pc'[w] = phase
    BY <1>1 DEF TypeOK
  <2>4. OneHolder(b)'
    BY <1>1, <2>1, <2>2 DEF OneHolder
  <2> QED
    BY <1>1, <1>2, <1>4, <2>1, <2>2, <2>3, <2>4
       DEF Protocol, Queued, InHand, StateOfPhase
<1> QED
  BY <1>3, <1>4

\* A worker lets go of its task: the word says ready and it is queued, or it
\* is parked or done and nobody has it.
LEMMA DropProtocol ==
  ASSUME TypeOK, ClaimProtocol, NEW w \in Worker, cur[w] \in Id,
         cur' = [cur EXCEPT ![w] = NoTask], pc' = [pc EXCEPT ![w] = "find"],
         UNCHANGED <<coro, claimed>>,
         \A c \in Id \ {cur[w]} : word'[c] = word[c],
         \/ /\ word'[cur[w]].st \in {"parked", "done"} /\ UNCHANGED queue
            /\ word'[cur[w]].st = "parked" => coro[cur[w]]
         \/ /\ word'[cur[w]].st = "ready" /\ coro[cur[w]]
            /\ \E q \in Queue : queue' = [queue EXCEPT ![q] = @ \cup {cur[w]}]
  PROVE  ClaimProtocol'
<1> DEFINE b == cur[w]
<1> SUFFICES ASSUME NEW c \in Id PROVE Protocol(c)'
  BY DEF ClaimProtocol
<1>1. Protocol(c)
  BY DEF ClaimProtocol
<1>2. CASE c # b
  <2>1. \A v \in Worker : (cur'[v] = c <=> cur[v] = c) /\ (cur[v] = c => pc'[v] = pc[v])
    BY <1>2, GreenTaskAssumption DEF TypeOK
  <2>2. \A q \in Queue : c \in queue'[q] <=> c \in queue[q]
    BY <1>2 DEF TypeOK
  <2> QED
    BY <1>1, <1>2, <2>1, <2>2, ProtocolFrame
<1>3. CASE c = b
  <2>1. /\ \A v \in Worker : cur'[v] # b
        /\ \A q \in Queue : b \notin queue[q]
        /\ \A a \in Actor : claimed'[a] # b
    BY <1>1, <1>3, GreenTaskAssumption DEF TypeOK, Protocol, OneHolder
  <2>2. CASE word'[b].st \in {"parked", "done"} /\ UNCHANGED queue
             /\ (word'[b].st = "parked" => coro[b])
    BY <1>3, <2>1, <2>2 DEF Protocol, OneHolder, Queued, InHand
  <2>3. CASE /\ word'[b].st = "ready" /\ coro[b]
             /\ \E q \in Queue : queue' = [queue EXCEPT ![q] = @ \cup {b}]
    <3>1. PICK q \in Queue : queue' = [queue EXCEPT ![q] = @ \cup {b}]
      BY <2>3
    <3>2. b \in queue'[q] /\ \A p \in Queue \ {q} : b \notin queue'[p]
      BY <2>1, <3>1 DEF TypeOK
    <3> QED
      BY <1>3, <2>1, <2>3, <3>2 DEF Protocol, OneHolder, Queued, InHand
  <2> QED
    BY <2>2, <2>3
<1> QED
  BY <1>2, <1>3

\* The pop of b from queue q, while some others of its entries, the loot, may move to p.
LEMMA PopProtocol ==
  ASSUME TypeOK, ClaimProtocol, Holding, NEW w \in Worker, NEW b \in Id,
         NEW phase \in {"claim", "rehome"}, Take(w, b, phase),
         NEW q \in Queue, b \in queue[q],
         NEW p \in Queue, NEW loot \in SUBSET (queue[q] \ {b}),
         p # q \/ loot = {},
         \A r \in Queue, c \in Id :
           c \in queue'[r] <=> \/ c \in queue[r] /\ (r = q => c # b /\ c \notin loot)
                               \/ r = p /\ c \in loot
  PROVE  ClaimProtocol'
<1>1. \A c \in Id : Protocol(c)
  BY DEF ClaimProtocol
<1>2. \A r \in Queue \ {q} : b \notin queue[r]
  BY <1>1 DEF Protocol, OneHolder
<1>3. \A r \in Queue : b \notin queue'[r]
  BY <1>2
<1>4. ASSUME NEW c \in Id \ {b}, OneHolder(c), Queued(c)
      PROVE  OneHolder(c)' /\ Queued(c)'
  <2>1. PICK r \in Queue : c \in queue[r]
    BY <1>4 DEF Queued
  <2>2. /\ \A s \in Queue \ {r} : c \notin queue[s]
        /\ \A v \in Worker : cur[v] # c
        /\ \A a \in Actor : claimed[a] # c
    BY <1>4, <2>1 DEF OneHolder
  <2>3. PICK r2 \in Queue : c \in queue'[r2] /\ \A s \in Queue \ {r2} : c \notin queue'[s]
    <3>1. CASE c \in loot
      <4>1. r = q
        BY <2>2, <3>1
      <4> QED
        BY <2>2, <3>1, <4>1
    <3>2. CASE c \notin loot
      BY <1>4, <2>1, <2>2, <3>2
    <3> QED
      BY <3>1, <3>2
  <2>4. /\ \A v \in Worker : cur'[v] # c
        /\ \A a \in Actor : claimed'[a] # c
    BY <1>4, <2>2 DEF Take, TypeOK
  <2> QED
    BY <2>3, <2>4 DEF OneHolder, Queued
<1>5. \A c \in Id \ {b}, r \in Queue : ~Queued(c) => c \notin queue'[r]
  BY DEF Queued
<1> QED
  BY <1>3, <1>4, <1>5, TakeProtocol DEF Queued

LEMMA PopOneProtocol ==
  ASSUME TypeOK, ClaimProtocol, Holding, NEW w \in Worker, NEW b \in Id,
         NEW phase \in {"claim", "rehome"}, Take(w, b, phase),
         NEW q \in Queue, b \in queue[q],
         \A r \in Queue, c \in Id : c \in queue'[r] <=> c \in queue[r] /\ (r = q => c # b)
  PROVE  ClaimProtocol'
<1> DEFINE loot == {}
<1>1. /\ loot \in SUBSET (queue[q] \ {b})
      /\ q # q \/ loot = {}
      /\ \A r \in Queue, c \in Id :
           c \in queue'[r] <=> \/ c \in queue[r] /\ (r = q => c # b /\ c \notin loot)
                               \/ r = q /\ c \in loot
  OBVIOUS
<1> HIDE DEF loot
<1> QED
  BY <1>1, PopProtocol

LEMMA WorkerProtocol ==
  ASSUME TypeOK, ClaimProtocol, Placement, Holding, Lives,
         NEW w \in Worker, WorkerNext(w)
  PROVE  ClaimProtocol'
<1>1. ASSUME NEW q \in Queue, NEW b \in Id, Pop(w, q, b) PROVE ClaimProtocol'
  <2>1. /\ b \in queue[q] /\ Take(w, b, "claim")
        /\ \A r \in Queue, c \in Id : c \in queue'[r] <=> c \in queue[r] /\ (r = q => c # b)
    BY <1>1 DEF Pop, TypeOK
  <2> QED
    BY <2>1, PopOneProtocol
<1>2. ASSUME NEW v \in Worker, NEW b \in Id, StealLocal(w, v, b) PROVE ClaimProtocol'
  <2>1. Local(v) \in Queue /\ Local(w) \in Queue /\ Local(w) # Local(v)
    BY <1>2, QueueFact DEF StealLocal, Local
  <2>2. PICK loot \in SUBSET (queue[Local(v)] \ {b}) :
          queue' = [queue EXCEPT ![Local(v)] = @ \ ({b} \cup loot),
                                 ![Local(w)] = @ \cup loot]
    BY <1>2 DEF StealLocal
  <2>3. \A r \in Queue, c \in Id :
          c \in queue'[r] <=>
            \/ c \in queue[r] /\ (r = Local(v) => c # b /\ c \notin loot)
            \/ r = Local(w) /\ c \in loot
    BY <2>1, <2>2 DEF TypeOK
  <2>4. b \in queue[Local(v)] /\ Take(w, b, "claim")
    BY <1>2 DEF StealLocal
  <2> QED
    BY <2>1, <2>3, <2>4, PopProtocol
<1>3. ASSUME NEW v \in Worker, NEW b \in Id, StealPinned(w, v, b) PROVE ClaimProtocol'
  <2> DEFINE q == Pinned(v)
  <2>1. /\ q \in Queue /\ b \in queue[q] /\ Take(w, b, "rehome")
        /\ \A r \in Queue, c \in Id : c \in queue'[r] <=> c \in queue[r] /\ (r = q => c # b)
    BY <1>3, QueueFact DEF StealPinned, TypeOK
  <2> QED
    BY <2>1, PopOneProtocol
<1>4. ASSUME NEW x \in Id, FinishWake(w, x) PROVE ClaimProtocol'
  BY <1>4, WakeProtocol DEF FinishWake, Actor
<1>5. ASSUME pc[w] # "find"
      PROVE  /\ cur[w] \in Id /\ Protocol(cur[w]) /\ word[cur[w]] \in Word
             /\ word[cur[w]].st = StateOfPhase(pc[w])
             /\ word[cur[w]].st = "ready" => coro[cur[w]]
             /\ word[cur[w]].st = "running" => (coro[cur[w]] <=> pc[w] = "yield")
  BY <1>5 DEF TypeOK, Holding, ClaimProtocol, Protocol, OneHolder
<1>6. ASSUME Rehome(w) PROVE ClaimProtocol'
  <2>1. /\ word[cur[w]].st = "ready" /\ word'[cur[w]].st = "ready" /\ coro[cur[w]]
        /\ cur[w] \in Id
    BY <1>5, <1>6 DEF Rehome, StateOfPhase, TypeOK, Word
  <2> QED
    BY <1>6, <2>1, TurnProtocol DEF Rehome, StateOfPhase, TypeOK
<1>7. ASSUME ClaimRun(w) PROVE ClaimProtocol'
  <2>1. cur[w] \in Id /\ word'[cur[w]].st = "running" /\ ~coro'[cur[w]]
    BY <1>5, <1>7, RunningWordFact DEF ClaimRun, TypeOK
  <2> QED
    BY <1>7, <2>1, TurnProtocol DEF ClaimRun, StateOfPhase, TypeOK
<1>8. ASSUME Block(w) PROVE ClaimProtocol'
  <2>1. cur[w] \in Id /\ word[cur[w]].st = "running" /\ ~coro[cur[w]]
    BY <1>5, <1>8 DEF Block, TaskCode, StateOfPhase
  <2> QED
    BY <1>8, <2>1, TurnProtocol DEF Block, StateOfPhase
<1>9. ASSUME MaybeYield(w) PROVE ClaimProtocol'
  <2>1. /\ cur[w] \in Id /\ ~coro[cur[w]] /\ word[cur[w]] \in Word
        /\ word[cur[w]].st = "running"
    BY <1>5, <1>9 DEF MaybeYield, TaskCode, StateOfPhase
  <2>2. word'[cur[w]].st = "running"
    BY <1>9, <2>1, FlagFact DEF MaybeYield, TypeOK
  <2> QED
    BY <1>9, <2>1, <2>2, TurnProtocol DEF MaybeYield, StateOfPhase, TypeOK
<1>10. ASSUME PutBack(w) PROVE ClaimProtocol'
  <2>1. cur[w] \in Id /\ word[cur[w]].st = "running" /\ coro'[cur[w]]
    BY <1>5, <1>10 DEF PutBack, StateOfPhase, TypeOK
  <2> QED
    BY <1>10, <2>1, TurnProtocol DEF PutBack, StateOfPhase, TypeOK
<1>11. ASSUME Yield(w) PROVE ClaimProtocol'
  <2> DEFINE b == cur[w]
             next == Requeue(word[b])
  <2>1. b \in Id /\ coro[b] /\ word[b] \in Word
    BY <1>5, <1>11 DEF Yield, StateOfPhase
  <2>2. /\ word' = [word EXCEPT ![b] = YieldedWord(@)]
        /\ next \in {"none", "defer", "repin"}
        /\ word'[b].st = IF next = "none" THEN "parked" ELSE "ready"
    BY <1>11, <2>1, YieldedWordFact DEF Yield, TypeOK
  <2>3. CASE next # "none"
    BY <1>11, <2>1, <2>2, <2>3, TurnProtocol DEF Yield, StateOfPhase, TypeOK
  <2>4. CASE next = "none"
    BY <1>11, <2>1, <2>2, <2>4, DropProtocol DEF Yield, TypeOK
  <2> QED
    BY <2>3, <2>4
<1>12. ASSUME Requeued(w) PROVE ClaimProtocol'
  <2> DEFINE b == cur[w]
  <2>1. /\ b \in Id /\ word[b].st = "ready" /\ coro[b]
        /\ word[b] \in Word /\ word[b].owner \in Worker
    BY <1>5, <1>12 DEF Requeued, StateOfPhase, Holding, Word
  <2>2. \E q \in Queue : queue' = [queue EXCEPT ![q] = @ \cup {b}]
    BY <1>12, <2>1, QueueFact DEF Requeued
  <2> QED
    BY <1>12, <2>1, <2>2, DropProtocol DEF Requeued
<1>13. ASSUME FinishStore(w) PROVE ClaimProtocol'
  <2>1. cur[w] \in Id /\ word'[cur[w]].st = "done"
    BY <1>5, <1>13, FixedWordFact DEF FinishStore, TaskCode, TypeOK
  <2> QED
    BY <1>13, <2>1, TurnProtocol DEF FinishStore, StateOfPhase, TypeOK
<1>14. ASSUME FinishJoin(w) PROVE ClaimProtocol'
  <2>1. cur[w] \in Id /\ word[cur[w]].st = "done"
    BY <1>5, <1>14 DEF FinishJoin, StateOfPhase
  <2> QED
    BY <1>14, <2>1, TurnProtocol DEF FinishJoin, StateOfPhase
<1>15. ASSUME FinishEnd(w) PROVE ClaimProtocol'
  <2>1. cur[w] \in Id /\ word[cur[w]].st = "done"
    BY <1>5, <1>15 DEF FinishEnd, StateOfPhase
  <2> QED
    BY <1>15, <2>1, DropProtocol DEF FinishEnd
<1> QED
  BY <1>1, <1>2, <1>3, <1>4, <1>6, <1>7, <1>8, <1>9, <1>10, <1>11, <1>12, <1>13,
     <1>14, <1>15 DEF WorkerNext

LEMMA ProtocolInv ==
  ASSUME TypeOK, ClaimProtocol, Placement, Holding, Lives, [Next]_vars
  PROVE  ClaimProtocol'
<1>1. ASSUME UNCHANGED <<word, coro, queue, pc, cur, claimed>> PROVE ClaimProtocol'
  BY <1>1, ProtocolFrame DEF ClaimProtocol
<1>2. ASSUME NEW o \in OsThread, OsUnblock(o) PROVE ClaimProtocol'
  BY <1>1, <1>2 DEF OsUnblock
<1> QED
  BY <1>1, <1>2, ActorProtocol, WorkerProtocol DEF Next, vars

-----------------------------------------------------------------------------
(* Placement                                                               *)

\* The queues do not change, and the words that do are of tasks in none.
LEMMA PlacementFrame ==
  ASSUME Placement, TypeOK, UNCHANGED queue, NEW b \in Id, ~Queued(b),
         \A c \in Id \ {b} : word'[c] = word[c],
         word'[b].st \in {"running", "parked"} => word'[b].owner # NoWorker
  PROVE  Placement'
<1>1. ASSUME NEW c \in Id, NEW q \in Queue, c \in queue[q] PROVE word'[c] = word[c]
  BY <1>1 DEF Queued
<1>2. /\ Injector \in Queue
      /\ \A q \in Queue : queue[q] \subseteq Id
  BY QueueFact DEF TypeOK
<1>3. \A w \in Worker : \A c \in queue'[Local(w)] : word'[c].owner = NoWorker
  BY <1>1, <1>2, QueueFact DEF Placement
<1>4. \A w \in Worker : \A c \in queue'[Pinned(w)] \cup queue'[Deferred(w)] : word'[c].owner = w
  BY <1>1, <1>2, QueueFact DEF Placement
<1>5. \A c \in queue'[Injector] : word'[c].owner = NoWorker
  BY <1>1, <1>2 DEF Placement
<1>6. \A c \in Id : word'[c].st \in {"running", "parked"} => word'[c].owner # NoWorker
  BY DEF Placement
<1> QED
  BY <1>3, <1>4, <1>5, <1>6 DEF Placement

\* A word that only gains a flag keeps its owner, so every queue may hold it.
LEMMA PlacementSame ==
  ASSUME Placement, TypeOK, UNCHANGED queue,
         \A c \in Id : word'[c].st = word[c].st /\ word'[c].owner = word[c].owner
  PROVE  Placement'
<1>1. \A q \in Queue : queue[q] \subseteq Id
  BY DEF TypeOK
<1> QED
  BY <1>1, QueueFact DEF Placement

\* Entries that leave queues disturb nothing.
LEMMA PlacementLess ==
  ASSUME Placement, UNCHANGED word, \A q \in Queue : queue'[q] \subseteq queue[q]
  PROVE  Placement'
BY QueueFact DEF Placement

\* An entry for b in a queue that may hold it.
LEMMA PutPlacement ==
  ASSUME TypeOK, Placement, NEW b \in Id, NEW q \in Queue, UNCHANGED word,
         queue' = [queue EXCEPT ![q] = @ \cup {b}],
         \/ q = Injector /\ word[b].owner = NoWorker
         \/ \E w \in Worker :
              \/ q = Local(w) /\ word[b].owner = NoWorker
              \/ q \in {Pinned(w), Deferred(w)} /\ word[b].owner = w
  PROVE  Placement'
<1>1. \A r \in Queue : r # q => queue'[r] = queue[r]
  BY DEF TypeOK
<1>2. queue'[q] = queue[q] \cup {b}
  BY DEF TypeOK
<1>3. /\ q = Injector => word[b].owner = NoWorker
      /\ \A w \in Worker : /\ q = Local(w) => word[b].owner = NoWorker
                           /\ q \in {Pinned(w), Deferred(w)} => word[b].owner = w
  BY DEF Local, Pinned, Deferred, Injector
<1>4. \A w \in Worker : \A c \in queue'[Local(w)] : word[c].owner = NoWorker
  BY <1>1, <1>2, <1>3, QueueFact DEF Placement
<1>5. \A w \in Worker : \A c \in queue'[Pinned(w)] \cup queue'[Deferred(w)] : word[c].owner = w
  <2> SUFFICES ASSUME NEW w \in Worker, NEW p \in {Pinned(w), Deferred(w)}, NEW c \in queue'[p]
               PROVE  word[c].owner = w
    OBVIOUS
  <2>1. \A d \in queue[p] : word[d].owner = w
    BY DEF Placement
  <2> QED
    BY <1>1, <1>2, <1>3, <2>1, QueueFact
<1>6. \A c \in queue'[Injector] : word[c].owner = NoWorker
  BY <1>1, <1>2, <1>3, QueueFact DEF Placement
<1> QED
  BY <1>4, <1>5, <1>6 DEF Placement

LEMMA WakePlacement ==
  ASSUME TypeOK, ClaimProtocol, Placement, NEW a \in Actor, NEW b \in Id,
         NEW m \in BOOLEAN, ClaimParked(a, b, m), UNCHANGED queue
  PROVE  Placement'
<1>1. word[b] \in Word /\ word[b].owner \in Owner /\ Protocol(b)
  BY DEF TypeOK, Word, Owner, ClaimProtocol
<1>2. CASE Claimable(word[b]) /\ word' = [word EXCEPT ![b] =
             ClaimedWord(HomeFor(word[b].owner, a, Migrate /\ m))]
  <2>1. ClaimedWord(HomeFor(word[b].owner, a, Migrate /\ m)).st = "ready"
    BY <1>1, HomeForFact, ClaimedWordFact
  <2>2. ~Queued(b) /\ word'[b].st = "ready"
    BY <1>1, <1>2, <2>1 DEF Protocol, Claimable, TypeOK
  <2>3. \A c \in Id \ {b} : word'[c] = word[c]
    BY <1>2 DEF TypeOK
  <2> QED
    BY <2>2, <2>3, PlacementFrame
<1>3. CASE word' = [word EXCEPT ![b] = PendedWord(word[b])]
  BY <1>1, <1>3, FlagFact, PlacementSame DEF TypeOK
<1>4. CASE UNCHANGED word
  BY <1>4, PlacementSame
<1> QED
  BY <1>2, <1>3, <1>4 DEF ClaimParked

LEMMA ActorPlacement ==
  ASSUME TypeOK, ClaimProtocol, Placement, Holding, Lives,
         NEW a \in Actor, ActorNext(a)
  PROVE  Placement'
<1>1. ASSUME NEW b \in Id, Spawn(a, b) PROVE Placement'
  <2>1. /\ word[b].st = "done" /\ UNCHANGED queue
        /\ word' = [word EXCEPT ![b] = FreshWord]
    BY <1>1 DEF Spawn, Lives, Lifecycle
  <2>2. ~Queued(b) /\ word'[b].st = "ready"
    BY <2>1, FixedWordFact DEF ClaimProtocol, Protocol, TypeOK
  <2>3. \A c \in Id \ {b} : word'[c] = word[c]
    BY <1>1 DEF Spawn, TypeOK
  <2> QED
    BY <2>1, <2>2, <2>3, PlacementFrame
<1>2. ASSUME NEW b \in Id, NEW m \in BOOLEAN, Wake(a, b, m) PROVE Placement'
  BY <1>2, WakePlacement DEF Wake
<1>3. ASSUME Enqueue(a) PROVE Placement'
  <2> DEFINE b == claimed[a]
             owner == word[b].owner
  <2>1. /\ b \in Id /\ owner \in Worker \cup {NoWorker} /\ UNCHANGED word
        /\ queue' = [queue EXCEPT ![HomeQueue(a, owner)] = @ \cup {b}]
        /\ HomeQueue(a, owner) \in Queue
    BY <1>3, QueueFact DEF Enqueue, TypeOK, Word, HomeQueue
  <2> HIDE DEF b
  <2>2. CASE owner = NoWorker /\ a \in Worker
    BY <2>1, <2>2, PutPlacement DEF HomeQueue
  <2>3. CASE owner = NoWorker /\ a \notin Worker
    BY <2>1, <2>3, PutPlacement DEF HomeQueue
  <2>4. CASE owner \in Worker
    BY <2>1, <2>4, PutPlacement, WorkerAssumption DEF HomeQueue
  <2> QED
    BY <2>1, <2>2, <2>3, <2>4
<1>4. ASSUME UNCHANGED <<word, queue>> PROVE Placement'
  BY <1>4, PlacementSame
<1>5. ASSUME NEW h \in Handle, AwaitStart(a, h) \/ Detach(a, h) PROVE Placement'
  BY <1>4, <1>5 DEF AwaitStart, Detach
<1>6. ASSUME AwaitStale(a) \/ AwaitTake(a) \/ AwaitBlock(a) PROVE Placement'
  BY <1>4, <1>6 DEF AwaitStale, AwaitTake, AwaitBlock
<1> QED
  BY <1>1, <1>2, <1>3, <1>5, <1>6 DEF ActorNext

LEMMA WorkerPlacement ==
  ASSUME TypeOK, ClaimProtocol, Placement, Holding, NEW w \in Worker, WorkerNext(w)
  PROVE  Placement'
<1>1. ASSUME NEW q \in Queue, NEW b \in Id, Pop(w, q, b) PROVE Placement'
  <2>1. \A r \in Queue : queue'[r] \subseteq queue[r]
    BY <1>1 DEF Pop, TypeOK
  <2> QED
    BY <1>1, <2>1, PlacementLess DEF Pop, Take
<1>2. ASSUME NEW v \in Worker, NEW b \in Id, StealLocal(w, v, b) PROVE Placement'
  <2>1. PICK loot \in SUBSET (queue[Local(v)] \ {b}) :
          queue' = [queue EXCEPT ![Local(v)] = @ \ ({b} \cup loot),
                                 ![Local(w)] = @ \cup loot]
    BY <1>2 DEF StealLocal
  <2>2. /\ UNCHANGED word /\ w # v
        /\ \A c \in queue[Local(v)] : word[c].owner = NoWorker
    BY <1>2 DEF StealLocal, Take, Placement
  <2>3. /\ \A u \in Worker : /\ queue'[Pinned(u)] = queue[Pinned(u)]
                             /\ queue'[Deferred(u)] = queue[Deferred(u)]
                             /\ queue'[Local(u)] \subseteq queue[Local(u)] \cup queue[Local(v)]
        /\ queue'[Injector] = queue[Injector]
    BY <2>1, QueueFact DEF TypeOK, Local, Pinned, Deferred, Injector
  <2> QED
    BY <2>2, <2>3 DEF Placement
<1>3. ASSUME NEW v \in Worker, NEW b \in Id, StealPinned(w, v, b) PROVE Placement'
  <2>1. \A r \in Queue : queue'[r] \subseteq queue[r]
    BY <1>3 DEF StealPinned, TypeOK
  <2> QED
    BY <1>3, <2>1, PlacementLess DEF StealPinned, Take
<1>4. ASSUME NEW x \in Id, FinishWake(w, x) PROVE Placement'
  BY <1>4, WakePlacement DEF FinishWake, Actor
<1>5. ASSUME UNCHANGED <<word, queue>> PROVE Placement'
  BY <1>5, PlacementSame
<1>6. ASSUME Block(w) \/ PutBack(w) \/ FinishJoin(w) \/ FinishEnd(w) PROVE Placement'
  BY <1>5, <1>6 DEF Block, PutBack, FinishJoin, FinishEnd
<1>7. ASSUME pc[w] # "find"
      PROVE  /\ cur[w] \in Id /\ ~Queued(cur[w]) /\ word[cur[w]] \in Word
             /\ word[cur[w]].st = StateOfPhase(pc[w])
             /\ word[cur[w]].st = "running" => word[cur[w]].owner # NoWorker
  BY <1>7 DEF TypeOK, Holding, ClaimProtocol, Protocol, OneHolder, Placement, Queued
<1>8. ASSUME Rehome(w) PROVE Placement'
  <2>1. word'[cur[w]].st = "ready" /\ UNCHANGED queue
    BY <1>7, <1>8 DEF Rehome, StateOfPhase, TypeOK, Word
  <2>2. \A c \in Id \ {cur[w]} : word'[c] = word[c]
    BY <1>8 DEF Rehome, TypeOK
  <2> QED
    BY <1>7, <1>8, <2>1, <2>2, PlacementFrame DEF Rehome
<1>9. ASSUME ClaimRun(w) PROVE Placement'
  <2>1. word'[cur[w]].owner # NoWorker
    BY <1>7, <1>9, RunningWordFact DEF ClaimRun, TypeOK
  <2>2. \A c \in Id \ {cur[w]} : word'[c] = word[c]
    BY <1>9 DEF ClaimRun, TypeOK
  <2> QED
    BY <1>7, <1>9, <2>1, <2>2, PlacementFrame DEF ClaimRun
<1>10. ASSUME MaybeYield(w) PROVE Placement'
  <2>1. \A c \in Id : word'[c].st = word[c].st /\ word'[c].owner = word[c].owner
    BY <1>7, <1>10, FlagFact DEF MaybeYield, TaskCode, TypeOK
  <2> QED
    BY <1>10, <2>1, PlacementSame DEF MaybeYield
<1>11. ASSUME Yield(w) PROVE Placement'
  <2>1. word'[cur[w]].owner # NoWorker
    BY <1>7, <1>11, YieldedWordFact DEF Yield, TypeOK, StateOfPhase
  <2>2. \A c \in Id \ {cur[w]} : word'[c] = word[c]
    BY <1>11 DEF Yield, TypeOK
  <2> QED
    BY <1>7, <1>11, <2>1, <2>2, PlacementFrame DEF Yield
<1>12. ASSUME Requeued(w) PROVE Placement'
  <2> DEFINE b == cur[w]
             owner == word[b].owner
  <2>1. b \in Id /\ owner \in Worker /\ UNCHANGED word
    BY <1>7, <1>12 DEF Requeued, Holding, Word
  <2>2. \E q \in {Pinned(owner), Deferred(owner)} :
          q \in Queue /\ queue' = [queue EXCEPT ![q] = @ \cup {b}]
    BY <1>12, <2>1, QueueFact DEF Requeued
  <2> QED
    BY <2>1, <2>2, PutPlacement
<1>13. ASSUME FinishStore(w) PROVE Placement'
  <2>1. word'[cur[w]].st = "done" /\ \A c \in Id \ {cur[w]} : word'[c] = word[c]
    BY <1>7, <1>13, FixedWordFact DEF FinishStore, TaskCode, TypeOK
  <2> QED
    BY <1>7, <1>13, <2>1, PlacementFrame DEF FinishStore, TaskCode
<1> QED
  BY <1>1, <1>2, <1>3, <1>4, <1>6, <1>8, <1>9, <1>10, <1>11, <1>12, <1>13 DEF WorkerNext

LEMMA PlacementInv ==
  ASSUME TypeOK, ClaimProtocol, Placement, Holding, Lives, [Next]_vars
  PROVE  Placement'
<1>1. ASSUME UNCHANGED <<word, queue>> PROVE Placement'
  BY <1>1, PlacementSame
<1>2. ASSUME NEW o \in OsThread, OsUnblock(o) PROVE Placement'
  BY <1>1, <1>2 DEF OsUnblock
<1> QED
  BY <1>1, <1>2, ActorPlacement, WorkerPlacement DEF Next, vars

-----------------------------------------------------------------------------
(* Holding                                                                 *)

\* The words of the tasks that other workers have in their hands are safe.
LEMMA HoldingFrame ==
  ASSUME TypeOK, Holding, NEW w \in Worker,
         \A v \in Worker \ {w} :
           /\ cur'[v] = cur[v] /\ pc'[v] = pc[v]
           /\ pc[v] \in {"defer", "repin"} => word'[cur[v]].owner = word[cur[v]].owner,
         pc'[w] = "find" <=> cur'[w] = NoTask,
         pc'[w] \in {"defer", "repin"} => word'[cur'[w]].owner # NoWorker
  PROVE  Holding'
BY DEF Holding

LEMMA HoldingWords ==
  ASSUME TypeOK, ClaimProtocol, Holding, UNCHANGED <<pc, cur>>,
         \A b \in Id : word[b].st = "ready" => word'[b] = word[b]
  PROVE  Holding'
<1>1. ASSUME NEW w \in Worker, pc[w] \in {"defer", "repin"}
      PROVE  word'[cur[w]] = word[cur[w]]
  BY <1>1 DEF TypeOK, ClaimProtocol, Protocol, Holding, StateOfPhase
<1> QED
  BY <1>1 DEF Holding

LEMMA ActorHolding ==
  ASSUME TypeOK, ClaimProtocol, Holding, Lives, NEW a \in Actor, ActorNext(a)
  PROVE  Holding'
<1>1. ASSUME NEW b \in Id, Spawn(a, b) PROVE Holding'
  <2>1. \A c \in Id : word[c].st = "ready" => word'[c] = word[c]
    BY <1>1 DEF Spawn, Lives, Lifecycle, TypeOK
  <2> QED
    BY <1>1, <2>1, HoldingWords DEF Spawn
<1>2. ASSUME NEW b \in Id, NEW m \in BOOLEAN, Wake(a, b, m) PROVE Holding'
  <2>1. \A c \in Id : word[c].st = "ready" => word'[c] = word[c]
    BY <1>2 DEF Wake, ClaimParked, Claimable, Pendable, TypeOK
  <2> QED
    BY <1>2, <2>1, HoldingWords DEF Wake
<1>3. ASSUME UNCHANGED <<word, pc, cur>> PROVE Holding'
  BY <1>3 DEF Holding
<1>4. ASSUME NEW h \in Handle, AwaitStart(a, h) \/ Detach(a, h) PROVE Holding'
  BY <1>3, <1>4 DEF AwaitStart, Detach
<1>5. ASSUME Enqueue(a) \/ AwaitStale(a) \/ AwaitTake(a) PROVE Holding'
  BY <1>3, <1>5 DEF Enqueue, AwaitStale, AwaitTake
<1>6. ASSUME AwaitBlock(a) PROVE Holding'
  <2>1. CASE a \in OsThread
    BY <1>3, <1>6, <2>1, GreenTaskAssumption DEF AwaitBlock
  <2>2. CASE a \in Worker
    BY <1>6, <2>2, GreenTaskAssumption, HoldingFrame DEF AwaitBlock, Awaiting, Holding, TypeOK
  <2> QED
    BY <2>1, <2>2 DEF Actor
<1> QED
  BY <1>1, <1>2, <1>4, <1>5, <1>6 DEF ActorNext

LEMMA WorkerHolding ==
  ASSUME TypeOK, ClaimProtocol, Placement, Holding, NEW w \in Worker, WorkerNext(w)
  PROVE  Holding'
<1>1. ASSUME NEW b \in Id, NEW phase \in {"claim", "rehome"}, Take(w, b, phase) PROVE Holding'
  BY <1>1, HoldingFrame, GreenTaskAssumption DEF Take, TypeOK
<1>2. ASSUME NEW b \in Id, NEW v, \/ Pop(w, v, b) \/ StealLocal(w, v, b) \/ StealPinned(w, v, b)
      PROVE  Holding'
  BY <1>1, <1>2 DEF Pop, StealLocal, StealPinned
<1>3. ASSUME NEW x \in Id, FinishWake(w, x) PROVE Holding'
  <2>1. \A c \in Id : word[c].st = "ready" => word'[c] = word[c]
    BY <1>3 DEF FinishWake, ClaimParked, Claimable, Pendable, TypeOK
  <2> QED
    BY <1>3, <2>1, HoldingWords DEF FinishWake
<1>4. ASSUME pc[w] # "find"
      PROVE  /\ cur[w] \in Id /\ word[cur[w]] \in Word
             /\ word[cur[w]].st = StateOfPhase(pc[w])
             /\ word[cur[w]].st = "running" => word[cur[w]].owner # NoWorker
             /\ \A v \in Worker \ {w} : cur[v] # cur[w]
  BY <1>4 DEF TypeOK, Holding, ClaimProtocol, Protocol, OneHolder, Placement
\* A turn that keeps the task and touches no other word.
<1>5. ASSUME NEW phase, pc[w] # "find", phase # "find",
             pc' = [pc EXCEPT ![w] = phase], UNCHANGED cur,
             \A c \in Id \ {cur[w]} : word'[c] = word[c],
             phase \in {"defer", "repin"} => word'[cur[w]].owner # NoWorker
      PROVE  Holding'
  <2>1. \A v \in Worker \ {w} :
          pc[v] \in {"defer", "repin"} => word'[cur[v]] = word[cur[v]]
    BY <1>4, <1>5 DEF TypeOK, Holding
  <2>2. pc'[w] = phase /\ cur'[w] = cur[w] /\ cur[w] # NoTask
    BY <1>5 DEF TypeOK, Holding
  <2>3. \A v \in Worker \ {w} : cur'[v] = cur[v] /\ pc'[v] = pc[v]
    BY <1>5 DEF TypeOK
  <2> QED
    BY <1>5, <2>1, <2>2, <2>3, HoldingFrame
<1>6. ASSUME \/ Rehome(w) \/ ClaimRun(w) \/ Block(w) \/ MaybeYield(w) \/ PutBack(w)
             \/ FinishStore(w) \/ FinishJoin(w)
      PROVE  Holding'
  <2>1. PICK phase \in {"claim", "body", "suspend", "yield", "finish", "drain"} :
          pc' = [pc EXCEPT ![w] = phase]
    BY <1>6 DEF Rehome, ClaimRun, Block, MaybeYield, PutBack, FinishStore, FinishJoin
  <2>2. pc[w] # "find" /\ UNCHANGED cur
    BY <1>6 DEF Rehome, ClaimRun, Block, MaybeYield, PutBack, FinishStore, FinishJoin, TaskCode
  <2>3. \A c \in Id \ {cur[w]} : word'[c] = word[c]
    BY <1>6 DEF Rehome, ClaimRun, Block, MaybeYield, PutBack, FinishStore, FinishJoin, TypeOK
  <2> QED
    BY <1>5, <2>1, <2>2, <2>3
\* The end of a turn: only w and the word of the task it had change.
<1>7. ASSUME pc[w] # "find", pc' = [pc EXCEPT ![w] = "find"],
             cur' = [cur EXCEPT ![w] = NoTask],
             \A c \in Id \ {cur[w]} : word'[c] = word[c]
      PROVE  Holding'
  <2>1. \A v \in Worker \ {w} :
          pc[v] \in {"defer", "repin"} => word'[cur[v]] = word[cur[v]]
    BY <1>4, <1>7 DEF TypeOK, Holding
  <2>2. pc'[w] = "find" /\ cur'[w] = NoTask
    BY <1>7 DEF TypeOK
  <2>3. \A v \in Worker \ {w} : cur'[v] = cur[v] /\ pc'[v] = pc[v]
    BY <1>7 DEF TypeOK
  <2> QED
    BY <2>1, <2>2, <2>3, HoldingFrame
<1>8. ASSUME Requeued(w) \/ FinishEnd(w) PROVE Holding'
  BY <1>7, <1>8 DEF Requeued, FinishEnd
<1>9. ASSUME Yield(w) PROVE Holding'
  <2> DEFINE next == Requeue(word[cur[w]])
  <2>1. pc[w] # "find" /\ \A c \in Id \ {cur[w]} : word'[c] = word[c]
    BY <1>9 DEF Yield, TypeOK
  <2>2. word'[cur[w]].owner # NoWorker
    BY <1>4, <1>9, YieldedWordFact DEF Yield, TypeOK, StateOfPhase
  <2>3. next \in {"none", "defer", "repin"}
    BY <1>4, <1>9, YieldedWordFact DEF Yield
  <2>4. CASE next # "none" /\ pc' = [pc EXCEPT ![w] = next] /\ UNCHANGED cur
    BY <1>5, <2>1, <2>2, <2>3, <2>4
  <2>5. CASE pc' = [pc EXCEPT ![w] = "find"] /\ cur' = [cur EXCEPT ![w] = NoTask]
    BY <1>7, <2>1, <2>5
  <2> QED
    BY <1>9, <2>4, <2>5 DEF Yield
<1> QED
  BY <1>2, <1>3, <1>6, <1>8, <1>9 DEF WorkerNext

LEMMA HoldingInv ==
  ASSUME TypeOK, ClaimProtocol, Placement, Holding, Lives, [Next]_vars
  PROVE  Holding'
<1>1. ASSUME UNCHANGED <<word, pc, cur>> PROVE Holding'
  BY <1>1 DEF Holding
<1>2. ASSUME NEW o \in OsThread, OsUnblock(o) PROVE Holding'
  BY <1>1, <1>2 DEF OsUnblock
<1> QED
  BY <1>1, <1>2, ActorHolding, WorkerHolding DEF Next, vars

-----------------------------------------------------------------------------
(* Lives                                                                   *)

LEMMA LifecycleFrame ==
  ASSUME NEW b \in Id, Lifecycle(b),
         /\ live'[b] = live[b] /\ gen'[b] = gen[b] /\ done'[b] = done[b]
         /\ (b \in free') <=> (b \in free),
         awaiters'[b] = awaiters[b] \/ (live[b] /\ ~done[b]),
         \/ word'[b] = word[b]
         \/ word[b].st # "done" /\ word'[b].st # "done",
         \A w \in Worker : cur'[w] = b /\ pc'[w] \in {"finish", "drain"} =>
           cur[w] = b /\ pc'[w] = pc[w]
  PROVE  Lifecycle(b)'
BY DEF Lifecycle

\* A retired block: its task is done, and nobody has it in the join section.
LEMMA LifecycleRetire ==
  ASSUME TypeOK, Lives, NEW h \in Id, Retire(h), word[h].st = "done", done[h] /\ live[h],
         UNCHANGED <<word, done, awaiters>>,
         \A w \in Worker : cur'[w] = h => pc'[w] \notin {"finish", "drain"},
         \A w \in Worker : cur'[w] # NoTask => cur'[w] = cur[w] /\ pc'[w] = pc[w]
  PROVE  Lives'
<1> SUFFICES ASSUME NEW b \in Id PROVE Lifecycle(b)'
  BY DEF Lives
<1>1. CASE b # h
  <2>1. /\ live'[b] = live[b] /\ gen'[b] = gen[b]
        /\ (b \in free') <=> (b \in free)
    BY <1>1 DEF Retire, TypeOK
  <2> QED
    BY <1>1, <2>1, LifecycleFrame, GreenTaskAssumption DEF Lives
<1>2. CASE b = h
  <2>1. ~live'[h] /\ h \in free'
    BY DEF Retire, TypeOK
  <2> QED
    BY <1>2, <2>1 DEF Lives, Lifecycle
<1> QED
  BY <1>1, <1>2

\* Nobody is in a task whose word is done and that is done, but its finisher.
LEMMA JoinFact ==
  ASSUME TypeOK, ClaimProtocol, Holding, Lives, NEW b \in Id, live[b] /\ done[b], JoinFree(b)
  PROVE  /\ word[b].st = "done"
         /\ \A w \in Worker : cur[w] # b
<1>1. word[b].st = "done"
  BY DEF Lives, Lifecycle
<1>2. ASSUME NEW w \in Worker, cur[w] = b PROVE FALSE
  <2>1. pc[w] \in {"find", "finish", "drain"}
    BY <1>1, <1>2 DEF ClaimProtocol, Protocol, StateOfPhase, TypeOK, Phase
  <2>2. pc[w] # "drain" /\ pc[w] # "finish"
    BY <1>2 DEF JoinFree, Lives, Lifecycle
  <2> QED
    BY <1>2, <2>1, <2>2, GreenTaskAssumption DEF Holding
<1> QED
  BY <1>1, <1>2

LEMMA WakeLives ==
  ASSUME TypeOK, Lives, NEW a \in Actor, NEW b \in Id, NEW m \in BOOLEAN,
         ClaimParked(a, b, m), UNCHANGED <<joinVars, pc, cur, free>>
  PROVE  Lives'
<1>1. \A c \in Id : word'[c] = word[c] \/ (word[c].st # "done" /\ word'[c].st # "done")
  <2>1. word[b] \in Word /\ word[b].owner \in Owner
    BY DEF TypeOK, Word, Owner
  <2>2. /\ ClaimedWord(HomeFor(word[b].owner, a, Migrate /\ m)).st = "ready"
        /\ PendedWord(word[b]).st = word[b].st
    BY <2>1, HomeForFact, ClaimedWordFact, FlagFact
  <2> QED
    BY <2>2 DEF ClaimParked, Claimable, Pendable, TypeOK
<1> QED
  BY <1>1, LifecycleFrame DEF Lives, joinVars

LEMMA ActorLives ==
  ASSUME TypeOK, ClaimProtocol, Holding, Lives, NEW a \in Actor, ActorNext(a)
  PROVE  Lives'
<1>1. ASSUME NEW b \in Id, Spawn(a, b) PROVE Lives'
  <2> SUFFICES ASSUME NEW c \in Id PROVE Lifecycle(c)'
    BY DEF Lives
  <2>1. CASE c # b
    BY <1>1, <2>1, LifecycleFrame DEF Spawn, Lives, TypeOK
  <2>2. CASE c = b
    <3>1. /\ live'[b] /\ ~done'[b] /\ gen'[b] \in Gen /\ b \notin free'
          /\ word'[b].st = "ready"
      BY <1>1, FixedWordFact DEF Spawn, TypeOK
    <3>2. \A w \in Worker : cur'[w] = b => pc'[w] \notin {"finish", "drain"}
      BY <1>1 DEF Spawn, Lives, Lifecycle
    <3> QED
      BY <2>2, <3>1, <3>2 DEF Lifecycle
  <2> QED
    BY <2>1, <2>2
<1>2. ASSUME NEW b \in Id, NEW m \in BOOLEAN, Wake(a, b, m) PROVE Lives'
  BY <1>2, WakeLives DEF Wake
<1>3. ASSUME UNCHANGED <<word, joinVars, pc, cur, free>> PROVE Lives'
  BY <1>3, LifecycleFrame DEF Lives, joinVars
<1>4. ASSUME NEW h \in Handle, AwaitStart(a, h) PROVE Lives'
  BY <1>3, <1>4 DEF AwaitStart
<1>5. ASSUME Enqueue(a) \/ AwaitStale(a) PROVE Lives'
  BY <1>3, <1>5 DEF Enqueue, AwaitStale
<1>6. ASSUME NEW h \in Handle, Detach(a, h) PROVE Lives'
  <2>1. h[1] \in Id
    BY DEF Handle
  <2>2. CASE done[h[1]] /\ Retire(h[1]) /\ UNCHANGED detached
    <3>1. live[h[1]] /\ done[h[1]] /\ JoinFree(h[1])
      BY <1>6, <2>2 DEF Detach, Holds
    <3>2. word[h[1]].st = "done" /\ \A w \in Worker : cur[w] # h[1]
      BY <2>1, <3>1, JoinFact
    <3> QED
      BY <1>6, <2>1, <2>2, <3>1, <3>2, LifecycleRetire DEF Detach
  <2>3. CASE UNCHANGED <<live, gen, free>>
    BY <1>6, <2>3, LifecycleFrame DEF Detach, Lives
  <2> QED
    BY <1>6, <2>2, <2>3 DEF Detach
<1>7. ASSUME AwaitTake(a) PROVE Lives'
  <2> DEFINE b == want[Self(a)][1]
  <2>1. Self(a) \in Awaiter
    BY <1>7, GreenTaskAssumption DEF AwaitTake, Awaiting, Self, Awaiter, Holding, Actor, TypeOK
  <2>2. b \in Id
    BY <1>7, <2>1 DEF AwaitTake, Awaiting, TypeOK, Handle
  <2>3. live[b] /\ done[b] /\ JoinFree(b) /\ Retire(b)
    BY <1>7 DEF AwaitTake, Awaiting, Holds
  <2>4. word[b].st = "done" /\ \A w \in Worker : cur[w] # b
    BY <2>2, <2>3, JoinFact
  <2>5. UNCHANGED <<word, done, awaiters, pc, cur>>
    BY <1>7 DEF AwaitTake
  <2> HIDE DEF b
  <2> QED
    BY <2>2, <2>3, <2>4, <2>5, LifecycleRetire
<1>8. ASSUME AwaitBlock(a) PROVE Lives'
  <2> DEFINE b == want[Self(a)][1]
  <2>1. live[b] /\ ~done[b] /\ UNCHANGED <<word, live, gen, done, free, cur>>
    BY <1>8 DEF AwaitBlock, Holds
  <2>2. \A c \in Id \ {b} : awaiters'[c] = awaiters[c]
    BY <1>8 DEF AwaitBlock, TypeOK
  <2>3. \A w \in Worker : pc'[w] = pc[w] \/ pc'[w] = "suspend"
    BY <1>8 DEF AwaitBlock, TypeOK
  <2> HIDE DEF b
  <2> QED
    BY <2>1, <2>2, <2>3, LifecycleFrame DEF Lives
<1> QED
  BY <1>1, <1>2, <1>4, <1>5, <1>6, <1>7, <1>8 DEF ActorNext

LEMMA WorkerLives ==
  ASSUME TypeOK, ClaimProtocol, Holding, Lives, NEW w \in Worker, WorkerNext(w)
  PROVE  Lives'
\* A step that moves w alone, out of the join section, and no join state.
<1>1. ASSUME UNCHANGED joinVars, UNCHANGED free,
             \A v \in Worker : pc'[v] \in {"finish", "drain"} =>
               cur'[v] = cur[v] /\ pc'[v] = pc[v],
             \A b \in Id : \/ word'[b] = word[b]
                           \/ word[b].st # "done" /\ word'[b].st # "done"
      PROVE  Lives'
  BY <1>1, LifecycleFrame DEF Lives, joinVars
<1>2. ASSUME NEW b \in Id, NEW phase \in {"claim", "rehome"}, Take(w, b, phase) PROVE Lives'
  BY <1>1, <1>2 DEF Take, TypeOK
<1>3. ASSUME NEW b \in Id, NEW v, \/ Pop(w, v, b) \/ StealLocal(w, v, b) \/ StealPinned(w, v, b)
      PROVE  Lives'
  BY <1>2, <1>3 DEF Pop, StealLocal, StealPinned
<1>4. ASSUME NEW x \in Id, FinishWake(w, x) PROVE Lives'
  BY <1>4, WakeLives DEF FinishWake, Actor
<1>5. ASSUME pc[w] # "find"
      PROVE  /\ cur[w] \in Id /\ word[cur[w]] \in Word
             /\ word[cur[w]].st = StateOfPhase(pc[w])
             /\ \A v \in Worker \ {w} : cur[v] # cur[w]
  BY <1>5 DEF TypeOK, Holding, ClaimProtocol, Protocol, OneHolder
<1>6. ASSUME Block(w) \/ PutBack(w) PROVE Lives'
  BY <1>1, <1>6 DEF Block, PutBack, TypeOK
<1>7. ASSUME Requeued(w) PROVE Lives'
  BY <1>1, <1>7 DEF Requeued, TypeOK
<1>8. ASSUME Rehome(w) PROVE Lives'
  <2>1. [word[cur[w]] EXCEPT !.owner = w].st = word[cur[w]].st
    BY <1>5, <1>8 DEF Rehome, Word
  <2>2. word[cur[w]].st # "done" /\ word'[cur[w]].st = word[cur[w]].st
    BY <1>5, <1>8, <2>1 DEF Rehome, StateOfPhase, TypeOK
  <2>3. \A b \in Id \ {cur[w]} : word'[b] = word[b]
    BY <1>8 DEF Rehome, TypeOK
  <2>4. \A v \in Worker : pc'[v] \in {"finish", "drain"} => cur'[v] = cur[v] /\ pc'[v] = pc[v]
    BY <1>8 DEF Rehome, TypeOK
  <2> QED
    BY <1>1, <1>8, <2>2, <2>3, <2>4 DEF Rehome
<1>9. ASSUME ClaimRun(w) \/ MaybeYield(w) \/ Yield(w) PROVE Lives'
  <2>1. /\ pc[w] \in {"claim", "body", "yield"}
        /\ word[cur[w]].st # "done" /\ cur[w] \in Id /\ word[cur[w]] \in Word
    BY <1>5, <1>9 DEF ClaimRun, MaybeYield, TaskCode, Yield, StateOfPhase
  <2>2. /\ RunningWord(word[cur[w]], w).st # "done"
        /\ PreemptedWord(word[cur[w]]).st # "done"
        /\ YieldedWord(word[cur[w]]).st # "done"
    BY <2>1, RunningWordFact, FlagFact, YieldedWordFact
  <2>3. word'[cur[w]].st # "done" /\ \A b \in Id \ {cur[w]} : word'[b] = word[b]
    BY <1>9, <2>1, <2>2 DEF ClaimRun, MaybeYield, Yield, TypeOK
  <2>4. Requeue(word[cur[w]]) \in {"none", "defer", "repin"}
    BY <2>1, YieldedWordFact
  <2>5. \A v \in Worker : pc'[v] \in {"finish", "drain"} => cur'[v] = cur[v] /\ pc'[v] = pc[v]
    BY <1>9, <2>4 DEF ClaimRun, MaybeYield, Yield, TypeOK
  <2> QED
    BY <1>1, <1>9, <2>1, <2>3, <2>5 DEF ClaimRun, MaybeYield, Yield
<1>10. ASSUME FinishStore(w) PROVE Lives'
  <2> DEFINE b == cur[w]
  <2>1. b \in Id /\ word[b].st = "running" /\ \A v \in Worker \ {w} : cur[v] # b
    BY <1>5, <1>10 DEF FinishStore, TaskCode, StateOfPhase
  <2>2. /\ word'[b] = DoneWord /\ pc'[w] = "finish"
        /\ UNCHANGED <<live, gen, done, awaiters, cur, free>>
        /\ \A c \in Id \ {b} : word'[c] = word[c]
        /\ \A v \in Worker \ {w} : pc'[v] = pc[v]
    BY <1>10, <2>1 DEF FinishStore, joinVars, TypeOK
  <2>3. cur[w] = b
    OBVIOUS
  <2> HIDE DEF b
  <2> SUFFICES ASSUME NEW c \in Id PROVE Lifecycle(c)'
    BY DEF Lives
  <2>4. CASE c # b
    BY <2>2, <2>3, <2>4, LifecycleFrame DEF Lives
  <2>5. CASE c = b
    BY <2>1, <2>2, <2>5, FixedWordFact DEF Lives, Lifecycle
  <2> QED
    BY <2>4, <2>5
<1>11. ASSUME FinishJoin(w) PROVE Lives'
  <2> DEFINE b == cur[w]
  <2>1. /\ b \in Id /\ word[b].st = "done" /\ \A v \in Worker \ {w} : cur[v] # b
        /\ pc[w] = "finish"
    BY <1>5, <1>11 DEF FinishJoin, StateOfPhase
  <2>2. /\ done'[b] /\ awaiters'[b] = {} /\ pc'[w] = "drain"
        /\ UNCHANGED <<word, live, gen, cur, free>>
        /\ \A c \in Id \ {b} : done'[c] = done[c] /\ awaiters'[c] = awaiters[c]
        /\ \A v \in Worker \ {w} : pc'[v] = pc[v]
    BY <1>11, <2>1 DEF FinishJoin, TypeOK
  <2>3. cur[w] = b
    OBVIOUS
  <2> HIDE DEF b
  <2> SUFFICES ASSUME NEW c \in Id PROVE Lifecycle(c)'
    BY DEF Lives
  <2>4. CASE c # b
    BY <2>2, <2>3, <2>4, LifecycleFrame DEF Lives
  <2>5. CASE c = b
    BY <2>1, <2>2, <2>3, <2>5 DEF Lives, Lifecycle
  <2> QED
    BY <2>4, <2>5
<1>12. ASSUME FinishEnd(w) PROVE Lives'
  <2> DEFINE b == cur[w]
  <2>1. /\ b \in Id /\ word[b].st = "done" /\ \A v \in Worker \ {w} : cur[v] # b
        /\ live[b] /\ done[b]
    BY <1>5, <1>12 DEF FinishEnd, StateOfPhase, Lives, Lifecycle
  <2>2. /\ UNCHANGED <<word, done, awaiters>>
        /\ cur' = [cur EXCEPT ![w] = NoTask] /\ pc' = [pc EXCEPT ![w] = "find"]
    BY <1>12 DEF FinishEnd
  <2>3. CASE Retire(b)
    <3>1. \A v \in Worker : cur'[v] # NoTask => cur'[v] = cur[v] /\ pc'[v] = pc[v]
      BY <2>2 DEF TypeOK
    <3>2. \A v \in Worker : cur'[v] = b => pc'[v] \notin {"finish", "drain"}
      BY <2>1, <2>2 DEF TypeOK
    <3> HIDE DEF b
    <3> QED
      BY <2>1, <2>2, <2>3, <3>1, <3>2, LifecycleRetire
  <2>4. CASE UNCHANGED <<live, gen, free>>
    <3>1. \A v \in Worker : pc'[v] \in {"finish", "drain"} => cur'[v] = cur[v] /\ pc'[v] = pc[v]
      BY <2>2 DEF TypeOK
    <3> QED
      BY <2>2, <2>4, <3>1, LifecycleFrame DEF Lives
  <2> QED
    BY <1>12, <2>3, <2>4 DEF FinishEnd
<1> QED
  BY <1>3, <1>4, <1>6, <1>7, <1>8, <1>9, <1>10, <1>11, <1>12 DEF WorkerNext

LEMMA LivesInv ==
  ASSUME TypeOK, ClaimProtocol, Placement, Holding, Lives, [Next]_vars
  PROVE  Lives'
<1>1. ASSUME UNCHANGED <<word, joinVars, pc, cur, free>> PROVE Lives'
  BY <1>1, LifecycleFrame DEF Lives, joinVars
<1>2. ASSUME NEW o \in OsThread, OsUnblock(o) PROVE Lives'
  BY <1>1, <1>2 DEF OsUnblock
<1> QED
  BY <1>1, <1>2, ActorLives, WorkerLives DEF Next, vars

-----------------------------------------------------------------------------
(* History: whose result a handle yields, and how often                    *)

\* A retired generation is over: its result is not handed out again.
LEMMA RetireHistory ==
  ASSUME TypeOK, History, ResultOnce, Lives, NEW b \in Id, live[b], done[b], Retire(b),
         UNCHANGED <<done, result, issued>>,
         \A x \in Awaiter : want'[x] \in {want[x], NoHandle},
         \/ UNCHANGED takes
         \/ takes' = [k \in Handle |-> IF k = result[b] THEN takes[k] + 1 ELSE takes[k]]
  PROVE  History' /\ ResultOnce'
<1>1. gen[b] \in Nat /\ \A c \in Id : gen[c] \in Nat
  BY GreenTaskAssumption DEF TypeOK
<1>2. /\ ~live'[b] /\ gen'[b] = gen[b] + 1
      /\ \A c \in Id \ {b} : live'[c] = live[c] /\ gen'[c] = gen[c]
  BY DEF Retire, TypeOK
<1>3. /\ \A h \in Handle : h[1] \in Id /\ h[2] \in Nat /\ h = <<h[1], h[2]>>
      /\ \A h \in issued : h \in Handle
  BY GreenTaskAssumption DEF Handle, Gen, TypeOK
<1>4. \A h \in Handle : takes[h] \in Nat /\ takes'[h] \in {takes[h], takes[h] + 1}
  BY DEF TypeOK
<1>5. ASSUME NEW h \in Handle, takes'[h] # takes[h]
      PROVE  h[1] = b /\ h[2] = gen[b] /\ takes[h] = 0 /\ takes'[h] = 1
  <2>1. h = result[b]
    BY <1>5 DEF TypeOK
  <2>2. h = <<b, gen[b]>>
    BY <2>1, GreenTaskAssumption DEF ResultOnce
  <2> QED
    BY <1>4, <1>5, <2>2 DEF ResultOnce
<1>6. \A h \in issued : h[2] <= gen'[h[1]] /\ (h[2] = gen'[h[1]] => live'[h[1]])
  BY <1>1, <1>2, <1>3 DEF History
<1>7. \A h \in Handle : h[2] >= gen'[h[1]] => takes'[h] = 0
  BY <1>1, <1>2, <1>3, <1>5 DEF History
<1>8. \A h \in Handle : takes'[h] <= 1
  BY <1>4, <1>5 DEF ResultOnce
<1>9. ASSUME NEW c \in Id, live'[c] /\ done'[c]
      PROVE  result'[c] \in {<<c, gen'[c]>>, Zero} /\ takes'[<<c, gen'[c]>>] = 0
  <2>1. c # b /\ live[c] /\ gen'[c] = gen[c] /\ gen[c] \in Gen
    BY <1>2, <1>9 DEF Lives, Lifecycle
  <2>2. <<c, gen[c]>> \in Handle
    BY <2>1 DEF Handle
  <2> QED
    BY <1>5, <1>9, <2>1, <2>2 DEF ResultOnce
<1>10. /\ \A c \in Id : live'[c] => <<c, gen'[c]>> \in issued'
       /\ \A x \in Awaiter : want'[x] \in issued' \cup {NoHandle}
  BY <1>2 DEF History
<1> QED
  BY <1>6, <1>7, <1>8, <1>9, <1>10 DEF History, ResultOnce

LEMMA HistoryInv ==
  ASSUME IInv, [Next]_vars
  PROVE  History' /\ ResultOnce'
<1> USE DEF IInv
<1>1. ASSUME UNCHANGED <<gen, live, done, result, issued, takes>>,
             \A x \in Awaiter : want'[x] \in issued \cup {NoHandle}
      PROVE  History' /\ ResultOnce'
  BY <1>1 DEF History, ResultOnce
<1>2. ASSUME NEW a \in Actor, NEW b \in Id, Spawn(a, b) PROVE History' /\ ResultOnce'
  <2>1. /\ live' = [live EXCEPT ![b] = TRUE] /\ done' = [done EXCEPT ![b] = FALSE]
        /\ result' = [result EXCEPT ![b] = Zero]
        /\ issued' = issued \cup {<<b, gen[b]>>}
        /\ UNCHANGED <<gen, takes, want>> /\ gen[b] \in Gen
    BY <1>2 DEF Spawn
  <2>2. \A h \in issued' : h[2] <= gen'[h[1]] /\ (h[2] = gen'[h[1]] => live'[h[1]])
    BY <2>1, GreenTaskAssumption DEF History, TypeOK, Handle, Gen
  <2>3. \A c \in Id : live'[c] /\ done'[c] => c # b
    BY <2>1 DEF TypeOK
  <2>4. \A c \in Id \ {b} : live'[c] = live[c] /\ done'[c] = done[c] /\ result'[c] = result[c]
    BY <2>1 DEF TypeOK
  <2>5. \A c \in Id : live'[c] => <<c, gen'[c]>> \in issued'
    BY <2>1, <2>4 DEF History
  <2> QED
    BY <2>1, <2>2, <2>3, <2>4, <2>5 DEF History, ResultOnce
<1>3. ASSUME NEW a \in Actor, NEW h \in Handle, Detach(a, h) PROVE History' /\ ResultOnce'
  <2>1. CASE done[h[1]] /\ Retire(h[1])
    <3>1. h[1] \in Id /\ live[h[1]]
      BY <1>3 DEF Detach, Holds, Handle
    <3> QED
      BY <1>3, <2>1, <3>1, RetireHistory DEF Detach
  <2>2. CASE UNCHANGED <<live, gen, free>>
    BY <1>1, <1>3, <2>2 DEF Detach, History
  <2> QED
    BY <1>3, <2>1, <2>2 DEF Detach
<1>4. ASSUME NEW a \in Actor, AwaitTake(a) PROVE History' /\ ResultOnce'
  <2> DEFINE b == want[Self(a)][1]
  <2>1. Self(a) \in Awaiter
    BY <1>4, GreenTaskAssumption DEF AwaitTake, Awaiting, Self, Awaiter, Holding, Actor, TypeOK
  <2>2. b \in Id
    BY <1>4, <2>1 DEF AwaitTake, Awaiting, TypeOK, Handle
  <2>3. /\ live[b] /\ done[b] /\ Retire(b) /\ UNCHANGED <<done, result, issued>>
        /\ takes' = [k \in Handle |-> IF k = result[b] THEN takes[k] + 1 ELSE takes[k]]
    BY <1>4 DEF AwaitTake, Awaiting, Holds
  <2>4. \A x \in Awaiter : want'[x] \in {want[x], NoHandle}
    BY <1>4 DEF AwaitTake, TypeOK
  <2> HIDE DEF b
  <2> QED
    BY <2>2, <2>3, <2>4, RetireHistory
<1>5. ASSUME NEW w \in Worker, FinishJoin(w) PROVE History' /\ ResultOnce'
  <2> DEFINE b == cur[w]
  <2>1. b \in Id /\ live[b] /\ gen[b] \in Gen
    BY <1>5 DEF FinishJoin, Holding, Lives, Lifecycle, TypeOK
  <2>2. /\ UNCHANGED <<gen, live, issued, takes, want>>
        /\ result'[b] \in {<<b, gen[b]>>, Zero}
        /\ \A c \in Id \ {b} : done'[c] = done[c] /\ result'[c] = result[c]
    BY <1>5, <2>1 DEF FinishJoin, TypeOK
  <2>3. <<b, gen[b]>> \in Handle /\ takes[<<b, gen[b]>>] = 0
    BY <2>1, GreenTaskAssumption DEF Handle, History, Gen
  <2> HIDE DEF b
  <2> QED
    BY <2>1, <2>2, <2>3 DEF History, ResultOnce
<1>6. ASSUME NEW w \in Worker, FinishEnd(w) PROVE History' /\ ResultOnce'
  <2>1. cur[w] \in Id /\ live[cur[w]] /\ done[cur[w]]
    BY <1>6 DEF FinishEnd, Holding, Lives, Lifecycle, TypeOK
  <2>2. CASE Retire(cur[w])
    BY <1>6, <2>1, <2>2, RetireHistory DEF FinishEnd
  <2>3. CASE UNCHANGED <<live, gen, free>>
    BY <1>1, <1>6, <2>3 DEF FinishEnd, History
  <2> QED
    BY <1>6, <2>2, <2>3 DEF FinishEnd
<1>7. ASSUME NEW w \in Worker, WorkerNext(w) PROVE History' /\ ResultOnce'
  BY <1>1, <1>5, <1>6, <1>7
     DEF History, WorkerNext, Pop, StealLocal, StealPinned, Take, FinishWake, Rehome, ClaimRun,
         Block, MaybeYield, PutBack, Yield, Requeued, FinishStore, joinVars
<1>8. ASSUME NEW a \in Actor, NEW h \in Handle, AwaitStart(a, h)
      PROVE  History' /\ ResultOnce'
  <2>1. \A x \in Awaiter : want'[x] \in issued \cup {NoHandle}
    BY <1>8 DEF AwaitStart, TypeOK, History
  <2> QED
    BY <1>1, <1>8, <2>1 DEF AwaitStart, joinVars
<1>9. ASSUME NEW a \in Actor, ActorNext(a) PROVE History' /\ ResultOnce'
  <2>1. ASSUME AwaitStale(a) PROVE History' /\ ResultOnce'
    <3>1. \A x \in Awaiter : want'[x] \in issued \cup {NoHandle}
      BY <2>1 DEF AwaitStale, TypeOK, History
    <3> QED
      BY <1>1, <2>1, <3>1 DEF AwaitStale, joinVars
  <2>2. ASSUME \/ \E b \in Id, m \in BOOLEAN : Wake(a, b, m)
               \/ Enqueue(a) \/ AwaitBlock(a)
        PROVE  History' /\ ResultOnce'
    BY <1>1, <2>2 DEF History, Wake, Enqueue, AwaitBlock, joinVars
  <2> QED
    BY <1>2, <1>3, <1>4, <1>8, <1>9, <2>1, <2>2 DEF ActorNext
<1>10. ASSUME NEW o \in OsThread, OsUnblock(o) PROVE History' /\ ResultOnce'
  BY <1>1, <1>10 DEF History, OsUnblock, joinVars
<1>11. ASSUME UNCHANGED vars PROVE History' /\ ResultOnce'
  BY <1>1, <1>11 DEF History, vars, joinVars
<1> QED
  BY <1>7, <1>9, <1>10, <1>11 DEF Next

-----------------------------------------------------------------------------
LEMMA InitInv == Init => IInv
<1> SUFFICES ASSUME Init PROVE IInv
  OBVIOUS
<1>1. TypeOK
  BY FixedWordFact, GreenTaskAssumption DEF Init, TypeOK, Phase
<1>2. \A b \in Id : ~Queued(b) /\ ~InHand(b) /\ OneHolder(b)
  BY GreenTaskAssumption DEF Init, Queued, InHand, OneHolder
<1>3. ClaimProtocol
  BY <1>2, FixedWordFact, GreenTaskAssumption DEF Init, ClaimProtocol, Protocol
<1>4. Placement
  BY FixedWordFact, QueueFact DEF Init, Placement
<1>5. Holding
  BY DEF Init, Holding
<1>6. Lives
  BY FixedWordFact, GreenTaskAssumption DEF Init, Lives, Lifecycle, Gen
<1>7. History /\ ResultOnce
  BY DEF Init, History, ResultOnce
<1> QED
  BY <1>1, <1>3, <1>4, <1>5, <1>6, <1>7 DEF IInv

LEMMA StepInv == IInv /\ [Next]_vars => IInv'
BY TypeInv, ProtocolInv, PlacementInv, HoldingInv, LivesInv, HistoryInv DEF IInv

LEMMA Invariance == Spec => []IInv
BY InitInv, StepInv, PTL DEF Spec

\* Every variable of the scheduler keeps its type; in particular no block is
\* reused past the bound, and a queue names only ids of the arena.
THEOREM TypeCorrect == Spec => []TypeOK
<1>1. IInv => TypeOK
  BY DEF IInv
<1> QED
  BY <1>1, Invariance, PTL

\* A task that can run has exactly one holder and its coroutine in the block, a
\* parked one has none, for any number of workers, threads and tasks: no wake
\* enqueues a task twice and no steal resumes one that another worker runs.
THEOREM ClaimSafe == Spec => []ClaimProtocol
<1>1. IInv => ClaimProtocol
  BY DEF IInv
<1> QED
  BY <1>1, Invariance, PTL

\* A started task is in queues of the worker its word names, only tasks that
\* never ran are where peers steal from, with migration and pinned stealing on.
THEOREM PlacedHome == Spec => []Placement
<1>1. IInv => Placement
  BY DEF IInv
<1> QED
  BY <1>1, Invariance, PTL

\* A free id is dead to wakes and handles, and a live block belongs to the
\* newest handle issued for it.
THEOREM FreeDead == Spec => []FreeIsDead
<1>1. IInv => FreeIsDead
  <2> SUFFICES ASSUME IInv PROVE FreeIsDead
    OBVIOUS
  <2>1. \A b \in free : b \in Id /\ Lifecycle(b)
    BY DEF IInv, TypeOK, Lives
  <2>2. \A b \in free : word[b] = DoneWord /\ ~live[b] /\ awaiters[b] = {}
    BY <2>1 DEF Lifecycle
  <2> QED
    BY <2>2 DEF IInv, FreeIsDead, Lives, Lifecycle, History
<1> QED
  BY <1>1, Invariance, PTL

\* Await hands each result to at most one awaiter, and never the result of
\* another task that used the block.
THEOREM OneResult == Spec => []ResultOnce
<1>1. IInv => ResultOnce
  BY DEF IInv
<1> QED
  BY <1>1, Invariance, PTL

-----------------------------------------------------------------------------
(* Await.                                                                  *)

\* x is inside green_await and asleep, or on its way to sleep.
Suspending(x) == \E w \in Worker : cur[w] = x /\ pc[w] \in {"suspend", "yield"}
Asleep(x) == want[x] # NoHandle /\ (word[x].st = "parked" \/ Suspending(x))

\* The end of its suspension will send x back to a queue.
Flagged(x) == word[x].st = "running" /\ (word[x].wake \/ word[x].preempt)

Covered(x) == Asleep(x) => Listed(x) \/ Flagged(x)
ThreadCovered(o) ==
  opc[o] = "blocked" => want[o] # NoHandle /\ Holds(want[o]) /\ ~done[want[o][1]]

AwaitInv ==
  /\ \A x \in Id : Covered(x)
  /\ \A o \in OsThread : ThreadCovered(o)

-----------------------------------------------------------------------------
(* What leaves an awaiter covered.                                         *)

\* A join half that holds an unfinished task keeps it, with its list.
JoinKept ==
  \A b \in Id : live[b] /\ ~done[b] =>
    /\ live'[b] /\ ~done'[b] /\ gen'[b] = gen[b]
    /\ awaiters[b] \subseteq awaiters'[b]

\* Whoever is still to wake x stays so.
DrainKept(x) ==
  \A w \in Worker : pc[w] = "drain" /\ x \in drain[w] =>
    pc'[w] = "drain" /\ x \in drain'[w]

LEMMA ListedKept ==
  ASSUME TypeOK, NEW x \in Id, want[x] # NoHandle, want'[x] = want[x],
         JoinKept, DrainKept(x), Listed(x)
  PROVE  Listed(x)'
<1>1. CASE Holds(want[x]) /\ ~done[want[x][1]] /\ x \in awaiters[want[x][1]]
  <2>1. want[x][1] \in Id
    <3>1. want[x] \in Handle
      BY DEF TypeOK, Awaiter
    <3> QED
      BY <3>1 DEF Handle
  <2> QED
    BY <1>1, <2>1 DEF JoinKept, Listed, Holds
<1>2. CASE \E w \in Worker : pc[w] = "drain" /\ x \in drain[w]
  BY <1>2 DEF DrainKept, Listed
<1> QED
  BY <1>1, <1>2 DEF Listed

\* A step that puts nobody to sleep.
LEMMA CoveredKept ==
  ASSUME TypeOK, NEW x \in Id, Covered(x), JoinKept, DrainKept(x),
         Asleep(x)' => Asleep(x) /\ want'[x] = want[x],
         Flagged(x) => Flagged(x)' \/ ~Asleep(x)'
  PROVE  Covered(x)'
BY ListedKept DEF Covered, Asleep

LEMMA ThreadKept ==
  ASSUME TypeOK, JoinKept, NEW o \in OsThread, ThreadCovered(o),
         opc'[o] = "blocked" => opc[o] = "blocked" /\ want'[o] = want[o]
  PROVE  ThreadCovered(o)'
<1> SUFFICES ASSUME opc'[o] = "blocked" PROVE ThreadCovered(o)'
  BY DEF ThreadCovered
<1>1. want[o] \in Handle
  BY DEF ThreadCovered, TypeOK, Awaiter
<1>2. want[o][1] \in Id
  BY <1>1 DEF Handle
<1> QED
  BY <1>2 DEF ThreadCovered, JoinKept, Holds

\* Retiring a block whose task is done disturbs no unfinished one.
LEMMA RetireKept ==
  ASSUME TypeOK, NEW b \in Id, done[b], Retire(b), UNCHANGED <<done, awaiters>>
  PROVE  JoinKept
BY DEF JoinKept, Retire, TypeOK
\* A step that leaves the join halves and every await alone.
LEMMA JoinSame ==
  ASSUME UNCHANGED <<gen, live, done, awaiters>>
  PROVE  JoinKept
BY DEF JoinKept

LEMMA ThreadsSame ==
  ASSUME TypeOK, AwaitInv, JoinKept,
         \A o \in OsThread : opc'[o] = "blocked" => opc[o] = "blocked" /\ want'[o] = want[o]
  PROVE  \A o \in OsThread : ThreadCovered(o)'
BY ThreadKept DEF AwaitInv

-----------------------------------------------------------------------------
(* The steps of a worker.                                                  *)

\* A worker whose task is in no await, or that takes a task up or lets go of
\* one that is not to be parked, puts nobody to sleep.
LEMMA TurnCovered ==
  ASSUME TypeOK, ClaimProtocol, AwaitInv, NEW w \in Worker, NEW b \in Id, NEW phase,
         pc' = [pc EXCEPT ![w] = phase], pc[w] # "drain",
         cur'[w] \in {b, NoTask},
         \A v \in Worker \ {w} : cur'[v] = cur[v],
         want[b] = NoHandle \/ phase \notin {"suspend", "yield"},
         \A x \in Id \ {b} : word'[x] = word[x],
         word'[b] = word[b] \/ (cur[w] = b /\ word'[b].st # "parked"),
         UNCHANGED <<gen, live, done, awaiters, drain, opc, want>>
  PROVE  AwaitInv'
<1>1. JoinKept /\ \A x \in Id : DrainKept(x)
  BY JoinSame DEF DrainKept, TypeOK
<1>2. \A o \in OsThread : ThreadCovered(o)'
  BY <1>1, ThreadsSame
<1>3. ASSUME NEW x \in Id PROVE Covered(x)'
  <2>1. Covered(x) /\ Protocol(x)
    BY DEF AwaitInv, ClaimProtocol
  <2>2. CASE x # b
    <3>1. \A v \in Worker : cur'[v] = x /\ pc'[v] \in {"suspend", "yield"} =>
            cur[v] = x /\ pc[v] \in {"suspend", "yield"}
      BY <2>2, GreenTaskAssumption DEF TypeOK
    <3>2. Asleep(x)' => Asleep(x)
      BY <2>2, <3>1 DEF Asleep, Suspending
    <3>3. Flagged(x) => Flagged(x)'
      BY <2>2 DEF Flagged
    <3> QED
      BY <1>1, <2>1, <3>2, <3>3, CoveredKept
  <2>3. CASE x = b
    <3>1. CASE word'[b] = word[b]
      <4>1. Asleep(x)' => Asleep(x)
        <5>1. pc'[w] = phase /\ \A v \in Worker \ {w} : pc'[v] = pc[v]
          BY DEF TypeOK
        <5>2. CASE want[b] = NoHandle
          BY <2>3, <5>2 DEF Asleep
        <5>3. CASE phase \notin {"suspend", "yield"}
          <6>1. Suspending(b)' => Suspending(b)
            BY <5>1, <5>3 DEF Suspending
          <6> QED
            BY <2>3, <3>1, <6>1 DEF Asleep
        <5> QED
          BY <5>2, <5>3
      <4>2. Flagged(x) => Flagged(x)'
        BY <2>3, <3>1 DEF Flagged
      <4> QED
        BY <1>1, <2>1, <4>1, <4>2, CoveredKept
    <3>2. CASE cur[w] = b /\ word'[b].st # "parked"
      <4>1. \A v \in Worker \ {w} : cur'[v] # b
        BY <2>1, <2>3, <3>2 DEF Protocol, OneHolder
      <4>2. pc'[w] = phase
        BY DEF TypeOK
      <4>3. ~Asleep(b)'
        BY <3>2, <4>1, <4>2 DEF Asleep, Suspending
      <4> QED
        BY <2>3, <4>3 DEF Covered
    <3> QED
      BY <3>1, <3>2
  <2> QED
    BY <2>2, <2>3
<1> QED
  BY <1>2, <1>3 DEF AwaitInv

\* A wake of a task parked in green_await takes it off its bed; a wake of one
\* on its way there leaves the flag that turns it round.
LEMMA WakeCovered ==
  ASSUME TypeOK, ClaimProtocol, AwaitInv, NEW a \in Actor, NEW b \in Id, NEW m \in BOOLEAN,
         ClaimParked(a, b, m), JoinKept, \A x \in Id \ {b} : DrainKept(x),
         UNCHANGED <<pc, cur, want, opc>>
  PROVE  AwaitInv'
<1>1. \A o \in OsThread : ThreadCovered(o)'
  BY ThreadsSame
<1>2. ASSUME NEW x \in Id, x # b PROVE Covered(x)'
  <2>1. word'[x] = word[x]
    BY <1>2 DEF ClaimParked, TypeOK
  <2>2. Asleep(x)' => Asleep(x)
    BY <2>1 DEF Asleep, Suspending
  <2>3. Flagged(x) => Flagged(x)'
    BY <2>1 DEF Flagged
  <2> QED
    BY <1>2, <2>2, <2>3, CoveredKept DEF AwaitInv
<1>3. Covered(b)'
  <2>1. word[b] \in Word /\ word[b].owner \in Owner /\ Protocol(b)
    BY DEF TypeOK, Word, Owner, ClaimProtocol
  <2>2. CASE Claimable(word[b])
    <3>1. word[b].st = "parked" /\ ~Pendable(word[b])
      BY <2>2 DEF Claimable, Pendable
    <3>2. ClaimedWord(HomeFor(word[b].owner, a, Migrate /\ m)).st = "ready"
      BY <2>1, HomeForFact, ClaimedWordFact
    <3>3. word'[b].st = "ready"
      BY <2>2, <3>1, <3>2 DEF ClaimParked, TypeOK
    <3>4. ~Suspending(b)
      BY <2>1, <3>1 DEF Protocol, StateOfPhase, Suspending
    <3> QED
      BY <3>3, <3>4 DEF Covered, Asleep, Suspending
  <2>3. CASE Pendable(word[b])
    <3>1. word'[b] = PendedWord(word[b])
      BY <2>3 DEF ClaimParked, TypeOK, Claimable, Pendable
    <3>2. Flagged(b)'
      BY <2>1, <2>3, <3>1 DEF Flagged, PendedWord, Pendable, Word
    <3> QED
      BY <3>2 DEF Covered
  <2>4. CASE ~Claimable(word[b]) /\ ~Pendable(word[b])
    <3>1. word'[b] = word[b] /\ word[b].st \notin {"parked", "running"}
      BY <2>4 DEF ClaimParked, Claimable, Pendable
    <3>2. ~Suspending(b)
      BY <2>1, <3>1 DEF Protocol, StateOfPhase, Suspending
    <3> QED
      BY <3>1, <3>2 DEF Covered, Asleep, Suspending
  <2> QED
    BY <2>2, <2>3, <2>4
<1> QED
  BY <1>1, <1>2, <1>3 DEF AwaitInv

\* A task is parked only when no flag was set, so it was listed.
LEMMA YieldCovered ==
  ASSUME TypeOK, ClaimProtocol, Holding, AwaitInv, NEW w \in Worker, Yield(w)
  PROVE  AwaitInv'
<1>1. JoinKept /\ \A x \in Id : DrainKept(x)
  BY JoinSame DEF DrainKept, TypeOK, Yield, joinVars
<1>2. \A o \in OsThread : ThreadCovered(o)'
  BY <1>1, ThreadsSame DEF Yield
<1>3. PICK b \in Id : b = cur[w]
  BY DEF Yield, Holding, TypeOK
<1>4. /\ \A v \in Worker \ {w} : cur'[v] = cur[v] /\ pc'[v] = pc[v]
      /\ pc'[w] \in {"find", "defer", "repin"}
  <2>1. word[b] \in Word
    BY DEF TypeOK
  <2> QED
    BY <1>3, <2>1, YieldedWordFact DEF Yield, TypeOK
<1>5. word' = [word EXCEPT ![b] = YieldedWord(@)] /\ UNCHANGED want
  BY <1>3 DEF Yield
<1>6. ASSUME NEW x \in Id, x # b PROVE Covered(x)'
  <2>1. word'[x] = word[x]
    BY <1>5, <1>6 DEF TypeOK
  <2>2. Asleep(x)' => Asleep(x)
    BY <1>4, <1>5, <2>1 DEF Asleep, Suspending
  <2>3. Flagged(x) => Flagged(x)'
    BY <2>1 DEF Flagged
  <2> QED
    BY <1>1, <1>5, <1>6, <2>2, <2>3, CoveredKept DEF AwaitInv
<1>7. Covered(b)'
  <2>1. SUFFICES ASSUME Asleep(b)' PROVE Listed(b)'
    BY DEF Covered
  <2>2. ~Suspending(b)'
    <3>1. \A v \in Worker \ {w} : cur[v] # b
      BY <1>3 DEF ClaimProtocol, Protocol, OneHolder
    <3> QED
      BY <1>4, <3>1 DEF Suspending
  <2>3. word[b] \in Word /\ word'[b] = YieldedWord(word[b])
    BY <1>5 DEF TypeOK
  <2>4. Requeue(word[b]) = "none"
    BY <2>1, <2>2, <2>3, YieldedWordFact DEF Asleep
  <2>5. ~Flagged(b)
    BY <2>3, <2>4 DEF Requeue, Flagged, Word
  <2>6. Asleep(b) /\ want[b] # NoHandle
    BY <1>3, <1>5, <2>1 DEF Asleep, Suspending, Yield
  <2> QED
    BY <1>1, <1>5, <2>5, <2>6, ListedKept DEF AwaitInv, Covered
<1> QED
  BY <1>2, <1>6, <1>7 DEF AwaitInv
\* The join section notifies the os threads that wait for the task and hands its
\* list to the drain.
LEMMA FinishCovered ==
  ASSUME TypeOK, Holding, AwaitInv, NEW w \in Worker, FinishJoin(w)
  PROVE  AwaitInv'
<1>1. PICK b \in Id : b = cur[w]
  BY DEF FinishJoin, Holding, TypeOK
<1>2. /\ done' = [done EXCEPT ![b] = TRUE] /\ awaiters' = [awaiters EXCEPT ![b] = {}]
      /\ drain' = [drain EXCEPT ![w] = awaiters[b]] /\ opc' = Notified(b)
      /\ pc[w] = "finish" /\ pc' = [pc EXCEPT ![w] = "drain"]
      /\ UNCHANGED <<word, gen, live, cur, want>>
  BY <1>1 DEF FinishJoin
<1>3. ASSUME NEW o \in OsThread PROVE ThreadCovered(o)'
  <2> SUFFICES ASSUME opc'[o] = "blocked" PROVE ThreadCovered(o)'
    BY DEF ThreadCovered
  <2>1. opc[o] = "blocked" /\ want[o][1] # b
    BY <1>2 DEF Notified
  <2>2. want[o] \in Handle
    BY <2>1 DEF AwaitInv, ThreadCovered, TypeOK, Awaiter
  <2>3. want[o][1] \in Id
    BY <2>2 DEF Handle
  <2> QED
    BY <1>2, <2>1, <2>3 DEF AwaitInv, ThreadCovered, Holds, TypeOK
<1>4. ASSUME NEW x \in Id PROVE Covered(x)'
  <2> SUFFICES ASSUME Asleep(x)' PROVE Covered(x)'
    BY DEF Covered
  <2>1. Asleep(x)
    <3>1. Suspending(x)' => Suspending(x)
      BY <1>2 DEF Suspending, TypeOK
    <3> QED
      BY <1>2, <3>1 DEF Asleep
  <2>2. CASE Flagged(x)
    BY <1>2, <2>2 DEF Flagged, Covered
  <2>3. CASE \E v \in Worker : pc[v] = "drain" /\ x \in drain[v]
    BY <1>2, <2>3 DEF Listed, Covered, TypeOK
  <2>4. CASE Holds(want[x]) /\ ~done[want[x][1]] /\ x \in awaiters[want[x][1]]
    <3>1. want[x][1] \in Id
      <4>1. want[x] \in Handle
        BY <2>1 DEF Asleep, TypeOK, Awaiter
      <4> QED
        BY <4>1 DEF Handle
    <3>2. CASE want[x][1] = b
      BY <1>2, <2>4, <3>2 DEF Listed, Covered, TypeOK
    <3>3. CASE want[x][1] # b
      BY <1>2, <2>4, <3>1, <3>3 DEF Listed, Covered, Holds, TypeOK
    <3> QED
      BY <3>2, <3>3
  <2> QED
    BY <2>1, <2>2, <2>3, <2>4 DEF AwaitInv, Covered, Listed
<1> QED
  BY <1>3, <1>4 DEF AwaitInv

LEMMA WorkerCovered ==
  ASSUME TypeOK, ClaimProtocol, Holding, Lives, AwaitInv, NEW w \in Worker, WorkerNext(w)
  PROVE  AwaitInv'
<1>1. ASSUME NEW b \in Id, NEW q \in Queue, Pop(w, q, b) PROVE AwaitInv'
  BY <1>1, TurnCovered DEF Pop, Take, joinVars, TypeOK
<1>2. ASSUME NEW b \in Id, NEW v \in Worker, StealLocal(w, v, b) \/ StealPinned(w, v, b)
      PROVE  AwaitInv'
  <2>1. Take(w, b, "claim") \/ Take(w, b, "rehome")
    BY <1>2 DEF StealLocal, StealPinned
  <2> QED
    BY <2>1, TurnCovered DEF Take, joinVars, TypeOK
<1>3. ASSUME NEW b \in Id, FinishWake(w, b) PROVE AwaitInv'
  <2>1. JoinKept
    BY <1>3, JoinSame DEF FinishWake, joinVars
  <2>2. \A x \in Id \ {b} : DrainKept(x)
    BY <1>3 DEF FinishWake, DrainKept, TypeOK
  <2> QED
    BY <1>3, <2>1, <2>2, WakeCovered DEF FinishWake, Actor
<1>4. ASSUME Rehome(w) \/ ClaimRun(w) \/ Block(w) \/ MaybeYield(w) \/ Requeued(w) \/ FinishStore(w)
      PROVE  AwaitInv'
  <2>1. PICK b \in Id : b = cur[w]
    BY <1>4 DEF Rehome, ClaimRun, Block, MaybeYield, TaskCode, Requeued, FinishStore, Holding,
                TypeOK
  <2>2. word[b] \in Word /\ Protocol(b)
    BY DEF TypeOK, ClaimProtocol
  <2>3. CASE Rehome(w)
    <3>1. word'[b].st = "ready"
      BY <2>1, <2>2, <2>3 DEF Rehome, Protocol, StateOfPhase, Word, TypeOK
    <3> QED
      BY <2>1, <2>3, <3>1, TurnCovered DEF Rehome, joinVars, TypeOK
  <2>4. CASE ClaimRun(w)
    <3>1. word'[b].st = "running"
      BY <2>1, <2>2, <2>4, RunningWordFact DEF ClaimRun, TypeOK
    <3> QED
      BY <2>1, <2>4, <3>1, TurnCovered DEF ClaimRun, joinVars, TypeOK
  <2>5. CASE Block(w)
    BY <2>1, <2>5, TurnCovered DEF Block, TaskCode, joinVars, TypeOK
  <2>6. CASE MaybeYield(w)
    <3>1. word'[b].st = "running"
      BY <2>1, <2>2, <2>6, FlagFact DEF MaybeYield, TaskCode, Protocol, StateOfPhase, TypeOK
    <3> QED
      BY <2>1, <2>6, <3>1, TurnCovered DEF MaybeYield, TaskCode, joinVars, TypeOK
  <2>7. CASE Requeued(w)
    BY <2>1, <2>7, TurnCovered DEF Requeued, joinVars, TypeOK
  <2>8. CASE FinishStore(w)
    <3>1. word'[b].st = "done"
      BY <2>1, <2>8, FixedWordFact DEF FinishStore, TypeOK
    <3> QED
      BY <2>1, <2>8, <3>1, TurnCovered DEF FinishStore, TaskCode, joinVars, TypeOK
  <2> QED
    BY <1>4, <2>3, <2>4, <2>5, <2>6, <2>7, <2>8
<1>5. ASSUME PutBack(w) PROVE AwaitInv'
  <2>1. JoinKept /\ \A x \in Id : DrainKept(x)
    BY <1>5, JoinSame DEF DrainKept, TypeOK, PutBack, joinVars
  <2>2. \A o \in OsThread : ThreadCovered(o)'
    BY <1>5, <2>1, ThreadsSame DEF PutBack
  <2>3. ASSUME NEW x \in Id PROVE Covered(x)'
    <3>1. Suspending(x)' => Suspending(x)
      BY <1>5 DEF PutBack, Suspending, TypeOK
    <3>2. Asleep(x)' => Asleep(x)
      BY <1>5, <3>1 DEF PutBack, Asleep
    <3>3. Flagged(x) => Flagged(x)'
      BY <1>5 DEF PutBack, Flagged
    <3> QED
      BY <1>5, <2>1, <3>2, <3>3, CoveredKept DEF AwaitInv, PutBack
  <2> QED
    BY <2>2, <2>3 DEF AwaitInv
<1>6. ASSUME Yield(w) PROVE AwaitInv'
  BY <1>6, YieldCovered
<1>7. ASSUME FinishJoin(w) PROVE AwaitInv'
  BY <1>7, FinishCovered
<1>8. ASSUME FinishEnd(w) PROVE AwaitInv'
  <2>1. PICK b \in Id : b = cur[w] /\ done[b]
    BY <1>8 DEF FinishEnd, Holding, Lives, Lifecycle, TypeOK
  <2>2. JoinKept
    <3>1. CASE Retire(b)
      BY <1>8, <2>1, <3>1, RetireKept DEF FinishEnd
    <3>2. CASE UNCHANGED <<live, gen, free>>
      BY <1>8, <3>2, JoinSame DEF FinishEnd
    <3> QED
      BY <1>8, <2>1, <3>1, <3>2 DEF FinishEnd
  <2>3. \A x \in Id : DrainKept(x)
    BY <1>8 DEF FinishEnd, DrainKept, TypeOK
  <2>4. \A o \in OsThread : ThreadCovered(o)'
    BY <1>8, <2>2, ThreadsSame DEF FinishEnd
  <2>5. ASSUME NEW x \in Id PROVE Covered(x)'
    <3>1. Suspending(x)' => Suspending(x)
      BY <1>8 DEF FinishEnd, Suspending, TypeOK
    <3>2. Asleep(x)' => Asleep(x)
      BY <1>8, <3>1 DEF FinishEnd, Asleep
    <3>3. Flagged(x) => Flagged(x)'
      BY <1>8 DEF FinishEnd, Flagged
    <3> QED
      BY <1>8, <2>2, <2>3, <3>2, <3>3, CoveredKept DEF AwaitInv, FinishEnd
  <2> QED
    BY <2>4, <2>5 DEF AwaitInv
<1> QED
  BY <1>1, <1>2, <1>3, <1>4, <1>5, <1>6, <1>7, <1>8 DEF WorkerNext
-----------------------------------------------------------------------------
(* The steps of Pith code.                                                 *)

\* Whoever runs code is awake.
LEMMA RunsAwake ==
  ASSUME TypeOK, ClaimProtocol, NEW a \in Actor,
         \/ a \in Worker /\ pc[a] = "body" /\ cur[a] \in Id
         \/ a \in OsThread /\ opc[a] = "run"
  PROVE  /\ Self(a) \in Id => word[Self(a)].st = "running" /\ ~Suspending(Self(a))
         /\ Self(a) \in OsThread => opc[Self(a)] = "run"
<1>1. CASE a \in Worker
  <2>1. Self(a) = cur[a] /\ Self(a) \in Id /\ Self(a) \notin OsThread
    BY <1>1, GreenTaskAssumption DEF Self
  <2>2. Protocol(cur[a]) /\ word[cur[a]].st = "running"
    BY <1>1, <2>1, GreenTaskAssumption DEF ClaimProtocol, Protocol, StateOfPhase
  <2>3. \A w \in Worker : cur[w] = cur[a] => w = a
    BY <1>1, <2>2 DEF Protocol, OneHolder
  <2> QED
    BY <1>1, <2>1, <2>2, <2>3, GreenTaskAssumption DEF Suspending
<1>2. CASE a \notin Worker
  BY <1>2, GreenTaskAssumption DEF Self
<1> QED
  BY <1>1, <1>2

\* An await that begins or ends moves the handle of an actor that is awake.
LEMMA WantCovered ==
  ASSUME TypeOK, ClaimProtocol, AwaitInv, NEW a \in Actor, NEW h,
         \/ a \in Worker /\ pc[a] = "body" /\ cur[a] \in Id
         \/ a \in OsThread /\ opc[a] = "run",
         want' = [want EXCEPT ![Self(a)] = h], JoinKept,
         UNCHANGED <<word, pc, cur, drain, opc>>
  PROVE  AwaitInv'
<1>1. \A y \in Awaiter : y # Self(a) => want'[y] = want[y]
  BY DEF TypeOK
<1>2. \A o \in OsThread : opc'[o] = "blocked" => opc[o] = "blocked" /\ want'[o] = want[o]
  BY <1>1, RunsAwake DEF Awaiter
<1>3. \A o \in OsThread : ThreadCovered(o)'
  BY <1>2, ThreadsSame
<1>4. ASSUME NEW x \in Id PROVE Covered(x)'
  <2>1. Suspending(x)' <=> Suspending(x)
    BY DEF Suspending
  <2>2. CASE x = Self(a)
    <3>1. word[x].st = "running" /\ ~Suspending(x)
      BY <2>2, RunsAwake
    <3> QED
      BY <2>1, <3>1 DEF Covered, Asleep
  <2>3. CASE x # Self(a)
    <3>1. want'[x] = want[x]
      BY <1>1, <2>3 DEF Awaiter
    <3>2. DrainKept(x) /\ (Asleep(x)' => Asleep(x)) /\ (Flagged(x) => Flagged(x)')
      BY <2>1, <3>1 DEF DrainKept, Asleep, Flagged
    <3> QED
      BY <3>1, <3>2, CoveredKept DEF AwaitInv
  <2> QED
    BY <2>2, <2>3
<1> QED
  BY <1>3, <1>4 DEF AwaitInv

\* A step that moves no word, no worker and no await.
LEMMA StillCovered ==
  ASSUME TypeOK, AwaitInv, JoinKept, UNCHANGED <<word, pc, cur, drain, want, opc>>
  PROVE  AwaitInv'
<1>1. \A o \in OsThread : ThreadCovered(o)'
  BY ThreadsSame
<1>2. ASSUME NEW x \in Id PROVE Covered(x)'
  <2>1. DrainKept(x) /\ (Asleep(x)' => Asleep(x)) /\ (Flagged(x) => Flagged(x)')
    BY DEF DrainKept, Asleep, Flagged, Suspending
  <2> QED
    BY <2>1, CoveredKept DEF AwaitInv
<1> QED
  BY <1>1, <1>2 DEF AwaitInv

\* A green awaiter is on the list before it suspends, in the section that saw
\* the task unfinished; an os thread goes to sleep in that section.
LEMMA BlockCovered ==
  ASSUME TypeOK, ClaimProtocol, Holding, AwaitInv, NEW a \in Actor, AwaitBlock(a)
  PROVE  AwaitInv'
<1>1. /\ want[Self(a)] # NoHandle /\ Holds(want[Self(a)]) /\ ~done[want[Self(a)][1]]
      /\ UNCHANGED <<word, gen, live, done, cur, drain, want>>
  BY DEF AwaitBlock, Awaiting
<1>2. CASE a \in OsThread /\ opc' = [opc EXCEPT ![a] = "blocked"] /\ UNCHANGED <<awaiters, pc>>
  <2>1. JoinKept
    BY <1>1, <1>2, JoinSame
  <2>2. ASSUME NEW o \in OsThread PROVE ThreadCovered(o)'
    <3>1. CASE o = a
      <4>1. Self(a) = a
        BY <1>2, GreenTaskAssumption DEF Self
      <4> QED
        BY <1>1, <3>1, <4>1 DEF ThreadCovered, Holds
    <3>2. CASE o # a
      BY <1>1, <1>2, <2>1, <3>2, ThreadKept DEF AwaitInv, TypeOK
    <3> QED
      BY <3>1, <3>2
  <2>3. ASSUME NEW x \in Id PROVE Covered(x)'
    <3>1. DrainKept(x) /\ (Asleep(x)' => Asleep(x)) /\ (Flagged(x) => Flagged(x)')
      BY <1>1, <1>2 DEF DrainKept, Asleep, Flagged, Suspending
    <3> QED
      BY <1>1, <2>1, <3>1, CoveredKept DEF AwaitInv
  <2> QED
    BY <2>2, <2>3 DEF AwaitInv
<1>3. CASE /\ a \in Worker
           /\ awaiters' = [awaiters EXCEPT ![want[Self(a)][1]] = @ \cup {cur[a]}]
           /\ pc' = [pc EXCEPT ![a] = "suspend"] /\ UNCHANGED opc
  <2>1. pc[a] = "body" /\ Self(a) = cur[a] /\ cur[a] \in Id
    BY <1>3, GreenTaskAssumption DEF AwaitBlock, Awaiting, Self, Holding, TypeOK
  <2>2. want[cur[a]] \in Handle /\ want[cur[a]][1] \in Id
    <3>1. want[cur[a]] \in Handle
      BY <1>1, <2>1 DEF TypeOK, Awaiter
    <3> QED
      BY <3>1 DEF Handle
  <2>3. JoinKept
    BY <1>1, <1>3, <2>1, <2>2 DEF JoinKept, TypeOK
  <2>4. \A o \in OsThread : ThreadCovered(o)'
    BY <1>1, <1>3, <2>3, ThreadsSame
  <2>5. ASSUME NEW x \in Id PROVE Covered(x)'
    <3>1. CASE x = cur[a]
      BY <1>1, <1>3, <2>1, <2>2, <3>1 DEF Covered, Listed, Holds, TypeOK
    <3>2. CASE x # cur[a]
      <4>1. DrainKept(x) /\ (Suspending(x)' => Suspending(x))
        BY <1>1, <1>3, <2>1, <3>2 DEF DrainKept, Suspending, TypeOK
      <4>2. (Asleep(x)' => Asleep(x)) /\ (Flagged(x) => Flagged(x)')
        BY <1>1, <4>1 DEF Asleep, Flagged
      <4> QED
        BY <1>1, <2>3, <4>1, <4>2, CoveredKept DEF AwaitInv
    <3> QED
      BY <3>1, <3>2
  <2> QED
    BY <2>4, <2>5 DEF AwaitInv
<1> QED
  BY <1>2, <1>3 DEF AwaitBlock

\* A free block holds no unfinished task, and nobody has its last one in hand.
LEMMA SpawnCovered ==
  ASSUME TypeOK, ClaimProtocol, Lives, AwaitInv, NEW a \in Actor, NEW b \in Id, Spawn(a, b)
  PROVE  AwaitInv'
<1>1. /\ live' = [live EXCEPT ![b] = TRUE] /\ done' = [done EXCEPT ![b] = FALSE]
      /\ word' = [word EXCEPT ![b] = FreshWord]
      /\ UNCHANGED <<gen, awaiters, pc, cur, drain, opc, want>>
  BY DEF Spawn
<1>2. ~live[b] /\ word[b].st = "done"
  BY DEF Spawn, Lives, Lifecycle
<1>3. JoinKept
  BY <1>1, <1>2 DEF JoinKept, TypeOK
<1>4. \A o \in OsThread : ThreadCovered(o)'
  BY <1>1, <1>3, ThreadsSame
<1>5. ASSUME NEW x \in Id PROVE Covered(x)'
  <2>1. CASE x = b
    <3>1. ~Suspending(b)
      BY <1>2 DEF ClaimProtocol, Protocol, StateOfPhase, Suspending
    <3>2. word'[b].st = "ready"
      BY <1>1, FixedWordFact DEF TypeOK
    <3> QED
      BY <1>1, <2>1, <3>1, <3>2 DEF Covered, Asleep, Suspending
  <2>2. CASE x # b
    <3>1. word'[x] = word[x]
      BY <1>1, <2>2 DEF TypeOK
    <3>2. DrainKept(x) /\ (Asleep(x)' => Asleep(x)) /\ (Flagged(x) => Flagged(x)')
      BY <1>1, <3>1 DEF DrainKept, Asleep, Flagged, Suspending
    <3> QED
      BY <1>1, <1>3, <3>2, CoveredKept DEF AwaitInv
  <2> QED
    BY <2>1, <2>2
<1> QED
  BY <1>4, <1>5 DEF AwaitInv

LEMMA ActorCovered ==
  ASSUME TypeOK, ClaimProtocol, Holding, Lives, AwaitInv, NEW a \in Actor, ActorNext(a)
  PROVE  AwaitInv'
<1>1. ASSUME NEW b \in Id, NEW m \in BOOLEAN, Wake(a, b, m) PROVE AwaitInv'
  <2>1. JoinKept /\ \A x \in Id : DrainKept(x)
    BY <1>1, JoinSame DEF Wake, joinVars, DrainKept
  <2> QED
    BY <1>1, <2>1, WakeCovered DEF Wake
<1>2. ASSUME InCode(a) \/ Awaiting(a)
      PROVE  \/ a \in Worker /\ pc[a] = "body" /\ cur[a] \in Id
             \/ a \in OsThread /\ opc[a] = "run"
  BY <1>2 DEF InCode, TaskCode, OsCode, Awaiting, Holding, TypeOK
<1>3. ASSUME NEW h \in Handle, AwaitStart(a, h) PROVE AwaitInv'
  <2>1. JoinKept
    BY <1>3, JoinSame DEF AwaitStart, joinVars
  <2> QED
    BY <1>2, <1>3, <2>1, WantCovered DEF AwaitStart
<1>4. ASSUME AwaitStale(a) PROVE AwaitInv'
  <2>1. JoinKept
    BY <1>4, JoinSame DEF AwaitStale, joinVars
  <2> QED
    BY <1>2, <1>4, <2>1, WantCovered DEF AwaitStale
<1>5. ASSUME AwaitTake(a) PROVE AwaitInv'
  <2>1. Self(a) \in Awaiter
    BY <1>5, GreenTaskAssumption DEF AwaitTake, Awaiting, Self, Awaiter, Holding, Actor, TypeOK
  <2>2. want[Self(a)][1] \in Id
    BY <1>5, <2>1 DEF AwaitTake, Awaiting, TypeOK, Handle
  <2>3. JoinKept
    BY <1>5, <2>2, RetireKept DEF AwaitTake
  <2> QED
    BY <1>2, <1>5, <2>3, WantCovered DEF AwaitTake
<1>6. ASSUME NEW h \in Handle, Detach(a, h) PROVE AwaitInv'
  <2>1. h[1] \in Id
    BY DEF Handle
  <2>2. JoinKept
    BY <1>6, <2>1, RetireKept, JoinSame DEF Detach
  <2> QED
    BY <1>6, <2>2, StillCovered DEF Detach
<1>7. ASSUME Enqueue(a) PROVE AwaitInv'
  BY <1>7, JoinSame, StillCovered DEF Enqueue, joinVars
<1> QED
  BY <1>1, <1>3, <1>4, <1>5, <1>6, <1>7, SpawnCovered, BlockCovered DEF ActorNext

-----------------------------------------------------------------------------
LEMMA InitAwait == Init => AwaitInv
BY DEF Init, AwaitInv, Covered, ThreadCovered, Asleep, Awaiter

LEMMA StepAwait == IInv /\ AwaitInv /\ [Next]_vars => AwaitInv'
<1> SUFFICES ASSUME IInv, AwaitInv, [Next]_vars PROVE AwaitInv'
  OBVIOUS
<1>1. TypeOK /\ ClaimProtocol /\ Holding /\ Lives
  BY DEF IInv
<1>2. ASSUME NEW o \in OsThread, OsUnblock(o) PROVE AwaitInv'
  <2>1. JoinKept /\ \A x \in Id : DrainKept(x)
    BY <1>2, JoinSame DEF OsUnblock, joinVars, DrainKept
  <2>2. \A p \in OsThread : ThreadCovered(p)'
    BY <1>1, <1>2, <2>1, ThreadsSame DEF OsUnblock, TypeOK
  <2>3. ASSUME NEW x \in Id PROVE Covered(x)'
    <3>1. (Asleep(x)' => Asleep(x)) /\ (Flagged(x) => Flagged(x)') /\ want'[x] = want[x]
      BY <1>2 DEF OsUnblock, Asleep, Flagged, Suspending
    <3> QED
      BY <1>1, <2>1, <3>1, CoveredKept DEF AwaitInv
  <2> QED
    BY <2>2, <2>3 DEF AwaitInv
<1>3. ASSUME UNCHANGED vars PROVE AwaitInv'
  BY <1>1, <1>3, JoinSame, StillCovered DEF vars, joinVars
<1> QED
  BY <1>1, <1>2, <1>3, ActorCovered, WorkerCovered DEF Next

\* No lost wake in await, for any number of workers, threads and tasks: a task
\* parked in green_await is listed with its target, and an os thread asleep on
\* `joined` has a target that is not done yet.
THEOREM NoLostAwait == Spec => []AwaiterListed
<1>1. IInv /\ AwaitInv => AwaiterListed
  <2> SUFFICES ASSUME IInv, AwaitInv PROVE AwaiterListed
    OBVIOUS
  <2>1. ASSUME NEW x \in Id, want[x] # NoHandle, word[x].st = "parked" PROVE Listed(x)
    BY <2>1 DEF AwaitInv, Covered, Asleep, Flagged
  <2> QED
    BY <2>1 DEF AwaiterListed, AwaitInv, ThreadCovered
<1>2. Spec => []AwaitInv
  BY InitAwait, StepAwait, Invariance, PTL DEF Spec
<1> QED
  BY <1>1, <1>2, Invariance, PTL

-----------------------------------------------------------------------------
(* The promise of a handle.                                                *)

\* The status of one handle.
StatusOf(h) == IF h \notin issued THEN "unborn"
               ELSE IF ~Holds(h) THEN "gone"
               ELSE IF done[h[1]] THEN "done" ELSE "pending"

LEMMA StatusBar ==
  /\ statusBar = [h \in Handle |-> StatusOf(h)]
  /\ statusBar' = [h \in Handle |-> StatusOf(h)']
BY DEF statusBar, StatusOf, Holds

\* A step that leaves the fields of the join half the status reads alone
\* changes no status.
LEMMA StatusFrame ==
  ASSUME UNCHANGED <<gen, live, done, issued>>
  PROVE  UNCHANGED statusBar
BY DEF statusBar, Holds

\* A step that moves one handle's status and no other's.
LEMMA StatusMove ==
  ASSUME NEW h \in Handle, NEW s,
         StatusOf(h)' = s,
         \A k \in Handle \ {h} : StatusOf(k)' = StatusOf(k)
  PROVE  statusBar' = [statusBar EXCEPT ![h] = s]
<1>1. \A k \in Handle : StatusOf(k)' = IF k = h THEN s ELSE StatusOf(k)
  OBVIOUS
<1>2. [k \in Handle |-> StatusOf(k)'] = [statusBar EXCEPT ![h] = s]
  BY <1>1, StatusBar
<1> QED
  BY <1>2, StatusBar

\* Retiring a block ends the one handle that resolves to it.
LEMMA StatusRetire ==
  ASSUME TypeOK, NEW b \in Id, live[b], gen[b] \in Gen, <<b, gen[b]>> \in issued,
         Retire(b), UNCHANGED <<done, issued>>
  PROVE  statusBar' = [statusBar EXCEPT ![<<b, gen[b]>>] = "gone"]
<1>1. PICK h \in Handle : h = <<b, gen[b]>>
  BY DEF Handle
<1>2. live' = [live EXCEPT ![b] = FALSE] /\ gen' = [gen EXCEPT ![b] = @ + 1]
  BY DEF Retire
<1>3. StatusOf(h)' = "gone"
  BY <1>1, <1>2 DEF StatusOf, Holds, TypeOK
<1>4. ASSUME NEW k \in Handle \ {h} PROVE StatusOf(k)' = StatusOf(k)
  <2>1. k[1] \in Id /\ (k[1] = b => k[2] # gen[b])
    BY <1>1, <1>4 DEF Handle
  <2>2. CASE k[1] = b
    BY <1>2, <2>1, <2>2 DEF StatusOf, Holds, TypeOK
  <2>3. CASE k[1] # b
    BY <1>2, <2>1, <2>3 DEF StatusOf, Holds, TypeOK
  <2> QED
    BY <2>2, <2>3
<1>5. statusBar' = [statusBar EXCEPT ![h] = "gone"]
  BY <1>3, <1>4, StatusMove
<1> QED
  BY <1>1, <1>5

\* The status of a handle in issued that resolves.
LEMMA StatusLive ==
  ASSUME NEW h \in Handle, h \in issued, Holds(h)
  PROVE  statusBar[h] = IF done[h[1]] THEN "done" ELSE "pending"
BY DEF statusBar

LEMMA StatusIssued ==
  ASSUME NEW h \in Handle
  PROVE  /\ statusBar[h] = "unborn" <=> h \notin issued
         /\ h \in issued /\ ~Holds(h) => statusBar[h] = "gone"
BY DEF statusBar

LEMMA InitFuture == Init => Future!Init
BY DEF Init, Future!Init, statusBar

-----------------------------------------------------------------------------
\* What the invariant says of a live block.
LEMMA LiveHandle ==
  ASSUME IInv, NEW b \in Id, live[b]
  PROVE  /\ gen[b] \in Gen /\ <<b, gen[b]>> \in Handle /\ <<b, gen[b]>> \in issued
         /\ Holds(<<b, gen[b]>>)
BY DEF IInv, Lives, Lifecycle, History, Handle, Holds

\* spawn gives the block a handle that was never issued.
LEMMA SpawnFuture ==
  ASSUME IInv, NEW a \in Actor, NEW b \in Id, Spawn(a, b)
  PROVE  Future!Next
<1> USE DEF IInv
<1>1. PICK h \in Handle : h = <<b, gen[b]>> /\ ~live[b] /\ h \notin issued
  <2>1. <<b, gen[b]>> \in Handle /\ ~live[b]
    BY DEF Spawn, Handle, Lives, Lifecycle
  <2>2. <<b, gen[b]>> \notin issued
    BY <2>1 DEF History
  <2> QED
    BY <2>1, <2>2
<1>2. /\ live' = [live EXCEPT ![b] = TRUE] /\ done' = [done EXCEPT ![b] = FALSE]
      /\ issued' = issued \cup {h} /\ UNCHANGED <<gen, want, takes>>
  BY <1>1 DEF Spawn
<1>3. StatusOf(h)' = "pending"
  BY <1>1, <1>2 DEF StatusOf, Holds, TypeOK
<1>4. ASSUME NEW k \in Handle \ {h} PROVE StatusOf(k)' = StatusOf(k)
  <2>1. k[1] \in Id /\ (k[1] = b => k[2] # gen[b])
    BY <1>1, <1>4 DEF Handle
  <2>2. CASE k[1] = b
    BY <1>1, <1>2, <2>1, <2>2 DEF StatusOf, Holds, TypeOK
  <2>3. CASE k[1] # b
    BY <1>1, <1>2, <2>1, <2>3 DEF StatusOf, Holds, TypeOK
  <2> QED
    BY <2>2, <2>3
<1>5. statusBar' = [statusBar EXCEPT ![h] = "pending"]
  BY <1>3, <1>4, StatusMove
<1>6. Future!Spawn(h)
  BY <1>1, <1>2, <1>5, StatusIssued DEF Future!Spawn
<1> QED
  BY <1>1, <1>6 DEF Future!Next

\* The join section of finish_task completes the handle that holds the block.
LEMMA FinishFuture ==
  ASSUME IInv, NEW w \in Worker, FinishJoin(w)
  PROVE  Future!Next
<1>1. PICK b \in Id : b = cur[w] /\ live[b] /\ ~done[b]
  BY DEF IInv, FinishJoin, Holding, Lives, Lifecycle, TypeOK
<1>2. done' = [done EXCEPT ![b] = TRUE] /\ UNCHANGED <<gen, live, issued, want, takes>>
  BY <1>1 DEF FinishJoin
<1>3. PICK h \in Handle : h = <<b, gen[b]>> /\ h \in issued /\ Holds(h)
  BY <1>1, LiveHandle
<1>4. StatusOf(h)' = "done"
  BY <1>1, <1>2, <1>3 DEF StatusOf, Holds, TypeOK, IInv
<1>5. ASSUME NEW k \in Handle \ {h} PROVE StatusOf(k)' = StatusOf(k)
  <2>1. k[1] \in Id /\ (k[1] = b => k[2] # gen[b])
    BY <1>3, <1>5 DEF Handle
  <2>2. CASE k[1] = b
    BY <1>1, <1>2, <2>1, <2>2 DEF StatusOf, Holds
  <2>3. CASE k[1] # b
    BY <1>1, <1>2, <2>1, <2>3 DEF StatusOf, Holds, TypeOK, IInv
  <2> QED
    BY <2>2, <2>3
<1>6. statusBar[h] = "pending"
  BY <1>1, <1>3, StatusLive
<1>7. statusBar' = [statusBar EXCEPT ![h] = "done"]
  BY <1>4, <1>5, StatusMove
<1>8. Future!Complete(h)
  BY <1>2, <1>6, <1>7 DEF Future!Complete
<1> QED
  BY <1>3, <1>8 DEF Future!Next

\* A detach of a done task, or the end of a detached one, releases its handle.
LEMMA ReleaseFuture ==
  ASSUME IInv, NEW b \in Id, live[b], done[b], Retire(b),
         UNCHANGED <<done, issued, want, takes>>
  PROVE  Future!Next
<1>1. PICK h \in Handle : h = <<b, gen[b]>> /\ gen[b] \in Gen /\ h \in issued /\ Holds(h)
  BY LiveHandle
<1>2. statusBar' = [statusBar EXCEPT ![h] = "gone"]
  BY <1>1, StatusRetire DEF IInv
<1>3. statusBar[h] = "done"
  BY <1>1, StatusLive
<1>4. Future!Release(h)
  BY <1>2, <1>3 DEF Future!Release
<1> QED
  BY <1>1, <1>4 DEF Future!Next

\* The await that finds the task done consumes the handle it was given.
LEMMA AnswerFuture ==
  ASSUME IInv, NEW a \in Actor, AwaitTake(a)
  PROVE  Future!Next
<1> DEFINE x == Self(a)
           h == want[x]
           b == h[1]
<1>1. x \in Awaiter
  BY GreenTaskAssumption
     DEF AwaitTake, Awaiting, Self, Awaiter, Holding, Actor, TypeOK, IInv
<1>2. h \in Handle /\ b \in Id /\ h = <<b, h[2]>> /\ h # NoHandle
  BY <1>1 DEF AwaitTake, Awaiting, TypeOK, Handle, IInv
<1>3. /\ live[b] /\ gen[b] = h[2] /\ done[b] /\ Retire(b) /\ UNCHANGED <<done, result, issued>>
      /\ want' = [want EXCEPT ![x] = NoHandle]
      /\ takes' = [k \in Handle |-> IF k = result[b] THEN takes[k] + 1 ELSE takes[k]]
  BY DEF AwaitTake, Holds
<1>4. result[b] \in {h, Zero}
  BY <1>2, <1>3 DEF IInv, ResultOnce
<1> HIDE DEF x, b
<1>5. h = <<b, gen[b]>> /\ gen[b] \in Gen /\ h \in issued /\ Holds(h)
  BY <1>2, <1>3, LiveHandle
<1> HIDE DEF h
<1>6. statusBar' = [statusBar EXCEPT ![h] = "gone"]
  BY <1>2, <1>3, <1>5, StatusRetire DEF IInv
<1>7. statusBar[h] = "done"
  BY <1>2, <1>3, <1>5, StatusLive
<1>8. takes' = [takes EXCEPT ![h] = @ + 1] \/ takes' = takes
  <2>1. takes \in [Handle -> Nat]
    BY DEF IInv, TypeOK
  <2>2. CASE result[b] = h
    BY <1>3, <2>1, <2>2
  <2>3. CASE result[b] = Zero
    BY <1>3, <2>1, <2>3, GreenTaskAssumption
  <2> QED
    BY <1>4, <2>2, <2>3
<1>9. Future!Answer(x)
  BY <1>2, <1>3, <1>6, <1>7, <1>8 DEF Future!Answer, h
<1> QED
  BY <1>1, <1>9 DEF Future!Next

-----------------------------------------------------------------------------
LEMMA ActorFuture ==
  ASSUME IInv, NEW a \in Actor, ActorNext(a)
  PROVE  [Future!Next]_(Future!vars)
<1>1. ASSUME NEW b \in Id, Spawn(a, b) PROVE Future!Next
  BY <1>1, SpawnFuture
<1>2. ASSUME NEW h \in Handle, AwaitStart(a, h) PROVE Future!Next
  <2>1. Self(a) \in Awaiter /\ want[Self(a)] = NoHandle
    BY <1>2, GreenTaskAssumption
       DEF AwaitStart, InCode, TaskCode, OsCode, Self, Awaiter, Holding, Actor, TypeOK, IInv
  <2>2. UNCHANGED statusBar
    BY <1>2, StatusFrame DEF AwaitStart, joinVars
  <2>3. Future!Await(Self(a), h)
    BY <1>2, <2>1, <2>2, StatusIssued DEF AwaitStart, Future!Await
  <2> QED
    BY <2>1, <2>3 DEF Future!Next
<1>3. ASSUME NEW h \in Handle, Detach(a, h) PROVE [Future!Next]_(Future!vars)
  <2>1. CASE done[h[1]] /\ Retire(h[1])
    <3>1. h[1] \in Id /\ live[h[1]] /\ UNCHANGED <<done, issued, want, takes>>
      BY <1>3 DEF Detach, Holds, Handle
    <3> QED
      BY <2>1, <3>1, ReleaseFuture
  <2>2. CASE UNCHANGED <<live, gen, free>>
    BY <1>3, <2>2, StatusFrame DEF Detach, Future!vars
  <2> QED
    BY <1>3, <2>1, <2>2 DEF Detach
<1>4. ASSUME AwaitStale(a) PROVE Future!Next
  <2>1. Self(a) \in Awaiter
    BY <1>4, GreenTaskAssumption
       DEF AwaitStale, Awaiting, Self, Awaiter, Holding, Actor, TypeOK, IInv
  <2>2. want[Self(a)] # NoHandle /\ want[Self(a)] \in Handle /\ want[Self(a)] \in issued
    BY <1>4, <2>1 DEF AwaitStale, Awaiting, History, TypeOK, IInv
  <2>3. statusBar[want[Self(a)]] = "gone"
    BY <1>4, <2>2, StatusIssued DEF AwaitStale
  <2>4. UNCHANGED statusBar
    BY <1>4, StatusFrame DEF AwaitStale, joinVars
  <2>5. Future!AnswerZero(Self(a))
    BY <1>4, <2>2, <2>3, <2>4 DEF AwaitStale, Future!AnswerZero
  <2> QED
    BY <2>1, <2>5 DEF Future!Next
<1>5. ASSUME AwaitTake(a) PROVE Future!Next
  BY <1>5, AnswerFuture
<1>6. ASSUME \/ \E b \in Id, m \in BOOLEAN : Wake(a, b, m)
             \/ Enqueue(a) \/ AwaitBlock(a)
      PROVE  UNCHANGED Future!vars
  BY <1>6, StatusFrame DEF Wake, Enqueue, AwaitBlock, joinVars, Future!vars
<1> QED
  BY <1>1, <1>2, <1>3, <1>4, <1>5, <1>6 DEF ActorNext

LEMMA WorkerFuture ==
  ASSUME IInv, NEW w \in Worker, WorkerNext(w)
  PROVE  [Future!Next]_(Future!vars)
<1>1. ASSUME FinishJoin(w) PROVE Future!Next
  BY <1>1, FinishFuture
<1>2. ASSUME FinishEnd(w) PROVE [Future!Next]_(Future!vars)
  <2>1. cur[w] \in Id /\ live[cur[w]] /\ done[cur[w]]
    BY <1>2 DEF FinishEnd, Holding, Lives, Lifecycle, TypeOK, IInv
  <2>2. CASE Retire(cur[w])
    BY <1>2, <2>1, <2>2, ReleaseFuture DEF FinishEnd
  <2>3. CASE UNCHANGED <<live, gen, free>>
    BY <1>2, <2>3, StatusFrame DEF FinishEnd, Future!vars
  <2> QED
    BY <1>2, <2>2, <2>3 DEF FinishEnd
<1>3. ASSUME ~FinishJoin(w), ~FinishEnd(w) PROVE UNCHANGED Future!vars
  <2>1. UNCHANGED <<gen, live, done, issued, want, takes>>
    BY <1>3
       DEF WorkerNext, Pop, StealLocal, StealPinned, Take, FinishWake, Rehome, ClaimRun,
           Block, MaybeYield, PutBack, Yield, Requeued, FinishStore, joinVars
  <2> QED
    BY <2>1, StatusFrame DEF Future!vars
<1> QED
  BY <1>1, <1>2, <1>3

LEMMA StepFuture == IInv /\ [Next]_vars => [Future!Next]_(Future!vars)
<1> SUFFICES ASSUME IInv, [Next]_vars PROVE [Future!Next]_(Future!vars)
  OBVIOUS
<1>1. ASSUME NEW o \in OsThread, OsUnblock(o) PROVE UNCHANGED Future!vars
  BY <1>1, StatusFrame DEF OsUnblock, joinVars, Future!vars
<1>2. ASSUME UNCHANGED vars PROVE UNCHANGED Future!vars
  BY <1>2, StatusFrame DEF vars, joinVars, Future!vars
<1> QED
  BY <1>1, <1>2, ActorFuture, WorkerFuture DEF Next

\* The scheduler keeps the promise of a handle for any number of workers, os
\* threads, tasks and awaiters: no await is answered before its task is done,
\* one awaiter at most has the result, and no handle is completed, consumed or
\* issued twice, whatever the reuse of the blocks.
THEOREM Implements == Spec => FutureSpec
BY InitFuture, StepFuture, Invariance, PTL DEF Spec, FutureSpec, Future!Spec

-----------------------------------------------------------------------------
(***************************************************************************)
(* The worker pool (WorkerPool, the part "pool" of SchedulerSpec).         *)
(* P!SearchersCounted is inductive once the waker's marks are known to     *)
(* name workers; P!OwnWorkSeen once it is known where a worker is when its *)
(* flags say that it searches or is parked.  P!FreshWorkSeen is not:       *)
(* between a fresh task's arrival and the notify, Main alone may know of   *)
(* it, and it must not have passed anyone over.  PoolFresh says so.  The   *)
(* bounds on the queues follow from the load of the pool: no step has more *)
(* tasks in queues and in workers' hands after it than before.             *)
(***************************************************************************)

\* The types of the pool's variables, without their bounds.
PoolTypes ==
  /\ injector \in Nat /\ unborn \in Nat /\ asleep \in Nat
  /\ local \in [Worker -> Nat] /\ pinned \in [Worker -> Nat]
  /\ deferred \in [Worker -> Nat] /\ batch \in [Worker -> Nat]
  /\ parked \in [Worker -> BOOLEAN] /\ token \in [Worker -> BOOLEAN]
  /\ notified \in [Worker -> BOOLEAN] /\ searcher \in [Worker -> BOOLEAN]
  /\ pPc \in [Worker -> P!Where]
  /\ act \in [P!Actor -> P!Act]

\* Where a worker is, from what its flags and its locals say, and whose task a
\* thief's batch and a waker's mark are.
PoolPlaces ==
  /\ \A w \in Worker : pPc[w] \in {"found", "spin"} => searcher[w]
  /\ \A w \in Worker :
       pPc[w] \in {"last_one", "run", "last_look", "park", "recheck", "wait",
            "unpark"} => ~searcher[w]
  /\ \A w \in Worker : parked[w] <=> pPc[w] \in {"recheck", "wait", "unpark"}
  /\ \A w \in Worker : pPc[w] = "wait" => act[w] = P!Nothing
  /\ \A a \in P!Actor : act[a].op \in {"mark", "nudge"} => act[a].at \in Worker
  /\ \A w \in Worker : batch[w] > 0 => pPc[w] = "extend"

\* When all sleep beside a fresh task, and no search slot was left behind, Main
\* is about to wake someone and has passed nobody over.
PoolFresh ==
  P!AnyStealable /\ (\A w \in Worker : P!Sleeps(w) /\ ~token[w]) =>
    \/ act[Main].op \in {"search", "mark", "nudge"}
    \/ act[Main].op = "scan" /\ act[Main].todo = Worker

\* No act is an act.
LEMMA NothingFact == P!Nothing \in P!Act /\ P!Nothing.op = "none"
BY DEF P!Act, P!Doing, P!Nothing, P!Op

\* An act is made of its parts.
LEMMA DoingFact ==
  ASSUME NEW op \in P!Op, NEW i \in Worker \cup {NoWorker}, NEW todo \in SUBSET Worker
  PROVE  /\ P!Doing(op, i, todo) \in P!Act /\ P!Nothing \in P!Act
         /\ P!Doing(op, i, todo).op = op /\ P!Doing(op, i, todo).at = i
         /\ P!Doing(op, i, todo).todo = todo
         /\ P!Nothing.op = "none"
         /\ op # "none" => P!Doing(op, i, todo) # P!Nothing
BY DEF P!Act, P!Doing, P!Nothing, P!Op

\* The workers and Main are the actors.
LEMMA ActorFact == Worker \subseteq P!Actor /\ Main \in P!Actor
BY DEF P!Actor

\* What an assignment to one actor's act changes.
LEMMA ActSet ==
  ASSUME PoolTypes, NEW a \in P!Actor, NEW d \in P!Act, act' = [act EXCEPT ![a] = d]
  PROVE  /\ act' \in [P!Actor -> P!Act] /\ act'[a] = d
         /\ \A b \in P!Actor \ {a} : act'[b] = act[b]
BY DEF PoolTypes

\* Starting an act: nobody else's changes.
LEMMA StartFact ==
  ASSUME PoolTypes, NEW a \in P!Actor, NEW op \in P!Op, NEW i \in Worker \cup {NoWorker},
         P!Start(a, op, i)
  PROVE  /\ act' \in [P!Actor -> P!Act] /\ act'[a] = P!Doing(op, i, {})
         /\ \A b \in P!Actor \ {a} : act'[b] = act[b]
<1>1. P!Doing(op, i, {}) \in P!Act BY DoingFact
<1> QED BY <1>1, ActSet DEF P!Start

\* A scan gives up, or looks at one worker more.
LEMMA ScanFact ==
  ASSUME PoolTypes, NEW a \in P!Actor, P!Scan(a)
  PROVE  \E d \in P!Act :
           /\ act' = [act EXCEPT ![a] = d]
           /\ \/ /\ act[a].todo = {} /\ d = P!Nothing /\ searching' = searching - 1
              \/ \E i \in act[a].todo :
                   d = P!Doing(IF parked[i] THEN "mark" ELSE "scan", i, act[a].todo \ {i})
                   /\ UNCHANGED searching
<1>0. act[a] \in P!Act /\ act[a].todo \subseteq Worker BY DEF PoolTypes, P!Act
<1>1. CASE act[a].todo = {} /\ searching' = searching - 1 /\ act' = [act EXCEPT ![a] = P!Nothing]
  BY <1>1, DoingFact, <1>0 DEF P!Nothing, P!Op
<1>2. ASSUME NEW i \in act[a].todo, UNCHANGED searching,
             act' = [act EXCEPT ![a] =
                    P!Doing(IF parked[i] THEN "mark" ELSE "scan", i, @.todo \ {i})]
      PROVE \E d \in P!Act :
           /\ act' = [act EXCEPT ![a] = d]
           /\ \E j \in act[a].todo :
                   d = P!Doing(IF parked[j] THEN "mark" ELSE "scan", j, act[a].todo \ {j})
                   /\ UNCHANGED searching
  <2> DEFINE d == P!Doing(IF parked[i] THEN "mark" ELSE "scan", i, act[a].todo \ {i})
  <2>1. d \in P!Act BY <1>0, DoingFact DEF P!Op
  <2>2. act' = [act EXCEPT ![a] = d] BY <1>2
  <2> QED BY <2>1, <2>2, <1>2
<1> QED BY <1>1, <1>2 DEF P!Scan

\* A mark leaves the worker it speaks of, and goes back to the scan or on to the nudge.
LEMMA MarkFact ==
  ASSUME PoolTypes, NEW a \in P!Actor, P!Mark(a)
  PROVE  /\ act' \in [P!Actor -> P!Act]
         /\ act'[a].op = IF token[act[a].at] THEN "scan" ELSE "nudge"
         /\ act'[a].at = act[a].at /\ act'[a].todo = act[a].todo
         /\ \A b \in P!Actor \ {a} : act'[b] = act[b]
<1>0. act[a] \in P!Act BY DEF PoolTypes
<1> QED BY <1>0 DEF P!Mark, PoolTypes, P!Act, P!Op

\* Types after a mark.
LEMMA MarkTypes == ASSUME PoolTypes, NEW a \in P!Actor, P!Mark(a) PROVE PoolTypes'
BY MarkFact DEF P!Mark, PoolTypes, P!queues, P!flags, P!loop

\* A theft is begun: nothing moves yet.
LEMMA WatchFact ==
  ASSUME PoolTypes, NEW w \in Worker, NEW v \in Worker, P!Watch(w, v)
  PROVE  /\ act' \in [P!Actor -> P!Act] /\ act'[w].op = "steal"
         /\ \A b \in P!Actor \ {w} : act'[b] = act[b]
         /\ UNCHANGED <<P!queues, P!flags, P!loop>>
         /\ pPc[w] = "find" /\ act[w].op = "none"
<1>1. "steal" \in P!Op BY DEF P!Op
<1>2. act' \in [P!Actor -> P!Act] /\ act'[w] = P!Doing("steal", v, {})
      /\ \A b \in P!Actor \ {w} : act'[b] = act[b]
  BY <1>1, StartFact, ActorFact DEF P!Watch
<1>3. act'[w].op = "steal" BY <1>1, <1>2, DoingFact
<1>. QED BY <1>2, <1>3, NothingFact DEF P!Watch, P!At

\* A theft ends: the thief is in the middle of nothing, and has a task or goes
\* on looking.
LEMMA StealFact ==
  ASSUME PoolTypes, NEW w \in Worker, NEW v \in Worker, P!StealPinned(w, v)
  PROVE  /\ act' \in [P!Actor -> P!Act] /\ act'[w] = P!Nothing /\ act'[w].op = "none"
         /\ \A b \in P!Actor \ {w} : act'[b] = act[b]
         /\ act[w].op = "steal" /\ pPc[w] = "find"
         /\ UNCHANGED <<injector, local, deferred, batch, asleep, unborn, P!flags, searcher>>
         /\ \/ UNCHANGED <<pinned, pPc>>
            \/ P!Found(w) /\ pinned[v] > 0 /\ pinned' = P!Less(pinned, v, 1)
<1>1. act[w].op = "steal" /\ pPc[w] = "find" BY DEF P!StealPinned, P!Doing
<1>2. act' = [act EXCEPT ![w] = P!Nothing] BY DEF P!StealPinned
<1>3. act' \in [P!Actor -> P!Act] /\ act'[w] = P!Nothing
      /\ \A b \in P!Actor \ {w} : act'[b] = act[b]
  BY <1>2, ActSet, ActorFact, NothingFact
<1>. QED BY <1>1, <1>3, NothingFact DEF P!StealPinned

\* Types after either.
LEMMA TheftTypes ==
  ASSUME PoolTypes, NEW w \in Worker, NEW v \in Worker, P!Watch(w, v) \/ P!StealPinned(w, v)
  PROVE  PoolTypes'
<1>1. CASE P!Watch(w, v)
  BY <1>1, WatchFact DEF PoolTypes, P!queues, P!flags, P!loop
<1>2. CASE P!StealPinned(w, v)
  <2>1. pinned' \in [Worker -> Nat] /\ pPc' \in [Worker -> P!Where]
    BY <1>2, StealFact DEF PoolTypes, P!Found, P!Goto, P!Less, P!Where
  <2>. QED BY <1>2, <2>1, StealFact DEF PoolTypes, P!flags
<1>. QED BY <1>1, <1>2

\* Places after either.
LEMMA TheftPlaces ==
  ASSUME PoolTypes, PoolPlaces, NEW w \in Worker, NEW v \in Worker,
         P!Watch(w, v) \/ P!StealPinned(w, v)
  PROVE  PoolPlaces'
<1>1. CASE P!Watch(w, v)
  BY <1>1, WatchFact, ActorFact DEF PoolPlaces, P!queues, P!flags, P!loop
<1>2. CASE P!StealPinned(w, v)
  BY <1>2, StealFact, ActorFact DEF PoolTypes, PoolPlaces, P!Found, P!Goto, P!flags
<1>. QED BY <1>1, <1>2

\* Own work after either: a theft leaves less of it.
LEMMA TheftOwn ==
  ASSUME PoolTypes, P!OwnWorkSeen, NEW w \in Worker, NEW v \in Worker,
         P!Watch(w, v) \/ P!StealPinned(w, v)
  PROVE  P!OwnWorkSeen'
<1>1. /\ \A x \in Worker : P!Coming(x) => P!Coming(x)'
      /\ notified' = notified /\ deferred' = deferred
  BY WatchFact, StealFact DEF P!Coming, P!queues, P!flags
<1>2. \A x \in Worker : P!Sleeps(x)' => P!Sleeps(x)
  BY <1>1, WatchFact, StealFact DEF PoolTypes, P!Sleeps, P!Found, P!Goto, P!loop
<1>3. \A x \in Worker : pinned'[x] \in Nat /\ pinned'[x] <= pinned[x]
  BY WatchFact, StealFact DEF PoolTypes, P!Less, P!queues
<1>. QED BY <1>1, <1>2, <1>3 DEF PoolTypes, P!OwnWorkSeen

\* Types after a run.
LEMMA RunEndsTypes == ASSUME PoolTypes, NEW w \in Worker, P!RunEnds(w) PROVE PoolTypes'
<1>1. act' \in [P!Actor -> P!Act]
  BY StartFact, ActorFact DEF P!RunEnds, P!Op, PoolTypes
<1>. QED BY <1>1 DEF PoolTypes, P!RunEnds, P!At, P!Goto, P!More, P!queues, P!flags, P!loop,
     P!Where

\* Every step keeps the types.
LEMMA PoolTypesKept ==
  ASSUME P!WorkerPoolAssumption, PoolTypes, PoolPlaces, [P!Next]_P!vars
  PROVE  PoolTypes'
<1>. USE DEF PoolTypes, P!queues, P!flags, P!loop, P!Act, P!Op, P!Doing, P!Nothing, P!Actor,
     P!Where
<1>1. ASSUME NEW a \in P!Actor, P!EnqueueFresh(a) PROVE PoolTypes'
  BY <1>1 DEF P!EnqueueFresh, P!Calls, P!Start, P!More
<1>2. ASSUME NEW a \in P!Actor, P!WakeSearcher(a) PROVE PoolTypes'
  BY <1>2 DEF P!WakeSearcher
<1>3. ASSUME NEW a \in P!Actor, P!Scan(a) PROVE PoolTypes'
  BY <1>3 DEF P!Scan
<1>4. ASSUME NEW a \in P!Actor, P!Mark(a) PROVE PoolTypes'
  BY <1>4, MarkTypes
<1>5. ASSUME NEW a \in P!Actor, P!WakeWorker(a) PROVE PoolTypes'
  BY <1>5 DEF P!WakeWorker
<1>6. ASSUME NEW a \in P!Actor, NEW h \in Worker, P!Wake(a, h) PROVE PoolTypes'
  BY <1>6 DEF P!Wake, P!Calls, P!EnqueueWoken, P!Start, P!More
<1>7. ASSUME NEW w \in Worker, P!TakeToken(w) PROVE PoolTypes'
  BY <1>7 DEF P!TakeToken, P!At, P!Goto
<1>8. ASSUME NEW w \in Worker, P!FindOwn(w) PROVE PoolTypes'
  BY <1>8 DEF P!FindOwn, P!At, P!Found, P!Goto, P!Less
<1>9. ASSUME NEW w \in Worker, P!FindNothing(w) PROVE PoolTypes'
  BY <1>9 DEF P!FindNothing, P!At, P!Goto
<1>10. ASSUME NEW w \in Worker, P!Extend(w) PROVE PoolTypes'
  BY <1>10 DEF P!Extend, P!At, P!Found, P!Goto, P!More
<1>11. ASSUME NEW w \in Worker, P!StopSearching(w) PROVE PoolTypes'
  BY <1>11 DEF P!StopSearching, P!At, P!Goto
<1>12. ASSUME NEW w \in Worker, P!PassOn(w) PROVE PoolTypes'
  BY <1>12 DEF P!PassOn, P!At, P!Goto, P!Start, P!AnyStealable
<1>13. ASSUME NEW w \in Worker, P!RunEnds(w) PROVE PoolTypes'
  BY <1>13, RunEndsTypes
<1>14. ASSUME NEW w \in Worker, P!PollReady(w) PROVE PoolTypes'
  BY <1>14 DEF P!PollReady, P!At, P!Goto, P!EnqueueWoken, P!Start, P!More
<1>15. ASSUME NEW w \in Worker, P!Seek(w) PROVE PoolTypes'
  BY <1>15 DEF P!Seek, P!At, P!Goto
<1>16. ASSUME NEW w \in Worker, P!Spin(w) PROVE PoolTypes'
  BY <1>16 DEF P!Spin, P!At, P!Goto
<1>17. ASSUME NEW w \in Worker, P!GiveUp(w) PROVE PoolTypes'
  BY <1>17 DEF P!GiveUp, P!At, P!Goto
<1>18. ASSUME NEW w \in Worker, P!LastLook(w) PROVE PoolTypes'
  BY <1>18 DEF P!LastLook, P!At, P!Goto
<1>19. ASSUME NEW w \in Worker, P!Park(w) PROVE PoolTypes'
  BY <1>19 DEF P!Park, P!At, P!Goto
<1>20. ASSUME NEW w \in Worker, P!Recheck(w) PROVE PoolTypes'
  BY <1>20 DEF P!Recheck, P!At, P!Goto
<1>21. ASSUME NEW w \in Worker, P!IdleWait(w) PROVE PoolTypes'
  BY <1>21 DEF P!IdleWait, P!At, P!Goto
<1>22. ASSUME NEW w \in Worker, P!IdlePoll(w) PROVE PoolTypes'
  BY <1>22 DEF P!IdlePoll, P!At, P!Goto, P!EnqueueWoken, P!Start, P!More
<1>23. ASSUME NEW w \in Worker, P!Unpark(w) PROVE PoolTypes'
  BY <1>23 DEF P!Unpark, P!At, P!Goto
<1>24. ASSUME NEW w \in Worker, NEW v \in Worker, P!StealHalf(w, v) PROVE PoolTypes'
  BY <1>24 DEF P!StealHalf, P!At, P!Found, P!Goto, P!Less
<1>25. ASSUME NEW w \in Worker, NEW v \in Worker, P!Watch(w, v) \/ P!StealPinned(w, v)
       PROVE PoolTypes'
  BY <1>25, TheftTypes
<1>26. CASE UNCHANGED P!vars
  BY <1>26 DEF P!vars
<1>. QED
  BY <1>1, <1>2, <1>3, <1>4, <1>5, <1>6, <1>7, <1>8, <1>9, <1>10, <1>11, <1>12, <1>13, <1>14,
       <1>15, <1>16, <1>17, <1>18, <1>19, <1>20, <1>21, <1>22, <1>23, <1>24, <1>25, <1>26
  DEF P!Next, P!Enqueue, P!WakeStep, P!Look, P!Run, P!Idle

\* Places after WakeSearcher.
LEMMA WakeSearcherPlaces == ASSUME PoolTypes, PoolPlaces, NEW a \in P!Actor, P!WakeSearcher(a)
PROVE PoolPlaces'
<1>1. PICK d \in P!Act : act' = [act EXCEPT ![a] = d] /\ d.op \in {"none", "scan"}
  BY DoingFact DEF P!WakeSearcher, P!Op, P!Nothing
<1>2. act[a] # P!Nothing
  BY DEF P!WakeSearcher, P!Nothing, P!Doing
<1> QED BY <1>1, <1>2, ActSet DEF PoolPlaces, P!WakeSearcher, P!queues, P!loop

\* Places after Scan.
LEMMA ScanPlaces == ASSUME PoolTypes, PoolPlaces, NEW a \in P!Actor, P!Scan(a) PROVE PoolPlaces'
<1>1. PICK d \in P!Act :
         /\ act' = [act EXCEPT ![a] = d]
         /\ \/ d = P!Nothing
            \/ \E i \in act[a].todo : d = P!Doing(IF parked[i] THEN "mark" ELSE "scan", i,
                 act[a].todo \ {i})
  BY ScanFact
<1>2. act[a] # P!Nothing
  BY DEF P!Scan, P!Nothing, P!Doing
<1>3. d.op = "mark" => d.at \in Worker
  BY <1>1 DEF P!Doing, P!Nothing, PoolTypes, P!Act
<1>4. d.op # "nudge"
  BY <1>1 DEF P!Doing, P!Nothing, PoolTypes, P!Act
<1> QED BY <1>1, <1>2, <1>3, <1>4, ActSet DEF PoolPlaces, P!Scan, P!queues, P!loop

\* Places after Mark.
LEMMA MarkPlaces == ASSUME PoolTypes, PoolPlaces, NEW a \in P!Actor, P!Mark(a) PROVE PoolPlaces'
<1>2. act[a] # P!Nothing
  BY DEF P!Mark, P!Nothing, P!Doing
<1> QED BY <1>2, MarkFact DEF PoolPlaces, P!Mark, P!queues, P!loop

\* Places after PassOn.
LEMMA PassOnPlaces == ASSUME PoolTypes, PoolPlaces, NEW w \in Worker, P!PassOn(w)
PROVE PoolPlaces'
<1>1. \/ UNCHANGED act
      \/ P!Start(w, "search", NoWorker)
  BY DEF P!PassOn
<1>2. /\ act' \in [P!Actor -> P!Act]
      /\ act'[w].op \notin {"mark", "nudge"}
      /\ \A b \in P!Actor \ {w} : act'[b] = act[b]
  <2>1. CASE UNCHANGED act
    <3>1. act[w] = P!Nothing BY DEF P!PassOn, P!At
    <3>2. w \in P!Actor BY ActorFact
    <3>. QED BY <2>1, <3>1, <3>2, NothingFact DEF PoolTypes
  <2>2. CASE P!Start(w, "search", NoWorker)
    <3>1. w \in P!Actor /\ "search" \in P!Op BY ActorFact DEF P!Op
    <3>2. act' \in [P!Actor -> P!Act] /\ act'[w] = P!Doing("search", NoWorker, {})
          /\ \A b \in P!Actor \ {w} : act'[b] = act[b]
      BY <2>2, <3>1, StartFact
    <3>. QED BY <3>2 DEF P!Doing
  <2>. QED BY <1>1, <2>1, <2>2
<1> QED BY <1>2, ActorFact DEF PoolTypes, PoolPlaces, P!PassOn, P!At, P!Goto, P!flags, P!queues

\* Places after RunEnds.
LEMMA RunEndsPlaces == ASSUME PoolTypes, PoolPlaces, NEW w \in Worker, P!RunEnds(w)
PROVE PoolPlaces'
<1>1. UNCHANGED act \/ P!Start(w, "nudge", w)
  BY DEF P!RunEnds
<1>2. /\ act' \in [P!Actor -> P!Act]
      /\ act'[w].op \in {"mark", "nudge"} => act'[w].at \in Worker
      /\ \A b \in P!Actor \ {w} : act'[b] = act[b]
  BY <1>1, StartFact, ActorFact, DoingFact DEF P!Op, PoolTypes, PoolPlaces
<1> QED BY <1>2, ActorFact DEF PoolTypes, PoolPlaces, P!RunEnds, P!At, P!Goto, P!flags

\* Places after a poll that woke a task.
LEMMA PollPlaces == ASSUME PoolTypes, PoolPlaces, NEW w \in Worker,
     P!PollReady(w) \/ P!IdlePoll(w) PROVE PoolPlaces'
<1>1. PICK h \in Worker : P!Start(w, "nudge", h)
  BY DEF P!PollReady, P!IdlePoll, P!EnqueueWoken
<1>2. /\ act' \in [P!Actor -> P!Act]
      /\ act'[w].op \in {"mark", "nudge"} => act'[w].at \in Worker
      /\ \A b \in P!Actor \ {w} : act'[b] = act[b]
  BY <1>1, StartFact, ActorFact, DoingFact DEF P!Op, PoolTypes, PoolPlaces
<1> QED BY <1>2, ActorFact DEF PoolTypes, PoolPlaces, P!PollReady, P!IdlePoll, P!At, P!Goto,
     P!flags, P!EnqueueWoken

\* Every step keeps the places.
LEMMA PoolPlacesKept ==
  ASSUME P!WorkerPoolAssumption, PoolTypes, PoolPlaces, [P!Next]_P!vars
  PROVE  PoolPlaces'
<1>. USE DEF PoolTypes, PoolPlaces, P!queues, P!flags, P!loop, P!Act, P!Op, P!Doing, P!Nothing,
     P!Actor, P!Where, P!WorkerPoolAssumption
<1>1. ASSUME NEW a \in P!Actor, P!EnqueueFresh(a) PROVE PoolPlaces'
  BY <1>1 DEF P!EnqueueFresh, P!Calls, P!Start, P!More
<1>2. ASSUME NEW a \in P!Actor, P!WakeSearcher(a) PROVE PoolPlaces'
  BY <1>2, WakeSearcherPlaces
<1>3. ASSUME NEW a \in P!Actor, P!Scan(a) PROVE PoolPlaces'
  BY <1>3, ScanPlaces
<1>4. ASSUME NEW a \in P!Actor, P!Mark(a) PROVE PoolPlaces'
  BY <1>4, MarkPlaces
<1>5. ASSUME NEW a \in P!Actor, P!WakeWorker(a) PROVE PoolPlaces'
  BY <1>5 DEF P!WakeWorker
<1>6. ASSUME NEW a \in P!Actor, NEW h \in Worker, P!Wake(a, h) PROVE PoolPlaces'
  BY <1>6 DEF P!Wake, P!Calls, P!EnqueueWoken, P!Start, P!More
<1>7. ASSUME NEW w \in Worker, P!TakeToken(w) PROVE PoolPlaces'
  BY <1>7 DEF P!TakeToken, P!At, P!Goto
<1>8. ASSUME NEW w \in Worker, P!FindOwn(w) PROVE PoolPlaces'
  BY <1>8 DEF P!FindOwn, P!At, P!Found, P!Goto, P!Less
<1>9. ASSUME NEW w \in Worker, P!FindNothing(w) PROVE PoolPlaces'
  BY <1>9 DEF P!FindNothing, P!At, P!Goto
<1>10. ASSUME NEW w \in Worker, P!Extend(w) PROVE PoolPlaces'
  BY <1>10 DEF P!Extend, P!At, P!Found, P!Goto, P!More
<1>11. ASSUME NEW w \in Worker, P!StopSearching(w) PROVE PoolPlaces'
  BY <1>11 DEF P!StopSearching, P!At, P!Goto
<1>12. ASSUME NEW w \in Worker, P!PassOn(w) PROVE PoolPlaces'
  BY <1>12, PassOnPlaces
<1>13. ASSUME NEW w \in Worker, P!RunEnds(w) PROVE PoolPlaces'
  BY <1>13, RunEndsPlaces
<1>14. ASSUME NEW w \in Worker, P!PollReady(w) PROVE PoolPlaces'
  BY <1>14, PollPlaces
<1>15. ASSUME NEW w \in Worker, P!Seek(w) PROVE PoolPlaces'
  BY <1>15 DEF P!Seek, P!At, P!Goto
<1>16. ASSUME NEW w \in Worker, P!Spin(w) PROVE PoolPlaces'
  BY <1>16 DEF P!Spin, P!At, P!Goto
<1>17. ASSUME NEW w \in Worker, P!GiveUp(w) PROVE PoolPlaces'
  BY <1>17 DEF P!GiveUp, P!At, P!Goto
<1>18. ASSUME NEW w \in Worker, P!LastLook(w) PROVE PoolPlaces'
  BY <1>18 DEF P!LastLook, P!At, P!Goto
<1>19. ASSUME NEW w \in Worker, P!Park(w) PROVE PoolPlaces'
  BY <1>19 DEF P!Park, P!At, P!Goto
<1>20. ASSUME NEW w \in Worker, P!Recheck(w) PROVE PoolPlaces'
  BY <1>20 DEF P!Recheck, P!At, P!Goto
<1>21. ASSUME NEW w \in Worker, P!IdleWait(w) PROVE PoolPlaces'
  BY <1>21 DEF P!IdleWait, P!At, P!Goto
<1>22. ASSUME NEW w \in Worker, P!IdlePoll(w) PROVE PoolPlaces'
  BY <1>22, PollPlaces
<1>23. ASSUME NEW w \in Worker, P!Unpark(w) PROVE PoolPlaces'
  BY <1>23 DEF P!Unpark, P!At, P!Goto
<1>24. ASSUME NEW w \in Worker, NEW v \in Worker, P!StealHalf(w, v) PROVE PoolPlaces'
  BY <1>24 DEF P!StealHalf, P!At, P!Found, P!Goto, P!Less
<1>25. ASSUME NEW w \in Worker, NEW v \in Worker, P!Watch(w, v) \/ P!StealPinned(w, v)
       PROVE PoolPlaces'
  BY <1>25, TheftPlaces
<1>26. CASE UNCHANGED P!vars
  BY <1>26 DEF P!vars
<1>. QED
  BY <1>1, <1>2, <1>3, <1>4, <1>5, <1>6, <1>7, <1>8, <1>9, <1>10, <1>11, <1>12, <1>13, <1>14,
       <1>15, <1>16, <1>17, <1>18, <1>19, <1>20, <1>21, <1>22, <1>23, <1>24, <1>25, <1>26
  DEF P!Next, P!Enqueue, P!WakeStep, P!Look, P!Run, P!Idle

\* The last look before sleep sees the worker's own queues.
LEMMA RecheckOwn == ASSUME PoolTypes, PoolPlaces, P!OwnWorkSeen, NEW w \in Worker, P!Recheck(w)
PROVE P!OwnWorkSeen'
<1>1. pinned' = pinned /\ deferred' = deferred /\ notified' = notified /\ act' = act
  BY DEF P!Recheck, P!queues, P!flags
<1>2. ASSUME pPc'[w] = "wait" PROVE pinned[w] = 0 /\ deferred[w] = 0
  BY <1>2 DEF P!Recheck, P!At, P!Goto, P!HasAnyWork, PoolTypes
<1>3. \A v \in Worker \ {w} : pPc'[v] = pPc[v]
  BY DEF P!Recheck, P!At, P!Goto, PoolTypes
<1> QED BY <1>1, <1>2, <1>3 DEF P!OwnWorkSeen, P!Sleeps, P!Coming, PoolTypes

\* A worker that passes the slot on changes nothing for the others: it is awake,
\* and nudges nobody yet.
LEMMA PassOnOwn == ASSUME PoolTypes, P!OwnWorkSeen, NEW w \in Worker, P!PassOn(w)
PROVE P!OwnWorkSeen'
<1>1. /\ notified' = notified /\ pinned' = pinned /\ deferred' = deferred
      /\ pPc' = [pPc EXCEPT ![w] = "run"] /\ act[w].op = "none"
  BY NothingFact DEF P!PassOn, P!At, P!Goto, P!flags, P!queues
<1>2. \A a \in P!Actor \ {w} : act'[a] = act[a]
  BY DEF P!PassOn, P!Start, PoolTypes
<1>3. \A v \in Worker : P!Coming(v) => P!Coming(v)'
  BY <1>1, <1>2 DEF P!Coming
<1>4. \A v \in Worker : P!Sleeps(v)' => P!Sleeps(v)
  BY <1>1 DEF P!Sleeps, PoolTypes
<1>. QED BY <1>1, <1>3, <1>4 DEF P!OwnWorkSeen

\* A task that ends or yields leaves its worker awake.
LEMMA RunEndsOwn == ASSUME PoolTypes, PoolPlaces, P!OwnWorkSeen, NEW w \in Worker, P!RunEnds(w)
PROVE P!OwnWorkSeen'
<1>1. notified' = notified /\ pPc' = [pPc EXCEPT ![w] = "top"] /\ act[w].op = "none"
  BY DEF P!RunEnds, P!At, P!Goto, P!flags, P!Nothing, P!Doing
<1>2. \A v \in Worker \ {w} : pinned'[v] = pinned[v] /\ deferred'[v] = deferred[v]
  BY DEF P!RunEnds, P!More, PoolTypes
<1>3. \A a \in P!Actor \ {w} : act'[a] = act[a]
  BY DEF P!RunEnds, P!Start, PoolTypes
<1>4. \A v \in Worker : P!Coming(v) => P!Coming(v)'
  BY <1>1, <1>3 DEF P!Coming
<1>5. \A v \in Worker : P!Sleeps(v)' => P!Sleeps(v) /\ v # w
  BY <1>1 DEF P!Sleeps, PoolTypes
<1>. QED
  BY <1>2, <1>4, <1>5 DEF P!OwnWorkSeen

\* No step leaves a worker asleep beside work only it may run: parked is up before
\* the queues are looked at, and the task is on its queue before parked is.
LEMMA OwnWorkKept ==
  ASSUME P!WorkerPoolAssumption, PoolTypes, PoolPlaces, P!OwnWorkSeen, [P!Next]_P!vars
  PROVE  P!OwnWorkSeen'
<1>. USE DEF PoolTypes, PoolPlaces, P!queues, P!flags, P!loop, P!Act, P!Op, P!Doing, P!Nothing,
     P!Actor, P!Where, P!WorkerPoolAssumption, P!OwnWorkSeen, P!Sleeps, P!Coming
<1>1. ASSUME NEW a \in P!Actor, P!EnqueueFresh(a) PROVE P!OwnWorkSeen'
  BY <1>1 DEF P!EnqueueFresh, P!Calls, P!Start, P!More
<1>2. ASSUME NEW a \in P!Actor, P!WakeSearcher(a) PROVE P!OwnWorkSeen'
  BY <1>2 DEF P!WakeSearcher
<1>3. ASSUME NEW a \in P!Actor, P!Scan(a) PROVE P!OwnWorkSeen'
  BY <1>3 DEF P!Scan
<1>4. ASSUME NEW a \in P!Actor, P!Mark(a) PROVE P!OwnWorkSeen'
  BY <1>4 DEF P!Mark
<1>5. ASSUME NEW a \in P!Actor, P!WakeWorker(a) PROVE P!OwnWorkSeen'
  BY <1>5 DEF P!WakeWorker
<1>6. ASSUME NEW a \in P!Actor, NEW h \in Worker, P!Wake(a, h) PROVE P!OwnWorkSeen'
  BY <1>6 DEF P!Wake, P!Calls, P!EnqueueWoken, P!Start, P!More
<1>7. ASSUME NEW w \in Worker, P!TakeToken(w) PROVE P!OwnWorkSeen'
  BY <1>7 DEF P!TakeToken, P!At, P!Goto
<1>8. ASSUME NEW w \in Worker, P!FindOwn(w) PROVE P!OwnWorkSeen'
  BY <1>8 DEF P!FindOwn, P!At, P!Found, P!Goto, P!Less
<1>9. ASSUME NEW w \in Worker, P!FindNothing(w) PROVE P!OwnWorkSeen'
  BY <1>9 DEF P!FindNothing, P!At, P!Goto
<1>10. ASSUME NEW w \in Worker, P!Extend(w) PROVE P!OwnWorkSeen'
  BY <1>10 DEF P!Extend, P!At, P!Found, P!Goto, P!More
<1>11. ASSUME NEW w \in Worker, P!StopSearching(w) PROVE P!OwnWorkSeen'
  BY <1>11 DEF P!StopSearching, P!At, P!Goto
<1>12. ASSUME NEW w \in Worker, P!PassOn(w) PROVE P!OwnWorkSeen'
  BY <1>12, PassOnOwn
<1>13. ASSUME NEW w \in Worker, P!RunEnds(w) PROVE P!OwnWorkSeen'
  BY <1>13, RunEndsOwn
<1>14. ASSUME NEW w \in Worker, P!PollReady(w) PROVE P!OwnWorkSeen'
  BY <1>14 DEF P!PollReady, P!At, P!Goto, P!EnqueueWoken, P!Start, P!More
<1>15. ASSUME NEW w \in Worker, P!Seek(w) PROVE P!OwnWorkSeen'
  BY <1>15 DEF P!Seek, P!At, P!Goto
<1>16. ASSUME NEW w \in Worker, P!Spin(w) PROVE P!OwnWorkSeen'
  BY <1>16 DEF P!Spin, P!At, P!Goto
<1>17. ASSUME NEW w \in Worker, P!GiveUp(w) PROVE P!OwnWorkSeen'
  BY <1>17 DEF P!GiveUp, P!At, P!Goto
<1>18. ASSUME NEW w \in Worker, P!LastLook(w) PROVE P!OwnWorkSeen'
  BY <1>18 DEF P!LastLook, P!At, P!Goto
<1>19. ASSUME NEW w \in Worker, P!Park(w) PROVE P!OwnWorkSeen'
  BY <1>19 DEF P!Park, P!At, P!Goto
<1>20. ASSUME NEW w \in Worker, P!Recheck(w) PROVE P!OwnWorkSeen'
  BY <1>20, RecheckOwn
<1>21. ASSUME NEW w \in Worker, P!IdleWait(w) PROVE P!OwnWorkSeen'
  BY <1>21 DEF P!IdleWait, P!At, P!Goto
<1>22. ASSUME NEW w \in Worker, P!IdlePoll(w) PROVE P!OwnWorkSeen'
  BY <1>22 DEF P!IdlePoll, P!At, P!Goto, P!EnqueueWoken, P!Start, P!More
<1>23. ASSUME NEW w \in Worker, P!Unpark(w) PROVE P!OwnWorkSeen'
  BY <1>23 DEF P!Unpark, P!At, P!Goto
<1>24. ASSUME NEW w \in Worker, NEW v \in Worker, P!StealHalf(w, v) PROVE P!OwnWorkSeen'
  BY <1>24 DEF P!StealHalf, P!At, P!Found, P!Goto, P!Less
<1>25. ASSUME NEW w \in Worker, NEW v \in Worker, P!Watch(w, v) \/ P!StealPinned(w, v)
       PROVE P!OwnWorkSeen'
  BY <1>25, TheftOwn
<1>26. CASE UNCHANGED P!vars
  BY <1>26 DEF P!vars
<1>. QED
  BY <1>1, <1>2, <1>3, <1>4, <1>5, <1>6, <1>7, <1>8, <1>9, <1>10, <1>11, <1>12, <1>13, <1>14,
       <1>15, <1>16, <1>17, <1>18, <1>19, <1>20, <1>21, <1>22, <1>23, <1>24, <1>25, <1>26
  DEF P!Next, P!Enqueue, P!WakeStep, P!Look, P!Run, P!Idle

-----------------------------------------------------------------------------
(* The counter of searchers counts three sets.                             *)

\* One for a condition that holds.
One(b) == IF b THEN 1 ELSE 0

\* Two sets that differ in one element at most.
LEMMA OneElement ==
  ASSUME NEW A, NEW B, NEW x, IsFiniteSet(A), A \ {x} = B \ {x}
  PROVE  /\ IsFiniteSet(B) /\ Cardinality(A) \in Nat /\ Cardinality(B) \in Nat
         /\ Cardinality(B) = Cardinality(A) - One(x \in A) + One(x \in B)
<1>1. IsFiniteSet(A \ {x}) /\ Cardinality(A \ {x}) = Cardinality(A) - One(x \in A)
  BY FS_RemoveElement, FS_CardinalityType DEF One
<1>2. IsFiniteSet(B)
  <2>1. B = B \ {x} \/ B = (B \ {x}) \cup {x} OBVIOUS
  <2>. QED BY <1>1, <2>1, FS_AddElement
<1>3. Cardinality(B \ {x}) = Cardinality(B) - One(x \in B)
  BY <1>2, FS_RemoveElement, FS_CardinalityType DEF One
<1>4. Cardinality(A) \in Nat /\ Cardinality(B) \in Nat
  BY <1>2, FS_CardinalityType
<1>. QED BY <1>1, <1>2, <1>3, <1>4 DEF One

\* Workers that search, ...
Hunting == {w \in Worker : searcher[w]}

\* ... tokens not taken, ...
Marked == {w \in Worker : token[w]}

\* ... and wakers that hold the slot.
HoldsSlot(a) == act[a].op \in {"scan", "mark"}

\* Those wakers.
SlotHolders == {a \in P!Actor : HoldsSlot(a)}

\* SearchersCounted, of these sets.
PoolCounted ==
  searching = Cardinality(Hunting) + Cardinality(Marked) + Cardinality(SlotHolders)

\* The instance's cardinality is the library's.
LEMMA InstanceCard == \A X : P!Cardinality(X) = Cardinality(X)
BY DEF P!Cardinality, Cardinality

\* The sets are finite, and no larger than the pool.
LEMMA CountedFinite ==
  ASSUME P!WorkerPoolAssumption
  PROVE  /\ IsFiniteSet(Worker) /\ IsFiniteSet(P!Actor)
         /\ IsFiniteSet(Hunting) /\ IsFiniteSet(Marked) /\ IsFiniteSet(SlotHolders)
         /\ Cardinality(Hunting) <= Cardinality(Worker)
         /\ Cardinality(Marked) <= Cardinality(Worker)
         /\ Cardinality(SlotHolders) <= Cardinality(Worker) + 1
<1>1. IsFiniteSet(Worker)
  BY DEF P!WorkerPoolAssumption, P!IsFiniteSet, IsFiniteSet
<1>2. IsFiniteSet(P!Actor) /\ Cardinality(P!Actor) = Cardinality(Worker) + 1
  BY <1>1, FS_AddElement DEF P!Actor, P!WorkerPoolAssumption
<1>3. Hunting \in SUBSET Worker /\ Marked \in SUBSET Worker /\ SlotHolders \in SUBSET P!Actor
  BY DEF Hunting, Marked, SlotHolders
<1>. QED BY <1>1, <1>2, <1>3, FS_Subset

\* A step that changes one worker's flags and one actor's act by as much as the counter.
LEMMA CountStep ==
  ASSUME P!WorkerPoolAssumption, PoolTypes, PoolTypes', PoolCounted,
         NEW x \in Worker, NEW y \in Worker, NEW a \in P!Actor,
         \A v \in Worker \ {x} : searcher'[v] = searcher[v],
         \A v \in Worker \ {y} : token'[v] = token[v],
         \A b \in P!Actor \ {a} : act'[b] = act[b],
         searching' = searching
           + (One(searcher'[x]) - One(searcher[x]))
           + (One(token'[y]) - One(token[y])) + (One(HoldsSlot(a)') - One(HoldsSlot(a)))
  PROVE  PoolCounted'
<1>1. /\ IsFiniteSet(Hunting') /\ Cardinality(Hunting) \in Nat /\ Cardinality(Hunting') \in Nat
      /\ Cardinality(Hunting') = Cardinality(Hunting) - One(searcher[x]) + One(searcher'[x])
  <2>1. Hunting \ {x} = Hunting' \ {x} /\ (x \in Hunting <=> searcher[x])
       /\ (x \in Hunting' <=> searcher'[x])
    BY DEF Hunting
  <2>2. IsFiniteSet(Hunting) BY CountedFinite
  <2>3. /\ One(x \in Hunting) = One(searcher[x]) /\ One(x \in Hunting') = One(searcher'[x])
    BY <2>1 DEF One
  <2>. QED BY <2>1, <2>2, <2>3, OneElement
<1>2. /\ IsFiniteSet(Marked') /\ Cardinality(Marked) \in Nat /\ Cardinality(Marked') \in Nat
      /\ Cardinality(Marked') = Cardinality(Marked) - One(token[y]) + One(token'[y])
  <2>1. Marked \ {y} = Marked' \ {y} /\ (y \in Marked <=> token[y])
       /\ (y \in Marked' <=> token'[y])
    BY DEF Marked
  <2>2. IsFiniteSet(Marked) BY CountedFinite
  <2>3. /\ One(y \in Marked) = One(token[y]) /\ One(y \in Marked') = One(token'[y])
    BY <2>1 DEF One
  <2>. QED BY <2>1, <2>2, <2>3, OneElement
<1>3. /\ IsFiniteSet(SlotHolders') /\ Cardinality(SlotHolders) \in Nat
     /\ Cardinality(SlotHolders') \in Nat
      /\ Cardinality(SlotHolders') = Cardinality(SlotHolders) - One(HoldsSlot(a)) + One(HoldsSlot(a)')
  <2>1. SlotHolders \ {a} = SlotHolders' \ {a} /\ (a \in SlotHolders <=> HoldsSlot(a))
       /\ (a \in SlotHolders' <=> HoldsSlot(a)')
    BY DEF SlotHolders, HoldsSlot
  <2>2. IsFiniteSet(SlotHolders) BY CountedFinite
  <2>3. /\ One(a \in SlotHolders) = One(HoldsSlot(a))
       /\ One(a \in SlotHolders') = One(HoldsSlot(a)')
    BY <2>1 DEF One
  <2>. QED BY <2>1, <2>2, <2>3, OneElement
<1>4. /\ One(searcher[x]) \in Int /\ One(searcher'[x]) \in Int /\ One(token[y]) \in Int
      /\ One(token'[y]) \in Int /\ One(HoldsSlot(a)) \in Int /\ One(HoldsSlot(a)') \in Int
  BY DEF One
<1>. QED BY <1>1, <1>2, <1>3, <1>4 DEF PoolCounted

\* A step that leaves the counter and what it counts alone.
LEMMA CountSame ==
  ASSUME PoolCounted, UNCHANGED <<searching, searcher, token>>, 
         \A a \in P!Actor : HoldsSlot(a)' <=> HoldsSlot(a)
  PROVE  PoolCounted'
<1>1. Hunting' = Hunting /\ Marked' = Marked BY DEF Hunting, Marked
<1>2. SlotHolders' = SlotHolders BY DEF SlotHolders
<1>. QED BY <1>1, <1>2 DEF PoolCounted

\* Starting to search or to nudge takes no slot.
LEMMA SlotStart ==
  ASSUME PoolTypes, NEW a \in P!Actor, act[a].op \in {"none", "search"},
         NEW op \in {"search", "nudge"}, NEW i \in Worker \cup {NoWorker}, P!Start(a, op, i)
  PROVE  \A b \in P!Actor : HoldsSlot(b)' <=> HoldsSlot(b)
<1>1. act'[a].op = op BY StartFact, DoingFact DEF P!Op
<1>2. \A b \in P!Actor \ {a} : act'[b] = act[b] BY StartFact DEF P!Op
<1>. QED BY <1>1, <1>2 DEF HoldsSlot

\* What wakers do keeps the count.
LEMMA CountActs ==
  ASSUME P!WorkerPoolAssumption, PoolTypes, PoolTypes', PoolPlaces, PoolCounted,
       NEW a \in P!Actor,
         P!Enqueue(a) \/ P!WakeStep(a)
  PROVE  PoolCounted'
<1>. USE DEF P!Enqueue, P!WakeStep
<1>0. PICK w \in Worker : TRUE BY DEF P!WorkerPoolAssumption
<1>1. CASE P!EnqueueFresh(a)
  <2>1. \A b \in P!Actor : HoldsSlot(b)' <=> HoldsSlot(b)
    BY <1>1, SlotStart, NothingFact DEF P!EnqueueFresh, P!Calls
  <2>. QED BY <1>1, <2>1, CountSame DEF P!EnqueueFresh, P!flags, P!loop
<1>2. ASSUME NEW h \in Worker, P!Wake(a, h) PROVE PoolCounted'
  <2>1. \A b \in P!Actor : HoldsSlot(b)' <=> HoldsSlot(b)
    BY <1>2, SlotStart, NothingFact DEF P!Wake, P!Calls, P!EnqueueWoken
  <2>. QED BY <1>2, <2>1, CountSame DEF P!Wake, P!flags, P!loop
<1>3. CASE P!WakeSearcher(a)
  <2>1. ~HoldsSlot(a) BY <1>3 DEF HoldsSlot, P!WakeSearcher
  <2>2. \A b \in P!Actor \ {a} : act'[b] = act[b] BY <1>3 DEF P!WakeSearcher, PoolTypes
  <2>3. searching = 0 => searching' = 1 /\ HoldsSlot(a)'
    <3>1. P!Doing("scan", NoWorker, Worker) \in P!Act /\ P!Doing("scan", NoWorker,
         Worker).op = "scan"
      BY DoingFact DEF P!Op
    <3>. QED BY <1>3, <3>1, ActSet DEF P!WakeSearcher, HoldsSlot
  <2>4. searching # 0 => searching' = searching /\ ~HoldsSlot(a)'
    BY <1>3, NothingFact DEF P!WakeSearcher, PoolTypes, HoldsSlot
  <2>5. UNCHANGED <<searcher, token>> BY <1>3 DEF P!WakeSearcher, P!loop
  <2>6. CASE searching = 0
    BY <1>0, <2>1, <2>2, <2>3, <2>5, <2>6, CountStep DEF One, PoolTypes
  <2>7. CASE searching # 0
    <3>1. \A b \in P!Actor : HoldsSlot(b)' <=> HoldsSlot(b) BY <2>1, <2>2, <2>4,
         <2>7 DEF HoldsSlot
    <3>. QED BY <2>4, <2>5, <2>7, <3>1, CountSame
  <2>. QED BY <2>6, <2>7
<1>4. CASE P!Scan(a)
  <2>0. HoldsSlot(a) BY <1>4 DEF HoldsSlot, P!Scan
  <2>1. UNCHANGED <<searcher, token>> BY <1>4 DEF P!Scan, P!loop
  <2>2. PICK d \in P!Act :
           /\ act' = [act EXCEPT ![a] = d]
           /\ \/ /\ act[a].todo = {} /\ d = P!Nothing /\ searching' = searching - 1
              \/ \E i \in act[a].todo :
                   d = P!Doing(IF parked[i] THEN "mark" ELSE "scan", i, act[a].todo \ {i})
                   /\ UNCHANGED searching
    BY <1>4, ScanFact
  <2>3. act'[a] = d /\ \A b \in P!Actor \ {a} : act'[b] = act[b] BY <2>2, ActSet
  <2>4. CASE d = P!Nothing /\ searching' = searching - 1
    <3>1. ~HoldsSlot(a)' BY <2>3, <2>4, NothingFact DEF HoldsSlot
    <3>2. searching \in Int BY CountedFinite, FS_CardinalityType DEF PoolCounted
    <3>. QED BY <1>0, <2>0, <2>1, <2>3, <2>4, <3>1, <3>2, CountStep DEF One, PoolTypes
  <2>5. ASSUME NEW i \in act[a].todo, UNCHANGED searching,
               d = P!Doing(IF parked[i] THEN "mark" ELSE "scan", i, act[a].todo \ {i})
        PROVE PoolCounted'
    <3>1. d.op \in {"mark", "scan"} BY <2>5 DEF P!Doing
    <3>2. \A b \in P!Actor : HoldsSlot(b)' <=> HoldsSlot(b) BY <2>0, <2>3, <3>1 DEF HoldsSlot
    <3>. QED BY <2>1, <2>5, <3>2, CountSame
  <2>. QED BY <2>2, <2>4, <2>5
<1>5. CASE P!Mark(a)
  <2>1. act[a].at \in Worker BY <1>5 DEF PoolPlaces, P!Mark
  <2>2. \A v \in Worker \ {act[a].at} : token'[v] = token[v] BY <1>5 DEF P!Mark, PoolTypes
  <2>3. token'[act[a].at] = TRUE BY <1>5, <2>1 DEF P!Mark, PoolTypes
  <2>4. UNCHANGED <<searcher, searching>> BY <1>5 DEF P!Mark, P!loop
  <2>5. HoldsSlot(a) /\ (HoldsSlot(a)' <=> token[act[a].at])
    <3>1. act'[a].op = IF token[act[a].at] THEN "scan" ELSE "nudge" BY <1>5, MarkFact
    <3>. QED BY <1>5, <3>1 DEF HoldsSlot, P!Mark
  <2>6. \A b \in P!Actor \ {a} : act'[b] = act[b] BY <1>5, MarkFact
  <2>7. token[act[a].at] \in BOOLEAN BY <2>1 DEF PoolTypes
  <2>8. searching \in Int BY CountedFinite, FS_CardinalityType DEF PoolCounted
  <2>. QED BY <2>1, <2>2, <2>3, <2>4, <2>5, <2>6, <2>7, <2>8, CountStep DEF One
<1>6. CASE P!WakeWorker(a)
  <2>1. \A b \in P!Actor : HoldsSlot(b)' <=> HoldsSlot(b)
    BY <1>6, NothingFact DEF P!WakeWorker, HoldsSlot, PoolTypes
  <2>. QED BY <1>6, <2>1, CountSame DEF P!WakeWorker, P!loop
<1>. QED BY <1>1, <1>2, <1>3, <1>4, <1>5, <1>6

\* What workers do keeps the count.
LEMMA CountLoop ==
  ASSUME P!WorkerPoolAssumption, PoolTypes, PoolTypes', PoolPlaces, PoolCounted, NEW w \in Worker,
         P!Look(w) \/ P!Run(w) \/ P!Idle(w)
  PROVE  PoolCounted'
<1>. USE DEF P!Look, P!Run, P!Idle
<1>0. w \in P!Actor /\ searching \in Int BY ActorFact, CountedFinite,
     FS_CardinalityType DEF PoolCounted
<1>1. CASE P!TakeToken(w)
  <2>1. /\ UNCHANGED act
        /\ \A v \in Worker \ {w} : searcher'[v] = searcher[v] /\ token'[v] = token[v]
        /\ token'[w] = FALSE /\ searcher'[w] = (searcher[w] \/ token[w])
        /\ searching' = IF token[w] /\ searcher[w] THEN searching - 1 ELSE searching
    BY <1>1 DEF P!TakeToken, PoolTypes
  <2>2. HoldsSlot(w)' <=> HoldsSlot(w) BY <2>1 DEF HoldsSlot
  <2>3. token[w] \in BOOLEAN /\ searcher[w] \in BOOLEAN BY DEF PoolTypes
  <2>4. searching' = searching + (One(searcher'[w]) - One(searcher[w]))
           + (One(token'[w]) - One(token[w])) + (One(HoldsSlot(w)') - One(HoldsSlot(w)))
    BY <1>0, <2>1, <2>2, <2>3 DEF One
  <2>. QED BY <1>0, <2>1, <2>4, CountStep
<1>2. CASE P!StopSearching(w) \/ P!GiveUp(w)
  <2>1. /\ UNCHANGED <<act, token>> /\ searcher[w]
        /\ \A v \in Worker \ {w} : searcher'[v] = searcher[v]
        /\ searcher'[w] = FALSE /\ searching' = searching - 1
    BY <1>2 DEF P!StopSearching, P!GiveUp, PoolTypes, PoolPlaces, P!At
  <2>2. HoldsSlot(w)' <=> HoldsSlot(w) BY <2>1 DEF HoldsSlot
  <2>4. searching' = searching + (One(searcher'[w]) - One(searcher[w]))
           + (One(token'[w]) - One(token[w])) + (One(HoldsSlot(w)') - One(HoldsSlot(w)))
    BY <1>0, <2>1, <2>2 DEF One
  <2>. QED BY <1>0, <2>1, <2>4, CountStep
<1>3. CASE P!Seek(w)
  <2>1. /\ UNCHANGED <<act, token>>
        /\ \A v \in Worker \ {w} : searcher'[v] = searcher[v]
        /\ searcher'[w] = TRUE
        /\ searching' = IF searcher[w] THEN searching ELSE searching + 1
    BY <1>3 DEF P!Seek, PoolTypes
  <2>2. HoldsSlot(w)' <=> HoldsSlot(w) BY <2>1 DEF HoldsSlot
  <2>4. searching' = searching + (One(searcher'[w]) - One(searcher[w]))
           + (One(token'[w]) - One(token[w])) + (One(HoldsSlot(w)') - One(HoldsSlot(w)))
    BY <1>0, <2>1, <2>2 DEF One
  <2>. QED BY <1>0, <2>1, <2>4, CountStep
<1>4. CASE P!RunEnds(w) \/ P!PassOn(w) \/ P!PollReady(w) \/ P!IdlePoll(w)
  <2>1. UNCHANGED <<searching, token, searcher>> /\ act[w].op = "none"
    BY <1>4, NothingFact DEF P!RunEnds, P!PassOn, P!PollReady, P!IdlePoll, P!flags, P!At
  <2>2. \/ UNCHANGED act \/ P!Start(w, "search", NoWorker)
        \/ \E h \in Worker : P!Start(w, "nudge", h)
    BY <1>4 DEF P!RunEnds, P!PassOn, P!PollReady, P!IdlePoll, P!EnqueueWoken
  <2>3. \A b \in P!Actor : HoldsSlot(b)' <=> HoldsSlot(b)
    <3>1. CASE UNCHANGED act BY <3>1 DEF HoldsSlot
    <3>2. CASE P!Start(w, "search", NoWorker) BY <1>0, <2>1, <3>2, SlotStart
    <3>3. ASSUME NEW h \in Worker, P!Start(w, "nudge", h)
          PROVE \A b \in P!Actor : HoldsSlot(b)' <=> HoldsSlot(b)
      BY <1>0, <2>1, <3>3, SlotStart
    <3>. QED BY <2>2, <3>1, <3>2, <3>3
  <2>. QED BY <2>1, <2>3, CountSame
<1>5. CASE \/ P!FindOwn(w) \/ P!FindNothing(w) \/ P!Extend(w)
           \/ \E v \in Worker : P!StealHalf(w, v)
  <2>1. UNCHANGED <<searching, token, searcher, act>>
    BY <1>5 DEF P!FindOwn, P!FindNothing, P!Extend, P!StealHalf, P!flags
  <2>. QED BY <2>1, CountSame DEF HoldsSlot
<1>6. CASE \/ P!Spin(w) \/ P!LastLook(w) \/ P!Park(w) \/ P!Recheck(w) \/ P!IdleWait(w)
     \/ P!Unpark(w)
  <2>1. UNCHANGED <<searching, token, searcher, act>>
    BY <1>6 DEF P!Spin, P!LastLook, P!Park, P!Recheck, P!IdleWait, P!Unpark, P!flags
  <2>. QED BY <2>1, CountSame DEF HoldsSlot
<1>7. ASSUME NEW v \in Worker, P!Watch(w, v) \/ P!StealPinned(w, v) PROVE PoolCounted'
  <2>1. UNCHANGED <<searching, token, searcher>> BY <1>7, WatchFact, StealFact DEF P!flags, P!loop
  <2>2. \A b \in P!Actor : HoldsSlot(b)' <=> HoldsSlot(b)
    BY <1>7, WatchFact, StealFact DEF HoldsSlot
  <2>. QED BY <2>1, <2>2, CountSame
<1>. QED BY <1>1, <1>2, <1>3, <1>4, <1>5, <1>6, <1>7

-----------------------------------------------------------------------------
(* Fresh work is not slept beside.                                         *)

\* Only Recheck puts a worker to sleep, beside nothing to steal.
LEMMA AwakeStep ==
  ASSUME PoolTypes, NEW w \in Worker, P!Look(w) \/ P!Run(w) \/ P!Idle(w)
  PROVE  \/ pPc'[w] # "wait"
         \/ /\ P!Recheck(w) /\ ~P!AnyStealable'
<1>. USE DEF P!Look, P!Run, P!Idle, P!Goto, P!Found, PoolTypes
<1>1. CASE P!Recheck(w)
  <2>1. UNCHANGED <<injector, local>> BY <1>1 DEF P!Recheck, P!queues
  <2>. QED BY <1>1, <2>1 DEF P!Recheck, P!HasAnyWork, P!AnyStealable
<1>2. CASE P!TakeToken(w) \/ P!FindOwn(w) \/ P!FindNothing(w) \/ P!Extend(w)
  BY <1>2 DEF P!TakeToken, P!FindOwn, P!FindNothing, P!Extend
<1>3. ASSUME NEW v \in Worker, P!StealHalf(w, v) PROVE pPc'[w] # "wait"
  BY <1>3 DEF P!StealHalf
<1>4. CASE P!StopSearching(w) \/ P!PassOn(w) \/ P!RunEnds(w)
  BY <1>4 DEF P!StopSearching, P!PassOn, P!RunEnds
<1>5. CASE P!PollReady(w) \/ P!Seek(w) \/ P!Spin(w) \/ P!GiveUp(w) \/ P!LastLook(w)
           \/ P!Park(w) \/ P!IdleWait(w) \/ P!IdlePoll(w) \/ P!Unpark(w)
  BY <1>5 DEF P!PollReady, P!Seek, P!Spin, P!GiveUp, P!LastLook, P!Park, P!IdleWait, P!IdlePoll,
       P!Unpark
<1>6. ASSUME NEW v \in Worker, P!Watch(w, v) \/ P!StealPinned(w, v) PROVE pPc'[w] # "wait"
  BY <1>6, WatchFact, StealFact DEF P!loop
<1>. QED BY <1>1, <1>2, <1>3, <1>4, <1>5, <1>6

\* Every step keeps PoolFresh: with everyone asleep only Main moves, and it finds
\* no searcher, hence takes the slot and meets a parked worker.
LEMMA PoolFreshKept ==
  ASSUME P!WorkerPoolAssumption, PoolTypes, PoolTypes', PoolPlaces, PoolCounted, PoolFresh,
       [P!Next]_P!vars
  PROVE  PoolFresh'
<1>. SUFFICES ASSUME P!AnyStealable', \A w \in Worker : P!Sleeps(w)' /\ ~token'[w]
              PROVE  \/ act'[Main].op \in {"search", "mark", "nudge"}
                     \/ act'[Main].op = "scan" /\ act'[Main].todo = Worker
  BY DEF PoolFresh
<1>0. \A w \in Worker : pPc'[w] = "wait" /\ ~notified'[w]
  BY DEF P!Sleeps
<1>1. ASSUME NEW w \in Worker, P!Look(w) \/ P!Run(w) \/ P!Idle(w) PROVE FALSE
  BY <1>0, <1>1, AwakeStep
<1>2. ASSUME NEW a \in P!Actor, P!Enqueue(a) \/ P!WakeStep(a)
      PROVE  \/ act'[Main].op \in {"search", "mark", "nudge"}
             \/ act'[Main].op = "scan" /\ act'[Main].todo = Worker
  <2>1. pPc' = pPc
    BY <1>2 DEF P!Enqueue, P!WakeStep, P!EnqueueFresh, P!Wake, P!WakeSearcher, P!Scan, P!Mark,
         P!WakeWorker, P!loop
  <2>2. \A w \in Worker : act[w] = P!Nothing /\ ~searcher[w] /\ parked[w]
    BY <1>0, <2>1 DEF PoolPlaces
  <2>3. a = Main
    <3>1. ASSUME a \in Worker PROVE FALSE
      BY <1>0, <1>2, <2>1, <2>2, <3>1, NothingFact DEF P!Enqueue, P!WakeStep, P!EnqueueFresh,
           P!Wake, P!Calls,
         P!WakeSearcher, P!Scan, P!Mark, P!WakeWorker
    <3>. QED BY <3>1 DEF P!Actor
  <2>4. CASE P!EnqueueFresh(a)
    <3>1. "search" \in P!Op /\ P!Start(Main, "search", NoWorker) /\ Main \in P!Actor
      BY <2>3, <2>4 DEF P!EnqueueFresh, P!Op
    <3>2. act'[Main] = P!Doing("search", NoWorker, {}) BY <3>1, StartFact
    <3>. QED BY <3>1, <3>2, DoingFact
  <2>5. ASSUME NEW h \in Worker, P!Wake(a, h) PROVE act'[Main].op = "nudge"
    BY <2>3, <2>5, StartFact, DoingFact DEF P!Wake, P!EnqueueWoken, P!Op
  <2>6. CASE P!WakeSearcher(a)
    <3>1. Hunting = {} BY <2>2 DEF Hunting
    <3>2. Marked = {} BY <2>6 DEF Marked, P!WakeSearcher
    <3>3. SlotHolders = {} BY <2>2, <2>3, <2>6, NothingFact DEF SlotHolders, HoldsSlot, P!Actor,
         P!WakeSearcher
    <3>4. searching = 0 BY <3>1, <3>2, <3>3, FS_EmptySet DEF PoolCounted
    <3>5. /\ P!Doing("scan", NoWorker, Worker) \in P!Act
          /\ P!Doing("scan", NoWorker, Worker).op = "scan"
          /\ P!Doing("scan", NoWorker, Worker).todo = Worker
      BY DoingFact DEF P!Op
    <3>. QED BY <2>3, <2>6, <3>4, <3>5, ActSet DEF P!WakeSearcher
  <2>7. CASE P!Scan(a)
    <3>0. Worker # {} /\ Main \in P!Actor BY DEF P!WorkerPoolAssumption, P!Actor
    <3>1. P!AnyStealable /\ \A w \in Worker : P!Sleeps(w) /\ ~token[w]
      BY <1>0, <2>1, <2>7 DEF P!Scan, P!queues, P!AnyStealable, P!Sleeps
    <3>2. act[Main].todo = Worker BY <2>3, <2>7, <3>1 DEF PoolFresh, P!Scan
    <3>3. PICK d \in P!Act, i \in Worker :
             act' = [act EXCEPT ![Main] = d] /\ d = P!Doing("mark", i, act[a].todo \ {i})
      BY <2>2, <2>3, <2>7, <3>0, <3>2, ScanFact
    <3>4. d.op = "mark" BY <3>3 DEF P!Doing
    <3>. QED BY <3>0, <3>3, <3>4, ActSet
  <2>8. CASE P!Mark(a)
    BY <2>8 DEF P!Mark, PoolPlaces, PoolTypes
  <2>9. CASE P!WakeWorker(a)
    BY <1>0, <2>2, <2>9 DEF P!WakeWorker, PoolPlaces, PoolTypes
  <2>. QED BY <1>2, <2>4, <2>5, <2>6, <2>7, <2>8, <2>9 DEF P!Enqueue, P!WakeStep
<1>3. CASE UNCHANGED P!vars
  BY <1>3 DEF P!vars, P!queues, P!flags, P!loop, PoolFresh, P!AnyStealable, P!Sleeps
<1>. QED BY <1>1, <1>2, <1>3 DEF P!Next

-----------------------------------------------------------------------------
(* The load.                                                               *)

\* n tasks at worker w ...
Column(w, n) == {w} \X (1..n)

\* ... and the tasks that lengths f count.
Units(f) == UNION {Column(w, f[w]) : w \in Worker}

\* There are n of them.
LEMMA ColumnFact ==
  ASSUME NEW w, NEW n \in Nat
  PROVE  IsFiniteSet(Column(w, n)) /\ Cardinality(Column(w, n)) = n
<1>1. IsFiniteSet({w}) /\ Cardinality({w}) = 1 BY FS_Singleton
<1>2. IsFiniteSet(1..n) /\ Cardinality(1..n) = n BY FS_Interval
<1>3. IsFiniteSet({w} \X (1..n)) /\ Cardinality({w} \X (1..n)) = 1 * n
  <2> DEFINE A == {w}  B == 1..n
  <2>1. IsFiniteSet(A) /\ IsFiniteSet(B) /\ Cardinality(A) = 1 /\ Cardinality(B) = n BY <1>1, <1>2
  <2>. HIDE DEF A, B
  <2>2. IsFiniteSet(A \X B) /\ Cardinality(A \X B) = 1 * n BY <2>1, FS_Product
  <2>. QED BY <2>2 DEF A, B
<1>. QED BY <1>3 DEF Column

\* The tasks of one worker, and those of the others.
LEMMA UnitsSplit ==
  ASSUME NEW f \in [Worker -> Nat], NEW w \in Worker
  PROVE  LET R == UNION {Column(v, f[v]) : v \in Worker \ {w}}
         IN  /\ Units(f) = R \cup Column(w, f[w])
             /\ R \cap Column(w, f[w]) = {}
             /\ IsFiniteSet(Units(f)) => 
                  /\ IsFiniteSet(R) 
                  /\ Cardinality(Units(f)) = Cardinality(R) + f[w]
<1> DEFINE R == UNION {Column(v, f[v]) : v \in Worker \ {w}}
<1>1. Units(f) = R \cup Column(w, f[w]) BY DEF Units
<1>2. R \cap Column(w, f[w]) = {} BY DEF Column
<1>3. ASSUME IsFiniteSet(Units(f)) PROVE IsFiniteSet(R)
     /\ Cardinality(Units(f)) = Cardinality(R) + f[w]
  <2>. HIDE DEF R
  <2>1. IsFiniteSet(R)
    <3>1. R \in SUBSET Units(f) BY <1>1
    <3>. QED BY <1>3, <3>1, FS_Subset
  <2>2. IsFiniteSet(Column(w, f[w])) /\ Cardinality(Column(w, f[w])) = f[w] BY ColumnFact
  <2>3. Cardinality(R \cap Column(w, f[w])) = 0 BY <1>2, FS_EmptySet
  <2>4. Cardinality(R) \in Nat BY <2>1, FS_CardinalityType
  <2>5. Cardinality(R \cup Column(w, f[w])) = Cardinality(R) + f[w] - 0
    BY <2>1, <2>2, <2>3, FS_Union
  <2>. QED BY <1>1, <2>1, <2>4, <2>5
<1>. QED BY <1>1, <1>2, <1>3

\* What a change of one length does to the number of tasks.
LEMMA UnitsChange ==
  ASSUME NEW f \in [Worker -> Nat], NEW g \in [Worker -> Nat], NEW w \in Worker,
         \A v \in Worker \ {w} : g[v] = f[v], IsFiniteSet(Units(f))
  PROVE  /\ IsFiniteSet(Units(g)) /\ Cardinality(Units(f)) \in Nat
       /\ Cardinality(Units(g)) \in Nat
         /\ Cardinality(Units(g)) = Cardinality(Units(f)) + g[w] - f[w]
<1> DEFINE R == UNION {Column(v, f[v]) : v \in Worker \ {w}}
           Q == UNION {Column(v, g[v]) : v \in Worker \ {w}}
<1>1. R = Q OBVIOUS
<1>. HIDE DEF R, Q
<1>2. IsFiniteSet(R) /\ Cardinality(Units(f)) = Cardinality(R) + f[w] BY UnitsSplit DEF R
<1>3. Units(g) = R \cup Column(w, g[w]) BY <1>1, UnitsSplit DEF Q
<1>4. IsFiniteSet(Units(g))
  <2>1. IsFiniteSet(Column(w, g[w])) BY ColumnFact
  <2>. QED BY <1>2, <1>3, <2>1, FS_Union
<1>5. Cardinality(Units(g)) = Cardinality(R) + g[w] BY <1>1, <1>4, UnitsSplit DEF Q
<1>6. Cardinality(R) \in Nat BY <1>2, FS_CardinalityType
<1>. QED BY <1>2, <1>4, <1>5, <1>6, FS_CardinalityType

\* No length is above the number of tasks.
LEMMA UnitsBound ==
  ASSUME NEW f \in [Worker -> Nat], NEW w \in Worker, IsFiniteSet(Units(f))
  PROVE  f[w] <= Cardinality(Units(f))
<1>1. Column(w, f[w]) \subseteq Units(f) BY DEF Units
<1>2. Cardinality(Column(w, f[w])) = f[w] BY ColumnFact
<1>. QED BY <1>1, <1>2, FS_Subset, FS_CardinalityType

\* Empty queues hold no task.
LEMMA UnitsZero ==
  ASSUME NEW f, \A w \in Worker : f[w] = 0
  PROVE  IsFiniteSet(Units(f)) /\ Cardinality(Units(f)) = 0
<1>1. Units(f) = {} BY DEF Units, Column
<1>. QED BY <1>1, FS_EmptySet

\* A worker with a task in its hands.
Carries(w) == pPc[w] \in {"extend", "found", "last_one", "run"}

\* Those workers.
Carriers == {w \in Worker : Carries(w)}

\* Tasks that are somewhere are no more than there are.
PoolLoad ==
  /\ IsFiniteSet(Units(local)) /\ IsFiniteSet(Units(pinned))
  /\ IsFiniteSet(Units(deferred)) /\ IsFiniteSet(Units(batch))
  /\ injector + unborn + asleep + Cardinality(Units(local)) + Cardinality(Units(pinned))
     + Cardinality(Units(deferred)) + Cardinality(Units(batch)) + Cardinality(Carriers) <= Tasks

\* A step that changes each kind of queue at one worker, and adds no task.
LEMMA LoadStep ==
  ASSUME P!WorkerPoolAssumption, PoolTypes, PoolTypes', PoolLoad,
         NEW x \in Worker, NEW y \in Worker, NEW z \in Worker, NEW u \in Worker, NEW w \in Worker,
         \A v \in Worker \ {x} : local'[v] = local[v],
         \A v \in Worker \ {y} : pinned'[v] = pinned[v],
         \A v \in Worker \ {z} : deferred'[v] = deferred[v],
         \A v \in Worker \ {u} : batch'[v] = batch[v],
         \A v \in Worker \ {w} : Carries(v)' <=> Carries(v),
         injector' + unborn' + asleep' + local'[x] + pinned'[y] + deferred'[z] + batch'[u]
           + One(Carries(w)')
         <= injector + unborn + asleep + local[x] + pinned[y] + deferred[z] + batch[u]
           + One(Carries(w))
  PROVE  PoolLoad'
<1>1. /\ IsFiniteSet(Units(local')) /\ Cardinality(Units(local)) \in Nat
     /\ Cardinality(Units(local')) \in Nat
      /\ Cardinality(Units(local')) = Cardinality(Units(local)) + local'[x] - local[x]
  BY UnitsChange DEF PoolLoad, PoolTypes
<1>2. /\ IsFiniteSet(Units(pinned')) /\ Cardinality(Units(pinned)) \in Nat
     /\ Cardinality(Units(pinned')) \in Nat
      /\ Cardinality(Units(pinned')) = Cardinality(Units(pinned)) + pinned'[y] - pinned[y]
  BY UnitsChange DEF PoolLoad, PoolTypes
<1>3. /\ IsFiniteSet(Units(deferred')) /\ Cardinality(Units(deferred)) \in Nat
     /\ Cardinality(Units(deferred')) \in Nat
      /\ Cardinality(Units(deferred')) = Cardinality(Units(deferred)) + deferred'[z] - deferred[z]
  BY UnitsChange DEF PoolLoad, PoolTypes
<1>4. /\ IsFiniteSet(Units(batch')) /\ Cardinality(Units(batch)) \in Nat
     /\ Cardinality(Units(batch')) \in Nat
      /\ Cardinality(Units(batch')) = Cardinality(Units(batch)) + batch'[u] - batch[u]
  BY UnitsChange DEF PoolLoad, PoolTypes
<1>5. /\ Cardinality(Carriers) \in Nat /\ Cardinality(Carriers') \in Nat
      /\ Cardinality(Carriers') = Cardinality(Carriers) - One(Carries(w)) + One(Carries(w)')
  <2>1. Carriers \ {w} = Carriers' \ {w} BY DEF Carriers
  <2>2. IsFiniteSet(Carriers) BY CountedFinite, FS_Subset DEF Carriers
  <2>3. One(w \in Carriers) = One(Carries(w)) /\ One(w \in Carriers') = One(Carries(w)')
       BY DEF Carriers, One
  <2>. QED BY <2>1, <2>2, <2>3, OneElement
<1>6. /\ local[x] \in Nat /\ local'[x] \in Nat /\ pinned[y] \in Nat /\ pinned'[y] \in Nat
      /\ deferred[z] \in Nat /\ deferred'[z] \in Nat /\ batch[u] \in Nat /\ batch'[u] \in Nat
      /\ One(Carries(w)) \in Nat /\ One(Carries(w)') \in Nat
  BY DEF PoolTypes, One
<1>7. /\ injector \in Nat /\ unborn \in Nat /\ asleep \in Nat /\ Tasks \in Nat
      /\ injector' \in Nat /\ unborn' \in Nat /\ asleep' \in Nat
  BY DEF PoolTypes, P!WorkerPoolAssumption
<1>. QED BY <1>1, <1>2, <1>3, <1>4, <1>5, <1>6, <1>7 DEF PoolLoad

\* A step that moves no task.
LEMMA LoadSame ==
  ASSUME PoolLoad, UNCHANGED P!queues, \A v \in Worker : Carries(v)' <=> Carries(v)
  PROVE  PoolLoad'
<1>1. Carriers' = Carriers BY DEF Carriers
<1>. QED BY <1>1 DEF PoolLoad, P!queues

\* The bounds of the types.
LEMMA LoadBounds ==
  ASSUME P!WorkerPoolAssumption, PoolTypes, PoolLoad, NEW w \in Worker
  PROVE  /\ injector <= Tasks /\ unborn <= Tasks /\ asleep <= Tasks
         /\ local[w] <= Tasks /\ pinned[w] <= Tasks /\ deferred[w] <= Tasks /\ batch[w] <= Tasks
<1>1. /\ local[w] <= Cardinality(Units(local)) /\ pinned[w] <= Cardinality(Units(pinned))
      /\ deferred[w] <= Cardinality(Units(deferred)) /\ batch[w] <= Cardinality(Units(batch))
  BY UnitsBound DEF PoolTypes, PoolLoad
<1>2. /\ Cardinality(Units(local)) \in Nat /\ Cardinality(Units(pinned)) \in Nat
      /\ Cardinality(Units(deferred)) \in Nat /\ Cardinality(Units(batch)) \in Nat
      /\ Cardinality(Carriers) \in Nat
  BY CountedFinite, FS_CardinalityType, FS_Subset DEF PoolLoad, Carriers
<1>3. local[w] \in Nat /\ pinned[w] \in Nat /\ deferred[w] \in Nat /\ batch[w] \in Nat
  BY DEF PoolTypes
<1>. QED BY <1>1, <1>2, <1>3 DEF PoolLoad, PoolTypes, P!WorkerPoolAssumption

\* Every step keeps the load.
LEMMA LoadKept ==
  ASSUME P!WorkerPoolAssumption, PoolTypes, PoolTypes', PoolPlaces, PoolLoad, [P!Next]_P!vars
  PROVE  PoolLoad'
<1> DEFINE After(x, y, z, u, w) ==
             injector' + unborn' + asleep' + local'[x] + pinned'[y] + deferred'[z] + batch'[u]
             + One(Carries(w)')
           Before(x, y, z, u, w) ==
             injector + unborn + asleep + local[x] + pinned[y] + deferred[z] + batch[u]
             + One(Carries(w))
           Only(f, g, w) == \A v \in Worker \ {w} : g[v] = f[v]
<1>. USE DEF P!Goto, P!Found, P!At, P!More, P!Less
<1>1. ASSUME NEW a \in P!Actor, P!EnqueueFresh(a) PROVE PoolLoad'
  <2>0. PICK x \in Worker : a \in Worker => x = a BY DEF P!WorkerPoolAssumption
  <2>1. Only(local, local', x) /\ Only(pinned, pinned', x) /\ Only(deferred, deferred', x)
        /\ Only(batch, batch', x) /\ \A v \in Worker : Carries(v)' <=> Carries(v)
    BY <1>1, <2>0 DEF P!EnqueueFresh, PoolTypes, P!loop, Carries
  <2>2. After(x, x, x, x, x) <= Before(x, x, x, x, x)
    BY <1>1, <2>0 DEF P!EnqueueFresh, PoolTypes, P!loop, Carries, One
  <2>. QED BY <2>1, <2>2, LoadStep
<1>2. ASSUME NEW a \in P!Actor, NEW h \in Worker, P!Wake(a, h) PROVE PoolLoad'
  <2>1. Only(local, local', h) /\ Only(pinned, pinned', h) /\ Only(deferred, deferred', h)
        /\ Only(batch, batch', h) /\ \A v \in Worker : Carries(v)' <=> Carries(v)
    BY <1>2 DEF P!Wake, P!EnqueueWoken, PoolTypes, P!loop, Carries
  <2>2. After(h, h, h, h, h) <= Before(h, h, h, h, h)
    BY <1>2 DEF P!Wake, P!EnqueueWoken, PoolTypes, P!loop, Carries, One
  <2>. QED BY <2>1, <2>2, LoadStep
<1>3. ASSUME NEW w \in Worker, NEW h \in Worker, P!EnqueueWoken(w, h),
     P!PollReady(w) \/ P!IdlePoll(w) PROVE PoolLoad'
  <2>1. Only(local, local', h) /\ Only(pinned, pinned', h) /\ Only(deferred, deferred', h)
        /\ Only(batch, batch', h) /\ \A v \in Worker \ {w} : Carries(v)' <=> Carries(v)
    BY <1>3 DEF P!PollReady, P!IdlePoll, P!EnqueueWoken, PoolTypes, P!loop, Carries
  <2>2. After(h, h, h, h, w) <= Before(h, h, h, h, w)
    BY <1>3 DEF P!PollReady, P!IdlePoll, P!EnqueueWoken, PoolTypes, P!loop, Carries, One
  <2>. QED BY <2>1, <2>2, LoadStep
<1>4. ASSUME NEW w \in Worker, P!FindOwn(w) PROVE PoolLoad'
  <2>1. Only(local, local', w) /\ Only(pinned, pinned', w) /\ Only(deferred, deferred', w)
        /\ Only(batch, batch', w) /\ \A v \in Worker \ {w} : Carries(v)' <=> Carries(v)
    BY <1>4 DEF P!FindOwn, PoolTypes, Carries
  <2>2. After(w, w, w, w, w) <= Before(w, w, w, w, w)
    BY <1>4 DEF P!FindOwn, PoolTypes, Carries, One
  <2>. QED BY <2>1, <2>2, LoadStep
<1>5. ASSUME NEW w \in Worker, NEW v \in Worker, P!StealHalf(w, v) PROVE PoolLoad'
  <2>1. Only(local, local', v) /\ Only(pinned, pinned', v) /\ Only(deferred, deferred', v)
        /\ Only(batch, batch', w) /\ \A t \in Worker \ {w} : Carries(t)' <=> Carries(t)
    BY <1>5 DEF P!StealHalf, PoolTypes, Carries
  <2>2. batch[w] = 0 BY <1>5 DEF P!StealHalf, PoolPlaces, PoolTypes
  <2>3. After(v, v, v, w, w) <= Before(v, v, v, w, w)
    BY <1>5, <2>2 DEF P!StealHalf, PoolTypes, Carries, One
  <2>. QED BY <2>1, <2>3, LoadStep
<1>6. ASSUME NEW w \in Worker, P!Extend(w) PROVE PoolLoad'
  <2>1. Only(local, local', w) /\ Only(pinned, pinned', w) /\ Only(deferred, deferred', w)
        /\ Only(batch, batch', w) /\ \A v \in Worker \ {w} : Carries(v)' <=> Carries(v)
    BY <1>6 DEF P!Extend, PoolTypes, Carries
  <2>2. After(w, w, w, w, w) <= Before(w, w, w, w, w)
    BY <1>6 DEF P!Extend, PoolTypes, Carries, One
  <2>. QED BY <2>1, <2>2, LoadStep
<1>7. ASSUME NEW w \in Worker, NEW v \in Worker, P!StealPinned(w, v) PROVE PoolLoad'
  <2>1. Only(local, local', v) /\ Only(pinned, pinned', v) /\ Only(deferred, deferred', v)
        /\ Only(batch, batch', v) /\ \A t \in Worker \ {w} : Carries(t)' <=> Carries(t)
    BY <1>7, StealFact DEF PoolTypes, Carries
  <2>2. After(v, v, v, v, w) <= Before(v, v, v, v, w)
    BY <1>7, StealFact DEF PoolTypes, Carries, One
  <2>. QED BY <2>1, <2>2, LoadStep
<1>8. ASSUME NEW w \in Worker, P!RunEnds(w) PROVE PoolLoad'
  <2>1. Only(local, local', w) /\ Only(pinned, pinned', w) /\ Only(deferred, deferred', w)
        /\ Only(batch, batch', w) /\ \A v \in Worker \ {w} : Carries(v)' <=> Carries(v)
    BY <1>8 DEF P!RunEnds, PoolTypes, Carries
  <2>2. After(w, w, w, w, w) <= Before(w, w, w, w, w)
    BY <1>8 DEF P!RunEnds, PoolTypes, Carries, One
  <2>. QED BY <2>1, <2>2, LoadStep
<1>9. ASSUME NEW a \in P!Actor, P!WakeStep(a) PROVE PoolLoad'
  BY <1>9, LoadSame DEF P!WakeStep, P!WakeSearcher, P!Scan, P!Mark, P!WakeWorker, P!loop, Carries
<1>10. ASSUME NEW w \in Worker,
     P!TakeToken(w) \/ P!FindNothing(w) \/ P!StopSearching(w) \/ P!PassOn(w) PROVE PoolLoad'
  <2>1. UNCHANGED P!queues
    BY <1>10 DEF P!TakeToken, P!FindNothing, P!StopSearching, P!PassOn
  <2>2. \A v \in Worker : Carries(v)' <=> Carries(v)
    BY <1>10 DEF P!TakeToken, P!FindNothing, P!StopSearching, P!PassOn, Carries, PoolTypes
  <2>. QED BY <2>1, <2>2, LoadSame
<1>11. ASSUME NEW w \in Worker,
              P!Seek(w) \/ P!Spin(w) \/ P!GiveUp(w) \/ P!LastLook(w) \/ P!Park(w)
              \/ P!Recheck(w) \/ P!IdleWait(w) \/ P!Unpark(w)
       PROVE PoolLoad'
  <2>1. UNCHANGED P!queues
    BY <1>11 DEF P!Seek, P!Spin, P!GiveUp, P!LastLook, P!Park, P!Recheck, P!IdleWait, P!Unpark
  <2>2. \A v \in Worker : Carries(v)' <=> Carries(v)
    BY <1>11 DEF P!Seek, P!Spin, P!GiveUp, P!LastLook, P!Park, P!Recheck, P!IdleWait, P!Unpark,
         Carries, PoolTypes
  <2>. QED BY <2>1, <2>2, LoadSame
<1>12. CASE UNCHANGED P!vars
  BY <1>12, LoadSame DEF P!vars, P!loop, Carries
<1>13. ASSUME NEW w \in Worker, P!PollReady(w) \/ P!IdlePoll(w) PROVE PoolLoad'
  BY <1>3, <1>13 DEF P!PollReady, P!IdlePoll
<1>14. ASSUME NEW w \in Worker, NEW v \in Worker, P!Watch(w, v) PROVE PoolLoad'
  BY <1>14, WatchFact, LoadSame DEF P!loop, Carries
<1>. QED
  BY <1>1, <1>2, <1>4, <1>5, <1>6, <1>7, <1>8, <1>9, <1>10, <1>11, <1>12, <1>13, <1>14
  DEF P!Next, P!Enqueue, P!Look, P!Run, P!Idle
-----------------------------------------------------------------------------
(* The invariant of the pool, and its theorems.                            *)

\* The inductive invariant.
PoolInv ==
  /\ PoolTypes /\ PoolPlaces /\ PoolCounted /\ PoolLoad
  /\ P!OwnWorkSeen /\ PoolFresh

\* The pool starts in it, with all tasks unborn ...
LEMMA PoolStarts ==
  ASSUME P!WorkerPoolAssumption, P!Quiet, unborn \in Nat, local \in [Worker -> Nat],
         IsFiniteSet(Units(local)), unborn + Cardinality(Units(local)) <= Tasks
  PROVE  PoolInv
<1>. USE DEF P!Quiet
<1>1. PoolTypes /\ PoolPlaces
  BY NothingFact DEF PoolTypes, PoolPlaces, P!Where, P!Actor, P!Nothing, P!Doing
<1>2. Hunting = {} /\ Marked = {} /\ SlotHolders = {} /\ Carriers = {}
  BY NothingFact DEF Hunting, Marked, SlotHolders, HoldsSlot, Carriers, Carries
<1>3. PoolCounted
  BY <1>2, FS_EmptySet DEF PoolCounted
<1>4. PoolLoad
  <2>1. /\ IsFiniteSet(Units(pinned)) /\ Cardinality(Units(pinned)) = 0
        /\ IsFiniteSet(Units(deferred)) /\ Cardinality(Units(deferred)) = 0
        /\ IsFiniteSet(Units(batch)) /\ Cardinality(Units(batch)) = 0
    BY UnitsZero
  <2>2. Cardinality(Units(local)) \in Nat /\ Tasks \in Nat
    BY FS_CardinalityType DEF P!WorkerPoolAssumption
  <2>3. Cardinality(Carriers) = 0
    BY <1>2, FS_EmptySet
  <2>. QED
    BY <2>1, <2>2, <2>3 DEF PoolLoad
<1>5. P!OwnWorkSeen /\ PoolFresh
  <2>1. PICK w \in Worker : TRUE
    BY DEF P!WorkerPoolAssumption
  <2>. QED
    BY <2>1 DEF P!OwnWorkSeen, PoolFresh, P!Sleeps
<1>. QED
  BY <1>1, <1>3, <1>4, <1>5 DEF PoolInv

\* ... or with all of them on the queue of one worker.
LEMMA InitPool ==
  ASSUME P!WorkerPoolAssumption, PoolInit
  PROVE  PoolInv
<1>1. CASE P!Init
  <2>1. local = [w \in Worker |-> 0] /\ unborn = Tasks /\ P!Quiet /\ Tasks \in Nat
    BY <1>1 DEF P!Init, P!WorkerPoolAssumption
  <2>2. IsFiniteSet(Units(local)) /\ Cardinality(Units(local)) = 0
    BY <2>1, UnitsZero
  <2>3. unborn \in Nat /\ local \in [Worker -> Nat] /\ unborn + Cardinality(Units(local)) <= Tasks
    BY <2>1, <2>2
  <2>. QED
    BY <2>1, <2>2, <2>3, PoolStarts
<1>2. CASE /\ unborn = 0 /\ P!Quiet
           /\ \E spawner \in Worker :
                local = [w \in Worker |-> IF w = spawner THEN Tasks ELSE 0]
  <2>1. PICK s \in Worker : local = [w \in Worker |-> IF w = s THEN Tasks ELSE 0]
    BY <1>2
  <2>2. Tasks \in Nat /\ local \in [Worker -> Nat] /\ local[s] = Tasks
        /\ \A v \in Worker \ {s} : local[v] = 0
    BY <2>1 DEF P!WorkerPoolAssumption
  <2>3. Units(local) = Column(s, Tasks)
    BY <2>2 DEF Units, Column
  <2>4. IsFiniteSet(Units(local)) /\ Cardinality(Units(local)) = Tasks
    BY <2>2, <2>3, ColumnFact
  <2>. QED
    BY <1>2, <2>2, <2>4, PoolStarts
<1>. QED
  BY <1>1, <1>2 DEF PoolInit

\* Every step of the pool keeps it.
LEMMA StepPool ==
  ASSUME P!WorkerPoolAssumption, PoolInv, [P!Next]_P!vars
  PROVE  PoolInv'
<1>1. PoolTypes'
  BY PoolTypesKept DEF PoolInv
<1>2. PoolPlaces' /\ P!OwnWorkSeen'
  BY PoolPlacesKept, OwnWorkKept DEF PoolInv
<1>3. PoolCounted'
  <2>1. ASSUME NEW a \in P!Actor, P!Enqueue(a) \/ P!WakeStep(a) PROVE PoolCounted'
    BY <1>1, <2>1, CountActs DEF PoolInv
  <2>2. ASSUME NEW w \in Worker, P!Look(w) \/ P!Run(w) \/ P!Idle(w) PROVE PoolCounted'
    BY <1>1, <2>2, CountLoop DEF PoolInv
  <2>3. CASE UNCHANGED P!vars
    BY <2>3, CountSame DEF P!vars, P!flags, P!loop, PoolInv, HoldsSlot
  <2>. QED
    BY <2>1, <2>2, <2>3 DEF P!Next
<1>4. PoolLoad' /\ PoolFresh'
  BY <1>1, LoadKept, PoolFreshKept DEF PoolInv
<1>. QED
  BY <1>1, <1>2, <1>3, <1>4 DEF PoolInv

\* The invariant holds of the pool in every behaviour of the run.
LEMMA PoolInvariance == SchedulerSpec => [](part = "pool" => PoolInv)
<1>1. P!WorkerPoolAssumption
  BY SchedulerBounds
<1>2. SchedulerInit => PoolInv
  BY <1>1, InitPool DEF SchedulerInit
<1>3. PoolInv /\ [SchedulerNext]_<<part, vars, pVars>> => PoolInv'
  <2>1. SUFFICES ASSUME PoolInv, [SchedulerNext]_<<part, vars, pVars>> PROVE PoolInv'
    OBVIOUS
  <2>2. [P!Next]_P!vars
    BY <2>1 DEF SchedulerNext, pVars, P!vars, P!queues, P!flags, P!loop
  <2>. QED
    BY <1>1, <2>1, <2>2, StepPool
<1>4. SchedulerSpec => []PoolInv
  BY <1>2, <1>3, PTL DEF SchedulerSpec
<1>. QED
  BY <1>4, PTL

\* The tasks move as Spec says, or not at all.
LEMMA TasksMove == SchedulerSpec => Spec
<1>1. SchedulerInit => Init
  BY DEF SchedulerInit
<1>2. [SchedulerNext]_<<part, vars, pVars>> => [Next]_vars
  BY DEF SchedulerNext
<1>. QED
  BY <1>1, <1>2, PTL DEF SchedulerSpec, Spec

\* A behaviour exercises one of the two.
PartKnown == part \in {"tasks", "pool"}

\* The types, with their bounds: a queue of the pool never holds more tasks than
\* there are, the counter of searchers at most three for a worker and one for
\* Main.
THEOREM SchedulerTypes == SchedulerSpec => []TypesOK
<1>1. PoolInv => P!TypeOK
  <2>1. SUFFICES ASSUME PoolInv PROVE P!TypeOK
    OBVIOUS
  <2>2. P!WorkerPoolAssumption /\ Tasks \in Nat
    BY SchedulerBounds DEF P!WorkerPoolAssumption
  <2>3. PICK w \in Worker : TRUE
    BY <2>2 DEF P!WorkerPoolAssumption
  <2>4. {injector, unborn, asleep} \subseteq 0..Tasks
    BY <2>1, <2>2, <2>3, LoadBounds DEF PoolInv, PoolTypes
  <2>5. \A v \in Worker : /\ local[v] \in 0..Tasks /\ pinned[v] \in 0..Tasks
                          /\ deferred[v] \in 0..Tasks /\ batch[v] \in 0..Tasks
    BY <2>1, <2>2, LoadBounds DEF PoolInv, PoolTypes
  <2>6. {local, pinned, deferred, batch} \subseteq P!Count
    BY <2>1, <2>5 DEF PoolInv, PoolTypes, P!Count
  <2>7. searching \in 0..(3 * P!Cardinality(Worker) + 1)
    <3>1. /\ Cardinality(Worker) \in Nat /\ Cardinality(Hunting) \in Nat
          /\ Cardinality(Marked) \in Nat /\ Cardinality(SlotHolders) \in Nat
      BY <2>2, CountedFinite, FS_CardinalityType
    <3>. QED
      BY <2>1, <2>2, <3>1, CountedFinite, InstanceCard DEF PoolInv, PoolCounted
  <2>. QED
    BY <2>1, <2>4, <2>6, <2>7 DEF P!TypeOK, PoolInv, PoolTypes
<1>2. SchedulerSpec => []TypeOK
  BY TasksMove, TypeCorrect, PTL
<1>3. SchedulerSpec => []PartKnown
  <2>1. SchedulerInit => PartKnown
    BY SchedulerBounds DEF SchedulerInit, PartKnown
  <2>2. PartKnown /\ [SchedulerNext]_<<part, vars, pVars>> => PartKnown'
    BY DEF SchedulerNext, PartKnown
  <2>. QED
    BY <2>1, <2>2, PTL DEF SchedulerSpec
<1>4. (part = "pool" => PoolInv) /\ PartKnown /\ TypeOK => TypesOK
  BY <1>1 DEF TypesOK, PartKnown
<1>. QED
  BY <1>2, <1>3, <1>4, PoolInvariance, PTL

\* Scheduler.searching is the number of searching workers, tokens not taken and
\* wakers that hold the slot, however wakes and park timeouts meet.
THEOREM SearchersAlwaysCounted == SchedulerSpec => []SearchersCounted
<1>1. (part = "pool" => PoolInv) => SearchersCounted
  BY InstanceCard DEF SearchersCounted, P!SearchersCounted, PoolInv, PoolCounted, Hunting,
     Marked, SlotHolders, HoldsSlot
<1>. QED
  BY <1>1, PoolInvariance, PTL

\* No worker sleeps beside work only it may run, unless it is about to be
\* notified, and the pool does not sleep beside a fresh task, unless one of it
\* was left the search slot.
THEOREM WorkAlwaysSeen == SchedulerSpec => []WorkSeen
<1>1. PoolInv => P!FreshWorkSeen
  BY ActorFact, NothingFact DEF PoolInv, PoolFresh, P!FreshWorkSeen, P!Stranded
<1>2. (part = "pool" => PoolInv) => WorkSeen
  BY <1>1 DEF WorkSeen, PoolInv
<1>. QED
  BY <1>2, PoolInvariance, PTL
=============================================================================
