----------------------------- MODULE NetIoProofs -----------------------------
(***************************************************************************)
(* Theorems about NetIo: the types, that the kernel never recycles a       *)
(* descriptor number under a call inside it (fd_handle.rs), and that no    *)
(* parked reader misses its edge, its deadline or a close (netpoll.rs).    *)
(***************************************************************************)
EXTENDS NetIo, FiniteSetTheorems, TLAPS

\* The number is closed, or the present handle's, or on its way from the kernel
\* to `open`; whoever holds it, or closes it, or may yet acquire it, holds the
\* description the slot names.
NumberTracksSlot ==
  /\ number \in {Free, Slots!NextGen(slot)} \/ (slot.opened /\ number = slot.gen)
  /\ slot.opened \/ slot = Slots!Unopened
  /\ slot.live \/ Inside # {} \/ Finishing # {} => slot.opened /\ number = slot.gen
  /\ slot.live => Finishing = {}

\* A call that runs has a worker to itself, which does not poll meanwhile.
Seated ==
  /\ \A t \in Task :
       IF pc[t] \in {"idle", "asleep"} THEN on[t] = NoWorker
       ELSE on[t] \in Worker /\ poll[on[t]] = "none"
  /\ \A t, u \in Task : t # u /\ on[t] = on[u] => on[t] = NoWorker

\* What a poll has in hand belongs to its phase.
PollPhases ==
  \A w \in Worker : /\ harvest[w] => poll[w] = "take"
                    /\ poll[w] # "wake" => toWake[w] = {}

\* By the time the number is closed no poller tracks it.
FinishSwept ==
  \A p \in Finishing : \A w \in Worker \ todo[p] : fds[w] = "none"

\* An edge between the read that would block and the registration is still in
\* the kernel: the worker cannot have polled.
EdgeKept ==
  \A t \in Task : pc[t] = "register" /\ inSet[on[t]] /\ Readable => edge[on[t]]

\* The tasks from their registration to the end of their wait.
Waiting == {t \in Task : pc[t] \in {"ask", "self", "park", "asleep"}}

\* An entry that is not stale is of the wait its task is in, the only one of it,
\* and not resolved; a call that does not wait has no outcome.
Entries ==
  /\ \A w \in Worker : \A x \in waiters[w] : ~x.stale =>
       /\ x.task \in Waiting /\ x.timed = timed[x.task] /\ outcome[x.task] = "pending"
       /\ \A v \in Worker : Waits(x.task, v) => v = w
  /\ \A t \in Task \ Waiting : outcome[t] = "pending"

\* A task is Running until it parks.
Awake ==
  \A t \in Task : word[t].st \in (IF pc[t] = "asleep" THEN {"ready", "parked"} ELSE {"running"})

\* Somebody has still to wake a task; somebody has still to sweep a poller; a task
\* is on the list of a poller that will get the next edge, or has it already.
ToBeWoken(t) == \E a \in Proc \cup Worker : t \in toWake[a]
ToBeSwept(w) == \E p \in Proc : pc[p] \in {"shutdown", "self", "notify"} /\ w \in todo[p]
ListedAt(t, w) ==
  /\ outcome[t] = "pending" /\ Waits(t, w) /\ fds[w] # "none" /\ inSet[w]
  /\ Readable => edge[w] \/ harvest[w]

\* From its registration on a wait is covered: its task will find a wake when it
\* parks, or has one coming, or is listed where the next edge will find it, and,
\* once it has asked, where a close has found it live or has yet to sweep.
Flagged(t) == word[t].st = "ready" \/ (word[t].st = "running" /\ word[t].wake)
Watched(t, w) == pc[t] = "ask" \/ IsLive(t) \/ ToBeSwept(w)
CoveredAt(t) ==
  Flagged(t) \/ ToBeWoken(t) \/ \E w \in Worker : ListedAt(t, w) /\ Watched(t, w)
Covered == \A t \in Waiting : CoveredAt(t)

\* The inductive invariant.
IInv ==
  /\ TypeOK /\ NumberTracksSlot /\ NumberHeld /\ Seated /\ PollPhases
  /\ RegistryTracksKernel /\ FinishSwept /\ EdgeKept /\ Entries /\ Awake /\ Covered

-----------------------------------------------------------------------------
(* The operators                                                           *)

\* The users of a number are counted by a natural number.
LEMMA UsersBound == Cardinality(Proc) \in Nat
BY NetIoAssumption, FS_CardinalityType

\* A wake of a word, its suspension and its resumption are words again; what
\* each does to the run state and the wake flag.
LEMMA Wakes ==
  ASSUME NEW w \in Sched!Word
  PROVE  /\ Sched!WokenWord(w) \in Sched!Word
         /\ w.st = "parked" => Sched!WokenWord(w).st = "ready"
         /\ w.st = "running" => Sched!WokenWord(w).st = "running" /\ Sched!WokenWord(w).wake
         /\ w.st \in {"ready", "done"} => Sched!WokenWord(w) = w
BY DEF Sched!Word, Sched!RunState, Sched!WokenWord, Sched!Claimable, Sched!ClaimedWord,
       Sched!Clear, Sched!Pendable, Sched!PendedWord

\* A suspension parks a task unless a wake is pending.
LEMMA Suspension ==
  ASSUME NEW w \in Sched!Word
  PROVE  /\ Sched!YieldedWord(w) \in Sched!Word
         /\ Sched!YieldedWord(w).st \in {"ready", "parked"}
         /\ w.wake => Sched!YieldedWord(w).st = "ready"
BY DEF Sched!Word, Sched!RunState, Sched!YieldedWord, Sched!Clear

\* A resumed task is Running.
LEMMA Resumption ==
  ASSUME NEW w \in Sched!Word
  PROVE  /\ Sched!RunningWord(w, NoWorker) \in Sched!Word
         /\ Sched!RunningWord(w, NoWorker).st = "running"
BY DEF Sched!Word, Sched!RunState, Sched!RunningWord, Sched!Clear

\* The generation a call without a handle is given, and the entries of a poller.
LEMMA ZeroGen == 0 \in Gen
BY NetIoAssumption DEF Gen

\* The entry of a registration, and what a resumption makes of one.
LEMMA EntryTyped ==
  ASSUME NEW t \in Task, NEW b \in BOOLEAN
  PROVE  [task |-> t, stale |-> FALSE, timed |-> b] \in Waiter
BY DEF Waiter

\* An entry is of a task.
LEMMA EntryTask == ASSUME NEW x \in Waiter PROVE x.task \in Task
BY DEF Waiter

\* An abandoned entry is an entry.
LEMMA EntryAbandoned ==
  ASSUME NEW t \in Task, NEW x \in Waiter
  PROVE  [x EXCEPT !.stale = @ \/ x.task = t] \in Waiter
<1>1. (x.stale \/ x.task = t) \in BOOLEAN BY DEF Waiter
<1>. QED BY <1>1 DEF Waiter

\* A poller with one entry more.
LEMMA EntryAdded ==
  ASSUME NEW f \in [Worker -> SUBSET Waiter], NEW w \in Worker, NEW x \in Waiter
  PROVE  [f EXCEPT ![w] = @ \cup {x}] \in [Worker -> SUBSET Waiter]
OBVIOUS

\* What each decision on the slot does to its fields.
LEMMA SlotSteps ==
  ASSUME NEW s \in Slots!Slot(Gen)
  PROVE  /\ Slots!CanAcquire(s, s.gen) => Slots!Acquired(s) \in Slots!Slot(Gen)
         /\ Slots!CanRelease(s, s.gen) => Slots!Released(s) \in Slots!Slot(Gen)
         /\ Slots!Closed(s) \in Slots!Slot(Gen)
         /\ Slots!NextGen(s) \in Gen => Slots!Opened(s) \in Slots!Slot(Gen)
<1>. USE UsersBound DEF Slots!Slot
<1>1. Slots!CanAcquire(s, s.gen) => Slots!Acquired(s) \in Slots!Slot(Gen)
  BY DEF Slots!CanAcquire, Slots!Acquired
<1>2. Slots!CanRelease(s, s.gen) => Slots!Released(s) \in Slots!Slot(Gen)
  BY DEF Slots!CanRelease, Slots!Released
<1>3. Slots!Closed(s) \in Slots!Slot(Gen) BY DEF Slots!Closed
<1>4. Slots!NextGen(s) \in Gen => Slots!Opened(s) \in Slots!Slot(Gen) BY DEF Slots!Opened
<1>. QED BY <1>1, <1>2, <1>3, <1>4

-----------------------------------------------------------------------------
(* Types                                                                   *)

\* The types of what the kernel and the slot hold.
KernelTyped ==
  /\ slot \in Slots!Slot(Gen) /\ number \in Gen \cup {Free}
  /\ rx \in [Gen -> {"empty", "data", "shut"}]
  /\ inSet \in [Worker -> BOOLEAN] /\ edge \in [Worker -> BOOLEAN]
  /\ harvest \in [Worker -> BOOLEAN]

\* The types of what the pollers hold.
PollersTyped ==
  /\ fds \in [Worker -> {"none", "clear", "ready"}]
  /\ waiters \in [Worker -> SUBSET Waiter]
  /\ poll \in [Worker -> {"none", "take", "wake"}]
  /\ outcome \in [Task -> {"pending", "ready", "timed out", "closed"}]

\* The types of the calls and of the words.
CallsTyped ==
  /\ word \in [Task -> Sched!Word] /\ on \in [Task -> Worker \cup {NoWorker}]
  /\ handle \in [Proc -> Gen] /\ timed \in [Proc -> BOOLEAN]
  /\ pc \in [Proc -> {"idle", "read", "register", "ask", "ask retry", "self", "park",
                      "asleep", "release", "shutdown", "notify", "finish"}]
  /\ todo \in [Proc -> SUBSET Worker] /\ toWake \in [Proc \cup Worker -> SUBSET Task]

\* The type invariant in three parts, of which few steps change more than one.
LEMMA TypeParts == TypeOK <=> KernelTyped /\ PollersTyped /\ CallsTyped
BY DEF TypeOK, KernelTyped, PollersTyped, CallsTyped

\* The kernel's side.
LEMMA KernelTypesKept ==
  ASSUME KernelTyped, NumberTracksSlot, [Next]_vars
  PROVE  KernelTyped'
<1>. USE DEF KernelTyped, kernel
<1>1. CASE PeerSends BY <1>1 DEF PeerSends, Becomes, Free, Gen
<1>2. CASE KernelOpens
  BY <1>2, NetIoAssumption DEF KernelOpens, Gen, Slots!NextGen, Slots!Slot
<1>3. CASE Open
  <2>1. Slots!NextGen(slot) \in Gen
    BY <1>3 DEF Open, NumberTracksSlot, Free, Slots!Unopened, Slots!NextGen, Gen, Slots!Slot
  <2>. QED BY <1>3, <2>1, SlotSteps DEF Open
<1>4. ASSUME NEW p \in Proc, NEW g \in Gen, NEW w \in Worker \cup {NoWorker},
             NEW bounded \in BOOLEAN, Start(p, g, w, bounded)
      PROVE  KernelTyped'
  BY <1>4, SlotSteps DEF Start, Slots!CanAcquire, Slots!IsLive
<1>5. ASSUME NEW p \in Proc, NEW g \in Gen, NEW w \in Worker \cup {NoWorker}, Close(p, g, w)
      PROVE  KernelTyped'
  BY <1>5, SlotSteps DEF Close
<1>6. ASSUME NEW p \in Proc, Read(p) PROVE KernelTyped'
  BY <1>6 DEF Read, Readable, Free, Gen
<1>7. ASSUME NEW p \in Proc, Release(p) PROVE KernelTyped'
  BY <1>7, SlotSteps DEF Release, Slots!CanRelease
<1>8. ASSUME NEW p \in Proc, Shutdown(p) PROVE KernelTyped'
  BY <1>8 DEF Shutdown, Becomes, Free, Gen
<1>9. ASSUME NEW p \in Proc, Swept(p) PROVE KernelTyped'
  <2>1. CASE pc[p] = "finish"
    <3>1. number' = Free /\ rx' \in [Gen -> {"empty", "data", "shut"}]
          /\ inSet' = [w \in Worker |-> FALSE] /\ edge' = [w \in Worker |-> FALSE]
          /\ UNCHANGED <<slot, harvest>>
      BY <1>9, <2>1 DEF Swept
    <3>. QED BY <3>1
  <2>2. CASE pc[p] # "finish" BY <1>9, <2>2 DEF Swept
  <2>. QED BY <2>1, <2>2
<1>10. ASSUME NEW p \in Proc, NEW w \in Worker, Sweep(p, w) PROVE KernelTyped'
  BY <1>10 DEF Sweep
<1>11. ASSUME NEW t \in Task, Register(t) PROVE KernelTyped'
  BY <1>11 DEF Register, Readable
<1>12. ASSUME NEW w \in Worker, EpollWait(w) PROVE KernelTyped'
  BY <1>12 DEF EpollWait, Readable
<1>13. ASSUME NEW w \in Worker, Take(w) PROVE KernelTyped' BY <1>13 DEF Take
<1>14. CASE UNCHANGED vars BY <1>14 DEF vars
<1>15. CASE \/ \E a \in Proc \cup Worker, t \in Task : Wake(a, t)
            \/ \E t \in Task : WouldBlock(t)
            \/ \E t \in Task : Ask(t)
            \/ \E t \in Task : Park(t)
            \/ \E t \in Task : StrayWake(t)
            \/ \E t \in Task, w \in Worker : Resume(t, w)
            \/ \E w \in Worker : Polled(w)
  BY <1>15 DEF Wake, WouldBlock, Ask, Park, StrayWake, Resume, Polled
<1>. HIDE DEF KernelTyped, kernel
<1>. QED BY <1>1, <1>2, <1>3, <1>4, <1>5, <1>6, <1>7, <1>8, <1>9, <1>10, <1>11, <1>12,
            <1>13, <1>14, <1>15 DEF Next

\* The pollers' side.
LEMMA PollerTypesKept ==
  ASSUME PollersTyped, CallsTyped, Seated, [Next]_vars
  PROVE  PollersTyped'
<1>. USE DEF PollersTyped, registry
<1>1. ASSUME NEW p \in Proc, NEW w \in Worker, Sweep(p, w) PROVE PollersTyped'
  BY <1>1 DEF Sweep, Resolved
<1>2. ASSUME NEW t \in Task, Register(t) PROVE PollersTyped'
  <2>1. on[t] \in Worker BY <1>2 DEF Register, Seated
  <2>. DEFINE entry == [task |-> t, stale |-> FALSE, timed |-> timed[t]]
  <2>2. entry \in Waiter BY EntryTyped DEF CallsTyped, Proc
  <2>5. waiters' \in {waiters, [waiters EXCEPT ![on[t]] = @ \cup {entry}]}
    BY <1>2 DEF Register
  <2>. HIDE DEF entry
  <2>6. waiters \in [Worker -> SUBSET Waiter] OBVIOUS
  <2>7. [waiters EXCEPT ![on[t]] = @ \cup {entry}] \in [Worker -> SUBSET Waiter]
    <3>. HIDE DEF PollersTyped
    <3>. QED BY <2>1, <2>2, <2>6, EntryAdded
  <2>3. waiters' \in [Worker -> SUBSET Waiter] BY <2>6, <2>5, <2>7
  <2>4. fds' \in [Worker -> {"none", "clear", "ready"}] BY <1>2, <2>1 DEF Register
  <2>. QED BY <1>2, <2>3, <2>4 DEF Register
<1>3. ASSUME NEW t \in Task, NEW w \in Worker, Resume(t, w) PROVE PollersTyped'
  <2>. DEFINE Lapsed(x) == [x EXCEPT !.stale = @ \/ x.task = t]
  <2>1. \A x \in Waiter : Lapsed(x) \in Waiter BY EntryAbandoned
  <2>2. waiters' = [v \in Worker |-> {Lapsed(x) : x \in waiters[v]}]
    BY <1>3 DEF Resume, Abandoned
  <2>. HIDE DEF Lapsed
  <2>4. waiters' \in [Worker -> SUBSET Waiter] BY <2>1, <2>2
  <2>. QED BY <1>3, <2>4 DEF Resume
<1>4. ASSUME NEW w \in Worker, EpollWait(w) PROVE PollersTyped' BY <1>4 DEF EpollWait
<1>5. ASSUME NEW w \in Worker, Take(w) PROVE PollersTyped'
  <2>1. outcome' \in [Task -> {"pending", "ready", "timed out", "closed"}]
    BY <1>5 DEF Take, Resolved
  <2>2. PICK gone : waiters' = [waiters EXCEPT ![w] = @ \ gone] BY <1>5 DEF Take
  <2>5. waiters' \in [Worker -> SUBSET Waiter] BY <2>2
  <2>3. fds' \in [Worker -> {"none", "clear", "ready"}] BY <1>5 DEF Take
  <2>. QED BY <1>5, <2>1, <2>5, <2>3 DEF Take
<1>6. ASSUME NEW w \in Worker, Polled(w) PROVE PollersTyped' BY <1>6 DEF Polled
<1>7. CASE UNCHANGED vars BY <1>7 DEF vars
<1>8. CASE \/ PeerSends
           \/ KernelOpens
           \/ Open
           \/ \E p \in Proc, g \in Gen, w \in Worker \cup {NoWorker}, bounded \in BOOLEAN :
                Start(p, g, w, bounded)
           \/ \E p \in Proc, g \in Gen, w \in Worker \cup {NoWorker} : Close(p, g, w)
           \/ \E p \in Proc : Read(p)
           \/ \E p \in Proc : Release(p)
           \/ \E p \in Proc : Shutdown(p)
           \/ \E p \in Proc : Swept(p)
           \/ \E a \in Proc \cup Worker, t \in Task : Wake(a, t)
           \/ \E t \in Task : WouldBlock(t)
           \/ \E t \in Task : Ask(t)
           \/ \E t \in Task : Park(t)
           \/ \E t \in Task : StrayWake(t)
  BY <1>8 DEF PeerSends, KernelOpens, Open, Start, Close, Read, Release, Shutdown, Swept,
     Wake, WouldBlock, Ask, Park, StrayWake
<1>. HIDE DEF PollersTyped, registry
<1>. QED BY <1>1, <1>2, <1>3, <1>4, <1>5, <1>6, <1>7, <1>8 DEF Next

\* The calls' side.
LEMMA CallTypesKept ==
  ASSUME PollersTyped, CallsTyped, [Next]_vars
  PROVE  CallsTyped'
<1>. USE DEF CallsTyped, calls, Goto
<1>1. ASSUME NEW p \in Proc, NEW g \in Gen, NEW w \in Worker \cup {NoWorker},
             NEW bounded \in BOOLEAN, Start(p, g, w, bounded)
      PROVE  CallsTyped'
  BY <1>1 DEF Start, RunsOn
<1>2. ASSUME NEW p \in Proc, NEW g \in Gen, NEW w \in Worker \cup {NoWorker}, Close(p, g, w)
      PROVE  CallsTyped'
  BY <1>2 DEF Close, RunsOn
<1>3. ASSUME NEW p \in Proc, Read(p) PROVE CallsTyped' BY <1>3 DEF Read
<1>4. ASSUME NEW p \in Proc, Release(p) PROVE CallsTyped'
  <2>1. handle' \in [Proc -> Gen] /\ timed' \in [Proc -> BOOLEAN]
    <3>2. CASE Returns(p) BY ZeroGen, <3>2 DEF Returns
    <3>3. CASE UNCHANGED <<handle, timed>> BY <3>3
    <3>. QED BY <1>4, <3>2, <3>3 DEF Release
  <2>2. on' \in [Task -> Worker \cup {NoWorker}] BY <1>4 DEF Release, Returns, Suspends
  <2>3. pc' \in [Proc -> {"idle", "read", "register", "ask", "ask retry", "self", "park",
                       "asleep", "release", "shutdown", "notify", "finish"}]
        /\ todo' \in [Proc -> SUBSET Worker]
    BY <1>4 DEF Release, Returns
  <2>. QED BY <1>4, <2>1, <2>2, <2>3 DEF Release
<1>5. ASSUME NEW p \in Proc, Shutdown(p) PROVE CallsTyped' BY <1>5 DEF Shutdown
<1>6. ASSUME NEW p \in Proc, Swept(p) PROVE CallsTyped'
  <2>1. handle' \in [Proc -> Gen] /\ timed' \in [Proc -> BOOLEAN]
    <3>2. CASE Returns(p) BY ZeroGen, <3>2 DEF Returns
    <3>3. CASE UNCHANGED <<handle, timed>> BY <3>3
    <3>. QED BY <1>6, <3>2, <3>3 DEF Swept
  <2>2. on' \in [Task -> Worker \cup {NoWorker}] BY <1>6 DEF Swept, Returns, Suspends
  <2>3. pc' \in [Proc -> {"idle", "read", "register", "ask", "ask retry", "self", "park",
                       "asleep", "release", "shutdown", "notify", "finish"}]
    BY <1>6 DEF Swept, Returns
  <2>. QED BY <1>6, <2>1, <2>2, <2>3 DEF Swept
<1>7. ASSUME NEW p \in Proc, NEW w \in Worker, Sweep(p, w) PROVE CallsTyped'
  <2>1. \A S \in SUBSET waiters[w] : TasksOf(S) \subseteq Task
    <3>1. \A x \in waiters[w] : x.task \in Task BY EntryTask DEF PollersTyped
    <3>. QED BY <3>1 DEF TasksOf
  <2>2. toWake' \in [Proc \cup Worker -> SUBSET Task] BY <1>7, <2>1 DEF Sweep
  <2>. QED BY <1>7, <2>2 DEF Sweep
<1>8. ASSUME NEW a \in Proc \cup Worker, NEW t \in Task, Wake(a, t) PROVE CallsTyped'
  BY <1>8, Wakes DEF Wake
<1>9. ASSUME NEW t \in Task, WouldBlock(t) PROVE CallsTyped' BY <1>9 DEF WouldBlock, Proc
<1>10. ASSUME NEW t \in Task, Register(t) PROVE CallsTyped' BY <1>10 DEF Register, Proc
<1>11. ASSUME NEW t \in Task, Ask(t) PROVE CallsTyped' BY <1>11 DEF Ask, Proc
<1>12. ASSUME NEW t \in Task, Park(t) PROVE CallsTyped'
  BY <1>12, Suspension DEF Park, Proc, Suspends
<1>13. ASSUME NEW t \in Task, StrayWake(t) PROVE CallsTyped' BY <1>13, Wakes DEF StrayWake
<1>14. ASSUME NEW t \in Task, NEW w \in Worker, Resume(t, w) PROVE CallsTyped'
  BY <1>14, Resumption DEF Resume, RunsOn, Proc
<1>15. ASSUME NEW w \in Worker, Take(w) PROVE CallsTyped'
  <2>1. \A S \in SUBSET waiters[w] : TasksOf(S) \subseteq Task
    <3>1. \A x \in waiters[w] : x.task \in Task BY EntryTask DEF PollersTyped
    <3>. QED BY <3>1 DEF TasksOf
  <2>2. PICK S \in SUBSET waiters[w] : toWake' = [toWake EXCEPT ![w] = TasksOf(S)]
    BY <1>15 DEF Take
  <2>3. toWake' \in [Proc \cup Worker -> SUBSET Task] BY <2>1, <2>2
  <2>. QED BY <1>15, <2>3 DEF Take
<1>16. CASE UNCHANGED vars BY <1>16 DEF vars
<1>17. CASE \/ PeerSends
            \/ KernelOpens
            \/ Open
            \/ \E w \in Worker : EpollWait(w)
            \/ \E w \in Worker : Polled(w)
  BY <1>17 DEF PeerSends, KernelOpens, Open, EpollWait, Polled
<1>. HIDE DEF CallsTyped, calls, Goto
<1>. QED BY <1>1, <1>2, <1>3, <1>4, <1>5, <1>6, <1>7, <1>8, <1>9, <1>10, <1>11, <1>12,
            <1>13, <1>14, <1>15, <1>16, <1>17 DEF Next

\* Every step keeps the types.
LEMMA TypesKept ==
  ASSUME TypeOK, NumberTracksSlot, Seated, [Next]_vars
  PROVE  TypeOK'
<1>1. KernelTyped /\ PollersTyped /\ CallsTyped BY TypeParts
<1>2. KernelTyped' /\ PollersTyped' /\ CallsTyped'
  BY <1>1, KernelTypesKept, PollerTypesKept, CallTypesKept
<1>3. {inSet', edge', harvest'} \subseteq [Worker -> BOOLEAN] BY <1>2 DEF KernelTyped
<1>. QED BY <1>2, <1>3 DEF TypeOK, KernelTyped, PollersTyped, CallsTyped

-----------------------------------------------------------------------------
(* The number                                                              *)

\* Generations are numbers, and Free is none of them.
LEMMA Ranges ==
  ASSUME TypeOK
  PROVE  /\ slot.gen \in Gen /\ slot.users \in Nat /\ Gen \subseteq Nat /\ Free \notin Gen
         /\ slot.opened => Slots!NextGen(slot) # slot.gen
<1>4. slot \in Slots!Slot(Gen) BY DEF TypeOK
<1>1. slot.gen \in Gen /\ slot.users \in Nat BY <1>4, UsersBound DEF Slots!Slot
<1>2. Gen \subseteq Nat /\ Free \notin Gen BY NetIoAssumption DEF Gen, Free
<1>3. slot.opened => Slots!NextGen(slot) # slot.gen 
  <2>1. slot.gen \in Nat BY <1>1, <1>2
  <2>. QED BY <2>1 DEF Slots!NextGen
<1>. QED BY <1>1, <1>2, <1>3

\* Where a call inside is.
InsideAt == {"read", "register", "ask", "ask retry", "self", "park", "asleep", "release"}

\* A step inside a call, or of one that has not got in or has left, changes
\* neither who is inside nor who closes.
LEMMA StaysInside ==
  ASSUME TypeOK, NEW p \in Proc, NEW l, Goto(p, l),
         pc[p] \in InsideAt <=> l \in InsideAt, pc[p] = "finish" <=> l = "finish"
  PROVE  Inside' = Inside /\ Finishing' = Finishing
BY DEF TypeOK, Goto, InsideAt, Inside, Finishing

\* Then the number's part of the invariant stands, if nobody inside changes its
\* handle.
LEMMA NumberFrame ==
  ASSUME NumberTracksSlot, NumberHeld, UNCHANGED <<slot, number>>,
         Inside' = Inside, Finishing' = Finishing,
         \A p \in Inside \cup Finishing : handle'[p] = handle[p]
  PROVE  (NumberTracksSlot /\ NumberHeld)'
BY DEF NumberTracksSlot, NumberHeld

\* Who is inside is counted.
LEMMA InsideFinite == IsFiniteSet(Inside) /\ IsFiniteSet(Finishing)
BY NetIoAssumption, FS_Subset DEF Inside, Finishing

\* Nobody is none, and one at most is one or none.
LEMMA NobodyCounted == Cardinality({}) = 0
BY FS_EmptySet

\* The sets a step of a closer leaves have one member at most.
LEMMA AtMostOne == ASSUME NEW p PROVE Cardinality({}) <= 1 /\ Cardinality({p}) <= 1
<1>1. Cardinality({p}) = 1 BY FS_Singleton
<1>. QED BY <1>1, NobodyCounted

\* Whoever of two changes its place alone, the rest stays where it was.
LEMMA FinishingStep ==
  ASSUME TypeOK, NEW p \in Proc, NEW l, pc' = [pc EXCEPT ![p] = l], Finishing = {}
  PROVE  Finishing' = IF l = "finish" THEN {p} ELSE {}
<1>1. pc = [q \in Proc |-> pc[q]] BY DEF TypeOK
<1>2. CASE l = "finish" BY <1>1, <1>2 DEF Finishing
<1>3. CASE l # "finish" BY <1>1, <1>3 DEF Finishing
<1>. QED BY <1>2, <1>3

\* A handle of the kernel's number: nobody is inside or closing.
LEMMA OpenKeeps ==
  ASSUME TypeOK, NumberTracksSlot, NumberHeld, Open
  PROVE  (NumberTracksSlot /\ NumberHeld)'
<1>1. ~slot.opened \/ number # slot.gen BY DEF Open
<1>2. Inside = {} /\ Finishing = {} BY <1>1 DEF NumberTracksSlot
<1>3. Inside' = {} /\ Finishing' = {} BY <1>2 DEF Open, calls, Inside, Finishing
<1>4. number = Slots!NextGen(slot)
  BY DEF Open, NumberTracksSlot, Slots!Unopened, Slots!NextGen
<1>5. /\ number' = number /\ slot'.gen = number /\ slot'.opened /\ slot'.live
      /\ slot'.users = 0
  BY <1>4 DEF Open, kernel, Slots!Opened
<1>. QED BY <1>3, <1>5, NobodyCounted DEF NumberTracksSlot, NumberHeld

\* The kernel hands the number out: it was free, so nobody was inside.
LEMMA KernelOpensKeeps ==
  ASSUME TypeOK, NumberTracksSlot, NumberHeld, KernelOpens
  PROVE  (NumberTracksSlot /\ NumberHeld)'
<1>1. number # slot.gen
  BY Ranges DEF KernelOpens
<1>2. Inside = {} /\ Finishing = {} /\ ~slot.live BY <1>1 DEF NumberTracksSlot
<1>3. Inside' = {} /\ Finishing' = {} BY <1>2 DEF KernelOpens, calls, Inside, Finishing
<1>4. slot.opened => Slots!NextGen(slot) # slot.gen
  BY Ranges
<1>5. slot' = slot /\ number' = Slots!NextGen(slot) BY DEF KernelOpens
<1>6. slot.users = 0 BY <1>2, NobodyCounted DEF NumberHeld
<1>. QED BY <1>2, <1>3, <1>4, <1>5, <1>6, NobodyCounted DEF NumberTracksSlot, NumberHeld

\* A call gets in through a live handle, whose number it holds.
LEMMA StartKeeps ==
  ASSUME TypeOK, NumberTracksSlot, NumberHeld,
         NEW p \in Proc, NEW g \in Gen, NEW w, NEW bounded, Start(p, g, w, bounded)
  PROVE  (NumberTracksSlot /\ NumberHeld)'
<1>1. /\ slot.gen = g /\ slot.live /\ number' = number /\ pc[p] = "idle"
      /\ handle' = [handle EXCEPT ![p] = g] /\ pc' = [pc EXCEPT ![p] = "read"]
  BY DEF Start, Slots!CanAcquire, Slots!IsLive, kernel, Goto
<1>2. /\ slot'.gen = slot.gen /\ slot'.live = slot.live /\ slot'.opened = slot.opened
      /\ slot'.users = slot.users + 1
  BY DEF Start, Slots!Acquired, TypeOK, Slots!Slot
<1>3. Inside' = Inside \cup {p} /\ p \notin Inside /\ Finishing' = Finishing
  BY <1>1 DEF TypeOK, Inside, Finishing
<1>4. Cardinality(Inside') = Cardinality(Inside) + 1
  BY <1>3, InsideFinite, FS_AddElement
<1>5. slot.opened /\ number = g /\ Finishing = {} BY <1>1 DEF NumberTracksSlot
<1>6. \A q \in Inside' : number' = handle'[q] /\ slot'.gen = handle'[q]
  BY <1>1, <1>2, <1>3, <1>5 DEF NumberHeld, TypeOK, Inside
<1>7. NumberHeld' BY <1>1, <1>2, <1>3, <1>4, <1>5, <1>6, NobodyCounted DEF NumberHeld
<1>8. NumberTracksSlot' BY <1>1, <1>2, <1>3, <1>5 DEF NumberTracksSlot
<1>. QED BY <1>7, <1>8

\* The one who clears the open bit closes the number itself if nobody is inside,
\* and leaves it to the last one out otherwise.
LEMMA CloseKeeps ==
  ASSUME TypeOK, NumberTracksSlot, NumberHeld,
         NEW p \in Proc, NEW g \in Gen, NEW w, Close(p, g, w)
  PROVE  (NumberTracksSlot /\ NumberHeld)'
<1>1. /\ slot.gen = g /\ slot.live /\ number' = number /\ pc[p] = "idle"
      /\ handle' = [handle EXCEPT ![p] = g]
  BY DEF Close, Slots!IsLive, kernel
<1>2. /\ slot'.gen = slot.gen /\ ~slot'.live /\ slot'.opened = slot.opened
      /\ slot'.users = slot.users
  BY DEF Close, Slots!Closed, TypeOK, Slots!Slot
<1>3. slot.opened /\ number = g /\ Finishing = {} BY <1>1 DEF NumberTracksSlot
<1>4. PICK l \in {"finish", "notify", "shutdown"} :
        pc' = [pc EXCEPT ![p] = l] /\ (l = "finish" <=> slot.users = 0)
  BY <1>2 DEF Close, Goto, Slots!MustFinish
<1>5. Inside' = Inside /\ p \notin Inside BY <1>1, <1>4 DEF TypeOK, Inside
<1>6. slot.users = 0 <=> Inside = {}
  BY InsideFinite, FS_EmptySet DEF NumberHeld
<1>7. Finishing' = IF l = "finish" THEN {p} ELSE {}
  BY <1>3, <1>4, FinishingStep
<1>8. Cardinality({}) <= 1 /\ Cardinality({p}) <= 1 BY AtMostOne
<1>9. \A q \in Inside' \cup Finishing' : number' = handle'[q] /\ slot'.gen = handle'[q]
  <2>. SUFFICES ASSUME NEW q \in Inside' \cup Finishing'
                PROVE  number' = handle'[q] /\ slot'.gen = handle'[q]
    OBVIOUS
  <2>1. handle \in [Proc -> Gen] /\ q \in Proc BY DEF TypeOK, Inside, Finishing
  <2>2. CASE q = p BY <1>1, <1>2, <1>3, <2>1, <2>2
  <2>3. CASE q # p
    <3>1. q \in Inside BY <1>5, <1>7, <2>3
    <3>. QED BY <1>1, <1>2, <2>1, <2>3, <3>1 DEF NumberHeld
  <2>. QED BY <2>2, <2>3
<1>10. NumberHeld' BY <1>1, <1>2, <1>4, <1>5, <1>6, <1>7, <1>8, <1>9 DEF NumberHeld
<1>11. NumberTracksSlot' BY <1>1, <1>2, <1>3 DEF NumberTracksSlot, Slots!NextGen
<1>. QED BY <1>10, <1>11

\* The guard goes, and the last one out of a closed handle closes the number.
LEMMA ReleaseKeeps ==
  ASSUME TypeOK, NumberTracksSlot, NumberHeld, NEW p \in Proc, Release(p)
  PROVE  (NumberTracksSlot /\ NumberHeld)'
<1>1. /\ p \in Inside /\ number' = number
      /\ slot'.gen = slot.gen /\ slot'.live = slot.live /\ slot'.opened = slot.opened
      /\ slot'.users = slot.users - 1
  BY DEF Release, Slots!Released, TypeOK, Slots!Slot, kernel, Inside
<1>2. slot.opened /\ number = slot.gen BY <1>1 DEF NumberTracksSlot
<1>3. Finishing = {} BY <1>1, <1>2 DEF NumberHeld, NumberTracksSlot
<1>4. PICK l \in {"finish", "idle"} :
        /\ pc' = [pc EXCEPT ![p] = l]
        /\ l = "finish" <=> ~slot.live /\ slot'.users = 0
        /\ handle' = IF l = "finish" THEN handle ELSE [handle EXCEPT ![p] = 0]
  BY <1>1 DEF Release, Goto, Returns, Slots!MustFinish
<1>5. Inside' = Inside \ {p} BY <1>1, <1>4 DEF TypeOK, Inside
<1>6. Cardinality(Inside') = Cardinality(Inside) - 1
  BY <1>1, <1>5, InsideFinite, FS_RemoveElement
<1>7. IsFiniteSet(Inside') BY <1>5, InsideFinite, FS_RemoveElement
<1>8. slot'.users = 0 <=> Inside' = {}
  BY <1>1, <1>6, <1>7, FS_EmptySet DEF NumberHeld
<1>9. Finishing' = IF l = "finish" THEN {p} ELSE {}
  BY <1>3, <1>4, FinishingStep
<1>10. Cardinality({}) <= 1 /\ Cardinality({p}) <= 1 BY AtMostOne
<1>11. \A q \in Inside' \cup Finishing' : number' = handle'[q] /\ slot'.gen = handle'[q]
  <2>. SUFFICES ASSUME NEW q \in Inside' \cup Finishing'
                PROVE  number' = handle'[q] /\ slot'.gen = handle'[q]
    OBVIOUS
  <2>1. handle \in [Proc -> Gen] /\ q \in Proc BY DEF TypeOK, Inside, Finishing
  <2>2. q \in Inside /\ (q = p => l = "finish") BY <1>1, <1>5, <1>9
  <2>3. handle'[q] = handle[q] BY <1>4, <2>1, <2>2
  <2>. QED BY <1>1, <2>2, <2>3 DEF NumberHeld
<1>12. NumberHeld'
  BY <1>1, <1>4, <1>6, <1>8, <1>9, <1>10, <1>11 DEF NumberHeld
<1>13. NumberTracksSlot'
  BY <1>1, <1>2, <1>4, <1>9 DEF NumberTracksSlot, Slots!NextGen
<1>. QED BY <1>12, <1>13

\* on_close returns; what closes the number is alone with it.
LEMMA SweptKeeps ==
  ASSUME TypeOK, NumberTracksSlot, NumberHeld, NEW p \in Proc, Swept(p)
  PROVE  (NumberTracksSlot /\ NumberHeld)'
<1>1. CASE pc[p] # "finish"
  <2>1. PICK l \in {"park", "idle"} : Goto(p, l) /\ (l = "park" <=> pc[p] = "self")
    BY <1>1 DEF Swept, Returns
  <2>2. pc[p] \in {"self", "notify"} BY <1>1 DEF Swept
  <2>3. Inside' = Inside /\ Finishing' = Finishing
    BY <2>1, <2>2, StaysInside DEF InsideAt
  <2>4. pc[p] = "self" \/ p \notin Inside \cup Finishing
    BY <2>2 DEF Inside, Finishing
  <2>5. \A q \in Inside \cup Finishing : handle'[q] = handle[q]
    BY <2>4 DEF Swept, Returns, TypeOK, Inside, Finishing
  <2>6. UNCHANGED <<slot, number>> BY <1>1 DEF Swept, kernel
  <2>. QED BY <2>3, <2>5, <2>6, NumberFrame
<1>2. CASE pc[p] = "finish"
  <2>1. p \in Finishing /\ slot.opened /\ number = slot.gen /\ ~slot.live
    BY <1>2 DEF Finishing, NumberTracksSlot
  <2>2. Inside = {} BY <2>1 DEF NumberHeld
  <2>3. Finishing = {p}
    <3>1. Finishing \subseteq {p}
      <4>. SUFFICES ASSUME NEW q \in Finishing, q # p PROVE FALSE OBVIOUS
      <4>1. IsFiniteSet({p}) /\ Cardinality({p}) = 1 BY FS_Singleton
      <4>2. Cardinality({p} \cup {q}) = 2 BY <4>1, FS_AddElement
      <4>3. {p} \cup {q} \subseteq Finishing BY <2>1
      <4>4. Cardinality({p} \cup {q}) <= Cardinality(Finishing)
        BY <4>3, InsideFinite, FS_Subset
      <4>5. Cardinality(Finishing) \in Nat BY InsideFinite, FS_CardinalityType
      <4>. QED BY <4>2, <4>4, <4>5 DEF NumberHeld
    <3>. QED BY <2>1, <3>1
  <2>4. pc' = [pc EXCEPT ![p] = "idle"] /\ number' = Free /\ slot' = slot
    BY <1>2 DEF Swept, Returns, Goto
  <2>5. Inside' = {} /\ Finishing' = {}
    BY <2>2, <2>3, <2>4 DEF TypeOK, Inside, Finishing
  <2>6. slot.users = 0 BY <2>2, NobodyCounted DEF NumberHeld
  <2>7. number' # slot'.gen
    BY <2>4, Ranges
  <2>. QED BY <2>1, <2>4, <2>5, <2>6, <2>7, NobodyCounted DEF NumberTracksSlot, NumberHeld
<1>. QED BY <1>1, <1>2

\* Every step keeps the number's part of the invariant.
LEMMA NumberKept ==
  ASSUME TypeOK, NumberTracksSlot, NumberHeld, [Next]_vars
  PROVE  (NumberTracksSlot /\ NumberHeld)'
<1>. DEFINE Kept == (NumberTracksSlot /\ NumberHeld)'
<1>1. CASE KernelOpens \/ Open BY <1>1, KernelOpensKeeps, OpenKeeps
<1>2. ASSUME NEW p \in Proc, NEW g \in Gen, NEW w \in Worker \cup {NoWorker},
             Close(p, g, w) \/ \E bounded \in BOOLEAN : Start(p, g, w, bounded)
      PROVE  Kept
  BY <1>2, CloseKeeps, StartKeeps
<1>3. ASSUME NEW p \in Proc, Release(p) \/ Swept(p) PROVE Kept
  BY <1>3, ReleaseKeeps, SweptKeeps
<1>4. ASSUME NEW p \in Proc, Read(p) PROVE Kept
  <2>1. pc[p] = "read" /\ Goto(p, "release") /\ UNCHANGED <<slot, number, handle>>
    BY <1>4 DEF Read
  <2>2. Inside' = Inside /\ Finishing' = Finishing BY <2>1, StaysInside DEF InsideAt
  <2>. QED BY <2>1, <2>2, NumberFrame
<1>5. ASSUME NEW p \in Proc, Shutdown(p) PROVE Kept
  <2>1. pc[p] = "shutdown" /\ Goto(p, "notify") /\ UNCHANGED <<slot, number, handle>>
    BY <1>5 DEF Shutdown, Becomes, kernel
  <2>2. Inside' = Inside /\ Finishing' = Finishing BY <2>1, StaysInside DEF InsideAt
  <2>. QED BY <2>1, <2>2, NumberFrame
<1>6. ASSUME NEW t \in Task,
             \/ WouldBlock(t) \/ Register(t) \/ Ask(t) \/ Park(t)
             \/ \E w \in Worker : Resume(t, w)
      PROVE  Kept
  <2>1. PICK l \in InsideAt : Goto(t, l)
    BY <1>6 DEF WouldBlock, Register, Ask, Park, Resume, InsideAt
  <2>2. pc[t] \in InsideAt /\ UNCHANGED <<slot, number, handle>>
    BY <1>6 DEF WouldBlock, Register, Ask, Park, Resume, InsideAt, kernel
  <2>3. Inside' = Inside /\ Finishing' = Finishing
    BY <2>1, <2>2, StaysInside DEF InsideAt, Proc
  <2>. QED BY <2>2, <2>3, NumberFrame
<1>7. CASE UNCHANGED <<slot, number, handle, pc>>
  BY <1>7, NumberFrame DEF Inside, Finishing
<1>8. CASE PeerSends BY <1>7, <1>8 DEF PeerSends, Becomes, calls
<1>9. ASSUME NEW p \in Proc, NEW w \in Worker, Sweep(p, w) PROVE Kept
  BY <1>7, <1>9 DEF Sweep
<1>10. ASSUME NEW a \in Proc \cup Worker, NEW t \in Task, Wake(a, t) PROVE Kept
  BY <1>7, <1>10 DEF Wake, calls, kernel
<1>11. ASSUME NEW w \in Worker, EpollWait(w) \/ Take(w) \/ Polled(w) PROVE Kept
  BY <1>7, <1>11 DEF EpollWait, Take, Polled, calls, kernel
<1>12. CASE UNCHANGED vars BY <1>7, <1>12 DEF vars, calls, kernel
<1>13. ASSUME NEW t \in Task, StrayWake(t) PROVE Kept
  BY <1>7, <1>13 DEF StrayWake, calls, kernel
<1>. QED BY <1>1, <1>2, <1>3, <1>4, <1>5, <1>6, <1>8, <1>9, <1>10, <1>11, <1>12, <1>13
         DEF Next

-----------------------------------------------------------------------------
(* Workers and polls                                                       *)

\* Where a task has no worker.
Off == {"idle", "asleep"}

\* A call goes on where it is,
LEMMA SeatKept ==
  ASSUME TypeOK, Seated, NEW p \in Proc, NEW l, Goto(p, l), l \notin Off, pc[p] \notin Off,
         UNCHANGED <<on, poll>>
  PROVE  Seated'
BY DEF TypeOK, Seated, Goto, Off, Proc

\* gets a worker that has nothing else,
LEMMA SeatTaken ==
  ASSUME TypeOK, Seated, NEW p \in Proc, NEW w, RunsOn(p, w), NEW l, Goto(p, l),
         l \notin Off, UNCHANGED poll
  PROVE  Seated'
<1>1. pc = [q \in Proc |-> pc[q]] /\ on = [t \in Task |-> on[t]] /\ Task \subseteq Proc
  BY DEF TypeOK, Proc
<1>2. CASE p \in Task
  <2>1. w \in Worker /\ poll[w] = "none" /\ (\A t \in Task : on[t] # w)
        /\ on' = [on EXCEPT ![p] = w] /\ pc' = [pc EXCEPT ![p] = l]
    BY <1>2 DEF RunsOn, Vacant, Goto
  <2>2. ASSUME NEW t \in Task
        PROVE  IF pc'[t] \in {"idle", "asleep"} THEN on'[t] = NoWorker
               ELSE on'[t] \in Worker /\ poll'[on'[t]] = "none"
    BY <1>1, <1>2, <2>1 DEF Seated, Off
  <2>3. ASSUME NEW t \in Task, NEW u \in Task, t # u, on'[t] = on'[u]
        PROVE  on'[t] = NoWorker
    BY <1>1, <1>2, <2>1, <2>3 DEF Seated
  <2>. QED BY <2>2, <2>3 DEF Seated
<1>3. CASE p \notin Task
  BY <1>1, <1>3 DEF RunsOn, Seated, Goto
<1>. QED BY <1>2, <1>3

\* or leaves it.
LEMMA SeatLeft ==
  ASSUME TypeOK, Seated, NEW p \in Proc, NEW l, Goto(p, l), l \in Off, Suspends(p),
         UNCHANGED poll
  PROVE  Seated'
<1>1. pc = [q \in Proc |-> pc[q]] /\ on = [t \in Task |-> on[t]] /\ Task \subseteq Proc
  BY DEF TypeOK, Proc
<1>2. CASE p \in Task
  BY <1>1, <1>2 DEF Suspends, Seated, Goto, Off
<1>3. CASE p \notin Task
  BY <1>1, <1>3 DEF Suspends, Seated, Goto
<1>. QED BY <1>2, <1>3

\* No call shares its worker, with a call or with a poll.
LEMMA SeatedKept ==
  ASSUME TypeOK, Seated, [Next]_vars
  PROVE  Seated'
<1>1. ASSUME NEW p \in Proc, NEW g \in Gen, NEW w \in Worker \cup {NoWorker},
             NEW bounded \in BOOLEAN, Start(p, g, w, bounded)
      PROVE  Seated'
  <2>1. RunsOn(p, w) /\ Goto(p, "read") /\ UNCHANGED poll BY <1>1 DEF Start
  <2>. QED BY <2>1, SeatTaken DEF Off
<1>2. ASSUME NEW p \in Proc, NEW g \in Gen, NEW w \in Worker \cup {NoWorker}, Close(p, g, w)
      PROVE  Seated'
  <2>1. PICK l \in {"finish", "notify", "shutdown"} : Goto(p, l) BY <1>2 DEF Close
  <2>2. RunsOn(p, w) /\ UNCHANGED poll BY <1>2 DEF Close
  <2>. QED BY <2>1, <2>2, SeatTaken DEF Off
<1>3. ASSUME NEW p \in Proc, Read(p) PROVE Seated' BY <1>3, SeatKept DEF Read, Off
<1>4. ASSUME NEW p \in Proc, Release(p) PROVE Seated'
  <2>1. CASE Returns(p) BY <1>4, <2>1, SeatLeft DEF Release, Returns, Off
  <2>2. CASE Goto(p, "finish") /\ UNCHANGED on BY <1>4, <2>2, SeatKept DEF Release, Off
  <2>. QED BY <1>4, <2>1, <2>2 DEF Release
<1>5. ASSUME NEW p \in Proc, Shutdown(p) PROVE Seated' BY <1>5, SeatKept DEF Shutdown, Off
<1>6. ASSUME NEW p \in Proc, Swept(p) PROVE Seated'
  <2>1. CASE Returns(p) BY <1>6, <2>1, SeatLeft DEF Swept, Returns, Off
  <2>2. CASE Goto(p, "park") /\ UNCHANGED on BY <1>6, <2>2, SeatKept DEF Swept, Off
  <2>. QED BY <1>6, <2>1, <2>2 DEF Swept
<1>7. ASSUME NEW t \in Task, WouldBlock(t) PROVE Seated'
  <2>1. PICK l \in {"register", "release"} : Goto(t, l) BY <1>7 DEF WouldBlock
  <2>. QED BY <1>7, <2>1, SeatKept DEF WouldBlock, Off, Proc
<1>8. ASSUME NEW t \in Task, Register(t) PROVE Seated'
  <2>1. PICK l \in {"ask retry", "ask"} : Goto(t, l) BY <1>8 DEF Register
  <2>. QED BY <1>8, <2>1, SeatKept DEF Register, Off, Proc
<1>9. ASSUME NEW t \in Task, Ask(t) PROVE Seated'
  <2>1. PICK l \in {"read", "release", "park", "self"} : Goto(t, l) BY <1>9 DEF Ask
  <2>. QED BY <1>9, <2>1, SeatKept DEF Ask, Off, Proc
<1>10. ASSUME NEW t \in Task, Park(t) PROVE Seated' BY <1>10, SeatLeft DEF Park, Off, Proc
<1>11. ASSUME NEW t \in Task, NEW w \in Worker, Resume(t, w) PROVE Seated'
  <2>1. PICK l \in {"read", "release"} : Goto(t, l) BY <1>11 DEF Resume
  <2>. QED BY <1>11, <2>1, SeatTaken DEF Resume, Off, Proc
<1>12. ASSUME NEW w \in Worker, EpollWait(w) PROVE Seated'
  BY <1>12 DEF EpollWait, Vacant, Seated, TypeOK, calls
<1>13. ASSUME NEW w \in Worker, Take(w) PROVE Seated'
  <2>1. poll' = [poll EXCEPT ![w] = "wake"] /\ poll[w] = "take" /\ UNCHANGED <<on, pc>>
    BY <1>13 DEF Take, calls
  <2>. QED BY <2>1 DEF Seated, TypeOK
<1>14. ASSUME NEW w \in Worker, Polled(w) PROVE Seated'
  <2>1. poll' = [poll EXCEPT ![w] = "none"] /\ UNCHANGED <<on, pc>> BY <1>14 DEF Polled, calls
  <2>. QED BY <2>1 DEF Seated, TypeOK
<1>15. CASE UNCHANGED vars BY <1>15 DEF vars, Seated, calls, registry
<1>16. CASE \/ PeerSends
            \/ KernelOpens
            \/ Open
            \/ \E p \in Proc, w \in Worker : Sweep(p, w)
            \/ \E a \in Proc \cup Worker, t \in Task : Wake(a, t)
            \/ \E t \in Task : StrayWake(t)
  BY <1>16 DEF PeerSends, KernelOpens, Open, Sweep, Wake, StrayWake, Seated, calls, registry
<1>. QED BY <1>1, <1>2, <1>3, <1>4, <1>5, <1>6, <1>7, <1>8, <1>9, <1>10, <1>11, <1>12,
            <1>13, <1>14, <1>15, <1>16 DEF Next

\* Every step keeps the phases of the polls.
LEMMA PollPhasesKept ==
  ASSUME TypeOK, PollPhases, [Next]_vars
  PROVE  PollPhases'
<1>. USE DEF PollPhases
<1>1. ASSUME NEW p \in Proc, NEW w \in Worker, Sweep(p, w) PROVE PollPhases'
  BY <1>1, NetIoAssumption DEF Sweep, TypeOK
<1>2. ASSUME NEW a \in Proc \cup Worker, NEW t \in Task, Wake(a, t) PROVE PollPhases'
  BY <1>2 DEF Wake, TypeOK
<1>3. ASSUME NEW w \in Worker, EpollWait(w) PROVE PollPhases'
  BY <1>3 DEF EpollWait, Vacant, TypeOK
<1>4. ASSUME NEW w \in Worker, Take(w) PROVE PollPhases'
  <2>1. /\ poll' = [poll EXCEPT ![w] = "wake"] /\ harvest' = [harvest EXCEPT ![w] = FALSE]
        /\ \E S : toWake' = [toWake EXCEPT ![w] = S]
    BY <1>4 DEF Take
  <2>. QED BY <2>1 DEF TypeOK
<1>5. ASSUME NEW w \in Worker, Polled(w) PROVE PollPhases' BY <1>5 DEF Polled, TypeOK
<1>6. CASE UNCHANGED vars BY <1>6 DEF vars
<1>7. CASE \/ PeerSends
           \/ KernelOpens
           \/ Open
           \/ \E p \in Proc, g \in Gen, w \in Worker \cup {NoWorker}, bounded \in BOOLEAN :
                Start(p, g, w, bounded)
           \/ \E p \in Proc, g \in Gen, w \in Worker \cup {NoWorker} : Close(p, g, w)
           \/ \E p \in Proc : Read(p)
           \/ \E p \in Proc : Release(p)
           \/ \E p \in Proc : Shutdown(p)
           \/ \E p \in Proc : Swept(p)
           \/ \E t \in Task : WouldBlock(t)
           \/ \E t \in Task : Register(t)
           \/ \E t \in Task : Ask(t)
           \/ \E t \in Task : Park(t)
           \/ \E t \in Task : StrayWake(t)
           \/ \E t \in Task, w \in Worker : Resume(t, w)
  BY <1>7 DEF PeerSends, KernelOpens, Open, Start, Close, Read, Release, Shutdown, Swept,
     WouldBlock, Register, Ask, Park, StrayWake, Resume
<1>. HIDE DEF PollPhases
<1>. QED BY <1>1, <1>2, <1>3, <1>4, <1>5, <1>6, <1>7 DEF Next


-----------------------------------------------------------------------------
(* The registry and the kernel's set                                       *)

\* Whoever closes the number is alone with it, and a call inside has one.
LEMMA CloserAlone ==
  ASSUME TypeOK, NumberTracksSlot, NumberHeld
  PROVE  /\ Finishing # {} => Inside = {}
         /\ Inside # {} => number = slot.gen /\ number # Free
<1>1. Finishing # {} => Inside = {} BY DEF NumberTracksSlot, NumberHeld
<1>2. Inside # {} => number = slot.gen BY DEF NumberTracksSlot
<1>. QED BY <1>1, <1>2, Ranges

\* A number that is being closed is registered nowhere behind the sweep.
LEMMA FinishSweptKept ==
  ASSUME TypeOK, NumberTracksSlot, NumberHeld, FinishSwept, [Next]_vars
  PROVE  FinishSwept'
<1>. USE DEF FinishSwept
<1>1. ASSUME NEW p \in Proc, NEW g \in Gen, NEW w \in Worker \cup {NoWorker},
             NEW bounded \in BOOLEAN, Start(p, g, w, bounded)
      PROVE  FinishSwept'
  <2>1. Goto(p, "read") /\ UNCHANGED <<todo, fds>> BY <1>1 DEF Start, registry
  <2>. QED BY <2>1 DEF TypeOK, Goto, Finishing
<1>2. ASSUME NEW p \in Proc, NEW g \in Gen, NEW w \in Worker \cup {NoWorker}, Close(p, g, w)
      PROVE  FinishSwept'
  <2>1. /\ \E l : Goto(p, l)
        /\ todo' = [todo EXCEPT ![p] = Worker] /\ UNCHANGED fds
    BY <1>2 DEF Close, registry
  <2>. QED BY <2>1 DEF TypeOK, Goto, Finishing
<1>3. ASSUME NEW p \in Proc, Read(p) PROVE FinishSwept'
  <2>1. Goto(p, "release") /\ UNCHANGED <<todo, fds>> BY <1>3 DEF Read, registry
  <2>. QED BY <2>1 DEF TypeOK, Goto, Finishing
<1>4. ASSUME NEW p \in Proc, Release(p) PROVE FinishSwept'
  <2>1. \/ Goto(p, "idle") /\ UNCHANGED <<todo, fds>>
        \/ Goto(p, "finish") /\ todo' = [todo EXCEPT ![p] = Worker] /\ UNCHANGED fds
    BY <1>4 DEF Release, Returns, registry
  <2>. QED BY <2>1 DEF TypeOK, Goto, Finishing
<1>5. ASSUME NEW p \in Proc, Shutdown(p) PROVE FinishSwept'
  <2>1. Goto(p, "notify") /\ UNCHANGED <<todo, fds>> BY <1>5 DEF Shutdown, registry
  <2>. QED BY <2>1 DEF TypeOK, Goto, Finishing
<1>6. ASSUME NEW p \in Proc, Swept(p) PROVE FinishSwept'
  <2>1. (Goto(p, "idle") \/ Goto(p, "park")) /\ UNCHANGED <<todo, fds>>
    BY <1>6 DEF Swept, Returns, registry
  <2>. QED BY <2>1 DEF TypeOK, Goto, Finishing
<1>7. ASSUME NEW p \in Proc, NEW w \in Worker, Sweep(p, w) PROVE FinishSwept'
  <2>1. /\ todo' = [todo EXCEPT ![p] = @ \ {w}] /\ fds' = [fds EXCEPT ![w] = "none"]
        /\ UNCHANGED pc
    BY <1>7 DEF Sweep
  <2>. QED BY <2>1 DEF TypeOK, Finishing
<1>8. ASSUME NEW t \in Task, WouldBlock(t) PROVE FinishSwept'
  <2>1. (Goto(t, "register") \/ Goto(t, "release")) /\ UNCHANGED <<todo, fds>>
    BY <1>8 DEF WouldBlock, registry
  <2>. QED BY <2>1 DEF TypeOK, Goto, Finishing, Proc
<1>9. ASSUME NEW t \in Task, Register(t) PROVE FinishSwept'
  <2>1. t \in Inside BY <1>9 DEF Register, Inside, Proc
  <2>2. (Goto(t, "ask") \/ Goto(t, "ask retry")) BY <1>9 DEF Register
  <2>3. Finishing' = {} BY <2>1, <2>2, CloserAlone DEF TypeOK, Goto, Finishing
  <2>. QED BY <2>3
<1>10. ASSUME NEW t \in Task, Ask(t) PROVE FinishSwept'
  <2>1. t \in Inside BY <1>10 DEF Ask, Inside, Proc
  <2>2. \E l \in {"read", "release", "park", "self"} : Goto(t, l) BY <1>10 DEF Ask
  <2>3. Finishing' = {} BY <2>1, <2>2, CloserAlone DEF TypeOK, Goto, Finishing
  <2>. QED BY <2>3
<1>11. ASSUME NEW t \in Task, Park(t) PROVE FinishSwept'
  <2>1. Goto(t, "asleep") /\ UNCHANGED <<todo, fds>> BY <1>11 DEF Park, registry
  <2>. QED BY <2>1 DEF TypeOK, Goto, Finishing, Proc
<1>12. ASSUME NEW t \in Task, NEW w \in Worker, Resume(t, w) PROVE FinishSwept'
  <2>1. (Goto(t, "read") \/ Goto(t, "release")) /\ UNCHANGED <<todo, fds>>
    BY <1>12 DEF Resume
  <2>. QED BY <2>1 DEF TypeOK, Goto, Finishing, Proc
<1>13. ASSUME NEW w \in Worker, Take(w) PROVE FinishSwept'
  <2>1. /\ fds' \in {fds, [fds EXCEPT ![w] = "ready"]}
        /\ fds' # fds => fds[w] # "none"
        /\ UNCHANGED <<pc, todo>>
    BY <1>13 DEF Take, calls
  <2>. QED BY <2>1 DEF TypeOK, Finishing
<1>14. CASE UNCHANGED vars BY <1>14 DEF vars, calls, registry, Finishing
<1>15. CASE \/ PeerSends
            \/ KernelOpens
            \/ Open
            \/ \E a \in Proc \cup Worker, t \in Task : Wake(a, t)
            \/ \E t \in Task : StrayWake(t)
            \/ \E w \in Worker : EpollWait(w)
            \/ \E w \in Worker : Polled(w)
  BY <1>15 DEF PeerSends, KernelOpens, Open, Wake, StrayWake, EpollWait, Polled, calls,
     registry, Finishing
<1>. HIDE DEF FinishSwept
<1>. QED BY <1>1, <1>2, <1>3, <1>4, <1>5, <1>6, <1>7, <1>8, <1>9, <1>10, <1>11, <1>12,
            <1>13, <1>14, <1>15 DEF Next

\* What a poller tracks is in its epoll set, and the number is open.
LEMMA TracksKept ==
  ASSUME TypeOK, NumberTracksSlot, NumberHeld, FinishSwept, RegistryTracksKernel, [Next]_vars
  PROVE  RegistryTracksKernel'
<1>. USE DEF RegistryTracksKernel
<1>1. CASE PeerSends BY <1>1 DEF PeerSends, Becomes, registry
<1>2. CASE KernelOpens BY <1>2 DEF KernelOpens, registry
<1>3. ASSUME NEW p \in Proc, Shutdown(p) PROVE RegistryTracksKernel'
  BY <1>3 DEF Shutdown, Becomes, registry, kernel
<1>4. ASSUME NEW p \in Proc, Swept(p) PROVE RegistryTracksKernel'
  <2>1. CASE pc[p] # "finish" BY <1>4, <2>1 DEF Swept, kernel, registry
  <2>2. CASE pc[p] = "finish"
    <3>1. p \in Finishing /\ todo[p] = {} /\ UNCHANGED fds
      BY <1>4, <2>2 DEF Swept, registry, Finishing
    <3>2. \A w \in Worker : fds[w] = "none" BY <3>1 DEF FinishSwept
    <3>. QED BY <1>4, <2>2, <3>1, <3>2 DEF Swept
  <2>. QED BY <2>1, <2>2
<1>5. ASSUME NEW p \in Proc, NEW w \in Worker, Sweep(p, w) PROVE RegistryTracksKernel'
  BY <1>5 DEF Sweep, TypeOK
<1>6. ASSUME NEW t \in Task, Register(t) PROVE RegistryTracksKernel'
  <2>1. number # Free BY <1>6, CloserAlone DEF Register, Inside, Proc
  <2>2. number' = number BY <1>6 DEF Register
  <2>3. \/ fds[on[t]] = "ready" /\ fds' = [fds EXCEPT ![on[t]] = "clear"] /\ inSet' = inSet
        \/ fds[on[t]] # "ready" /\ fds' = [fds EXCEPT ![on[t]] = "clear"]
           /\ inSet' = [inSet EXCEPT ![on[t]] = @ \/ fds[on[t]] = "none"]
    BY <1>6 DEF Register
  <2>4. fds \in [Worker -> {"none", "clear", "ready"}] /\ inSet \in [Worker -> BOOLEAN]
    BY DEF TypeOK
  <2>5. ASSUME NEW v \in Worker, v = on[t] PROVE fds'[v] # "none" /\ inSet'[v]
    BY <2>3, <2>4, <2>5
  <2>6. ASSUME NEW v \in Worker, v # on[t]
        PROVE  fds'[v] = fds[v] /\ inSet'[v] = inSet[v]
    BY <2>3, <2>4, <2>6
  <2>. QED BY <2>1, <2>2, <2>5, <2>6
<1>7. ASSUME NEW w \in Worker, Take(w) PROVE RegistryTracksKernel'
  <2>1. /\ fds' \in {fds, [fds EXCEPT ![w] = "ready"]}
        /\ fds' # fds => fds[w] # "none"
        /\ UNCHANGED kernel
    BY <1>7 DEF Take
  <2>. QED BY <2>1 DEF TypeOK, kernel
<1>8. CASE UNCHANGED vars BY <1>8 DEF vars, kernel, registry
<1>9. CASE \/ Open
           \/ \E p \in Proc, g \in Gen, w \in Worker \cup {NoWorker}, bounded \in BOOLEAN :
                Start(p, g, w, bounded)
           \/ \E p \in Proc, g \in Gen, w \in Worker \cup {NoWorker} : Close(p, g, w)
           \/ \E p \in Proc : Read(p)
           \/ \E p \in Proc : Release(p)
           \/ \E a \in Proc \cup Worker, t \in Task : Wake(a, t)
           \/ \E t \in Task : WouldBlock(t)
           \/ \E t \in Task : Ask(t)
           \/ \E t \in Task : Park(t)
           \/ \E t \in Task : StrayWake(t)
           \/ \E t \in Task, w \in Worker : Resume(t, w)
           \/ \E w \in Worker : EpollWait(w)
           \/ \E w \in Worker : Polled(w)
  BY <1>9 DEF Open, Start, Close, Read, Release, Wake, WouldBlock, Ask, Park, StrayWake,
     Resume, EpollWait, Polled, kernel, registry
<1>. HIDE DEF RegistryTracksKernel
<1>. QED BY <1>1, <1>2, <1>3, <1>4, <1>5, <1>6, <1>7, <1>8, <1>9 DEF Next

\* A step of a call that does not come to the registration, and makes nothing
\* readable.
LEMMA EdgeFrame ==
  ASSUME TypeOK, EdgeKept, NEW p \in Proc, NEW l, Goto(p, l), l # "register",
         \A t \in Task : t # p => on'[t] = on[t],
         UNCHANGED <<inSet, edge>>, Readable' => Readable
  PROVE  EdgeKept'
BY DEF TypeOK, EdgeKept, Goto, Proc

\* An edge that comes before the registration stays for it.
LEMMA EdgeKeptKept ==
  ASSUME TypeOK, Seated, NumberTracksSlot, NumberHeld, EdgeKept, [Next]_vars
  PROVE  EdgeKept'
<1>1. CASE PeerSends
  <2>1. edge' = [w \in Worker |-> edge[w] \/ inSet[w]] /\ UNCHANGED <<inSet, on, pc>>
    BY <1>1 DEF PeerSends, Becomes, calls
  <2>. QED BY <2>1 DEF EdgeKept, Seated
<1>2. CASE KernelOpens
  <2>1. Inside = {} BY <1>2, CloserAlone DEF KernelOpens
  <2>2. \A t \in Task : pc'[t] # "register" BY <1>2, <2>1 DEF KernelOpens, calls, Inside, Proc
  <2>. QED BY <2>2 DEF EdgeKept
<1>3. ASSUME NEW p \in Proc, NEW g \in Gen, NEW w \in Worker \cup {NoWorker},
             NEW bounded \in BOOLEAN, Start(p, g, w, bounded)
      PROVE  EdgeKept'
  <2>1. \E l \in {"read"} : Goto(p, l) BY <1>3 DEF Start
  <2>2. \A u \in Task : u # p => on'[u] = on[u] BY <1>3 DEF Start, TypeOK, RunsOn
  <2>3. UNCHANGED <<inSet, edge>> /\ (Readable' => Readable) BY <1>3 DEF Start, kernel, Readable
  <2>. QED BY <2>1, <2>2, <2>3, EdgeFrame DEF Proc
<1>4. ASSUME NEW p \in Proc, NEW g \in Gen, NEW w \in Worker \cup {NoWorker}, Close(p, g, w)
      PROVE  EdgeKept'
  <2>1. \E l \in {"finish", "notify", "shutdown"} : Goto(p, l) BY <1>4 DEF Close
  <2>2. \A u \in Task : u # p => on'[u] = on[u] BY <1>4 DEF Close, TypeOK, RunsOn
  <2>3. UNCHANGED <<inSet, edge>> /\ (Readable' => Readable) BY <1>4 DEF Close, kernel, Readable
  <2>. QED BY <2>1, <2>2, <2>3, EdgeFrame DEF Proc
<1>5. ASSUME NEW p \in Proc, Read(p) PROVE EdgeKept'
  <2>1. Goto(p, "release") /\ UNCHANGED <<on, number, inSet, edge>> BY <1>5 DEF Read
  <2>2. Readable BY <1>5 DEF Read
  <2>. QED BY <2>1, <2>2, EdgeFrame
<1>6. ASSUME NEW p \in Proc, Release(p) PROVE EdgeKept'
  <2>1. \E l \in {"finish", "idle"} : Goto(p, l) BY <1>6 DEF Release, Returns
  <2>2. \A u \in Task : u # p => on'[u] = on[u] BY <1>6 DEF Release, TypeOK, Returns, Suspends
  <2>3. UNCHANGED <<inSet, edge>> /\ (Readable' => Readable) BY <1>6 DEF Release, kernel, Readable
  <2>. QED BY <2>1, <2>2, <2>3, EdgeFrame DEF Proc
<1>7. ASSUME NEW p \in Proc, Shutdown(p) PROVE EdgeKept'
  <2>1. Goto(p, "notify") /\ UNCHANGED on BY <1>7 DEF Shutdown
  <2>2. CASE UNCHANGED kernel
    <3>1. UNCHANGED <<inSet, edge>> /\ (Readable' => Readable) BY <2>2 DEF kernel, Readable
    <3>. QED BY <2>1, <3>1, EdgeFrame
  <2>3. CASE Becomes("shut")
    <3>1. edge' = [w \in Worker |-> edge[w] \/ inSet[w]] /\ UNCHANGED inSet
      BY <2>3 DEF Becomes
    <3>. QED BY <2>1, <3>1 DEF EdgeKept, Seated, Goto, TypeOK, Proc
  <2>. QED BY <1>7, <2>2, <2>3 DEF Shutdown
<1>8. ASSUME NEW p \in Proc, Swept(p) PROVE EdgeKept'
  <2>1. \E l \in {"park", "idle"} : Goto(p, l) BY <1>8 DEF Swept, Returns
  <2>2. \A u \in Task : u # p => on'[u] = on[u] BY <1>8 DEF Swept, TypeOK, Returns, Suspends
  <2>3. CASE UNCHANGED kernel
    <3>1. UNCHANGED <<inSet, edge>> /\ (Readable' => Readable) BY <2>3 DEF kernel, Readable
    <3>. QED BY <2>1, <2>2, <3>1, EdgeFrame
  <2>4. CASE inSet' = [w \in Worker |-> FALSE]
    BY <2>1, <2>2, <2>4 DEF EdgeKept, Seated, Goto, TypeOK, Proc
  <2>. QED BY <1>8, <2>3, <2>4 DEF Swept
<1>9. ASSUME NEW p \in Proc, NEW w \in Worker, Sweep(p, w) PROVE EdgeKept'
  <2>1. /\ inSet' = [inSet EXCEPT ![w] = FALSE] /\ edge' = [edge EXCEPT ![w] = FALSE]
        /\ UNCHANGED <<pc, on, number, rx>>
    BY <1>9 DEF Sweep
  <2>2. Readable' = Readable BY <2>1 DEF Readable
  <2>. QED BY <2>1, <2>2 DEF EdgeKept, Seated, TypeOK
<1>10. ASSUME NEW t \in Task, WouldBlock(t) PROVE EdgeKept'
  <2>1. UNCHANGED <<on, inSet, edge>> /\ ~Readable' BY <1>10 DEF WouldBlock, kernel, Readable
  <2>. QED BY <2>1 DEF EdgeKept
<1>11. ASSUME NEW t \in Task, Register(t) PROVE EdgeKept'
  <2>1. pc' \in {[pc EXCEPT ![t] = "ask"], [pc EXCEPT ![t] = "ask retry"]} /\ UNCHANGED on
    BY <1>11 DEF Register, Goto
  <2>2. Readable' = Readable BY <1>11 DEF Register, Readable
  <2>3. \A v \in Worker : v # on[t] => inSet'[v] = inSet[v] /\ edge'[v] = edge[v]
    BY <1>11 DEF Register, TypeOK
  <2>4. \A u \in Task : u # t /\ pc[u] = "register" => on[u] \in Worker /\ on[u] # on[t]
    BY NetIoAssumption DEF Seated
  <2>5. ASSUME NEW u \in Task, pc'[u] = "register" PROVE u # t /\ pc[u] = "register"
    BY <2>1, <2>5 DEF TypeOK, Proc
  <2>. QED BY <2>1, <2>2, <2>3, <2>4, <2>5 DEF EdgeKept
<1>12. ASSUME NEW t \in Task, Ask(t) PROVE EdgeKept'
  <2>1. \E l \in {"read", "release", "park", "self"} : Goto(t, l) BY <1>12 DEF Ask
  <2>2. \A u \in Task : u # t => on'[u] = on[u] BY <1>12 DEF Ask, TypeOK
  <2>3. UNCHANGED <<inSet, edge>> /\ (Readable' => Readable) BY <1>12 DEF Ask, kernel, Readable
  <2>. QED BY <2>1, <2>2, <2>3, EdgeFrame DEF Proc
<1>13. ASSUME NEW t \in Task, Park(t) PROVE EdgeKept'
  <2>1. \E l \in {"asleep"} : Goto(t, l) BY <1>13 DEF Park
  <2>2. \A u \in Task : u # t => on'[u] = on[u] BY <1>13 DEF Park, TypeOK, Suspends
  <2>3. UNCHANGED <<inSet, edge>> /\ (Readable' => Readable) BY <1>13 DEF Park, kernel, Readable
  <2>. QED BY <2>1, <2>2, <2>3, EdgeFrame DEF Proc
<1>14. ASSUME NEW t \in Task, NEW w \in Worker, Resume(t, w) PROVE EdgeKept'
  <2>1. \E l \in {"read", "release"} : Goto(t, l) BY <1>14 DEF Resume
  <2>2. \A u \in Task : u # t => on'[u] = on[u] BY <1>14 DEF Resume, TypeOK, RunsOn
  <2>3. UNCHANGED <<inSet, edge>> /\ (Readable' => Readable) BY <1>14 DEF Resume, kernel, Readable
  <2>. QED BY <2>1, <2>2, <2>3, EdgeFrame DEF Proc
<1>15. ASSUME NEW w \in Worker, EpollWait(w) PROVE EdgeKept'
  <2>1. edge' = [edge EXCEPT ![w] = FALSE] /\ UNCHANGED <<pc, on, inSet, number, rx>>
    BY <1>15 DEF EpollWait, calls
  <2>2. \A t \in Task : on[t] # w BY <1>15 DEF EpollWait, Vacant
  <2>3. Readable' = Readable BY <2>1 DEF Readable
  <2>4. \A v \in Worker : v # w => edge'[v] = edge[v] BY <2>1 DEF TypeOK
  <2>5. \A t \in Task : pc[t] = "register" => on[t] \in Worker BY DEF Seated
  <2>. QED BY <2>1, <2>2, <2>3, <2>4, <2>5 DEF EdgeKept
<1>16. CASE UNCHANGED vars BY <1>16 DEF vars, EdgeKept, Readable, calls, kernel
<1>17. CASE \/ Open
            \/ \E a \in Proc \cup Worker, t \in Task : Wake(a, t)
            \/ \E t \in Task : StrayWake(t)
            \/ \E w \in Worker : Take(w)
            \/ \E w \in Worker : Polled(w)
  BY <1>17 DEF Open, Wake, StrayWake, Take, Polled, EdgeKept, Readable, calls, kernel
<1>. QED BY <1>1, <1>2, <1>3, <1>4, <1>5, <1>6, <1>7, <1>8, <1>9, <1>10, <1>11, <1>12,
            <1>13, <1>14, <1>15, <1>16, <1>17 DEF Next

-----------------------------------------------------------------------------
(* The scheduling words                                                    *)

\* A call whose word stays goes on, or comes to a place where it runs.
LEMMA AwakeFrame ==
  ASSUME TypeOK, Awake, NEW p \in Proc, NEW l, Goto(p, l), UNCHANGED word,
         pc[p] # "asleep", l # "asleep"
  PROVE  Awake'
BY DEF TypeOK, Awake, Goto, Proc

\* A wake leaves a Running word Running and a Parked one Ready.
LEMMA AwakeWoken ==
  ASSUME TypeOK, Awake, NEW t \in Task, word' = [word EXCEPT ![t] = Sched!WokenWord(@)],
         UNCHANGED pc
  PROVE  Awake'
<1>1. word[t] \in Sched!Word /\ word'[t] = Sched!WokenWord(word[t]) BY DEF TypeOK
<1>2. \A u \in Task : u # t => word'[u] = word[u] BY DEF TypeOK
<1>. QED BY <1>1, <1>2, Wakes DEF Awake

\* Every step keeps the words.
LEMMA AwakeKept ==
  ASSUME TypeOK, Awake, [Next]_vars
  PROVE  Awake'
<1>1. ASSUME NEW p \in Proc, NEW g \in Gen, NEW w \in Worker \cup {NoWorker},
             NEW bounded \in BOOLEAN, Start(p, g, w, bounded)
      PROVE  Awake'
  <2>1. \E l \in {"read"} : Goto(p, l) BY <1>1 DEF Start
  <2>2. pc[p] # "asleep" /\ UNCHANGED word BY <1>1 DEF Start
  <2>. QED BY <2>1, <2>2, AwakeFrame DEF Proc
<1>2. ASSUME NEW p \in Proc, NEW g \in Gen, NEW w \in Worker \cup {NoWorker}, Close(p, g, w)
      PROVE  Awake'
  <2>1. \E l \in {"finish", "notify", "shutdown"} : Goto(p, l) BY <1>2 DEF Close
  <2>2. pc[p] # "asleep" /\ UNCHANGED word BY <1>2 DEF Close
  <2>. QED BY <2>1, <2>2, AwakeFrame DEF Proc
<1>3. ASSUME NEW p \in Proc, Read(p) PROVE Awake'
  <2>1. \E l \in {"release"} : Goto(p, l) BY <1>3 DEF Read
  <2>2. pc[p] # "asleep" /\ UNCHANGED word BY <1>3 DEF Read
  <2>. QED BY <2>1, <2>2, AwakeFrame DEF Proc
<1>4. ASSUME NEW p \in Proc, Release(p) PROVE Awake'
  <2>1. \E l \in {"finish", "idle"} : Goto(p, l) BY <1>4 DEF Release, Returns
  <2>2. pc[p] # "asleep" /\ UNCHANGED word BY <1>4 DEF Release
  <2>. QED BY <2>1, <2>2, AwakeFrame DEF Proc
<1>5. ASSUME NEW p \in Proc, Shutdown(p) PROVE Awake'
  <2>1. \E l \in {"notify"} : Goto(p, l) BY <1>5 DEF Shutdown
  <2>2. pc[p] # "asleep" /\ UNCHANGED word BY <1>5 DEF Shutdown
  <2>. QED BY <2>1, <2>2, AwakeFrame DEF Proc
<1>6. ASSUME NEW p \in Proc, Swept(p) PROVE Awake'
  <2>1. \E l \in {"park", "idle"} : Goto(p, l) BY <1>6 DEF Swept, Returns
  <2>2. pc[p] # "asleep" /\ UNCHANGED word BY <1>6 DEF Swept
  <2>. QED BY <2>1, <2>2, AwakeFrame DEF Proc
<1>7. ASSUME NEW a \in Proc \cup Worker, NEW t \in Task, Wake(a, t) PROVE Awake'
  BY <1>7, AwakeWoken DEF Wake, calls
<1>8. ASSUME NEW t \in Task, WouldBlock(t) PROVE Awake'
  <2>1. \E l \in {"register", "release"} : Goto(t, l) BY <1>8 DEF WouldBlock
  <2>2. pc[t] # "asleep" /\ UNCHANGED word BY <1>8 DEF WouldBlock
  <2>. QED BY <2>1, <2>2, AwakeFrame DEF Proc
<1>9. ASSUME NEW t \in Task, Register(t) PROVE Awake'
  <2>1. \E l \in {"ask", "ask retry"} : Goto(t, l) BY <1>9 DEF Register
  <2>2. pc[t] # "asleep" /\ UNCHANGED word BY <1>9 DEF Register
  <2>. QED BY <2>1, <2>2, AwakeFrame DEF Proc
<1>10. ASSUME NEW t \in Task, Ask(t) PROVE Awake'
  <2>1. \E l \in {"read", "release", "park", "self"} : Goto(t, l) BY <1>10 DEF Ask
  <2>2. pc[t] # "asleep" /\ UNCHANGED word BY <1>10 DEF Ask
  <2>. QED BY <2>1, <2>2, AwakeFrame DEF Proc
<1>11. ASSUME NEW t \in Task, Park(t) PROVE Awake'
  <2>1. /\ word' = [word EXCEPT ![t] = Sched!YieldedWord(@)] /\ Goto(t, "asleep")
    BY <1>11 DEF Park
  <2>2. word[t] \in Sched!Word /\ word'[t] = Sched!YieldedWord(word[t]) BY <2>1 DEF TypeOK
  <2>3. \A u \in Task : u # t => word'[u] = word[u] BY <2>1 DEF TypeOK
  <2>4. word'[t].st \in {"ready", "parked"} BY <2>2, Suspension
  <2>. QED BY <2>1, <2>3, <2>4 DEF Awake, TypeOK, Goto, Proc
<1>12. ASSUME NEW t \in Task, StrayWake(t) PROVE Awake'
  BY <1>12, AwakeWoken DEF StrayWake, calls
<1>13. ASSUME NEW t \in Task, NEW w \in Worker, Resume(t, w) PROVE Awake'
  <2>1. /\ word' = [word EXCEPT ![t] = Sched!RunningWord(@, NoWorker)]
        /\ \E l \in {"read", "release"} : Goto(t, l)
    BY <1>13 DEF Resume
  <2>2. word[t] \in Sched!Word /\ word'[t] = Sched!RunningWord(word[t], NoWorker)
    BY <2>1 DEF TypeOK
  <2>3. \A u \in Task : u # t => word'[u] = word[u] BY <2>1 DEF TypeOK
  <2>4. word'[t].st = "running" BY <2>2, Resumption
  <2>. QED BY <2>1, <2>3, <2>4 DEF Awake, TypeOK, Goto, Proc
<1>14. CASE UNCHANGED vars BY <1>14 DEF vars, Awake, calls
<1>15. CASE \/ PeerSends
            \/ KernelOpens
            \/ Open
            \/ \E p \in Proc, w \in Worker : Sweep(p, w)
            \/ \E w \in Worker : EpollWait(w)
            \/ \E w \in Worker : Take(w)
            \/ \E w \in Worker : Polled(w)
  BY <1>15 DEF PeerSends, KernelOpens, Open, Sweep, EpollWait, Take, Polled, Awake, calls
<1>. QED BY <1>1, <1>2, <1>3, <1>4, <1>5, <1>6, <1>7, <1>8, <1>9, <1>10, <1>11, <1>12,
            <1>13, <1>14, <1>15 DEF Next

-----------------------------------------------------------------------------
(* The entries                                                             *)

\* Where a waiting task is.
WaitingAt == {"ask", "self", "park", "asleep"}

\* A step of a call that is not in a wait, or stays in it.
LEMMA EntriesFrame ==
  ASSUME TypeOK, Entries, NEW p \in Proc, NEW l, Goto(p, l), p \in Waiting => l \in WaitingAt,
         UNCHANGED <<waiters, outcome>>,
         \A q \in Proc : q # p \/ q \in Waiting => timed'[q] = timed[q]
  PROVE  Entries'
<1>1. Waiting \subseteq Waiting' /\ Waiting' \subseteq Task
  BY DEF TypeOK, Goto, Waiting, WaitingAt, Proc
<1>2. \A t \in Waiting : timed'[t] = timed[t] BY DEF Waiting, Proc
<1>3. \A t \in Task, v \in Worker : Waits(t, v)' = Waits(t, v) BY DEF Waits
<1>4. \A t \in Task \ Waiting' : outcome'[t] = "pending" BY <1>1 DEF Entries
<1>5. ASSUME NEW w \in Worker, NEW x \in waiters[w], ~x.stale
      PROVE  /\ x.task \in Waiting' /\ x.timed = timed'[x.task] /\ outcome'[x.task] = "pending"
             /\ \A v \in Worker : Waits(x.task, v)' => v = w
  <2>1. /\ x.task \in Waiting /\ x.timed = timed[x.task] /\ outcome[x.task] = "pending"
        /\ \A v \in Worker : Waits(x.task, v) => v = w
    BY <1>5 DEF Entries
  <2>2. x.task \in Task BY <2>1, <1>1
  <2>. QED BY <2>1, <2>2, <1>1, <1>2, <1>3
<1>. QED BY <1>4, <1>5 DEF Entries

\* An entry that is not stale is the entry of its task.
LEMMA EntryOf ==
  ASSUME TypeOK, Entries, NEW w \in Worker, NEW x \in waiters[w], ~x.stale
  PROVE  /\ x = [task |-> x.task, stale |-> FALSE, timed |-> timed[x.task]]
         /\ x.task \in Waiting /\ outcome[x.task] = "pending" /\ Waits(x.task, w)
         /\ \A v \in Worker : Waits(x.task, v) => v = w
<1>1. x \in Waiter BY DEF TypeOK
<1>2. /\ x.task \in Waiting /\ x.timed = timed[x.task] /\ outcome[x.task] = "pending"
      /\ \A v \in Worker : Waits(x.task, v) => v = w
  BY DEF Entries
<1>3. x.stale = FALSE BY <1>1 DEF Waiter
<1>4. x = [task |-> x.task, stale |-> FALSE, timed |-> timed[x.task]]
  BY <1>1, <1>2, <1>3 DEF Waiter
<1>. QED BY <1>2, <1>4 DEF Waits

\* A poller that resolves some of its waiters takes their entries off, and tells
\* nobody else.
LEMMA ResolvedOthers ==
  ASSUME TypeOK, Entries, NEW w \in Worker, NEW S \in SUBSET waiters[w], NEW r,
         Resolved(S, r), NEW t \in Task,
         \/ t \notin Waiting
         \/ \E v \in Worker : Waits(t, v) /\ \A x \in S : v = w => x.task # t
  PROVE  outcome'[t] = outcome[t]
<1>. DEFINE e == [task |-> t, stale |-> FALSE, timed |-> timed[t]]
<1>1. e.task = t /\ ~e.stale OBVIOUS
<1>2. e \notin S
  <2>. SUFFICES ASSUME e \in S PROVE FALSE OBVIOUS
  <2>1. t \in Waiting /\ Waits(t, w) /\ \A v \in Worker : Waits(t, v) => v = w
    <3>. HIDE DEF e
    <3>. QED BY <1>1, EntryOf
  <2>. QED BY <1>1, <2>1
<1>. QED BY <1>2 DEF Resolved

\* A poller that resolves entries, be it for an edge, a deadline or a close, leaves
\* the others as they were.
LEMMA EntriesResolved ==
  ASSUME TypeOK, Entries, NEW w \in Worker, NEW S \in SUBSET waiters[w], NEW r,
         waiters' = [waiters EXCEPT ![w] = @ \ S], Resolved(S, r), UNCHANGED <<pc, timed>>
  PROVE  Entries'
<1>1. Waiting' = Waiting BY DEF Waiting
<1>2. \A v \in Worker : waiters'[v] = IF v = w THEN waiters[w] \ S ELSE waiters[v]
  BY DEF TypeOK
<1>3. \A t \in Task, v \in Worker : Waits(t, v)' => Waits(t, v) BY <1>2 DEF Waits
<1>4. \A t \in Task \ Waiting : outcome'[t] = "pending"
  BY ResolvedOthers DEF Entries
<1>5. ASSUME NEW v \in Worker, NEW x \in waiters'[v], ~x.stale
      PROVE  /\ x.task \in Waiting /\ x.timed = timed[x.task] /\ outcome'[x.task] = "pending"
             /\ \A u \in Worker : Waits(x.task, u)' => u = v
  <2>1. x \in waiters[v] /\ (v = w => x \notin S) BY <1>2
  <2>2. /\ x = [task |-> x.task, stale |-> FALSE, timed |-> timed[x.task]]
        /\ x.task \in Waiting /\ outcome[x.task] = "pending" /\ Waits(x.task, v)
        /\ \A u \in Worker : Waits(x.task, u) => u = v
    BY <1>5, <2>1, EntryOf
  <2>3. x.task \in Task BY <2>2 DEF Waiting
  <2>4. [task |-> x.task, stale |-> FALSE, timed |-> timed[x.task]] \notin S
    <3>1. CASE v = w BY <2>1, <2>2, <3>1
    <3>2. CASE v # w
      <4>. DEFINE e == [task |-> x.task, stale |-> FALSE, timed |-> timed[x.task]]
      <4>1. e = x /\ (x \in S => x \in waiters[w]) BY <2>2
      <4>2. x \in waiters[w] => Waits(x.task, w) BY <1>5 DEF Waits
      <4>. QED BY <2>2, <3>2, <4>1, <4>2
    <3>. QED BY <3>1, <3>2
  <2>5. outcome'[x.task] = outcome[x.task] BY <2>3, <2>4 DEF Resolved
  <2>6. x.timed = timed[x.task] BY <1>5, <2>1 DEF Entries
  <2>. QED BY <1>3, <2>2, <2>3, <2>5, <2>6
<1>. QED BY <1>1, <1>4, <1>5 DEF Entries

\* A registration lists a task that was listed nowhere.
LEMMA EntriesRegistered ==
  ASSUME TypeOK, Seated, Entries, NEW t \in Task, Register(t)
  PROVE  Entries'
<1>1. t \notin Waiting /\ pc[t] = "register" BY DEF Register, Waiting
<1>2. on[t] \in Worker BY <1>1 DEF Seated
<1>3. CASE pc' = [pc EXCEPT ![t] = "ask retry"] /\ UNCHANGED waiters
  BY <1>1, <1>3, EntriesFrame DEF Register, Goto, Proc
<1>4. CASE pc' = [pc EXCEPT ![t] = "ask"] /\ waiters' = [waiters EXCEPT ![on[t]] =
               @ \cup {[task |-> t, stale |-> FALSE, timed |-> timed[t]]}]
  <2>. DEFINE e == [task |-> t, stale |-> FALSE, timed |-> timed[t]]
  <2>1. Waiting' = Waiting \cup {t} BY <1>4 DEF TypeOK, Waiting, Proc
  <2>2. UNCHANGED <<timed, outcome>> BY DEF Register
  <2>3. outcome'[t] = "pending" BY <1>1, <2>2 DEF Entries
  <2>4. e.task = t /\ ~e.stale /\ e.timed = timed[t] OBVIOUS
  <2>. HIDE DEF e
  <2>5. \A v \in Worker : waiters'[v] = IF v = on[t] THEN waiters[v] \cup {e} ELSE waiters[v]
    BY <1>2, <1>4 DEF TypeOK, e
  <2>6. \A v \in Worker : ~Waits(t, v)
    BY <1>1 DEF Entries, Waits
  <2>7. \A u \in Task, v \in Worker : u # t => (Waits(u, v)' <=> Waits(u, v))
    BY <2>4, <2>5 DEF Waits
  <2>8. \A v \in Worker : Waits(t, v)' => v = on[t] BY <2>4, <2>5, <2>6 DEF Waits
  <2>9. ASSUME NEW v \in Worker, NEW x \in waiters'[v], ~x.stale
        PROVE  /\ x.task \in Waiting' /\ x.timed = timed'[x.task]
               /\ outcome'[x.task] = "pending"
               /\ \A u \in Worker : Waits(x.task, u)' => u = v
    <3>1. CASE x \in waiters[v]
      <4>1. /\ x.task \in Waiting /\ x.timed = timed[x.task]
            /\ outcome[x.task] = "pending" /\ x.task # t /\ x.task \in Task
            /\ \A u \in Worker : Waits(x.task, u) => u = v
        BY <1>1, <2>9, <3>1 DEF Entries, Waiting
      <4>. QED BY <2>1, <2>2, <2>7, <4>1
    <3>2. CASE x \notin waiters[v]
      <4>1. x = e /\ v = on[t] BY <2>5, <3>2
      <4>. QED BY <2>1, <2>2, <2>3, <2>4, <2>8, <4>1
    <3>. QED BY <3>1, <3>2
  <2>10. \A u \in Task \ Waiting' : outcome'[u] = "pending" BY <2>1, <2>2 DEF Entries
  <2>. QED BY <2>9, <2>10 DEF Entries
<1>. QED BY <1>3, <1>4 DEF Register, Goto

\* A task that goes on leaves only stale entries behind.
LEMMA EntriesResumed ==
  ASSUME TypeOK, Entries, NEW t \in Task, NEW w \in Worker, Resume(t, w)
  PROVE  Entries'
<1>1. PICK l \in {"read", "release"} : pc' = [pc EXCEPT ![t] = l] BY DEF Resume, Goto
<1>2. /\ outcome' = [outcome EXCEPT ![t] = "pending"] /\ UNCHANGED timed
      /\ waiters' = [v \in Worker |->
                        {[x EXCEPT !.stale = @ \/ x.task = t] : x \in waiters[v]}]
  BY DEF Resume, Abandoned
<1>3. Waiting' = Waiting \ {t} BY <1>1 DEF TypeOK, Waiting, Proc
<1>4. ASSUME NEW v \in Worker, NEW x \in waiters'[v], ~x.stale
      PROVE  x \in waiters[v] /\ x.task # t
  <2>1. PICK y \in waiters[v] : x = [y EXCEPT !.stale = @ \/ y.task = t] BY <1>2
  <2>2. y \in Waiter BY DEF TypeOK
  <2>3. x.task = y.task /\ x.stale = (y.stale \/ y.task = t) BY <2>1, <2>2 DEF Waiter
  <2>4. ~y.stale /\ y.task # t BY <1>4, <2>3
  <2>5. y.stale = FALSE BY <2>2, <2>4 DEF Waiter
  <2>6. x = y BY <2>1, <2>2, <2>3, <2>4, <2>5 DEF Waiter
  <2>. QED BY <2>4, <2>6
<1>5. \A u \in Task, v \in Worker : Waits(u, v)' => Waits(u, v) BY <1>4 DEF Waits
<1>6. \A u \in Task \ Waiting' : outcome'[u] = "pending" BY <1>2, <1>3 DEF Entries, TypeOK
<1>7. ASSUME NEW v \in Worker, NEW x \in waiters'[v], ~x.stale
      PROVE  /\ x.task \in Waiting' /\ x.timed = timed'[x.task] /\ outcome'[x.task] = "pending"
             /\ \A u \in Worker : Waits(x.task, u)' => u = v
  <2>1. x \in waiters[v] /\ x.task # t BY <1>4, <1>7
  <2>2. /\ x.task \in Waiting /\ x.timed = timed[x.task] /\ outcome[x.task] = "pending"
        /\ \A u \in Worker : Waits(x.task, u) => u = v
    BY <1>7, <2>1 DEF Entries
  <2>3. x.task \in Task BY <2>2 DEF Waiting
  <2>4. outcome'[x.task] = outcome[x.task] BY <1>2, <2>1, <2>3 DEF TypeOK
  <2>. QED BY <1>2, <1>3, <1>5, <2>1, <2>2, <2>3, <2>4
<1>. QED BY <1>6, <1>7 DEF Entries

\* Every step keeps the entries.
LEMMA EntriesKept ==
  ASSUME TypeOK, Seated, Entries, [Next]_vars
  PROVE  Entries'
<1>1. ASSUME NEW p \in Proc, NEW g \in Gen, NEW w \in Worker \cup {NoWorker},
             NEW bounded \in BOOLEAN, Start(p, g, w, bounded)
      PROVE  Entries'
  <2>1. \E l \in {"read"} : Goto(p, l) BY <1>1 DEF Start
  <2>2. p \notin Waiting /\ UNCHANGED <<waiters, outcome>> BY <1>1 DEF Start, Waiting, registry
  <2>3. \A q \in Proc : q # p => timed'[q] = timed[q] BY <1>1 DEF Start, TypeOK
  <2>. QED BY <2>1, <2>2, <2>3, EntriesFrame DEF Proc
<1>2. ASSUME NEW p \in Proc, NEW g \in Gen, NEW w \in Worker \cup {NoWorker}, Close(p, g, w)
      PROVE  Entries'
  <2>1. \E l \in {"finish", "notify", "shutdown"} : Goto(p, l) BY <1>2 DEF Close
  <2>2. p \notin Waiting /\ UNCHANGED <<waiters, outcome>> BY <1>2 DEF Close, Waiting, registry
  <2>3. \A q \in Proc : q # p => timed'[q] = timed[q] BY <1>2 DEF Close, TypeOK
  <2>. QED BY <2>1, <2>2, <2>3, EntriesFrame DEF Proc
<1>3. ASSUME NEW p \in Proc, Read(p) PROVE Entries'
  <2>1. \E l \in {"release"} : Goto(p, l) BY <1>3 DEF Read
  <2>2. p \notin Waiting /\ UNCHANGED <<waiters, outcome>> BY <1>3 DEF Read, Waiting, registry
  <2>3. \A q \in Proc : q # p => timed'[q] = timed[q] BY <1>3 DEF Read, TypeOK
  <2>. QED BY <2>1, <2>2, <2>3, EntriesFrame DEF Proc
<1>4. ASSUME NEW p \in Proc, Release(p) PROVE Entries'
  <2>1. \E l \in {"finish", "idle"} : Goto(p, l) BY <1>4 DEF Release, Returns
  <2>2. p \notin Waiting /\ UNCHANGED <<waiters, outcome>> BY <1>4 DEF Release, Waiting, registry
  <2>3. \A q \in Proc : q # p => timed'[q] = timed[q] BY <1>4 DEF Release, TypeOK, Returns
  <2>. QED BY <2>1, <2>2, <2>3, EntriesFrame DEF Proc
<1>5. ASSUME NEW p \in Proc, Shutdown(p) PROVE Entries'
  <2>1. \E l \in {"notify"} : Goto(p, l) BY <1>5 DEF Shutdown
  <2>2. p \notin Waiting /\ UNCHANGED <<waiters, outcome>> BY <1>5 DEF Shutdown, Waiting, registry
  <2>3. \A q \in Proc : q # p => timed'[q] = timed[q] BY <1>5 DEF Shutdown, TypeOK
  <2>. QED BY <2>1, <2>2, <2>3, EntriesFrame DEF Proc
<1>6. ASSUME NEW p \in Proc, Swept(p) PROVE Entries'
  <2>1. CASE pc[p] = "self"
    <3>1. Goto(p, "park") /\ UNCHANGED <<waiters, outcome, timed>>
      BY <1>6, <2>1 DEF Swept, registry
    <3>. QED BY <3>1, EntriesFrame DEF WaitingAt
  <2>2. CASE pc[p] # "self"
    <3>1. Returns(p) /\ p \notin Waiting /\ UNCHANGED <<waiters, outcome>>
      BY <1>6, <2>2 DEF Swept, registry, Waiting
    <3>2. \A q \in Proc : q # p => timed'[q] = timed[q] BY <3>1 DEF Returns, TypeOK
    <3>. QED BY <3>1, <3>2, EntriesFrame DEF Returns
  <2>. QED BY <2>1, <2>2
<1>7. ASSUME NEW p \in Proc, NEW w \in Worker, Sweep(p, w) PROVE Entries'
  <2>1. waiters' = [waiters EXCEPT ![w] = @ \ waiters[w]] /\ Resolved(waiters[w], "closed")
        /\ UNCHANGED <<pc, timed>>
    BY <1>7 DEF Sweep
  <2>. QED BY <2>1, EntriesResolved
<1>8. ASSUME NEW t \in Task, WouldBlock(t) PROVE Entries'
  <2>1. \E l \in {"register", "release"} : Goto(t, l) BY <1>8 DEF WouldBlock
  <2>2. t \notin Waiting /\ UNCHANGED <<waiters, outcome>> BY <1>8 DEF WouldBlock, Waiting, registry
  <2>3. \A q \in Proc : q # t => timed'[q] = timed[q] BY <1>8 DEF WouldBlock, TypeOK
  <2>. QED BY <2>1, <2>2, <2>3, EntriesFrame DEF Proc
<1>9. ASSUME NEW t \in Task, Register(t) PROVE Entries' BY <1>9, EntriesRegistered
<1>10. ASSUME NEW t \in Task, Ask(t) PROVE Entries'
  <2>1. UNCHANGED <<waiters, outcome, timed>> BY <1>10 DEF Ask, registry
  <2>2. \/ t \notin Waiting /\ \E l : Goto(t, l)
        \/ \E l \in WaitingAt : Goto(t, l)
    BY <1>10 DEF Ask, Waiting, WaitingAt
  <2>. QED BY <2>1, <2>2, EntriesFrame DEF Proc
<1>11. ASSUME NEW t \in Task, Park(t) PROVE Entries'
  BY <1>11, EntriesFrame DEF Park, registry, WaitingAt, Proc
<1>12. ASSUME NEW t \in Task, NEW w \in Worker, Resume(t, w) PROVE Entries'
  BY <1>12, EntriesResumed
<1>13. ASSUME NEW w \in Worker, Take(w) PROVE Entries'
  <2>. DEFINE fired == IF harvest[w] THEN waiters[w] ELSE {}
  <2>1. PICK due \in SUBSET {x \in waiters[w] \ fired : x.timed} :
          /\ waiters' = [waiters EXCEPT ![w] = @ \ (fired \cup due)]
          /\ Resolved(fired \cup due, IF fired # {} THEN "ready" ELSE "timed out")
    BY <1>13 DEF Take
  <2>2. fired \cup due \in SUBSET waiters[w] OBVIOUS
  <2>3. UNCHANGED <<pc, timed>> BY <1>13 DEF Take, calls
  <2>. HIDE DEF fired
  <2>. QED BY <2>1, <2>2, <2>3, EntriesResolved
<1>14. CASE UNCHANGED vars BY <1>14 DEF vars, Entries, Waits, Waiting, calls, registry
<1>15. CASE \/ PeerSends
            \/ KernelOpens
            \/ Open
            \/ \E a \in Proc \cup Worker, t \in Task : Wake(a, t)
            \/ \E t \in Task : StrayWake(t)
            \/ \E w \in Worker : EpollWait(w)
            \/ \E w \in Worker : Polled(w)
  BY <1>15 DEF PeerSends, KernelOpens, Open, Wake, StrayWake, EpollWait, Polled, Entries,
     Waits, Waiting, calls, registry
<1>. QED BY <1>1, <1>2, <1>3, <1>4, <1>5, <1>6, <1>7, <1>8, <1>9, <1>10, <1>11, <1>12,
            <1>13, <1>14, <1>15 DEF Next

-----------------------------------------------------------------------------
(* The waits are covered                                                   *)

\* A call that waits is inside, so the number is its handle's and open.
LEMMA WaitingInside ==
  ASSUME TypeOK, NumberTracksSlot, NumberHeld, NEW t \in Waiting
  PROVE  /\ t \in Task /\ t \in Inside /\ number # Free /\ number = handle[t]
         /\ slot.gen = handle[t] /\ slot.opened /\ slot.users > 0
<1>1. t \in Task /\ t \in Inside BY DEF Waiting, Inside, Proc
<1>2. slot.opened /\ number = handle[t] /\ slot.gen = handle[t]
  BY <1>1 DEF NumberTracksSlot, NumberHeld
<1>3. slot.users # 0 BY <1>1, InsideFinite, FS_EmptySet DEF NumberHeld
<1>. QED BY <1>1, <1>2, <1>3, Ranges, CloserAlone

\* A wake that has been noted is not lost, and one that is delivered is noted.
LEMMA WakeSide ==
  ASSUME TypeOK, PollPhases, Awake, [Next]_vars, NEW t \in Waiting, t \in Waiting'
  PROVE  Flagged(t) \/ ToBeWoken(t) => (Flagged(t) \/ ToBeWoken(t))'
<1>. DEFINE Noted == Flagged(t) \/ ToBeWoken(t) => (Flagged(t) \/ ToBeWoken(t))'
<1>0. /\ t \in Task /\ word[t] \in Sched!Word /\ word[t].st \in {"ready", "parked", "running"}
      /\ word = [u \in Task |-> word[u]]
      /\ toWake = [a \in Proc \cup Worker |-> toWake[a]]
  BY DEF Waiting, TypeOK, Awake
<1>1. CASE UNCHANGED <<word, toWake>> BY <1>1 DEF Flagged, ToBeWoken
<1>2. CASE UNCHANGED toWake /\ \E u \in Task : u # t /\ \E x : word' = [word EXCEPT ![u] = x]
  <2>1. word'[t] = word[t] BY <1>0, <1>2
  <2>. QED BY <1>2, <2>1 DEF Flagged, ToBeWoken
<1>3. ASSUME NEW u \in Task, Park(u) PROVE Noted
  <2>1. UNCHANGED toWake /\ word' = [word EXCEPT ![u] = Sched!YieldedWord(@)]
    BY <1>3 DEF Park
  <2>2. CASE u # t BY <1>2, <2>1, <2>2
  <2>3. CASE u = t
    <3>1. word'[t] = Sched!YieldedWord(word[t]) BY <1>0, <2>1, <2>3
    <3>2. word[t].st = "running" BY <1>3, <2>3 DEF Park, Awake
    <3>3. word[t].wake => word'[t].st = "ready" BY <1>0, <3>1, Suspension
    <3>. QED BY <2>1, <3>2, <3>3 DEF Flagged, ToBeWoken
  <2>. QED BY <2>2, <2>3
<1>4. ASSUME NEW u \in Task, NEW w \in Worker, Resume(u, w) PROVE Noted
  <2>1. u # t
    BY <1>4 DEF Resume, Waiting, Goto, TypeOK, Proc
  <2>. QED BY <1>2, <1>4, <2>1 DEF Resume
<1>5. ASSUME NEW u \in Task, word' = [word EXCEPT ![u] = Sched!WokenWord(@)]
      PROVE  (Flagged(t) => Flagged(t)') /\ (u = t => Flagged(t)')
  <2>1. CASE u # t
    <3>1. word'[t] = word[t] BY <1>0, <1>5, <2>1
    <3>. QED BY <2>1, <3>1 DEF Flagged
  <2>2. CASE u = t
    <3>1. word'[t] = Sched!WokenWord(word[t]) BY <1>0, <1>5, <2>2
    <3>2. word'[t].st = "ready" \/ (word'[t].st = "running" /\ word'[t].wake)
      BY <1>0, <3>1, Wakes
    <3>. QED BY <3>2 DEF Flagged
  <2>. QED BY <2>1, <2>2
<1>6. ASSUME NEW u \in Task, StrayWake(u) PROVE Noted
  BY <1>5, <1>6 DEF StrayWake, ToBeWoken
<1>7. ASSUME NEW a \in Proc \cup Worker, NEW u \in Task, Wake(a, u) PROVE Noted
  <2>1. toWake' = [toWake EXCEPT ![a] = @ \ {u}] /\ word' = [word EXCEPT ![u] = Sched!WokenWord(@)]
    BY <1>7 DEF Wake
  <2>2. u # t => (ToBeWoken(t) => ToBeWoken(t)') BY <1>0, <2>1 DEF ToBeWoken
  <2>. QED BY <1>5, <2>1, <2>2
<1>8. ASSUME NEW p \in Proc, NEW w \in Worker, Sweep(p, w) PROVE Noted
  <2>1. UNCHANGED word /\ toWake' = [toWake EXCEPT ![p] = @ \cup TasksOf(waiters[w])]
    BY <1>8 DEF Sweep
  <2>2. ToBeWoken(t) => ToBeWoken(t)' BY <1>0, <2>1 DEF ToBeWoken
  <2>. QED BY <2>1, <2>2 DEF Flagged
<1>9. ASSUME NEW w \in Worker, Take(w) PROVE Noted
  \* What the last poll of the worker had to wake it has woken.
  <2>1. UNCHANGED word /\ \E S : toWake' = [toWake EXCEPT ![w] = S] BY <1>9 DEF Take
  <2>2. toWake[w] = {} BY <1>9 DEF Take, PollPhases
  <2>3. ToBeWoken(t) => ToBeWoken(t)' BY <1>0, <2>1, <2>2 DEF ToBeWoken
  <2>. QED BY <2>1, <2>3 DEF Flagged
<1>10. CASE UNCHANGED vars BY <1>1, <1>10 DEF vars
<1>11. ASSUME NEW p \in Proc, NEW g \in Gen, NEW w \in Worker \cup {NoWorker},
              Close(p, g, w) \/ \E bounded \in BOOLEAN : Start(p, g, w, bounded)
       PROVE  Noted
  BY <1>1, <1>11 DEF Close, Start
<1>12. ASSUME NEW p \in Proc, Read(p) \/ Release(p) \/ Shutdown(p) \/ Swept(p) PROVE Noted
  BY <1>1, <1>12 DEF Read, Release, Shutdown, Swept
<1>13. ASSUME NEW u \in Task, WouldBlock(u) \/ Register(u) \/ Ask(u) PROVE Noted
  BY <1>1, <1>13 DEF WouldBlock, Register, Ask
<1>14. ASSUME NEW w \in Worker, EpollWait(w) \/ Polled(w) PROVE Noted
  BY <1>1, <1>14 DEF EpollWait, Polled
<1>15. CASE PeerSends \/ KernelOpens \/ Open BY <1>1, <1>15 DEF PeerSends, KernelOpens, Open
<1>. QED BY <1>3, <1>4, <1>6, <1>7, <1>8, <1>9, <1>10, <1>11, <1>12, <1>13, <1>14, <1>15
         DEF Next

\* Who is on a list that is swept, or of whose waits some are resolved, is woken.
LEMMA TakenWoken ==
  ASSUME NEW t, NEW S, NEW x \in S, x.task = t, NEW a \in Proc \cup Worker,
         TasksOf(S) \subseteq toWake'[a]
  PROVE  ToBeWoken(t)'
BY DEF TasksOf, ToBeWoken

\* What stays on its list while the kernel and the poller keep its number.
LEMMA ListedFrame ==
  ASSUME NEW t, NEW w, ListedAt(t, w), outcome'[t] = outcome[t], Waits(t, w)',
         fds'[w] # "none", inSet'[w] = inSet[w],
         Readable' => Readable, edge[w] \/ harvest[w] => edge'[w] \/ harvest'[w]
  PROVE  ListedAt(t, w)'
BY DEF ListedAt

\* Some entries of one poller are resolved: a listed task stays listed or is woken.
LEMMA ListedResolved ==
  ASSUME TypeOK, Entries, NEW t \in Waiting, NEW v \in Worker, NEW w \in Worker,
         ListedAt(t, w), NEW S \in SUBSET waiters[v], NEW r, Resolved(S, r),
         waiters' = [waiters EXCEPT ![v] = @ \ S],
         NEW a \in Proc \cup Worker, TasksOf(S) \subseteq toWake'[a]
  PROVE  (Waits(t, w)' /\ outcome'[t] = outcome[t]) \/ ToBeWoken(t)'
<1>1. CASE \E x \in S : x.task = t BY <1>1, TakenWoken
<1>2. CASE \A x \in S : x.task # t
  <2>1. Waits(t, w) /\ t \in Task BY DEF ListedAt, Waiting
  <2>2. outcome'[t] = outcome[t] BY <1>2, <2>1, ResolvedOthers
  <2>3. Waits(t, w)' BY <1>2, <2>1 DEF Waits, TypeOK
  <2>. QED BY <2>2, <2>3
<1>. QED BY <1>1, <1>2

\* A listed task stays listed, with the edge it needs, or is woken.
LEMMA ListSide ==
  ASSUME TypeOK, NumberTracksSlot, NumberHeld, Seated, PollPhases, Entries, [Next]_vars,
         NEW t \in Waiting, t \in Waiting', NEW w \in Worker, ListedAt(t, w)
  PROVE  ListedAt(t, w)' \/ ToBeWoken(t)'
<1>. DEFINE Kept == ListedAt(t, w)' \/ ToBeWoken(t)'
<1>0. t \in Task /\ number # Free /\ t \in Inside /\ Finishing = {}
  BY WaitingInside, CloserAlone
<1>1. CASE UNCHANGED <<kernel, registry, harvest>>
  BY <1>1 DEF ListedAt, Waits, Readable, kernel, registry
<1>2. ASSUME NEW state, Becomes(state), UNCHANGED <<registry, harvest>> PROVE Kept
  <2>1. edge'[w] /\ inSet'[w] /\ UNCHANGED registry
    BY <1>2 DEF Becomes, ListedAt
  <2>. QED BY <2>1 DEF ListedAt, Waits, registry
<1>3. CASE PeerSends BY <1>2, <1>3 DEF PeerSends
<1>4. CASE KernelOpens BY <1>0, <1>4 DEF KernelOpens
<1>5. ASSUME NEW p \in Proc, Read(p) PROVE Kept
  <2>1. Readable /\ UNCHANGED <<inSet, edge, harvest, registry>> BY <1>5 DEF Read
  <2>. QED BY <2>1 DEF ListedAt, Waits, registry
<1>6. ASSUME NEW p \in Proc, Shutdown(p) PROVE Kept
  BY <1>1, <1>2, <1>6 DEF Shutdown
<1>7. ASSUME NEW p \in Proc, Swept(p) PROVE Kept
  <2>1. pc[p] # "finish" BY <1>0 DEF Finishing
  <2>. QED BY <1>1, <1>7, <2>1 DEF Swept
<1>8. ASSUME NEW p \in Proc, NEW v \in Worker, Sweep(p, v) PROVE Kept
  <2>1. /\ waiters' = [waiters EXCEPT ![v] = @ \ waiters[v]] /\ Resolved(waiters[v], "closed")
        /\ TasksOf(waiters[v]) \subseteq toWake'[p]
    BY <1>8 DEF Sweep, TypeOK
  <2>2. (Waits(t, w)' /\ outcome'[t] = outcome[t]) \/ ToBeWoken(t)'
    BY <2>1, ListedResolved
  <2>3. CASE Waits(t, w)'
    <3>1. v # w BY <2>1, <2>3 DEF Waits, TypeOK
    <3>2. /\ fds'[w] = fds[w] /\ inSet'[w] = inSet[w] /\ edge'[w] = edge[w]
          /\ harvest' = harvest /\ Readable' = Readable
      BY <1>8, <3>1 DEF Sweep, TypeOK, Readable
    <3>. QED BY <2>2, <3>2, ListedFrame DEF ListedAt
  <2>. QED BY <2>2, <2>3
<1>9. ASSUME NEW u \in Task, Register(u) PROVE Kept
  <2>1. on[u] \in Worker BY <1>9 DEF Register, Seated
  <2>2. UNCHANGED <<number, rx, outcome, harvest>> /\ fds' = [fds EXCEPT ![on[u]] = "clear"]
    BY <1>9 DEF Register
  <2>3. fds'[w] # "none" BY <2>2 DEF ListedAt, TypeOK
  <2>4. CASE UNCHANGED <<inSet, edge, waiters>>
    BY <2>2, <2>3, <2>4 DEF ListedAt, Waits, Readable
  <2>5. CASE /\ inSet' = [inSet EXCEPT ![on[u]] = @ \/ fds[on[u]] = "none"]
             /\ edge' = [edge EXCEPT ![on[u]] = @ \/ (fds[on[u]] = "none" /\ Readable)]
             /\ \E e : waiters' = [waiters EXCEPT ![on[u]] = @ \cup {e}]
    <3>1. waiters[w] \subseteq waiters'[w] BY <2>5 DEF TypeOK
    <3>2. Waits(t, w)' BY <3>1 DEF Waits, ListedAt
    <3>3. inSet \in [Worker -> BOOLEAN] /\ edge \in [Worker -> BOOLEAN] BY DEF TypeOK
    <3>4. inSet[w] => inSet'[w] BY <2>5, <3>3
    <3>5. edge[w] => edge'[w] BY <2>5, <3>3
    <3>6. Readable' = Readable BY <2>2 DEF Readable
    <3>. QED BY <2>2, <2>3, <3>2, <3>4, <3>5, <3>6 DEF ListedAt
  <2>. QED BY <1>9, <2>4, <2>5 DEF Register
<1>10. ASSUME NEW u \in Task, NEW v \in Worker, Resume(u, v) PROVE Kept
  <2>1. u # t BY <1>10 DEF Resume, Waiting, Goto, TypeOK, Proc
  <2>2. outcome'[t] = outcome[t] BY <1>0, <1>10, <2>1 DEF Resume, TypeOK
  <2>3. UNCHANGED <<fds, kernel, harvest>> BY <1>10 DEF Resume
  <2>4. PICK x \in waiters[w] : x.task = t /\ ~x.stale BY DEF ListedAt, Waits
  <2>5. x \in Waiter BY <2>4 DEF TypeOK
  <2>. DEFINE y == [x EXCEPT !.stale = @ \/ x.task = u]
  <2>6. y.task = t /\ ~y.stale BY <2>1, <2>4, <2>5 DEF Waiter
  <2>7. y \in waiters'[w] BY <1>10, <2>4 DEF Resume, Abandoned
  <2>8. Waits(t, w)'
    <3>. HIDE DEF y
    <3>. QED BY <2>6, <2>7 DEF Waits
  <2>. QED BY <2>2, <2>3, <2>8 DEF ListedAt, Readable, kernel
<1>11. ASSUME NEW v \in Worker, EpollWait(v) PROVE Kept
  \* The edge is taken into the poll with what it says.
  <2>1. Waits(t, w)' /\ UNCHANGED <<number, rx, inSet, registry>>
    BY <1>11 DEF EpollWait, registry, Waits, ListedAt
  <2>2. Readable' = Readable BY <2>1 DEF Readable
  <2>3. Readable => edge'[w] \/ harvest'[w]
    <3>1. CASE v # w BY <1>11, <3>1 DEF EpollWait, TypeOK, ListedAt
    <3>2. CASE v = w
      <4>1. ~harvest[w] BY <1>11, <3>2 DEF EpollWait, Vacant, PollPhases
      <4>2. Readable => edge[w] BY <4>1 DEF ListedAt
      <4>3. harvest'[w] = (edge[w] /\ Readable) BY <1>11, <3>2 DEF EpollWait, TypeOK
      <4>. QED BY <4>2, <4>3
    <3>. QED BY <3>1, <3>2
  <2>. QED BY <2>1, <2>2, <2>3 DEF ListedAt, registry
<1>12. ASSUME NEW v \in Worker, Take(v) PROVE Kept
  <2>. DEFINE fired == IF harvest[v] THEN waiters[v] ELSE {}
  <2>1. PICK due \in SUBSET {x \in waiters[v] \ fired : x.timed} :
          /\ waiters' = [waiters EXCEPT ![v] = @ \ (fired \cup due)]
          /\ toWake' = [toWake EXCEPT ![v] = TasksOf(fired \cup due)]
          /\ Resolved(fired \cup due, IF fired # {} THEN "ready" ELSE "timed out")
    BY <1>12 DEF Take
  <2>2. fired \cup due \in SUBSET waiters[v] OBVIOUS
  <2>3. /\ harvest' = [harvest EXCEPT ![v] = FALSE] /\ UNCHANGED kernel
        /\ fds' \in {fds, [fds EXCEPT ![v] = "ready"]}
    BY <1>12 DEF Take
  <2>4. harvest[v] => fired = waiters[v] OBVIOUS
  <2>. HIDE DEF fired
  <2>5. TasksOf(fired \cup due) \subseteq toWake'[v] BY <2>1 DEF TypeOK
  <2>6. (Waits(t, w)' /\ outcome'[t] = outcome[t]) \/ ToBeWoken(t)'
    BY <2>1, <2>2, <2>5, ListedResolved
  <2>7. CASE Waits(t, w)' /\ outcome'[t] = outcome[t]
    <3>1. ~(v = w /\ harvest[v])
      BY <2>1, <2>2, <2>4, <2>7 DEF Waits, TypeOK
    <3>2. harvest'[w] = harvest[w]
      <4>1. harvest \in [Worker -> BOOLEAN] BY DEF TypeOK
      <4>2. CASE v = w BY <2>3, <3>1, <4>1, <4>2
      <4>3. CASE v # w BY <2>3, <4>1, <4>3
      <4>. QED BY <4>2, <4>3
    <3>3. fds'[w] # "none" BY <2>3 DEF ListedAt, TypeOK
    <3>4. UNCHANGED <<inSet, edge>> /\ Readable' = Readable BY <2>3 DEF kernel, Readable
    <3>. QED BY <2>7, <3>2, <3>3, <3>4 DEF ListedAt
  <2>. QED BY <2>6, <2>7
<1>13. CASE UNCHANGED vars BY <1>1, <1>13 DEF vars
<1>14. ASSUME NEW p \in Proc, NEW g \in Gen, NEW v \in Worker \cup {NoWorker},
              Close(p, g, v) \/ \E bounded \in BOOLEAN : Start(p, g, v, bounded)
       PROVE  Kept
  BY <1>1, <1>14 DEF Close, Start
<1>15. ASSUME NEW p \in Proc, Release(p) PROVE Kept BY <1>1, <1>15 DEF Release
<1>16. ASSUME NEW u \in Task, WouldBlock(u) \/ Ask(u) \/ Park(u) \/ StrayWake(u) PROVE Kept
  BY <1>1, <1>16 DEF WouldBlock, Ask, Park, StrayWake
<1>17. ASSUME NEW a \in Proc \cup Worker, NEW u \in Task, Wake(a, u) PROVE Kept
  BY <1>1, <1>17 DEF Wake
<1>18. ASSUME NEW v \in Worker, Polled(v) PROVE Kept BY <1>1, <1>18 DEF Polled
<1>19. CASE Open BY <1>1, <1>19 DEF Open
<1>. QED BY <1>3, <1>4, <1>5, <1>6, <1>7, <1>8, <1>9, <1>10, <1>11, <1>12, <1>13, <1>14,
            <1>15, <1>16, <1>17, <1>18, <1>19 DEF Next

\* A step of a call that sweeps nothing leaves a waiter watched.
LEMMA WatchedFrame ==
  ASSUME TypeOK, NEW t \in Task, NEW w \in Worker, Watched(t, w), NEW p \in Proc, NEW l, Goto(p, l),
         pc[p] \notin {"shutdown", "self", "notify"}, p = t => pc[t] # "ask",
         slot'.gen = slot.gen, slot'.live = slot.live, handle'[t] = handle[t],
         \A q \in Proc : q # p => todo'[q] = todo[q]
  PROVE  Watched(t, w)'
<1>1. \A q \in Proc : q # p => pc'[q] = pc[q] BY DEF Goto, TypeOK
<1>2. ToBeSwept(w) => ToBeSwept(w)' BY <1>1 DEF ToBeSwept
<1>3. IsLive(t)' = IsLive(t) BY DEF IsLive, Slots!IsLive
<1>4. pc[t] = "ask" => pc'[t] = "ask" BY <1>1 DEF Proc
<1>. QED BY <1>2, <1>3, <1>4 DEF Watched

\* A waiter stays watched, or is woken: a close that does not find it live has
\* its poller to sweep.
LEMMA LiveSide ==
  ASSUME TypeOK, NumberTracksSlot, NumberHeld, [Next]_vars,
         NEW t \in Waiting, t \in Waiting', NEW w \in Worker, ListedAt(t, w), Watched(t, w)
  PROVE  Watched(t, w)' \/ ToBeWoken(t)'
<1>. DEFINE Kept == Watched(t, w)' \/ ToBeWoken(t)'
<1>0. t \in Task /\ t \in Proc /\ slot.opened /\ number = slot.gen /\ slot.users > 0
      /\ pc[t] \in WaitingAt
  BY WaitingInside DEF Proc, Waiting, WaitingAt
<1>1. CASE UNCHANGED <<slot, calls>>
  BY <1>1 DEF Watched, ToBeSwept, IsLive, calls
<1>2. CASE Open BY <1>0, <1>2 DEF Open
<1>3. ASSUME NEW p \in Proc, NEW g \in Gen, NEW v \in Worker \cup {NoWorker},
             NEW bounded \in BOOLEAN, Start(p, g, v, bounded)
      PROVE  Kept
  <2>1. pc[p] = "idle" /\ Goto(p, "read") /\ UNCHANGED todo BY <1>3 DEF Start
  <2>2. slot'.gen = slot.gen /\ slot'.live = slot.live
    BY <1>3 DEF Start, Slots!Acquired, Slots!Slot, TypeOK
  <2>3. p # t BY <1>0, <2>1 DEF WaitingAt
  <2>4. handle'[t] = handle[t] BY <1>0, <1>3, <2>3 DEF Start, TypeOK
  <2>. QED BY <1>0, <2>1, <2>2, <2>3, <2>4, WatchedFrame
<1>4. ASSUME NEW p \in Proc, NEW g \in Gen, NEW v \in Worker \cup {NoWorker}, Close(p, g, v)
      PROVE  Kept
  \* Somebody is inside, so the close goes to the pollers.
  <2>1. slot'.users = slot.users BY <1>4 DEF Close, Slots!Closed, Slots!Slot, TypeOK
  <2>2. ~Slots!MustFinish(slot') BY <1>0, <2>1 DEF Slots!MustFinish
  <2>3. pc'[p] \in {"notify", "shutdown"} BY <1>4, <2>2 DEF Close, Goto, TypeOK
  <2>4. todo'[p] = Worker BY <1>4 DEF Close, TypeOK
  <2>. QED BY <2>3, <2>4 DEF Watched, ToBeSwept
<1>5. ASSUME NEW p \in Proc, Read(p) PROVE Kept
  <2>1. pc[p] = "read" /\ Goto(p, "release") /\ UNCHANGED <<slot, handle, todo>>
    BY <1>5 DEF Read
  <2>. QED BY <1>0, <2>1, WatchedFrame DEF WaitingAt
<1>6. ASSUME NEW p \in Proc, Release(p) PROVE Kept
  <2>1. pc[p] = "release" /\ \E l : Goto(p, l) BY <1>6 DEF Release, Returns
  <2>2. slot'.gen = slot.gen /\ slot'.live = slot.live
    BY <1>6 DEF Release, Slots!Released, Slots!Slot, TypeOK
  <2>3. p # t BY <1>0, <2>1 DEF WaitingAt
  <2>4. handle'[t] = handle[t] BY <1>0, <1>6, <2>3 DEF Release, Returns, TypeOK
  <2>5. \A q \in Proc : q # p => todo'[q] = todo[q] BY <1>6 DEF Release, TypeOK
  <2>. QED BY <1>0, <2>1, <2>2, <2>3, <2>4, <2>5, WatchedFrame
<1>7. ASSUME NEW p \in Proc, Shutdown(p) PROVE Kept
  <2>1. pc' = [pc EXCEPT ![p] = "notify"] /\ UNCHANGED <<slot, handle, todo>> /\ pc[p] = "shutdown"
    BY <1>7 DEF Shutdown, Goto
  <2>2. \A q \in Proc : pc'[q] = IF q = p THEN "notify" ELSE pc[q] BY <2>1 DEF TypeOK
  <2>3. ToBeSwept(w) => ToBeSwept(w)' BY <2>1, <2>2 DEF ToBeSwept
  <2>4. pc[t] = "ask" => pc'[t] = "ask" BY <1>0, <2>1, <2>2
  <2>. QED BY <2>1, <2>3, <2>4 DEF Watched, IsLive
<1>8. ASSUME NEW p \in Proc, Swept(p) PROVE Kept
  \* It has nothing left to sweep.
  <2>1. /\ \E l : Goto(p, l)
        /\ pc[p] \in {"self", "notify", "finish"} /\ todo[p] = {} /\ UNCHANGED <<slot, todo>>
        /\ pc[p] = "self" => UNCHANGED handle
        /\ pc[p] # "self" => handle' = [handle EXCEPT ![p] = 0]
    BY <1>8 DEF Swept, Returns
  <2>2. \A q \in Proc : q # p => pc'[q] = pc[q] BY <2>1 DEF Goto, TypeOK
  <2>3. ToBeSwept(w) => ToBeSwept(w)' BY <2>1, <2>2 DEF ToBeSwept
  <2>4. pc[t] = "ask" => pc'[t] = "ask" BY <1>0, <2>1, <2>2
  <2>5. handle'[t] = handle[t] BY <1>0, <2>1 DEF TypeOK, WaitingAt
  <2>. QED BY <2>1, <2>3, <2>4, <2>5 DEF Watched, IsLive
<1>9. ASSUME NEW p \in Proc, NEW v \in Worker, Sweep(p, v) PROVE Kept
  <2>1. CASE v = w
    <3>1. PICK x \in waiters[w] : x.task = t BY DEF ListedAt, Waits
    <3>2. TasksOf(waiters[w]) \subseteq toWake'[p] BY <1>9, <2>1 DEF Sweep, TypeOK
    <3>. QED BY <3>1, <3>2, TakenWoken
  <2>2. CASE v # w
    <3>1. todo' = [todo EXCEPT ![p] = @ \ {v}] /\ UNCHANGED <<slot, handle, pc>>
      BY <1>9 DEF Sweep
    <3>2. \A q \in Proc : w \in todo[q] => w \in todo'[q] BY <2>2, <3>1 DEF TypeOK
    <3>. QED BY <3>1, <3>2 DEF Watched, ToBeSwept, IsLive
  <2>. QED BY <2>1, <2>2
<1>10. ASSUME NEW u \in Task, WouldBlock(u) PROVE Kept
  <2>1. pc[u] = "read" /\ UNCHANGED <<slot, handle, todo>> /\ \E l : Goto(u, l)
    BY <1>10 DEF WouldBlock
  <2>. QED BY <1>0, <2>1, WatchedFrame DEF Proc, WaitingAt
<1>11. ASSUME NEW u \in Task, Register(u) PROVE Kept
  <2>1. pc[u] = "register" /\ UNCHANGED <<slot, handle, todo>> /\ \E l : Goto(u, l)
    BY <1>11 DEF Register
  <2>. QED BY <1>0, <2>1, WatchedFrame DEF Proc, WaitingAt
<1>12. ASSUME NEW u \in Task, Ask(u) PROVE Kept
  <2>1. /\ pc[u] \in {"ask", "ask retry"} /\ UNCHANGED <<slot, handle>>
        /\ \E l : Goto(u, l)
        /\ todo' = [todo EXCEPT ![u] = IF pc[u] = "ask" /\ ~IsLive(u) THEN Worker ELSE {}]
    BY <1>12 DEF Ask
  <2>2. CASE u # t
    <3>1. \A q \in Proc : q # u => todo'[q] = todo[q] BY <2>1 DEF TypeOK
    <3>. QED BY <1>0, <2>1, <2>2, <3>1, WatchedFrame DEF Proc
  <2>3. CASE u = t
    \* A reader that finds its handle closed sweeps all pollers itself.
    <3>1. pc[t] = "ask" BY <1>0, <2>1, <2>3 DEF WaitingAt
    <3>2. CASE IsLive(t) BY <2>1, <3>2 DEF Watched, IsLive
    <3>3. CASE ~IsLive(t)
      <4>1. todo'[t] = Worker BY <1>0, <2>1, <2>3, <3>1, <3>3 DEF TypeOK
      <4>2. pc' = [pc EXCEPT ![t] = "self"] BY <1>12, <2>3, <3>1, <3>3 DEF Ask, Goto
      <4>3. pc'[t] = "self" BY <1>0, <4>2 DEF TypeOK
      <4>. QED BY <1>0, <4>1, <4>3 DEF Watched, ToBeSwept
    <3>. QED BY <3>2, <3>3
  <2>. QED BY <2>2, <2>3
<1>13. ASSUME NEW u \in Task, Park(u) PROVE Kept
  <2>1. pc[u] = "park" /\ UNCHANGED <<slot, handle, todo>> /\ Goto(u, "asleep")
    BY <1>13 DEF Park
  <2>. QED BY <1>0, <2>1, WatchedFrame DEF Proc
<1>14. ASSUME NEW u \in Task, NEW v \in Worker, Resume(u, v) PROVE Kept
  <2>1. pc[u] = "asleep" /\ UNCHANGED <<slot, handle, todo>> /\ \E l : Goto(u, l)
    BY <1>14 DEF Resume
  <2>. QED BY <1>0, <2>1, WatchedFrame DEF Proc
<1>15. CASE PeerSends \/ KernelOpens
  BY <1>1, <1>15 DEF PeerSends, KernelOpens
<1>16. ASSUME NEW v \in Worker, EpollWait(v) \/ Take(v) \/ Polled(v) PROVE Kept
  BY <1>1, <1>16 DEF EpollWait, Take, Polled
<1>17. ASSUME NEW a \in Proc \cup Worker, NEW u \in Task, Wake(a, u) \/ StrayWake(u) PROVE Kept
  BY <1>1, <1>17 DEF Wake, StrayWake
<1>18. CASE UNCHANGED vars BY <1>1, <1>18 DEF vars
<1>. QED BY <1>2, <1>3, <1>4, <1>5, <1>6, <1>7, <1>8, <1>9, <1>10, <1>11, <1>12, <1>13,
            <1>14, <1>15, <1>16, <1>17, <1>18 DEF Next

\* A registration that has not consumed a ready bit is covered: the readiness
\* that the set reports, or the edge still queued, is its edge.
LEMMA RegisterCovers ==
  ASSUME TypeOK, Seated, RegistryTracksKernel, EdgeKept, Entries,
         NEW t \in Task, Register(t), t \in Waiting'
  PROVE  CoveredAt(t)'
<1>. DEFINE e == [task |-> t, stale |-> FALSE, timed |-> timed[t]]
<1>1. pc[t] = "register" /\ on[t] \in Worker /\ t \notin Waiting BY DEF Register, Seated, Waiting
<1>2. /\ fds[on[t]] # "ready" /\ pc' = [pc EXCEPT ![t] = "ask"]
      /\ fds' = [fds EXCEPT ![on[t]] = "clear"]
      /\ inSet' = [inSet EXCEPT ![on[t]] = @ \/ fds[on[t]] = "none"]
      /\ edge' = [edge EXCEPT ![on[t]] = @ \/ (fds[on[t]] = "none" /\ Readable)]
      /\ waiters' = [waiters EXCEPT ![on[t]] = @ \cup {e}]
      /\ UNCHANGED <<number, rx, outcome, on>>
  BY DEF Register, Goto, Waiting, TypeOK, Proc
<1>3. e.task = t /\ ~e.stale OBVIOUS
<1>. HIDE DEF e
<1>4. inSet \in [Worker -> BOOLEAN] /\ edge \in [Worker -> BOOLEAN] BY DEF TypeOK
<1>5. e \in waiters'[on[t]] BY <1>1, <1>2 DEF TypeOK
<1>6. Waits(t, on[t])' BY <1>2, <1>3, <1>5 DEF Waits
<1>7. fds'[on[t]] # "none" BY <1>1, <1>2 DEF TypeOK
<1>8. inSet'[on[t]]
  <2>1. fds[on[t]] # "none" => inSet[on[t]] BY <1>1 DEF RegistryTracksKernel
  <2>. QED BY <1>1, <1>2, <1>4, <2>1
<1>9. Readable' => edge'[on[t]]
  <2>1. Readable' = Readable BY <1>2 DEF Readable
  <2>2. fds[on[t]] # "none" /\ Readable => edge[on[t]]
    BY <1>1 DEF RegistryTracksKernel, EdgeKept
  <2>. QED BY <1>1, <1>2, <1>4, <2>1, <2>2
<1>10. outcome'[t] = "pending" BY <1>1, <1>2 DEF Entries
<1>11. ListedAt(t, on[t])' BY <1>2, <1>6, <1>7, <1>8, <1>9, <1>10 DEF ListedAt
<1>12. Watched(t, on[t])' BY <1>1, <1>2 DEF Watched, TypeOK, Proc
<1>. QED BY <1>1, <1>2, <1>11, <1>12 DEF CoveredAt

\* A call comes to wait by its registration only.
LEMMA EntersWait ==
  ASSUME TypeOK, [Next]_vars, NEW t \in Task, t \notin Waiting, t \in Waiting'
  PROVE  Register(t)
<1>0. t \in Proc /\ pc[t] \notin WaitingAt /\ pc'[t] \in WaitingAt
  BY DEF Waiting, WaitingAt, Proc
<1>1. CASE UNCHANGED pc BY <1>0, <1>1
<1>2. ASSUME NEW p \in Proc, NEW l, Goto(p, l), p # t \/ l \notin WaitingAt PROVE FALSE
  BY <1>0, <1>2 DEF Goto, TypeOK
<1>3. ASSUME NEW p \in Proc, NEW g \in Gen, NEW v \in Worker \cup {NoWorker},
             Close(p, g, v) \/ \E bounded \in BOOLEAN : Start(p, g, v, bounded)
      PROVE  FALSE
  <2>1. \E l \in {"read", "finish", "notify", "shutdown"} : Goto(p, l)
    BY <1>3 DEF Close, Start
  <2>. QED BY <1>2, <2>1 DEF WaitingAt
<1>4. ASSUME NEW p \in Proc, Read(p) \/ Release(p) \/ Shutdown(p) PROVE FALSE
  <2>1. \E l \in {"release", "finish", "idle", "notify"} : Goto(p, l)
    BY <1>4 DEF Read, Release, Returns, Shutdown
  <2>. QED BY <1>2, <2>1 DEF WaitingAt
<1>5. ASSUME NEW p \in Proc, Swept(p) PROVE FALSE
  <2>1. \/ pc[p] = "self" /\ Goto(p, "park")
        \/ Goto(p, "idle")
    BY <1>5 DEF Swept, Returns
  <2>. QED BY <1>0, <1>2, <2>1 DEF WaitingAt
<1>6. ASSUME NEW u \in Task, WouldBlock(u) \/ Ask(u) \/ Park(u) PROVE FALSE
  <2>1. \/ pc[u] \in {"ask", "park"} /\ \E l : Goto(u, l)
        \/ \E l \in {"register", "read", "release"} : Goto(u, l)
    BY <1>6 DEF WouldBlock, Ask, Park
  <2>2. u \in Proc BY DEF Proc
  <2>. QED BY <1>0, <1>2, <2>1, <2>2 DEF WaitingAt
<1>7. ASSUME NEW u \in Task, NEW v \in Worker, Resume(u, v) PROVE FALSE
  <2>1. \E l \in {"read", "release"} : Goto(u, l) BY <1>7 DEF Resume
  <2>. QED BY <1>2, <2>1 DEF WaitingAt, Proc
<1>8. ASSUME NEW u \in Task, Register(u) PROVE Register(t)
  <2>1. \E l : Goto(u, l) BY <1>8 DEF Register
  <2>2. u = t BY <1>2, <2>1 DEF Proc
  <2>. QED BY <1>8, <2>2
<1>9. CASE PeerSends \/ KernelOpens \/ Open
  BY <1>1, <1>9 DEF PeerSends, KernelOpens, Open, calls
<1>10. ASSUME NEW p \in Proc, NEW v \in Worker, Sweep(p, v) PROVE FALSE
  BY <1>0, <1>10 DEF Sweep
<1>11. ASSUME NEW v \in Worker, EpollWait(v) \/ Take(v) \/ Polled(v) PROVE FALSE
  BY <1>0, <1>11 DEF EpollWait, Take, Polled, calls
<1>12. ASSUME NEW a \in Proc \cup Worker, NEW u \in Task, Wake(a, u) PROVE FALSE
  BY <1>0, <1>12 DEF Wake, calls
<1>13. ASSUME NEW u \in Task, StrayWake(u) PROVE FALSE
  BY <1>0, <1>13 DEF StrayWake, calls
<1>14. CASE UNCHANGED vars BY <1>1, <1>14 DEF vars, calls
<1>. QED BY <1>3, <1>4, <1>5, <1>6, <1>7, <1>8, <1>9, <1>10, <1>11, <1>12, <1>13,
            <1>14 DEF Next

\* Every step keeps the waits covered.
LEMMA CoveredKept ==
  ASSUME IInv, [Next]_vars
  PROVE  Covered'
<1>. USE DEF IInv
<1>. SUFFICES ASSUME NEW t \in Task, t \in Waiting' PROVE CoveredAt(t)'
  BY DEF Covered, Waiting
<1>1. CASE t \notin Waiting BY <1>1, EntersWait, RegisterCovers
<1>2. CASE t \in Waiting
  <2>1. CASE Flagged(t) \/ ToBeWoken(t) BY <1>2, <2>1, WakeSide DEF CoveredAt
  <2>2. CASE \E w \in Worker : ListedAt(t, w) /\ Watched(t, w)
    <3>1. PICK w \in Worker : ListedAt(t, w) /\ Watched(t, w) BY <2>2
    <3>2. ListedAt(t, w)' \/ ToBeWoken(t)' BY <1>2, <3>1, ListSide
    <3>3. Watched(t, w)' \/ ToBeWoken(t)' BY <1>2, <3>1, LiveSide
    <3>. QED BY <3>2, <3>3 DEF CoveredAt
  <2>. QED BY <1>2, <2>1, <2>2 DEF Covered, CoveredAt
<1>. QED BY <1>1, <1>2

-----------------------------------------------------------------------------
(* The theorems                                                            *)

\* The initial states satisfy the invariant.
LEMMA InitInv == Init => IInv
<1>. SUFFICES ASSUME Init PROVE IInv OBVIOUS
<1>. USE DEF Init
<1>1. TypeOK
  <2>1. Slots!Unopened \in Slots!Slot(Gen)
    BY UsersBound, ZeroGen DEF Slots!Unopened, Slots!Slot
  <2>2. Sched!RunningWord(Sched!FreshWord, NoWorker) \in Sched!Word
    BY DEF Sched!RunningWord, Sched!FreshWord, Sched!Clear, Sched!Word, Sched!RunState
  <2>3. KernelTyped BY <2>1 DEF KernelTyped
  <2>4. PollersTyped BY DEF PollersTyped
  <2>5. CallsTyped BY <2>2, ZeroGen DEF CallsTyped
  <2>. QED BY <2>3, <2>4, <2>5, TypeParts
<1>2. Inside = {} /\ Finishing = {} /\ Waiting = {}
  BY DEF Inside, Finishing, Waiting, Proc
<1>3. NumberTracksSlot BY <1>2 DEF NumberTracksSlot, Slots!Unopened
<1>4. NumberHeld BY <1>2, FS_EmptySet DEF NumberHeld, Slots!Unopened
<1>5. Seated BY DEF Seated, Proc
<1>6. PollPhases BY DEF PollPhases
<1>7. RegistryTracksKernel BY DEF RegistryTracksKernel
<1>8. FinishSwept BY <1>2 DEF FinishSwept
<1>9. EdgeKept BY DEF EdgeKept, Proc
<1>10. Entries BY DEF Entries
<1>11. Awake
  BY DEF Awake, Proc, Sched!RunningWord, Sched!FreshWord, Sched!Clear
<1>12. Covered BY <1>2 DEF Covered
<1>. QED BY <1>1, <1>3, <1>4, <1>5, <1>6, <1>7, <1>8, <1>9, <1>10, <1>11, <1>12 DEF IInv

\* Every step keeps it.
LEMMA StepInv == IInv /\ [Next]_vars => IInv'
<1>. SUFFICES ASSUME IInv, [Next]_vars PROVE IInv' OBVIOUS
<1>1. Covered' BY CoveredKept
<1>2. (NumberTracksSlot /\ NumberHeld)' BY NumberKept DEF IInv
<1>. QED
  BY <1>1, <1>2, TypesKept, SeatedKept, PollPhasesKept, TracksKept, FinishSweptKept,
     EdgeKeptKept, EntriesKept, AwakeKept DEF IInv

\* The invariant holds in every behaviour.
LEMMA Invariance == Spec => []IInv
BY InitInv, StepInv, PTL DEF Spec

\* The types of everything the module keeps.
THEOREM TypeCorrect == Spec => []TypeOK
<1>1. IInv => TypeOK BY DEF IInv
<1>. QED BY <1>1, Invariance, PTL

\* The kernel does not recycle a number under a call inside it, nor under the
\* close(2) of the last one out; a closed number is kept by those inside or by
\* the one that closes it, and by nobody twice.
THEOREM NumberHeldAlways == Spec => []NumberHeld
<1>1. IInv => NumberHeld BY DEF IInv
<1>. QED BY <1>1, Invariance, PTL

\* No parked reader misses its edge, the resolution of its wait or a close.
THEOREM NoLostReadinessEver == Spec => []NoLostReadiness
<1>1. IInv => NoLostReadiness
  <2>. SUFFICES ASSUME IInv PROVE NoLostReadiness OBVIOUS
  <2>1. RegistryTracksKernel BY DEF IInv
  <2>2. ASSUME NEW t \in Task, Parked(t), ~ToBeWoken(t)
        PROVE  outcome[t] = "pending" /\ \E w \in Worker :
                 /\ Waits(t, w) /\ fds[w] # "none" /\ inSet[w]
                 /\ Readable => edge[w] \/ harvest[w]
                 /\ IsLive(t) \/ ToBeSwept(w)
    <3>1. t \in Waiting /\ ~Flagged(t) BY <2>2 DEF Parked, Waiting, Flagged
    <3>2. PICK w \in Worker : ListedAt(t, w) /\ Watched(t, w)
      BY <2>2, <3>1 DEF IInv, Covered, CoveredAt
    <3>. QED BY <2>2, <3>2 DEF ListedAt, Watched, Parked
  <2>. QED BY <2>1, <2>2 DEF NoLostReadiness, ToBeWoken, ToBeSwept
<1>. QED BY <1>1, Invariance, PTL
=============================================================================
