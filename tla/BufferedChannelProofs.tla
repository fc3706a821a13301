------------------------- MODULE BufferedChannelProofs -------------------------
(***************************************************************************)
(* Theorems about BufferedChannel: the types, the waiter lists, handoffs   *)
(* and gates of the parking section, that the ring and the handoff         *)
(* together implement BoundedFifo, and that no wake is missed where slots  *)
(* are published in the order of their claims (concurrency/channel.rs).    *)
(*                                                                         *)
(* The invariant has three parts.  `Control` is about the lock, the lists, *)
(* the gates and the scheduling words, and stands by itself.  `Data` is    *)
(* about the values: every step has one of nine effects on the ring and    *)
(* its users (`StepEffect`), and only these are looked at from there on.   *)
(* `Wakes` is about those who wait, and rests on both.                     *)
(***************************************************************************)
EXTENDS BufferedChannel, Integers, FiniteSetTheorems, SequenceTheorems, TLAPS

-----------------------------------------------------------------------------
(* The control part of the invariant                                       *)

\* The types, but for the gates: that a gate is never negative follows from
\* what it counts.
Types ==
  /\ enq \in Nat /\ deq \in Nat
  /\ seq \in [0..(SlotCount - 1) -> Nat]
  /\ cell \in [0..(SlotCount - 1) -> Value \cup {NoValue}]
  /\ closed \in BOOLEAN
  /\ gate \in [Role -> Int]
  /\ lock \in Proc \cup {NoProc}
  /\ list \in [Role -> SUBSET Green]
  /\ pc \in [Proc -> Label]
  /\ pos \in [Proc -> Nat]
  /\ val \in [Proc -> Value \cup {NoValue}]
  /\ aim \in [Proc -> Role]
  /\ hand \in [Proc -> Green \cup {NoProc}]
  /\ word \in [Green -> Sched!Word]
  /\ handoff \in [Green -> Value \cup {NoValue}]
  /\ sends \in [Sender -> 0..MaxSend]
  /\ got \in [Value -> Nat]

\* The channel lock is held from the slow path's entry to the registration or
\* the exit, and while a receiver is claimed for a handoff.
Critical == {"recheck", "retry", "republish", "register", "fetch", "deposit", "enqueue"}

\* The lock is held by whoever stands in such a section, so by one at a time.
LockHeld == \A p \in Proc : lock = p <=> pc[p] \in Critical

\* Where wake_with has a claimed receiver in hand.
Handing == {"fetch", "deposit", "enqueue"}

\* Who can stand where: only a green task is listed and suspended, only an os
\* thread waits on the condvar, only a sender hands over.
Roles ==
  \A p \in Proc :
    /\ pc[p] \in {"park", "asleep", "away"} => p \in Green
    /\ pc[p] = "wait" => p \notin Green
    /\ pc[p] \in Handing => p \in Sender /\ aim[p] = "recv"
    /\ pc[p] \in {"look", "resumed"} => p \in Receiver
    /\ pc[p] = "probe" => p \in Sender
    /\ pc[p] \in {"gate", "wake"} /\ p \in Receiver => aim[p] = "send"

\* A task's scheduling word says `running` unless it is suspended.
Words ==
  \A t \in Green :
    /\ word[t].st = "running" <=> pc[t] \notin {"asleep", "away"}
    /\ word[t].st # "done"

\* A waiter list names tasks of its role inside the parking section, which
\* have been handed nothing.
Lists ==
  \A role \in Role : \A t \in list[role] :
    /\ RoleOf(t) = role /\ pc[t] \in {"park", "asleep", "relock"}
    /\ handoff[t] = NoValue

\* A receiver in a waker's hand is claimed, off the list, and still asleep.
HandOk(p, t) ==
  /\ t \in Receiver /\ pc[t] = "asleep" /\ word[t].st = "ready"
  /\ t \notin list["recv"]
  /\ pc[p] # "enqueue" => handoff[t] = NoValue

\* A waker has a receiver in hand exactly while it hands over.
Hands ==
  \A p \in Proc :
    /\ hand[p] # NoProc <=> pc[p] \in Handing
    /\ hand[p] # NoProc => HandOk(p, hand[p])

\* A deposit waits only for a receiver that will look for it.
Handoffs ==
  \A t \in Green : handoff[t] # NoValue =>
    /\ t \in Receiver /\ pc[t] \in {"asleep", "relock", "resumed"}
    /\ pc[t] = "asleep" => word[t].st = "ready"

Putter(p) == p \in Sender /\ pc[p] \in {"publish", "republish"}

\* Who owns the head it has dequeued: a receiver, or a waker on behalf of one.
Taker(p) ==
  \/ p \in Receiver /\ pc[p] \in {"publish", "republish"}
  \/ pc[p] = "deposit"

\* A sender has claimed the position and not published it ...
Putting(k) == \E p \in Proc : Putter(p) /\ pos[p] = k

\* ... and somebody has claimed it one lap earlier and not freed its slot.
Taking(k) == \E p \in Proc : Taker(p) /\ pos[p] + SlotCount = k

\* The ring is a window of positions no longer than the capacity; every claim
\* lies in its half of it, and no two processes claim one position.
Positions ==
  /\ deq <= enq /\ enq <= deq + Capacity
  /\ \A p \in Proc : Putter(p) => deq <= pos[p] /\ pos[p] < enq
  /\ \A p \in Proc : Taker(p) => pos[p] < deq /\ enq <= pos[p] + SlotCount
  /\ \A p, q \in Proc : ((Putter(p) /\ Putter(q)) \/ (Taker(p) /\ Taker(q)))
       /\ pos[p] = pos[q] => p = q

\* A slot's sequence says where it is in its life: claimed by a sender,
\* published, claimed by a receiver, or free for this lap.
Slots ==
  /\ \A k \in deq..(enq - 1) : seq[Slot(k)] = IF Putting(k) THEN k ELSE k + 1
  /\ \A k \in enq..(deq + SlotCount - 1) :
       seq[Slot(k)] = IF Taking(k) THEN k + 1 - SlotCount ELSE k

\* A published cell, and one that was claimed for reading, holds a value.
Cells ==
  /\ \A k \in deq..(enq - 1) : ~Putting(k) => cell[Slot(k)] \in Value
  /\ \A p \in Proc : Taker(p) => Taken(p) \in Value

\* Where the value of a send has not entered the ring.
BeforePut == {"check", "probe", "try", "once", "slow", "recheck", "retry", "register",
              "park", "asleep", "wait", "relock"}

\* A wake keeps a word's type, and makes a parked task ready ...
LEMMA WokenFact ==
  ASSUME NEW w \in Sched!Word
  PROVE  /\ Sched!WokenWord(w) \in Sched!Word
         /\ Sched!WokenWord(w).st = IF w.st = "parked" THEN "ready" ELSE w.st
BY DEF Sched!WokenWord, Sched!Word, Sched!RunState, Sched!Claimable, Sched!ClaimedWord,
   Sched!Clear, Sched!Pendable, Sched!PendedWord

\* ... a task that yields is parked, or ready when a wake was pending ...
LEMMA YieldedFact ==
  ASSUME NEW w \in Sched!Word
  PROVE  /\ Sched!YieldedWord(w) \in Sched!Word
         /\ Sched!YieldedWord(w).st \in {"ready", "parked"}
BY DEF Sched!YieldedWord, Sched!Word, Sched!RunState, Sched!Clear

\* ... and one that is resumed runs.
LEMMA RunningFact ==
  ASSUME NEW w \in Sched!Word
  PROVE  /\ Sched!RunningWord(w, NoProc) \in Sched!Word
         /\ Sched!RunningWord(w, NoProc).st = "running"
BY DEF Sched!RunningWord, Sched!Word, Sched!RunState, Sched!Clear

\* A position falls into a slot of the ring.
LEMMA SlotType ==
  ASSUME SlotsFit, NEW k \in Nat
  PROVE  Slot(k) \in 0..(SlotCount - 1)
BY DEF SlotsFit, Slot

\* A process has one of the two roles.
LEMMA RoleFact ==
  ASSUME NEW p
  PROVE  RoleOf(p) \in Role /\ Other(RoleOf(p)) \in Role
BY DEF RoleOf, Role, Other

\* try_enqueue and try_dequeue keep the types of the ring ...
LEMMA ClaimTypes ==
  ASSUME Types, NEW p \in Proc, Claim(p) \/ ClaimDeq(p)
  PROVE  /\ enq' \in Nat /\ deq' \in Nat /\ UNCHANGED <<seq, cell>>
         /\ pos' \in [Proc -> Nat]
<1>1. CASE ClaimEnq(p)
  BY <1>1 DEF Types, ClaimEnq
<1>2. CASE ClaimDeq(p)
  BY <1>2 DEF Types, ClaimDeq
<1>. QED
  BY <1>1, <1>2 DEF Claim

\* ... as does what is read from a cell ...
LEMMA TakenType ==
  ASSUME SlotsFit, Types, NEW p \in Proc
  PROVE  /\ pos[p] \in Nat /\ Slot(pos[p]) \in 0..(SlotCount - 1)
         /\ Taken(p) \in Value \cup {NoValue}
<1>1. pos[p] \in Nat /\ Slot(pos[p]) \in 0..(SlotCount - 1)
  BY SlotType DEF Types
<1>. QED
  BY <1>1 DEF Types, Taken

\* ... the release of a slot ...
LEMMA DepositTypes ==
  ASSUME SlotsFit, Types, NEW p \in Proc, PublishDeq(p)
  PROVE  /\ enq' = enq /\ deq' = deq /\ cell' = cell
         /\ seq' \in [0..(SlotCount - 1) -> Nat]
         /\ pos' \in [Proc -> Nat]
<1>1. pos[p] + SlotCount \in Nat
  BY TakenType DEF SlotsFit
<1>. QED
  BY <1>1, TakenType DEF Types, PublishDeq

\* ... and either publication.
LEMMA PublishTypes ==
  ASSUME SlotsFit, Types, NEW p \in Proc, Publish(p)
  PROVE  /\ enq' = enq /\ deq' = deq
         /\ seq' \in [0..(SlotCount - 1) -> Nat]
         /\ cell' \in [0..(SlotCount - 1) -> Value \cup {NoValue}]
         /\ pos' \in [Proc -> Nat] /\ val' \in [Proc -> Value \cup {NoValue}]
<1>1. CASE PublishEnq(p) /\ UNCHANGED val
  <2>1. pos[p] + 1 \in Nat /\ val[p] \in Value \cup {NoValue}
    BY TakenType DEF Types
  <2>. QED
    BY <1>1, <2>1, TakenType DEF Types, PublishEnq
<1>2. CASE PublishDeq(p) /\ val' = [val EXCEPT ![p] = Taken(p)]
  BY <1>2, DepositTypes, TakenType DEF Types
<1>. QED
  BY <1>1, <1>2 DEF Publish

\* A delivery counts up.
LEMMA DeliverTypes ==
  ASSUME Types, NEW S, Deliver(S)
  PROVE  got' \in [Value -> Nat]
BY DEF Types, Deliver

\* Every step keeps the types.
LEMMA TypesKept ==
  ASSUME BufferedAssumption, SlotsFit, Types, Roles, Hands, [Next]_vars
  PROVE  Types'
<1>1. ASSUME NEW p \in Proc, Send(p) PROVE Types'
  <2>1. sends[p] \in 0..MaxSend /\ sends[p] + 1 \in 0..MaxSend /\ p \in Sender
    BY <1>1 DEF Send, Types, BufferedAssumption
  <2>2. <<p, sends[p] + 1>> \in Value
    BY <2>1 DEF Value
  <2>3. pc' \in [Proc -> Label]
    BY <1>1 DEF Send, Types, Label, Goto
  <2>4. sends' \in [Sender -> 0..MaxSend] /\ val' \in [Proc -> Value \cup {NoValue}]
    BY <1>1, <2>1, <2>2 DEF Send, Types
  <2>. QED
    BY <1>1, <2>3, <2>4 DEF Send, Types, ringVars
<1>2. ASSUME NEW p \in Proc, Recv(p) PROVE Types'
  BY <1>2 DEF Recv, Types, Label, Goto, ringVars
<1>3. ASSUME NEW p \in Proc, Check(p) PROVE Types'
  BY <1>3 DEF Check, Types, Label, Goto, ringVars
<1>4. ASSUME NEW p \in Proc, Try(p) PROVE Types'
  BY <1>4, ClaimTypes DEF Try, Types, Label, Goto, ringVars
<1>5. ASSUME NEW p \in Proc, Published(p) PROVE Types'
  <2>1. pc' \in [Proc -> Label]
    BY <1>5 DEF Published, Types, Label, Goto
  <2>2. aim' \in [Proc -> Role]
    BY <1>5, RoleFact DEF Published, Types
  <2>9. /\ enq' = enq /\ deq' = deq
        /\ seq' \in [0..(SlotCount - 1) -> Nat]
        /\ cell' \in [0..(SlotCount - 1) -> Value \cup {NoValue}]
        /\ pos' \in [Proc -> Nat] /\ val' \in [Proc -> Value \cup {NoValue}]
    <3>1. Publish(p)
      BY <1>5 DEF Published
    <3>. QED
      BY <3>1, PublishTypes
  <2>. QED
    BY <1>5, <2>1, <2>2, <2>9 DEF Published, Types
<1>6. ASSUME NEW p \in Proc, Slow(p) PROVE Types'
  BY <1>6, RoleFact DEF Slow, Types, Label, Goto, ringVars
<1>7. ASSUME NEW p \in Proc, Retry(p) PROVE Types'
  BY <1>7, ClaimTypes DEF Retry, Types, Label, Goto, ringVars
<1>8. ASSUME NEW p \in Proc, Republished(p) PROVE Types'
  <2>1. pc' \in [Proc -> Label]
    BY <1>8 DEF Republished, Types, Label, Goto
  <2>2. aim' \in [Proc -> Role]
    BY <1>8, RoleFact DEF Republished, Types
  <2>3. gate' \in [Role -> Int]
    BY <1>8, RoleFact DEF Republished, Leave, Types
  <2>4. lock' = NoProc
    BY <1>8 DEF Republished, Leave
  <2>9. /\ enq' = enq /\ deq' = deq
        /\ seq' \in [0..(SlotCount - 1) -> Nat]
        /\ cell' \in [0..(SlotCount - 1) -> Value \cup {NoValue}]
        /\ pos' \in [Proc -> Nat] /\ val' \in [Proc -> Value \cup {NoValue}]
    <3>1. Publish(p)
      BY <1>8 DEF Republished
    <3>. QED
      BY <3>1, PublishTypes
  <2>. QED
    BY <1>8, <2>1, <2>2, <2>3, <2>4, <2>9 DEF Republished, Types
<1>9. ASSUME NEW p \in Proc, Recheck(p) PROVE Types'
  <2>1. pc' \in [Proc -> Label]
    BY <1>9 DEF Recheck, Types, Label, Goto
  <2>2. gate' \in [Role -> Int] /\ lock' \in Proc \cup {NoProc}
    BY <1>9, RoleFact DEF Recheck, Leave, Types
  <2>. QED
    BY <1>9, <2>1, <2>2 DEF Recheck, Types, ringVars
<1>10. ASSUME NEW p \in Proc, Register(p) PROVE Types'
  <2>1. pc' \in [Proc -> Label]
    BY <1>10 DEF Register, Types, Label, Goto
  <2>2. list' \in [Role -> SUBSET Green]
    <3>1. CASE p \in Green /\ list' = [list EXCEPT ![RoleOf(p)] = @ \cup {p}]
      <4>1. list[RoleOf(p)] \cup {p} \in SUBSET Green
        BY <3>1, RoleFact DEF Types
      <4>. QED
        BY <3>1, <4>1 DEF Types
    <3>. QED
      BY <1>10, <3>1 DEF Register, Types
  <2>. QED
    BY <1>10, <2>1, <2>2 DEF Register, Types, ringVars
<1>11. ASSUME NEW p \in Proc, Park(p) PROVE Types'
  BY <1>11, YieldedFact DEF Park, Types, Label, Goto, ringVars
<1>12. ASSUME NEW p \in Proc, Resume(p) PROVE Types'
  BY <1>12, RunningFact DEF Resume, Types, Label, Goto, ringVars
<1>13. ASSUME NEW p \in Proc, Spurious(p) PROVE Types'
  BY <1>13 DEF Spurious, Types, Label, Goto, ringVars
<1>14. ASSUME NEW p \in Proc, Relock(p) PROVE Types'
  BY <1>14, RoleFact DEF Relock, Types, Label, Goto, ringVars
<1>15. ASSUME NEW p \in Proc, TakeHandoff(p) PROVE Types'
  BY <1>15, DeliverTypes DEF TakeHandoff, Types, Label, Goto, ringVars
<1>16. ASSUME NEW p \in Proc, GateShut(p) PROVE Types'
  BY <1>16, DeliverTypes DEF GateShut, Types, Label, Goto, ringVars
<1>17. ASSUME NEW p \in Proc, GateOpen(p) PROVE Types'
  BY <1>17 DEF GateOpen, Types, Label, Goto, ringVars
<1>18. ASSUME NEW p \in Proc, NEW t \in Green, WakeHandoff(p, t) PROVE Types'
  <2>1. pc' \in [Proc -> Label]
    BY <1>18 DEF WakeHandoff, Types, Label, Goto
  <2>2. aim' \in [Proc -> Role]
    BY <1>18 DEF WakeHandoff, Types, Role
  <2>3. hand' \in [Proc -> Green \cup {NoProc}]
    BY <1>18 DEF WakeHandoff, Types
  <2>4. word' \in [Green -> Sched!Word]
    BY <1>18, WokenFact DEF WakeHandoff, WakeAll, Woken, Types
  <2>5. list' \in [Role -> SUBSET Green]
    BY <1>18 DEF WakeHandoff, Types, Role
  <2>. QED
    BY <1>18, <2>1, <2>2, <2>3, <2>4, <2>5 DEF WakeHandoff, Types, ringVars
<1>19. ASSUME NEW p \in Proc, Fetch(p) PROVE Types'
  BY <1>19, ClaimTypes DEF Fetch, Types, Label, Goto, ringVars
<1>20. ASSUME NEW p \in Proc, Deposit(p) PROVE Types'
  <2>1. hand[p] \in Green
    BY <1>20 DEF Deposit, Hands, Handing, Types
  <2>. QED
    BY <1>20, <2>1, DepositTypes, TakenType DEF Deposit, Types, Label, Goto
<1>21. ASSUME NEW p \in Proc, HandoffEnqueue(p) PROVE Types'
  <2>1. pc' \in [Proc -> Label]
    BY <1>21 DEF HandoffEnqueue, Types, Label, Goto
  <2>2. aim' \in [Proc -> Role]
    BY <1>21 DEF HandoffEnqueue, Types, Role
  <2>3. hand' \in [Proc -> Green \cup {NoProc}]
    BY <1>21 DEF HandoffEnqueue, Types
  <2>. QED
    BY <1>21, <2>1, <2>2, <2>3 DEF HandoffEnqueue, Types, ringVars
<1>22. ASSUME NEW p \in Proc, WakeRole(p) PROVE Types'
  <2>1. word' \in [Green -> Sched!Word]
    BY <1>22, WokenFact DEF WakeRole, WakeAll, Woken, Types
  <2>2. pc' \in [Proc -> Label]
    BY <1>22 DEF WakeRole, Types, Label
  <2>3. list' \in [Role -> SUBSET Green]
    BY <1>22 DEF WakeRole, Types
  <2>4. got' \in [Value -> Nat]
    BY <1>22, DeliverTypes DEF WakeRole
  <2>. QED
    BY <1>22, <2>1, <2>2, <2>3, <2>4 DEF WakeRole, Types, ringVars
<1>23. CASE Close
  BY <1>23, WokenFact DEF Close, WakeAll, Woken, Types, Label, Goto, ringVars
<1>24. ASSUME NEW t \in Green, ParkElsewhere(t) PROVE Types'
  BY <1>24, YieldedFact DEF ParkElsewhere, Types, Label, Goto, ringVars
<1>25. ASSUME NEW t \in Green, ResumeElsewhere(t) PROVE Types'
  BY <1>25, RunningFact DEF ResumeElsewhere, Types, Label, Goto, ringVars
<1>26. ASSUME NEW t \in Green, StrayWake(t) PROVE Types'
  BY <1>26, WokenFact DEF StrayWake, WakeAll, Woken, Types, Label, Goto, ringVars
<1>27. CASE UNCHANGED vars
  BY <1>27 DEF vars, Types, ringVars
<1>. QED
  BY <1>1, <1>2, <1>3, <1>4, <1>5, <1>6, <1>7, <1>8, <1>9, <1>10, <1>11, <1>12, <1>13, <1>14,
     <1>15, <1>16, <1>17, <1>18, <1>19, <1>20, <1>21, <1>22, <1>23, <1>24, <1>25, <1>26,
     <1>27 DEF Next, Step, Types, Label, Goto, ringVars

-----------------------------------------------------------------------------
(* Its preservation                                                        *)

\* The steps that wake nobody and leave the parking section alone.
Plain(p) ==
  \/ Send(p) \/ Recv(p) \/ Check(p) \/ Try(p) \/ Published(p) \/ Slow(p)
  \/ Retry(p) \/ Republished(p) \/ Recheck(p) \/ GateShut(p) \/ GateOpen(p) \/ Fetch(p)

\* They move one process, which neither was parked nor parks.
LEMMA PlainStep ==
  ASSUME Types, NEW p \in Proc, Plain(p)
  PROVE  /\ UNCHANGED <<list, word, hand, handoff>>
         /\ \A q \in Proc \ {p} : pc'[q] = pc[q]
         /\ {pc[p], pc'[p]} \cap {"park", "asleep", "away", "wait", "relock", "resumed"} = {}
         /\ pc[p] \in Handing <=> pc'[p] \in Handing
         /\ pc[p] # "enqueue"
<1>1. CASE Send(p)
  BY <1>1 DEF Send, Goto, Types, Handing
<1>2. CASE Recv(p)
  BY <1>2 DEF Recv, Goto, Types, Handing
<1>3. CASE Check(p)
  BY <1>3 DEF Check, Goto, Types, Handing
<1>4. CASE Try(p)
  BY <1>4 DEF Try, Goto, Types, Handing
<1>5. CASE Published(p)
  BY <1>5 DEF Published, Goto, Types, Handing
<1>6. CASE Slow(p)
  BY <1>6 DEF Slow, Goto, Types, Handing
<1>7. CASE Retry(p)
  BY <1>7 DEF Retry, Goto, Types, Handing
<1>8. CASE Republished(p)
  BY <1>8 DEF Republished, Goto, Types, Handing
<1>9. CASE Recheck(p)
  BY <1>9 DEF Recheck, Goto, Types, Handing
<1>10. CASE GateShut(p)
  BY <1>10 DEF GateShut, Goto, Types, Handing
<1>11. CASE GateOpen(p)
  BY <1>11 DEF GateOpen, Goto, Types, Handing
<1>12. CASE Fetch(p)
  BY <1>12 DEF Fetch, Goto, Types, Handing
<1>. QED
  BY <1>1, <1>2, <1>3, <1>4, <1>5, <1>6, <1>7, <1>8, <1>9, <1>10, <1>11, <1>12 DEF Plain

\* What the wake of a set of tasks does to their words ...
LEMMA WakeAllFact ==
  ASSUME Types, NEW S, WakeAll(S)
  PROVE  /\ word' \in [Green -> Sched!Word]
         /\ \A t \in Green : word'[t].st =
              IF t \in S /\ word[t].st = "parked" THEN "ready" ELSE word[t].st
BY WokenFact DEF WakeAll, Woken, Types

\* ... and what a yield ...
LEMMA YieldedStep ==
  ASSUME Types, NEW t \in Green, word' = [word EXCEPT ![t] = Sched!YieldedWord(@)]
  PROVE  /\ word' \in [Green -> Sched!Word] /\ word'[t].st \in {"ready", "parked"}
         /\ \A u \in Green \ {t} : word'[u] = word[u]
BY YieldedFact DEF Types

\* ... and a resumption do to one of them.
LEMMA ResumedStep ==
  ASSUME Types, NEW t \in Green, word' = [word EXCEPT ![t] = Sched!RunningWord(@, NoProc)]
  PROVE  /\ word' \in [Green -> Sched!Word] /\ word'[t].st = "running"
         /\ \A u \in Green \ {t} : word'[u] = word[u]
BY RunningFact DEF Types

\* wake_parked empties the list of its role and signals at most os threads of
\* that role.
LEMMA RoleWoken ==
  ASSUME Types, NEW p \in Proc, WakeRole(p)
  PROVE  /\ pc[p] = "wake" /\ pc'[p] = "idle" /\ lock = NoProc
         /\ list[aim[p]] \cap list'[aim[p]] = {}
         /\ \A role \in Role \ {aim[p]} : list'[role] = list[role]
         /\ list'[aim[p]] = {}
         /\ UNCHANGED <<hand, handoff, lock, aim>>
         /\ \A q \in Proc \ {p} : pc'[q] = pc[q]
              \/ (pc[q] = "wait" /\ pc'[q] = "relock" /\ RoleOf(q) = aim[p])
BY DEF WakeRole, OsAsleep, OsCounted, Types

\* A green task is moved by none of that: it is only made ready.
LEMMA GreenStays ==
  ASSUME BufferedAssumption, Types, Roles, NEW p \in Proc, WakeRole(p)
  PROVE  \A t \in Green : pc'[t] = pc[t] \/ (t = p /\ pc[t] = "wake" /\ pc'[t] = "idle")
BY RoleWoken DEF Roles, BufferedAssumption

\* Every step keeps the channel lock with whoever is in a section under it.
LEMMA LockKept ==
  ASSUME BufferedAssumption, SlotsFit, Types, LockHeld, Roles, Words, Lists, Hands, Handoffs,
         [Next]_vars
  PROVE  LockHeld'
<1>1. ASSUME NEW p \in Proc, Send(p) PROVE LockHeld'
  BY <1>1 DEF Send, Types, LockHeld, Critical, Goto, BufferedAssumption
<1>2. ASSUME NEW p \in Proc, Recv(p) PROVE LockHeld'
  BY <1>2 DEF Recv, Types, LockHeld, Critical, Goto, BufferedAssumption
<1>3. ASSUME NEW p \in Proc, Check(p) PROVE LockHeld'
  BY <1>3 DEF Check, Types, LockHeld, Critical, Goto, BufferedAssumption
<1>4. ASSUME NEW p \in Proc, Try(p) PROVE LockHeld'
  BY <1>4 DEF Try, Types, LockHeld, Critical, Goto, BufferedAssumption
<1>5. ASSUME NEW p \in Proc, Published(p) PROVE LockHeld'
  BY <1>5 DEF Published, Types, LockHeld, Critical, Goto, BufferedAssumption
<1>6. ASSUME NEW p \in Proc, Slow(p) PROVE LockHeld'
  BY <1>6 DEF Slow, Types, LockHeld, Critical, Goto, BufferedAssumption
<1>7. ASSUME NEW p \in Proc, Retry(p) PROVE LockHeld'
  BY <1>7 DEF Retry, Types, LockHeld, Critical, Goto, BufferedAssumption
<1>8. ASSUME NEW p \in Proc, Republished(p) PROVE LockHeld'
  BY <1>8 DEF Republished, Leave, Types, LockHeld, Critical, Goto, BufferedAssumption
<1>9. ASSUME NEW p \in Proc, Recheck(p) PROVE LockHeld'
  BY <1>9 DEF Recheck, Leave, Types, LockHeld, Critical, Goto, BufferedAssumption
<1>10. ASSUME NEW p \in Proc, Register(p) PROVE LockHeld'
  BY <1>10 DEF Register, Types, LockHeld, Critical, Goto, BufferedAssumption
<1>11. ASSUME NEW p \in Proc, Park(p) PROVE LockHeld'
  BY <1>11 DEF Park, Types, LockHeld, Critical, Goto, BufferedAssumption
<1>12. ASSUME NEW p \in Proc, Resume(p) PROVE LockHeld'
  BY <1>12 DEF Resume, Types, LockHeld, Critical, Goto, BufferedAssumption
<1>13. ASSUME NEW p \in Proc, Spurious(p) PROVE LockHeld'
  BY <1>13 DEF Spurious, Types, LockHeld, Critical, Goto, BufferedAssumption
<1>14. ASSUME NEW p \in Proc, Relock(p) PROVE LockHeld'
  BY <1>14 DEF Relock, Types, LockHeld, Critical, Goto, BufferedAssumption
<1>15. ASSUME NEW p \in Proc, TakeHandoff(p) PROVE LockHeld'
  BY <1>15 DEF TakeHandoff, Types, LockHeld, Critical, Goto, BufferedAssumption
<1>16. ASSUME NEW p \in Proc, GateShut(p) PROVE LockHeld'
  BY <1>16 DEF GateShut, Types, LockHeld, Critical, Goto, BufferedAssumption
<1>17. ASSUME NEW p \in Proc, GateOpen(p) PROVE LockHeld'
  BY <1>17 DEF GateOpen, Types, LockHeld, Critical, Goto, BufferedAssumption
<1>18. ASSUME NEW p \in Proc, NEW t \in Green, WakeHandoff(p, t) PROVE LockHeld'
  BY <1>18 DEF WakeHandoff, Types, LockHeld, Critical, Goto, BufferedAssumption
<1>19. ASSUME NEW p \in Proc, Fetch(p) PROVE LockHeld'
  BY <1>19 DEF Fetch, Types, LockHeld, Critical, Goto, BufferedAssumption
<1>20. ASSUME NEW p \in Proc, Deposit(p) PROVE LockHeld'
  BY <1>20 DEF Deposit, Types, LockHeld, Critical, Goto, BufferedAssumption
<1>21. ASSUME NEW p \in Proc, HandoffEnqueue(p) PROVE LockHeld'
  BY <1>21 DEF HandoffEnqueue, Types, LockHeld, Critical, Goto, BufferedAssumption
<1>22. ASSUME NEW p \in Proc, WakeRole(p) PROVE LockHeld'
  BY <1>22 DEF WakeRole, OsAsleep, OsCounted, Types, LockHeld, Critical, Goto,
     BufferedAssumption
<1>23. CASE Close
  BY <1>23 DEF Close, Types, LockHeld, Critical, Goto, BufferedAssumption
<1>24. ASSUME NEW t \in Green, ParkElsewhere(t) PROVE LockHeld'
  BY <1>24 DEF ParkElsewhere, Types, LockHeld, Critical, Goto, BufferedAssumption
<1>25. ASSUME NEW t \in Green, ResumeElsewhere(t) PROVE LockHeld'
  BY <1>25 DEF ResumeElsewhere, Types, LockHeld, Critical, Goto, BufferedAssumption
<1>26. ASSUME NEW t \in Green, StrayWake(t) PROVE LockHeld'
  BY <1>26 DEF StrayWake, Types, LockHeld, Critical, Goto, BufferedAssumption
<1>27. CASE UNCHANGED vars
  BY <1>27 DEF vars, Types, LockHeld, Critical, Goto, BufferedAssumption
<1>. QED
  BY <1>1, <1>2, <1>3, <1>4, <1>5, <1>6, <1>7, <1>8, <1>9, <1>10, <1>11, <1>12, <1>13, <1>14,
     <1>15, <1>16, <1>17, <1>18, <1>19, <1>20, <1>21, <1>22, <1>23, <1>24, <1>25, <1>26,
     <1>27 DEF Next, Step

\* Every step leaves a process where its role allows it to be.
LEMMA RolesKept ==
  ASSUME BufferedAssumption, SlotsFit, Types, LockHeld, Roles, Words, Lists, Hands, Handoffs,
         [Next]_vars
  PROVE  Roles'
<1>1. ASSUME NEW p \in Proc, Send(p) PROVE Roles'
  BY <1>1 DEF Send, Types, Roles, Handing, Goto, BufferedAssumption, Proc, Other, RoleOf
<1>2. ASSUME NEW p \in Proc, Recv(p) PROVE Roles'
  BY <1>2 DEF Recv, Types, Roles, Handing, Goto, BufferedAssumption, Proc, Other, RoleOf
<1>3. ASSUME NEW p \in Proc, Check(p) PROVE Roles'
  BY <1>3 DEF Check, Types, Roles, Handing, Goto, BufferedAssumption, Proc, Other, RoleOf
<1>4. ASSUME NEW p \in Proc, Try(p) PROVE Roles'
  BY <1>4 DEF Try, Types, Roles, Handing, Goto, BufferedAssumption, Proc, Other, RoleOf
<1>5. ASSUME NEW p \in Proc, Published(p) PROVE Roles'
  BY <1>5 DEF Published, Types, Roles, Handing, Goto, BufferedAssumption, Proc, Other, RoleOf
<1>6. ASSUME NEW p \in Proc, Slow(p) PROVE Roles'
  BY <1>6 DEF Slow, Types, Roles, Handing, Goto, BufferedAssumption, Proc, Other, RoleOf
<1>7. ASSUME NEW p \in Proc, Retry(p) PROVE Roles'
  BY <1>7 DEF Retry, Types, Roles, Handing, Goto, BufferedAssumption, Proc, Other, RoleOf
<1>8. ASSUME NEW p \in Proc, Republished(p) PROVE Roles'
  BY <1>8 DEF Republished, Leave, Types, Roles, Handing, Goto, BufferedAssumption, Proc,
     Other, RoleOf
<1>9. ASSUME NEW p \in Proc, Recheck(p) PROVE Roles'
  BY <1>9 DEF Recheck, Leave, Types, Roles, Handing, Goto, BufferedAssumption, Proc, Other,
     RoleOf
<1>10. ASSUME NEW p \in Proc, Register(p) PROVE Roles'
  BY <1>10 DEF Register, Types, Roles, Handing, Goto, BufferedAssumption, Proc, Other, RoleOf
<1>11. ASSUME NEW p \in Proc, Park(p) PROVE Roles'
  BY <1>11 DEF Park, Types, Roles, Handing, Goto, BufferedAssumption, Proc, Other, RoleOf
<1>12. ASSUME NEW p \in Proc, Resume(p) PROVE Roles'
  BY <1>12 DEF Resume, Types, Roles, Handing, Goto, BufferedAssumption, Proc, Other, RoleOf
<1>13. ASSUME NEW p \in Proc, Spurious(p) PROVE Roles'
  BY <1>13 DEF Spurious, Types, Roles, Handing, Goto, BufferedAssumption, Proc, Other, RoleOf
<1>14. ASSUME NEW p \in Proc, Relock(p) PROVE Roles'
  BY <1>14 DEF Relock, Types, Roles, Handing, Goto, BufferedAssumption, Proc, Other, RoleOf
<1>15. ASSUME NEW p \in Proc, TakeHandoff(p) PROVE Roles'
  BY <1>15 DEF TakeHandoff, Types, Roles, Handing, Goto, BufferedAssumption, Proc, Other, RoleOf
<1>16. ASSUME NEW p \in Proc, GateShut(p) PROVE Roles'
  BY <1>16 DEF GateShut, Types, Roles, Handing, Goto, BufferedAssumption, Proc, Other, RoleOf
<1>17. ASSUME NEW p \in Proc, GateOpen(p) PROVE Roles'
  BY <1>17 DEF GateOpen, Types, Roles, Handing, Goto, BufferedAssumption, Proc, Other, RoleOf
<1>18. ASSUME NEW p \in Proc, NEW t \in Green, WakeHandoff(p, t) PROVE Roles'
  BY <1>18 DEF WakeHandoff, Types, Roles, Handing, Goto, BufferedAssumption, Proc, Other, RoleOf
<1>19. ASSUME NEW p \in Proc, Fetch(p) PROVE Roles'
  BY <1>19 DEF Fetch, Types, Roles, Handing, Goto, BufferedAssumption, Proc, Other, RoleOf
<1>20. ASSUME NEW p \in Proc, Deposit(p) PROVE Roles'
  BY <1>20 DEF Deposit, Types, Roles, Handing, Goto, BufferedAssumption, Proc, Other, RoleOf
<1>21. ASSUME NEW p \in Proc, HandoffEnqueue(p) PROVE Roles'
  BY <1>21 DEF HandoffEnqueue, Types, Roles, Handing, Goto, BufferedAssumption, Proc, Other,
     RoleOf
<1>22. ASSUME NEW p \in Proc, WakeRole(p) PROVE Roles'
  BY <1>22 DEF WakeRole, OsAsleep, OsCounted, Types, Roles, Handing, Goto, BufferedAssumption,
     Proc, Other, RoleOf
<1>23. CASE Close
  BY <1>23 DEF Close, Types, Roles, Handing, Goto, BufferedAssumption, Proc, Other, RoleOf
<1>24. ASSUME NEW t \in Green, ParkElsewhere(t) PROVE Roles'
  BY <1>24 DEF ParkElsewhere, Types, Roles, Handing, Goto, BufferedAssumption, Proc, Other,
     RoleOf
<1>25. ASSUME NEW t \in Green, ResumeElsewhere(t) PROVE Roles'
  BY <1>25 DEF ResumeElsewhere, Types, Roles, Handing, Goto, BufferedAssumption, Proc, Other,
     RoleOf
<1>26. ASSUME NEW t \in Green, StrayWake(t) PROVE Roles'
  BY <1>26 DEF StrayWake, Types, Roles, Handing, Goto, BufferedAssumption, Proc, Other, RoleOf
<1>27. CASE UNCHANGED vars
  BY <1>27 DEF vars, Types, Roles, Handing, Goto, BufferedAssumption, Proc, Other, RoleOf
<1>. QED
  BY <1>1, <1>2, <1>3, <1>4, <1>5, <1>6, <1>7, <1>8, <1>9, <1>10, <1>11, <1>12, <1>13, <1>14,
     <1>15, <1>16, <1>17, <1>18, <1>19, <1>20, <1>21, <1>22, <1>23, <1>24, <1>25, <1>26,
     <1>27 DEF Next, Step

\* Every step keeps the scheduling words in step with the tasks.
LEMMA WordsKept ==
  ASSUME BufferedAssumption, SlotsFit, Types, LockHeld, Roles, Words, Lists, Hands, Handoffs,
         [Next]_vars
  PROVE  Words'
<1>1. ASSUME NEW p \in Proc, Plain(p) PROVE Words'
  BY <1>1, PlainStep DEF Words, BufferedAssumption
<1>2. ASSUME NEW p \in Proc, Register(p) PROVE Words'
  BY <1>2 DEF Register, Types, Words, Goto, BufferedAssumption, Roles
<1>3. ASSUME NEW p \in Proc, Park(p) PROVE Words'
  BY <1>3, YieldedStep DEF Park, Types, Words, Goto, BufferedAssumption, Roles
<1>4. ASSUME NEW p \in Proc, Resume(p) PROVE Words'
  BY <1>4, ResumedStep DEF Resume, Types, Words, Goto, BufferedAssumption, Roles
<1>5. ASSUME NEW p \in Proc, Spurious(p) PROVE Words'
  BY <1>5 DEF Spurious, Types, Words, Goto, BufferedAssumption, Roles
<1>6. ASSUME NEW p \in Proc, Relock(p) PROVE Words'
  BY <1>6 DEF Relock, Types, Words, Goto, BufferedAssumption, Roles
<1>7. ASSUME NEW p \in Proc, TakeHandoff(p) PROVE Words'
  BY <1>7 DEF TakeHandoff, Types, Words, Goto, BufferedAssumption, Roles
<1>8. ASSUME NEW p \in Proc, NEW t \in Green, WakeHandoff(p, t) PROVE Words'
  BY <1>8, WakeAllFact DEF WakeHandoff, Types, Words, Goto, BufferedAssumption, Roles
<1>9. ASSUME NEW p \in Proc, Deposit(p) PROVE Words'
  BY <1>9 DEF Deposit, Types, Words, Goto, BufferedAssumption, Roles
<1>10. ASSUME NEW p \in Proc, HandoffEnqueue(p) PROVE Words'
  BY <1>10 DEF HandoffEnqueue, Types, Words, Goto, BufferedAssumption, Roles
<1>11. ASSUME NEW p \in Proc, WakeRole(p) PROVE Words'
  <2>1. word' \in [Green -> Sched!Word] /\ \A t \in Green : word'[t].st =
          IF t \in list[aim[p]] /\ word[t].st = "parked" THEN "ready" ELSE word[t].st
    <3>1. WakeAll(list[aim[p]])
      BY <1>11 DEF WakeRole
    <3>. QED
      BY <3>1, WakeAllFact
  <2>2. \A t \in Green : pc'[t] \in {"asleep", "away"} <=> pc[t] \in {"asleep", "away"}
    BY <1>11, RoleWoken, GreenStays
  <2>. QED
    BY <2>1, <2>2 DEF Words
<1>12. CASE Close
  BY <1>12, WakeAllFact DEF Close, Types, Words, Goto, BufferedAssumption, Roles
<1>13. ASSUME NEW t \in Green, ParkElsewhere(t) PROVE Words'
  BY <1>13, YieldedStep DEF ParkElsewhere, Types, Words, Goto, BufferedAssumption, Roles
<1>14. ASSUME NEW t \in Green, ResumeElsewhere(t) PROVE Words'
  BY <1>14, ResumedStep DEF ResumeElsewhere, Types, Words, Goto, BufferedAssumption, Roles
<1>15. ASSUME NEW t \in Green, StrayWake(t) PROVE Words'
  BY <1>15, WakeAllFact DEF StrayWake, Types, Words, Goto, BufferedAssumption, Roles
<1>16. CASE UNCHANGED vars
  BY <1>16 DEF vars, Types, Words, Goto, BufferedAssumption, Roles
<1>. QED
  BY <1>1, <1>2, <1>3, <1>4, <1>5, <1>6, <1>7, <1>8, <1>9, <1>10, <1>11, <1>12, <1>13, <1>14,
     <1>15, <1>16 DEF Next, Step, Plain

\* What a list says of a task in it.
Listed(t) == pc[t] \in {"park", "asleep", "relock"} /\ handoff[t] = NoValue

\* A list that only shrinks, over tasks that stay, is still right.
LEMMA ListsSame ==
  ASSUME Types, Lists,
         \A role \in Role : \A t \in list'[role] : t \in list[role] /\ Listed(t)'
  PROVE  Lists'
BY DEF Lists, Listed

\* Every step keeps the waiter lists right: a pop, a close or a relock takes
\* the entry of a task before it goes on.
LEMMA ListsKept ==
  ASSUME BufferedAssumption, SlotsFit, Types, LockHeld, Roles, Words, Lists, Hands, Handoffs,
         [Next]_vars
  PROVE  Lists'
<1>1. ASSUME NEW p \in Proc, Plain(p) PROVE Lists'
  BY <1>1, PlainStep DEF Lists, BufferedAssumption, Types, Role
<1>2. ASSUME NEW p \in Proc, Register(p) PROVE Lists'
  <2>1. lock' = NoProc /\ handoff' = handoff
    BY <1>2 DEF Register
  <2>2. CASE p \notin Green /\ Goto(p, "wait") /\ UNCHANGED list
    <3>1. \A role \in Role : \A t \in list[role] : Listed(t)'
      BY <1>2, <2>1, <2>2 DEF Lists, Listed, Types, Goto, BufferedAssumption
    <3>. QED
      BY <2>2, <3>1, ListsSame
  <2>3. CASE p \in Green /\ Goto(p, "park") /\ list' = [list EXCEPT ![RoleOf(p)] = @ \cup {p}]
    <3>1. handoff[p] = NoValue /\ Listed(p)'
      BY <1>2, <2>1, <2>3 DEF Handoffs, Register, Listed, Goto, Types
    <3>2. SUFFICES ASSUME NEW role \in Role, NEW t \in list'[role]
                   PROVE  RoleOf(t) = role /\ Listed(t)'
      BY DEF Lists, Listed
    <3>3. t \in list[role] \/ (t = p /\ role = RoleOf(p))
      BY <2>3 DEF Types
    <3>4. CASE t \in list[role]
      <4>1. RoleOf(t) = role /\ Listed(t) /\ t \in Green
        BY <3>4 DEF Lists, Listed, Types
      <4>2. t # p
        BY <1>2, <4>1 DEF Listed, Register
      <4>. QED
        BY <2>1, <2>3, <4>1, <4>2 DEF Listed, Goto, Types, BufferedAssumption
    <3>. QED
      BY <3>1, <3>3, <3>4
  <2>. QED
    BY <1>2, <2>2, <2>3 DEF Register
<1>3. ASSUME NEW p \in Proc, Park(p) PROVE Lists'
  <2>1. \A role \in Role : \A t \in list'[role] : t \in list[role] /\ t \in Green
    BY <1>3 DEF Park, Types, Role
  <2>2. \A role \in Role : \A t \in list[role] : Listed(t) /\ t \in Green
    BY DEF Lists, Listed, Types
  <2>3. \A t \in Green : Listed(t) => Listed(t)'
    BY <1>3, YieldedStep DEF Park, Listed, Types, Goto, BufferedAssumption, Roles
  <2>. QED
    BY <2>1, <2>2, <2>3, ListsSame
<1>4. ASSUME NEW p \in Proc, Resume(p) PROVE Lists'
  <2>1. \A role \in Role : \A t \in list'[role] : t \in list[role] /\ t \in Green
    BY <1>4 DEF Resume, Types, Role
  <2>2. \A role \in Role : \A t \in list[role] : Listed(t) /\ t \in Green
    BY DEF Lists, Listed, Types
  <2>3. \A t \in Green : Listed(t) => Listed(t)'
    BY <1>4, ResumedStep DEF Resume, Listed, Types, Goto, BufferedAssumption, Roles
  <2>. QED
    BY <2>1, <2>2, <2>3, ListsSame
<1>5. ASSUME NEW p \in Proc, Spurious(p) PROVE Lists'
  <2>1. \A role \in Role : \A t \in list'[role] : t \in list[role] /\ t \in Green
    BY <1>5 DEF Spurious, Types, Role
  <2>2. \A role \in Role : \A t \in list[role] : Listed(t) /\ t \in Green
    BY DEF Lists, Listed, Types
  <2>3. \A t \in Green : Listed(t) => Listed(t)'
    BY <1>5 DEF Spurious, Listed, Types, Goto, BufferedAssumption, Roles
  <2>. QED
    BY <2>1, <2>2, <2>3, ListsSame
<1>6. ASSUME NEW p \in Proc, Relock(p) PROVE Lists'
  <2>1. \A role \in Role : \A t \in list[role] : Listed(t) /\ t \in Green /\ role = RoleOf(t)
    BY DEF Lists, Listed, Types
  <2>2. \A role \in Role : \A t \in list'[role] : t \in list[role] /\ t # p
    BY <1>6, <2>1 DEF Relock, Types
  <2>3. handoff' = handoff /\ \A t \in Green \ {p} : pc'[t] = pc[t]
    BY <1>6 DEF Relock, Types, Goto, BufferedAssumption
  <2>. QED
    BY <2>1, <2>2, <2>3, ListsSame DEF Listed
<1>7. ASSUME NEW p \in Proc, TakeHandoff(p) PROVE Lists'
  <2>1. \A role \in Role : \A t \in list[role] : Listed(t) /\ t \in Green /\ t # p
    BY <1>7 DEF Lists, Listed, Types, TakeHandoff
  <2>2. list' = list /\ \A t \in Green \ {p} : handoff'[t] = handoff[t] /\ pc'[t] = pc[t]
    BY <1>7 DEF TakeHandoff, Types, Goto, BufferedAssumption
  <2>. QED
    BY <2>1, <2>2, ListsSame DEF Listed
<1>8. ASSUME NEW p \in Proc, NEW t \in Green, WakeHandoff(p, t) PROVE Lists'
  <2>1. \A role \in Role : \A u \in list'[role] : u \in list[role] /\ u \in Green
    BY <1>8 DEF WakeHandoff, Types, Role
  <2>2. \A role \in Role : \A u \in list[role] : Listed(u) /\ u \in Green
    BY DEF Lists, Listed, Types
  <2>3. \A u \in Green : Listed(u) => Listed(u)'
    BY <1>8 DEF WakeHandoff, Listed, Types, Goto, BufferedAssumption, Roles
  <2>. QED
    BY <2>1, <2>2, <2>3, ListsSame
<1>9. ASSUME NEW p \in Proc, Deposit(p) PROVE Lists'
  <2>1. \A role \in Role : \A t \in list[role] : Listed(t) /\ t \in Green /\ role = RoleOf(t)
    BY DEF Lists, Listed, Types
  <2>2. HandOk(p, hand[p]) /\ hand[p] \notin Sender
    BY <1>9 DEF Deposit, Hands, Handing, HandOk, BufferedAssumption
  <2>3. \A role \in Role : \A t \in list[role] : t # hand[p]
    BY <2>1, <2>2 DEF HandOk, RoleOf
  <2>4. list' = list /\ \A t \in Green : t # hand[p] => handoff'[t] = handoff[t]
    BY <1>9 DEF Deposit, Types
  <2>5. \A t \in Green : t # p => pc'[t] = pc[t]
    BY <1>9 DEF Deposit, Types, Goto, BufferedAssumption
  <2>6. \A t \in Green : Listed(t) => t # p
    BY <1>9 DEF Deposit, Listed
  <2>. QED
    BY <2>1, <2>3, <2>4, <2>5, <2>6, ListsSame DEF Listed
<1>10. ASSUME NEW p \in Proc, HandoffEnqueue(p) PROVE Lists'
  <2>1. \A role \in Role : \A t \in list'[role] : t \in list[role] /\ t \in Green
    BY <1>10 DEF HandoffEnqueue, Types, Role
  <2>2. \A role \in Role : \A t \in list[role] : Listed(t) /\ t \in Green
    BY DEF Lists, Listed, Types
  <2>3. \A t \in Green : Listed(t) => Listed(t)'
    BY <1>10 DEF HandoffEnqueue, Listed, Types, Goto, BufferedAssumption, Roles
  <2>. QED
    BY <2>1, <2>2, <2>3, ListsSame
<1>11. ASSUME NEW p \in Proc, WakeRole(p) PROVE Lists'
  <2>1. \A role \in Role : \A t \in list'[role] : t \in list[role] /\ t \in Green
    BY <1>11, RoleWoken DEF Types
  <2>2. \A role \in Role : \A t \in list[role] : Listed(t) /\ t \in Green
    BY DEF Lists, Listed, Types
  <2>3. handoff' = handoff /\ \A t \in Green : Listed(t) => pc'[t] = pc[t]
    BY <1>11, GreenStays, RoleWoken DEF Listed
  <2>4. \A t \in Green : Listed(t) => Listed(t)'
    BY <2>3 DEF Listed
  <2>. QED
    BY <2>1, <2>2, <2>4, ListsSame
<1>12. CASE Close
  <2>1. \A role \in Role : \A t \in list'[role] : t \in list[role] /\ t \in Green
    BY <1>12 DEF Close, Types, Role
  <2>2. \A role \in Role : \A t \in list[role] : Listed(t) /\ t \in Green
    BY DEF Lists, Listed, Types
  <2>3. \A t \in Green : Listed(t) => Listed(t)'
    BY <1>12 DEF Close, Listed, Types, Goto, BufferedAssumption, Roles
  <2>. QED
    BY <2>1, <2>2, <2>3, ListsSame
<1>13. ASSUME NEW t \in Green, ParkElsewhere(t) PROVE Lists'
  <2>1. \A role \in Role : \A u \in list'[role] : u \in list[role] /\ u \in Green
    BY <1>13 DEF ParkElsewhere, Types, Role
  <2>2. \A role \in Role : \A u \in list[role] : Listed(u) /\ u \in Green
    BY DEF Lists, Listed, Types
  <2>3. \A u \in Green : Listed(u) => Listed(u)'
    BY <1>13, YieldedStep DEF ParkElsewhere, Listed, Types, Goto, BufferedAssumption, Roles
  <2>. QED
    BY <2>1, <2>2, <2>3, ListsSame
<1>14. ASSUME NEW t \in Green, ResumeElsewhere(t) PROVE Lists'
  <2>1. \A role \in Role : \A u \in list'[role] : u \in list[role] /\ u \in Green
    BY <1>14 DEF ResumeElsewhere, Types, Role
  <2>2. \A role \in Role : \A u \in list[role] : Listed(u) /\ u \in Green
    BY DEF Lists, Listed, Types
  <2>3. \A u \in Green : Listed(u) => Listed(u)'
    BY <1>14, ResumedStep DEF ResumeElsewhere, Listed, Types, Goto, BufferedAssumption, Roles
  <2>. QED
    BY <2>1, <2>2, <2>3, ListsSame
<1>15. ASSUME NEW t \in Green, StrayWake(t) PROVE Lists'
  <2>1. \A role \in Role : \A u \in list'[role] : u \in list[role] /\ u \in Green
    BY <1>15 DEF StrayWake, Types, Role
  <2>2. \A role \in Role : \A u \in list[role] : Listed(u) /\ u \in Green
    BY DEF Lists, Listed, Types
  <2>3. \A u \in Green : Listed(u) => Listed(u)'
    BY <1>15 DEF StrayWake, Listed, Types, Goto, BufferedAssumption, Roles
  <2>. QED
    BY <2>1, <2>2, <2>3, ListsSame
<1>16. CASE UNCHANGED vars
  BY <1>16 DEF vars, Lists
<1>. QED
  BY <1>1, <1>2, <1>3, <1>4, <1>5, <1>6, <1>7, <1>8, <1>9, <1>10, <1>11, <1>12, <1>13, <1>14,
     <1>15, <1>16 DEF Next, Step, Plain

\* A task in a hand is not moved.
HandKept(t) ==
  /\ pc'[t] = "asleep" /\ word'[t].st = "ready"
  /\ t \in list'["recv"] => t \in list["recv"]
  /\ handoff'[t] = handoff[t]

\* A step that leaves it alone leaves the hand right.
LEMMA HandsSame ==
  ASSUME BufferedAssumption, Types, Hands, hand' = hand,
         \A q \in Proc : /\ pc[q] \in Handing <=> pc'[q] \in Handing
                         /\ pc[q] = "enqueue" => pc'[q] = "enqueue",
         \A t \in Green : pc[t] = "asleep" /\ word[t].st = "ready" /\ InHand(t) => HandKept(t)
  PROVE  Hands'
<1>. SUFFICES ASSUME NEW p \in Proc
              PROVE  /\ hand'[p] # NoProc <=> pc'[p] \in Handing
                     /\ hand'[p] # NoProc => HandOk(p, hand[p])'
  BY DEF Hands, HandOk
<1>1. hand'[p] # NoProc <=> pc'[p] \in Handing
  BY DEF Hands
<1>2. ASSUME hand[p] # NoProc PROVE HandOk(p, hand[p])'
  <2>1. hand[p] \in Green /\ HandOk(p, hand[p]) /\ InHand(hand[p])
    BY <1>2 DEF Hands, Types, InHand
  <2>2. HandKept(hand[p])
    BY <2>1 DEF HandOk
  <2>. QED
    BY <2>1, <2>2 DEF HandOk, HandKept
<1>. QED
  BY <1>1, <1>2

\* Every step keeps a claimed receiver asleep until its waker enqueues it.
LEMMA HandsKept ==
  ASSUME BufferedAssumption, SlotsFit, Types, LockHeld, Roles, Words, Lists, Hands, Handoffs,
         [Next]_vars
  PROVE  Hands'
<1>1. ASSUME NEW p \in Proc, Plain(p) PROVE Hands'
  <2>1. hand' = hand /\ \A q \in Proc : /\ pc[q] \in Handing <=> pc'[q] \in Handing
                                        /\ pc[q] = "enqueue" => pc'[q] = "enqueue"
    BY <1>1, PlainStep
  <2>2. ASSUME NEW u \in Green, pc[u] = "asleep", word[u].st = "ready" PROVE HandKept(u)
    BY <1>1, <2>2, PlainStep DEF HandKept, BufferedAssumption
  <2>. QED
    BY <2>1, <2>2, HandsSame
<1>2. ASSUME NEW p \in Proc, Register(p) PROVE Hands'
  <2>1. hand' = hand /\ \A q \in Proc : /\ pc[q] \in Handing <=> pc'[q] \in Handing
                                        /\ pc[q] = "enqueue" => pc'[q] = "enqueue"
    BY <1>2 DEF Register, Types, Handing, Goto, BufferedAssumption
  <2>2. ASSUME NEW u \in Green, pc[u] = "asleep", word[u].st = "ready", InHand(u)
        PROVE HandKept(u)
    <3>1. pc'[u] = "asleep"
      BY <1>2, <2>2 DEF Register, Types, Goto, BufferedAssumption
    <3>2. word'[u].st = "ready"
      BY <1>2, <2>2 DEF Register, Types
    <3>3. (u \in list'["recv"] => u \in list["recv"]) /\ handoff'[u] = handoff[u]
      BY <1>2, <2>2 DEF Register, Types, Role
    <3>. QED
      BY <3>1, <3>2, <3>3 DEF HandKept
  <2>. QED
    BY <2>1, <2>2, HandsSame
<1>3. ASSUME NEW p \in Proc, Park(p) PROVE Hands'
  <2>1. hand' = hand /\ \A q \in Proc : /\ pc[q] \in Handing <=> pc'[q] \in Handing
                                        /\ pc[q] = "enqueue" => pc'[q] = "enqueue"
    BY <1>3 DEF Park, Types, Handing, Goto, BufferedAssumption
  <2>2. ASSUME NEW u \in Green, pc[u] = "asleep", word[u].st = "ready", InHand(u)
        PROVE HandKept(u)
    <3>1. pc'[u] = "asleep"
      BY <1>3, <2>2 DEF Park, Types, Goto, BufferedAssumption
    <3>2. word'[u].st = "ready"
      BY <1>3, <2>2, YieldedStep DEF Park, Types
    <3>3. (u \in list'["recv"] => u \in list["recv"]) /\ handoff'[u] = handoff[u]
      BY <1>3, <2>2 DEF Park, Types, Role
    <3>. QED
      BY <3>1, <3>2, <3>3 DEF HandKept
  <2>. QED
    BY <2>1, <2>2, HandsSame
<1>4. ASSUME NEW p \in Proc, Resume(p) PROVE Hands'
  <2>1. hand' = hand /\ \A q \in Proc : /\ pc[q] \in Handing <=> pc'[q] \in Handing
                                        /\ pc[q] = "enqueue" => pc'[q] = "enqueue"
    BY <1>4 DEF Resume, Types, Handing, Goto, BufferedAssumption
  <2>2. ASSUME NEW u \in Green, pc[u] = "asleep", word[u].st = "ready", InHand(u)
        PROVE HandKept(u)
    <3>1. pc'[u] = "asleep"
      BY <1>4, <2>2 DEF Resume, Types, Goto, BufferedAssumption
    <3>2. word'[u].st = "ready"
      BY <1>4, <2>2, ResumedStep DEF Resume, Types
    <3>3. (u \in list'["recv"] => u \in list["recv"]) /\ handoff'[u] = handoff[u]
      BY <1>4, <2>2 DEF Resume, Types, Role
    <3>. QED
      BY <3>1, <3>2, <3>3 DEF HandKept
  <2>. QED
    BY <2>1, <2>2, HandsSame
<1>5. ASSUME NEW p \in Proc, Spurious(p) PROVE Hands'
  <2>1. hand' = hand /\ \A q \in Proc : /\ pc[q] \in Handing <=> pc'[q] \in Handing
                                        /\ pc[q] = "enqueue" => pc'[q] = "enqueue"
    BY <1>5 DEF Spurious, Types, Handing, Goto, BufferedAssumption
  <2>2. ASSUME NEW u \in Green, pc[u] = "asleep", word[u].st = "ready", InHand(u)
        PROVE HandKept(u)
    <3>1. pc'[u] = "asleep"
      BY <1>5, <2>2 DEF Spurious, Types, Goto, BufferedAssumption
    <3>2. word'[u].st = "ready"
      BY <1>5, <2>2 DEF Spurious, Types
    <3>3. (u \in list'["recv"] => u \in list["recv"]) /\ handoff'[u] = handoff[u]
      BY <1>5, <2>2 DEF Spurious, Types, Role
    <3>. QED
      BY <3>1, <3>2, <3>3 DEF HandKept
  <2>. QED
    BY <2>1, <2>2, HandsSame
<1>6. ASSUME NEW p \in Proc, Relock(p) PROVE Hands'
  <2>1. hand' = hand /\ \A q \in Proc : /\ pc[q] \in Handing <=> pc'[q] \in Handing
                                        /\ pc[q] = "enqueue" => pc'[q] = "enqueue"
    BY <1>6 DEF Relock, Types, Handing, Goto, BufferedAssumption
  <2>2. ASSUME NEW u \in Green, pc[u] = "asleep", word[u].st = "ready", InHand(u)
        PROVE HandKept(u)
    <3>1. pc'[u] = "asleep"
      BY <1>6, <2>2 DEF Relock, Types, Goto, BufferedAssumption
    <3>2. word'[u].st = "ready"
      BY <1>6, <2>2 DEF Relock, Types
    <3>3. (u \in list'["recv"] => u \in list["recv"]) /\ handoff'[u] = handoff[u]
      BY <1>6, <2>2 DEF Relock, Types, Role
    <3>. QED
      BY <3>1, <3>2, <3>3 DEF HandKept
  <2>. QED
    BY <2>1, <2>2, HandsSame
<1>7. ASSUME NEW p \in Proc, TakeHandoff(p) PROVE Hands'
  <2>1. hand' = hand /\ \A q \in Proc : /\ pc[q] \in Handing <=> pc'[q] \in Handing
                                        /\ pc[q] = "enqueue" => pc'[q] = "enqueue"
    BY <1>7 DEF TakeHandoff, Types, Handing, Goto, BufferedAssumption
  <2>2. ASSUME NEW u \in Green, pc[u] = "asleep", word[u].st = "ready", InHand(u)
        PROVE HandKept(u)
    <3>1. pc'[u] = "asleep"
      BY <1>7, <2>2 DEF TakeHandoff, Types, Goto, BufferedAssumption
    <3>2. word'[u].st = "ready"
      BY <1>7, <2>2 DEF TakeHandoff, Types
    <3>3. (u \in list'["recv"] => u \in list["recv"]) /\ handoff'[u] = handoff[u]
      BY <1>7, <2>2 DEF TakeHandoff, Types, Role
    <3>. QED
      BY <3>1, <3>2, <3>3 DEF HandKept
  <2>. QED
    BY <2>1, <2>2, HandsSame
<1>8. ASSUME NEW p \in Proc, NEW t \in Green, WakeHandoff(p, t) PROVE Hands'
  <2>1. /\ pc[p] = "wake" /\ lock = NoProc /\ aim[p] = "recv" /\ t \in list["recv"]
        /\ list' = [list EXCEPT !["recv"] = @ \ {t}] /\ handoff' = handoff
        /\ WakeAll({t})
    BY <1>8 DEF WakeHandoff
  <2>2. \A q \in Proc : hand[q] = NoProc /\ pc[q] \notin Handing
    BY <2>1 DEF LockHeld, Critical, Handing, BufferedAssumption, Hands
  <2>3. CASE /\ Sched!Claimable(word[t]) /\ hand' = [hand EXCEPT ![p] = t] /\ Goto(p, "fetch")
    <3>1. word[t].st = "parked" /\ word'[t].st = "ready"
      BY <2>1, <2>3, WakeAllFact DEF Sched!Claimable
    <3>2. RoleOf(t) = "recv" /\ pc[t] = "asleep" /\ handoff[t] = NoValue
      <4>1. RoleOf(t) = "recv" /\ pc[t] \in {"park", "asleep", "relock"} /\ handoff[t] = NoValue
        BY <2>1 DEF Lists, Role
      <4>2. pc[t] \in {"asleep", "away"}
        BY <3>1 DEF Words
      <4>. QED
        BY <4>1, <4>2
    <3>3. t \in Receiver /\ t \in Proc
      BY <3>2 DEF RoleOf, Proc, BufferedAssumption
    <3>4. pc'[t] = "asleep" /\ pc'[p] = "fetch" /\ \A q \in Proc \ {p} : pc'[q] = pc[q]
      BY <2>1, <2>3, <3>2, <3>3 DEF Goto, Types
    <3>5. hand'[p] = t /\ \A q \in Proc \ {p} : hand'[q] = NoProc
      BY <2>2, <2>3 DEF Types
    <3>6. t \notin list'["recv"]
      BY <2>1 DEF Types, Role
    <3>7. HandOk(p, t)'
      BY <2>1, <3>1, <3>2, <3>3, <3>4, <3>6 DEF HandOk
    <3>8. t # NoProc
      BY <3>3 DEF BufferedAssumption
    <3>9. pc'[p] \in Handing /\ \A q \in Proc \ {p} : pc'[q] \notin Handing
      BY <2>2, <3>4 DEF Handing
    <3>. QED
      BY <3>5, <3>7, <3>8, <3>9 DEF Hands, HandOk
  <2>4. CASE hand' = hand /\ Goto(p, "gate")
    <3>1. \A q \in Proc : hand'[q] = NoProc
      BY <2>2, <2>4
    <3>2. \A q \in Proc : pc'[q] \notin Handing
      BY <2>2, <2>4 DEF Goto, Types, Handing
    <3>. QED
      BY <3>1, <3>2 DEF Hands
  <2>. QED
    BY <1>8, <2>3, <2>4 DEF WakeHandoff
<1>9. ASSUME NEW p \in Proc, Deposit(p) PROVE Hands'
  <2>1. pc[p] = "deposit" /\ pc' = [pc EXCEPT ![p] = "enqueue"]
          /\ UNCHANGED <<hand, word, list>>
    BY <1>9 DEF Deposit, Goto
  <2>2. \A q \in Proc \ {p} : pc[q] \notin Handing /\ hand[q] = NoProc
    BY <2>1 DEF LockHeld, Critical, Handing, BufferedAssumption, Hands
  <2>3. HandOk(p, hand[p]) /\ hand[p] # NoProc /\ hand[p] # p /\ hand[p] \in Proc
    BY <2>1 DEF Hands, Handing, HandOk, BufferedAssumption, Types
  <2>4. pc'[hand[p]] = "asleep" /\ pc'[p] = "enqueue"
    BY <2>1, <2>3 DEF HandOk, Types
  <2>5. HandOk(p, hand[p])'
    BY <2>1, <2>3, <2>4 DEF HandOk
  <2>6. \A q \in Proc : pc'[q] \in Handing <=> pc[q] \in Handing
    BY <2>1 DEF Types, Handing
  <2>. QED
    BY <2>1, <2>2, <2>3, <2>5, <2>6 DEF Hands, HandOk
<1>10. ASSUME NEW p \in Proc, HandoffEnqueue(p) PROVE Hands'
  <2>1. pc[p] = "enqueue" /\ pc' = [pc EXCEPT ![p] = "gate"]
          /\ hand' = [hand EXCEPT ![p] = NoProc]
    BY <1>10 DEF HandoffEnqueue, Goto
  <2>2. \A q \in Proc \ {p} : pc[q] \notin Handing /\ hand[q] = NoProc
    BY <2>1 DEF LockHeld, Critical, Handing, BufferedAssumption, Hands
  <2>3. \A q \in Proc : hand'[q] = NoProc /\ pc'[q] \notin Handing
    BY <2>1, <2>2 DEF Types, Handing
  <2>. QED
    BY <2>3 DEF Hands
<1>11. ASSUME NEW p \in Proc, WakeRole(p) PROVE Hands'
  <2>1. hand' = hand /\ \A q \in Proc : /\ pc[q] \in Handing <=> pc'[q] \in Handing
                                        /\ pc[q] = "enqueue" => pc'[q] = "enqueue"
    BY <1>11, RoleWoken DEF Handing
  <2>2. ASSUME NEW u \in Green, pc[u] = "asleep", word[u].st = "ready" PROVE HandKept(u)
    <3>1. WakeAll(list[aim[p]]) /\ aim[p] \in Role
      BY <1>11 DEF WakeRole, Types
    <3>2. word'[u].st = "ready"
      BY <2>2, <3>1, WakeAllFact
    <3>3. pc'[u] = "asleep" /\ handoff' = handoff
      BY <1>11, <2>2, GreenStays, RoleWoken
    <3>4. u \in list'["recv"] => u \in list["recv"]
      BY <1>11, RoleWoken DEF Role
    <3>. QED
      BY <3>2, <3>3, <3>4 DEF HandKept
  <2>. QED
    BY <2>1, <2>2, HandsSame
<1>12. CASE Close
  <2>1. hand' = hand /\ \A q \in Proc : /\ pc[q] \in Handing <=> pc'[q] \in Handing
                                        /\ pc[q] = "enqueue" => pc'[q] = "enqueue"
    BY <1>12 DEF Close, Types, Handing, Goto, BufferedAssumption
  <2>2. ASSUME NEW u \in Green, pc[u] = "asleep", word[u].st = "ready", InHand(u)
        PROVE HandKept(u)
    <3>1. pc'[u] = "asleep"
      BY <1>12, <2>2 DEF Close, Types, Goto, BufferedAssumption
    <3>2. word'[u].st = "ready"
      BY <1>12, <2>2, WakeAllFact DEF Close, Types
    <3>3. (u \in list'["recv"] => u \in list["recv"]) /\ handoff'[u] = handoff[u]
      BY <1>12, <2>2 DEF Close, Types, Role
    <3>. QED
      BY <3>1, <3>2, <3>3 DEF HandKept
  <2>. QED
    BY <2>1, <2>2, HandsSame
<1>13. ASSUME NEW t \in Green, ParkElsewhere(t) PROVE Hands'
  <2>1. hand' = hand /\ \A q \in Proc : /\ pc[q] \in Handing <=> pc'[q] \in Handing
                                        /\ pc[q] = "enqueue" => pc'[q] = "enqueue"
    BY <1>13 DEF ParkElsewhere, Types, Handing, Goto, BufferedAssumption
  <2>2. ASSUME NEW u \in Green, pc[u] = "asleep", word[u].st = "ready", InHand(u)
        PROVE HandKept(u)
    <3>1. pc'[u] = "asleep"
      BY <1>13, <2>2 DEF ParkElsewhere, Types, Goto, BufferedAssumption
    <3>2. word'[u].st = "ready"
      BY <1>13, <2>2, YieldedStep DEF ParkElsewhere, Types
    <3>3. (u \in list'["recv"] => u \in list["recv"]) /\ handoff'[u] = handoff[u]
      BY <1>13, <2>2 DEF ParkElsewhere, Types, Role
    <3>. QED
      BY <3>1, <3>2, <3>3 DEF HandKept
  <2>. QED
    BY <2>1, <2>2, HandsSame
<1>14. ASSUME NEW t \in Green, ResumeElsewhere(t) PROVE Hands'
  <2>1. hand' = hand /\ \A q \in Proc : /\ pc[q] \in Handing <=> pc'[q] \in Handing
                                        /\ pc[q] = "enqueue" => pc'[q] = "enqueue"
    BY <1>14 DEF ResumeElsewhere, Types, Handing, Goto, BufferedAssumption
  <2>2. ASSUME NEW u \in Green, pc[u] = "asleep", word[u].st = "ready", InHand(u)
        PROVE HandKept(u)
    <3>1. pc'[u] = "asleep"
      BY <1>14, <2>2 DEF ResumeElsewhere, Types, Goto, BufferedAssumption
    <3>2. word'[u].st = "ready"
      BY <1>14, <2>2, ResumedStep DEF ResumeElsewhere, Types
    <3>3. (u \in list'["recv"] => u \in list["recv"]) /\ handoff'[u] = handoff[u]
      BY <1>14, <2>2 DEF ResumeElsewhere, Types, Role
    <3>. QED
      BY <3>1, <3>2, <3>3 DEF HandKept
  <2>. QED
    BY <2>1, <2>2, HandsSame
<1>15. ASSUME NEW t \in Green, StrayWake(t) PROVE Hands'
  <2>1. hand' = hand /\ \A q \in Proc : /\ pc[q] \in Handing <=> pc'[q] \in Handing
                                        /\ pc[q] = "enqueue" => pc'[q] = "enqueue"
    BY <1>15 DEF StrayWake, Types, Handing, Goto, BufferedAssumption
  <2>2. ASSUME NEW u \in Green, pc[u] = "asleep", word[u].st = "ready", InHand(u)
        PROVE HandKept(u)
    <3>1. pc'[u] = "asleep"
      BY <1>15, <2>2 DEF StrayWake, Types, Goto, BufferedAssumption
    <3>2. word'[u].st = "ready"
      BY <1>15, <2>2, WakeAllFact DEF StrayWake, Types
    <3>3. (u \in list'["recv"] => u \in list["recv"]) /\ handoff'[u] = handoff[u]
      BY <1>15, <2>2 DEF StrayWake, Types, Role
    <3>. QED
      BY <3>1, <3>2, <3>3 DEF HandKept
  <2>. QED
    BY <2>1, <2>2, HandsSame
<1>16. CASE UNCHANGED vars
  BY <1>16 DEF vars, Hands, HandOk
<1>. QED
  BY <1>1, <1>2, <1>3, <1>4, <1>5, <1>6, <1>7, <1>8, <1>9, <1>10, <1>11, <1>12, <1>13, <1>14,
     <1>15, <1>16 DEF Next, Step, Plain

\* A task that a value was handed to stays on its way to it.
Carried(t) ==
  /\ t \in Receiver /\ pc[t] \in {"asleep", "relock", "resumed"}
  /\ pc[t] = "asleep" => word[t].st = "ready"

\* A step that hands nothing over leaves the deposits right.
LEMMA HandoffsSame ==
  ASSUME Types, Handoffs,
         \A t \in Green : handoff'[t] # NoValue =>
            handoff[t] # NoValue /\ (Carried(t) => Carried(t)')
  PROVE  Handoffs'
BY DEF Handoffs, Carried

\* Every step leaves a deposit with a receiver that will look for it.
LEMMA HandoffsKept ==
  ASSUME BufferedAssumption, SlotsFit, Types, LockHeld, Roles, Words, Lists, Hands, Handoffs,
         [Next]_vars
  PROVE  Handoffs'
<1>1. ASSUME NEW p \in Proc, Plain(p) PROVE Handoffs'
  <2>1. handoff' = handoff
    BY <1>1, PlainStep
  <2>2. ASSUME NEW u \in Green, Carried(u) PROVE Carried(u)'
    BY <1>1, <2>2, PlainStep DEF Carried, BufferedAssumption
  <2>. QED
    BY <2>1, <2>2, HandoffsSame
<1>2. ASSUME NEW p \in Proc, Register(p) PROVE Handoffs'
  <2>1. handoff' = handoff
    BY <1>2 DEF Register
  <2>2. ASSUME NEW u \in Green, Carried(u) PROVE Carried(u)'
    BY <1>2, <2>2 DEF Register, Types, Goto, BufferedAssumption, Carried
  <2>. QED
    BY <2>1, <2>2, HandoffsSame
<1>3. ASSUME NEW p \in Proc, Park(p) PROVE Handoffs'
  <2>1. handoff' = handoff
    BY <1>3 DEF Park
  <2>2. ASSUME NEW u \in Green, Carried(u) PROVE Carried(u)'
    BY <1>3, <2>2, YieldedStep DEF Park, Types, Goto, BufferedAssumption, Carried
  <2>. QED
    BY <2>1, <2>2, HandoffsSame
<1>4. ASSUME NEW p \in Proc, Resume(p) PROVE Handoffs'
  <2>1. handoff' = handoff
    BY <1>4 DEF Resume
  <2>2. ASSUME NEW u \in Green, Carried(u) PROVE Carried(u)'
    BY <1>4, <2>2, ResumedStep DEF Resume, Types, Goto, BufferedAssumption, Carried
  <2>. QED
    BY <2>1, <2>2, HandoffsSame
<1>5. ASSUME NEW p \in Proc, Spurious(p) PROVE Handoffs'
  <2>1. handoff' = handoff
    BY <1>5 DEF Spurious
  <2>2. ASSUME NEW u \in Green, Carried(u) PROVE Carried(u)'
    BY <1>5, <2>2 DEF Spurious, Types, Goto, BufferedAssumption, Carried
  <2>. QED
    BY <2>1, <2>2, HandoffsSame
<1>6. ASSUME NEW p \in Proc, Relock(p) PROVE Handoffs'
  <2>1. handoff' = handoff
    BY <1>6 DEF Relock
  <2>2. ASSUME NEW u \in Green, Carried(u) PROVE Carried(u)'
    <3>1. CASE u = p
      <4>1. pc'[u] = "resumed"
        BY <1>6, <2>2, <3>1 DEF Relock, Goto, Types, Carried, BufferedAssumption
      <4>. QED
        BY <2>2, <4>1 DEF Carried
    <3>2. CASE u # p
      BY <1>6, <2>2, <3>2 DEF Relock, Types, Goto, BufferedAssumption, Carried
    <3>. QED
      BY <3>1, <3>2
  <2>. QED
    BY <2>1, <2>2, HandoffsSame
<1>7. ASSUME NEW p \in Proc, TakeHandoff(p) PROVE Handoffs'
  <2>1. ASSUME NEW u \in Green, handoff'[u] # NoValue
        PROVE  handoff[u] # NoValue /\ u # p
    BY <1>7, <2>1 DEF TakeHandoff, Types
  <2>2. ASSUME NEW u \in Green, u # p, Carried(u) PROVE Carried(u)'
    BY <1>7, <2>2 DEF TakeHandoff, Types, Goto, BufferedAssumption, Carried
  <2>. QED
    BY <2>1, <2>2, HandoffsSame
<1>8. ASSUME NEW p \in Proc, NEW t \in Green, WakeHandoff(p, t) PROVE Handoffs'
  <2>1. handoff' = handoff
    BY <1>8 DEF WakeHandoff
  <2>2. ASSUME NEW u \in Green, Carried(u) PROVE Carried(u)'
    BY <1>8, <2>2, WakeAllFact DEF WakeHandoff, Types, Goto, BufferedAssumption, Carried
  <2>. QED
    BY <2>1, <2>2, HandoffsSame
<1>9. ASSUME NEW p \in Proc, Deposit(p) PROVE Handoffs'
  <2>1. pc[p] = "deposit" /\ pc' = [pc EXCEPT ![p] = "enqueue"] /\ word' = word
    BY <1>9 DEF Deposit, Goto
  <2>2. HandOk(p, hand[p]) /\ p \in Sender
    BY <2>1 DEF Hands, Handing, Roles
  <2>3. Carried(hand[p])
    BY <2>2 DEF HandOk, Carried
  <2>4. ASSUME NEW u \in Green, Carried(u) PROVE Carried(u)'
    <3>1. u # p /\ pc'[u] = pc[u]
      BY <2>1, <2>2, <2>4 DEF Carried, BufferedAssumption, Types
    <3>. QED
      BY <2>1, <2>4, <3>1 DEF Carried
  <2>5. \A u \in Green : handoff'[u] # NoValue => handoff[u] # NoValue \/ u = hand[p]
    BY <1>9 DEF Deposit, Types
  <2>6. \A u \in Green : handoff[u] # NoValue => Carried(u)
    BY DEF Handoffs, Carried
  <2>7. \A u \in Green : handoff'[u] # NoValue => Carried(u)'
    BY <2>3, <2>4, <2>5, <2>6
  <2>. QED
    BY <2>7 DEF Handoffs, Carried
<1>10. ASSUME NEW p \in Proc, HandoffEnqueue(p) PROVE Handoffs'
  <2>1. handoff' = handoff
    BY <1>10 DEF HandoffEnqueue
  <2>2. ASSUME NEW u \in Green, Carried(u) PROVE Carried(u)'
    BY <1>10, <2>2 DEF HandoffEnqueue, Types, Goto, BufferedAssumption, Carried
  <2>. QED
    BY <2>1, <2>2, HandoffsSame
<1>11. ASSUME NEW p \in Proc, WakeRole(p) PROVE Handoffs'
  <2>1. handoff' = handoff
    BY <1>11, RoleWoken
  <2>2. ASSUME NEW u \in Green, Carried(u) PROVE Carried(u)'
    <3>1. WakeAll(list[aim[p]])
      BY <1>11 DEF WakeRole
    <3>2. word[u].st = "ready" => word'[u].st = "ready"
      BY <3>1, WakeAllFact
    <3>3. pc'[u] = pc[u]
      BY <1>11, <2>2, GreenStays DEF Carried
    <3>. QED
      BY <2>2, <3>2, <3>3 DEF Carried
  <2>. QED
    BY <2>1, <2>2, HandoffsSame
<1>12. CASE Close
  <2>1. handoff' = handoff
    BY <1>12 DEF Close
  <2>2. ASSUME NEW u \in Green, Carried(u) PROVE Carried(u)'
    BY <1>12, <2>2, WakeAllFact DEF Close, Types, Goto, BufferedAssumption, Carried
  <2>. QED
    BY <2>1, <2>2, HandoffsSame
<1>13. ASSUME NEW t \in Green, ParkElsewhere(t) PROVE Handoffs'
  <2>1. handoff' = handoff
    BY <1>13 DEF ParkElsewhere
  <2>2. ASSUME NEW u \in Green, Carried(u) PROVE Carried(u)'
    BY <1>13, <2>2, YieldedStep DEF ParkElsewhere, Types, Goto, BufferedAssumption, Carried
  <2>. QED
    BY <2>1, <2>2, HandoffsSame
<1>14. ASSUME NEW t \in Green, ResumeElsewhere(t) PROVE Handoffs'
  <2>1. handoff' = handoff
    BY <1>14 DEF ResumeElsewhere
  <2>2. ASSUME NEW u \in Green, Carried(u) PROVE Carried(u)'
    BY <1>14, <2>2, ResumedStep DEF ResumeElsewhere, Types, Goto, BufferedAssumption, Carried
  <2>. QED
    BY <2>1, <2>2, HandoffsSame
<1>15. ASSUME NEW t \in Green, StrayWake(t) PROVE Handoffs'
  <2>1. handoff' = handoff
    BY <1>15 DEF StrayWake
  <2>2. ASSUME NEW u \in Green, Carried(u) PROVE Carried(u)'
    BY <1>15, <2>2, WakeAllFact DEF StrayWake, Types, Goto, BufferedAssumption, Carried
  <2>. QED
    BY <2>1, <2>2, HandoffsSame
<1>16. CASE UNCHANGED vars
  BY <1>16 DEF vars, Handoffs
<1>. QED
  BY <1>1, <1>2, <1>3, <1>4, <1>5, <1>6, <1>7, <1>8, <1>9, <1>10, <1>11, <1>12, <1>13, <1>14,
     <1>15, <1>16 DEF Next, Step, Plain

-----------------------------------------------------------------------------
(* The gates, and the first theorems                                       *)

\* Where a process counts at its role's gate.
Counting == {"retry", "recheck", "republish", "register", "park", "asleep", "wait", "relock"}

\* Those that count there.
Counted(role) == {p \in Proc : RoleOf(p) = role /\ pc[p] \in Counting}

\* They are finitely many.
LEMMA CountedFinite ==
  ASSUME BufferedAssumption, NEW role
  PROVE  IsFiniteSet(Counted(role)) /\ Cardinality(Counted(role)) \in Nat
BY FS_Subset, FS_CardinalityType DEF Counted, BufferedAssumption

\* The gate stays right when nobody passes it ...
LEMMA GateSame ==
  ASSUME Types, GateCounts, gate' = gate,
         \A q \in Proc : pc'[q] \in Counting <=> pc[q] \in Counting
  PROVE  GateCounts'
<1>1. \A role \in Role : Counted(role)' = Counted(role)
  BY DEF Counted
<1>. QED
  BY <1>1 DEF GateCounts, Counted, Counting

\* ... when it goes up with one that comes in ...
LEMMA GateUp ==
  ASSUME BufferedAssumption, Types, GateCounts, NEW p \in Proc,
         gate' = [gate EXCEPT ![RoleOf(p)] = @ + 1],
         pc[p] \notin Counting, pc'[p] \in Counting, \A q \in Proc \ {p} : pc'[q] = pc[q]
  PROVE  GateCounts'
<1>1. SUFFICES ASSUME NEW role \in Role PROVE gate'[role] = Cardinality(Counted(role)')
  BY DEF GateCounts, Counted, Counting
<1>2. gate[role] = Cardinality(Counted(role))
  BY DEF GateCounts, Counted, Counting
<1>3. CASE role = RoleOf(p)
  <2>1. Counted(role)' = Counted(role) \cup {p} /\ p \notin Counted(role)
    BY <1>3 DEF Counted
  <2>2. Cardinality(Counted(role)') = Cardinality(Counted(role)) + 1
    BY <2>1, CountedFinite, FS_AddElement
  <2>. QED
    BY <1>2, <1>3, <2>2 DEF Types
<1>4. CASE role # RoleOf(p)
  <2>1. Counted(role)' = Counted(role)
    BY <1>4 DEF Counted
  <2>. QED
    BY <1>2, <1>4, <2>1 DEF Types
<1>. QED
  BY <1>3, <1>4

\* ... and when it comes down with one that leaves.
LEMMA GateDown ==
  ASSUME BufferedAssumption, Types, GateCounts, NEW p \in Proc,
         gate' = [gate EXCEPT ![RoleOf(p)] = @ - 1],
         pc[p] \in Counting, pc'[p] \notin Counting, \A q \in Proc \ {p} : pc'[q] = pc[q]
  PROVE  GateCounts'
<1>1. SUFFICES ASSUME NEW role \in Role PROVE gate'[role] = Cardinality(Counted(role)')
  BY DEF GateCounts, Counted, Counting
<1>2. gate[role] = Cardinality(Counted(role))
  BY DEF GateCounts, Counted, Counting
<1>3. CASE role = RoleOf(p)
  <2>1. Counted(role)' = Counted(role) \ {p} /\ p \in Counted(role)
    BY <1>3 DEF Counted
  <2>2. Cardinality(Counted(role)') = Cardinality(Counted(role)) - 1
    BY <2>1, CountedFinite, FS_RemoveElement
  <2>. QED
    BY <1>2, <1>3, <2>2 DEF Types
<1>4. CASE role # RoleOf(p)
  <2>1. Counted(role)' = Counted(role)
    BY <1>4 DEF Counted
  <2>. QED
    BY <1>2, <1>4, <2>1 DEF Types
<1>. QED
  BY <1>3, <1>4

\* Every step keeps the gates equal to what they count.
LEMMA GateKept ==
  ASSUME BufferedAssumption, Types, Roles, GateCounts, [Next]_vars
  PROVE  GateCounts'
<1>1. ASSUME NEW p \in Proc, Send(p) PROVE GateCounts'
  <2>1. gate' = gate /\ \A q \in Proc : pc'[q] \in Counting <=> pc[q] \in Counting
    BY <1>1 DEF Send, Goto, Types, Counting, BufferedAssumption, Roles
  <2>. QED
    BY <2>1, GateSame
<1>2. ASSUME NEW p \in Proc, Recv(p) PROVE GateCounts'
  <2>1. gate' = gate /\ \A q \in Proc : pc'[q] \in Counting <=> pc[q] \in Counting
    BY <1>2 DEF Recv, Goto, Types, Counting, BufferedAssumption, Roles
  <2>. QED
    BY <2>1, GateSame
<1>3. ASSUME NEW p \in Proc, Check(p) PROVE GateCounts'
  <2>1. gate' = gate /\ \A q \in Proc : pc'[q] \in Counting <=> pc[q] \in Counting
    BY <1>3 DEF Check, Goto, Types, Counting, BufferedAssumption, Roles
  <2>. QED
    BY <2>1, GateSame
<1>4. ASSUME NEW p \in Proc, Try(p) PROVE GateCounts'
  <2>1. gate' = gate /\ \A q \in Proc : pc'[q] \in Counting <=> pc[q] \in Counting
    BY <1>4 DEF Try, Goto, Types, Counting, BufferedAssumption, Roles
  <2>. QED
    BY <2>1, GateSame
<1>5. ASSUME NEW p \in Proc, Published(p) PROVE GateCounts'
  <2>1. gate' = gate /\ \A q \in Proc : pc'[q] \in Counting <=> pc[q] \in Counting
    BY <1>5 DEF Published, Goto, Types, Counting, BufferedAssumption, Roles
  <2>. QED
    BY <2>1, GateSame
<1>6. ASSUME NEW p \in Proc, Slow(p) PROVE GateCounts'
  <2>1. /\ gate' = [gate EXCEPT ![RoleOf(p)] = @ + 1]
        /\ pc[p] \notin Counting /\ pc'[p] \in Counting
        /\ \A q \in Proc \ {p} : pc'[q] = pc[q]
    BY <1>6 DEF Slow, Goto, Types, Counting
  <2>. QED
    BY <2>1, GateUp
<1>7. ASSUME NEW p \in Proc, Retry(p) PROVE GateCounts'
  <2>1. gate' = gate /\ \A q \in Proc : pc'[q] \in Counting <=> pc[q] \in Counting
    BY <1>7 DEF Retry, Goto, Types, Counting, BufferedAssumption, Roles
  <2>. QED
    BY <2>1, GateSame
<1>8. ASSUME NEW p \in Proc, Republished(p) PROVE GateCounts'
  <2>1. /\ gate' = [gate EXCEPT ![RoleOf(p)] = @ - 1]
        /\ pc[p] \in Counting /\ pc'[p] \notin Counting
        /\ \A q \in Proc \ {p} : pc'[q] = pc[q]
    BY <1>8 DEF Republished, Leave, Goto, Types, Counting
  <2>. QED
    BY <2>1, GateDown
<1>9. ASSUME NEW p \in Proc, Recheck(p) PROVE GateCounts'
  <2>1. CASE closed
    <3>1. /\ gate' = [gate EXCEPT ![RoleOf(p)] = @ - 1]
          /\ pc[p] \in Counting /\ pc'[p] \notin Counting
          /\ \A q \in Proc \ {p} : pc'[q] = pc[q]
      BY <1>9, <2>1 DEF Recheck, Leave, Goto, Types, Counting
    <3>. QED
      BY <3>1, GateDown
  <2>2. CASE ~closed
    <3>1. gate' = gate /\ \A q \in Proc : pc'[q] \in Counting <=> pc[q] \in Counting
      BY <1>9, <2>2 DEF Recheck, Goto, Types, Counting
    <3>. QED
      BY <3>1, GateSame
  <2>. QED
    BY <2>1, <2>2
<1>10. ASSUME NEW p \in Proc, Register(p) PROVE GateCounts'
  <2>1. gate' = gate /\ \A q \in Proc : pc'[q] \in Counting <=> pc[q] \in Counting
    BY <1>10 DEF Register, Goto, Types, Counting, BufferedAssumption, Roles
  <2>. QED
    BY <2>1, GateSame
<1>11. ASSUME NEW p \in Proc, Park(p) PROVE GateCounts'
  <2>1. gate' = gate /\ \A q \in Proc : pc'[q] \in Counting <=> pc[q] \in Counting
    BY <1>11 DEF Park, Goto, Types, Counting, BufferedAssumption, Roles
  <2>. QED
    BY <2>1, GateSame
<1>12. ASSUME NEW p \in Proc, Resume(p) PROVE GateCounts'
  <2>1. gate' = gate /\ \A q \in Proc : pc'[q] \in Counting <=> pc[q] \in Counting
    BY <1>12 DEF Resume, Goto, Types, Counting, BufferedAssumption, Roles
  <2>. QED
    BY <2>1, GateSame
<1>13. ASSUME NEW p \in Proc, Spurious(p) PROVE GateCounts'
  <2>1. gate' = gate /\ \A q \in Proc : pc'[q] \in Counting <=> pc[q] \in Counting
    BY <1>13 DEF Spurious, Goto, Types, Counting, BufferedAssumption, Roles
  <2>. QED
    BY <2>1, GateSame
<1>14. ASSUME NEW p \in Proc, Relock(p) PROVE GateCounts'
  <2>1. /\ gate' = [gate EXCEPT ![RoleOf(p)] = @ - 1]
        /\ pc[p] \in Counting /\ pc'[p] \notin Counting
        /\ \A q \in Proc \ {p} : pc'[q] = pc[q]
    BY <1>14 DEF Relock, Goto, Types, Counting
  <2>. QED
    BY <2>1, GateDown
<1>15. ASSUME NEW p \in Proc, TakeHandoff(p) PROVE GateCounts'
  <2>1. gate' = gate /\ \A q \in Proc : pc'[q] \in Counting <=> pc[q] \in Counting
    BY <1>15 DEF TakeHandoff, Goto, Types, Counting, BufferedAssumption, Roles
  <2>. QED
    BY <2>1, GateSame
<1>16. ASSUME NEW p \in Proc, GateShut(p) PROVE GateCounts'
  <2>1. gate' = gate /\ \A q \in Proc : pc'[q] \in Counting <=> pc[q] \in Counting
    BY <1>16 DEF GateShut, Goto, Types, Counting, BufferedAssumption, Roles
  <2>. QED
    BY <2>1, GateSame
<1>17. ASSUME NEW p \in Proc, GateOpen(p) PROVE GateCounts'
  <2>1. gate' = gate /\ \A q \in Proc : pc'[q] \in Counting <=> pc[q] \in Counting
    BY <1>17 DEF GateOpen, Goto, Types, Counting, BufferedAssumption, Roles
  <2>. QED
    BY <2>1, GateSame
<1>18. ASSUME NEW p \in Proc, NEW t \in Green, WakeHandoff(p, t) PROVE GateCounts'
  <2>1. gate' = gate /\ \A q \in Proc : pc'[q] \in Counting <=> pc[q] \in Counting
    BY <1>18 DEF WakeHandoff, Goto, Types, Counting, BufferedAssumption, Roles
  <2>. QED
    BY <2>1, GateSame
<1>19. ASSUME NEW p \in Proc, Fetch(p) PROVE GateCounts'
  <2>1. gate' = gate /\ \A q \in Proc : pc'[q] \in Counting <=> pc[q] \in Counting
    BY <1>19 DEF Fetch, Goto, Types, Counting, BufferedAssumption, Roles
  <2>. QED
    BY <2>1, GateSame
<1>20. ASSUME NEW p \in Proc, Deposit(p) PROVE GateCounts'
  <2>1. gate' = gate /\ \A q \in Proc : pc'[q] \in Counting <=> pc[q] \in Counting
    BY <1>20 DEF Deposit, Goto, Types, Counting, BufferedAssumption, Roles
  <2>. QED
    BY <2>1, GateSame
<1>21. ASSUME NEW p \in Proc, HandoffEnqueue(p) PROVE GateCounts'
  <2>1. gate' = gate /\ \A q \in Proc : pc'[q] \in Counting <=> pc[q] \in Counting
    BY <1>21 DEF HandoffEnqueue, Goto, Types, Counting, BufferedAssumption, Roles
  <2>. QED
    BY <2>1, GateSame
<1>22. ASSUME NEW p \in Proc, WakeRole(p) PROVE GateCounts'
  <2>1. gate' = gate
    BY <1>22 DEF WakeRole
  <2>2. \A q \in Proc : pc'[q] \in Counting <=> pc[q] \in Counting
    BY <1>22, RoleWoken DEF Counting
  <2>. QED
    BY <2>1, <2>2, GateSame
<1>23. CASE Close
  <2>1. gate' = gate /\ \A q \in Proc : pc'[q] \in Counting <=> pc[q] \in Counting
    BY <1>23 DEF Close, Goto, Types, Counting, BufferedAssumption, Roles
  <2>. QED
    BY <2>1, GateSame
<1>24. ASSUME NEW t \in Green, ParkElsewhere(t) PROVE GateCounts'
  <2>1. gate' = gate /\ \A q \in Proc : pc'[q] \in Counting <=> pc[q] \in Counting
    BY <1>24 DEF ParkElsewhere, Goto, Types, Counting, BufferedAssumption, Roles
  <2>. QED
    BY <2>1, GateSame
<1>25. ASSUME NEW t \in Green, ResumeElsewhere(t) PROVE GateCounts'
  <2>1. gate' = gate /\ \A q \in Proc : pc'[q] \in Counting <=> pc[q] \in Counting
    BY <1>25 DEF ResumeElsewhere, Goto, Types, Counting, BufferedAssumption, Roles
  <2>. QED
    BY <2>1, GateSame
<1>26. ASSUME NEW t \in Green, StrayWake(t) PROVE GateCounts'
  <2>1. gate' = gate /\ \A q \in Proc : pc'[q] \in Counting <=> pc[q] \in Counting
    BY <1>26 DEF StrayWake, Goto, Types, Counting, BufferedAssumption, Roles
  <2>. QED
    BY <2>1, GateSame
<1>27. CASE UNCHANGED vars
  BY <1>27, GateSame DEF vars
<1>. QED
  BY <1>1, <1>2, <1>3, <1>4, <1>5, <1>6, <1>7, <1>8, <1>9, <1>10, <1>11, <1>12, <1>13, <1>14,
     <1>15, <1>16, <1>17, <1>18, <1>19, <1>20, <1>21, <1>22, <1>23, <1>24, <1>25, <1>26,
     <1>27 DEF Next, Step

\* What holds of the lock, the lists, the gates and the tasks, whatever the
\* ring contains.
Control ==
  Types /\ LockHeld /\ Roles /\ Words /\ Lists /\ Hands /\ Handoffs /\ GateCounts

\* It holds initially ...
LEMMA ControlInit ==
  ASSUME BufferedAssumption, SlotsFit, Init
  PROVE  Control
<1>1. Types
  <2>1. word \in [Green -> Sched!Word]
    BY DEF Init, Sched!Word, Sched!RunningWord, Sched!FreshWord, Sched!Clear, Sched!RunState
  <2>2. seq \in [0..(SlotCount - 1) -> Nat]
    BY DEF Init, SlotsFit
  <2>3. gate \in [Role -> Int] /\ list \in [Role -> SUBSET Green] /\ aim \in [Proc -> Role]
    BY DEF Init, Role
  <2>4. pc \in [Proc -> Label] /\ sends \in [Sender -> 0..MaxSend]
    BY DEF Init, Label, BufferedAssumption
  <2>. QED
    BY <2>1, <2>2, <2>3, <2>4 DEF Init, Types
<1>2. LockHeld /\ Roles /\ Lists /\ Hands /\ Handoffs
  BY DEF Init, LockHeld, Critical, Roles, Lists, Hands, Handoffs, Handing, BufferedAssumption,
     Role
<1>3. Words
  BY DEF Init, Words, Sched!RunningWord, Sched!Clear, BufferedAssumption
<1>4. GateCounts
  <2>1. \A role \in Role : Counted(role) = {}
    BY DEF Init, Counted, Counting
  <2>. QED
    BY <2>1, FS_EmptySet DEF GateCounts, Counted, Counting, Init
<1>. QED
  BY <1>1, <1>2, <1>3, <1>4 DEF Control

\* ... every step keeps it ...
LEMMA ControlKept ==
  ASSUME BufferedAssumption, SlotsFit, Control, [Next]_vars
  PROVE  Control'
BY TypesKept, LockKept, RolesKept, WordsKept, ListsKept, HandsKept, HandoffsKept,
   GateKept DEF Control

\* ... and so it holds always.
LEMMA ControlAlways ==
  ASSUME BufferedAssumption, SlotsFit
  PROVE  Spec => []Control
BY ControlInit, ControlKept, PTL DEF Spec

\* A gate is a number of processes.
LEMMA GateNat ==
  ASSUME BufferedAssumption, Types, GateCounts
  PROVE  gate \in [Role -> Nat]
<1>1. \A role \in Role : gate[role] = Cardinality(Counted(role))
  BY DEF GateCounts, Counted, Counting
<1>. QED
  BY <1>1, CountedFinite DEF Types

\* So the types hold ...
LEMMA ControlTypes ==
  ASSUME BufferedAssumption, Control
  PROVE  TypeOK
BY GateNat DEF Control, Types, TypeOK

\* ... and lists and handoffs name only tasks inside the parking section.
LEMMA ControlHome ==
  ASSUME BufferedAssumption, Control
  PROVE  HandoffHome
<1>1. \A role \in Role : \A t \in list[role] :
         RoleOf(t) = role /\ pc[t] \in {"park", "asleep", "relock"}
  BY DEF Control, Lists
<1>2. ASSUME NEW t \in Green, handoff[t] # NoValue
      PROVE  t \in Receiver /\ pc[t] \in {"asleep", "relock", "resumed"}
  BY <1>2 DEF Control, Handoffs
<1>3. ASSUME NEW t \in Green, InHand(t)
      PROVE  t \in Receiver /\ pc[t] \in {"asleep", "relock", "resumed"}
  <2>1. PICK p \in Proc : hand[p] = t
    BY <1>3 DEF InHand
  <2>2. HandOk(p, t)
    BY <2>1 DEF Control, Hands, BufferedAssumption
  <2>. QED
    BY <2>2 DEF HandOk
<1>. QED
  BY <1>1, <1>2, <1>3 DEF HandoffHome

\* The variables of a buffered channel keep their types in every state, and a
\* gate is never negative (concurrency/channel.rs).
THEOREM TypeCorrect ==
  ASSUME BufferedAssumption, SlotsFit
  PROVE  Spec => []TypeOK
BY ControlAlways, ControlTypes, PTL

\* A waiter list names only tasks inside this channel's parking section, a
\* value is handed only to a receiver that will take it, and the gates count
\* exactly the operations parked or about to be (buffered_send, buffered_recv,
\* wake_parked, wake_with).
THEOREM ParkedSoundAlways ==
  ASSUME BufferedAssumption, SlotsFit
  PROVE  Spec => [](HandoffHome /\ GateCounts)
<1>1. Control => HandoffHome /\ GateCounts
  BY ControlHome DEF Control
<1>. QED
  BY <1>1, ControlAlways, PTL

-----------------------------------------------------------------------------
(* What a step does to the values                                          *)

\* Its value has not entered the ring.
Before(q) == q \in Sender /\ pc[q] \in BeforePut

\* A receiver that has read a value and not returned it.
Holder(q) == q \in Receiver /\ pc[q] \in {"gate", "wake"}

\* A sender inside an operation.
Busy(q) == q \in Sender /\ pc[q] \notin {"idle", "away"}

\* A step that leaves a process alone, as far as the ring can tell.
Same(q) ==
  /\ Putter(q)' <=> Putter(q)
  /\ Taker(q)' <=> Taker(q)
  /\ Before(q)' => Before(q)
  /\ Holder(q)' <=> Holder(q)
  /\ Busy(q)' => Busy(q)

\* It leaves everybody else alone.
Others(p) == \A q \in Proc \ {p} : Same(q)

\* The effects a step can have on the values.  None ...
Still ==
  /\ \A q \in Proc : Same(q)
  /\ UNCHANGED <<enq, deq, seq, cell, pos, val, handoff, sends, got>>

\* ... a send starts ...
Begun(p) ==
  /\ p \in Sender /\ ~Putter(p) /\ ~Putter(p)' /\ ~Taker(p) /\ ~Taker(p)'
  /\ sends[p] < MaxSend
  /\ sends' = [sends EXCEPT ![p] = @ + 1]
  /\ val' = [val EXCEPT ![p] = <<p, sends[p] + 1>>]
  /\ Others(p) /\ UNCHANGED <<enq, deq, seq, cell, pos, handoff, got>>

\* ... try_enqueue claims the tail ...
Put(p) ==
  /\ p \in Sender /\ ~Putter(p) /\ Putter(p)' /\ ~Taker(p) /\ ~Taker(p)'
  /\ Before(p) /\ ~Before(p)'
  /\ ClaimEnq(p)
  /\ Others(p) /\ UNCHANGED <<val, handoff, sends, got>>

\* ... try_dequeue claims the head ...
Took(p) ==
  /\ ~Putter(p) /\ ~Putter(p)' /\ ~Taker(p) /\ Taker(p)'
  /\ Before(p)' => Before(p)
  /\ Holder(p)' <=> Holder(p)
  /\ Busy(p)' => Busy(p)
  /\ ClaimDeq(p)
  /\ Others(p) /\ UNCHANGED <<val, handoff, sends, got>>

\* ... the sender writes the cell and publishes it ...
Wrote(p) ==
  /\ p \in Sender /\ Putter(p) /\ ~Putter(p)' /\ ~Taker(p) /\ ~Taker(p)'
  /\ ~Before(p)' /\ Busy(p)
  /\ PublishEnq(p)
  /\ Others(p) /\ UNCHANGED <<val, handoff, sends, got>>

\* ... the receiver reads it and frees the slot ...
Read(p) ==
  /\ p \in Receiver /\ ~Putter(p) /\ ~Putter(p)' /\ Taker(p) /\ ~Taker(p)'
  /\ ~Holder(p) /\ Holder(p)'
  /\ PublishDeq(p)
  /\ val' = [val EXCEPT ![p] = Taken(p)]
  /\ Others(p) /\ UNCHANGED <<handoff, sends, got>>

\* ... a waker does, for the receiver in its hand ...
HandedOver(p) ==
  /\ p \in Sender /\ ~Putter(p) /\ ~Putter(p)' /\ Taker(p) /\ ~Taker(p)'
  /\ ~Before(p)' /\ Busy(p)
  /\ PublishDeq(p)
  /\ hand[p] \in Green /\ handoff[hand[p]] = NoValue
  /\ handoff' = [handoff EXCEPT ![hand[p]] = Taken(p)]
  /\ Others(p) /\ UNCHANGED <<val, sends, got>>

\* ... the receiver returns the value ...
Returned(p) ==
  /\ p \in Receiver /\ ~Putter(p) /\ ~Putter(p)' /\ ~Taker(p) /\ ~Taker(p)'
  /\ Holder(p) /\ ~Holder(p)'
  /\ Deliver({val[p]})
  /\ Others(p) /\ UNCHANGED <<enq, deq, seq, cell, pos, val, handoff, sends>>

\* ... or one takes the value it was handed.
Received(p) ==
  /\ p \in Green /\ handoff[p] # NoValue
  /\ Deliver({handoff[p]})
  /\ handoff' = [handoff EXCEPT ![p] = NoValue]
  /\ \A q \in Proc : Same(q)
  /\ UNCHANGED <<enq, deq, seq, cell, pos, val, sends>>

\* Every step has one of these.
Effect ==
  \/ Still
  \/ \E p \in Proc : \/ Begun(p) \/ Put(p) \/ Took(p) \/ Wrote(p) \/ Read(p)
                     \/ HandedOver(p) \/ Returned(p) \/ Received(p)

\* A process that does not move is left alone.
LEMMA SameHere ==
  ASSUME NEW q, pc'[q] = pc[q]
  PROVE  Same(q)
BY DEF Same, Putter, Taker, Before, Holder, Busy

\* A step that moves one process leaves the others alone.
LEMMA Moved ==
  ASSUME Types, NEW p \in Proc, NEW l, Goto(p, l)
  PROVE  pc'[p] = l /\ Others(p)
<1>1. pc'[p] = l /\ \A q \in Proc \ {p} : pc'[q] = pc[q]
  BY DEF Goto, Types
<1>. QED
  BY <1>1, SameHere DEF Others

\* So it has no effect when its process was left alone too.
LEMMA StillFrom ==
  ASSUME NEW p \in Proc, Others(p), Same(p),
         UNCHANGED <<enq, deq, seq, cell, pos, val, handoff, sends, got>>
  PROVE  Effect
BY DEF Others, Effect, Still

\* To deliver nothing changes nothing.
LEMMA DeliverNothing ==
  ASSUME Types, Deliver({})
  PROVE  got' = got
BY DEF Deliver, Types

\* The steps that touch no value.
Unmoved(p) ==
  \/ Recv(p) \/ Check(p) \/ Slow(p) \/ Recheck(p) \/ Register(p) \/ Park(p)
  \/ Resume(p) \/ Spurious(p) \/ Relock(p) \/ GateOpen(p) \/ HandoffEnqueue(p)

\* They have no effect.
LEMMA UnmovedStill ==
  ASSUME BufferedAssumption, Types, Roles, NEW p \in Proc, Unmoved(p)
  PROVE  Effect
<1>1. CASE Recv(p)
  <2>1. UNCHANGED <<enq, deq, seq, cell, pos, val, handoff, sends, got>>
    BY <1>1 DEF Recv, ringVars
  <2>2. Others(p)
    BY <1>1, Moved DEF Recv
  <2>3. Same(p)
    BY <1>1 DEF Recv, Goto, Types, Roles, Handing, BufferedAssumption, Same, Putter, Taker,
       Before, BeforePut, Holder, Busy
  <2>. QED
    BY <2>1, <2>2, <2>3, StillFrom
<1>2. CASE Check(p)
  <2>1. UNCHANGED <<enq, deq, seq, cell, pos, val, handoff, sends, got>>
    BY <1>2 DEF Check, ringVars
  <2>2. Others(p)
    BY <1>2, Moved DEF Check
  <2>3. Same(p)
    BY <1>2 DEF Check, Goto, Types, Roles, Handing, BufferedAssumption, Same, Putter, Taker,
       Before, BeforePut, Holder, Busy
  <2>. QED
    BY <2>1, <2>2, <2>3, StillFrom
<1>3. CASE Slow(p)
  <2>1. UNCHANGED <<enq, deq, seq, cell, pos, val, handoff, sends, got>>
    BY <1>3 DEF Slow, ringVars
  <2>2. Others(p)
    BY <1>3, Moved DEF Slow
  <2>3. Same(p)
    BY <1>3 DEF Slow, Goto, Types, Roles, Handing, BufferedAssumption, Same, Putter, Taker,
       Before, BeforePut, Holder, Busy
  <2>. QED
    BY <2>1, <2>2, <2>3, StillFrom
<1>4. CASE Recheck(p)
  <2>1. UNCHANGED <<enq, deq, seq, cell, pos, val, handoff, sends, got>>
    BY <1>4 DEF Recheck, ringVars
  <2>2. Others(p)
    BY <1>4, Moved DEF Recheck
  <2>3. Same(p)
    BY <1>4 DEF Recheck, Goto, Types, Roles, Handing, BufferedAssumption, Same, Putter, Taker,
       Before, BeforePut, Holder, Busy
  <2>. QED
    BY <2>1, <2>2, <2>3, StillFrom
<1>5. CASE Register(p)
  <2>1. UNCHANGED <<enq, deq, seq, cell, pos, val, handoff, sends, got>>
    BY <1>5 DEF Register, ringVars
  <2>2. Others(p)
    BY <1>5, Moved DEF Register
  <2>3. Same(p)
    BY <1>5 DEF Register, Goto, Types, Roles, Handing, BufferedAssumption, Same, Putter,
       Taker, Before, BeforePut, Holder, Busy
  <2>. QED
    BY <2>1, <2>2, <2>3, StillFrom
<1>6. CASE Park(p)
  <2>1. UNCHANGED <<enq, deq, seq, cell, pos, val, handoff, sends, got>>
    BY <1>6 DEF Park, ringVars
  <2>2. Others(p)
    BY <1>6, Moved DEF Park
  <2>3. Same(p)
    BY <1>6 DEF Park, Goto, Types, Roles, Handing, BufferedAssumption, Same, Putter, Taker,
       Before, BeforePut, Holder, Busy
  <2>. QED
    BY <2>1, <2>2, <2>3, StillFrom
<1>7. CASE Resume(p)
  <2>1. UNCHANGED <<enq, deq, seq, cell, pos, val, handoff, sends, got>>
    BY <1>7 DEF Resume, ringVars
  <2>2. Others(p)
    BY <1>7, Moved DEF Resume
  <2>3. Same(p)
    BY <1>7 DEF Resume, Goto, Types, Roles, Handing, BufferedAssumption, Same, Putter, Taker,
       Before, BeforePut, Holder, Busy
  <2>. QED
    BY <2>1, <2>2, <2>3, StillFrom
<1>8. CASE Spurious(p)
  <2>1. UNCHANGED <<enq, deq, seq, cell, pos, val, handoff, sends, got>>
    BY <1>8 DEF Spurious, ringVars
  <2>2. Others(p)
    BY <1>8, Moved DEF Spurious
  <2>3. Same(p)
    BY <1>8 DEF Spurious, Goto, Types, Roles, Handing, BufferedAssumption, Same, Putter,
       Taker, Before, BeforePut, Holder, Busy
  <2>. QED
    BY <2>1, <2>2, <2>3, StillFrom
<1>9. CASE Relock(p)
  <2>1. UNCHANGED <<enq, deq, seq, cell, pos, val, handoff, sends, got>>
    BY <1>9 DEF Relock, ringVars
  <2>2. Others(p)
    BY <1>9, Moved DEF Relock
  <2>3. Same(p)
    BY <1>9 DEF Relock, Goto, Types, Roles, Handing, BufferedAssumption, Same, Putter, Taker,
       Before, BeforePut, Holder, Busy
  <2>. QED
    BY <2>1, <2>2, <2>3, StillFrom
<1>10. CASE GateOpen(p)
  <2>1. UNCHANGED <<enq, deq, seq, cell, pos, val, handoff, sends, got>>
    BY <1>10 DEF GateOpen, ringVars
  <2>2. Others(p)
    BY <1>10, Moved DEF GateOpen
  <2>3. Same(p)
    BY <1>10 DEF GateOpen, Goto, Types, Roles, Handing, BufferedAssumption, Same, Putter,
       Taker, Before, BeforePut, Holder, Busy
  <2>. QED
    BY <2>1, <2>2, <2>3, StillFrom
<1>11. CASE HandoffEnqueue(p)
  <2>1. UNCHANGED <<enq, deq, seq, cell, pos, val, handoff, sends, got>>
    BY <1>11 DEF HandoffEnqueue, ringVars
  <2>2. Others(p)
    BY <1>11, Moved DEF HandoffEnqueue
  <2>3. Same(p)
    BY <1>11 DEF HandoffEnqueue, Goto, Types, Roles, Handing, BufferedAssumption, Same,
       Putter, Taker, Before, BeforePut, Holder, Busy
  <2>. QED
    BY <2>1, <2>2, <2>3, StillFrom
<1>. QED
  BY <1>1, <1>2, <1>3, <1>4, <1>5, <1>6, <1>7, <1>8, <1>9, <1>10, <1>11 DEF Unmoved

\* A claim on the ring takes the tail or the head ...
LEMMA ClaimEffect ==
  ASSUME BufferedAssumption, Types, Roles, NEW p \in Proc, Try(p) \/ Retry(p) \/ Fetch(p)
  PROVE  Effect
<1>1. UNCHANGED <<val, handoff, sends, got>>
  BY DEF Try, Retry, Fetch
<1>2. Others(p)
  BY Moved DEF Try, Retry, Fetch
<1>3. CASE p \in Sender /\ ClaimEnq(p) /\ pc[p] \in {"try", "once", "retry"}
             /\ pc'[p] \in {"publish", "republish"}
  <2>1. Put(p)
    BY <1>1, <1>2, <1>3 DEF Put, Putter, Taker, Before, BeforePut, BufferedAssumption
  <2>. QED
    BY <2>1 DEF Effect
<1>4. CASE p \in Receiver /\ ClaimDeq(p) /\ pc[p] \in {"try", "once", "look", "retry"}
             /\ pc'[p] \in {"publish", "republish"}
  <2>1. Took(p)
    BY <1>1, <1>2, <1>4 DEF Took, Putter, Taker, Before, BeforePut, BufferedAssumption,
       Holder, Busy
  <2>. QED
    BY <2>1 DEF Effect
<1>5. CASE p \in Sender /\ ClaimDeq(p) /\ pc[p] = "fetch" /\ pc'[p] = "deposit"
  <2>1. Took(p)
    BY <1>1, <1>2, <1>5 DEF Took, Putter, Taker, Before, BeforePut, BufferedAssumption,
       Holder, Busy
  <2>. QED
    BY <2>1 DEF Effect
<1>6. CASE /\ UNCHANGED <<enq, deq, seq, cell, pos>>
           /\ \/ pc[p] \in {"try", "once", "look", "retry"}
                   /\ pc'[p] \in {"idle", "slow", "check", "register", "recheck"}
              \/ pc[p] = "fetch" /\ pc'[p] = "enqueue"
           /\ Before(p)' => Before(p)
  <2>1. Same(p)
    BY <1>6 DEF Same, Putter, Taker, Holder, Busy
  <2>. QED
    BY <1>1, <1>2, <1>6, <2>1, StillFrom
<1>7. CASE Try(p)
  <2>1. CASE Claim(p) /\ Goto(p, "publish")
    <3>1. pc'[p] = "publish" /\ pc[p] \in {"try", "once", "look"}
      BY <1>7, <2>1 DEF Try, Goto, Types
    <3>2. p \in Sender => pc[p] # "look"
      BY <3>1 DEF Roles, BufferedAssumption
    <3>. QED
      BY <1>3, <1>4, <2>1, <3>1, <3>2 DEF Claim, Proc
  <2>2. CASE ~Claim(p) \/ ~Goto(p, "publish")
    <3>1. UNCHANGED <<enq, deq, seq, cell, pos>> /\ pc[p] \in {"try", "once", "look"}
      BY <1>7, <2>2 DEF Try, ringVars
    <3>2. pc'[p] \in {"idle", "slow", "check"} /\ (pc'[p] = "check" => p \notin Sender)
      BY <1>7, <2>2 DEF Try, Goto, Types
    <3>3. Before(p)' => Before(p)
      BY <3>1, <3>2 DEF Before, BeforePut, Roles, BufferedAssumption
    <3>. QED
      BY <1>6, <3>1, <3>2, <3>3
  <2>. QED
    BY <2>1, <2>2
<1>8. CASE Retry(p)
  <2>1. CASE Claim(p) /\ Goto(p, "republish")
    <3>1. pc'[p] = "republish" /\ pc[p] = "retry"
      BY <1>8, <2>1 DEF Retry, Goto, Types
    <3>. QED
      BY <1>3, <1>4, <2>1, <3>1 DEF Claim, Proc
  <2>2. CASE ~Claim(p) \/ ~Goto(p, "republish")
    <3>1. UNCHANGED <<enq, deq, seq, cell, pos>> /\ pc[p] = "retry"
      BY <1>8, <2>2 DEF Retry, ringVars
    <3>2. pc'[p] \in {"register", "recheck"}
      BY <1>8, <2>2 DEF Retry, Goto, Types
    <3>3. Before(p)' => Before(p)
      BY <3>1, <3>2 DEF Before, BeforePut
    <3>. QED
      BY <1>6, <3>1, <3>2, <3>3
  <2>. QED
    BY <2>1, <2>2
<1>9. CASE Fetch(p)
  <2>1. p \in Sender /\ pc[p] = "fetch"
    BY <1>9 DEF Fetch, Roles, Handing
  <2>2. CASE ClaimDeq(p) /\ Goto(p, "deposit")
    <3>1. pc'[p] = "deposit"
      BY <2>2 DEF Goto, Types
    <3>. QED
      BY <1>5, <2>1, <2>2, <3>1
  <2>3. CASE ~ClaimDeq(p) \/ ~Goto(p, "deposit")
    <3>1. UNCHANGED <<enq, deq, seq, cell, pos>> /\ pc'[p] = "enqueue"
      BY <1>9, <2>3 DEF Fetch, ringVars, Goto, Types
    <3>2. Before(p)' => Before(p)
      BY <3>1 DEF Before, BeforePut
    <3>. QED
      BY <1>6, <2>1, <3>1, <3>2
  <2>. QED
    BY <2>2, <2>3
<1>. QED
  BY <1>7, <1>8, <1>9

\* ... a publication writes or reads ...
LEMMA PublishEffect ==
  ASSUME BufferedAssumption, Types, NEW p \in Proc, Published(p) \/ Republished(p)
  PROVE  Effect
<1>1. UNCHANGED <<handoff, sends, got>> /\ Publish(p)
  BY DEF Published, Republished
<1>2. Others(p) /\ pc'[p] = "gate" /\ pc[p] \in {"publish", "republish"}
  BY Moved DEF Published, Republished
<1>3. CASE p \in Sender
  <2>1. PublishEnq(p) /\ val' = val
    BY <1>1, <1>3 DEF Publish, BufferedAssumption
  <2>2. Wrote(p)
    BY <1>1, <1>2, <1>3, <2>1 DEF Wrote, Putter, Taker, Before, BeforePut, Busy,
       BufferedAssumption
  <2>. QED
    BY <2>2 DEF Effect
<1>4. CASE p \in Receiver
  <2>1. PublishDeq(p) /\ val' = [val EXCEPT ![p] = Taken(p)]
    BY <1>1, <1>4 DEF Publish, BufferedAssumption
  <2>2. Read(p)
    BY <1>1, <1>2, <1>4, <2>1 DEF Read, Putter, Taker, Holder, BufferedAssumption
  <2>. QED
    BY <2>2 DEF Effect
<1>. QED
  BY <1>3, <1>4 DEF Proc

\* ... a send begins ...
LEMMA SendEffect ==
  ASSUME BufferedAssumption, Types, NEW p \in Proc, Send(p)
  PROVE  Effect
<1>1. p \in Sender /\ pc[p] = "idle" /\ pc'[p] \in {"check", "probe"}
  BY DEF Send, Goto, Types
<1>2. Others(p)
  BY Moved DEF Send
<1>3. Begun(p)
  BY <1>1, <1>2 DEF Send, Begun, ringVars, Putter, Taker, BufferedAssumption
<1>. QED
  BY <1>3 DEF Effect

\* ... a deposit hands over ...
LEMMA DepositEffect ==
  ASSUME BufferedAssumption, Types, Roles, Hands, NEW p \in Proc, Deposit(p)
  PROVE  Effect
<1>1. pc[p] = "deposit" /\ pc'[p] = "enqueue" /\ p \in Sender
  BY DEF Deposit, Goto, Types, Roles, Handing
<1>2. Others(p)
  BY Moved DEF Deposit
<1>3. hand[p] \in Green /\ handoff[hand[p]] = NoValue
  BY <1>1 DEF Hands, Handing, HandOk, Types
<1>4. HandedOver(p)
  BY <1>1, <1>2, <1>3 DEF Deposit, HandedOver, Putter, Taker, Before, BeforePut, Busy,
     BufferedAssumption
<1>. QED
  BY <1>4 DEF Effect

\* ... the end of wake_parked returns ...
LEMMA ReturnEffect ==
  ASSUME BufferedAssumption, Types, NEW p \in Proc, Others(p),
         pc[p] \in {"gate", "wake"}, pc'[p] = "idle", Deliver(Handed(p)),
         UNCHANGED <<enq, deq, seq, cell, pos, val, handoff, sends>>
  PROVE  Effect
<1>1. CASE p \in Receiver
  <2>1. Returned(p)
    BY <1>1 DEF Returned, Handed, Holder, Putter, Taker, BufferedAssumption
  <2>. QED
    BY <2>1 DEF Effect
<1>2. CASE p \notin Receiver
  <2>1. got' = got
    BY <1>2, DeliverNothing DEF Handed
  <2>2. Same(p)
    BY <1>2 DEF Same, Putter, Taker, Before, BeforePut, Holder, Busy
  <2>. QED
    BY <2>1, <2>2, StillFrom
<1>. QED
  BY <1>1, <1>2

\* ... and take_handoff receives.
LEMMA TakeHandoffEffect ==
  ASSUME BufferedAssumption, Types, Roles, NEW p \in Proc, TakeHandoff(p)
  PROVE  Effect
<1>1. Others(p) /\ pc[p] = "resumed" /\ pc'[p] \in {"idle", "try"} /\ p \in Receiver
  BY Moved DEF TakeHandoff, Roles
<1>2. Same(p)
  BY <1>1 DEF Same, Putter, Taker, Before, Holder, Busy, BufferedAssumption
<1>3. UNCHANGED <<enq, deq, seq, cell, pos, val, sends>>
  BY DEF TakeHandoff, ringVars
<1>4. CASE UNCHANGED <<got, handoff>>
  BY <1>1, <1>2, <1>3, <1>4, StillFrom
<1>5. CASE /\ p \in Green /\ handoff[p] # NoValue /\ Deliver({handoff[p]})
           /\ handoff' = [handoff EXCEPT ![p] = NoValue]
  <2>1. Received(p)
    BY <1>1, <1>2, <1>3, <1>5 DEF Received, Others
  <2>. QED
    BY <2>1 DEF Effect
<1>. QED
  BY <1>4, <1>5 DEF TakeHandoff

\* Every step of the channel has one of the effects.
LEMMA StepEffect ==
  ASSUME BufferedAssumption, Control, [Next]_vars
  PROVE  Effect
<1>. USE DEF Control
<1>1. ASSUME NEW p \in Proc, Unmoved(p) PROVE Effect
  BY <1>1, UnmovedStill
<1>2. ASSUME NEW p \in Proc, Send(p) PROVE Effect
  BY <1>2, SendEffect
<1>3. ASSUME NEW p \in Proc, Try(p) \/ Retry(p) \/ Fetch(p) PROVE Effect
  BY <1>3, ClaimEffect
<1>4. ASSUME NEW p \in Proc, Published(p) \/ Republished(p) PROVE Effect
  BY <1>4, PublishEffect
<1>5. ASSUME NEW p \in Proc, Deposit(p) PROVE Effect
  BY <1>5, DepositEffect
<1>6. ASSUME NEW p \in Proc, TakeHandoff(p) PROVE Effect
  BY <1>6, TakeHandoffEffect
<1>7. ASSUME NEW p \in Proc, GateShut(p) PROVE Effect
  <2>1. /\ pc[p] = "gate" /\ Deliver(Handed(p)) /\ Goto(p, "idle")
        /\ UNCHANGED <<enq, deq, seq, cell, pos, val, handoff, sends>>
    BY <1>7 DEF GateShut, ringVars
  <2>2. pc'[p] = "idle" /\ Others(p)
    BY <2>1, Moved
  <2>. QED
    BY <2>1, <2>2, ReturnEffect
<1>8. ASSUME NEW p \in Proc, WakeRole(p) PROVE Effect
  <2>1. /\ Deliver(Handed(p))
        /\ UNCHANGED <<enq, deq, seq, cell, pos, val, handoff, sends>>
    BY <1>8 DEF WakeRole, ringVars
  <2>2. pc[p] = "wake" /\ pc'[p] = "idle"
    BY <1>8, RoleWoken
  <2>3. ASSUME NEW q \in Proc \ {p} PROVE Same(q)
    <3>1. CASE pc'[q] = pc[q]
      BY <3>1, SameHere
    <3>2. CASE pc[q] = "wait" /\ pc'[q] = "relock"
      BY <3>2 DEF Same, Putter, Taker, Before, BeforePut, Holder, Busy
    <3>. QED
      BY <1>8, <3>1, <3>2, RoleWoken
  <2>. QED
    BY <2>1, <2>2, <2>3, ReturnEffect DEF Others
<1>9. ASSUME NEW p \in Proc, NEW t \in Green, WakeHandoff(p, t) PROVE Effect
  <2>1. UNCHANGED <<enq, deq, seq, cell, pos, val, handoff, sends, got>>
    BY <1>9 DEF WakeHandoff, ringVars
  <2>2. pc[p] = "wake" /\ pc'[p] \in {"fetch", "gate"} /\ Others(p) /\ aim[p] = "recv"
    BY <1>9, Moved DEF WakeHandoff
  <2>3. p \in Sender
    BY <2>2 DEF Roles, Proc
  <2>4. Same(p)
    BY <2>2, <2>3 DEF Same, Putter, Taker, Before, BeforePut, Holder, Busy, BufferedAssumption
  <2>. QED
    BY <2>1, <2>2, <2>4, StillFrom
<1>10. CASE Close
  <2>1. UNCHANGED <<enq, deq, seq, cell, pos, val, handoff, sends, got>>
    BY <1>10 DEF Close, ringVars
  <2>2. ASSUME NEW q \in Proc PROVE Same(q)
    <3>1. CASE pc'[q] = pc[q]
      BY <3>1, SameHere
    <3>2. CASE pc[q] = "wait" /\ pc'[q] = "relock"
      BY <3>2 DEF Same, Putter, Taker, Before, BeforePut, Holder, Busy
    <3>. QED
      BY <1>10, <3>1, <3>2 DEF Close
  <2>. QED
    BY <2>1, <2>2 DEF Effect, Still
<1>11. ASSUME NEW t \in Green, ParkElsewhere(t) \/ ResumeElsewhere(t) \/ StrayWake(t)
       PROVE Effect
  <2>1. UNCHANGED <<enq, deq, seq, cell, pos, val, handoff, sends, got>>
    BY <1>11 DEF ParkElsewhere, ResumeElsewhere, StrayWake, ringVars
  <2>2. ASSUME NEW q \in Proc PROVE Same(q)
    <3>1. CASE pc'[q] = pc[q]
      BY <3>1, SameHere
    <3>2. CASE pc[q] \in {"idle", "away"} /\ pc'[q] \in {"idle", "away"}
      BY <3>2 DEF Same, Putter, Taker, Before, BeforePut, Holder, Busy
    <3>. QED
      BY <1>11, <3>1, <3>2 DEF ParkElsewhere, ResumeElsewhere, StrayWake, Goto, Types
  <2>. QED
    BY <2>1, <2>2 DEF Effect, Still
<1>12. CASE UNCHANGED vars
  <2>1. UNCHANGED <<enq, deq, seq, cell, pos, val, handoff, sends, got>> /\ pc' = pc
    BY <1>12 DEF vars, ringVars
  <2>2. \A q \in Proc : Same(q)
    BY <2>1, SameHere
  <2>. QED
    BY <2>1, <2>2 DEF Effect, Still
<1>. QED
  BY <1>1, <1>2, <1>3, <1>4, <1>5, <1>6, <1>7, <1>8, <1>9, <1>10, <1>11, <1>12 DEF Next, Step,
     Unmoved

-----------------------------------------------------------------------------
(* The ring                                                                *)

\* Division with remainder ...
LEMMA ModFact ==
  ASSUME NEW n \in Nat, n >= 2, NEW i \in Nat
  PROVE  (i % n) \in 0..(n - 1) /\ i \div n \in Nat /\ i = n * (i \div n) + (i % n)
OBVIOUS

\* ... has one remainder ...
LEMMA ModUnique ==
  ASSUME NEW n \in Nat, n >= 2, NEW q \in Nat, NEW p \in Nat,
         NEW r \in 0..(n - 1), NEW s \in 0..(n - 1), n * q + r = n * p + s
  PROVE  r = s
<1>1. n * (q - p) = s - r
  OBVIOUS
<1>2. CASE q > p
  <2>1. n * (q - p) >= n
    BY <1>2
  <2>. QED
    BY <1>1, <2>1
<1>3. CASE q < p
  <2>1. n * (p - q) >= n
    BY <1>3
  <2>2. n * (p - q) = r - s
    BY <1>1
  <2>. QED
    BY <2>1, <2>2
<1>. QED
  BY <1>1, <1>2, <1>3

\* ... which a lap does not change ...
LEMMA ModLap ==
  ASSUME NEW n \in Nat, n >= 2, NEW i \in Nat
  PROVE  ((i + n) % n) = (i % n)
<1>. DEFINE q == i \div n
            r == (i % n)
            p == (i + n) \div n
            s == ((i + n) % n)
<1>1. q \in Nat /\ r \in 0..(n - 1) /\ i = n * q + r
  BY ModFact
<1>2. p \in Nat /\ s \in 0..(n - 1) /\ i + n = n * p + s
  <2>1. i + n \in Nat
    OBVIOUS
  <2>. QED
    BY <2>1, ModFact
<1>. HIDE DEF p, q, r, s
<1>3. i + n = n * (q + 1) + r /\ q + 1 \in Nat
  BY <1>1
<1>4. r = s
  BY <1>1, <1>2, <1>3, ModUnique
<1>. QED
  BY <1>4 DEF r, s

\* ... and which two positions less than a lap apart do not share.
LEMMA ModApart ==
  ASSUME NEW n \in Nat, n >= 2, NEW i \in Nat, NEW j \in Nat, i < j, j < i + n
  PROVE  (i % n) # (j % n)
<1>1. i = n * (i \div n) + (i % n) /\ j = n * (j \div n) + (j % n)
  BY ModFact
<1>2. SUFFICES ASSUME (i % n) = (j % n) PROVE FALSE
  OBVIOUS
<1>. DEFINE a == i \div n
            b == j \div n
<1>3. a \in Nat /\ b \in Nat
  BY ModFact
<1>4. j - i = n * b - n * a
  BY <1>1, <1>2, ModFact
<1>5. j - i = n * (b - a)
  BY <1>3, <1>4
<1>. HIDE DEF a, b
<1>6. CASE b - a >= 1
  <2>1. n * (b - a) >= n
    BY <1>6, <1>3
  <2>. QED
    BY <2>1, <1>5
<1>7. CASE b - a <= 0
  <2>1. n * (b - a) <= 0
    BY <1>7, <1>3
  <2>. QED
    BY <2>1, <1>5
<1>. QED
  BY <1>3, <1>6, <1>7

\* A position and the one a lap later share their slot ...
LEMMA SlotLap ==
  ASSUME SlotsFit, NEW k \in Nat
  PROVE  Slot(k + SlotCount) = Slot(k)
BY ModLap DEF SlotsFit, Slot

\* ... and two positions less than a lap apart never do.
LEMMA SlotApart ==
  ASSUME SlotsFit, NEW j \in Nat, NEW k \in Nat, j # k,
         j < k + SlotCount, k < j + SlotCount
  PROVE  Slot(j) # Slot(k)
<1>1. CASE j < k
  BY <1>1, ModApart DEF SlotsFit, Slot
<1>2. CASE k < j
  BY <1>2, ModApart DEF SlotsFit, Slot
<1>. QED
  BY <1>1, <1>2

\* The ring's part of the invariant.
Ring == Positions /\ Slots /\ Cells

\* A sender's value is that of its latest send, and a receiver that has read
\* has a value.
Worth ==
  /\ \A p \in Proc : Busy(p) => sends[p] > 0 /\ val[p] = <<p, sends[p]>>
  /\ \A p \in Proc : Holder(p) => val[p] \in Value

\* try_enqueue succeeds only below the capacity, and on a slot that was freed:
\* its sequence check is enough in a ring with no spare slot, and its count
\* is in one that has.
LEMMA RoomFact ==
  ASSUME BufferedAssumption, SlotsFit, Types, Positions, Slots, Room
  PROVE  enq < deq + Capacity /\ seq[Slot(enq)] = enq /\ ~Taking(enq)
<1>1. enq \in Nat /\ deq \in Nat /\ deq <= enq /\ enq <= deq + Capacity
  BY DEF Types, Positions
<1>2. seq[Slot(enq)] = enq
  BY DEF Room
<1>3. enq # deq + SlotCount
  <2>1. SUFFICES ASSUME enq = deq + SlotCount PROVE FALSE
    OBVIOUS
  <2>2. Slot(enq) = Slot(deq)
    BY <1>1, <2>1, SlotLap
  <2>3. deq \in deq..(enq - 1)
    BY <1>1, <2>1 DEF SlotsFit
  <2>4. seq[Slot(deq)] = deq \/ seq[Slot(deq)] = deq + 1
    BY <2>3 DEF Slots
  <2>. QED
    BY <1>1, <1>2, <2>1, <2>2, <2>4 DEF SlotsFit
<1>4. enq < deq + SlotCount
  BY <1>1, <1>3 DEF SlotsFit, BufferedAssumption
<1>5. enq < deq + Capacity
  <2>1. CASE Exact
    BY <1>4, <2>1 DEF Exact
  <2>2. CASE ~Exact
    BY <1>1, <2>2 DEF Room, BufferedAssumption
  <2>. QED
    BY <2>1, <2>2
<1>6. ~Taking(enq)
  <2>1. enq \in enq..(deq + SlotCount - 1)
    BY <1>1, <1>4 DEF SlotsFit
  <2>2. seq[Slot(enq)] = IF Taking(enq) THEN enq + 1 - SlotCount ELSE enq
    BY <2>1 DEF Slots
  <2>. QED
    BY <1>1, <1>2, <2>2 DEF SlotsFit
<1>. QED
  BY <1>2, <1>5, <1>6

\* try_dequeue succeeds only on a published head.
LEMMA HeadFact ==
  ASSUME BufferedAssumption, SlotsFit, Types, Positions, Slots, HeadReady
  PROVE  deq < enq /\ seq[Slot(deq)] = deq + 1 /\ ~Putting(deq)
<1>1. enq \in Nat /\ deq \in Nat /\ deq <= enq /\ seq[Slot(deq)] = deq + 1
  BY DEF Types, Positions, HeadReady
<1>2. enq # deq
  <2>1. SUFFICES ASSUME enq = deq PROVE FALSE
    OBVIOUS
  <2>2. deq \in enq..(deq + SlotCount - 1)
    BY <1>1, <2>1 DEF SlotsFit
  <2>3. seq[Slot(deq)] = IF Taking(deq) THEN deq + 1 - SlotCount ELSE deq
    BY <2>2 DEF Slots
  <2>. QED
    BY <1>1, <2>3 DEF SlotsFit
<1>3. deq \in deq..(enq - 1)
  BY <1>1, <1>2
<1>4. seq[Slot(deq)] = IF Putting(deq) THEN deq ELSE deq + 1
  BY <1>3 DEF Slots
<1>. QED
  BY <1>1, <1>2, <1>4

\* A step that leaves the ring and its users alone keeps the ring right.
LEMMA RingStill ==
  ASSUME SlotsFit, Types, Ring, UNCHANGED <<enq, deq, seq, cell, pos>>,
         \A q \in Proc : (Putter(q)' <=> Putter(q)) /\ (Taker(q)' <=> Taker(q))
  PROVE  Ring'
<1>1. \A k : (Putting(k)' <=> Putting(k)) /\ (Taking(k)' <=> Taking(k))
  BY DEF Putting, Taking
<1>2. Positions'
  BY DEF Ring, Positions
<1>3. Slots'
  BY <1>1 DEF Ring, Slots
<1>4. Cells'
  BY <1>1 DEF Ring, Cells, Taken
<1>. QED
  BY <1>2, <1>3, <1>4 DEF Ring

\* A claim of the tail keeps the ring right ...
LEMMA RingPut ==
  ASSUME BufferedAssumption, SlotsFit, Types, Ring, NEW p \in Proc, Put(p)
  PROVE  Ring'
<1>1. /\ enq' = enq + 1 /\ pos' = [pos EXCEPT ![p] = enq] /\ UNCHANGED <<deq, seq, cell>>
      /\ Room /\ ~Putter(p) /\ Putter(p)' /\ ~Taker(p) /\ ~Taker(p)'
      /\ \A q \in Proc \ {p} : (Putter(q)' <=> Putter(q)) /\ (Taker(q)' <=> Taker(q))
  BY DEF Put, ClaimEnq, Others, Same
<1>2. enq < deq + Capacity /\ seq[Slot(enq)] = enq /\ ~Taking(enq)
  BY <1>1, RoomFact DEF Ring
<1>3. /\ enq \in Nat /\ deq \in Nat /\ deq <= enq /\ pos \in [Proc -> Nat]
      /\ SlotCount \in Nat /\ Capacity \in Nat /\ Capacity <= SlotCount
  BY DEF Types, Ring, Positions, SlotsFit, BufferedAssumption
<1>4. pos'[p] = enq /\ \A q \in Proc \ {p} : pos'[q] = pos[q]
  BY <1>1, <1>3
<1>5. \A k \in Nat : (Putting(k)' <=> Putting(k) \/ k = enq) /\ (Taking(k)' <=> Taking(k))
  BY <1>1, <1>4 DEF Putting, Taking
<1>6. Positions'
  <2>1. deq' <= enq' /\ enq' <= deq' + Capacity
    BY <1>1, <1>2, <1>3
  <2>2. \A q \in Proc : Putter(q)' => deq' <= pos'[q] /\ pos'[q] < enq'
    BY <1>1, <1>3, <1>4 DEF Ring, Positions
  <2>3. \A q \in Proc : Taker(q)' => pos'[q] < deq' /\ enq' <= pos'[q] + SlotCount
    <3>1. SUFFICES ASSUME NEW q \in Proc, Taker(q)'
                   PROVE  pos'[q] < deq' /\ enq' <= pos'[q] + SlotCount
      OBVIOUS
    <3>2. q # p /\ Taker(q) /\ pos'[q] = pos[q]
      BY <1>1, <1>4, <3>1
    <3>3. pos[q] < deq /\ enq <= pos[q] + SlotCount /\ pos[q] + SlotCount # enq
      BY <1>2, <3>2 DEF Ring, Positions, Taking
    <3>. QED
      BY <1>1, <1>3, <3>2, <3>3
  <2>4. \A q, r \in Proc : ((Putter(q)' /\ Putter(r)') \/ (Taker(q)' /\ Taker(r)'))
                             /\ pos'[q] = pos'[r] => q = r
    <3>1. \A q \in Proc \ {p} : Putter(q)' => pos'[q] < enq
      BY <1>1, <1>4 DEF Ring, Positions
    <3>. QED
      BY <1>1, <1>3, <1>4, <3>1 DEF Ring, Positions
  <2>. QED
    BY <2>1, <2>2, <2>3, <2>4 DEF Positions
<1>7. Slots'
  <2>1. ASSUME NEW k \in deq..enq
        PROVE  seq'[Slot(k)] = IF Putting(k)' THEN k ELSE k + 1
    <3>1. CASE k = enq
      BY <1>1, <1>2, <1>3, <1>5, <3>1
    <3>2. CASE k # enq
      <4>1. k \in deq..(enq - 1) /\ k \in Nat
        BY <1>3, <3>2
      <4>. QED
        BY <1>1, <1>5, <3>2, <4>1 DEF Ring, Slots
    <3>. QED
      BY <3>1, <3>2
  <2>2. ASSUME NEW k \in (enq + 1)..(deq + SlotCount - 1)
        PROVE  seq'[Slot(k)] = IF Taking(k)' THEN k + 1 - SlotCount ELSE k
    <3>1. k \in enq..(deq + SlotCount - 1) /\ k \in Nat
      BY <1>3
    <3>. QED
      BY <1>1, <1>5, <3>1 DEF Ring, Slots
  <2>3. enq' - 1 = enq
    BY <1>1, <1>3
  <2>. QED
    BY <1>1, <2>1, <2>2, <2>3 DEF Slots
<1>8. Cells'
  <2>1. ASSUME NEW k \in deq..enq, ~Putting(k)' PROVE cell'[Slot(k)] \in Value
    <3>1. k \in Nat /\ k # enq /\ ~Putting(k)
      BY <1>3, <1>5, <2>1
    <3>2. k \in deq..(enq - 1)
      BY <1>3, <3>1
    <3>. QED
      BY <1>1, <3>1, <3>2 DEF Ring, Cells
  <2>2. enq' - 1 = enq
    BY <1>1, <1>3
  <2>3. \A q \in Proc : Taker(q)' => Taken(q)' \in Value
    BY <1>1, <1>4 DEF Ring, Cells, Taken
  <2>. QED
    BY <1>1, <2>1, <2>2, <2>3 DEF Cells
<1>. QED
  BY <1>6, <1>7, <1>8 DEF Ring

\* ... as does one of the head ...
LEMMA RingTook ==
  ASSUME BufferedAssumption, SlotsFit, Types, Ring, NEW p \in Proc, Took(p)
  PROVE  Ring'
<1>1. /\ deq' = deq + 1 /\ pos' = [pos EXCEPT ![p] = deq] /\ UNCHANGED <<enq, seq, cell>>
      /\ HeadReady /\ ~Putter(p) /\ ~Putter(p)' /\ ~Taker(p) /\ Taker(p)'
      /\ \A q \in Proc \ {p} : (Putter(q)' <=> Putter(q)) /\ (Taker(q)' <=> Taker(q))
  BY DEF Took, ClaimDeq, Others, Same
<1>2. deq < enq /\ seq[Slot(deq)] = deq + 1 /\ ~Putting(deq)
  BY <1>1, HeadFact DEF Ring
<1>3. /\ enq \in Nat /\ deq \in Nat /\ enq <= deq + Capacity /\ pos \in [Proc -> Nat]
      /\ SlotCount \in Nat /\ SlotCount >= 2 /\ Capacity \in Nat /\ Capacity <= SlotCount
  BY DEF Types, Ring, Positions, SlotsFit, BufferedAssumption
<1>4. pos'[p] = deq /\ \A q \in Proc \ {p} : pos'[q] = pos[q]
  BY <1>1, <1>3
<1>5. \A k \in Nat : /\ Putting(k)' <=> Putting(k)
                     /\ Taking(k)' <=> Taking(k) \/ k = deq + SlotCount
  BY <1>1, <1>4 DEF Putting, Taking
<1>6. Positions'
  <2>1. deq' <= enq' /\ enq' <= deq' + Capacity
    BY <1>1, <1>2, <1>3
  <2>2. \A q \in Proc : Putter(q)' => deq' <= pos'[q] /\ pos'[q] < enq'
    <3>1. SUFFICES ASSUME NEW q \in Proc, Putter(q)' PROVE deq' <= pos'[q] /\ pos'[q] < enq'
      OBVIOUS
    <3>2. q # p /\ Putter(q) /\ pos'[q] = pos[q]
      BY <1>1, <1>4, <3>1
    <3>3. deq <= pos[q] /\ pos[q] < enq /\ pos[q] # deq
      BY <1>2, <3>2 DEF Ring, Positions, Putting
    <3>. QED
      BY <1>1, <1>3, <3>2, <3>3
  <2>3. \A q \in Proc : Taker(q)' => pos'[q] < deq' /\ enq' <= pos'[q] + SlotCount
    BY <1>1, <1>3, <1>4 DEF Ring, Positions
  <2>4. \A q, r \in Proc : ((Putter(q)' /\ Putter(r)') \/ (Taker(q)' /\ Taker(r)'))
                             /\ pos'[q] = pos'[r] => q = r
    <3>1. \A q \in Proc \ {p} : Taker(q)' => pos'[q] < deq
      BY <1>1, <1>4 DEF Ring, Positions
    <3>. QED
      BY <1>1, <1>3, <1>4, <3>1 DEF Ring, Positions
  <2>. QED
    BY <2>1, <2>2, <2>3, <2>4 DEF Positions
<1>7. Slots'
  <2>1. ASSUME NEW k \in (deq + 1)..(enq - 1)
        PROVE  seq'[Slot(k)] = IF Putting(k)' THEN k ELSE k + 1
    <3>1. k \in deq..(enq - 1) /\ k \in Nat
      BY <1>3
    <3>. QED
      BY <1>1, <1>5, <3>1 DEF Ring, Slots
  <2>2. ASSUME NEW k \in enq..(deq + SlotCount)
        PROVE  seq'[Slot(k)] = IF Taking(k)' THEN k + 1 - SlotCount ELSE k
    <3>1. CASE k = deq + SlotCount
      <4>1. Slot(k) = Slot(deq)
        BY <1>3, <3>1, SlotLap
      <4>2. Taking(k)'
        BY <1>3, <1>5, <3>1
      <4>. QED
        BY <1>1, <1>2, <1>3, <3>1, <4>1, <4>2
    <3>2. CASE k # deq + SlotCount
      <4>1. k \in enq..(deq + SlotCount - 1) /\ k \in Nat
        BY <1>3, <3>2
      <4>. QED
        BY <1>1, <1>5, <3>2, <4>1 DEF Ring, Slots
    <3>. QED
      BY <3>1, <3>2
  <2>3. deq' + SlotCount - 1 = deq + SlotCount
    BY <1>1, <1>3
  <2>. QED
    BY <1>1, <2>1, <2>2, <2>3 DEF Slots
<1>8. Cells'
  <2>1. ASSUME NEW k \in (deq + 1)..(enq - 1), ~Putting(k)' PROVE cell'[Slot(k)] \in Value
    <3>1. k \in Nat /\ k \in deq..(enq - 1)
      BY <1>3
    <3>. QED
      BY <1>1, <1>5, <2>1, <3>1 DEF Ring, Cells
  <2>2. ASSUME NEW q \in Proc, Taker(q)' PROVE Taken(q)' \in Value
    <3>1. CASE q = p
      <4>1. deq \in deq..(enq - 1)
        BY <1>2, <1>3
      <4>2. cell[Slot(deq)] \in Value
        BY <1>2, <4>1 DEF Ring, Cells
      <4>. QED
        BY <1>1, <1>4, <3>1, <4>2 DEF Taken
    <3>2. CASE q # p
      BY <1>1, <1>4, <2>2, <3>2 DEF Ring, Cells, Taken
    <3>. QED
      BY <3>1, <3>2
  <2>. QED
    BY <1>1, <2>1, <2>2 DEF Cells
<1>. QED
  BY <1>6, <1>7, <1>8 DEF Ring

\* ... a publication ...
LEMMA RingWrote ==
  ASSUME BufferedAssumption, SlotsFit, Types, Ring, Worth, NEW p \in Proc, Wrote(p)
  PROVE  Ring'
<1>. DEFINE k0 == pos[p]
<1>1. /\ cell' = [cell EXCEPT ![Slot(k0)] = val[p]] /\ seq' = [seq EXCEPT ![Slot(k0)] = k0 + 1]
      /\ pos' = [pos EXCEPT ![p] = 0] /\ enq' = enq /\ deq' = deq
      /\ Putter(p) /\ ~Putter(p)' /\ ~Taker(p) /\ ~Taker(p)'
      /\ \A q \in Proc \ {p} : (Putter(q)' <=> Putter(q)) /\ (Taker(q)' <=> Taker(q))
  BY DEF Wrote, PublishEnq, Others, Same
<1>2. /\ enq \in Nat /\ deq \in Nat /\ deq <= enq /\ enq <= deq + SlotCount
      /\ SlotCount \in Nat /\ pos \in [Proc -> Nat]
      /\ k0 \in Nat /\ deq <= k0 /\ k0 < enq
  BY <1>1 DEF Types, Ring, Positions, SlotsFit, BufferedAssumption
<1>3. val[p] \in Value
  <2>1. p \in Sender /\ sends[p] > 0 /\ sends[p] \in 0..MaxSend /\ val[p] = <<p, sends[p]>>
    BY DEF Wrote, Worth, Types
  <2>2. sends[p] \in 1..MaxSend
    BY <2>1 DEF BufferedAssumption
  <2>. QED
    BY <2>1, <2>2 DEF Value
<1>4. \A q \in Proc \ {p} : pos'[q] = pos[q]
  BY <1>1, <1>2
<1>5. ASSUME NEW k \in Nat
      PROVE (Putting(k)' <=> Putting(k) /\ k # k0) /\ (Taking(k)' <=> Taking(k))
  <2>1. \A q \in Proc : Putter(q) /\ pos[q] = k0 => q = p
    BY <1>1 DEF Ring, Positions
  <2>. QED
    BY <1>1, <1>4, <2>1 DEF Putting, Taking
<1>6. ASSUME NEW k \in Nat, k # k0, deq <= k, k < deq + SlotCount
      PROVE  seq'[Slot(k)] = seq[Slot(k)] /\ cell'[Slot(k)] = cell[Slot(k)]
  <2>1. Slot(k) # Slot(k0)
    BY <1>2, <1>6, SlotApart
  <2>2. Slot(k) \in 0..(SlotCount - 1)
    BY SlotType
  <2>. QED
    BY <1>1, <2>1, <2>2 DEF Types
<1>7. seq'[Slot(k0)] = k0 + 1 /\ cell'[Slot(k0)] = val[p]
  <2>1. Slot(k0) \in 0..(SlotCount - 1)
    BY <1>2, SlotType
  <2>. QED
    BY <1>1, <2>1 DEF Types
<1>. HIDE DEF k0
<1>8. Positions'
  BY <1>1, <1>4 DEF Ring, Positions
<1>9. Slots'
  <2>1. ASSUME NEW k \in deq..(enq - 1)
        PROVE  seq'[Slot(k)] = IF Putting(k)' THEN k ELSE k + 1
    <3>1. k \in Nat /\ k < deq + SlotCount
      BY <1>2
    <3>2. CASE k = k0
      BY <1>5, <1>7, <3>1, <3>2
    <3>3. CASE k # k0
      BY <1>5, <1>6, <3>1, <3>3 DEF Ring, Slots
    <3>. QED
      BY <3>2, <3>3
  <2>2. ASSUME NEW k \in enq..(deq + SlotCount - 1)
        PROVE  seq'[Slot(k)] = IF Taking(k)' THEN k + 1 - SlotCount ELSE k
    <3>1. k \in Nat /\ k # k0 /\ deq <= k /\ k < deq + SlotCount
      BY <1>2
    <3>. QED
      BY <1>5, <1>6, <3>1 DEF Ring, Slots
  <2>. QED
    BY <1>1, <2>1, <2>2 DEF Slots
<1>10. Cells'
  <2>1. ASSUME NEW k \in deq..(enq - 1), ~Putting(k)' PROVE cell'[Slot(k)] \in Value
    <3>1. k \in Nat /\ k < deq + SlotCount
      BY <1>2
    <3>2. CASE k = k0
      BY <1>3, <1>7, <3>2
    <3>3. CASE k # k0
      BY <1>5, <1>6, <2>1, <3>1, <3>3 DEF Ring, Cells
    <3>. QED
      BY <3>2, <3>3
  <2>2. ASSUME NEW q \in Proc, Taker(q)' PROVE Taken(q)' \in Value
    <3>1. q # p /\ Taker(q) /\ pos'[q] = pos[q] /\ pos[q] \in Nat
      BY <1>1, <1>2, <1>4, <2>2
    <3>2. pos[q] < deq /\ enq <= pos[q] + SlotCount
      BY <3>1 DEF Ring, Positions
    <3>3. Slot(pos[q]) # Slot(k0)
      BY <1>2, <3>1, <3>2, SlotApart
    <3>4. cell'[Slot(pos[q])] = cell[Slot(pos[q])]
      BY <1>1, <3>1, <3>3, SlotType DEF Types
    <3>. QED
      BY <3>1, <3>4 DEF Ring, Cells, Taken
  <2>. QED
    BY <1>1, <2>1, <2>2 DEF Cells
<1>. QED
  BY <1>8, <1>9, <1>10 DEF Ring

\* ... and the release of a slot.
LEMMA RingRead ==
  ASSUME BufferedAssumption, SlotsFit, Types, Ring, NEW p \in Proc, Read(p) \/ HandedOver(p)
  PROVE  Ring'
<1>. DEFINE k0 == pos[p]
            k1 == pos[p] + SlotCount
<1>1. /\ seq' = [seq EXCEPT ![Slot(k0)] = k1] /\ cell' = cell
      /\ pos' = [pos EXCEPT ![p] = 0] /\ enq' = enq /\ deq' = deq
      /\ ~Putter(p) /\ ~Putter(p)' /\ Taker(p) /\ ~Taker(p)'
      /\ \A q \in Proc \ {p} : (Putter(q)' <=> Putter(q)) /\ (Taker(q)' <=> Taker(q))
  BY DEF Read, HandedOver, PublishDeq, Others, Same
<1>2. /\ enq \in Nat /\ deq \in Nat /\ deq <= enq /\ enq <= deq + SlotCount
      /\ SlotCount \in Nat /\ pos \in [Proc -> Nat]
      /\ k0 \in Nat /\ k1 \in Nat /\ k1 = k0 + SlotCount /\ enq <= k1 /\ k1 < deq + SlotCount
  BY <1>1 DEF Types, Ring, Positions, SlotsFit, BufferedAssumption
<1>3. Slot(k1) = Slot(k0)
  BY <1>2, SlotLap
<1>4. \A q \in Proc \ {p} : pos'[q] = pos[q]
  BY <1>1, <1>2
<1>5. ASSUME NEW k \in Nat
      PROVE (Putting(k)' <=> Putting(k)) /\ (Taking(k)' <=> Taking(k) /\ k # k1)
  <2>1. \A q \in Proc : Taker(q) /\ pos[q] + SlotCount = k1 => q = p
    <3>1. \A q \in Proc : pos[q] + SlotCount = k1 => pos[q] = pos[p]
      BY <1>2
    <3>. QED
      BY <1>1, <3>1 DEF Ring, Positions
  <2>. QED
    BY <1>1, <1>2, <1>4, <2>1 DEF Putting, Taking
<1>6. ASSUME NEW k \in Nat, k # k1, deq <= k, k < deq + SlotCount
      PROVE  seq'[Slot(k)] = seq[Slot(k)]
  <2>1. Slot(k) # Slot(k1)
    BY <1>2, <1>6, SlotApart
  <2>2. Slot(k) \in 0..(SlotCount - 1)
    BY SlotType
  <2>. QED
    BY <1>1, <1>3, <2>1, <2>2 DEF Types
<1>7. seq'[Slot(k1)] = k1
  <2>1. Slot(k1) \in 0..(SlotCount - 1)
    BY <1>2, SlotType
  <2>. QED
    BY <1>1, <1>3, <2>1 DEF Types
<1>. HIDE DEF k0, k1
<1>8. Positions'
  BY <1>1, <1>4 DEF Ring, Positions
<1>9. Slots'
  <2>1. ASSUME NEW k \in deq..(enq - 1)
        PROVE  seq'[Slot(k)] = IF Putting(k)' THEN k ELSE k + 1
    <3>1. k \in Nat /\ k # k1 /\ deq <= k /\ k < deq + SlotCount
      BY <1>2
    <3>. QED
      BY <1>5, <1>6, <3>1 DEF Ring, Slots
  <2>2. ASSUME NEW k \in enq..(deq + SlotCount - 1)
        PROVE  seq'[Slot(k)] = IF Taking(k)' THEN k + 1 - SlotCount ELSE k
    <3>1. k \in Nat /\ deq <= k /\ k < deq + SlotCount
      BY <1>2
    <3>2. CASE k = k1
      BY <1>5, <1>7, <3>1, <3>2
    <3>3. CASE k # k1
      BY <1>5, <1>6, <3>1, <3>3 DEF Ring, Slots
    <3>. QED
      BY <3>2, <3>3
  <2>. QED
    BY <1>1, <2>1, <2>2 DEF Slots
<1>10. Cells'
  <2>1. ASSUME NEW k \in deq..(enq - 1), ~Putting(k)' PROVE cell'[Slot(k)] \in Value
    <3>1. k \in Nat
      BY <1>2
    <3>. QED
      BY <1>1, <1>5, <2>1, <3>1 DEF Ring, Cells
  <2>2. \A q \in Proc : Taker(q)' => Taken(q)' \in Value
    BY <1>1, <1>4 DEF Ring, Cells, Taken
  <2>. QED
    BY <1>1, <2>1, <2>2 DEF Cells
<1>. QED
  BY <1>8, <1>9, <1>10 DEF Ring

\* Every effect keeps the ring right ...
LEMMA RingKept ==
  ASSUME BufferedAssumption, SlotsFit, Types, Ring, Worth, Effect
  PROVE  Ring'
<1>1. CASE Still
  BY <1>1, RingStill DEF Still, Same
<1>2. ASSUME NEW p \in Proc, Begun(p) \/ Returned(p) \/ Received(p) PROVE Ring'
  <2>1. UNCHANGED <<enq, deq, seq, cell, pos>>
    BY <1>2 DEF Begun, Returned, Received
  <2>2. \A q \in Proc : (Putter(q)' <=> Putter(q)) /\ (Taker(q)' <=> Taker(q))
    BY <1>2 DEF Begun, Returned, Received, Others, Same
  <2>. QED
    BY <2>1, <2>2, RingStill
<1>. QED
  BY <1>1, <1>2, RingPut, RingTook, RingWrote, RingRead DEF Effect

\* ... and the values that go in and come out.
LEMMA WorthKept ==
  ASSUME BufferedAssumption, SlotsFit, Types, Ring, Worth, Effect
  PROVE  Worth'
<1>1. CASE UNCHANGED <<val, sends>> /\ \A q \in Proc : (Busy(q)' => Busy(q))
             /\ (Holder(q)' => Holder(q))
  BY <1>1 DEF Worth
<1>2. CASE Still
  BY <1>1, <1>2 DEF Still, Same
<1>3. ASSUME NEW p \in Proc, Begun(p) PROVE Worth'
  <2>1. /\ sends'[p] = sends[p] + 1 /\ val'[p] = <<p, sends'[p]>>
        /\ sends[p] \in Nat /\ p \notin Receiver
    BY <1>3 DEF Begun, Types, BufferedAssumption
  <2>2. ASSUME NEW q \in Proc, Busy(q)' PROVE sends'[q] > 0 /\ val'[q] = <<q, sends'[q]>>
    <3>1. CASE q = p
      BY <2>1, <3>1
    <3>2. CASE q # p
      <4>1. Busy(q)
        BY <1>3, <2>2, <3>2 DEF Begun, Others, Same
      <4>2. q \in Sender
        BY <4>1 DEF Busy
      <4>. QED
        BY <1>3, <3>2, <4>1, <4>2 DEF Begun, Types, Worth
    <3>. QED
      BY <3>1, <3>2
  <2>3. ASSUME NEW q \in Proc, Holder(q)' PROVE val'[q] \in Value
    <3>1. q # p
      BY <2>1, <2>3 DEF Holder
    <3>2. Holder(q)
      BY <1>3, <2>3, <3>1 DEF Begun, Others, Same
    <3>. QED
      BY <1>3, <3>1, <3>2 DEF Begun, Types, Worth
  <2>. QED
    BY <2>2, <2>3 DEF Worth
<1>4. ASSUME NEW p \in Proc, Put(p) \/ Took(p) \/ Wrote(p) \/ HandedOver(p) \/ Returned(p)
        \/ Received(p)
      PROVE  Worth'
  <2>1. UNCHANGED <<val, sends>>
    BY <1>4 DEF Put, Took, Wrote, HandedOver, Returned, Received
  <2>2. \A q \in Proc \ {p} : (Busy(q)' => Busy(q)) /\ (Holder(q)' => Holder(q))
    BY <1>4 DEF Put, Took, Wrote, HandedOver, Returned, Received, Others, Same
  <2>3. (Busy(p)' => Busy(p)) /\ (Holder(p)' => Holder(p))
    BY <1>4 DEF Put, Took, Wrote, HandedOver, Returned, Received, Same, Before, Busy, Holder,
       BeforePut, BufferedAssumption
  <2>. QED
    BY <1>1, <2>1, <2>2, <2>3
<1>5. ASSUME NEW p \in Proc, Read(p) PROVE Worth'
  <2>1. Taken(p) \in Value /\ p \notin Sender
    BY <1>5 DEF Read, Ring, Cells, BufferedAssumption
  <2>2. ASSUME NEW q \in Proc, Busy(q)' PROVE sends'[q] > 0 /\ val'[q] = <<q, sends'[q]>>
    <3>1. q # p
      BY <2>1, <2>2 DEF Busy
    <3>2. Busy(q)
      BY <1>5, <2>2, <3>1 DEF Read, Others, Same
    <3>. QED
      BY <1>5, <3>1, <3>2 DEF Read, Types, Worth
  <2>3. ASSUME NEW q \in Proc, Holder(q)' PROVE val'[q] \in Value
    <3>1. CASE q = p
      BY <1>5, <2>1, <3>1 DEF Read, Types
    <3>2. CASE q # p
      <4>1. Holder(q)
        BY <1>5, <2>3, <3>2 DEF Read, Others, Same
      <4>. QED
        BY <1>5, <3>2, <4>1 DEF Read, Types, Worth
    <3>. QED
      BY <3>1, <3>2
  <2>. QED
    BY <2>2, <2>3 DEF Worth
<1>. QED
  BY <1>2, <1>3, <1>4, <1>5 DEF Effect

-----------------------------------------------------------------------------
(* The values, and the mapping to the abstract queue                       *)

\* A value nobody has put into the ring.
Unsent(v) == v[2] > sends[v[1]] \/ (Before(v[1]) /\ v[2] = sends[v[1]])

\* The places a value can be: yet to be sent, in the ring, claimed, read, or
\* handed over ...
Kind == {"new", "ring", "taken", "val", "handoff"}

\* ... and where there, or by whom.
Index == Nat \cup Proc

\* The place `i` of a kind has the value.
Has(kind, i, v) ==
  \/ kind = "new" /\ i = 0 /\ Unsent(v)
  \/ kind = "ring" /\ i \in deq..(enq - 1) /\ At(i) = v
  \/ kind = "taken" /\ i \in Proc /\ Taker(i) /\ Taken(i) = v
  \/ kind = "val" /\ i \in Proc /\ Holder(i) /\ val[i] = v
  \/ kind = "handoff" /\ i \in Green /\ handoff[i] = v

\* A value is in one place ...
Unique ==
  \A v \in Value : \A k1, k2 \in Kind : \A i1, i2 \in Index :
    Has(k1, i1, v) /\ Has(k2, i2, v) => k1 = k2 /\ i1 = i2

\* ... and has not been delivered while it is there.
Undelivered ==
  \A v \in Value : \A k \in Kind : \A i \in Index : Has(k, i, v) => got[v] = 0

\* Together: no value is duplicated.
Once == Unique /\ Undelivered

\* A value between the ring and a caller of recv.
OnTheWay(v) ==
  \/ \E q \in Proc : Taker(q) /\ Taken(q) = v
  \/ \E q \in Proc : Holder(q) /\ val[q] = v
  \/ \E t \in Green : handoff[t] = v

\* What the mapping comes to, in a state of the channel.
Mapped ==
  /\ \A p \in Proc : Putter(p) => At(pos[p]) = val[p]
  /\ \A k \in Nat : ~Putting(k) => At(k) = cell[Slot(k)]
  /\ \A k \in deq..(enq - 1) : At(k) \in Value
  /\ fifoBar \in Seq(Value) /\ Len(fifoBar) = enq - deq
  /\ \A i \in 1..(enq - deq) : fifoBar[i] = At(deq + i - 1)
  /\ heldBar = {v \in Value : OnTheWay(v)}

\* The mapping to the abstract queue is what it should be ...
LEMMA MappedHere ==
  ASSUME BufferedAssumption, SlotsFit, Types, Ring, Worth
  PROVE  Mapped
<1>1. ASSUME NEW p \in Proc, Putter(p) PROVE At(pos[p]) = val[p]
  <2>. DEFINE q == CHOOSE q \in Sender : pc[q] \in {"publish", "republish"} /\ pos[q] = pos[p]
  <2>1. p \in Sender /\ pc[p] \in {"publish", "republish"} /\ pos[p] = pos[p]
    BY <1>1 DEF Putter
  <2>2. q \in Sender /\ pc[q] \in {"publish", "republish"} /\ pos[q] = pos[p]
    BY <2>1
  <2>3. At(pos[p]) = val[q]
    BY <2>1 DEF At
  <2>. HIDE DEF q
  <2>4. Putter(q) /\ q \in Proc
    BY <2>2 DEF Putter, Proc
  <2>5. q = p
    BY <1>1, <2>2, <2>4 DEF Ring, Positions
  <2>. QED
    BY <2>3, <2>5
<1>2. ASSUME NEW k \in Nat, ~Putting(k) PROVE At(k) = cell[Slot(k)]
  BY <1>2 DEF At, Putting, Putter, Proc
<1>3. \A p \in Proc : Putter(p) => val[p] \in Value
  <2>1. SUFFICES ASSUME NEW p \in Proc, Putter(p) PROVE val[p] \in Value
    OBVIOUS
  <2>2. p \in Sender /\ Busy(p)
    BY <2>1 DEF Putter, Busy
  <2>3. sends[p] \in 1..MaxSend /\ val[p] = <<p, sends[p]>>
    BY <2>2 DEF Worth, Types, BufferedAssumption
  <2>. QED
    BY <2>2, <2>3 DEF Value
<1>4. ASSUME NEW k \in deq..(enq - 1) PROVE At(k) \in Value
  <2>1. k \in Nat
    BY DEF Types
  <2>2. CASE Putting(k)
    BY <1>1, <1>3, <2>2 DEF Putting
  <2>3. CASE ~Putting(k)
    BY <1>2, <2>1, <2>3 DEF Ring, Cells
  <2>. QED
    BY <2>2, <2>3
<1>5. fifoBar \in Seq(Value) /\ Len(fifoBar) = enq - deq
  <2>1. enq - deq \in Nat /\ enq \in Nat /\ deq \in Nat
    BY DEF Types, Ring, Positions
  <2>2. \A i \in 1..(enq - deq) : At(deq + i - 1) \in Value
    <3>1. \A i \in 1..(enq - deq) : deq + i - 1 \in deq..(enq - 1)
      BY <2>1
    <3>. QED
      BY <1>4, <3>1
  <2>3. fifoBar \in [1..(enq - deq) -> Value]
    BY <2>2 DEF fifoBar
  <2>4. fifoBar \in Seq(Value)
    BY <2>1, <2>3, SeqDef
  <2>5. DOMAIN fifoBar = 1..(enq - deq) /\ DOMAIN fifoBar = 1..Len(fifoBar)
          /\ Len(fifoBar) \in Nat
    BY <2>3, <2>4, LenProperties
  <2>. QED
    BY <2>1, <2>4, <2>5
<1>6. \A i \in 1..(enq - deq) : fifoBar[i] = At(deq + i - 1)
  BY DEF fifoBar
<1>7. heldBar = {v \in Value : OnTheWay(v)}
  <2>1. \A v : v \in heldBar <=> (v # NoValue /\ OnTheWay(v)) \/ (v \in Value /\ OnTheWay(v))
    <3>1. \A q \in Proc : Taker(q) => Taken(q) \in Value
      BY DEF Ring, Cells
    <3>2. \A q \in Proc : Holder(q) => val[q] \in Value
      BY DEF Worth
    <3>3. NoValue \notin Value
      BY DEF BufferedAssumption
    <3>4. \A v : v \in heldBar <=>
            \/ \E q \in Proc : Taker(q) /\ Taken(q) = v
            \/ \E q \in Proc : Holder(q) /\ val[q] = v
            \/ v # NoValue /\ \E t \in Green : handoff[t] = v
      BY DEF heldBar, Taker, Holder, Proc
    <3>. QED
      BY <3>1, <3>2, <3>3, <3>4 DEF OnTheWay
  <2>2. \A v : v # NoValue /\ OnTheWay(v) => v \in Value
    BY DEF OnTheWay, Ring, Cells, Worth, Types
  <2>. QED
    BY <2>1, <2>2 DEF BufferedAssumption
<1>. QED
  BY <1>1, <1>2, <1>4, <1>5, <1>6, <1>7 DEF Mapped

\* ... after a step as before it.
LEMMA MappedNext ==
  ASSUME BufferedAssumption, SlotsFit
  PROVE  Types' /\ Ring' /\ Worth' => Mapped'
<1>1. Types /\ Ring /\ Worth => Mapped
  BY MappedHere
<1>. QED
  BY <1>1, PTL

\* The value at a position stays when its cell and its sender do.
LEMMA AtKept ==
  ASSUME Mapped, Mapped', NEW k \in Nat, cell'[Slot(k)] = cell[Slot(k)],
         \A q \in Proc : Putter(q)' /\ pos'[q] = k <=> Putter(q) /\ pos[q] = k,
         \A q \in Proc : Putter(q) /\ pos[q] = k => val'[q] = val[q]
  PROVE  At(k)' = At(k)
<1>1. CASE Putting(k)
  <2>1. PICK q \in Proc : Putter(q) /\ pos[q] = k
    BY <1>1 DEF Putting
  <2>2. Putter(q)' /\ pos'[q] = k /\ val'[q] = val[q]
    BY <2>1
  <2>. QED
    BY <2>1, <2>2 DEF Mapped
<1>2. CASE ~Putting(k)
  <2>1. ~Putting(k)'
    BY <1>2 DEF Putting
  <2>. QED
    BY <1>2, <2>1 DEF Mapped
<1>. QED
  BY <1>1, <1>2

\* A value keeps its place in the ring from its claim to its removal.
LEMMA AtStays ==
  ASSUME BufferedAssumption, SlotsFit, Types, Ring, Mapped, Mapped', Effect,
         NEW k \in deq..(enq - 1)
  PROVE  At(k)' = At(k)
<1>1. /\ enq \in Nat /\ deq \in Nat /\ pos \in [Proc -> Nat]
           /\ val \in [Proc -> Value \cup {NoValue}]
      /\ k \in Nat /\ SlotCount \in Nat /\ enq <= deq + SlotCount
  BY DEF Types, SlotsFit, Ring, Positions, BufferedAssumption
<1>2. CASE Still
  BY <1>1, <1>2, AtKept DEF Still, Same
<1>3. ASSUME NEW p \in Proc, Begun(p) PROVE At(k)' = At(k)
  <2>1. cell' = cell /\ pos' = pos /\ \A q \in Proc \ {p} : val'[q] = val[q]
    BY <1>1, <1>3 DEF Begun
  <2>2. \A q \in Proc : (Putter(q)' <=> Putter(q)) /\ (Putter(q) => q # p)
    BY <1>3 DEF Begun, Others, Same
  <2>. QED
    BY <1>1, <2>1, <2>2, AtKept
<1>4. ASSUME NEW p \in Proc, Put(p) PROVE At(k)' = At(k)
  <2>1. cell' = cell /\ val' = val /\ pos'[p] = enq /\ \A q \in Proc \ {p} : pos'[q] = pos[q]
    BY <1>1, <1>4 DEF Put, ClaimEnq
  <2>2. ~Putter(p) /\ \A q \in Proc \ {p} : Putter(q)' <=> Putter(q)
    BY <1>4 DEF Put, Others, Same
  <2>3. k # enq
    BY <1>1
  <2>. QED
    BY <1>1, <2>1, <2>2, <2>3, AtKept
<1>5. ASSUME NEW p \in Proc, Took(p) PROVE At(k)' = At(k)
  <2>1. cell' = cell /\ val' = val /\ \A q \in Proc \ {p} : pos'[q] = pos[q]
    BY <1>1, <1>5 DEF Took, ClaimDeq
  <2>2. ~Putter(p) /\ ~Putter(p)' /\ \A q \in Proc \ {p} : Putter(q)' <=> Putter(q)
    BY <1>5 DEF Took, Others, Same
  <2>. QED
    BY <1>1, <2>1, <2>2, AtKept
<1>6. ASSUME NEW p \in Proc, Wrote(p) PROVE At(k)' = At(k)
  <2>1. /\ cell' = [cell EXCEPT ![Slot(pos[p])] = val[p]] /\ val' = val
        /\ \A q \in Proc \ {p} : pos'[q] = pos[q]
    BY <1>1, <1>6 DEF Wrote, PublishEnq
  <2>2. Putter(p) /\ ~Putter(p)' /\ \A q \in Proc \ {p} : Putter(q)' <=> Putter(q)
    BY <1>6 DEF Wrote, Others, Same
  <2>3. pos[p] \in Nat /\ deq <= pos[p] /\ pos[p] < enq
    BY <1>1, <2>2 DEF Ring, Positions
  <2>4. CASE k = pos[p]
    <3>1. At(k) = val[p]
      BY <2>2, <2>4 DEF Mapped
    <3>2. ~Putting(k)'
      BY <2>1, <2>2, <2>4 DEF Putting, Ring, Positions
    <3>3. cell'[Slot(k)] = val[p]
      <4>1. Slot(k) \in 0..(SlotCount - 1)
        BY <1>1, SlotType
      <4>. QED
        BY <2>1, <2>4, <4>1 DEF Types
    <3>. QED
      BY <1>1, <3>1, <3>2, <3>3 DEF Mapped
  <2>5. CASE k # pos[p]
    <3>1. Slot(k) # Slot(pos[p])
      BY <1>1, <2>3, <2>5, SlotApart
    <3>2. cell'[Slot(k)] = cell[Slot(k)]
      BY <1>1, <2>1, <3>1, SlotType DEF Types
    <3>. QED
      BY <1>1, <2>1, <2>2, <2>5, <3>2, AtKept
  <2>. QED
    BY <2>4, <2>5
<1>7. ASSUME NEW p \in Proc, Read(p) \/ HandedOver(p) PROVE At(k)' = At(k)
  <2>1. /\ cell' = cell
        /\ \A q \in Proc \ {p} : pos'[q] = pos[q] /\ val'[q] = val[q]
    BY <1>1, <1>7 DEF Read, HandedOver, PublishDeq
  <2>2. ~Putter(p) /\ ~Putter(p)' /\ \A q \in Proc \ {p} : Putter(q)' <=> Putter(q)
    BY <1>7 DEF Read, HandedOver, Others, Same
  <2>. QED
    BY <1>1, <2>1, <2>2, AtKept
<1>8. ASSUME NEW p \in Proc, Returned(p) \/ Received(p) PROVE At(k)' = At(k)
  <2>1. cell' = cell /\ pos' = pos /\ val' = val
    BY <1>8 DEF Returned, Received
  <2>2. \A q \in Proc : Putter(q)' <=> Putter(q)
    BY <1>8 DEF Returned, Received, Others, Same
  <2>. QED
    BY <1>1, <2>1, <2>2, AtKept
<1>. QED
  BY <1>2, <1>3, <1>4, <1>5, <1>6, <1>7, <1>8 DEF Effect

\* The cell of a position that was claimed is not overwritten before it is read.
LEMMA TakenStays ==
  ASSUME BufferedAssumption, SlotsFit, Types, Ring, Effect,
         NEW q \in Proc, Taker(q), Taker(q)'
  PROVE  Taken(q)' = Taken(q)
<1>1. /\ enq \in Nat /\ deq \in Nat /\ pos \in [Proc -> Nat] /\ SlotCount \in Nat
      /\ pos[q] \in Nat /\ pos[q] < deq /\ enq <= pos[q] + SlotCount
  BY DEF Types, SlotsFit, Ring, Positions
<1>2. CASE cell' = cell /\ pos'[q] = pos[q]
  BY <1>2 DEF Taken
<1>3. CASE Still
  BY <1>2, <1>3 DEF Still
<1>4. ASSUME NEW p \in Proc, Begun(p) \/ Put(p) \/ Took(p) \/ Read(p) \/ HandedOver(p)
                             \/ Returned(p) \/ Received(p)
      PROVE  Taken(q)' = Taken(q)
  <2>1. cell' = cell
    BY <1>4 DEF Begun, Put, Took, Read, HandedOver, Returned, Received, ClaimEnq, ClaimDeq,
       PublishDeq
  <2>2. p # q \/ pos' = pos
    BY <1>4 DEF Begun, Put, Took, Read, HandedOver, Returned, Received
  <2>3. p # q => pos'[q] = pos[q]
    BY <1>1, <1>4 DEF Begun, Put, Took, Read, HandedOver, Returned, Received, ClaimEnq,
       ClaimDeq, PublishDeq
  <2>. QED
    BY <1>2, <2>1, <2>2, <2>3
<1>5. ASSUME NEW p \in Proc, Wrote(p) PROVE Taken(q)' = Taken(q)
  <2>1. /\ cell' = [cell EXCEPT ![Slot(pos[p])] = val[p]] /\ p # q /\ pos'[q] = pos[q]
        /\ Putter(p)
    BY <1>1, <1>5 DEF Wrote, PublishEnq
  <2>2. pos[p] \in Nat /\ deq <= pos[p] /\ pos[p] < enq
    BY <1>1, <2>1 DEF Ring, Positions
  <2>3. Slot(pos[q]) # Slot(pos[p])
    BY <1>1, <2>2, SlotApart
  <2>4. cell'[Slot(pos[q])] = cell[Slot(pos[q])]
    BY <1>1, <2>1, <2>3, SlotType DEF Types
  <2>. QED
    BY <2>1, <2>4 DEF Taken
<1>. QED
  BY <1>3, <1>4, <1>5 DEF Effect

\* Values that stay put stay single ...
LEMMA OnceStays ==
  ASSUME Once, got' = got,
         \A v \in Value : \A k \in Kind : \A i \in Index : Has(k, i, v)' => Has(k, i, v)
  PROVE  Once'
BY DEF Once, Unique, Undelivered

\* ... as does one that moves from a place to another ...
LEMMA OnceMoves ==
  ASSUME Once, got' = got, NEW k1 \in Kind, NEW i1 \in Index, NEW k2 \in Kind, NEW i2 \in Index,
         NEW u \in Value, Has(k1, i1, u),
         \A v \in Value : \A k \in Kind : \A i \in Index : Has(k, i, v)' =>
            \/ Has(k, i, v) /\ ~(k = k1 /\ i = i1 /\ v = u)
            \/ k = k2 /\ i = i2 /\ v = u
  PROVE  Once'
<1>1. \A k \in Kind : \A i \in Index : Has(k, i, u)' => k = k2 /\ i = i2
  BY DEF Once, Unique
<1>2. \A v \in Value : \A k \in Kind : \A i \in Index : Has(k, i, v)' => Has(k, i, v) \/ v = u
  OBVIOUS
<1>3. Unique'
  BY <1>1, <1>2 DEF Once, Unique
<1>4. got[u] = 0
  BY DEF Once, Undelivered
<1>5. Undelivered'
  BY <1>2, <1>4 DEF Once, Undelivered
<1>. QED
  BY <1>3, <1>5 DEF Once

\* ... and one that is delivered.
LEMMA OnceLeaves ==
  ASSUME Types, Once, NEW k1 \in Kind, NEW i1 \in Index, NEW u \in Value, Has(k1, i1, u),
         Deliver({u}),
         \A v \in Value : \A k \in Kind : \A i \in Index : Has(k, i, v)' =>
            Has(k, i, v) /\ ~(k = k1 /\ i = i1 /\ v = u)
  PROVE  Once'
<1>1. \A k \in Kind : \A i \in Index : ~Has(k, i, u)'
  BY DEF Once, Unique
<1>2. Unique'
  BY <1>1 DEF Once, Unique
<1>3. \A v \in Value : v # u => got'[v] = got[v]
  BY DEF Deliver
<1>4. Undelivered'
  BY <1>1, <1>3 DEF Once, Undelivered
<1>. QED
  BY <1>2, <1>4 DEF Once

\* What the effects rest on.
Data == Types /\ Ring /\ Worth /\ Mapped

\* Who has a value after a step had it before, or was given it by the step.
LEMMA HasFrom ==
  ASSUME BufferedAssumption, SlotsFit, Data, Data', Effect,
         NEW v \in Value, NEW kind \in Kind, NEW i \in Index, Has(kind, i, v)'
  PROVE  \/ Has(kind, i, v)
         \/ kind = "new" /\ i = 0 /\ Unsent(v)' /\ ~Unsent(v)
         \/ kind = "ring" /\ i \in deq'..(enq' - 1) /\ i \notin deq..(enq - 1) /\ At(i)' = v
         \/ kind = "taken" /\ i \in Proc /\ ~Taker(i) /\ Taker(i)' /\ Taken(i)' = v
         \/ kind = "val" /\ i \in Proc /\ Holder(i)' /\ val'[i] = v
              /\ ~(Holder(i) /\ val[i] = v)
         \/ kind = "handoff" /\ i \in Green /\ handoff'[i] = v /\ handoff[i] # v
<1>1. CASE kind = "new"
  BY <1>1 DEF Has
<1>2. CASE kind = "ring"
  <2>1. i \in deq'..(enq' - 1) /\ At(i)' = v
    BY <1>2 DEF Has
  <2>2. CASE i \in deq..(enq - 1)
    <3>1. At(i)' = At(i)
      BY <2>2, AtStays DEF Data
    <3>. QED
      BY <1>2, <2>1, <2>2, <3>1 DEF Has
  <2>. QED
    BY <1>2, <2>1, <2>2
<1>3. CASE kind = "taken"
  <2>1. i \in Proc /\ Taker(i)' /\ Taken(i)' = v
    BY <1>3 DEF Has
  <2>2. CASE Taker(i)
    <3>1. Taken(i)' = Taken(i)
      BY <2>1, <2>2, TakenStays DEF Data
    <3>. QED
      BY <1>3, <2>1, <2>2, <3>1 DEF Has
  <2>. QED
    BY <1>3, <2>1, <2>2
<1>4. CASE kind = "val"
  BY <1>4 DEF Has
<1>5. CASE kind = "handoff"
  BY <1>5 DEF Has
<1>. QED
  BY <1>1, <1>2, <1>3, <1>4, <1>5 DEF Kind

\* No step puts a value back.
LEMMA UnsentStays ==
  ASSUME BufferedAssumption, Types, NEW v \in Value, Unsent(v)', sends' = sends,
         \A q \in Proc : Before(q)' => Before(q)
  PROVE  Unsent(v)
<1>1. v[1] \in Proc
  BY DEF Value, Proc
<1>. QED
  BY <1>1 DEF Unsent

\* No effect, no second copy ...
LEMMA OnceStill ==
  ASSUME BufferedAssumption, SlotsFit, Data, Data', Once, Still
  PROVE  Once'
<1>1. Effect /\ UNCHANGED <<enq, deq, val, handoff, sends, got>>
  BY DEF Effect, Still
<1>2. \A q \in Proc : /\ Before(q)' => Before(q)
                      /\ Taker(q)' <=> Taker(q)
                      /\ Holder(q)' <=> Holder(q)
  BY DEF Still, Same
<1>3. \A v \in Value : Unsent(v)' => Unsent(v)
  BY <1>1, <1>2, UnsentStays DEF Data
<1>4. \A v \in Value : \A k \in Kind : \A i \in Index : Has(k, i, v)' => Has(k, i, v)
  BY <1>1, <1>2, <1>3, HasFrom
<1>. QED
  BY <1>1, <1>4, OnceStays

\* ... a send starts with a value of its own ...
LEMMA OnceBegun ==
  ASSUME BufferedAssumption, SlotsFit, Data, Data', Once, NEW p \in Proc, Begun(p)
  PROVE  Once'
<1>1. /\ Effect /\ UNCHANGED <<enq, deq, handoff, got>> /\ p \in Sender
      /\ sends' = [sends EXCEPT ![p] = @ + 1] /\ \A q \in Proc \ {p} : val'[q] = val[q]
  BY DEF Effect, Begun, Data, Types
<1>2. \A q \in Proc : /\ q # p => (Before(q)' => Before(q))
                      /\ Taker(q)' <=> Taker(q)
                      /\ Holder(q)' => Holder(q) /\ q # p
  BY <1>1 DEF Begun, Others, Same, Holder, BufferedAssumption
<1>3. ASSUME NEW v \in Value, Unsent(v)' PROVE Unsent(v)
  <2>1. v[1] \in Sender /\ v[1] \in Proc /\ v[2] \in Nat
    BY DEF Value, Proc, BufferedAssumption
  <2>2. sends[p] \in Nat /\ sends'[p] = sends[p] + 1
          /\ \A q \in Sender \ {p} : sends'[q] = sends[q]
    BY <1>1 DEF Data, Types
  <2>3. CASE v[1] = p
    BY <1>3, <2>1, <2>2, <2>3 DEF Unsent
  <2>4. CASE v[1] # p
    BY <1>2, <1>3, <2>1, <2>2, <2>4 DEF Unsent
  <2>. QED
    BY <2>3, <2>4
<1>4. \A v \in Value : \A k \in Kind : \A i \in Index : Has(k, i, v)' => Has(k, i, v)
  BY <1>1, <1>2, <1>3, HasFrom
<1>. QED
  BY <1>1, <1>4, OnceStays

\* ... its claim moves the value to the tail ...
LEMMA OncePut ==
  ASSUME BufferedAssumption, SlotsFit, Data, Data', Once, NEW p \in Proc, Put(p)
  PROVE  /\ Once' /\ enq' = enq + 1
         /\ \E u \in Value, e \in Nat :
              u = val[p] /\ e = enq /\ Has("new", 0, u) /\ At(e)' = u
<1>1. /\ Effect /\ UNCHANGED <<deq, val, handoff, sends, got>> /\ p \in Sender
      /\ enq' = enq + 1 /\ pos'[p] = enq /\ Before(p) /\ ~Before(p)' /\ Putter(p)'
      /\ enq \in Nat /\ deq \in Nat /\ deq <= enq
  BY DEF Effect, Put, ClaimEnq, Data, Types, Ring, Positions
<1>2. \A q \in Proc : /\ Before(q)' => Before(q)
                      /\ Taker(q)' <=> Taker(q)
                      /\ Holder(q)' => Holder(q)
  BY <1>1 DEF Put, Others, Same, Holder, BufferedAssumption
<1>3. sends[p] \in 1..MaxSend /\ val[p] = <<p, sends[p]>>
  <2>1. Busy(p)
    BY <1>1 DEF Before, Busy, BeforePut
  <2>2. sends[p] > 0 /\ val[p] = <<p, sends[p]>>
    BY <2>1 DEF Data, Worth
  <2>3. sends[p] \in 0..MaxSend
    BY <1>1 DEF Data, Types
  <2>4. MaxSend \in Nat
    BY DEF BufferedAssumption
  <2>. QED
    BY <2>2, <2>3, <2>4
<1>4. val[p] \in Value
  BY <1>1, <1>3 DEF Value
<1>5. PICK u \in Value : u = val[p]
  BY <1>4
<1>6. PICK e \in Nat : e = enq
  BY <1>1
<1>7. At(e)' = u
  <2>1. At(pos[p])' = val'[p]
    BY <1>1 DEF Data, Mapped
  <2>. QED
    BY <1>1, <1>5, <1>6, <2>1
<1>8. u[1] = p /\ u[2] = sends[p] /\ sends[p] \in Nat
  BY <1>3, <1>5, <1>4 DEF BufferedAssumption
<1>9. Has("new", 0, u)
  BY <1>1, <1>8 DEF Has, Unsent
<1>10. ~Unsent(u)'
  BY <1>1, <1>8 DEF Unsent
<1>11. \A v \in Value : Unsent(v)' => Unsent(v)
  BY <1>1, <1>2, UnsentStays DEF Data
<1>12. \A i \in deq'..(enq' - 1) : i \in deq..(enq - 1) \/ i = e
  BY <1>1, <1>6
<1>13. ASSUME NEW v \in Value, NEW k \in Kind, NEW i \in Index, Has(k, i, v)'
       PROVE  \/ Has(k, i, v) /\ ~(k = "new" /\ i = 0 /\ v = u)
              \/ k = "ring" /\ i = e /\ v = u
  <2>1. \/ Has(k, i, v)
        \/ k = "ring" /\ i \in deq'..(enq' - 1) /\ i \notin deq..(enq - 1) /\ At(i)' = v
    BY <1>1, <1>2, <1>11, <1>13, HasFrom
  <2>2. i \in deq'..(enq' - 1) /\ i \notin deq..(enq - 1) /\ At(i)' = v => i = e /\ v = u
    BY <1>7, <1>12
  <2>3. ~(k = "new" /\ v = u)
    BY <1>10, <1>13 DEF Has
  <2>. QED
    BY <2>1, <2>2, <2>3
<1>14. "new" \in Kind /\ "ring" \in Kind /\ 0 \in Index /\ e \in Index
  BY DEF Kind, Index
<1>15. Once'
  BY <1>1, <1>9, <1>13, <1>14, OnceMoves
<1>. QED
  BY <1>1, <1>4, <1>5, <1>6, <1>7, <1>9, <1>15

\* ... the claim of the head takes it from there ...
LEMMA OnceTook ==
  ASSUME BufferedAssumption, SlotsFit, Data, Data', Once, NEW p \in Proc, Took(p)
  PROVE  /\ Once' /\ deq < enq /\ deq' = deq + 1 /\ enq' = enq /\ Taken(p)' = At(deq)
<1>1. /\ Effect /\ UNCHANGED <<enq, val, handoff, sends, got, cell>>
      /\ deq' = deq + 1 /\ pos'[p] = deq /\ HeadReady
      /\ enq \in Nat /\ deq \in Nat
  BY DEF Effect, Took, ClaimDeq, Data, Types
<1>2. \A q \in Proc : /\ Before(q)' => Before(q)
                      /\ q # p => (Taker(q)' <=> Taker(q))
                      /\ Holder(q)' => Holder(q)
  BY <1>1 DEF Took, Others, Same
<1>3. deq < enq /\ ~Putting(deq)
  BY <1>1, HeadFact DEF Data, Ring
<1>4. deq \in deq..(enq - 1)
  BY <1>1, <1>3
<1>5. At(deq) \in Value /\ Taken(p)' = At(deq)
  BY <1>1, <1>3, <1>4 DEF Data, Mapped, Taken
<1>6. Has("ring", deq, At(deq))
  BY <1>4 DEF Has
<1>7. \A v \in Value : Unsent(v)' => Unsent(v)
  BY <1>1, <1>2, UnsentStays DEF Data
<1>8. \A i \in deq'..(enq' - 1) : i \in deq..(enq - 1) /\ i # deq
  BY <1>1
<1>9. ASSUME NEW v \in Value, NEW k \in Kind, NEW i \in Index, Has(k, i, v)'
      PROVE  \/ Has(k, i, v) /\ ~(k = "ring" /\ i = deq /\ v = At(deq))
             \/ k = "taken" /\ i = p /\ v = At(deq)
  <2>1. \/ Has(k, i, v)
        \/ k = "taken" /\ i = p /\ v = At(deq)
    BY <1>1, <1>2, <1>5, <1>7, <1>8, <1>9, HasFrom
  <2>2. ~(k = "ring" /\ i = deq)
    BY <1>8, <1>9 DEF Has
  <2>. QED
    BY <2>1, <2>2
<1>10. "taken" \in Kind /\ "ring" \in Kind /\ deq \in Index /\ p \in Index
  BY <1>1 DEF Kind, Index
<1>11. Once'
  BY <1>1, <1>5, <1>6, <1>9, <1>10, OnceMoves
<1>. QED
  BY <1>1, <1>3, <1>5, <1>11

\* ... writing the cell moves nothing ...
LEMMA OnceWrote ==
  ASSUME BufferedAssumption, SlotsFit, Data, Data', Once, NEW p \in Proc, Wrote(p)
  PROVE  Once'
<1>1. Effect /\ UNCHANGED <<enq, deq, val, handoff, sends, got>>
  BY DEF Effect, Wrote, PublishEnq
<1>2. \A q \in Proc : /\ Before(q)' => Before(q)
                      /\ Taker(q)' <=> Taker(q)
                      /\ Holder(q)' => Holder(q)
  BY <1>1 DEF Wrote, Others, Same, Holder, BufferedAssumption
<1>3. \A v \in Value : Unsent(v)' => Unsent(v)
  BY <1>1, <1>2, UnsentStays DEF Data
<1>4. \A v \in Value : \A k \in Kind : \A i \in Index : Has(k, i, v)' => Has(k, i, v)
  BY <1>1, <1>2, <1>3, HasFrom
<1>. QED
  BY <1>1, <1>4, OnceStays

\* ... reading it moves the value to the receiver ...
LEMMA OnceRead ==
  ASSUME BufferedAssumption, SlotsFit, Data, Data', Once, NEW p \in Proc, Read(p)
  PROVE  Once'
<1>1. /\ Effect /\ UNCHANGED <<enq, deq, handoff, sends, got>>
      /\ val'[p] = Taken(p) /\ \A q \in Proc \ {p} : val'[q] = val[q]
      /\ Taker(p) /\ ~Taker(p)' /\ ~Holder(p) /\ Holder(p)' /\ p \in Receiver
  BY DEF Effect, Read, PublishDeq, Data, Types
<1>2. \A q \in Proc : /\ Before(q)' => Before(q)
                      /\ q # p => (Taker(q)' <=> Taker(q)) /\ (Holder(q)' <=> Holder(q))
  BY <1>1 DEF Read, Others, Same, Before, BufferedAssumption
<1>3. Taken(p) \in Value /\ Has("taken", p, Taken(p))
  BY <1>1 DEF Has, Data, Ring, Cells
<1>4. \A v \in Value : Unsent(v)' => Unsent(v)
  BY <1>1, <1>2, UnsentStays DEF Data
<1>5. ASSUME NEW v \in Value, NEW k \in Kind, NEW i \in Index, Has(k, i, v)'
      PROVE  \/ Has(k, i, v) /\ ~(k = "taken" /\ i = p /\ v = Taken(p))
             \/ k = "val" /\ i = p /\ v = Taken(p)
  <2>1. \/ Has(k, i, v)
        \/ k = "val" /\ i = p /\ v = Taken(p)
    BY <1>1, <1>2, <1>4, <1>5, HasFrom
  <2>2. ~(k = "taken" /\ i = p)
    BY <1>1, <1>5 DEF Has
  <2>. QED
    BY <2>1, <2>2
<1>6. "taken" \in Kind /\ "val" \in Kind /\ p \in Index
  BY DEF Kind, Index
<1>. QED
  BY <1>1, <1>3, <1>5, <1>6, OnceMoves

\* ... or to the one it is handed to ...
LEMMA OnceHanded ==
  ASSUME BufferedAssumption, SlotsFit, Data, Data', Once, NEW p \in Proc, HandedOver(p)
  PROVE  Once'
<1>1. /\ Effect /\ UNCHANGED <<enq, deq, val, sends, got>>
      /\ hand[p] \in Green /\ handoff'[hand[p]] = Taken(p)
      /\ \A t \in Green : t # hand[p] => handoff'[t] = handoff[t]
      /\ Taker(p) /\ ~Taker(p)' /\ p \in Sender
  BY DEF Effect, HandedOver, PublishDeq, Data, Types
<1>2. \A q \in Proc : /\ Before(q)' => Before(q)
                      /\ q # p => (Taker(q)' <=> Taker(q))
                      /\ Holder(q)' => Holder(q)
  BY <1>1 DEF HandedOver, Others, Same, Holder, BufferedAssumption
<1>3. Taken(p) \in Value /\ Has("taken", p, Taken(p))
  BY <1>1 DEF Has, Data, Ring, Cells
<1>4. \A v \in Value : Unsent(v)' => Unsent(v)
  BY <1>1, <1>2, UnsentStays DEF Data
<1>5. ASSUME NEW v \in Value, NEW k \in Kind, NEW i \in Index, Has(k, i, v)'
      PROVE  \/ Has(k, i, v) /\ ~(k = "taken" /\ i = p /\ v = Taken(p))
             \/ k = "handoff" /\ i = hand[p] /\ v = Taken(p)
  <2>1. \/ Has(k, i, v)
        \/ k = "handoff" /\ i = hand[p] /\ v = Taken(p)
    BY <1>1, <1>2, <1>4, <1>5, HasFrom
  <2>2. ~(k = "taken" /\ i = p)
    BY <1>1, <1>5 DEF Has
  <2>. QED
    BY <2>1, <2>2
<1>6. PICK t \in Index : t = hand[p]
  BY <1>1 DEF Index, BufferedAssumption
<1>7. PICK u \in Value : u = Taken(p)
  BY <1>3
<1>8. "taken" \in Kind /\ "handoff" \in Kind /\ p \in Index
  BY DEF Kind, Index
<1>9. \A v \in Value : \A k \in Kind : \A i \in Index : Has(k, i, v)' =>
        \/ Has(k, i, v) /\ ~(k = "taken" /\ i = p /\ v = u)
        \/ k = "handoff" /\ i = t /\ v = u
  BY <1>5, <1>6, <1>7
<1>10. Has("taken", p, u)
  BY <1>3, <1>7
<1>. QED
  BY <1>1, <1>8, <1>9, <1>10, OnceMoves

\* ... and the return ...
LEMMA OnceReturned ==
  ASSUME BufferedAssumption, SlotsFit, Data, Data', Once, NEW p \in Proc, Returned(p)
  PROVE  Once' /\ val[p] \in Value /\ Has("val", p, val[p])
<1>1. /\ Effect /\ UNCHANGED <<enq, deq, val, handoff, sends>> /\ Deliver({val[p]})
      /\ Holder(p) /\ ~Holder(p)' /\ p \in Receiver
  BY DEF Effect, Returned
<1>2. \A q \in Proc : /\ Before(q)' => Before(q)
                      /\ Taker(q)' <=> Taker(q)
                      /\ Holder(q)' => Holder(q)
  BY <1>1 DEF Returned, Others, Same, Before, BufferedAssumption
<1>3. val[p] \in Value /\ Has("val", p, val[p])
  BY <1>1 DEF Has, Data, Worth
<1>4. \A v \in Value : Unsent(v)' => Unsent(v)
  BY <1>1, <1>2, UnsentStays DEF Data
<1>5. ASSUME NEW v \in Value, NEW k \in Kind, NEW i \in Index, Has(k, i, v)'
      PROVE  Has(k, i, v) /\ ~(k = "val" /\ i = p /\ v = val[p])
  <2>1. Has(k, i, v)
    BY <1>1, <1>2, <1>4, <1>5, HasFrom
  <2>2. ~(k = "val" /\ i = p)
    BY <1>1, <1>5 DEF Has
  <2>. QED
    BY <2>1, <2>2
<1>6. "val" \in Kind /\ p \in Index
  BY DEF Kind, Index
<1>7. Once'
  BY <1>1, <1>3, <1>5, <1>6, OnceLeaves DEF Data
<1>. QED
  BY <1>3, <1>7

\* ... or the receipt delivers it.
LEMMA OnceReceived ==
  ASSUME BufferedAssumption, SlotsFit, Data, Data', Once, NEW p \in Proc, Received(p)
  PROVE  Once' /\ handoff[p] \in Value /\ Has("handoff", p, handoff[p])
<1>1. /\ Effect /\ UNCHANGED <<enq, deq, val, sends>> /\ Deliver({handoff[p]})
      /\ p \in Green /\ handoff[p] \in Value /\ handoff'[p] = NoValue
      /\ \A t \in Green \ {p} : handoff'[t] = handoff[t]
  BY DEF Effect, Received, Data, Types
<1>2. \A q \in Proc : /\ Before(q)' => Before(q)
                      /\ Taker(q)' <=> Taker(q)
                      /\ Holder(q)' => Holder(q)
  BY <1>1 DEF Received, Same
<1>3. Has("handoff", p, handoff[p])
  BY <1>1 DEF Has
<1>4. \A v \in Value : Unsent(v)' => Unsent(v)
  BY <1>1, <1>2, UnsentStays DEF Data
<1>5. ASSUME NEW v \in Value, NEW k \in Kind, NEW i \in Index, Has(k, i, v)'
      PROVE  Has(k, i, v) /\ ~(k = "handoff" /\ i = p /\ v = handoff[p])
  <2>1. v # NoValue
    BY DEF BufferedAssumption
  <2>2. Has(k, i, v)
    BY <1>1, <1>2, <1>4, <1>5, <2>1, HasFrom
  <2>3. ~(k = "handoff" /\ i = p)
    BY <1>1, <1>5, <2>1 DEF Has
  <2>. QED
    BY <2>2, <2>3
<1>6. "handoff" \in Kind /\ p \in Index
  BY DEF Kind, Index
<1>7. Once'
  BY <1>1, <1>3, <1>5, <1>6, OnceLeaves DEF Data
<1>. QED
  BY <1>1, <1>3, <1>7

-----------------------------------------------------------------------------
(* The invariant and the refinement                                        *)

\* Every effect keeps the values single.
LEMMA OnceKept ==
  ASSUME BufferedAssumption, SlotsFit, Data, Data', Once, Effect
  PROVE  Once'
BY OnceStill, OnceBegun, OncePut, OnceTook, OnceWrote, OnceRead, OnceHanded, OnceReturned,
   OnceReceived DEF Effect

\* The inductive invariant.
Inv == Control /\ Ring /\ Worth /\ Once

\* It holds initially ...
LEMMA InvInit ==
  ASSUME BufferedAssumption, SlotsFit, Init
  PROVE  Inv
<1>1. Control /\ Types
  BY ControlInit DEF Control
<1>2. \A p \in Proc : ~Putter(p) /\ ~Taker(p) /\ ~Holder(p) /\ ~Busy(p) /\ ~Before(p)
  BY DEF Init, Putter, Taker, Holder, Busy, Before, BeforePut
<1>3. Ring
  <2>1. enq = 0 /\ deq = 0 /\ Capacity \in Nat /\ SlotCount \in Nat /\ SlotCount >= 2
    BY DEF Init, BufferedAssumption, SlotsFit
  <2>2. Positions
    BY <1>2, <2>1 DEF Positions
  <2>3. ASSUME NEW k \in 0..(SlotCount - 1) PROVE seq[Slot(k)] = k /\ ~Taking(k)
    <3>1. k % SlotCount = k
      BY <2>1
    <3>. QED
      BY <1>2, <3>1 DEF Init, Slot, Taking
  <2>4. Slots
    BY <2>1, <2>3 DEF Slots
  <2>5. Cells
    BY <1>2, <2>1 DEF Cells
  <2>. QED
    BY <2>2, <2>4, <2>5 DEF Ring
<1>4. Worth
  BY <1>2 DEF Worth
<1>5. Once
  <2>1. ASSUME NEW v \in Value, NEW k \in Kind, NEW i \in Index, Has(k, i, v)
        PROVE  k = "new" /\ i = 0 /\ got[v] = 0
    <3>1. enq = 0 /\ deq = 0 /\ got[v] = 0 /\ \A t \in Green : handoff[t] # v
      BY DEF Init, BufferedAssumption
    <3>. QED
      BY <1>2, <2>1, <3>1 DEF Has
  <2>. QED
    BY <2>1 DEF Once, Unique, Undelivered
<1>. QED
  BY <1>1, <1>3, <1>4, <1>5 DEF Inv

\* ... every step keeps it, and has an effect ...
LEMMA InvStep ==
  ASSUME BufferedAssumption, SlotsFit, Inv, [Next]_vars
  PROVE  Inv' /\ Effect /\ Data /\ Data'
<1>1. Control' /\ Effect /\ Types /\ Types'
  BY ControlKept, StepEffect DEF Inv, Control
<1>2. Ring' /\ Worth'
  BY <1>1, RingKept, WorthKept DEF Inv
<1>3. Data /\ Data'
  BY <1>1, <1>2, MappedHere, MappedNext DEF Inv, Data
<1>. QED
  BY <1>1, <1>2, <1>3, OnceKept DEF Inv

\* ... and so it holds always.
LEMMA InvAlways ==
  ASSUME BufferedAssumption, SlotsFit
  PROVE  Spec => []Inv
BY InvInit, InvStep, PTL DEF Spec

\* The abstract queue is the same while the window is ...
LEMMA FifoStays ==
  ASSUME BufferedAssumption, SlotsFit, Data, Data', Effect, enq' = enq, deq' = deq
  PROVE  fifoBar' = fifoBar
<1>1. fifoBar \in Seq(Value) /\ fifoBar' \in Seq(Value) /\ enq \in Nat /\ deq \in Nat
      /\ Len(fifoBar) = enq - deq /\ Len(fifoBar') = enq - deq
  BY DEF Data, Mapped, Types
<1>2. ASSUME NEW i \in 1..(enq - deq) PROVE fifoBar'[i] = fifoBar[i]
  <2>1. PICK k \in deq..(enq - 1) : k = deq + i - 1
    BY <1>1
  <2>2. fifoBar[i] = At(k)
    BY <2>1 DEF Data, Mapped
  <2>3. fifoBar'[i] = At(k)'
    BY <2>1 DEF Data, Mapped
  <2>. QED
    BY <2>2, <2>3, AtStays DEF Data
<1>. QED
  BY <1>1, <1>2, SeqEqual

\* ... and what left it is, while the same values are on the way.
LEMMA HeldStays ==
  ASSUME Data, Data', \A v \in Value : OnTheWay(v)' <=> OnTheWay(v)
  PROVE  heldBar' = heldBar
BY DEF Data, Mapped

\* A value on the way to a caller is one that has an owner.
LEMMA OnWayFact ==
  ASSUME BufferedAssumption, NEW v \in Value, OnTheWay(v)
  PROVE  \E k \in Kind \ {"new", "ring"}, i \in Index : Has(k, i, v)
<1>1. ASSUME NEW q \in Proc, Taker(q), Taken(q) = v PROVE Has("taken", q, v) /\ q \in Index
  BY <1>1 DEF Has, Index
<1>2. ASSUME NEW q \in Proc, Holder(q), val[q] = v PROVE Has("val", q, v) /\ q \in Index
  BY <1>2 DEF Has, Index
<1>3. ASSUME NEW t \in Green, handoff[t] = v PROVE Has("handoff", t, v) /\ t \in Index
  BY <1>3 DEF Has, Index, BufferedAssumption
<1>. QED
  BY <1>1, <1>2, <1>3 DEF OnTheWay, Kind

\* ... and so has not been delivered, after a step as before it.
LEMMA OnWayNext ==
  ASSUME BufferedAssumption, NEW v \in Value
  PROVE  Once' /\ OnTheWay(v)' => got'[v] = 0
<1>. DEFINE Fresh == got[v] = 0
<1>1. Once /\ OnTheWay(v) => Fresh
  BY OnWayFact DEF Once, Undelivered
<1>2. (Once /\ OnTheWay(v) => Fresh)'
  BY <1>1, PTL
<1>. QED
  BY <1>2

\* A step that changes neither is a stutter.
LEMMA StutterStep ==
  ASSUME BufferedAssumption, SlotsFit, Data, Data', Effect, enq' = enq, deq' = deq, got' = got,
         \A v \in Value : OnTheWay(v)' <=> OnTheWay(v)
  PROVE  UNCHANGED Fifo!vars
BY FifoStays, HeldStays DEF Fifo!vars

\* Nothing, a send that begins and the write of a cell are stutters ...
LEMMA StillStep ==
  ASSUME BufferedAssumption, SlotsFit, Data, Data', NEW p \in Proc,
         Still \/ Begun(p) \/ Wrote(p)
  PROVE  UNCHANGED Fifo!vars
<1>1. Effect /\ UNCHANGED <<enq, deq, handoff, got>>
  BY DEF Effect, Still, Begun, Wrote, PublishEnq
<1>2. \A q \in Proc : (Taker(q)' <=> Taker(q)) /\ (Holder(q)' <=> Holder(q))
  BY DEF Still, Begun, Wrote, Others, Same, Holder, BufferedAssumption
<1>3. \A q \in Proc : Holder(q) => val'[q] = val[q]
  BY DEF Data, Types, Still, Begun, Wrote, Holder, BufferedAssumption
<1>4. \A q \in Proc : Taker(q) => Taken(q)' = Taken(q)
  BY <1>1, <1>2, TakenStays DEF Data
<1>5. \A v \in Value : OnTheWay(v)' <=> OnTheWay(v)
  BY <1>1, <1>2, <1>3, <1>4 DEF OnTheWay
<1>. QED
  BY <1>1, <1>5, StutterStep

\* ... so is the read ...
LEMMA ReadStep ==
  ASSUME BufferedAssumption, SlotsFit, Data, Data', NEW p \in Proc, Read(p)
  PROVE  UNCHANGED Fifo!vars
<1>1. /\ Effect /\ UNCHANGED <<enq, deq, handoff, got>>
      /\ Taker(p) /\ ~Taker(p)' /\ ~Holder(p) /\ Holder(p)' /\ val'[p] = Taken(p)
  BY DEF Effect, Read, PublishDeq, Data, Types
<1>2. \A q \in Proc \ {p} : (Taker(q)' <=> Taker(q)) /\ (Holder(q)' <=> Holder(q))
        /\ val'[q] = val[q]
  BY DEF Read, Others, Same, Data, Types
<1>3. \A q \in Proc \ {p} : Taker(q) => Taken(q)' = Taken(q)
  BY <1>1, <1>2, TakenStays DEF Data
<1>4. \A v \in Value : OnTheWay(v)' <=> OnTheWay(v)
  BY <1>1, <1>2, <1>3 DEF OnTheWay
<1>. QED
  BY <1>1, <1>4, StutterStep

\* ... and the handoff ...
LEMMA HandStep ==
  ASSUME BufferedAssumption, SlotsFit, Data, Data', NEW p \in Proc, HandedOver(p)
  PROVE  UNCHANGED Fifo!vars
<1>1. /\ Effect /\ UNCHANGED <<enq, deq, val, got>>
      /\ Taker(p) /\ ~Taker(p)'
      /\ hand[p] \in Green /\ handoff[hand[p]] = NoValue /\ handoff'[hand[p]] = Taken(p)
      /\ \A t \in Green : t # hand[p] => handoff'[t] = handoff[t]
  BY DEF Effect, HandedOver, PublishDeq, Data, Types
<1>2. \A q \in Proc : (q # p => (Taker(q)' <=> Taker(q))) /\ (Holder(q)' <=> Holder(q))
  BY DEF HandedOver, Others, Same, Holder, BufferedAssumption
<1>3. \A q \in Proc : q # p /\ Taker(q) => Taken(q)' = Taken(q)
  BY <1>1, <1>2, TakenStays DEF Data
<1>4. \A v \in Value : v # NoValue
  BY DEF BufferedAssumption
<1>5. \A v \in Value : OnTheWay(v)' <=> OnTheWay(v)
  BY <1>1, <1>2, <1>3, <1>4 DEF OnTheWay
<1>. QED
  BY <1>1, <1>5, StutterStep

\* ... a claim of the tail puts a value the queue has never seen, below its
\* capacity ...
LEMMA PutStep ==
  ASSUME BufferedAssumption, SlotsFit, Data, Data', Once, NEW p \in Proc, Put(p)
  PROVE  \E u \in Value : Fifo!Put(u)
<1>1. /\ Effect /\ UNCHANGED <<deq, val, handoff, got>> /\ enq' = enq + 1
      /\ enq \in Nat /\ deq \in Nat /\ deq <= enq /\ Room /\ p \in Sender
  BY DEF Effect, Put, ClaimEnq, Data, Types, Ring, Positions
<1>2. PICK u \in Value, e \in Nat : u = val[p] /\ e = enq /\ Has("new", 0, u) /\ At(e)' = u
  BY OncePut
<1>3. enq < deq + Capacity
  BY <1>1, RoomFact DEF Data, Ring
<1>4. /\ fifoBar \in Seq(Value) /\ Len(fifoBar) = enq - deq
      /\ fifoBar' \in Seq(Value) /\ Len(fifoBar') = enq - deq + 1
  BY <1>1 DEF Data, Mapped
<1>5. \A k \in Kind, i \in Index : Has(k, i, u) => k = "new"
  BY <1>2 DEF Once, Unique, Kind, Index
<1>6. got[u] = 0
  BY <1>2 DEF Once, Undelivered, Kind, Index
<1>7. ASSUME NEW i \in 1..(enq - deq) PROVE fifoBar[i] # u /\ fifoBar'[i] = fifoBar[i]
  <2>1. PICK k \in deq..(enq - 1) : k = deq + i - 1
    BY <1>1
  <2>2. fifoBar[i] = At(k)
    BY <2>1 DEF Data, Mapped
  <2>3. fifoBar'[i] = At(k)'
    BY <1>1, <2>1 DEF Data, Mapped
  <2>4. At(k) # u
    BY <1>1, <1>5, <2>1 DEF Has, Kind, Index
  <2>. QED
    BY <1>1, <2>2, <2>3, <2>4, AtStays DEF Data
<1>8. fifoBar'[enq - deq + 1] = u
  <2>1. PICK i \in 1..(enq' - deq') : i = enq - deq + 1 /\ e = deq' + i - 1
    BY <1>1, <1>2
  <2>2. fifoBar'[i] = At(e)'
    BY <2>1 DEF Data, Mapped
  <2>. QED
    BY <1>2, <2>1, <2>2
<1>9. fifoBar' = Append(fifoBar, u)
  <2>1. /\ Append(fifoBar, u) \in Seq(Value) /\ Len(Append(fifoBar, u)) = enq - deq + 1
        /\ \A i \in 1..(enq - deq) : Append(fifoBar, u)[i] = fifoBar[i]
        /\ Append(fifoBar, u)[enq - deq + 1] = u
    BY <1>4, AppendProperties
  <2>2. ASSUME NEW i \in 1..(enq - deq + 1) PROVE fifoBar'[i] = Append(fifoBar, u)[i]
    <3>1. i \in 1..(enq - deq) \/ i = enq - deq + 1
      BY <1>1
    <3>. QED
      BY <1>7, <1>8, <2>1, <3>1
  <2>. QED
    BY <1>4, <2>1, <2>2, SeqEqual
<1>10. u \notin heldBar
  <2>1. ~OnTheWay(u)
    BY <1>5, OnWayFact
  <2>. QED
    BY <2>1 DEF Data, Mapped
<1>11. heldBar' = heldBar
  <2>1. \A q \in Proc : (Taker(q)' <=> Taker(q)) /\ (Holder(q)' <=> Holder(q))
    BY DEF Put, Others, Same, Holder, BufferedAssumption
  <2>2. \A q \in Proc : Taker(q) => Taken(q)' = Taken(q)
    BY <1>1, <2>1, TakenStays DEF Data
  <2>3. \A v \in Value : OnTheWay(v)' <=> OnTheWay(v)
    BY <1>1, <2>1, <2>2 DEF OnTheWay
  <2>. QED
    BY <2>3, HeldStays
<1>12. Len(fifoBar) < Capacity
  BY <1>1, <1>3, <1>4 DEF BufferedAssumption
<1>13. \A i \in 1..Len(fifoBar) : fifoBar[i] # u
  BY <1>4, <1>7
<1>. QED
  BY <1>1, <1>6, <1>9, <1>10, <1>11, <1>12, <1>13 DEF Fifo!Put

\* ... a claim of the head takes the oldest ...
LEMMA TakeStep ==
  ASSUME BufferedAssumption, SlotsFit, Data, Data', Once, NEW p \in Proc, Took(p)
  PROVE  Fifo!Take
<1>1. /\ Effect /\ UNCHANGED <<enq, val, handoff, got>> /\ deq' = deq + 1 /\ deq < enq
      /\ enq \in Nat /\ deq \in Nat /\ Taken(p)' = At(deq)
  BY OnceTook DEF Effect, Took, ClaimDeq, Data, Types
<1>2. /\ fifoBar \in Seq(Value) /\ Len(fifoBar) = enq - deq
      /\ fifoBar' \in Seq(Value) /\ Len(fifoBar') = enq - deq - 1
  BY <1>1 DEF Data, Mapped
<1>3. fifoBar # <<>>
  BY <1>1, <1>2, EmptySeq
<1>4. /\ Head(fifoBar) = fifoBar[1]
      /\ Tail(fifoBar) \in Seq(Value) /\ Len(Tail(fifoBar)) = enq - deq - 1
      /\ \A i \in 1..(enq - deq - 1) : Tail(fifoBar)[i] = fifoBar[i + 1]
  BY <1>1, <1>2, <1>3, HeadTailProperties
<1>5. PICK d \in deq..(enq - 1) : d = deq /\ d = deq + 1 - 1 /\ 1 \in 1..(enq - deq)
  BY <1>1
<1>6. Head(fifoBar) = At(d) /\ At(d) \in Value /\ Taken(p)' = At(d)
  BY <1>1, <1>4, <1>5 DEF Data, Mapped
<1>7. ASSUME NEW i \in 1..(enq - deq - 1) PROVE fifoBar'[i] = Tail(fifoBar)[i]
  <2>1. PICK k \in deq..(enq - 1) : k = deq + (i + 1) - 1 /\ k = deq' + i - 1
    BY <1>1
  <2>2. i + 1 \in 1..(enq - deq) /\ i \in 1..(enq' - deq')
    BY <1>1
  <2>3. fifoBar[i + 1] = At(k)
    BY <2>1, <2>2 DEF Data, Mapped
  <2>4. fifoBar'[i] = At(k)'
    BY <2>1, <2>2 DEF Data, Mapped
  <2>. QED
    BY <1>1, <1>4, <2>3, <2>4, AtStays DEF Data
<1>8. fifoBar' = Tail(fifoBar)
  BY <1>2, <1>4, <1>7, SeqEqual
<1>9. heldBar' = heldBar \cup {Head(fifoBar)}
  <2>1. \A q \in Proc : (q # p => (Taker(q)' <=> Taker(q))) /\ (Holder(q)' <=> Holder(q))
        /\ ~Taker(p) /\ Taker(p)'
    BY DEF Took, Others, Same
  <2>2. \A q \in Proc : q # p /\ Taker(q) => Taken(q)' = Taken(q)
    BY <1>1, <2>1, TakenStays DEF Data
  <2>3. \A v \in Value : OnTheWay(v)' <=> OnTheWay(v) \/ v = At(d)
    BY <1>1, <1>6, <2>1, <2>2 DEF OnTheWay
  <2>4. heldBar = {v \in Value : OnTheWay(v)} /\ heldBar' = {v \in Value : OnTheWay(v)'}
    BY DEF Data, Mapped
  <2>. QED
    BY <1>6, <2>3, <2>4
<1>. QED
  BY <1>1, <1>3, <1>8, <1>9 DEF Fifo!Take

\* What a delivery is to the queue: the value was under way, to this caller alone.
LEMMA DeliverStep ==
  ASSUME BufferedAssumption, SlotsFit, Data, Data', Once', Effect, enq' = enq, deq' = deq,
         NEW u \in Value, OnTheWay(u), got[u] = 0, Deliver({u}),
         \A v \in Value : OnTheWay(v) => OnTheWay(v)' \/ v = u,
         \A v \in Value : OnTheWay(v)' => OnTheWay(v)
  PROVE  Fifo!Deliver(u)
<1>1. fifoBar' = fifoBar
  BY FifoStays
<1>2. got \in [Value -> Nat] /\ got' = [got EXCEPT ![u] = 1]
  <2>1. got \in [Value -> Nat]
    BY DEF Data, Types
  <2>2. got' \in [Value -> Nat]
    BY <2>1, DeliverTypes DEF Data
  <2>3. [got EXCEPT ![u] = 1] \in [Value -> Nat]
    BY <2>1
  <2>4. got'[u] = 1 /\ \A v \in Value : v # u => got'[v] = got[v]
    BY <2>1 DEF Deliver
  <2>5. \A v \in Value : got'[v] = [got EXCEPT ![u] = 1][v]
    BY <2>1, <2>4
  <2>. QED
    BY <2>1, <2>2, <2>3, <2>5
<1>3. ~OnTheWay(u)'
  <2>1. got'[u] = 1
    BY <1>2
  <2>. QED
    BY <2>1, OnWayNext
<1>4. heldBar = {v \in Value : OnTheWay(v)} /\ heldBar' = {v \in Value : OnTheWay(v)'}
  BY DEF Data, Mapped
<1>. QED
  BY <1>1, <1>2, <1>3, <1>4 DEF Fifo!Deliver

\* A return delivers the value it read ...
LEMMA ReturnStep ==
  ASSUME BufferedAssumption, SlotsFit, Data, Data', Once, NEW p \in Proc, Returned(p)
  PROVE  \E u \in Value : Fifo!Deliver(u)
<1>1. /\ Effect /\ Once' /\ UNCHANGED <<enq, deq, val, handoff>> /\ Deliver({val[p]})
      /\ Holder(p) /\ ~Holder(p)'
  BY OnceReturned DEF Effect, Returned
<1>2. PICK u \in Value : u = val[p]
  BY OnceReturned
<1>3. got[u] = 0
  <2>1. Has("val", p, u)
    BY <1>2, OnceReturned
  <2>. QED
    BY <2>1 DEF Once, Undelivered, Kind, Index
<1>4. \A q \in Proc : (Taker(q)' <=> Taker(q)) /\ (q # p => (Holder(q)' <=> Holder(q)))
  BY DEF Returned, Others, Same
<1>5. \A q \in Proc : Taker(q) => Taken(q)' = Taken(q)
  BY <1>1, <1>4, TakenStays DEF Data
<1>6. OnTheWay(u)
  BY <1>1, <1>2 DEF OnTheWay
<1>7. \A v \in Value : (OnTheWay(v)' => OnTheWay(v)) /\ (OnTheWay(v) => OnTheWay(v)' \/ v = u)
  BY <1>1, <1>2, <1>4, <1>5 DEF OnTheWay
<1>8. Deliver({u})
  BY <1>1, <1>2
<1>. QED
  BY <1>1, <1>3, <1>6, <1>7, <1>8, DeliverStep

\* ... and a receipt the one it was handed.
LEMMA ReceiveStep ==
  ASSUME BufferedAssumption, SlotsFit, Data, Data', Once, NEW p \in Proc, Received(p)
  PROVE  \E u \in Value : Fifo!Deliver(u)
<1>1. /\ Effect /\ Once' /\ UNCHANGED <<enq, deq, val>> /\ Deliver({handoff[p]})
      /\ p \in Green /\ handoff'[p] = NoValue /\ \A t \in Green \ {p} : handoff'[t] = handoff[t]
  BY OnceReceived DEF Effect, Received, Data, Types
<1>2. PICK u \in Value : u = handoff[p]
  BY OnceReceived
<1>3. got[u] = 0
  <2>1. Has("handoff", p, u)
    BY <1>2, OnceReceived
  <2>. QED
    BY <2>1 DEF Once, Undelivered, Kind, Index
<1>4. \A q \in Proc : (Taker(q)' <=> Taker(q)) /\ (Holder(q)' <=> Holder(q))
  BY DEF Received, Same
<1>5. \A q \in Proc : Taker(q) => Taken(q)' = Taken(q)
  BY <1>1, <1>4, TakenStays DEF Data
<1>6. OnTheWay(u)
  BY <1>1, <1>2 DEF OnTheWay
<1>7. NoValue \notin Value
  BY DEF BufferedAssumption
<1>8. \A v \in Value : (OnTheWay(v)' => OnTheWay(v)) /\ (OnTheWay(v) => OnTheWay(v)' \/ v = u)
  BY <1>1, <1>2, <1>4, <1>5, <1>7 DEF OnTheWay
<1>9. Deliver({u})
  BY <1>1, <1>2
<1>. QED
  BY <1>1, <1>3, <1>6, <1>8, <1>9, DeliverStep

\* Every step is one of the abstract queue, or a stutter ...
LEMMA FifoStep ==
  ASSUME BufferedAssumption, SlotsFit, Inv, [Next]_vars
  PROVE  [Fifo!Next]_(Fifo!vars)
<1>1. Effect /\ Data /\ Data' /\ Once
  BY InvStep DEF Inv
<1>2. CASE UNCHANGED Fifo!vars
  BY <1>2
<1>3. CASE Still
  <2>1. CASE \E p \in Proc : TRUE
    BY <1>1, <1>3, <2>1, StillStep
  <2>2. CASE Proc = {}
    BY <1>1, <1>3, <2>2, StutterStep DEF OnTheWay, BufferedAssumption, Still
  <2>. QED
    BY <2>1, <2>2
<1>4. ASSUME NEW p \in Proc, Begun(p) \/ Wrote(p) PROVE UNCHANGED Fifo!vars
  BY <1>1, <1>4, StillStep
<1>5. ASSUME NEW p \in Proc, Read(p) \/ HandedOver(p) PROVE UNCHANGED Fifo!vars
  BY <1>1, <1>5, ReadStep, HandStep
<1>6. ASSUME NEW p \in Proc, Put(p) PROVE Fifo!Next
  BY <1>1, <1>6, PutStep DEF Fifo!Next
<1>7. ASSUME NEW p \in Proc, Took(p) PROVE Fifo!Next
  BY <1>1, <1>7, TakeStep DEF Fifo!Next
<1>8. ASSUME NEW p \in Proc, Returned(p) \/ Received(p) PROVE Fifo!Next
  BY <1>1, <1>8, ReturnStep, ReceiveStep DEF Fifo!Next
<1>. QED
  BY <1>1, <1>3, <1>4, <1>5, <1>6, <1>7, <1>8 DEF Effect

\* ... and the first state is its first.
LEMMA FifoInit ==
  ASSUME BufferedAssumption, SlotsFit, Init
  PROVE  Fifo!Init
<1>1. Inv /\ enq = 0 /\ deq = 0 /\ got = [v \in Value |-> 0]
  BY InvInit DEF Init
<1>2. Mapped
  BY <1>1, MappedHere DEF Inv, Control
<1>3. fifoBar = <<>>
  BY <1>1, <1>2, EmptySeq DEF Mapped
<1>4. \A v \in Value : ~OnTheWay(v)
  BY DEF Init, OnTheWay, Taker, Holder, BufferedAssumption
<1>5. heldBar = {}
  BY <1>2, <1>4 DEF Mapped
<1>. QED
  BY <1>1, <1>3, <1>5 DEF Fifo!Init

\* A buffered channel is a bounded fifo that delivers every value at most once
\* and loses none on the way, for any number of senders, receivers and laps of
\* its ring, green or not (Ring::try_enqueue, try_dequeue, wake_with).
THEOREM FifoRefined ==
  ASSUME BufferedAssumption, SlotsFit
  PROVE  Spec => FifoSpec
<1>1. Init => Fifo!Init
  BY FifoInit
<1>2. Inv /\ [Next]_vars => [Fifo!Next]_(Fifo!vars)
  BY FifoStep
<1>. QED
  BY <1>1, <1>2, InvAlways, PTL DEF Spec, FifoSpec, Fifo!Spec

-----------------------------------------------------------------------------
-----------------------------------------------------------------------------
(* Wakes                                                                   *)

\* Waiting, or about to be, with no wake to come.
Idle(p) ==
  \/ pc[p] = "wait"
  \/ pc[p] = "park" /\ ~word[p].wake
  \/ pc[p] = "asleep" /\ word[p].st = "parked"

\* A task that waits is listed, so the next wake of its role finds it.
IdleListed == \A t \in Green : Idle(t) => t \in list[RoleOf(t)]

\* Past the check of the closed flag that comes before it parks.
Parking(p) == pc[p] = "register" \/ (p \in Sender /\ pc[p] = "retry")

\* Nobody waits in a closed channel.
ClosedEmpty == closed => \A p \in Proc : ~Idle(p) /\ ~Parking(p)

\* A wake is noted by a task that runs, and taken by one that is parked ...
LEMMA WokenNoted ==
  ASSUME Types, NEW S, WakeAll(S), NEW t \in Green
  PROVE  /\ t \in S /\ word[t].st = "running" => word'[t].wake
         /\ word[t].st = "running" /\ word[t].wake => word'[t].wake
         /\ t \notin S => word'[t] = word[t]
BY DEF WakeAll, Woken, Types, Sched!WokenWord, Sched!Word, Sched!Claimable, Sched!ClaimedWord,
   Sched!Clear, Sched!Pendable, Sched!PendedWord

\* ... so nobody waits whom it reached, and nobody begins to.
LEMMA WokenNotIdle ==
  ASSUME Types, Words, NEW S, WakeAll(S), NEW t \in Green, pc'[t] = pc[t]
  PROVE  Idle(t)' => Idle(t) /\ (t \notin S \/ pc[t] = "wait")
BY WokenNoted, WakeAllFact DEF Idle, Words

\* A task that suspends with a wake noted does not wait.
LEMMA YieldedNoted ==
  ASSUME Types, NEW t \in Green, word' = [word EXCEPT ![t] = Sched!YieldedWord(@)]
  PROVE  /\ word'[t].st = "parked" => ~word[t].wake
         /\ word[t].wake => word'[t].st = "ready"
BY DEF Types, Sched!YieldedWord, Sched!Clear

\* Every step keeps the waiting tasks listed.
LEMMA IdleListedKept ==
  ASSUME BufferedAssumption, Control, IdleListed, [Next]_vars
  PROVE  IdleListed'
<1>. USE DEF IdleListed
<1>0. Types /\ Words /\ Roles
  BY DEF Control
<1>1. ASSUME NEW p \in Proc, Plain(p) PROVE IdleListed'
  BY <1>0, <1>1, PlainStep DEF Idle, BufferedAssumption
<1>2. ASSUME NEW p \in Proc, Register(p) PROVE IdleListed'
  <2>1. \A t \in Green \ {p} : pc'[t] = pc[t] /\ word'[t] = word[t]
    BY <1>0, <1>2 DEF Register, Types, Goto, BufferedAssumption
  <2>2. p \in Green => p \in list'[RoleOf(p)]
    BY <1>0, <1>2, RoleFact DEF Register, Types
  <2>3. \A role \in Role : list[role] \subseteq list'[role]
    BY <1>0, <1>2 DEF Register, Types
  <2>. QED
    BY <2>1, <2>2, <2>3, RoleFact DEF Idle
<1>3. ASSUME NEW p \in Proc, Park(p) PROVE IdleListed'
  <2>1. list' = list /\ p \in Green /\ pc[p] = "park" /\ pc'[p] = "asleep"
        /\ \A t \in Green \ {p} : pc'[t] = pc[t]
    BY <1>0, <1>3 DEF Park, Types, Goto, BufferedAssumption, Roles
  <2>2. word'[p].st = "parked" => ~word[p].wake
    BY <1>0, <1>3, <2>1, YieldedNoted DEF Park
  <2>3. \A t \in Green \ {p} : word'[t] = word[t]
    BY <1>3, <1>0, <2>1, YieldedStep DEF Park
  <2>. QED
    BY <2>1, <2>2, <2>3 DEF Idle
<1>4. ASSUME NEW p \in Proc, Resume(p) PROVE IdleListed'
  BY <1>0, <1>4, ResumedStep DEF Resume, Types, Goto, BufferedAssumption, Roles, Idle
<1>5. ASSUME NEW p \in Proc, Spurious(p) PROVE IdleListed'
  BY <1>0, <1>5 DEF Spurious, Types, Goto, BufferedAssumption, Idle
<1>6. ASSUME NEW p \in Proc, Relock(p) PROVE IdleListed'
  <2>1. \A t \in Green : Idle(t)' => t # p /\ Idle(t)
    BY <1>0, <1>6 DEF Relock, Types, Goto, BufferedAssumption, Idle
  <2>2. \A role \in Role : list[role] \ {p} \subseteq list'[role]
    BY <1>0, <1>6, RoleFact DEF Relock, Types
  <2>. QED
    BY <2>1, <2>2, RoleFact
<1>7. ASSUME NEW p \in Proc, TakeHandoff(p) \/ Deposit(p) \/ HandoffEnqueue(p)
      PROVE IdleListed'
  BY <1>0, <1>7 DEF TakeHandoff, Deposit, HandoffEnqueue, Types, Goto, BufferedAssumption, Idle
<1>8. ASSUME NEW p \in Proc, NEW t \in Green, WakeHandoff(p, t) PROVE IdleListed'
  <2>1. WakeAll({t}) /\ \A u \in Green : u # p => pc'[u] = pc[u]
    BY <1>0, <1>8 DEF WakeHandoff, Types, Goto, BufferedAssumption
  <2>2. p \in Green => ~Idle(p)'
    BY <1>0, <1>8 DEF WakeHandoff, Types, Goto, Idle
  <2>3. \A u \in Green : Idle(u)' => Idle(u) /\ u # p /\ (u # t \/ pc[t] = "wait")
    BY <1>0, <2>1, <2>2, WokenNotIdle
  <2>4. \A role \in Role : list[role] \ {t} \subseteq list'[role]
    BY <1>0, <1>8 DEF WakeHandoff, Types, Role
  <2>5. t \in Green /\ t \in Proc => pc[t] # "wait"
    BY <1>0 DEF Roles
  <2>. QED
    BY <2>3, <2>4, <2>5, RoleFact DEF BufferedAssumption
<1>9. ASSUME NEW p \in Proc, WakeRole(p) PROVE IdleListed'
  <2>1. WakeAll(list[aim[p]])
    BY <1>9 DEF WakeRole
  <2>2. \A u \in Green : pc'[u] # pc[u] => ~Idle(u)'
    BY <1>0, <1>9, GreenStays DEF Idle
  <2>3. \A u \in Green : Idle(u)' => Idle(u) /\ (u \notin list[aim[p]] \/ pc[u] = "wait")
    BY <1>0, <2>1, <2>2, WokenNotIdle
  <2>4. \A role \in Role \ {aim[p]} : list'[role] = list[role]
    BY <1>0, <1>9, RoleWoken
  <2>5. \A u \in Green : u \in Proc /\ pc[u] # "wait"
    BY <1>0 DEF Roles, BufferedAssumption
  <2>. QED
    BY <2>3, <2>4, <2>5, RoleFact
<1>10. CASE Close
  <2>1. WakeAll(list["send"] \cup list["recv"])
    BY <1>10 DEF Close
  <2>2. \A u \in Green : u \in Proc /\ pc'[u] = pc[u] /\ pc[u] # "wait"
    BY <1>0, <1>10 DEF Close, BufferedAssumption, Roles
  <2>3. \A u \in Green : Idle(u)' => Idle(u) /\ u \notin list["send"] \cup list["recv"]
    BY <1>0, <2>1, <2>2, WokenNotIdle
  <2>. QED
    BY <2>3 DEF RoleOf
<1>11. ASSUME NEW t \in Green, ParkElsewhere(t) PROVE IdleListed'
  BY <1>0, <1>11, YieldedStep DEF ParkElsewhere, Types, Goto, BufferedAssumption, Idle
<1>12. ASSUME NEW t \in Green, ResumeElsewhere(t) PROVE IdleListed'
  BY <1>0, <1>12, ResumedStep DEF ResumeElsewhere, Types, Goto, BufferedAssumption, Idle
<1>13. ASSUME NEW t \in Green, StrayWake(t) PROVE IdleListed'
  <2>1. WakeAll({t}) /\ pc' = pc /\ list' = list
    BY <1>13 DEF StrayWake
  <2>2. \A u \in Green : Idle(u)' => Idle(u)
    BY <1>0, <2>1, WokenNotIdle
  <2>. QED
    BY <2>1, <2>2
<1>14. CASE UNCHANGED vars
  BY <1>14 DEF vars, Idle
<1>. QED
  BY <1>1, <1>2, <1>3, <1>4, <1>5, <1>6, <1>7, <1>8, <1>9, <1>10, <1>11, <1>12, <1>13, <1>14
  DEF Next, Step, Plain

\* A step that neither closes the channel nor lets anybody come to wait in it.
LEMMA ClosedSame ==
  ASSUME ClosedEmpty, closed' => closed,
         \A q \in Proc : closed /\ (Idle(q)' \/ Parking(q)') => Idle(q) \/ Parking(q)
  PROVE  ClosedEmpty'
BY DEF ClosedEmpty

\* Every step keeps a closed channel empty.
LEMMA ClosedEmptyKept ==
  ASSUME BufferedAssumption, Control, IdleListed, ClosedEmpty, [Next]_vars
  PROVE  ClosedEmpty'
<1>0. Types /\ Words /\ Roles /\ LockHeld
  BY DEF Control
<1>1. ASSUME NEW p \in Proc, Plain(p) PROVE ClosedEmpty'
  <2>1. \A q \in Proc \ {p} : (Idle(q)' => Idle(q)) /\ (Parking(q)' => Parking(q))
    BY <1>0, <1>1, PlainStep DEF Idle, Parking
  <2>2. ~Idle(p)'
    BY <1>0, <1>1, PlainStep DEF Idle
  <2>3. closed' = closed
    BY <1>1 DEF Plain, Send, Recv, Check, Try, Published, Slow, Retry, Republished, Recheck,
                GateShut, GateOpen, Fetch
  <2>4. pc[p] # "retry" /\ pc'[p] = "register" => ~closed
    BY <1>0, <1>1 DEF Plain, Send, Recv, Check, Try, Published, Slow, Retry, Republished, Recheck,
                GateShut, GateOpen, Fetch, Goto, Types
  <2>5. pc[p] = "retry" /\ pc'[p] = "register" => p \in Sender
    BY <1>0, <1>1 DEF Plain, Send, Recv, Check, Try, Published, Slow, Retry, Republished, Recheck,
                GateShut, GateOpen, Fetch, Goto, Types
  <2>6. p \in Sender /\ pc'[p] = "retry" => ~closed
    BY <1>0, <1>1 DEF Plain, Send, Recv, Check, Try, Published, Slow, Retry, Republished, Recheck,
                GateShut, GateOpen, Fetch, Goto, Types
  <2>. QED
    BY <2>1, <2>2, <2>3, <2>4, <2>5, <2>6, ClosedSame DEF Parking
<1>2. ASSUME NEW p \in Proc, Register(p) PROVE ClosedEmpty'
  <2>1. Parking(p) /\ closed' = closed
    BY <1>2 DEF Register, Parking
  <2>. QED
    BY <1>0, <1>2, <2>1 DEF ClosedEmpty, Register, Types, Goto, Idle, Parking
<1>3. ASSUME NEW p \in Proc, Park(p) PROVE ClosedEmpty'
  <2>1. closed' = closed /\ p \in Green /\ pc[p] = "park" /\ pc'[p] = "asleep"
        /\ \A q \in Proc \ {p} : pc'[q] = pc[q]
    BY <1>0, <1>3 DEF Park, Types, Goto, Roles
  <2>2. word'[p].st = "parked" => ~word[p].wake
    BY <1>0, <1>3, <2>1, YieldedNoted DEF Park
  <2>3. \A t \in Green \ {p} : word'[t] = word[t]
    BY <1>3, <1>0, <2>1, YieldedStep DEF Park
  <2>4. \A q \in Proc : pc[q] \in {"park", "asleep"} => q \in Green
    BY <1>0 DEF Roles
  <2>. QED
    BY <2>1, <2>2, <2>3, <2>4, ClosedSame DEF Idle, Parking
<1>4. ASSUME NEW p \in Proc, Resume(p) PROVE ClosedEmpty'
  <2>1. p \in Green /\ pc'[p] = "relock" /\ closed' = closed
        /\ \A q \in Proc \ {p} : pc'[q] = pc[q]
    BY <1>0, <1>4 DEF Resume, Roles, Types, Goto
  <2>2. \A t \in Green \ {p} : word'[t] = word[t]
    BY <1>0, <1>4, <2>1, ResumedStep DEF Resume
  <2>3. \A q \in Proc : pc[q] \in {"park", "asleep"} => q \in Green
    BY <1>0 DEF Roles
  <2>. QED
    BY <2>1, <2>2, <2>3, ClosedSame DEF Idle, Parking
<1>5. ASSUME NEW p \in Proc,
             Spurious(p) \/ Relock(p) \/ TakeHandoff(p) \/ Deposit(p) \/ HandoffEnqueue(p)
      PROVE ClosedEmpty'
  BY <1>0, <1>5, ClosedSame DEF Spurious, Relock, TakeHandoff, Deposit, HandoffEnqueue, Types, Goto,
     Idle, Parking
<1>6. ASSUME NEW p \in Proc, NEW t \in Green, WakeHandoff(p, t) PROVE ClosedEmpty'
  <2>1. WakeAll({t}) /\ closed' = closed /\ \A q \in Proc : q # p => pc'[q] = pc[q]
    BY <1>0, <1>6 DEF WakeHandoff, Types, Goto
  <2>2. ~Idle(p)' /\ ~Parking(p)'
    BY <1>0, <1>6 DEF WakeHandoff, Types, Goto, Idle, Parking
  <2>3. \A q \in Proc : q # p /\ q \in Green => (Idle(q)' => Idle(q))
    BY <1>0, <2>1, WokenNotIdle
  <2>4. \A q \in Proc : pc[q] \in {"park", "asleep"} => q \in Green
    BY <1>0 DEF Roles
  <2>5. \A q \in Proc : q # p /\ q \notin Green => (Idle(q)' => Idle(q))
    BY <2>1, <2>4 DEF Idle
  <2>. QED
    BY <2>1, <2>2, <2>3, <2>5, ClosedSame DEF Parking
<1>7. ASSUME NEW p \in Proc, WakeRole(p) PROVE ClosedEmpty'
  <2>1. WakeAll(list[aim[p]]) /\ closed' = closed
    BY <1>7 DEF WakeRole
  <2>2. \A q \in Proc : pc'[q] = pc[q] \/ pc'[q] \in {"idle", "relock"}
    BY <1>0, <1>7, RoleWoken
  <2>3. \A q \in Proc : q \in Green => (Idle(q)' => Idle(q))
    <3>1. \A q \in Green : pc'[q] = pc[q] => (Idle(q)' => Idle(q))
      BY <1>0, <2>1, WokenNotIdle
    <3>. QED
      BY <2>2, <3>1 DEF Idle
  <2>4. \A q \in Proc : pc[q] \in {"park", "asleep"} => q \in Green
    BY <1>0 DEF Roles
  <2>5. \A q \in Proc : q \notin Green => (Idle(q)' => Idle(q))
    BY <2>2, <2>4 DEF Idle
  <2>. QED
    BY <2>1, <2>2, <2>3, <2>5, ClosedSame DEF Parking
<1>8. CASE Close
  <2>1. WakeAll(list["send"] \cup list["recv"]) /\ lock = NoProc
        /\ \A q \in Proc : pc'[q] = IF pc[q] = "wait" THEN "relock" ELSE pc[q]
    BY <1>8 DEF Close
  <2>2. \A q \in Proc : pc[q] \notin {"register", "retry"}
    BY <1>0, <2>1 DEF LockHeld, Critical, BufferedAssumption
  <2>3. \A u \in Green : ~Idle(u)'
    <3>1. \A u \in Green : u \in Proc /\ pc[u] # "wait"
      BY <1>0 DEF BufferedAssumption, Roles
    <3>2. \A u \in Green : Idle(u)' => Idle(u) /\ u \notin list["send"] \cup list["recv"]
      BY <1>0, <2>1, <3>1, WokenNotIdle
    <3>. QED
      BY <3>2 DEF IdleListed, RoleOf
  <2>4. \A q \in Proc : pc[q] \in {"park", "asleep"} => q \in Green
    BY <1>0 DEF Roles
  <2>. QED
    BY <2>1, <2>2, <2>3, <2>4 DEF ClosedEmpty, Idle, Parking
<1>9. ASSUME NEW t \in Green, ParkElsewhere(t) \/ ResumeElsewhere(t) PROVE ClosedEmpty'
  <2>1. closed' = closed /\ pc'[t] \in {"away", "idle"} /\ t \in Proc
        /\ \A q \in Proc \ {t} : pc'[q] = pc[q]
    BY <1>0, <1>9 DEF ParkElsewhere, ResumeElsewhere, Types, Goto, BufferedAssumption
  <2>2. \A u \in Green \ {t} : word'[u] = word[u]
    BY <1>0, <1>9, YieldedStep, ResumedStep DEF ParkElsewhere, ResumeElsewhere
  <2>3. \A q \in Proc : pc[q] \in {"park", "asleep"} => q \in Green
    BY <1>0 DEF Roles
  <2>. QED
    BY <2>1, <2>2, <2>3, ClosedSame DEF Idle, Parking
<1>10. ASSUME NEW t \in Green, StrayWake(t) PROVE ClosedEmpty'
  <2>1. WakeAll({t}) /\ pc' = pc /\ closed' = closed
    BY <1>10 DEF StrayWake
  <2>2. \A u \in Green : Idle(u)' => Idle(u)
    BY <1>0, <2>1, WokenNotIdle
  <2>3. \A q \in Proc : pc[q] \in {"park", "asleep"} => q \in Green
    BY <1>0 DEF Roles
  <2>. QED
    BY <2>1, <2>2, <2>3, ClosedSame DEF Idle, Parking
<1>11. CASE UNCHANGED vars
  BY <1>11 DEF vars, ClosedEmpty, Idle, Parking
<1>. QED
  BY <1>1, <1>2, <1>3, <1>4, <1>5, <1>6, <1>7, <1>8, <1>9, <1>10, <1>11 DEF Next, Step, Plain

-----------------------------------------------------------------------------
(* What is published, and who is on the way to it                          *)

\* Slots are published in the order they were claimed in: a second sender can
\* claim one only after the first has been published and taken, or there is no
\* second sender.
InOrder == Capacity = 1 \/ \A p, q \in Sender : p = q

\* A slot that is claimed and not published is the last one claimed.
LastPut == \A p \in Proc : Putter(p) => enq = pos[p] + 1

\* No other slot is, when a sender finds room.
LEMMA NoPutter ==
  ASSUME BufferedAssumption, SlotsFit, InOrder, Types, Ring, Room,
         NEW p \in Sender, ~Putter(p), NEW q \in Proc
  PROVE  ~Putter(q)
<1>1. CASE \A r, s \in Sender : r = s
  BY <1>1 DEF Putter
<1>2. CASE Capacity = 1
  <2>1. enq \in Nat /\ deq \in Nat /\ pos[q] \in Nat /\ enq < deq + 1
    BY <1>2, RoomFact DEF Types, Ring
  <2>2. Putter(q) => deq <= pos[q] /\ pos[q] < enq
    BY DEF Ring, Positions
  <2>. QED
    BY <2>1, <2>2
<1>. QED
  BY <1>1, <1>2 DEF InOrder

\* Every step keeps it the last.
LEMMA LastPutKept ==
  ASSUME BufferedAssumption, SlotsFit, InOrder, Types, Ring, LastPut, Effect
  PROVE  LastPut'
<1>1. CASE Still
  BY <1>1 DEF Still, Same, LastPut
<1>2. ASSUME NEW p \in Proc, Put(p) PROVE LastPut'
  <2>1. enq' = enq + 1 /\ pos'[p] = enq /\ Room /\ p \in Sender /\ ~Putter(p)
    BY <1>2 DEF Put, ClaimEnq, Types
  <2>2. \A q \in Proc \ {p} : ~Putter(q)'
    BY <1>2, <2>1, NoPutter DEF Put, Others, Same
  <2>. QED
    BY <2>1, <2>2 DEF LastPut
<1>3. ASSUME NEW p \in Proc, Begun(p) \/ Returned(p) \/ Received(p) PROVE LastPut'
  BY <1>3 DEF Begun, Returned, Received, Others, Same, LastPut
<1>4. ASSUME NEW p \in Proc, Took(p) \/ Wrote(p) \/ Read(p) \/ HandedOver(p) PROVE LastPut'
  <2>1. enq' = enq /\ ~Putter(p)'
    BY <1>4 DEF Took, Wrote, Read, HandedOver, ClaimDeq, PublishEnq, PublishDeq
  <2>2. \A q \in Proc \ {p} : pos'[q] = pos[q] /\ (Putter(q)' => Putter(q))
    BY <1>4 DEF Took, Wrote, Read, HandedOver, ClaimDeq, PublishEnq, PublishDeq, Others, Same,
                Types
  <2>. QED
    BY <2>1, <2>2 DEF LastPut
<1>. QED
  BY <1>1, <1>2, <1>3, <1>4 DEF Effect

\* How many values are in the ring for a receiver to take.
Load == enq - deq - (IF \E p \in Proc : Putter(p) THEN 1 ELSE 0)

\* When the head is not published there is nothing behind it either.
LEMMA NothingBehind ==
  ASSUME BufferedAssumption, SlotsFit, Types, Ring, LastPut, ~HeadReady
  PROVE  Load <= 0
<1>1. enq \in Nat /\ deq \in Nat /\ deq <= enq
  BY DEF Types, Ring, Positions
<1>2. CASE enq = deq
  BY <1>1, <1>2 DEF Load
<1>3. CASE enq # deq
  <2>1. deq \in deq..(enq - 1)
    BY <1>1, <1>3
  <2>2. seq[Slot(deq)] = IF Putting(deq) THEN deq ELSE deq + 1
    BY <2>1 DEF Ring, Slots
  <2>3. PICK p \in Proc : Putter(p) /\ pos[p] = deq
    BY <2>2 DEF HeadReady, Putting
  <2>4. enq = deq + 1
    BY <2>3 DEF LastPut
  <2>. QED
    BY <1>1, <2>3, <2>4 DEF Load
<1>. QED
  BY <1>2, <1>3

\* The number stays the same while nobody claims or publishes ...
LEMMA LoadSame ==
  ASSUME Types, Types', enq' = enq, deq' = deq, \A q \in Proc : Putter(q)' <=> Putter(q)
  PROVE  Load \in Int /\ Load' \in Int /\ Load' = Load
BY DEF Types, Load

\* ... and when a sender claims, which has published nothing yet ...
LEMMA LoadPut ==
  ASSUME Types, Types', enq' = enq + 1, deq' = deq, NEW p \in Proc, Putter(p)',
         \A q \in Proc : ~Putter(q)
  PROVE  Load \in Int /\ Load' \in Int /\ Load' = Load
<1>1. enq \in Nat /\ deq \in Nat
  BY DEF Types
<1>2. Load = enq - deq - 0
  BY DEF Load
<1>3. Load' = enq' - deq' - 1
  BY DEF Load
<1>. QED
  BY <1>1, <1>2, <1>3

\* ... goes up when it publishes ...
LEMMA LoadWrote ==
  ASSUME Types, Types', enq' = enq, deq' = deq, NEW p \in Proc, Putter(p),
         \A q \in Proc : ~Putter(q)'
  PROVE  Load \in Int /\ Load' \in Int /\ Load' = Load + 1
<1>1. enq \in Nat /\ deq \in Nat
  BY DEF Types
<1>2. Load = enq - deq - 1
  BY DEF Load
<1>3. Load' = enq' - deq' - 0
  BY DEF Load
<1>. QED
  BY <1>1, <1>2, <1>3

\* ... and comes down with the head.
LEMMA LoadTook ==
  ASSUME Types, Types', enq' = enq, deq' = deq + 1, \A q \in Proc : Putter(q)' <=> Putter(q)
  PROVE  Load \in Int /\ Load' \in Int /\ Load' = Load - 1
BY DEF Types, Load

\* A receiver that waits, or has looked under the lock and is about to.
Hungry(r) == r \in Receiver /\ (Idle(r) \/ pc[r] \in {"recheck", "register"})

\* A receiver on its way to the ring, which owes that to no wake still listed
\* and has been handed nothing.
Looking(r) ==
  /\ r \in Receiver /\ r \notin list["recv"]
  /\ r \in Green => handoff[r] = NoValue /\ ~InHand(r)
  /\ \/ pc[r] \in {"relock", "resumed", "try", "check", "slow", "retry"}
     \/ pc[r] = "park" /\ word[r].wake
     \/ pc[r] = "asleep" /\ word[r].st = "ready"

\* A sender on its way to wake one, or to dequeue for it.
Waking(p) ==
  p \in Sender /\ (pc[p] = "fetch" \/ (pc[p] \in {"gate", "wake"} /\ aim[p] = "recv"))

\* Whoever is on the way to a value.
Come(p) == Looking(p) \/ Waking(p)
Coming == {p \in Proc : Come(p)}

\* While a receiver waits, nobody forgets a value: for each one in the ring
\* somebody is on the way.
RecvSeen == ~closed /\ (\E r \in Proc : Hungry(r)) => Load <= Cardinality(Coming)

\* They are finitely many.
LEMMA ComingFinite ==
  ASSUME BufferedAssumption
  PROVE  /\ IsFiniteSet(Coming) /\ Cardinality(Coming) \in Nat
         /\ IsFiniteSet(Coming') /\ Cardinality(Coming') \in Nat
<1>1. Coming \subseteq Proc /\ Coming' \subseteq Proc
  BY DEF Coming
<1>. QED
  BY <1>1, FS_Subset, FS_CardinalityType DEF BufferedAssumption

\* Without one of them they are one fewer at most.
LEMMA ComingWithout ==
  ASSUME BufferedAssumption, NEW p
  PROVE  /\ IsFiniteSet(Coming \ {p}) /\ Cardinality(Coming \ {p}) \in Nat
         /\ Cardinality(Coming) <= Cardinality(Coming \ {p}) + 1
<1>1. IsFiniteSet(Coming) /\ Cardinality(Coming) \in Nat
  BY ComingFinite
<1>2. IsFiniteSet(Coming \ {p})
  BY <1>1, FS_RemoveElement
<1>3. Cardinality(Coming \ {p}) =
        IF p \in Coming THEN Cardinality(Coming) - 1 ELSE Cardinality(Coming)
  BY <1>1, FS_RemoveElement
<1>4. Cardinality(Coming \ {p}) \in Nat
  BY <1>2, FS_CardinalityType
<1>. QED
  BY <1>1, <1>2, <1>3, <1>4

\* It stays so when nobody turns away ...
LEMMA RecvStays ==
  ASSUME BufferedAssumption, RecvSeen, closed' = closed,
         Load \in Int, Load' \in Int, Load' <= Load,
         \A q \in Proc : (Come(q) => Come(q)') /\ (Hungry(q)' => Hungry(q))
  PROVE  RecvSeen'
<1>1. Coming \subseteq Coming'
  BY DEF Coming
<1>2. Cardinality(Coming) <= Cardinality(Coming')
  BY <1>1, ComingFinite, FS_Subset
<1>. QED
  BY <1>2, ComingFinite DEF RecvSeen

\* ... when one comes for a value that is new ...
LEMMA RecvGains ==
  ASSUME BufferedAssumption, RecvSeen, closed' = closed,
         Load \in Int, Load' \in Int, Load' = Load + 1, NEW p \in Proc, ~Come(p), Come(p)',
         \A q \in Proc : (Come(q) => Come(q)') /\ (Hungry(q)' => Hungry(q))
  PROVE  RecvSeen'
<1>1. Coming \cup {p} \subseteq Coming' /\ p \notin Coming
  BY DEF Coming
<1>2. Cardinality(Coming \cup {p}) = Cardinality(Coming) + 1
  BY <1>1, ComingFinite, FS_AddElement
<1>3. Cardinality(Coming) + 1 <= Cardinality(Coming')
  BY <1>1, <1>2, ComingFinite, FS_Subset
<1>. QED
  BY <1>3, ComingFinite DEF RecvSeen

\* ... when one leaves with a value ...
LEMMA RecvLoses ==
  ASSUME BufferedAssumption, RecvSeen, closed' = closed,
         Load \in Int, Load' \in Int, Load' = Load - 1, NEW p \in Proc,
         \A q \in Proc \ {p} : (Come(q) => Come(q)') /\ (Hungry(q)' => Hungry(q)),
         ~Hungry(p)'
  PROVE  RecvSeen'
<1>1. Coming \ {p} \subseteq Coming'
  BY DEF Coming
<1>2. Cardinality(Coming) <= Cardinality(Coming \ {p}) + 1 /\ Cardinality(Coming \ {p}) \in Nat
  BY ComingWithout
<1>3. Cardinality(Coming \ {p}) <= Cardinality(Coming')
  BY <1>1, ComingFinite, FS_Subset
<1>. QED
  BY <1>2, <1>3, ComingFinite DEF RecvSeen

\* ... and when one sends another in its place.
LEMMA RecvSwaps ==
  ASSUME BufferedAssumption, RecvSeen, closed' = closed,
         Load \in Int, Load' \in Int, Load' = Load, NEW p \in Proc, NEW o \in Proc,
         o # p, ~Come(o), Come(o)',
         \A q \in Proc \ {p} : (Come(q) => Come(q)') /\ (Hungry(q)' => Hungry(q)),
         ~Hungry(p)'
  PROVE  RecvSeen'
<1>1. (Coming \ {p}) \cup {o} \subseteq Coming' /\ o \notin Coming \ {p}
  BY DEF Coming
<1>2. /\ Cardinality(Coming) <= Cardinality(Coming \ {p}) + 1
      /\ Cardinality(Coming \ {p}) \in Nat /\ IsFiniteSet(Coming \ {p})
  BY ComingWithout
<1>3. Cardinality((Coming \ {p}) \cup {o}) = Cardinality(Coming \ {p}) + 1
  BY <1>1, <1>2, FS_AddElement
<1>4. Cardinality(Coming \ {p}) + 1 <= Cardinality(Coming')
  BY <1>1, <1>3, ComingFinite, FS_Subset
<1>. QED
  BY <1>2, <1>4, ComingFinite DEF RecvSeen

\* Nobody has to be on the way to a ring with nothing to take.
LEMMA RecvEmpty ==
  ASSUME BufferedAssumption, Load \in Int, Load' = Load, Load <= 0
  PROVE  RecvSeen'
BY ComingFinite DEF RecvSeen

\* Only one slot is claimed and not published.
LEMMA OnePutter ==
  ASSUME Types, Ring, LastPut, NEW p \in Proc, NEW q \in Proc, Putter(p), Putter(q)
  PROVE  p = q
<1>1. enq \in Nat /\ pos[p] \in Nat /\ pos[q] \in Nat
  BY DEF Types
<1>2. pos[p] = pos[q]
  BY <1>1 DEF LastPut
<1>. QED
  BY <1>2 DEF Ring, Positions

\* A step that leaves a process alone, as far as waiting and waking go.
Fixed(q) ==
  /\ pc'[q] = pc[q] /\ aim'[q] = aim[q]
  /\ q \in list'["recv"] <=> q \in list["recv"]
  /\ q \in Green => word'[q] = word[q] /\ handoff'[q] = handoff[q] /\ (InHand(q)' <=> InHand(q))

\* It is where it was.
LEMMA FixedSame ==
  ASSUME Roles, NEW q \in Proc, Fixed(q)
  PROVE  (Come(q)' <=> Come(q)) /\ (Hungry(q)' <=> Hungry(q)) /\ (Putter(q)' <=> Putter(q))
<1>1. pc[q] \in {"park", "asleep"} => q \in Green
  BY DEF Roles
<1>2. Idle(q)' <=> Idle(q)
  BY <1>1 DEF Fixed, Idle
<1>3. Looking(q)' <=> Looking(q)
  BY <1>1 DEF Fixed, Looking
<1>. QED
  BY <1>2, <1>3 DEF Fixed, Come, Waking, Hungry, Putter

\* A plain step leaves everybody else alone ...
LEMMA PlainFixed ==
  ASSUME Types, NEW p \in Proc, Plain(p)
  PROVE  /\ \A q \in Proc \ {p} : Fixed(q)
         /\ closed' = closed
         /\ ~Idle(p)'
<1>1. \A q \in Proc \ {p} : aim'[q] = aim[q]
  BY DEF Plain, Send, Recv, Check, Try, Published, Slow, Retry, Republished, Recheck, GateShut,
         GateOpen, Fetch, Types
<1>2. closed' = closed
  BY DEF Plain, Send, Recv, Check, Try, Published, Slow, Retry, Republished, Recheck, GateShut,
         GateOpen, Fetch
<1>3. ~Idle(p)'
  BY PlainStep DEF Idle
<1>. QED
  BY <1>1, <1>2, <1>3, PlainStep DEF Fixed, InHand

\* ... and while it touches no ring and keeps its own process on its way, it
\* keeps the rest.
LEMMA PlainRecv ==
  ASSUME BufferedAssumption, Types, Types', Roles, RecvSeen, NEW p \in Proc, Plain(p),
         enq' = enq, deq' = deq, Putter(p)' <=> Putter(p),
         Come(p) => Come(p)', Hungry(p)' => Hungry(p)
  PROVE  RecvSeen'
<1>1. \A q \in Proc : (Come(q) => Come(q)') /\ (Hungry(q)' => Hungry(q))
  BY PlainFixed, FixedSame
<1>2. \A q \in Proc : Putter(q)' <=> Putter(q)
  BY PlainFixed, FixedSame
<1>3. Load \in Int /\ Load' \in Int /\ Load' = Load
  BY <1>2, LoadSame
<1>. QED
  BY <1>1, <1>3, PlainFixed, RecvStays

\* A claim: a sender's brings nothing to take yet, and a receiver, or a sender
\* for one, leaves with a value.
LEMMA ClaimRecv ==
  ASSUME BufferedAssumption, SlotsFit, InOrder, Types, Types', Roles, Ring, RecvSeen,
         NEW p \in Proc, Plain(p), pc[p] \notin {"publish", "republish"},
         \/ /\ p \in Sender /\ ClaimEnq(p) /\ pc'[p] \in {"publish", "republish"} /\ ~Come(p)
         \/ ClaimDeq(p) /\ (p \in Sender => pc'[p] = "deposit")
               /\ pc'[p] \in {"publish", "republish", "deposit"}
  PROVE  RecvSeen'
<1>1. /\ \A q \in Proc \ {p} : /\ (Come(q) => Come(q)') /\ (Hungry(q)' => Hungry(q))
                               /\ Putter(q)' <=> Putter(q)
      /\ closed' = closed
  BY PlainFixed, FixedSame
<1>2. ~Hungry(p)' /\ ~Putter(p)
  BY PlainFixed DEF Hungry, Putter
<1>3. CASE p \in Sender /\ ClaimEnq(p) /\ pc'[p] \in {"publish", "republish"} /\ ~Come(p)
  <2>1. \A q \in Proc : ~Putter(q)
    BY <1>2, <1>3, NoPutter DEF ClaimEnq
  <2>2. Load \in Int /\ Load' \in Int /\ Load' = Load
    <3>1. enq' = enq + 1 /\ deq' = deq /\ Putter(p)'
      BY <1>3 DEF ClaimEnq, Putter
    <3>. QED
      BY <2>1, <3>1, LoadPut
  <2>. QED
    BY <1>1, <1>2, <1>3, <2>2, RecvStays
<1>4. CASE /\ ClaimDeq(p) /\ (p \in Sender => pc'[p] = "deposit")
           /\ pc'[p] \in {"publish", "republish", "deposit"}
  <2>1. enq' = enq /\ deq' = deq + 1 /\ ~Putter(p)'
    BY <1>4 DEF ClaimDeq, Putter
  <2>2. Load \in Int /\ Load' \in Int /\ Load' = Load - 1
    BY <1>1, <1>2, <2>1, LoadTook
  <2>. QED
    BY <1>1, <1>2, <2>2, RecvLoses
<1>. QED
  BY <1>3, <1>4

\* A look at an empty ring.
LEMMA EmptyRecv ==
  ASSUME BufferedAssumption, SlotsFit, Types, Types', Ring, LastPut, Roles,
         NEW p \in Proc, Plain(p), enq' = enq, deq' = deq, Putter(p)' <=> Putter(p), ~HeadReady
  PROVE  RecvSeen'
<1>1. \A q \in Proc : Putter(q)' <=> Putter(q)
  BY PlainFixed, FixedSame
<1>2. Load \in Int /\ Load' = Load /\ Load <= 0
  BY <1>1, LoadSame, NothingBehind
<1>. QED
  BY <1>2, RecvEmpty

\* A publication: a sender's is followed by its wake.
LEMMA PublishRecv ==
  ASSUME BufferedAssumption, SlotsFit, Types, Types', Roles, Ring, LastPut, RecvSeen,
         NEW p \in Proc, Plain(p), pc[p] \in {"publish", "republish"}, pc'[p] = "gate",
         Publish(p), aim' = [aim EXCEPT ![p] = Other(RoleOf(p))]
  PROVE  RecvSeen'
<1>1. /\ \A q \in Proc \ {p} : /\ (Come(q) => Come(q)') /\ (Hungry(q)' => Hungry(q))
                               /\ Putter(q)' <=> Putter(q)
      /\ closed' = closed
  BY PlainFixed, FixedSame
<1>2. /\ ~Hungry(p)' /\ ~Putter(p)' /\ ~Come(p)
      /\ enq' = enq /\ deq' = deq
  BY PlainFixed DEF Hungry, Putter, Come, Looking, Waking, Publish, PublishEnq, PublishDeq
<1>3. CASE p \in Sender
  <2>1. Putter(p) /\ Come(p)'
    BY <1>3 DEF Putter, Come, Waking, Other, RoleOf, Types
  <2>2. \A q \in Proc : ~Putter(q)'
    BY <1>1, <1>2, <2>1, OnePutter
  <2>3. Load \in Int /\ Load' \in Int /\ Load' = Load + 1
    BY <1>2, <2>1, <2>2, LoadWrote
  <2>. QED
    BY <1>1, <1>2, <2>1, <2>3, RecvGains
<1>4. CASE p \notin Sender
  <2>1. \A q \in Proc : Putter(q)' <=> Putter(q)
    BY <1>1, <1>4 DEF Putter
  <2>2. Load \in Int /\ Load' \in Int /\ Load' = Load
    BY <1>2, <2>1, LoadSame
  <2>. QED
    BY <1>1, <1>2, <2>2, RecvStays
<1>. QED
  BY <1>3, <1>4

\* With the gate at zero nobody waits.
LEMMA GateZero ==
  ASSUME BufferedAssumption, Types, GateCounts, NEW p \in Proc, gate[RoleOf(p)] = 0
  PROVE  pc[p] \notin Counting
<1>1. Cardinality(Counted(RoleOf(p))) = 0
  BY RoleFact DEF GateCounts, Counted, Counting
<1>2. Counted(RoleOf(p)) = {}
  BY <1>1, CountedFinite, FS_EmptySet
<1>. QED
  BY <1>2 DEF Counted

\* A plain step forgets no value.
LEMMA RecvKeptPlain ==
  ASSUME BufferedAssumption, SlotsFit, InOrder, Types, Types', Roles, GateCounts, Ring, LastPut,
         RecvSeen, NEW p \in Proc, Plain(p)
  PROVE  RecvSeen'
<1>. USE DEF Come, Looking, Waking, Hungry, Putter
<1>1. ~Idle(p)' /\ closed' = closed /\ list' = list /\ word' = word /\ hand' = hand
      /\ handoff' = handoff
  BY PlainFixed, PlainStep
<1>2. (p \in Sender => p \notin Receiver) /\ (p \in Receiver => p \notin Sender)
  BY DEF BufferedAssumption
<1>3. CASE Send(p)
  BY <1>1, <1>2, <1>3, PlainRecv DEF Send, Goto, Types, ringVars
<1>4. CASE Recv(p)
  BY <1>1, <1>2, <1>4, PlainRecv DEF Recv, Goto, Types, ringVars
<1>5. CASE Check(p)
  <2>1. CASE closed
    BY <1>1, <2>1 DEF RecvSeen
  <2>2. CASE ~closed
    <3>1. Come(p) => Come(p)'
      BY <1>1, <1>2, <1>5, <2>2 DEF Check, Goto, Types, InHand
    <3>. QED
      BY <1>1, <1>2, <1>5, <2>2, <3>1, PlainRecv DEF Check, Goto, Types, ringVars
  <2>. QED
    BY <2>1, <2>2
<1>6. CASE Try(p) \/ Retry(p)
  <2>1. pc[p] \notin {"publish", "republish"} /\ pc[p] \in {"try", "look", "once", "retry"}
    BY <1>6 DEF Try, Retry
  <2>2. CASE Claim(p)
    <3>1. pc'[p] \in {"publish", "republish"}
      <4>1. CanClaim(p)
        BY <2>2 DEF Claim, CanClaim, ClaimEnq, ClaimDeq
      <4>. QED
        BY <1>6, <4>1 DEF Try, Retry, Goto, Types
    <3>2. p \in Sender => ~Come(p)
      BY <1>2, <2>1
    <3>3. CASE p \in Sender
      <4>1. ClaimEnq(p)
        BY <2>2, <3>3 DEF Claim
      <4>. QED
        BY <2>1, <3>1, <3>2, <3>3, <4>1, ClaimRecv
    <3>4. CASE p \notin Sender
      <4>1. ClaimDeq(p)
        BY <2>2, <3>4 DEF Claim
      <4>. QED
        BY <2>1, <3>1, <3>4, <4>1, ClaimRecv
    <3>. QED
      BY <3>3, <3>4
  <2>3. CASE ~Claim(p)
    <3>1. /\ ~CanClaim(p) /\ enq' = enq /\ deq' = deq
          /\ pc'[p] \in {"idle", "slow", "check", "register", "recheck"}
          /\ p \notin Receiver => pc'[p] # "check"
      BY <1>2, <1>6, <2>3 DEF Try, Retry, Goto, Types, ringVars, Proc
    <3>2. CASE p \in Sender
      BY <1>1, <1>2, <2>1, <3>1, <3>2, PlainRecv
    <3>3. CASE p \notin Sender
      <4>1. ~HeadReady
        BY <3>1, <3>3 DEF CanClaim
      <4>. QED
        BY <3>1, <3>3, <4>1, EmptyRecv
    <3>. QED
      BY <3>2, <3>3
  <2>. QED
    BY <2>2, <2>3
<1>7. CASE Published(p) \/ Republished(p)
  BY <1>7, PublishRecv DEF Published, Republished, Goto, Types
<1>8. CASE Slow(p)
  <2>1. Come(p) => Come(p)'
    BY <1>1, <1>2, <1>8 DEF Slow, Goto, Types, InHand
  <2>. QED
    BY <1>1, <1>2, <1>8, <2>1, PlainRecv DEF Slow, Goto, Types, ringVars
<1>9. CASE Recheck(p)
  BY <1>1, <1>2, <1>9, PlainRecv DEF Recheck, Goto, Types, ringVars
<1>10. CASE GateShut(p)
  <2>1. CASE aim[p] = "recv"
    <3>1. \A q \in Proc \ {p} : ~Hungry(q)
      <4>1. \A q \in Receiver : RoleOf(q) = "recv"
        BY DEF RoleOf, BufferedAssumption
      <4>2. \A q \in Receiver : pc[q] \notin Counting
        BY <1>10, <2>1, <4>1, GateZero DEF GateShut, Proc
      <4>. QED
        BY <4>2 DEF Idle, Counting
    <3>2. ~Hungry(p)'
      BY <1>1, <1>10 DEF GateShut, Goto, Types
    <3>3. \A q \in Proc : ~Hungry(q)'
      BY <3>1, <3>2, PlainFixed, FixedSame
    <3>. QED
      BY <3>3 DEF RecvSeen
  <2>2. CASE aim[p] # "recv"
    BY <1>1, <1>2, <1>10, <2>2, PlainRecv DEF GateShut, Goto, Types, ringVars
  <2>. QED
    BY <2>1, <2>2
<1>11. CASE GateOpen(p)
  BY <1>1, <1>2, <1>11, PlainRecv DEF GateOpen, Goto, Types, ringVars
<1>12. CASE Fetch(p)
  <2>1. p \in Sender /\ pc[p] = "fetch"
    BY <1>12 DEF Fetch, Roles, Handing
  <2>2. CASE ClaimDeq(p)
    <3>1. pc'[p] = "deposit"
      BY <1>12, <2>2 DEF Fetch, Goto, Types, ClaimDeq
    <3>. QED
      BY <2>1, <2>2, <3>1, ClaimRecv
  <2>3. CASE ~ClaimDeq(p)
    BY <1>12, <2>1, <2>3, EmptyRecv DEF Fetch, Goto, Types, ringVars
  <2>. QED
    BY <2>2, <2>3
<1>. QED
  BY <1>3, <1>4, <1>5, <1>6, <1>7, <1>8, <1>9, <1>10, <1>11, <1>12 DEF Plain

\* Neither does a step that leaves the ring alone and turns nobody away.
LEMMA RecvFree ==
  ASSUME BufferedAssumption, Types, Types', RecvSeen, closed' = closed,
         UNCHANGED <<enq, deq>>,
         \A q \in Proc : /\ (Come(q) => Come(q)') /\ (Hungry(q)' => Hungry(q))
                         /\ Putter(q)' <=> Putter(q)
  PROVE  RecvSeen'
BY LoadSame, RecvStays

\* Every step keeps somebody on the way to each value.
LEMMA RecvKept ==
  ASSUME BufferedAssumption, SlotsFit, InOrder, Control, Types', Ring, LastPut, IdleListed,
         RecvSeen, [Next]_vars
  PROVE  RecvSeen'
<1>. USE DEF Come, Waking, Hungry, Putter
<1>0. Types /\ Words /\ Roles /\ LockHeld /\ Lists /\ Hands /\ Handoffs /\ GateCounts
  BY DEF Control
<1>a. /\ \A q \in Sender : q \notin Receiver
      /\ \A q \in Proc : pc[q] \in {"park", "asleep", "away"} => q \in Green
      /\ Green \subseteq Proc
  BY <1>0 DEF BufferedAssumption, Roles
<1>1. ASSUME NEW p \in Proc, Plain(p) PROVE RecvSeen'
  BY <1>0, <1>1, RecvKeptPlain
<1>2. ASSUME NEW p \in Proc, Register(p) PROVE RecvSeen'
  <2>1. /\ closed' = closed /\ UNCHANGED <<enq, deq, aim>>
        /\ pc[p] = "register" /\ pc'[p] \in {"wait", "park"}
        /\ \A q \in Proc \ {p} : Fixed(q)
    BY <1>0, <1>2, RoleFact DEF Register, Goto, Types, ringVars, Fixed, InHand, Role
  <2>2. \A q \in Proc \ {p} : /\ (Come(q) => Come(q)') /\ (Hungry(q)' => Hungry(q))
                              /\ Putter(q)' <=> Putter(q)
    BY <1>0, <2>1, FixedSame
  <2>3. /\ (Come(p) => Come(p)') /\ (Hungry(p)' => Hungry(p)) /\ (Putter(p)' <=> Putter(p))
    BY <2>1 DEF Looking
  <2>. QED
    BY <1>0, <2>1, <2>2, <2>3, RecvFree
<1>3. ASSUME NEW p \in Proc, Park(p) PROVE RecvSeen'
  <2>1. /\ closed' = closed /\ UNCHANGED <<enq, deq, aim, list, handoff, hand>>
        /\ pc[p] = "park" /\ pc'[p] = "asleep" /\ p \in Green
        /\ \A q \in Proc \ {p} : pc'[q] = pc[q]
    BY <1>0, <1>a, <1>3 DEF Park, Goto, Types, ringVars
  <2>2. \A q \in Green \ {p} : word'[q] = word[q]
    BY <1>0, <1>3, <2>1, YieldedStep DEF Park
  <2>3. /\ word[p].wake => word'[p].st = "ready"
        /\ word'[p].st = "parked" => ~word[p].wake
    BY <1>0, <1>3, <2>1, YieldedNoted DEF Park
  <2>4. \A q \in Proc \ {p} : /\ (Come(q) => Come(q)') /\ (Hungry(q)' => Hungry(q))
                              /\ Putter(q)' <=> Putter(q)
    BY <1>0, <2>1, <2>2, FixedSame DEF Fixed, InHand
  <2>5. /\ (Come(p) => Come(p)') /\ (Hungry(p)' => Hungry(p)) /\ (Putter(p)' <=> Putter(p))
    BY <2>1, <2>3 DEF Looking, Idle, InHand
  <2>. QED
    BY <1>0, <2>1, <2>4, <2>5, RecvFree
<1>4. ASSUME NEW p \in Proc, Resume(p) PROVE RecvSeen'
  <2>1. /\ closed' = closed /\ UNCHANGED <<enq, deq, aim, list, handoff, hand>>
        /\ pc[p] = "asleep" /\ pc'[p] = "relock" /\ p \in Green
        /\ \A q \in Proc \ {p} : pc'[q] = pc[q]
    BY <1>0, <1>a, <1>4 DEF Resume, Goto, Types, ringVars
  <2>2. \A q \in Green \ {p} : word'[q] = word[q]
    BY <1>0, <1>4, <2>1, ResumedStep DEF Resume
  <2>4. \A q \in Proc \ {p} : /\ (Come(q) => Come(q)') /\ (Hungry(q)' => Hungry(q))
                              /\ Putter(q)' <=> Putter(q)
    BY <1>0, <2>1, <2>2, FixedSame DEF Fixed, InHand
  <2>5. /\ (Come(p) => Come(p)') /\ (Hungry(p)' => Hungry(p)) /\ (Putter(p)' <=> Putter(p))
    BY <2>1 DEF Looking, Idle, InHand
  <2>. QED
    BY <1>0, <2>1, <2>4, <2>5, RecvFree
<1>5. ASSUME NEW p \in Proc, Spurious(p) PROVE RecvSeen'
  <2>1. /\ closed' = closed /\ UNCHANGED <<enq, deq, aim, list, handoff, hand, word>>
        /\ pc[p] = "wait" /\ pc'[p] = "relock"
        /\ \A q \in Proc \ {p} : pc'[q] = pc[q]
    BY <1>0, <1>5 DEF Spurious, Goto, Types, ringVars
  <2>4. \A q \in Proc \ {p} : /\ (Come(q) => Come(q)') /\ (Hungry(q)' => Hungry(q))
                              /\ Putter(q)' <=> Putter(q)
    BY <1>0, <2>1, FixedSame DEF Fixed, InHand
  <2>5. /\ (Come(p) => Come(p)') /\ (Hungry(p)' => Hungry(p)) /\ (Putter(p)' <=> Putter(p))
    BY <2>1 DEF Looking, Idle
  <2>. QED
    BY <1>0, <2>1, <2>4, <2>5, RecvFree
<1>6. ASSUME NEW p \in Proc, Relock(p) PROVE RecvSeen'
  <2>1. /\ closed' = closed /\ UNCHANGED <<enq, deq, aim, handoff, hand, word>>
        /\ pc[p] = "relock" /\ pc'[p] \in {"check", "resumed"}
        /\ \A q \in Proc \ {p} : pc'[q] = pc[q]
        /\ list'["recv"] \subseteq list["recv"]
        /\ \A q \in Proc \ {p} : q \in list'["recv"] <=> q \in list["recv"]
    BY <1>0, <1>6, RoleFact DEF Relock, Goto, Types, ringVars, Role
  <2>4. \A q \in Proc \ {p} : /\ (Come(q) => Come(q)') /\ (Hungry(q)' => Hungry(q))
                              /\ Putter(q)' <=> Putter(q)
    BY <1>0, <2>1, FixedSame DEF Fixed, InHand
  <2>5. /\ (Come(p) => Come(p)') /\ (Hungry(p)' => Hungry(p)) /\ (Putter(p)' <=> Putter(p))
    BY <2>1 DEF Looking, Idle, InHand
  <2>. QED
    BY <1>0, <2>1, <2>4, <2>5, RecvFree
<1>7. ASSUME NEW p \in Proc, TakeHandoff(p) PROVE RecvSeen'
  <2>1. /\ closed' = closed /\ UNCHANGED <<enq, deq, aim, hand, word, list>>
        /\ pc[p] = "resumed"
        /\ \/ p \in Green /\ handoff[p] # NoValue /\ pc'[p] = "idle"
           \/ handoff' = handoff /\ pc'[p] = "try"
        /\ \A q \in Proc \ {p} : pc'[q] = pc[q] /\ (q \in Green => handoff'[q] = handoff[q])
    BY <1>0, <1>7 DEF TakeHandoff, Goto, Types, ringVars
  <2>4. \A q \in Proc \ {p} : /\ (Come(q) => Come(q)') /\ (Hungry(q)' => Hungry(q))
                              /\ Putter(q)' <=> Putter(q)
    BY <1>0, <2>1, FixedSame DEF Fixed, InHand
  <2>5. /\ (Come(p) => Come(p)') /\ (Hungry(p)' => Hungry(p)) /\ (Putter(p)' <=> Putter(p))
    BY <2>1 DEF Looking, Idle, InHand
  <2>. QED
    BY <1>0, <2>1, <2>4, <2>5, RecvFree
<1>8. ASSUME NEW p \in Proc, NEW t \in Green, WakeHandoff(p, t) PROVE RecvSeen'
  <2>1. /\ closed' = closed /\ UNCHANGED <<enq, deq, handoff>>
        /\ pc[p] = "wake" /\ aim[p] = "recv" /\ t \in list["recv"] /\ t # p
        /\ \A q \in Proc \ {p} : pc'[q] = pc[q] /\ aim'[q] = aim[q] /\ hand'[q] = hand[q]
        /\ list'["recv"] = list["recv"] \ {t}
        /\ \/ Sched!Claimable(word[t]) /\ pc'[p] = "fetch" /\ hand'[p] = t
           \/ ~Sched!Claimable(word[t]) /\ pc'[p] = "gate" /\ hand'[p] = hand[p]
    <3>1. t # p
      BY <1>0, <1>8 DEF WakeHandoff, Lists, Role
    <3>. QED
      BY <1>0, <1>8, <3>1 DEF WakeHandoff, Goto, Types, ringVars, Role
  <2>2. p \in Sender
    BY <1>0, <2>1 DEF Roles, Proc
  <2>3. /\ t \in Receiver /\ pc[t] \in {"park", "asleep", "relock"} /\ handoff[t] = NoValue
        /\ t \in Proc /\ pc'[t] = pc[t]
    <3>1. RoleOf(t) = "recv" /\ pc[t] \in {"park", "asleep", "relock"} /\ handoff[t] = NoValue
      BY <1>0, <2>1 DEF Lists, Role
    <3>. QED
      BY <1>a, <2>1, <3>1 DEF RoleOf, Proc
  <2>4. \A q \in Proc : hand[q] # t
    BY <1>0, <1>a, <2>1 DEF Hands, HandOk, BufferedAssumption
  <2>5. hand[p] = NoProc /\ NoProc \notin Green
    BY <1>0, <1>a, <2>1 DEF Hands, Handing, BufferedAssumption
  <2>6. \A u \in Green \ {t} : word'[u] = word[u] /\ (InHand(u)' <=> InHand(u))
    <3>1. \A u \in Green \ {t} : word'[u] = word[u]
      BY <1>0, <1>8, WokenNoted DEF WakeHandoff
    <3>. QED
      BY <2>1, <2>5, <3>1 DEF InHand
  <2>7. \A q \in Proc \ {p, t} : Fixed(q)
    BY <2>1, <2>6 DEF Fixed
  <2>8. \A q \in Proc \ {p, t} : /\ (Come(q) => Come(q)') /\ (Hungry(q)' => Hungry(q))
                                 /\ Putter(q)' <=> Putter(q)
    BY <1>0, <2>7, FixedSame
  <2>9. ~Come(t) /\ ~Hungry(p)' /\ Come(p)
    BY <1>a, <2>1, <2>2, <2>3 DEF Looking
  <2>10. word'[t].st # "parked" /\ (word[t].st = "running" => word'[t].wake)
    <3>1. WakeAll({t})
      BY <1>8 DEF WakeHandoff
    <3>. QED
      BY <1>0, <3>1, WakeAllFact, WokenNoted
  <2>11. pc[t] \in {"park", "relock"} => word[t].st = "running"
    BY <1>0 DEF Words
  <2>12. Hungry(t)' => Hungry(t)
    BY <2>3, <2>10, <2>11 DEF Idle
  <2>13. \A q \in Proc : Putter(q)' <=> Putter(q)
    BY <1>a, <2>1, <2>3, <2>8
  <2>14. Load \in Int /\ Load' \in Int /\ Load' = Load
    BY <1>0, <2>1, <2>13, LoadSame
  <2>15. CASE pc'[p] = "fetch"
    <3>1. Come(p)'
      BY <2>2, <2>15
    <3>. QED
      BY <2>1, <2>8, <2>9, <2>12, <2>14, <3>1, RecvStays
  <2>16. CASE pc'[p] = "gate" /\ ~Sched!Claimable(word[t]) /\ hand'[p] = hand[p]
    <3>1. pc[t] = "asleep" => word'[t].st = "ready"
      <4>1. word[t].st # "parked"
        BY <2>16 DEF Sched!Claimable
      <4>2. word[t] \in Sched!Word /\ (pc[t] = "asleep" => word[t].st = "ready")
        BY <1>0, <4>1 DEF Words, Types, Sched!Word, Sched!RunState
      <4>3. WakeAll({t})
        BY <1>8 DEF WakeHandoff
      <4>. QED
        BY <1>0, <4>1, <4>2, <4>3, WakeAllFact
    <3>2. ~InHand(t)'
      BY <2>1, <2>4, <2>16 DEF InHand
    <3>3. Come(t)'
      BY <2>1, <2>3, <2>10, <2>11, <3>1, <3>2 DEF Looking
    <3>. QED
      BY <2>1, <2>3, <2>8, <2>9, <2>12, <2>14, <3>3, RecvSwaps
  <2>. QED
    BY <2>1, <2>15, <2>16
<1>9. ASSUME NEW p \in Proc, Deposit(p) PROVE RecvSeen'
  <2>1. /\ closed' = closed /\ UNCHANGED <<enq, deq, aim, hand, word, list>>
        /\ pc[p] = "deposit" /\ pc'[p] = "enqueue"
        /\ \A q \in Proc \ {p} : pc'[q] = pc[q]
        /\ \A t \in Green : t # hand[p] => handoff'[t] = handoff[t]
    BY <1>0, <1>9 DEF Deposit, PublishDeq, Goto, Types, ringVars
  <2>2. \A q \in Proc : q # p /\ q # hand[p] =>
          /\ (Come(q) => Come(q)') /\ (Hungry(q)' => Hungry(q)) /\ (Putter(q)' <=> Putter(q))
    BY <1>0, <2>1, FixedSame DEF Fixed, InHand
  <2>3. /\ (Come(p) => Come(p)') /\ (Hungry(p)' => Hungry(p)) /\ (Putter(p)' <=> Putter(p))
    BY <2>1 DEF Looking, Idle
  <2>4. /\ hand[p] \in Green /\ InHand(hand[p]) /\ hand[p] \in Receiver /\ hand[p] # p
        /\ pc[hand[p]] = "asleep" /\ hand[p] \in Proc
    BY <1>0, <1>a, <2>1 DEF Hands, HandOk, Handing, InHand, Types
  <2>5. /\ (Come(hand[p]) => Come(hand[p])') /\ (Hungry(hand[p])' => Hungry(hand[p]))
        /\ (Putter(hand[p])' <=> Putter(hand[p]))
    BY <1>a, <2>1, <2>4 DEF Looking, Idle
  <2>. QED
    BY <1>0, <2>1, <2>2, <2>3, <2>5, RecvFree
<1>10. ASSUME NEW p \in Proc, HandoffEnqueue(p) PROVE RecvSeen'
  <2>1. /\ closed' = closed /\ UNCHANGED <<enq, deq, handoff, word, list>>
        /\ pc[p] = "enqueue" /\ pc'[p] = "gate"
        /\ \A q \in Proc \ {p} : pc'[q] = pc[q] /\ aim'[q] = aim[q] /\ hand'[q] = hand[q]
        /\ hand'[p] = NoProc
    BY <1>0, <1>10 DEF HandoffEnqueue, Goto, Types, ringVars
  <2>2. \A t \in Green : InHand(t)' => InHand(t)
    BY <2>1 DEF InHand, BufferedAssumption
  <2>3. \A q \in Proc \ {p} : /\ (Come(q) => Come(q)') /\ (Hungry(q)' => Hungry(q))
                              /\ (Putter(q)' <=> Putter(q))
    BY <2>1, <2>2 DEF Looking, Idle
  <2>4. /\ (Come(p) => Come(p)') /\ (Hungry(p)' => Hungry(p)) /\ (Putter(p)' <=> Putter(p))
    BY <2>1 DEF Looking, Idle
  <2>. QED
    BY <1>0, <2>1, <2>3, <2>4, RecvFree
<1>11. ASSUME NEW p \in Proc, WakeRole(p) PROVE RecvSeen'
  <2>1. /\ closed' = closed /\ UNCHANGED <<enq, deq, handoff, hand, aim>>
        /\ pc[p] = "wake" /\ pc'[p] = "idle"
        /\ aim[p] = "recv" => list["recv"] = {} /\ list'["recv"] = {}
        /\ aim[p] # "recv" => list'["recv"] = list["recv"]
        /\ WakeAll(list[aim[p]])
    BY <1>0, <1>11, RoleWoken DEF WakeRole, ringVars, Role
  <2>2. PICK one \in {{o} : o \in OsAsleep(aim[p])} \cup
                    (IF OsAsleep(aim[p]) = {} THEN {{}} ELSE {}) :
           pc' = [q \in Proc |-> IF q \in one THEN "relock"
                                 ELSE IF q = p THEN "idle" ELSE pc[q]]
    BY <1>11 DEF WakeRole
  <2>3. \A q \in one : q \in Proc \ Green /\ RoleOf(q) = aim[p] /\ pc[q] = "wait"
    BY <2>2 DEF OsAsleep, OsCounted
  <2>4. ~Hungry(p)' /\ ~Putter(p)' /\ ~Putter(p)
    BY <2>1 DEF Idle
  <2>5. \A q \in Proc : q \notin one /\ q # p => pc'[q] = pc[q]
    BY <2>2
  <2>6. \A q \in Proc : q \notin one /\ q # p =>
          /\ (Come(q) => Come(q)') /\ (Hungry(q)' => Hungry(q)) /\ (Putter(q)' <=> Putter(q))
    <3>1. \A u \in Green : word[u].st = "running" /\ word[u].wake => word'[u].wake
      BY <1>0, <2>1, WokenNoted
    <3>2. \A u \in Green : word[u].st = "ready" => word'[u].st = "ready"
      BY <1>0, <2>1, WakeAllFact
    <3>3. \A u \in Green : pc'[u] = pc[u] => (Idle(u)' => Idle(u))
      BY <1>0, <2>1, WokenNotIdle
    <3>4. \A u \in Green : pc[u] = "park" => word[u].st = "running"
      BY <1>0 DEF Words
    <3>5. \A q \in Proc : q \notin one /\ q # p => (Idle(q)' => Idle(q))
      BY <1>a, <2>5, <3>3 DEF Idle
    <3>6. \A q \in Proc : q \notin one /\ q # p => (Looking(q) => Looking(q)')
      BY <1>a, <2>1, <2>5, <3>1, <3>2, <3>4 DEF Looking, InHand
    <3>. QED
      BY <2>1, <2>5, <3>5, <3>6
  <2>7. \A q \in one : ~Putter(q) /\ ~Putter(q)' /\ ~Hungry(q)' /\ ~Come(q)
    BY <2>2, <2>3 DEF Looking, Idle
  <2>8. \A q \in Proc : Putter(q)' <=> Putter(q)
    BY <2>4, <2>6, <2>7
  <2>9. Load \in Int /\ Load' \in Int /\ Load' = Load
    BY <1>0, <2>1, <2>8, LoadSame
  <2>10. CASE aim[p] = "recv" /\ OsAsleep("recv") = {}
    <3>1. lock = NoProc
      BY <1>11 DEF WakeRole
    <3>2. \A q \in Proc : pc[q] \notin {"recheck", "register"}
      BY <1>0, <3>1 DEF LockHeld, Critical, BufferedAssumption
    <3>3. \A q \in Receiver : RoleOf(q) = "recv" /\ q \in Proc
      BY <1>a DEF RoleOf, Proc
    <3>4. \A q \in Receiver : ~Idle(q)
      BY <1>0, <1>a, <2>1, <2>10, <3>3 DEF Idle, IdleListed, OsAsleep, OsCounted, Roles
    <3>5. \A q \in Proc : ~Hungry(q)'
      BY <2>4, <2>6, <2>7, <3>2, <3>4
    <3>. QED
      BY <3>5 DEF RecvSeen
  <2>11. CASE aim[p] = "recv" /\ OsAsleep("recv") # {}
    <3>1. PICK o \in Proc : one = {o}
      BY <2>2, <2>11 DEF OsAsleep, OsCounted
    <3>2. /\ o \in Receiver /\ o \notin Green /\ pc[o] = "wait" /\ o # p /\ pc'[o] = "relock"
      BY <2>1, <2>2, <2>3, <2>11, <3>1 DEF RoleOf, Proc
    <3>3. Come(o)' /\ ~Come(o) /\ ~Hungry(o)'
      BY <2>1, <2>7, <2>11, <3>1, <3>2 DEF Looking
    <3>4. \A q \in Proc \ {p} : (Come(q) => Come(q)') /\ (Hungry(q)' => Hungry(q))
      BY <2>6, <3>1, <3>3
    <3>. QED
      BY <2>1, <2>4, <2>9, <3>2, <3>3, <3>4, RecvSwaps
  <2>12. CASE aim[p] # "recv"
    <3>1. ~Come(p)
      BY <2>1, <2>12 DEF Looking
    <3>2. \A q \in Proc : (Come(q) => Come(q)') /\ (Hungry(q)' => Hungry(q))
      BY <2>4, <2>6, <2>7, <3>1
    <3>. QED
      BY <2>1, <2>9, <3>2, RecvStays
  <2>. QED
    BY <2>10, <2>11, <2>12
<1>12. CASE Close
  BY <1>12 DEF Close, RecvSeen
<1>13. ASSUME NEW t \in Green, ParkElsewhere(t) \/ ResumeElsewhere(t) PROVE RecvSeen'
  <2>1. /\ closed' = closed /\ UNCHANGED <<enq, deq, handoff, hand, aim, list>>
        /\ {pc[t], pc'[t]} \subseteq {"idle", "away"} /\ t \in Proc
        /\ \A q \in Proc \ {t} : pc'[q] = pc[q]
    BY <1>0, <1>a, <1>13 DEF ParkElsewhere, ResumeElsewhere, Goto, Types, ringVars
  <2>2. \A u \in Green \ {t} : word'[u] = word[u]
    BY <1>0, <1>13, YieldedStep, ResumedStep DEF ParkElsewhere, ResumeElsewhere
  <2>3. \A q \in Proc \ {t} : /\ (Come(q) => Come(q)') /\ (Hungry(q)' => Hungry(q))
                              /\ (Putter(q)' <=> Putter(q))
    BY <1>0, <2>1, <2>2, FixedSame DEF Fixed, InHand
  <2>4. /\ (Come(t) => Come(t)') /\ (Hungry(t)' => Hungry(t)) /\ (Putter(t)' <=> Putter(t))
    BY <2>1 DEF Looking, Idle
  <2>. QED
    BY <1>0, <2>1, <2>3, <2>4, RecvFree
<1>14. ASSUME NEW t \in Green, StrayWake(t) PROVE RecvSeen'
  <2>1. /\ closed' = closed /\ UNCHANGED <<enq, deq, handoff, hand, aim, list, pc>>
        /\ WakeAll({t})
    BY <1>14 DEF StrayWake, ringVars
  <2>2. \A u \in Green : word[u].st = "running" /\ word[u].wake => word'[u].wake
    BY <1>0, <2>1, WokenNoted
  <2>3. \A u \in Green : word[u].st = "ready" => word'[u].st = "ready"
    BY <1>0, <2>1, WakeAllFact
  <2>4. \A u \in Green : Idle(u)' => Idle(u)
    BY <1>0, <2>1, WokenNotIdle
  <2>5. \A u \in Green : pc[u] = "park" => word[u].st = "running"
    BY <1>0 DEF Words
  <2>6. \A q \in Proc : Idle(q)' => Idle(q)
    BY <1>a, <2>1, <2>4 DEF Idle
  <2>7. \A q \in Proc : Looking(q) => Looking(q)'
    BY <1>a, <2>1, <2>2, <2>3, <2>5 DEF Looking, InHand
  <2>. QED
    BY <1>0, <2>1, <2>6, <2>7, RecvFree
<1>15. CASE UNCHANGED vars
  <2>1. closed' = closed /\ UNCHANGED <<enq, deq, handoff, hand, aim, list, pc, word>>
    BY <1>15 DEF vars, ringVars
  <2>2. \A q \in Proc : Fixed(q)
    BY <2>1 DEF Fixed, InHand
  <2>. QED
    BY <1>0, <2>1, <2>2, FixedSame, RecvFree
<1>. QED
  BY <1>1, <1>2, <1>3, <1>4, <1>5, <1>6, <1>7, <1>8, <1>9, <1>10, <1>11, <1>12, <1>13, <1>14,
     <1>15 DEF Next, Step, Plain

-----------------------------------------------------------------------------
(* A free slot, and who is on the way to it                                *)

\* A sender that waits, or has looked under the lock and is about to.
Full(s) == s \in Sender /\ (Idle(s) \/ pc[s] = "register")

\* Whoever has made room, or is about to, and has still to wake a sender.
Freeing(p) ==
  \/ Taker(p) \/ pc[p] = "enqueue"
  \/ pc[p] \in {"gate", "wake"} /\ aim[p] = "send"

\* A sender on its way to the ring.
Trying(s) ==
  /\ s \in Sender
  /\ \/ pc[s] \in {"relock", "check", "try", "slow", "recheck", "retry"}
     \/ pc[s] = "park" /\ word[s].wake
     \/ pc[s] = "asleep" /\ word[s].st = "ready"

\* While a sender waits beside a free slot, somebody is on the way to the slot
\* or to a sender.
Help(p) == Freeing(p) \/ Trying(p)
SendSeen == ~closed /\ Room /\ (\E s \in Proc : Full(s)) => \E p \in Proc : Help(p)

\* It stays so when there is no more room than before, and nobody turns away ...
LEMMA SendStays ==
  ASSUME SendSeen, closed' = closed, UNCHANGED ringVars,
         \A q \in Proc : (Help(q) => Help(q)') /\ (Full(q)' => Full(q))
  PROVE  SendSeen'
<1>1. Room' <=> Room
  BY DEF Room, ringVars
<1>. QED
  BY <1>1 DEF SendSeen

\* ... and right after a sender took the slot: it was the only one, or there was
\* no other.
LEMMA SendBusy ==
  ASSUME BufferedAssumption, SlotsFit, InOrder, Types, NEW p \in Sender, ~Full(p)',
         enq' \in Nat, deq' \in Nat, Capacity = 1 => enq' = deq' + 1
  PROVE  SendSeen'
<1>1. CASE \A r, s \in Sender : r = s
  BY <1>1 DEF SendSeen, Full
<1>2. CASE Capacity = 1
  <2>0. PICK e \in Nat, d \in Nat : e = enq' /\ d = deq'
    OBVIOUS
  <2>1. ~Exact
    BY <1>2 DEF Exact, SlotsFit
  <2>2. e = d + 1
    BY <1>2, <2>0
  <2>3. ~(e - d < Capacity)
    BY <1>2, <2>2
  <2>4. ~Room'
    BY <2>0, <2>1, <2>3 DEF Room, Exact
  <2>. QED
    BY <2>4 DEF SendSeen
<1>. QED
  BY <1>1, <1>2 DEF InOrder

\* A process left alone is where it was.
LEMMA SendFixed ==
  ASSUME Roles, NEW q \in Proc, Fixed(q)
  PROVE  (Help(q)' <=> Help(q)) /\ (Full(q)' <=> Full(q))
<1>1. pc[q] \in {"park", "asleep"} => q \in Green
  BY DEF Roles
<1>2. Idle(q)' <=> Idle(q)
  BY <1>1 DEF Fixed, Idle
<1>3. Trying(q)' <=> Trying(q)
  BY <1>1 DEF Fixed, Trying
<1>. QED
  BY <1>2, <1>3 DEF Fixed, Help, Full, Freeing, Taker

\* A plain step that leaves the ring alone and keeps its own process on its way.
LEMMA PlainSend ==
  ASSUME Types, Roles, SendSeen, NEW p \in Proc, Plain(p), UNCHANGED ringVars,
         Help(p) => Help(p)', Full(p)' => Full(p)
  PROVE  SendSeen'
<1>1. \A q \in Proc \ {p} : (Help(q) => Help(q)') /\ (Full(q)' => Full(q))
  BY PlainFixed, SendFixed
<1>. QED
  BY <1>1, PlainFixed, SendStays

\* A plain step leaves no sender behind.
LEMMA SendKeptPlain ==
  ASSUME BufferedAssumption, SlotsFit, InOrder, Types, Types', Roles, GateCounts, Ring, SendSeen,
         NEW p \in Proc, Plain(p)
  PROVE  SendSeen'
<1>. USE DEF Help, Freeing, Trying, Full, Taker
<1>1. ~Idle(p)' /\ closed' = closed /\ list' = list /\ word' = word
  BY PlainFixed, PlainStep
<1>2. (p \in Sender => p \notin Receiver) /\ (p \notin Sender => p \in Receiver)
  BY DEF BufferedAssumption, Proc
<1>3. enq \in Nat /\ deq \in Nat /\ enq' \in Nat /\ deq' \in Nat
  BY DEF Types
<1>4. CASE Send(p) \/ Recv(p)
  BY <1>1, <1>2, <1>4, PlainSend DEF Send, Recv, Goto, Types
<1>5. CASE Check(p)
  <2>1. CASE closed
    BY <1>1, <2>1 DEF SendSeen
  <2>2. CASE ~closed
    BY <1>1, <1>2, <1>5, <2>2, PlainSend DEF Check, Goto, Types
  <2>. QED
    BY <2>1, <2>2
<1>6. CASE Try(p) \/ Retry(p)
  <2>1. CASE Claim(p)
    <3>1. pc'[p] \in {"publish", "republish"}
      <4>1. CanClaim(p)
        BY <2>1 DEF Claim, CanClaim, ClaimEnq, ClaimDeq
      <4>. QED
        BY <1>6, <4>1 DEF Try, Retry, Goto, Types
    <3>2. CASE p \in Sender
      <4>1. enq' = enq + 1 /\ deq' = deq /\ Room
        BY <2>1, <3>2 DEF Claim, ClaimEnq
      <4>2. Capacity = 1 => enq' = deq' + 1
        BY <1>3, <4>1, RoomFact DEF Ring, Positions
      <4>. QED
        BY <1>1, <1>3, <3>1, <3>2, <4>2, SendBusy
    <3>3. CASE p \notin Sender
      BY <1>2, <3>1, <3>3 DEF SendSeen
    <3>. QED
      BY <3>2, <3>3
  <2>2. CASE ~Claim(p)
    <3>1. ~CanClaim(p) /\ UNCHANGED ringVars
      BY <1>6, <2>2 DEF Try, Retry, ringVars
    <3>2. CASE Try(p)
      BY <1>1, <1>2, <2>2, <3>1, <3>2, PlainSend DEF Try, Goto, Types
    <3>3. CASE Retry(p) /\ p \in Sender
      <4>1. ~Room'
        BY <3>1, <3>3 DEF CanClaim, Room, ringVars
      <4>. QED
        BY <4>1 DEF SendSeen
    <3>4. CASE Retry(p) /\ p \notin Sender
      BY <1>1, <1>2, <2>2, <3>1, <3>4, PlainSend DEF Retry, Goto, Types
    <3>. QED
      BY <1>6, <3>2, <3>3, <3>4
  <2>. QED
    BY <2>1, <2>2
<1>7. CASE Published(p) \/ Republished(p)
  <2>1. /\ pc[p] \in {"publish", "republish"} /\ pc'[p] = "gate"
        /\ aim'[p] = Other(RoleOf(p)) /\ Publish(p)
    BY <1>7 DEF Published, Republished, Goto, Types
  <2>2. CASE p \in Sender
    <3>1. enq' = enq /\ deq' = deq
      BY <2>1 DEF Publish, PublishEnq, PublishDeq
    <3>2. Putter(p) /\ pos[p] \in Nat
      BY <2>1, <2>2 DEF Putter, Types
    <3>3. deq <= pos[p] /\ pos[p] < enq /\ enq <= deq + Capacity
      BY <3>2 DEF Ring, Positions
    <3>4. Capacity = 1 => enq' = deq' + 1
      BY <1>3, <3>1, <3>2, <3>3
    <3>. QED
      BY <1>1, <1>3, <2>1, <2>2, <3>4, SendBusy
  <2>3. CASE p \notin Sender
    BY <1>2, <2>1, <2>3 DEF SendSeen, Other, RoleOf
  <2>. QED
    BY <2>2, <2>3
<1>8. CASE Slow(p)
  BY <1>1, <1>2, <1>8, PlainSend DEF Slow, Goto, Types
<1>9. CASE Recheck(p)
  <2>1. CASE closed
    BY <1>1, <2>1 DEF SendSeen
  <2>2. CASE ~closed
    BY <1>1, <1>2, <1>9, <2>2, PlainSend DEF Recheck, Goto, Types
  <2>. QED
    BY <2>1, <2>2
<1>10. CASE GateShut(p)
  <2>1. CASE aim[p] = "send"
    <3>1. \A q \in Sender : pc[q] \notin Counting
      <4>1. \A q \in Sender : RoleOf(q) = "send"
        BY DEF RoleOf
      <4>. QED
        BY <1>10, <2>1, <4>1, GateZero DEF GateShut, Proc
    <3>2. \A q \in Proc \ {p} : ~Full(q)
      BY <3>1 DEF Idle, Counting
    <3>3. ~Full(p)'
      BY <1>1, <1>10 DEF GateShut, Goto, Types
    <3>4. \A q \in Proc : ~Full(q)'
      BY <3>2, <3>3, PlainFixed, SendFixed
    <3>. QED
      BY <3>4 DEF SendSeen
  <2>2. CASE aim[p] # "send"
    BY <1>1, <1>2, <1>10, <2>2, PlainSend DEF GateShut, Goto, Types
  <2>. QED
    BY <2>1, <2>2
<1>11. CASE GateOpen(p)
  BY <1>1, <1>2, <1>11, PlainSend DEF GateOpen, Goto, Types
<1>12. CASE Fetch(p)
  <2>1. pc'[p] \in {"deposit", "enqueue"}
    BY <1>12 DEF Fetch, Goto, Types
  <2>. QED
    BY <2>1 DEF SendSeen
<1>. QED
  BY <1>4, <1>5, <1>6, <1>7, <1>8, <1>9, <1>10, <1>11, <1>12 DEF Plain

\* Every step keeps somebody on the way to a free slot.
LEMMA SendKept ==
  ASSUME BufferedAssumption, SlotsFit, InOrder, Control, Types', Ring, IdleListed, SendSeen,
         [Next]_vars
  PROVE  SendSeen'
<1>. USE DEF Help, Freeing, Full, Taker
<1>0. Types /\ Words /\ Roles /\ LockHeld /\ Lists /\ Hands /\ Handoffs /\ GateCounts
  BY DEF Control
<1>a. /\ \A q \in Sender : q \notin Receiver
      /\ \A q \in Proc : pc[q] \in {"park", "asleep", "away"} => q \in Green
      /\ Green \subseteq Proc
  BY <1>0 DEF BufferedAssumption, Roles
<1>1. ASSUME NEW p \in Proc, Plain(p) PROVE SendSeen'
  BY <1>0, <1>1, SendKeptPlain
<1>2. ASSUME NEW p \in Proc, Register(p) PROVE SendSeen'
  <2>1. /\ closed' = closed /\ UNCHANGED ringVars
        /\ pc[p] = "register" /\ pc'[p] \in {"wait", "park"}
        /\ \A q \in Proc \ {p} : Fixed(q)
    BY <1>0, <1>2, RoleFact DEF Register, Goto, Types, Fixed, InHand, Role
  <2>2. (Help(p) => Help(p)') /\ (Full(p)' => Full(p))
    BY <2>1 DEF Trying
  <2>. QED
    BY <1>0, <2>1, <2>2, SendFixed, SendStays
<1>3. ASSUME NEW p \in Proc, Park(p) PROVE SendSeen'
  <2>1. /\ closed' = closed /\ UNCHANGED ringVars /\ UNCHANGED <<aim, list, handoff, hand>>
        /\ pc[p] = "park" /\ pc'[p] = "asleep" /\ p \in Green
        /\ \A q \in Proc \ {p} : pc'[q] = pc[q]
    BY <1>0, <1>a, <1>3 DEF Park, Goto, Types
  <2>2. \A q \in Green \ {p} : word'[q] = word[q]
    BY <1>0, <1>3, <2>1, YieldedStep DEF Park
  <2>3. /\ word[p].wake => word'[p].st = "ready"
        /\ word'[p].st = "parked" => ~word[p].wake
    BY <1>0, <1>3, <2>1, YieldedNoted DEF Park
  <2>4. \A q \in Proc \ {p} : (Help(q) => Help(q)') /\ (Full(q)' => Full(q))
    BY <1>0, <2>1, <2>2, SendFixed DEF Fixed, InHand
  <2>5. (Help(p) => Help(p)') /\ (Full(p)' => Full(p))
    BY <2>1, <2>3 DEF Trying, Idle
  <2>. QED
    BY <2>1, <2>4, <2>5, SendStays
<1>4. ASSUME NEW p \in Proc, Resume(p) PROVE SendSeen'
  <2>1. /\ closed' = closed /\ UNCHANGED ringVars /\ UNCHANGED <<aim, list, handoff, hand>>
        /\ pc[p] = "asleep" /\ pc'[p] = "relock" /\ p \in Green
        /\ \A q \in Proc \ {p} : pc'[q] = pc[q]
    BY <1>0, <1>a, <1>4 DEF Resume, Goto, Types
  <2>2. \A q \in Green \ {p} : word'[q] = word[q]
    BY <1>0, <1>4, <2>1, ResumedStep DEF Resume
  <2>4. \A q \in Proc \ {p} : (Help(q) => Help(q)') /\ (Full(q)' => Full(q))
    BY <1>0, <2>1, <2>2, SendFixed DEF Fixed, InHand
  <2>5. (Help(p) => Help(p)') /\ (Full(p)' => Full(p))
    BY <2>1 DEF Trying, Idle
  <2>. QED
    BY <2>1, <2>4, <2>5, SendStays
<1>5. ASSUME NEW p \in Proc, Spurious(p) \/ Relock(p) PROVE SendSeen'
  <2>1. /\ closed' = closed /\ UNCHANGED ringVars /\ UNCHANGED <<aim, word>>
        /\ pc[p] \in {"wait", "relock"} /\ p \in Sender => pc'[p] \in {"relock", "check"}
        /\ pc[p] \in {"wait", "relock"} /\ pc'[p] \in {"relock", "check", "resumed"}
        /\ \A q \in Proc \ {p} : pc'[q] = pc[q]
    BY <1>0, <1>5 DEF Spurious, Relock, Goto, Types
  <2>2. \A q \in Proc : (Help(q) => Help(q)') /\ (Full(q)' => Full(q))
    BY <2>1 DEF Trying, Idle
  <2>. QED
    BY <2>1, <2>2, SendStays
<1>6. ASSUME NEW p \in Proc, TakeHandoff(p) PROVE SendSeen'
  <2>1. /\ closed' = closed /\ UNCHANGED ringVars /\ UNCHANGED <<aim, word>>
        /\ pc[p] = "resumed" /\ pc'[p] \in {"idle", "try"}
        /\ \A q \in Proc \ {p} : pc'[q] = pc[q]
    BY <1>0, <1>6 DEF TakeHandoff, Goto, Types
  <2>2. \A q \in Proc : (Help(q) => Help(q)') /\ (Full(q)' => Full(q))
    BY <2>1 DEF Trying, Idle
  <2>. QED
    BY <2>1, <2>2, SendStays
<1>7. ASSUME NEW p \in Proc, NEW t \in Green, WakeHandoff(p, t) PROVE SendSeen'
  <2>1. /\ closed' = closed /\ UNCHANGED ringVars
        /\ pc[p] = "wake" /\ aim[p] = "recv" /\ t \in list["recv"]
        /\ pc'[p] \in {"fetch", "gate"}
        /\ \A q \in Proc \ {p} : pc'[q] = pc[q] /\ aim'[q] = aim[q]
    BY <1>0, <1>7 DEF WakeHandoff, Goto, Types
  <2>2. t \in Receiver
    BY <1>0, <1>a, <2>1 DEF Lists, RoleOf, Role, Proc
  <2>3. \A u \in Green \ {t} : word'[u] = word[u]
    BY <1>0, <1>7, WokenNoted DEF WakeHandoff
  <2>4. \A q \in Proc \ {p} : (Help(q) => Help(q)') /\ (Full(q)' => Full(q))
    BY <1>a, <2>1, <2>2, <2>3 DEF Trying, Idle
  <2>5. (Help(p) => Help(p)') /\ (Full(p)' => Full(p))
    BY <2>1 DEF Trying, Idle
  <2>. QED
    BY <2>1, <2>4, <2>5, SendStays
<1>8. ASSUME NEW p \in Proc, Deposit(p) \/ HandoffEnqueue(p) PROVE SendSeen'
  BY <1>0, <1>8 DEF Deposit, HandoffEnqueue, Goto, Types, SendSeen
<1>9. ASSUME NEW p \in Proc, WakeRole(p) PROVE SendSeen'
  <2>1. /\ closed' = closed /\ UNCHANGED ringVars /\ UNCHANGED aim
        /\ pc[p] = "wake" /\ pc'[p] = "idle" /\ lock = NoProc
        /\ WakeAll(list[aim[p]])
    BY <1>0, <1>9, RoleWoken DEF WakeRole
  <2>2. PICK one \in {{o} : o \in OsAsleep(aim[p])} \cup
                    (IF OsAsleep(aim[p]) = {} THEN {{}} ELSE {}) :
           pc' = [q \in Proc |-> IF q \in one THEN "relock"
                                 ELSE IF q = p THEN "idle" ELSE pc[q]]
    BY <1>9 DEF WakeRole
  <2>3. \A q \in one : q \in Proc \ Green /\ RoleOf(q) = aim[p] /\ pc[q] = "wait"
    BY <2>2 DEF OsAsleep, OsCounted
  <2>4. \A q \in Proc : q \notin one /\ q # p => pc'[q] = pc[q]
    BY <2>2
  <2>5. CASE aim[p] = "send" /\ OsAsleep("send") # {}
    <3>1. PICK o \in Proc : one = {o}
      BY <2>2, <2>5 DEF OsAsleep, OsCounted
    <3>2. o \in Sender /\ pc'[o] = "relock"
      BY <2>2, <2>3, <2>5, <3>1 DEF RoleOf
    <3>. QED
      BY <3>2 DEF SendSeen, Trying
  <2>6. CASE aim[p] = "send" /\ OsAsleep("send") = {}
    <3>1. one = {}
      BY <2>2, <2>6
    <3>2. \A q \in Sender : RoleOf(q) = "send" /\ q \in Proc
      BY DEF RoleOf, Proc
    <3>3. \A q \in Sender : pc[q] # "register"
      BY <1>0, <2>1, <3>2 DEF LockHeld, Critical, BufferedAssumption
    <3>4. \A q \in Sender : pc[q] # "wait"
      BY <1>0, <2>6, <3>2 DEF OsAsleep, OsCounted, Roles
    <3>5. \A u \in Green : pc'[u] = pc[u] =>
             (Idle(u)' => Idle(u) /\ (u \notin list["send"] \/ pc[u] = "wait"))
      BY <1>0, <2>1, <2>6, WokenNotIdle
    <3>6. \A q \in Sender : q # p => ~Idle(q)'
      BY <1>a, <2>4, <3>1, <3>2, <3>4, <3>5 DEF Idle, IdleListed
    <3>7. ~Idle(p)' /\ pc'[p] # "register"
      BY <2>1 DEF Idle
    <3>8. \A q \in Proc : ~Full(q)'
      BY <2>4, <3>1, <3>3, <3>6, <3>7
    <3>. QED
      BY <3>8 DEF SendSeen
  <2>7. CASE aim[p] # "send"
    <3>1. aim[p] = "recv"
      BY <1>0, <2>7 DEF Types, Role
    <3>2. \A q \in one : q \notin Sender
      BY <2>3, <3>1 DEF RoleOf
    <3>3. \A u \in Green : u \in Sender => word'[u] = word[u]
      <4>1. \A u \in list["recv"] : u \notin Sender
        BY <1>0 DEF Lists, RoleOf, Role
      <4>. QED
        BY <1>0, <2>1, <3>1, <4>1, WokenNoted
    <3>4. \A q \in Proc : q # p => (Full(q)' => Full(q)) /\ (Help(q) => Help(q)')
      BY <1>a, <2>1, <2>2, <2>3, <2>4, <3>2, <3>3 DEF Trying, Idle
    <3>5. ~Help(p) /\ ~Full(p)'
      BY <2>1, <3>1 DEF Trying, Idle
    <3>. QED
      BY <2>1, <3>4, <3>5, SendStays
  <2>. QED
    BY <2>5, <2>6, <2>7
<1>10. CASE Close
  BY <1>10 DEF Close, SendSeen
<1>11. ASSUME NEW t \in Green, ParkElsewhere(t) \/ ResumeElsewhere(t) PROVE SendSeen'
  <2>1. /\ closed' = closed /\ UNCHANGED ringVars /\ UNCHANGED aim
        /\ {pc[t], pc'[t]} \subseteq {"idle", "away"} /\ t \in Proc
        /\ \A q \in Proc \ {t} : pc'[q] = pc[q]
    BY <1>0, <1>a, <1>11 DEF ParkElsewhere, ResumeElsewhere, Goto, Types
  <2>2. \A u \in Green \ {t} : word'[u] = word[u]
    BY <1>0, <1>11, YieldedStep, ResumedStep DEF ParkElsewhere, ResumeElsewhere
  <2>3. \A q \in Proc \ {t} : (Help(q) => Help(q)') /\ (Full(q)' => Full(q))
    BY <1>a, <2>1, <2>2 DEF Trying, Idle
  <2>4. (Help(t) => Help(t)') /\ (Full(t)' => Full(t))
    BY <2>1 DEF Trying, Idle
  <2>. QED
    BY <2>1, <2>3, <2>4, SendStays
<1>12. ASSUME NEW t \in Green, StrayWake(t) PROVE SendSeen'
  <2>1. closed' = closed /\ UNCHANGED ringVars /\ UNCHANGED <<aim, pc>> /\ WakeAll({t})
    BY <1>12 DEF StrayWake
  <2>2. \A u \in Green : word[u].st = "running" /\ word[u].wake => word'[u].wake
    BY <1>0, <2>1, WokenNoted
  <2>3. \A u \in Green : word[u].st = "ready" => word'[u].st = "ready"
    BY <1>0, <2>1, WakeAllFact
  <2>4. \A u \in Green : Idle(u)' => Idle(u)
    BY <1>0, <2>1, WokenNotIdle
  <2>5. \A u \in Green : pc[u] = "park" => word[u].st = "running"
    BY <1>0 DEF Words
  <2>6. \A q \in Proc : Idle(q)' => Idle(q)
    BY <1>a, <2>1, <2>4 DEF Idle
  <2>7. \A q \in Proc : Trying(q) => Trying(q)'
    BY <1>a, <2>1, <2>2, <2>3, <2>5 DEF Trying
  <2>. QED
    BY <2>1, <2>6, <2>7, SendStays
<1>13. CASE UNCHANGED vars
  <2>1. closed' = closed /\ UNCHANGED ringVars /\ UNCHANGED <<aim, pc, word>>
    BY <1>13 DEF vars
  <2>2. \A q \in Proc : (Help(q) => Help(q)') /\ (Full(q)' => Full(q))
    BY <2>1 DEF Trying, Idle
  <2>. QED
    BY <2>1, <2>2, SendStays
<1>. QED
  BY <1>1, <1>2, <1>3, <1>4, <1>5, <1>6, <1>7, <1>8, <1>9, <1>10, <1>11, <1>12, <1>13
  DEF Next, Step, Plain

\* What holds of waiting and waking.
Wakes == IdleListed /\ ClosedEmpty /\ LastPut /\ RecvSeen /\ SendSeen

\* It holds initially ...
LEMMA WakesInit ==
  ASSUME BufferedAssumption, Init
  PROVE  Wakes
<1>1. \A p \in Proc : pc[p] = "idle"
  BY DEF Init
<1>2. \A p \in Proc : ~Idle(p) /\ ~Putter(p) /\ ~Hungry(p) /\ ~Full(p)
  BY <1>1 DEF Idle, Putter, Hungry, Full
<1>3. \A t \in Green : ~Idle(t)
  BY <1>2 DEF BufferedAssumption
<1>. QED
  BY <1>2, <1>3 DEF Init, Wakes, IdleListed, ClosedEmpty, LastPut, RecvSeen, SendSeen

\* ... every step keeps it ...
LEMMA WakesKept ==
  ASSUME BufferedAssumption, SlotsFit, InOrder, Inv, Wakes, [Next]_vars
  PROVE  Wakes'
<1>1. Control /\ Types /\ Ring /\ Effect /\ Types'
  BY InvStep DEF Inv, Control, Data
<1>2. IdleListed' /\ ClosedEmpty'
  BY <1>1, IdleListedKept, ClosedEmptyKept DEF Wakes
<1>3. LastPut'
  BY <1>1, LastPutKept DEF Wakes
<1>4. RecvSeen' /\ SendSeen'
  BY <1>1, RecvKept, SendKept DEF Wakes
<1>. QED
  BY <1>2, <1>3, <1>4 DEF Wakes

\* ... and when nothing is under way, nobody waits for what is there.
LEMMA WakesEnough ==
  ASSUME BufferedAssumption, SlotsFit, Inv, Wakes
  PROVE  NoMissedWake
<1>. SUFFICES ASSUME Quiet, NEW p \in Proc, Parked(p) PROVE ~CanClaim(p) /\ ~closed
  BY DEF NoMissedWake
<1>0. Types /\ Words /\ Roles /\ Ring
  BY DEF Inv, Control
<1>1. Idle(p)
  BY DEF Parked, Idle
<1>2. ~closed
  BY <1>1 DEF Wakes, ClosedEmpty
<1>3. \A q \in Proc : pc[q] \in {"idle", "away", "wait"}
                      \/ (pc[q] = "asleep" /\ word[q].st = "parked")
  BY DEF Quiet, Parked
<1>4. CASE p \in Sender
  <2>1. \A q \in Proc : ~Help(q)
    BY <1>3 DEF Help, Freeing, Trying, Taker
  <2>2. Full(p)
    BY <1>1, <1>4 DEF Full
  <2>3. ~Room
    BY <1>2, <2>1, <2>2 DEF Wakes, SendSeen
  <2>. QED
    BY <1>2, <1>4, <2>3 DEF CanClaim
<1>5. CASE p \notin Sender
  <2>1. \A q \in Proc : ~Come(q) /\ ~Putter(q)
    BY <1>3 DEF Come, Looking, Waking, Putter
  <2>2. Hungry(p)
    BY <1>1, <1>5 DEF Hungry, Proc
  <2>3. Coming = {}
    BY <2>1 DEF Coming
  <2>4. Load <= 0
    BY <1>2, <2>2, <2>3, FS_EmptySet DEF Wakes, RecvSeen
  <2>5. Load = enq - deq - 0
    BY <2>1 DEF Load
  <2>6. ~HeadReady
    BY <1>0, <2>4, <2>5, HeadFact DEF Types, Ring
  <2>. QED
    BY <1>2, <1>5, <2>6 DEF CanClaim
<1>. QED
  BY <1>4, <1>5

\* wake_parked and the parking paths lose no wake where slots are published in
\* the order they were claimed: when nothing is under way, no receiver waits
\* beside a value, no sender beside a free slot, and nobody in a closed channel
\* (block_on_channel, wake_parked, wake_with, pith_channel_close).
THEOREM NoMissedWakeInOrder ==
  ASSUME BufferedAssumption, SlotsFit, InOrder
  PROVE  Spec => []NoMissedWake
<1>1. Init => Inv /\ Wakes
  BY InvInit, WakesInit
<1>2. Inv /\ Wakes /\ [Next]_vars => Inv' /\ Wakes'
  BY InvStep, WakesKept
<1>3. Inv /\ Wakes => NoMissedWake
  BY WakesEnough
<1>. QED
  BY <1>1, <1>2, <1>3, PTL DEF Spec

\* Whoever publishes in whatever order, nobody waits in a closed channel.
THEOREM NobodyInClosed ==
  ASSUME BufferedAssumption, SlotsFit
  PROVE  Spec => [](closed => \A p \in Proc : ~Parked(p))
<1>1. Init => Control /\ IdleListed /\ ClosedEmpty
  BY ControlInit, WakesInit DEF Wakes
<1>2. Control /\ IdleListed /\ ClosedEmpty /\ [Next]_vars
        => Control' /\ IdleListed' /\ ClosedEmpty'
  BY ControlKept, IdleListedKept, ClosedEmptyKept
<1>3. ClosedEmpty => (closed => \A p \in Proc : ~Parked(p))
  BY DEF ClosedEmpty, Idle, Parked
<1>. QED
  BY <1>1, <1>2, <1>3, PTL DEF Spec
=============================================================================
