----------------------------- MODULE LocksProofs -----------------------------
(***************************************************************************)
(* Mutex, Semaphore, WaitGroup and a worker's wait on its poller, for any  *)
(* tasks, threads, permits and counts.  Each has an inductive invariant,   *)
(* IInv, SInv, GInv and PInv; LocksInv is their conjunction.  The facts    *)
(* an invariant needs besides what the lock promises are much the same:    *)
(* where a task is when its scheduling word is not running, that a task on *)
(* its way to park is listed or has a wake noted, and, where permits are   *)
(* counted, that the sets counted are finite.                              *)
(***************************************************************************)
EXTENDS MCLocks, SequenceTheorems, FiniteSetTheorems, TLAPS

-----------------------------------------------------------------------------
(* Mutex: types, mutual exclusion and no lost wake.  The invariant adds to *)
(* the three what they rest on: who holds the list lock (ListLock), that a *)
(* task still on its stack is Running, so a wake aimed at it stays as a    *)
(* flag (Awake), and the two windows of the register/park race: the task   *)
(* that has marked the mutex and not listed itself (RegisterCovered), and  *)
(* the one that is listed and not suspended (ParkCovered).                 *)

ListLock ==
  \A p \in Proc : pc[p] \in {"register", "draining"} <=> wlock = p

Awake ==
  \A t \in Task :
    IF pc[t] = "asleep" THEN word[t].st \in {"ready", "parked"}
                        ELSE word[t].st = "running"

RegisterCovered ==
  \A t \in Task : pc[t] = "register" => state = 2 \/ Draining

ParkCovered ==
  \A t \in Task : pc[t] = "park" => t \in waiters \/ word[t].wake

IInv ==
  /\ TypeOK
  /\ MutualExclusion
  /\ WaiterCovered
  /\ ListLock
  /\ Awake
  /\ RegisterCovered
  /\ ParkCovered

-----------------------------------------------------------------------------
(* What the operators of SchedWord do to a word here.                      *)

LEMMA RunningWordFact ==
  ASSUME NEW w \in Sched!Word
  PROVE  /\ Sched!RunningWord(w, NoProc) \in Sched!Word
         /\ Sched!RunningWord(w, NoProc).st = "running"
BY DEF Sched!RunningWord, Sched!Clear, Sched!Word, Sched!RunState

LEMMA YieldedWordFact ==
  ASSUME NEW w \in Sched!Word
  PROVE  /\ Sched!YieldedWord(w) \in Sched!Word
         /\ Sched!YieldedWord(w).st \in {"ready", "parked"}
         /\ w.wake => Sched!YieldedWord(w).st = "ready"
BY DEF Sched!YieldedWord, Sched!Clear, Sched!Word, Sched!RunState

LEMMA WokenFact ==
  ASSUME NEW t \in Task, word[t] \in Sched!Word
  PROVE  /\ Woken(t) \in Sched!Word
         /\ word[t].st = "running" => Woken(t).st = "running" /\ Woken(t).wake
         /\ word[t].st \in {"ready", "parked"} => Woken(t).st = "ready"
         /\ word[t].wake => Woken(t).st # "running" \/ Woken(t).wake
BY DEF Woken, Sched!WokenWord, Sched!Claimable, Sched!Pendable, Sched!ClaimedWord,
       Sched!PendedWord, Sched!Clear, Sched!Word, Sched!RunState

-----------------------------------------------------------------------------
LEMMA InitInv == Init => IInv
<1> SUFFICES ASSUME Init PROVE IInv
  OBVIOUS
<1>1. Sched!FreshWord \in Sched!Word
  BY DEF Sched!FreshWord, Sched!Clear, Sched!Word, Sched!RunState
<1>2. TypeOK
  BY <1>1, RunningWordFact DEF Init, TypeOK, Phase
<1>3. Awake
  BY <1>1, RunningWordFact DEF Init, Awake, Proc
<1>4. ListLock /\ MutualExclusion /\ WaiterCovered /\ RegisterCovered /\ ParkCovered
  BY ProcAssumption DEF Init, ListLock, MutualExclusion, WaiterCovered,
     RegisterCovered, ParkCovered, Proc
<1> QED
  BY <1>2, <1>3, <1>4 DEF IInv

-----------------------------------------------------------------------------
(* A process outside lock and unlock gone, or back: the phases that no part *)
(* of the invariant but ListLock and MutualExclusion speaks of.            *)

LEMMA LockInv == ASSUME IInv, NEW p \in Proc, Lock(p) PROVE IInv'
<1> USE DEF Lock, Goto
<1>1. TypeOK'
  BY DEF IInv, TypeOK, Phase
<1>2. pc' = [pc EXCEPT ![p] = "try"] /\ pc[p] = "idle"
  OBVIOUS
<1>3. Awake' /\ ListLock' /\ RegisterCovered' /\ ParkCovered'
  BY <1>2 DEF IInv, TypeOK, Awake, ListLock, RegisterCovered, ParkCovered,
     Draining, Proc
<1>4. MutualExclusion' /\ WaiterCovered'
  BY <1>2 DEF IInv, TypeOK, MutualExclusion, WaiterCovered, Draining, Proc
<1> QED
  BY <1>1, <1>3, <1>4 DEF IInv

LEMMA AcquireInv == ASSUME IInv, NEW p \in Proc, Acquire(p) PROVE IInv'
<1> USE DEF Acquire, Goto
<1>1. TypeOK'
  BY DEF IInv, TypeOK, Phase
<1>2. \A q \in Proc : pc[q] # "crit"
  BY DEF IInv, MutualExclusion
<1>3. MutualExclusion'
  BY <1>2 DEF IInv, TypeOK, MutualExclusion
<1>4. Draining => Draining'
  BY DEF IInv, TypeOK, Draining
<1>5. WaiterCovered' /\ RegisterCovered' /\ ParkCovered'
  BY <1>4 DEF IInv, TypeOK, WaiterCovered, RegisterCovered, ParkCovered, Proc
<1>6. Awake' /\ ListLock'
  BY DEF IInv, TypeOK, Awake, ListLock, Proc
<1> QED
  BY <1>1, <1>3, <1>5, <1>6 DEF IInv

\* The moves of a waiting task that neither park it nor touch the list.
LEMMA StepInv ==
  ASSUME IInv, NEW t \in Task, Contend(t) \/ Retry(t)
  PROVE  IInv'
<1> USE DEF Contend, Retry, Goto
<1>1. TypeOK'
  BY DEF IInv, TypeOK, Phase, Proc
<1>2. t \in Proc /\ UNCHANGED <<state, waiters, wlock, word>>
  BY DEF Proc
<1>3. Draining => Draining'
  BY <1>2 DEF IInv, TypeOK, Draining
<1>4. WaiterCovered' /\ RegisterCovered' /\ ParkCovered'
  BY <1>2, <1>3 DEF IInv, TypeOK, WaiterCovered, RegisterCovered, ParkCovered, Proc
<1>5. MutualExclusion' /\ Awake' /\ ListLock'
  BY <1>2 DEF IInv, TypeOK, MutualExclusion, Awake, ListLock, Proc
<1> QED
  BY <1>1, <1>4, <1>5 DEF IInv

LEMMA MarkInv == ASSUME IInv, NEW t \in Task, Mark(t) PROVE IInv'
<1> USE DEF Mark, Goto
<1>1. TypeOK'
  BY DEF IInv, TypeOK, Phase, Proc
<1>2. t \in Proc /\ UNCHANGED <<waiters, word>> /\ state' = 2 /\ state # 0
  BY DEF Proc
<1>3. WaiterCovered' /\ RegisterCovered' /\ ParkCovered'
  BY <1>2 DEF IInv, TypeOK, WaiterCovered, RegisterCovered, ParkCovered, Proc
<1>4. MutualExclusion' /\ Awake'
  BY <1>2 DEF IInv, TypeOK, MutualExclusion, Awake, Proc
<1>5. ListLock'
  BY <1>2, ProcAssumption DEF IInv, TypeOK, ListLock
<1> QED
  BY <1>1, <1>3, <1>4, <1>5 DEF IInv

LEMMA RegisterInv == ASSUME IInv, NEW t \in Task, Register(t) PROVE IInv'
<1> USE DEF Register, Goto
<1>1. TypeOK'
  BY DEF IInv, TypeOK, Phase, Proc
<1>2. t \in Proc /\ UNCHANGED <<state, word>>
  BY DEF Proc
<1>3. Draining => Draining'
  BY <1>2 DEF IInv, TypeOK, Draining
<1>4. state = 2 \/ Draining
  BY DEF IInv, RegisterCovered
<1>5. WaiterCovered' /\ RegisterCovered' /\ ParkCovered'
  BY <1>2, <1>3, <1>4 DEF IInv, TypeOK, WaiterCovered, RegisterCovered, ParkCovered, Proc
<1>6. MutualExclusion' /\ Awake'
  BY <1>2 DEF IInv, TypeOK, MutualExclusion, Awake, Proc
<1>7. ListLock'
  BY <1>2, ProcAssumption DEF IInv, TypeOK, ListLock
<1> QED
  BY <1>1, <1>5, <1>6, <1>7 DEF IInv

LEMMA ParkInv == ASSUME IInv, NEW t \in Task, Park(t) PROVE IInv'
<1> USE DEF Park, Goto
<1>0. word[t] \in Sched!Word /\ t \in Proc
  BY DEF IInv, TypeOK, Proc
<1>1. TypeOK'
  BY <1>0, YieldedWordFact DEF IInv, TypeOK, Phase
<1>2. /\ word'[t].st \in {"ready", "parked"}
      /\ word'[t].st = "parked" => t \in waiters
  BY <1>0, YieldedWordFact DEF IInv, TypeOK, ParkCovered
<1>3. Draining => Draining'
  BY <1>0 DEF IInv, TypeOK, Draining
<1>4. WaiterCovered'
  BY <1>2, <1>3 DEF IInv, TypeOK, WaiterCovered, Proc
<1>5. RegisterCovered' /\ ParkCovered'
  BY <1>0, <1>3 DEF IInv, TypeOK, RegisterCovered, ParkCovered
<1>6. Awake'
  BY <1>0, <1>2 DEF IInv, TypeOK, Awake
<1>7. MutualExclusion' /\ ListLock'
  BY <1>0 DEF IInv, TypeOK, MutualExclusion, ListLock
<1> QED
  BY <1>1, <1>4, <1>5, <1>6, <1>7 DEF IInv

LEMMA ResumeInv == ASSUME IInv, NEW t \in Task, Resume(t) PROVE IInv'
<1> USE DEF Resume, Goto
<1>0. word[t] \in Sched!Word /\ t \in Proc
  BY DEF IInv, TypeOK, Proc
<1>1. TypeOK'
  BY <1>0, RunningWordFact DEF IInv, TypeOK, Phase
<1>2. word'[t].st = "running"
  BY <1>0, RunningWordFact DEF IInv, TypeOK
<1>3. Draining => Draining'
  BY <1>0 DEF IInv, TypeOK, Draining
<1>4. WaiterCovered' /\ RegisterCovered' /\ ParkCovered'
  BY <1>0, <1>3 DEF IInv, TypeOK, WaiterCovered, RegisterCovered, ParkCovered, Proc
<1>5. Awake'
  BY <1>0, <1>2 DEF IInv, TypeOK, Awake
<1>6. MutualExclusion' /\ ListLock'
  BY <1>0 DEF IInv, TypeOK, MutualExclusion, ListLock
<1> QED
  BY <1>1, <1>4, <1>5, <1>6 DEF IInv

-----------------------------------------------------------------------------
\* The swap: whoever it leaves parked or about to be listed, it leaves to its
\* own drain if it read 2, and to an earlier drain otherwise.
LEMMA UnlockInv == ASSUME IInv, NEW p \in Proc, Unlock(p) PROVE IInv'
<1> USE DEF Unlock, Goto
<1>1. TypeOK'
  BY DEF IInv, TypeOK, Phase
<1>2. UNCHANGED <<waiters, wlock, word>> /\ pc[p] = "crit"
  OBVIOUS
<1>3. state = 2 => Draining'
  BY DEF IInv, TypeOK, Draining
<1>4. Draining => Draining'
  BY DEF IInv, TypeOK, Draining
<1>5. WaiterCovered' /\ RegisterCovered' /\ ParkCovered'
  BY <1>2, <1>3, <1>4 DEF IInv, TypeOK, WaiterCovered, RegisterCovered, ParkCovered, Proc
<1>6. MutualExclusion'
  BY DEF IInv, TypeOK, MutualExclusion
<1>7. Awake' /\ ListLock'
  BY <1>2 DEF IInv, TypeOK, Awake, ListLock, Proc
<1> QED
  BY <1>1, <1>5, <1>6, <1>7 DEF IInv

LEMMA DrainStartInv == ASSUME IInv, NEW p \in Proc, DrainStart(p) PROVE IInv'
<1> USE DEF DrainStart, Goto
<1>1. TypeOK'
  BY DEF IInv, TypeOK, Phase
<1>2. UNCHANGED <<state, waiters, word>>
  OBVIOUS
<1>3. Draining'
  BY DEF IInv, TypeOK, Draining
<1>4. WaiterCovered' /\ RegisterCovered' /\ ParkCovered'
  BY <1>2, <1>3 DEF IInv, TypeOK, WaiterCovered, RegisterCovered, ParkCovered, Proc
<1>5. MutualExclusion' /\ Awake'
  BY <1>2 DEF IInv, TypeOK, MutualExclusion, Awake, Proc
<1>6. ListLock'
  BY ProcAssumption DEF IInv, TypeOK, ListLock
<1> QED
  BY <1>1, <1>4, <1>5, <1>6 DEF IInv

\* A task taken off the list is Ready, or has the wake as a flag.
LEMMA DrainWakeInv ==
  ASSUME IInv, NEW p \in Proc, NEW t \in Task, DrainWake(p, t)
  PROVE  IInv'
<1> USE DEF DrainWake
<1>0. word[t] \in Sched!Word
  BY DEF IInv, TypeOK
<1>1. TypeOK'
  BY <1>0, WokenFact DEF IInv, TypeOK
<1>2. /\ word[t].st = "running" => word'[t].st = "running" /\ word'[t].wake
      /\ word[t].st \in {"ready", "parked"} => word'[t].st = "ready"
  BY <1>0, WokenFact DEF IInv, TypeOK
<1>3. UNCHANGED <<state, wlock, pc>> /\ Draining /\ Draining'
  BY DEF Draining
<1>4. WaiterCovered' /\ RegisterCovered'
  BY <1>2, <1>3 DEF IInv, TypeOK, WaiterCovered, RegisterCovered, Awake
<1>5. ParkCovered'
  BY <1>2, <1>3 DEF IInv, TypeOK, ParkCovered, Awake
<1>6. Awake'
  BY <1>2, <1>3 DEF IInv, TypeOK, Awake
<1>7. MutualExclusion' /\ ListLock'
  BY <1>3 DEF IInv, MutualExclusion, ListLock
<1> QED
  BY <1>1, <1>4, <1>5, <1>6, <1>7 DEF IInv

\* The drain ends with an empty list, and nobody can be between marking the
\* mutex and listing itself: p has the list lock.
LEMMA DrainEndInv == ASSUME IInv, NEW p \in Proc, DrainEnd(p) PROVE IInv'
<1> USE DEF DrainEnd, Goto
<1>1. TypeOK'
  BY ProcAssumption DEF IInv, TypeOK, Phase
<1>2. UNCHANGED <<state, waiters, word>> /\ waiters = {}
  OBVIOUS
<1>3. \A t \in Task : pc'[t] # "register"
  BY DEF IInv, TypeOK, ListLock, Proc
<1>4. WaiterCovered' /\ RegisterCovered' /\ ParkCovered'
  BY <1>2, <1>3 DEF IInv, TypeOK, WaiterCovered, RegisterCovered, ParkCovered, Proc
<1>5. MutualExclusion' /\ Awake'
  BY <1>2 DEF IInv, TypeOK, MutualExclusion, Awake, Proc
<1>6. ListLock'
  BY ProcAssumption DEF IInv, TypeOK, ListLock
<1> QED
  BY <1>1, <1>4, <1>5, <1>6 DEF IInv

LEMMA StrayWakeInv == ASSUME IInv, NEW t \in Task, StrayWake(t) PROVE IInv'
<1> USE DEF StrayWake
<1>0. word[t] \in Sched!Word
  BY DEF IInv, TypeOK
<1>1. TypeOK'
  BY <1>0, WokenFact DEF IInv, TypeOK
<1>2. /\ word[t].st = "running" => word'[t].st = "running" /\ word'[t].wake
      /\ word[t].st \in {"ready", "parked"} => word'[t].st = "ready"
  BY <1>0, WokenFact DEF IInv, TypeOK
<1>3. UNCHANGED <<state, waiters, wlock, pc>> /\ (Draining <=> Draining')
  BY DEF Draining
<1>4. WaiterCovered' /\ RegisterCovered' /\ ParkCovered' /\ Awake'
  BY <1>2, <1>3 DEF IInv, TypeOK, WaiterCovered, RegisterCovered, ParkCovered, Awake
<1>5. MutualExclusion' /\ ListLock'
  BY <1>3 DEF IInv, MutualExclusion, ListLock
<1> QED
  BY <1>1, <1>4, <1>5 DEF IInv

-----------------------------------------------------------------------------
LEMMA NextInv == IInv /\ [Next]_vars => IInv'
<1> SUFFICES ASSUME IInv, [Next]_vars PROVE IInv'
  OBVIOUS
<1>1. CASE Next
  BY <1>1, LockInv, AcquireInv, StepInv, MarkInv, RegisterInv, ParkInv,
     ResumeInv, UnlockInv, DrainStartInv, DrainWakeInv, DrainEndInv,
     StrayWakeInv DEF Next, GreenNext
<1>2. CASE UNCHANGED vars
  BY <1>2 DEF vars, IInv, TypeOK, MutualExclusion, WaiterCovered, ListLock,
     Awake, RegisterCovered, ParkCovered, Draining
<1> QED
  BY <1>1, <1>2

LEMMA Inductive == Spec => []IInv
BY InitInv, NextInv, PTL DEF Spec

\* Every variable of the mutex keeps its type.
THEOREM TypeCorrect == Spec => []TypeOK
<1>1. IInv => TypeOK
  BY DEF IInv
<1> QED
  BY <1>1, Inductive, PTL

\* However many tasks and threads contend, and whatever wakes stray in, lock
\* lets one of them in at a time.
THEOREM Exclusion == Spec => []MutualExclusion
<1>1. IInv => MutualExclusion
  BY DEF IInv
<1> QED
  BY <1>1, Inductive, PTL

\* No unlock loses a waiter: a task parked in lock is listed, and the list is
\* covered by the 2 in the state or by a drain under way.
THEOREM NoLostWake == Spec => []WaiterCovered
<1>1. IInv => WaiterCovered
  BY DEF IInv
<1> QED
  BY <1>1, Inductive, PTL

-----------------------------------------------------------------------------
(* A fifo without one of its tasks.                                        *)

\* RemoveAt of the community modules: what is behind the place moves up.
LEMMA RemoveAtFact ==
  ASSUME NEW X, NEW s \in Seq(X), NEW k \in 1..Len(s)
  PROVE  /\ S!RemoveAt(s, k) \in Seq(X)
         /\ Len(S!RemoveAt(s, k)) = Len(s) - 1
         /\ \A i \in 1..(Len(s) - 1) :
              S!RemoveAt(s, k)[i] = IF i < k THEN s[i] ELSE s[i + 1]
<1> DEFINE front == SubSeq(s, 1, k - 1)
           rear == SubSeq(s, k + 1, Len(s))
<1>0. Len(s) \in Nat /\ \A i \in 1..Len(s) : s[i] \in X
  BY LenProperties
<1>1. /\ front \in Seq(X) /\ Len(front) = k - 1
      /\ \A i \in 1..(k - 1) : front[i] = s[i]
  BY <1>0, SubSeqProperties
<1>2. /\ rear \in Seq(X) /\ Len(rear) = Len(s) - k
      /\ \A i \in 1..(Len(s) - k) : rear[i] = s[k + i]
  BY <1>0, SubSeqProperties
<1> HIDE DEF front, rear
<1> DEFINE joined == front \o rear
<1>3. /\ joined \in Seq(X)
      /\ Len(joined) = Len(s) - 1
      /\ \A i \in 1..(Len(s) - 1) :
           joined[i] = IF i <= k - 1 THEN front[i] ELSE rear[i - (k - 1)]
  BY <1>0, <1>1, <1>2, ConcatProperties
<1>4. S!RemoveAt(s, k) = joined
  BY DEF S!RemoveAt, front, rear
<1> HIDE DEF joined
<1>5. ASSUME NEW i \in 1..(Len(s) - 1)
      PROVE joined[i] = IF i < k THEN s[i] ELSE s[i + 1]
  <2>0. k \in Nat /\ i \in Nat /\ Len(s) \in Nat
    BY <1>0
  <2>1. joined[i] = IF i <= k - 1 THEN front[i] ELSE rear[i - (k - 1)]
    BY <1>3
  <2>2. CASE i < k
    BY <2>0, <2>1, <2>2, <1>1
  <2>3. CASE i >= k
    <3>1. i - (k - 1) \in 1..(Len(s) - k) /\ k + (i - (k - 1)) = i + 1
      BY <2>0, <2>3
    <3>2. rear[i - (k - 1)] = s[i + 1]
      BY <3>1, <1>2
    <3> QED
      BY <2>0, <2>1, <2>3, <3>2
  <2> QED
    BY <2>0, <2>2, <2>3
<1> QED
  BY <1>3, <1>4, <1>5

\* A fifo that lists nobody twice loses the one task it is asked to forget.
LEMMA WithoutFact ==
  ASSUME sWaiters \in Seq(Task), NEW t,
         \A i, j \in DOMAIN sWaiters : sWaiters[i] = sWaiters[j] => i = j
  PROVE  /\ S!Without(t) \in Seq(Task)
         /\ \A i, j \in DOMAIN S!Without(t) :
              S!Without(t)[i] = S!Without(t)[j] => i = j
         /\ {S!Without(t)[i] : i \in DOMAIN S!Without(t)} = S!Listed \ {t}
<1> DEFINE I == {i \in 1..Len(sWaiters) : sWaiters[i] = t}
<1>0. DOMAIN sWaiters = 1..Len(sWaiters) /\ Len(sWaiters) \in Nat
  BY LenProperties
<1>1. CASE I = {}
  <2>1. S!Without(t) = sWaiters
    BY <1>1 DEF S!Without, S!SelectLastInSeq
  <2>2. t \notin S!Listed
    BY <1>0, <1>1 DEF S!Listed
  <2> QED
    BY <2>1, <2>2 DEF S!Listed
<1>2. CASE I # {}
  <2>1. PICK k \in I : TRUE
    BY <1>2
  <2>2. I = {k}
    BY <1>0, <2>1
  <2>3. S!Max(I) = k
    BY <1>0, <2>2 DEF S!Max
  <2>4. S!Without(t) = S!RemoveAt(sWaiters, k)
    BY <1>0, <1>2, <2>1, <2>3 DEF S!Without, S!SelectLastInSeq
  <2> DEFINE rest == S!Without(t)
             n == Len(sWaiters)
  <2>5. /\ rest \in Seq(Task)
        /\ Len(rest) = n - 1
        /\ \A i \in 1..(n - 1) :
             rest[i] = IF i < k THEN sWaiters[i] ELSE sWaiters[i + 1]
    <3>1. k \in 1..Len(sWaiters)
      BY <2>1
    <3>2. /\ S!RemoveAt(sWaiters, k) \in Seq(Task)
          /\ Len(S!RemoveAt(sWaiters, k)) = Len(sWaiters) - 1
          /\ \A i \in 1..(Len(sWaiters) - 1) : S!RemoveAt(sWaiters, k)[i] =
               IF i < k THEN sWaiters[i] ELSE sWaiters[i + 1]
      BY <3>1, RemoveAtFact
    <3> QED
      BY <2>4, <3>2
  <2>6. DOMAIN rest = 1..(n - 1) /\ n \in Nat /\ k \in 1..n
    BY <1>0, <2>1, <2>5, LenProperties
  <2> HIDE DEF rest, n
  <2>7. \A i \in 1..n : sWaiters[i] = t <=> i = k
    BY <2>1, <2>2 DEF n
  <2>8. \A i, j \in 1..n : sWaiters[i] = sWaiters[j] => i = j
    BY <1>0 DEF n
  <2> DEFINE at(i) == IF i < k THEN i ELSE i + 1
  <2>9. ASSUME NEW i \in 1..(n - 1)
        PROVE  at(i) \in (1..n) \ {k} /\ rest[i] = sWaiters[at(i)]
    BY <2>5, <2>6
  <2>10. ASSUME NEW i \in 1..(n - 1), NEW j \in 1..(n - 1), rest[i] = rest[j]
         PROVE  i = j
    <3>1. at(i) = at(j)
      BY <2>8, <2>9, <2>10
    <3> QED
      BY <2>6, <3>1
  <2>11. ASSUME NEW x \in S!Listed \ {t}
         PROVE  \E i \in 1..(n - 1) : rest[i] = x
    <3>1. PICK m \in 1..n : sWaiters[m] = x /\ m # k
      BY <1>0, <2>7, <2>11 DEF S!Listed, n
    <3>2. CASE m < k
      <4>1. m \in 1..(n - 1)
        BY <2>6, <3>2
      <4> QED
        BY <2>5, <3>1, <3>2, <4>1
    <3>3. CASE m > k
      <4>1. m - 1 \in 1..(n - 1) /\ (m - 1) + 1 = m /\ ~(m - 1 < k)
        BY <2>6, <3>3
      <4>2. rest[m - 1] = x
        BY <2>5, <3>1, <4>1
      <4> QED
        BY <4>1, <4>2
    <3> QED
      BY <2>6, <3>1, <3>2, <3>3
  <2>12. {rest[i] : i \in 1..(n - 1)} = S!Listed \ {t}
    <3>1. \A i \in 1..(n - 1) : rest[i] \in S!Listed \ {t}
      BY <1>0, <2>7, <2>9 DEF S!Listed, n
    <3> QED
      BY <2>11, <3>1
  <2> QED
    BY <2>5, <2>6, <2>10, <2>12 DEF rest
<1> QED
  BY <1>1, <1>2

-----------------------------------------------------------------------------
(* The semaphore.  First what the operations of a scheduling word do.      *)

\* A resumed task is Running.
LEMMA SRunningFact ==
  ASSUME NEW w \in S!Sched!Word
  PROVE  /\ S!Sched!RunningWord(w, NoProc) \in S!Sched!Word
         /\ S!Sched!RunningWord(w, NoProc).st = "running"
BY DEF S!Sched!RunningWord, S!Sched!Clear, S!Sched!Word, S!Sched!RunState

\* A suspension parks a task unless a wake is pending.
LEMMA SYieldedFact ==
  ASSUME NEW w \in S!Sched!Word
  PROVE  /\ S!Sched!YieldedWord(w) \in S!Sched!Word
         /\ S!Sched!YieldedWord(w).st \in {"ready", "parked"}
         /\ w.wake => S!Sched!YieldedWord(w).st = "ready"
BY DEF S!Sched!YieldedWord, S!Sched!Clear, S!Sched!Word, S!Sched!RunState

\* A wake leaves a Running word Running, with the flag, and the others Ready.
LEMMA SWokenFact ==
  ASSUME NEW t \in Task, sWord[t] \in S!Sched!Word
  PROVE  /\ S!Woken(t) \in S!Sched!Word
         /\ sWord[t].st = "running" => S!Woken(t).st = "running" /\ S!Woken(t).wake
         /\ sWord[t].st \in {"ready", "parked"} => S!Woken(t).st = "ready"
         /\ sWord[t].wake => S!Woken(t).st # "running" \/ S!Woken(t).wake
BY DEF S!Woken, S!Sched!WokenWord, S!Sched!Claimable, S!Sched!Pendable, S!Sched!ClaimedWord,
       S!Sched!PendedWord, S!Sched!Clear, S!Sched!Word, S!Sched!RunState

\* A task is off its worker only where it has parked.
SAwake ==
  \A t \in Task :
    IF sPc[t] = "asleep" THEN sWord[t].st \in {"ready", "parked"}
                         ELSE sWord[t].st = "running"

\* A task that has yet to park is listed, or was woken since it was.
SParkCovered ==
  \A t \in Task : sPc[t] = "park" => t \in S!Listed \/ sWord[t].wake

\* Threads that are to look at the count again.
SRelocking == {o \in OsThread : sPc[o] = "relock"}

\* Where permits are counted, there are only so many.
SFinite ==
  /\ IsFiniteSet(S!Holders)
  /\ IsFiniteSet(S!InFlight)
  /\ IsFiniteSet(SRelocking)

\* Every operation keeps the core on its own; that a free permit has somebody
\* to take it needs the core of the state before.
SCore ==
  /\ S!TypeOK
  /\ S!FifoExact
  /\ SAwake
  /\ SParkCovered
  /\ SFinite
  /\ S!PermitsConserved

\* What is proved of the semaphore.
SInv == SCore /\ S!PermitsCovered

\* One element less, or one more, of a finite set.
LEMMA OneLess ==
  ASSUME NEW X, NEW x, IsFiniteSet(X)
  PROVE  /\ IsFiniteSet(X \ {x})
         /\ Cardinality(X) \in Nat /\ Cardinality(X \ {x}) \in Nat
         /\ Cardinality(X \ {x}) >= Cardinality(X) - 1
         /\ x \in X => Cardinality(X \ {x}) = Cardinality(X) - 1
<1>1. /\ IsFiniteSet(X \ {x})
      /\ Cardinality(X \ {x}) = IF x \in X THEN Cardinality(X) - 1 ELSE Cardinality(X)
  BY FS_RemoveElement
<1>2. Cardinality(X) \in Nat /\ Cardinality(X \ {x}) \in Nat
  BY <1>1, FS_CardinalityType
<1> QED
  BY <1>1, <1>2

LEMMA OneMore ==
  ASSUME NEW X, NEW x, IsFiniteSet(X)
  PROVE  /\ IsFiniteSet(X \cup {x})
         /\ Cardinality(X) \in Nat /\ Cardinality(X \cup {x}) \in Nat
         /\ Cardinality(X \cup {x}) >= Cardinality(X)
         /\ x \notin X => Cardinality(X \cup {x}) = Cardinality(X) + 1
<1>1. /\ IsFiniteSet(X \cup {x})
      /\ Cardinality(X \cup {x}) = IF x \in X THEN Cardinality(X) ELSE Cardinality(X) + 1
  BY FS_AddElement
<1>2. Cardinality(X) \in Nat /\ Cardinality(X \cup {x}) \in Nat
  BY <1>1, FS_CardinalityType
<1> QED
  BY <1>1, <1>2

\* The instance's counting is the one the library's theorems are about.
LEMMA SCardinality == \A X : S!Cardinality(X) = Cardinality(X)
BY DEF S!Cardinality, Cardinality

\* A new semaphore.
LEMMA SInitInv == S!Init => SInv
<1> SUFFICES ASSUME S!Init PROVE SInv
  OBVIOUS
<1>1. S!Sched!FreshWord \in S!Sched!Word
  BY DEF S!Sched!FreshWord, S!Sched!Clear, S!Sched!Word, S!Sched!RunState
<1>2. S!TypeOK
  BY <1>1, SRunningFact, LocksBounds DEF S!Init, S!TypeOK
<1>3. SAwake
  BY <1>1, SRunningFact DEF S!Init, SAwake, S!Proc
<1>4. S!Listed = {}
  BY DEF S!Init, S!Listed
<1>5. S!FifoExact /\ SParkCovered
  BY <1>4 DEF S!Init, S!FifoExact, SParkCovered, S!Proc
<1>6. S!Holders = {} /\ S!InFlight = {} /\ SRelocking = {} /\ S!Waiting = {}
  BY DEF S!Init, S!Holders, S!InFlight, SRelocking, S!Waiting, S!Proc
<1>7. SFinite /\ S!PermitsConserved /\ S!PermitsCovered
  BY <1>4, <1>6, FS_EmptySet, SCardinality, LocksBounds DEF SFinite, S!PermitsConserved, S!PermitsCovered, S!Init
<1> QED
  BY <1>2, <1>3, <1>5, <1>7 DEF SInv, SCore

\* The fifo lists tasks, none of them twice.
LEMMA ListedOnce ==
  ASSUME SInv
  PROVE  /\ sWaiters \in Seq(Task)
         /\ \A i, j \in DOMAIN sWaiters : sWaiters[i] = sWaiters[j] => i = j
         /\ S!Listed \subseteq Task
<1>1. sWaiters \in Seq(Task)
  BY DEF SInv, SCore, S!TypeOK
<1>2. S!Listed \subseteq Task
  BY <1>1, LenProperties DEF S!Listed
<1> QED
  BY <1>1, <1>2 DEF SInv, SCore, S!FifoExact

\* A permit is taken: the count goes down as a holder comes.
LEMMA STakeInv == ASSUME SInv, NEW p \in S!Proc, S!Take(p) PROVE SInv'
<1> USE DEF S!Take, S!Goto
<1>0. /\ sCount \in 1..Permits
      /\ Permits \in Nat
      /\ sPc[p] \in {"idle", "relock"}
      /\ S!TypeOK
  BY LocksBounds DEF SInv, SCore, S!TypeOK
<1>1. /\ sWaiters' \in Seq(Task)
      /\ \A i, j \in DOMAIN sWaiters' : sWaiters'[i] = sWaiters'[j] => i = j
      /\ S!Listed' = S!Listed \ {p}
  <2> DEFINE rest == S!Without(p)
  <2>1. /\ rest \in Seq(Task)
        /\ \A i, j \in DOMAIN rest : rest[i] = rest[j] => i = j
        /\ {rest[i] : i \in DOMAIN rest} = S!Listed \ {p}
    BY ListedOnce, WithoutFact
  <2>2. sWaiters' = rest
    OBVIOUS
  <2> HIDE DEF rest
  <2>3. S!Listed' = {sWaiters'[i] : i \in DOMAIN sWaiters'}
    BY DEF S!Listed
  <2> QED
    BY <2>1, <2>2, <2>3
<1>2. S!TypeOK'
  BY <1>0, <1>1 DEF S!TypeOK
<1>3. S!FifoExact'
  BY <1>0, <1>1 DEF SInv, SCore, S!TypeOK, S!FifoExact
<1>4. SAwake' /\ SParkCovered'
  BY <1>0, <1>1 DEF SInv, SCore, S!TypeOK, SAwake, SParkCovered
<1>5. S!Holders' = S!Holders \cup {p} /\ p \notin S!Holders
  BY <1>0 DEF S!TypeOK, S!Holders
<1>6. S!InFlight' = S!InFlight \ {p}
  BY <1>0, <1>1 DEF S!TypeOK, S!InFlight
<1>7. SRelocking' = SRelocking \ {p}
  BY <1>0 DEF S!TypeOK, SRelocking
<1>8. IsFiniteSet(S!Holders) /\ IsFiniteSet(S!InFlight) /\ IsFiniteSet(SRelocking)
  BY DEF SInv, SCore, SFinite
<1>9. SFinite'
  BY <1>5, <1>6, <1>7, <1>8, OneLess, OneMore DEF SFinite
<1>10. S!PermitsConserved'
  <2>1. Cardinality(S!Holders') = Cardinality(S!Holders) + 1 /\ Cardinality(S!Holders) \in Nat
    BY <1>5, <1>8, OneMore
  <2> QED
    BY <1>0, <2>1, SCardinality DEF SInv, SCore, S!PermitsConserved
<1>11. S!PermitsCovered'
  <2>1. /\ Cardinality(S!InFlight') >= Cardinality(S!InFlight) - 1
        /\ Cardinality(SRelocking') >= Cardinality(SRelocking) - 1
        /\ Cardinality(S!InFlight) \in Nat /\ Cardinality(SRelocking) \in Nat
        /\ Cardinality(S!InFlight') \in Nat /\ Cardinality(SRelocking') \in Nat
    BY <1>6, <1>7, <1>8, OneLess
  <2>2. (S!Listed' # {} => S!Listed # {}) /\ S!Waiting' = S!Waiting
    BY <1>0, <1>1 DEF S!TypeOK, S!Waiting, S!Proc
  <2> QED
    BY <1>0, <2>1, <2>2, SCardinality DEF SInv, SCore, S!PermitsCovered, SRelocking
<1> QED
  BY <1>2, <1>3, <1>4, <1>9, <1>10, <1>11 DEF SInv, SCore

\* Appending one that is not in the fifo.
LEMMA AppendFact ==
  ASSUME NEW q, q \in Seq(Task), NEW t \in Task,
         \A i, j \in DOMAIN q : q[i] = q[j] => i = j,
         \A i \in DOMAIN q : q[i] # t
  PROVE  /\ Append(q, t) \in Seq(Task)
         /\ \A i, j \in DOMAIN Append(q, t) :
              Append(q, t)[i] = Append(q, t)[j] => i = j
         /\ {Append(q, t)[i] : i \in DOMAIN Append(q, t)}
              = {q[i] : i \in DOMAIN q} \cup {t}
<1> DEFINE r == Append(q, t)
           n == Len(q)
<1>1. n \in Nat /\ DOMAIN q = 1..n
  BY LenProperties
<1>2. /\ r \in Seq(Task) /\ Len(r) = n + 1
      /\ \A i \in 1..n : r[i] = q[i]
      /\ r[n + 1] = t
  BY AppendProperties
<1>3. DOMAIN r = 1..(n + 1)
  BY <1>1, <1>2, LenProperties
<1> HIDE DEF r, n
<1>4. \A i \in 1..(n + 1) : i \in 1..n \/ i = n + 1
  BY <1>1
<1>5. \A i, j \in 1..(n + 1) : r[i] = r[j] => i = j
  BY <1>1, <1>2, <1>4
<1>6. {r[i] : i \in 1..(n + 1)} = {q[i] : i \in 1..n} \cup {t}
  <2>1. n + 1 \in 1..(n + 1) /\ \A i \in 1..n : i \in 1..(n + 1)
    BY <1>1
  <2> QED
    BY <1>2, <1>4, <2>1
<1> QED
  BY <1>1, <1>2, <1>3, <1>5, <1>6 DEF r

\* No permit: a task is listed on its way to park, a thread waits.
LEMMA SBlockInv == ASSUME SInv, NEW p \in S!Proc, S!Block(p) PROVE SInv'
<1> USE DEF S!Block, S!Goto
<1>0. /\ sCount = 0 /\ sCount' = 0 /\ sWord' = sWord
      /\ sPc[p] \in {"idle", "relock"}
      /\ S!TypeOK
  BY DEF SInv, SCore
<1>1. ASSUME p \in OsThread PROVE SCore'
  <2>1. sWaiters' = sWaiters /\ sPc' = [sPc EXCEPT ![p] = "wait"] /\ p \notin Task
    BY <1>1, ProcAssumption
  <2>2. S!TypeOK'
    BY <1>0, <2>1 DEF S!TypeOK
  <2>3. S!Listed' = S!Listed
    BY <2>1 DEF S!Listed
  <2>4. \A t \in Task : sPc'[t] = sPc[t]
    BY <1>0, <2>1 DEF S!TypeOK, S!Proc
  <2>5. S!FifoExact' /\ SAwake' /\ SParkCovered'
    BY <1>0, <2>1, <2>3, <2>4, ListedOnce DEF SInv, SCore, S!FifoExact, SAwake, SParkCovered
  <2>6. S!Holders' = S!Holders /\ S!InFlight' = S!InFlight
    BY <1>0, <2>1, <2>3 DEF S!TypeOK, S!Holders, S!InFlight
  <2>7. SRelocking' = SRelocking \ {p}
    BY <1>0, <2>1 DEF S!TypeOK, SRelocking
  <2>8. SFinite' /\ S!PermitsConserved'
    BY <1>0, <2>6, <2>7, OneLess DEF SInv, SCore, SFinite, S!PermitsConserved
  <2> QED
    BY <2>2, <2>5, <2>8 DEF SCore
<1>2. ASSUME p \in Task PROVE SCore'
  <2>1. /\ sWaiters' = Append(S!Without(p), p)
        /\ sPc' = [sPc EXCEPT ![p] = "park"] /\ p \notin OsThread
    BY <1>2, ProcAssumption
  <2>2. /\ sWaiters' \in Seq(Task)
        /\ \A i, j \in DOMAIN sWaiters' : sWaiters'[i] = sWaiters'[j] => i = j
        /\ S!Listed' = S!Listed \cup {p}
    <3> DEFINE rest == S!Without(p)
    <3>1. /\ rest \in Seq(Task)
          /\ \A i, j \in DOMAIN rest : rest[i] = rest[j] => i = j
          /\ {rest[i] : i \in DOMAIN rest} = S!Listed \ {p}
      BY ListedOnce, WithoutFact
    <3>2. sWaiters' = Append(rest, p)
      BY <2>1
    <3> HIDE DEF rest
    <3>3. \A i \in DOMAIN rest : rest[i] # p
      BY <3>1
    <3>5. /\ Append(rest, p) \in Seq(Task)
          /\ \A i, j \in DOMAIN Append(rest, p) :
               Append(rest, p)[i] = Append(rest, p)[j] => i = j
          /\ {Append(rest, p)[i] : i \in DOMAIN Append(rest, p)}
               = {rest[i] : i \in DOMAIN rest} \cup {p}
      BY <1>2, <3>1, <3>3, AppendFact, ZenonT(30)
    <3>4. S!Listed' = {sWaiters'[i] : i \in DOMAIN sWaiters'}
      BY DEF S!Listed
    <3> QED
      BY <3>1, <3>2, <3>4, <3>5
  <2>3. S!TypeOK'
    BY <1>0, <2>1, <2>2 DEF S!TypeOK
  <2>4. sPc'[p] = "park" /\ \A q \in S!Proc \ {p} : sPc'[q] = sPc[q]
    BY <1>0, <2>1 DEF S!TypeOK
  <2>5. S!FifoExact' /\ SAwake' /\ SParkCovered'
    BY <1>0, <2>2, <2>4, ListedOnce DEF SInv, SCore, S!FifoExact, SAwake, SParkCovered, S!Proc
  <2>6. S!Holders' = S!Holders /\ SRelocking' = SRelocking
    BY <1>0, <2>1, <2>4 DEF S!TypeOK, S!Holders, SRelocking, S!Proc
  <2>7. S!InFlight' = S!InFlight \ {p}
    BY <1>0, <2>2, <2>4 DEF S!InFlight, S!Proc
  <2>8. SFinite' /\ S!PermitsConserved'
    BY <1>0, <2>6, <2>7, OneLess DEF SInv, SCore, SFinite, S!PermitsConserved
  <2> QED
    BY <2>3, <2>5, <2>8 DEF SCore
<1>3. SCore'
  BY <1>1, <1>2 DEF S!Proc
<1>4. S!PermitsCovered'
  <2>1. Cardinality(S!InFlight') \in Nat /\ Cardinality(SRelocking') \in Nat
    BY <1>3, FS_CardinalityType DEF SCore, SFinite
  <2> QED
    BY <1>0, <2>1, SCardinality DEF S!PermitsCovered, SRelocking
<1> QED
  BY <1>3, <1>4 DEF SInv, SCore

\* A move of one task's scheduling word: the fifo and the counts stay.
LEMMA SWordInv ==
  ASSUME SInv, NEW t \in Task, S!Park(t) \/ S!Resume(t) \/ S!StrayWake(t)
  PROVE  SInv'
<1>0. /\ S!TypeOK
      /\ sWord[t] \in S!Sched!Word /\ t \in S!Proc
      /\ sPc[t] \in {"park", "asleep"}
      /\ sCount' = sCount /\ sWaiters' = sWaiters
  BY DEF SInv, SCore, S!TypeOK, S!Proc, S!Park, S!Resume, S!StrayWake
<1>1. S!Listed' = S!Listed
  BY <1>0 DEF S!Listed
<1>2. /\ sPc' \in [S!Proc -> {"idle", "held", "park", "asleep", "wait", "relock"}]
      /\ sPc'[t] \in {"park", "asleep", "relock"}
      /\ \A q \in S!Proc \ {t} : sPc'[q] = sPc[q]
  BY <1>0 DEF S!TypeOK, S!Park, S!Resume, S!StrayWake, S!Goto
<1>3. /\ sWord' \in [Task -> S!Sched!Word]
      /\ \A u \in Task \ {t} : sWord'[u] = sWord[u]
  BY <1>0, SRunningFact, SYieldedFact, SWokenFact
     DEF S!TypeOK, S!Park, S!Resume, S!StrayWake
<1>4. /\ IF sPc'[t] = "asleep" THEN sWord'[t].st \in {"ready", "parked"}
                               ELSE sWord'[t].st = "running"
      /\ sPc'[t] = "park" => t \in S!Listed \/ sWord'[t].wake
      /\ sPc'[t] = "asleep" /\ sWord'[t].st = "parked" => t \in S!Listed
  <2>1. /\ IF sPc[t] = "asleep" THEN sWord[t].st \in {"ready", "parked"}
                                ELSE sWord[t].st = "running"
        /\ sPc[t] = "park" => t \in S!Listed \/ sWord[t].wake
        /\ sPc[t] = "asleep" /\ sWord[t].st = "parked" => t \in S!Listed
    BY DEF SInv, SCore, SAwake, SParkCovered, S!FifoExact
  <2>2. CASE S!Park(t)
    BY <1>0, <2>1, <2>2, SYieldedFact DEF S!TypeOK, S!Park, S!Goto
  <2>3. CASE S!Resume(t)
    BY <1>0, <2>1, <2>3, SRunningFact DEF S!TypeOK, S!Resume, S!Goto
  <2>4. CASE S!StrayWake(t)
    BY <1>0, <2>1, <2>4, SWokenFact DEF S!TypeOK, S!StrayWake
  <2> QED
    BY <2>2, <2>3, <2>4
<1>5. S!TypeOK'
  BY <1>0, <1>2, <1>3 DEF S!TypeOK
<1>6. S!FifoExact' /\ SAwake' /\ SParkCovered'
  BY <1>0, <1>1, <1>2, <1>3, <1>4, ListedOnce
     DEF SInv, SCore, S!FifoExact, SAwake, SParkCovered, S!Proc
<1>7. S!Holders' = S!Holders /\ S!InFlight' = S!InFlight
  BY <1>0, <1>1, <1>2 DEF S!Holders, S!InFlight, S!Proc
<1>8. SRelocking' = SRelocking /\ S!Waiting' = S!Waiting
  BY <1>0, <1>2, ProcAssumption DEF SRelocking, S!Waiting, S!Proc
<1>9. SFinite' /\ S!PermitsConserved' /\ S!PermitsCovered'
  BY <1>0, <1>1, <1>7, <1>8
     DEF SInv, SCore, SFinite, S!PermitsConserved, S!PermitsCovered, SRelocking
<1> QED
  BY <1>5, <1>6, <1>9 DEF SInv, SCore

\* A thread wakes without a permit.
LEMMA SSpuriousInv == ASSUME SInv, NEW o \in OsThread, S!Spurious(o) PROVE SInv'
<1> USE DEF S!Spurious, S!Goto
<1>0. /\ S!TypeOK /\ sPc[o] = "wait" /\ o \in S!Proc /\ o \notin Task
      /\ sCount' = sCount /\ sWaiters' = sWaiters /\ sWord' = sWord
  BY ProcAssumption DEF SInv, SCore, S!Proc
<1>1. S!Listed' = S!Listed
  BY <1>0 DEF S!Listed
<1>2. S!TypeOK'
  BY <1>0 DEF S!TypeOK
<1>3. sPc'[o] = "relock" /\ \A q \in S!Proc \ {o} : sPc'[q] = sPc[q]
  BY <1>0 DEF S!TypeOK
<1>4. S!FifoExact' /\ SAwake' /\ SParkCovered'
  BY <1>0, <1>1, <1>3, ListedOnce DEF SInv, SCore, S!FifoExact, SAwake, SParkCovered, S!Proc
<1>5. S!Holders' = S!Holders /\ S!InFlight' = S!InFlight
  BY <1>0, <1>1, <1>3 DEF S!Holders, S!InFlight, S!Proc
<1>6. SRelocking' = SRelocking \cup {o} /\ S!Waiting' = S!Waiting \ {o}
  BY <1>0, <1>3 DEF SRelocking, S!Waiting, S!Proc
<1>7. SFinite' /\ S!PermitsConserved'
  BY <1>0, <1>5, <1>6, OneMore DEF SInv, SCore, SFinite, S!PermitsConserved
<1>8. S!PermitsCovered'
  <2>1. /\ Cardinality(SRelocking') >= Cardinality(SRelocking)
        /\ Cardinality(SRelocking) \in Nat /\ Cardinality(SRelocking') \in Nat
    BY <1>6, OneMore DEF SInv, SCore, SFinite
  <2>2. sCount \in Nat
    BY <1>0, LocksBounds DEF S!TypeOK
  <2> QED
    BY <1>0, <1>1, <1>5, <1>6, <2>1, <2>2, SCardinality
       DEF SInv, S!PermitsCovered, SRelocking
<1> QED
  BY <1>2, <1>4, <1>7, <1>8 DEF SInv, SCore

\* A permit comes back, and with it a thread or the front task is woken.
LEMMA SReleaseInv == ASSUME SInv, NEW p \in S!Proc, S!Release(p) PROVE SInv'
<1>0. /\ S!TypeOK /\ sPc[p] = "held" /\ Permits \in Nat /\ sCount \in 0..Permits
      /\ IsFiniteSet(S!Holders) /\ IsFiniteSet(S!InFlight) /\ IsFiniteSet(SRelocking)
  BY LocksBounds DEF SInv, SCore, SFinite, S!Release, S!TypeOK
<1>1. PICK one \in {{o} : o \in S!Waiting} \cup (IF S!Waiting = {} THEN {{}} ELSE {}) :
        sPc' = [q \in S!Proc |-> IF q \in one THEN "relock"
                                 ELSE IF q = p THEN "idle" ELSE sPc[q]]
  BY DEF S!Release
<1>2. /\ one \subseteq S!Waiting
      /\ S!Waiting # {} => \E o \in S!Waiting : one = {o}
      /\ S!Waiting \subseteq OsThread
  BY DEF S!Waiting
<1>3. /\ \A q \in one : sPc[q] = "wait" /\ sPc'[q] = "relock"
      /\ p \notin one /\ sPc'[p] = "idle"
      /\ \A q \in S!Proc \ ({p} \cup one) : sPc'[q] = sPc[q]
  BY <1>0, <1>1, <1>2 DEF S!Waiting, S!Proc
<1>4. sCount < Permits /\ sCount' = sCount + 1
  <2>1. p \in S!Holders
    BY <1>0 DEF S!Holders
  <2>2. Cardinality(S!Holders) \in Nat /\ Cardinality(S!Holders) # 0
    BY <1>0, <2>1, FS_CardinalityType, FS_EmptySet
  <2>3. sCount + Cardinality(S!Holders) = Permits
    BY SCardinality DEF SInv, SCore, S!PermitsConserved
  <2> QED
    BY <1>0, <2>2, <2>3 DEF S!Release, S!GiveBack
<1>5. S!Holders' = S!Holders \ {p} /\ p \in S!Holders
  BY <1>0, <1>3 DEF S!Holders
<1>6. SRelocking' = SRelocking \cup one /\ S!Waiting' = S!Waiting \ one
  BY <1>0, <1>2, <1>3 DEF SRelocking, S!Waiting, S!Proc
<1>7. \A t \in Task : IF t = p THEN sPc[t] = "held" /\ sPc'[t] = "idle"
                               ELSE sPc'[t] = sPc[t]
  BY <1>0, <1>2, <1>3, ProcAssumption DEF S!Proc
\* The fifo loses its front task, and that one's word takes the wake.
<1>8. /\ sWaiters' \in Seq(Task)
      /\ \A i, j \in DOMAIN sWaiters' : sWaiters'[i] = sWaiters'[j] => i = j
      /\ sWord' \in [Task -> S!Sched!Word]
      /\ \E gone \in SUBSET S!Listed :
           /\ S!Listed' = S!Listed \ gone
           /\ S!Listed # {} => \E t \in S!Listed : gone = {t}
           /\ \A t \in Task : sWord'[t] = IF t \in gone THEN S!Woken(t) ELSE sWord[t]
  <2>1. CASE sWaiters = <<>> /\ UNCHANGED <<sWaiters, sWord>>
    <3>1. S!Listed = {} /\ S!Listed' = {}
      BY <2>1 DEF S!Listed
    <3>2. \A t \in Task : sWord'[t] = IF t \in {} THEN S!Woken(t) ELSE sWord[t]
      BY <2>1
    <3>3. {} \in SUBSET S!Listed /\ S!Listed' = S!Listed \ {}
      BY <3>1
    <3>4. sWaiters' = sWaiters /\ sWord' \in [Task -> S!Sched!Word]
      BY <1>0, <2>1 DEF S!TypeOK
    <3> QED
      BY <3>1, <3>2, <3>3, <3>4, ListedOnce
  <2>2. CASE /\ sWaiters # <<>>
             /\ sWaiters' = Tail(sWaiters)
             /\ sWord' = [sWord EXCEPT ![Head(sWaiters)] = S!Woken(Head(sWaiters))]
    <3> DEFINE h == Head(sWaiters)
               n == Len(sWaiters)
    <3>1. /\ sWaiters \in Seq(Task) /\ n \in Nat /\ DOMAIN sWaiters = 1..n /\ n # 0
          /\ h = sWaiters[1] /\ h \in Task
      BY <2>2, ListedOnce, LenProperties, EmptySeq, HeadTailProperties
    <3>2. /\ sWaiters' \in Seq(Task) /\ Len(sWaiters') = n - 1
          /\ \A i \in 1..(n - 1) : sWaiters'[i] = sWaiters[i + 1]
      BY <2>2, ListedOnce, HeadTailProperties
    <3>3. DOMAIN sWaiters' = 1..(n - 1)
      BY <3>2, LenProperties
    <3>0. \A i, j \in 1..n : sWaiters[i] = sWaiters[j] => i = j
      BY <3>1, ListedOnce
    <3> HIDE DEF h, n
    <3>4. ASSUME NEW i \in 1..(n - 1), NEW j \in 1..(n - 1), sWaiters'[i] = sWaiters'[j]
          PROVE  i = j
      <4>1. /\ i + 1 \in 1..n /\ sWaiters'[i] = sWaiters[i + 1]
            /\ j + 1 \in 1..n /\ sWaiters'[j] = sWaiters[j + 1]
        BY <3>1, <3>2
      <4>2. i + 1 = j + 1
        BY <3>0, <3>4, <4>1
      <4> QED
        BY <3>1, <4>2
    <3>5. S!Listed' = S!Listed \ {h} /\ h \in S!Listed
      <4>1. \A i \in 1..(n - 1) : i + 1 \in 1..n /\ i + 1 # 1
        BY <3>1
      <4>2. \A i \in 1..n : i # 1 => i - 1 \in 1..(n - 1) /\ (i - 1) + 1 = i
        BY <3>1
      <4>3. 1 \in 1..n
        BY <3>1
      <4>4. S!Listed = {sWaiters[i] : i \in 1..n} /\ h \in S!Listed
        BY <3>1, <4>3 DEF S!Listed
      <4>5. S!Listed' = {sWaiters'[i] : i \in 1..(n - 1)}
        BY <3>3 DEF S!Listed
      <4>6. \A x \in S!Listed' : x \in S!Listed \ {h}
        <5>1. ASSUME NEW i \in 1..(n - 1) PROVE sWaiters'[i] \in S!Listed \ {h}
          <6>1. /\ sWaiters'[i] = sWaiters[i + 1] /\ h = sWaiters[1]
                /\ i + 1 \in 1..n /\ 1 \in 1..n /\ i + 1 # 1
            BY <3>1, <3>2, <4>1, <4>3
          <6> QED
            BY <3>0, <4>4, <6>1
        <5> QED
          BY <4>5, <5>1
      <4>7. ASSUME NEW x \in S!Listed \ {h} PROVE x \in S!Listed'
        <5>1. PICK i \in 1..n : x = sWaiters[i] /\ i # 1
          BY <3>1, <4>4, <4>7
        <5>2. sWaiters'[i - 1] = x /\ i - 1 \in 1..(n - 1)
          BY <3>2, <4>2, <5>1
        <5> QED
          BY <4>5, <5>2
      <4> QED
        BY <4>4, <4>6, <4>7
    <3>6. /\ sWord' \in [Task -> S!Sched!Word]
          /\ \A t \in Task : sWord'[t] = IF t \in {h} THEN S!Woken(t) ELSE sWord[t]
      BY <1>0, <2>2, <3>1, SWokenFact DEF S!TypeOK, h
    <3> QED
      BY <3>2, <3>3, <3>4, <3>5, <3>6
  <2> QED
    BY <2>1, <2>2 DEF S!Release
<1>9. PICK gone \in SUBSET S!Listed :
        /\ S!Listed' = S!Listed \ gone
        /\ S!Listed # {} => \E t \in S!Listed : gone = {t}
        /\ \A t \in Task : sWord'[t] = IF t \in gone THEN S!Woken(t) ELSE sWord[t]
  BY <1>8
<1>10. S!TypeOK'
  <2>1. sPc' \in [S!Proc -> {"idle", "held", "park", "asleep", "wait", "relock"}]
    BY <1>0, <1>1 DEF S!TypeOK
  <2>2. sCount' \in 0..Permits
    BY <1>0, <1>4
  <2> QED
    BY <1>8, <2>1, <2>2 DEF S!TypeOK
<1>11. \A t \in S!Listed : sPc[t] \in {"park", "asleep", "relock"} /\ t \in Task /\ t # p
  BY <1>0, ListedOnce DEF SInv, SCore, S!FifoExact
<1>12. /\ \A t \in S!Listed' : sPc'[t] \in {"park", "asleep", "relock"}
       /\ \A t \in Task : sPc'[t] = "asleep" /\ sWord'[t].st = "parked" => t \in S!Listed'
  <2>1. \A t \in Task : /\ sPc[t] = "asleep" => sWord[t].st \in {"ready", "parked"}
                        /\ sPc[t] = "asleep" /\ sWord[t].st = "parked" => t \in S!Listed
                        /\ sWord[t] \in S!Sched!Word
    BY <1>0 DEF SInv, SCore, S!FifoExact, SAwake, S!TypeOK
  <2> QED
    BY <1>7, <1>9, <1>11, <2>1, SWokenFact
<1>13. SAwake' /\ SParkCovered'
  <2>1. \A t \in Task : /\ IF sPc[t] = "asleep" THEN sWord[t].st \in {"ready", "parked"}
                                                ELSE sWord[t].st = "running"
                        /\ sPc[t] = "park" => t \in S!Listed \/ sWord[t].wake
                        /\ sWord[t] \in S!Sched!Word
    BY <1>0 DEF SInv, SCore, SAwake, SParkCovered, S!TypeOK
  <2> QED
    BY <1>7, <1>9, <2>1, SWokenFact DEF SAwake, SParkCovered
<1>14. S!InFlight' = S!InFlight \cup gone /\ gone \cap S!InFlight = {}
  BY <1>0, <1>7, <1>9, <1>11 DEF S!InFlight
<1>15. /\ SFinite'
       /\ Cardinality(S!InFlight) \in Nat /\ Cardinality(S!InFlight') \in Nat
       /\ S!Listed # {} => Cardinality(S!InFlight') = Cardinality(S!InFlight) + 1
       /\ Cardinality(SRelocking) \in Nat /\ Cardinality(SRelocking') \in Nat
       /\ S!Waiting # {} => Cardinality(SRelocking') = Cardinality(SRelocking) + 1
  <2>1. IsFiniteSet(S!Holders')
    BY <1>0, <1>5, OneLess
  <2>2. /\ IsFiniteSet(S!InFlight')
        /\ S!Listed # {} => Cardinality(S!InFlight') = Cardinality(S!InFlight) + 1
    <3>1. CASE S!Listed = {}
      BY <1>0, <1>9, <1>14, <3>1
    <3>2. CASE S!Listed # {}
      <4>1. PICK t : gone = {t} /\ t \notin S!InFlight
        BY <1>9, <1>14, <3>2
      <4>2. S!InFlight' = S!InFlight \cup {t}
        BY <1>14, <4>1
      <4> QED
        BY <1>0, <4>1, <4>2, OneMore
    <3> QED
      BY <3>1, <3>2
  <2>3. /\ IsFiniteSet(SRelocking')
        /\ S!Waiting # {} => Cardinality(SRelocking') = Cardinality(SRelocking) + 1
    <3>1. CASE S!Waiting = {}
      BY <1>0, <1>2, <1>6, <3>1
    <3>2. CASE S!Waiting # {}
      <4>1. PICK o : one = {o} /\ o \notin SRelocking
        BY <1>2, <1>3, <3>2 DEF SRelocking
      <4>2. SRelocking' = SRelocking \cup {o}
        BY <1>6, <4>1
      <4> QED
        BY <1>0, <4>1, <4>2, OneMore
    <3> QED
      BY <3>1, <3>2
  <2> QED
    BY <1>0, <2>1, <2>2, <2>3, FS_CardinalityType DEF SFinite
<1>16. S!PermitsConserved'
  <2>1. /\ Cardinality(S!Holders') = Cardinality(S!Holders) - 1
        /\ Cardinality(S!Holders) \in Nat
    BY <1>0, <1>5, OneLess
  <2> QED
    BY <1>0, <1>4, <2>1, SCardinality DEF SInv, SCore, S!PermitsConserved
<1>17. S!PermitsCovered'
  <2>1. (S!Listed' # {} => S!Listed # {}) /\ (S!Waiting' # {} => S!Waiting # {})
    BY <1>6, <1>9
  <2> QED
    BY <1>0, <1>4, <1>15, <2>1, SCardinality DEF SInv, S!PermitsCovered, SRelocking
<1>18. S!FifoExact'
  BY <1>8, <1>12 DEF S!FifoExact
<1> QED
  BY <1>10, <1>13, <1>15, <1>16, <1>17, <1>18 DEF SInv, SCore

\* Every step of the semaphore.
LEMMA SNextInv == SInv /\ [S!Next]_sVars => SInv'
<1> SUFFICES ASSUME SInv, [S!Next]_sVars PROVE SInv'
  OBVIOUS
<1>1. CASE S!Next
  BY <1>1, STakeInv, SBlockInv, SReleaseInv, SWordInv, SSpuriousInv DEF S!Next
<1>2. CASE UNCHANGED sVars
  BY <1>2 DEF sVars, SInv, SCore, S!TypeOK, S!FifoExact, SAwake, SParkCovered, SFinite,
     S!PermitsConserved, S!PermitsCovered, S!Listed, S!Holders, S!InFlight, S!Waiting,
     SRelocking
<1> QED
  BY <1>1, <1>2

-----------------------------------------------------------------------------
(* The wait group.                                                         *)

\* A task is off its worker only where it has parked.
GAwake ==
  \A t \in Task :
    IF gPc[t] = "asleep" THEN gWord[t].st \in {"ready", "parked"}
                         ELSE gWord[t].st = "running"

\* A negative add may leave a waiter behind (the AddCorrection run): without
\* one nobody stays when the count is zero.
GInv == G!TypeOK /\ GAwake /\ (Delta \subseteq Nat => G!NobodyLeft)

\* A resumed task is Running.
LEMMA GRunningFact ==
  ASSUME NEW w \in G!Sched!Word
  PROVE  /\ G!Sched!RunningWord(w, NoProc) \in G!Sched!Word
         /\ G!Sched!RunningWord(w, NoProc).st = "running"
BY DEF G!Sched!RunningWord, G!Sched!Clear, G!Sched!Word, G!Sched!RunState

\* A suspension parks a task unless a wake is pending.
LEMMA GYieldedFact ==
  ASSUME NEW w \in G!Sched!Word
  PROVE  /\ G!Sched!YieldedWord(w) \in G!Sched!Word
         /\ G!Sched!YieldedWord(w).st \in {"ready", "parked"}
         /\ w.wake => G!Sched!YieldedWord(w).st = "ready"
BY DEF G!Sched!YieldedWord, G!Sched!Clear, G!Sched!Word, G!Sched!RunState

\* A wake leaves a Running word Running, with the flag, and the others Ready.
LEMMA GWokenFact ==
  ASSUME NEW t \in Task, gWord[t] \in G!Sched!Word
  PROVE  /\ G!Woken(t) \in G!Sched!Word
         /\ gWord[t].st = "running" => G!Woken(t).st = "running" /\ G!Woken(t).wake
         /\ gWord[t].st \in {"ready", "parked"} => G!Woken(t).st = "ready"
BY DEF G!Woken, G!Sched!WokenWord, G!Sched!Claimable, G!Sched!Pendable, G!Sched!ClaimedWord,
       G!Sched!PendedWord, G!Sched!Clear, G!Sched!Word, G!Sched!RunState

\* A new wait group.
LEMMA GInitInv == G!Init => GInv
<1> SUFFICES ASSUME G!Init PROVE GInv
  OBVIOUS
<1>1. G!Sched!FreshWord \in G!Sched!Word
  BY DEF G!Sched!FreshWord, G!Sched!Clear, G!Sched!Word, G!Sched!RunState
<1>2. G!TypeOK
  BY <1>1, GRunningFact, LocksBounds DEF G!Init, G!TypeOK
<1>3. GAwake /\ G!NobodyLeft
  BY <1>1, GRunningFact DEF G!Init, GAwake, G!NobodyLeft, G!Proc
<1> QED
  BY <1>2, <1>3 DEF GInv

\* add: the count is clamped at zero, and nobody is woken.
LEMMA GAddInv == ASSUME GInv, NEW delta \in Delta, G!Add(delta) PROVE GInv'
<1>1. /\ gCount \in 0..MaxCount /\ MaxCount \in Nat /\ delta \in Int
      /\ gCount' = IF gCount + delta < 0 THEN 0 ELSE gCount + delta
      /\ gCount + delta <= MaxCount
  BY LocksBounds DEF GInv, G!TypeOK, G!Add
<1>2. gCount' \in 0..MaxCount /\ (delta \in Nat => gCount' >= gCount)
  BY <1>1
<1>3. gWaiters' = gWaiters /\ gPc' = gPc /\ gWord' = gWord
  BY DEF G!Add
<1> QED
  BY <1>1, <1>2, <1>3 DEF GInv, G!TypeOK, GAwake, G!NobodyLeft

\* done: the last one wakes everybody.
LEMMA GDoneInv == ASSUME GInv, G!Done PROVE GInv'
<1>1. /\ gCount \in 0..MaxCount /\ MaxCount \in Nat
      /\ gCount' = G!Less /\ gCount' \in 0..MaxCount
  BY LocksBounds DEF GInv, G!TypeOK, G!Done, G!Less
<1>2. CASE G!Less # 0 /\ UNCHANGED <<gWaiters, gPc, gWord>>
  BY <1>1, <1>2 DEF GInv, G!TypeOK, GAwake, G!NobodyLeft
<1>3. CASE /\ gPc' = [p \in G!Proc |-> IF gPc[p] = "wait" THEN "relock" ELSE gPc[p]]
           /\ gWord' = [t \in Task |-> IF t \in gWaiters THEN G!Woken(t) ELSE gWord[t]]
           /\ gWaiters' = {}
  <2>1. \A t \in Task : /\ t \in G!Proc
                        /\ gWord[t] \in G!Sched!Word
                        /\ IF gPc[t] = "asleep" THEN gWord[t].st \in {"ready", "parked"}
                                                ELSE gWord[t].st = "running"
    BY DEF GInv, G!TypeOK, GAwake, G!Proc
  <2>2. G!TypeOK'
    BY <1>1, <1>3, <2>1, GWokenFact DEF GInv, G!TypeOK
  <2>3. GAwake'
    BY <1>3, <2>1, GWokenFact DEF GAwake
  <2>4. Delta \subseteq Nat => G!NobodyLeft'
    BY <1>3, <2>1, GWokenFact DEF GInv, G!NobodyLeft, G!Proc
  <2> QED
    BY <2>2, <2>3, <2>4 DEF GInv
<1> QED
  BY <1>2, <1>3 DEF G!Done

\* wait: under the lock, zero returns and anything else is listed.
LEMMA GEnterInv ==
  ASSUME GInv, NEW p \in G!Proc, G!Return(p) \/ G!Block(p)
  PROVE  GInv'
<1>0. /\ gCount \in 0..MaxCount /\ MaxCount \in Nat /\ gCount' = gCount
      /\ gWord' = gWord /\ gPc[p] \in {"idle", "relock"}
      /\ gPc \in [G!Proc -> {"idle", "park", "asleep", "wait", "relock"}]
      /\ gWaiters \subseteq Task
  BY LocksBounds DEF GInv, G!TypeOK, G!Return, G!Block
<1>1. CASE G!Return(p)
  <2>1. G!TypeOK'
    BY <1>0, <1>1 DEF GInv, G!TypeOK, G!Return, G!Goto
  <2>2. GAwake' /\ (Delta \subseteq Nat => G!NobodyLeft')
    BY <1>0, <1>1 DEF GInv, G!Return, G!Goto, GAwake, G!NobodyLeft, G!Proc
  <2> QED
    BY <2>1, <2>2 DEF GInv
<1>2. CASE G!Block(p)
  <2>1. G!TypeOK'
    BY <1>0, <1>2 DEF GInv, G!TypeOK, G!Block, G!Goto
  <2>2. GAwake'
    BY <1>0, <1>2 DEF GInv, G!Block, G!Goto, GAwake, G!Proc
  <2>3. Delta \subseteq Nat => G!NobodyLeft'
    BY <1>0, <1>2 DEF GInv, G!Block, G!Goto, G!NobodyLeft, G!Proc
  <2> QED
    BY <2>1, <2>2, <2>3 DEF GInv
<1> QED
  BY <1>1, <1>2

\* A move of one task's scheduling word.
LEMMA GWordInv ==
  ASSUME GInv, NEW t \in Task, G!Park(t) \/ G!Resume(t) \/ G!StrayWake(t)
  PROVE  GInv'
<1>0. /\ gWord[t] \in G!Sched!Word /\ t \in G!Proc
      /\ gPc \in [G!Proc -> {"idle", "park", "asleep", "wait", "relock"}]
      /\ gWord \in [Task -> G!Sched!Word]
      /\ gCount' = gCount /\ gWaiters' = gWaiters
  BY DEF GInv, G!TypeOK, G!Proc, G!Park, G!Resume, G!StrayWake
<1>1. CASE G!Park(t)
  <2>1. G!TypeOK'
    BY <1>0, <1>1, GYieldedFact DEF GInv, G!TypeOK, G!Park, G!Goto
  <2>2. GAwake' /\ (Delta \subseteq Nat => G!NobodyLeft')
    BY <1>0, <1>1, GYieldedFact, ProcAssumption
       DEF GInv, G!Park, G!Goto, GAwake, G!NobodyLeft, G!Proc
  <2> QED
    BY <2>1, <2>2 DEF GInv
<1>2. CASE G!Resume(t)
  <2>1. G!TypeOK'
    BY <1>0, <1>2, GRunningFact DEF GInv, G!TypeOK, G!Resume, G!Goto
  <2>2. GAwake' /\ (Delta \subseteq Nat => G!NobodyLeft')
    BY <1>0, <1>2, GRunningFact, ProcAssumption
       DEF GInv, G!Resume, G!Goto, GAwake, G!NobodyLeft, G!Proc
  <2> QED
    BY <2>1, <2>2 DEF GInv
<1>3. CASE G!StrayWake(t)
  <2>1. G!TypeOK'
    BY <1>0, <1>3, GWokenFact DEF GInv, G!TypeOK, G!StrayWake
  <2>2. GAwake' /\ (Delta \subseteq Nat => G!NobodyLeft')
    BY <1>0, <1>3, GWokenFact
       DEF GInv, G!StrayWake, GAwake, G!NobodyLeft, G!Proc
  <2> QED
    BY <2>1, <2>2 DEF GInv
<1> QED
  BY <1>1, <1>2, <1>3

\* A thread wakes without done.
LEMMA GSpuriousInv == ASSUME GInv, NEW o \in OsThread, G!Spurious(o) PROVE GInv'
<1>1. o \in G!Proc /\ o \notin Task
  BY ProcAssumption DEF G!Proc
<1> QED
  BY <1>1 DEF GInv, G!TypeOK, G!Spurious, G!Goto, GAwake, G!NobodyLeft, G!Proc

\* Every step of the wait group.
LEMMA GNextInv == GInv /\ [G!Next]_gVars => GInv'
<1> SUFFICES ASSUME GInv, [G!Next]_gVars PROVE GInv'
  OBVIOUS
<1>1. CASE G!Next
  BY <1>1, GAddInv, GDoneInv, GEnterInv, GWordInv, GSpuriousInv DEF G!Next
<1>2. CASE UNCHANGED gVars
  BY <1>2 DEF gVars, GInv, G!TypeOK, GAwake, G!NobodyLeft
<1> QED
  BY <1>1, <1>2

-----------------------------------------------------------------------------
(* A worker's wait on its poller.                                          *)

\* A worker between its check and its sleep has the lock, and a notify that
\* came since is still on its way to that lock.
PCheckCovered ==
  notified /\ pPc["worker"] = "wait" => \E n \in OsThread : pPc[n] \in {"read", "futex"}

\* What is proved of a worker's wait.
PInv == P!TypeOK /\ P!NoLostNotify /\ PCheckCovered

\* Nobody waits and nothing is notified.
LEMMA PInitInv == P!Init => PInv
BY WorkerNamed DEF P!Init, PInv, P!TypeOK, P!NoLostNotify, PCheckCovered, P!Worker, P!Mode,
   P!ParkAssumption

\* The steps of a thread that notifies, and then those of the worker.
LEMMA PNotifierInv ==
  ASSUME PInv, NEW n \in OsThread,
         P!Swap(n) \/ P!ReadMode(n) \/ P!Signal(n) \/ P!Write(n)
  PROVE  PInv'
<1>0. /\ n # "worker" /\ NoProc # "worker"
      /\ pPc = [x \in OsThread \cup {"worker"} |-> pPc[x]]
  BY WorkerNamed DEF P!ParkAssumption, PInv, P!TypeOK
<1>1. /\ pPc'["worker"] = pPc["worker"]
      /\ pPc' = [x \in OsThread \cup {"worker"} |-> pPc'[x]]
      /\ \A m \in OsThread \ {n} : pPc'[m] = pPc[m]
      /\ pLock' = pLock
  BY <1>0 DEF P!Swap, P!ReadMode, P!Signal, P!Write, P!Goto
<1>2. P!TypeOK'
  BY <1>0, <1>1 DEF PInv, P!TypeOK, P!Swap, P!ReadMode, P!Signal, P!Write, P!Goto, P!Mode
<1>3. CASE P!Swap(n)
  BY <1>0, <1>1, <1>2, <1>3
     DEF PInv, P!TypeOK, P!NoLostNotify, PCheckCovered, P!Worker, P!Swap, P!Goto
<1>4. CASE P!ReadMode(n)
  BY <1>0, <1>1, <1>2, <1>4
     DEF PInv, P!TypeOK, P!NoLostNotify, PCheckCovered, P!Worker, P!ReadMode, P!Goto
<1>5. CASE P!Signal(n)
  BY <1>0, <1>1, <1>2, <1>5
     DEF PInv, P!TypeOK, P!NoLostNotify, PCheckCovered, P!Worker, P!Signal, P!Goto, P!Asleep
<1>6. CASE P!Write(n)
  BY <1>0, <1>1, <1>2, <1>6
     DEF PInv, P!TypeOK, P!NoLostNotify, PCheckCovered, P!Worker, P!Write, P!Goto
<1> QED
  BY <1>3, <1>4, <1>5, <1>6

\* Steps of the worker.
LEMMA PWorkerInv ==
  ASSUME PInv,
         \/ P!ParkFutex \/ P!Check \/ P!Sleep \/ P!Awake \/ P!TimedOut
         \/ P!ParkEpoll \/ P!Flag \/ P!Harvest \/ P!PollReady \/ P!Awoken \/ P!Drain
         \/ P!Leave \/ P!Consume
  PROVE  PInv'
<1> USE DEF P!Goto, P!Worker
<1>0. /\ "worker" \notin OsThread /\ NoProc # "worker"
      /\ pPc = [x \in OsThread \cup {"worker"} |-> pPc[x]]
  BY WorkerNamed DEF P!ParkAssumption, PInv, P!TypeOK
<1>1. /\ \A m \in OsThread : pPc'[m] = pPc[m]
      /\ pPc' = [x \in OsThread \cup {"worker"} |-> pPc'[x]]
  BY <1>0 DEF P!ParkFutex, P!Check, P!Sleep, P!Awake, P!TimedOut, P!ParkEpoll, P!Flag,
     P!Harvest, P!PollReady, P!Awoken, P!Drain, P!Leave, P!Consume
<1>2. CASE P!ParkFutex \/ P!Check \/ P!Sleep \/ P!Awake \/ P!TimedOut
  <2>1. P!TypeOK'
    <3>1. CASE P!ParkFutex
      BY <1>0, <1>1, <3>1 DEF PInv, P!TypeOK, P!Mode, P!ParkFutex
    <3>2. CASE P!Check
      BY <1>0, <1>1, <3>2 DEF PInv, P!TypeOK, P!Mode, P!Check
    <3>3. CASE P!Sleep
      BY <1>0, <1>1, <3>3 DEF PInv, P!TypeOK, P!Mode, P!Sleep
    <3>4. CASE P!Awake
      BY <1>0, <1>1, <3>4 DEF PInv, P!TypeOK, P!Mode, P!Awake
    <3>5. CASE P!TimedOut
      BY <1>0, <1>1, <3>5 DEF PInv, P!TypeOK, P!Mode, P!TimedOut
    <3> QED
      BY <1>2, <3>1, <3>2, <3>3, <3>4, <3>5
  <2>2. P!NoLostNotify' /\ PCheckCovered'
    BY <1>0, <1>1, <1>2
       DEF PInv, P!NoLostNotify, PCheckCovered, P!ParkFutex, P!Check, P!Sleep, P!Awake, P!TimedOut
  <2> QED
    BY <2>1, <2>2 DEF PInv
<1>3. CASE P!ParkEpoll \/ P!Flag \/ P!Harvest \/ P!PollReady
  <2>1. P!TypeOK'
    BY <1>0, <1>1, <1>3
       DEF PInv, P!TypeOK, P!Mode, P!ParkEpoll, P!Flag, P!Harvest, P!PollReady
  <2>2. P!NoLostNotify' /\ PCheckCovered'
    BY <1>0, <1>1, <1>3
       DEF PInv, P!NoLostNotify, PCheckCovered, P!ParkEpoll, P!Flag, P!Harvest, P!PollReady
  <2> QED
    BY <2>1, <2>2 DEF PInv
<1>4. CASE P!Awoken \/ P!Drain \/ P!Leave \/ P!Consume
  <2>1. P!TypeOK'
    BY <1>0, <1>1, <1>4
       DEF PInv, P!TypeOK, P!Mode, P!Awoken, P!Drain, P!Leave, P!Consume
  <2>2. P!NoLostNotify' /\ PCheckCovered'
    BY <1>0, <1>1, <1>4
       DEF PInv, P!NoLostNotify, PCheckCovered, P!Awoken, P!Drain, P!Leave, P!Consume
  <2> QED
    BY <2>1, <2>2 DEF PInv
<1> QED
  BY <1>2, <1>3, <1>4

\* Every step of either.
LEMMA PNextInv == PInv /\ [P!Next]_pVars => PInv'
<1> SUFFICES ASSUME PInv, [P!Next]_pVars PROVE PInv'
  OBVIOUS
<1>1. CASE P!Next
  BY <1>1, PNotifierInv, PWorkerInv DEF P!Next
<1>2. CASE UNCHANGED pVars
  BY <1>2 DEF pVars, PInv, P!TypeOK, P!NoLostNotify, PCheckCovered, P!Worker
<1> QED
  BY <1>1, <1>2

-----------------------------------------------------------------------------
(* The four together.                                                      *)

\* What is proved of the mutex, the semaphore, the wait group and the park.
LocksInv == IInv /\ SInv /\ GInv /\ PInv

\* The part that runs keeps its invariant, and the others do not move.
LEMMA LocksInductive == LocksSpec => []LocksInv
<1>1. LocksInit => LocksInv
  BY InitInv, SInitInv, GInitInv, PInitInv DEF LocksInit, LocksInv
<1>2. LocksInv /\ [LocksNext]_<<part, vars, sVars, gVars, pVars>> => LocksInv'
  <2> SUFFICES ASSUME LocksInv, [LocksNext]_<<part, vars, sVars, gVars, pVars>>
               PROVE  LocksInv'
    OBVIOUS
  <2>1. [Next]_vars /\ [S!Next]_sVars /\ [G!Next]_gVars /\ [P!Next]_pVars
    BY DEF LocksNext
  <2> QED
    BY <2>1, NextInv, SNextInv, GNextInv, PNextInv DEF LocksInv
<1> QED
  BY <1>1, <1>2, PTL DEF LocksSpec

\* Every variable of a Mutex, a Semaphore, a WaitGroup and a worker's poller has
\* its type, for any tasks, threads, permits and counts.
THEOREM TypesCorrect == LocksSpec => []TypesOK
<1>1. LocksInv => TypesOK
  BY DEF LocksInv, IInv, SInv, SCore, GInv, PInv, TypesOK
<1> QED
  BY <1>1, LocksInductive, PTL

\* A Semaphore's permits are free or with a holder and add up; its fifo lists a
\* task at most once, only while it waits, and every one that is parked; and
\* while somebody waits, each free permit has somebody woken on its way to look
\* for it (Semaphore's acquire and release).
THEOREM PermitsKeptAlways == LocksSpec => []PermitsKept
<1>1. LocksInv => PermitsKept
  BY DEF LocksInv, SInv, SCore, PermitsKept
<1> QED
  BY <1>1, LocksInductive, PTL

\* Whoever is parked in WaitGroup's wait, with no wake to come, sees a count
\* above zero and is registered with a done that will find it; and a worker that
\* waits on its poller with a notify pending is about to be woken.  Without the
\* hypothesis, that tasks are added and never taken back, the first part is
\* false: a negative add reaches zero and wakes nobody.
THEOREM NobodyLeftEver ==
  ASSUME Delta \subseteq Nat
  PROVE  LocksSpec => []NobodyLeft
<1>1. LocksInv => NobodyLeft
  BY DEF LocksInv, GInv, PInv, NobodyLeft
<1> QED
  BY <1>1, LocksInductive, PTL
=============================================================================
