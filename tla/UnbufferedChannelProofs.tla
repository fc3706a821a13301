----------------------- MODULE UnbufferedChannelProofs -----------------------
(***************************************************************************)
(* A send on an unbuffered channel tells the truth, and no rendezvous is   *)
(* missed, for any senders and receivers, tasks or threads.  The invariant *)
(* has two parts.  Values follows a value from its offer to its answer: a  *)
(* pending deposit is untaken, and its depositor's `handoffs_before` is    *)
(* the delivery count until it is taken or the channel closes.  Waits says *)
(* what a process that waits without a wake to come has seen, and that     *)
(* this is still so.                                                       *)
(***************************************************************************)
EXTENDS UnbufferedChannel, TLAPS

\* A process that waits, or is on its way to park, and has no wake to come.
Idle(p) ==
  \/ pc[p] = "wait"
  \/ pc[p] = "park" /\ ~word[p].wake
  \/ pc[p] = "asleep" /\ word[p].st = "parked"

\* A task is off its worker only where it has parked.
Awake ==
  \A t \in Green :
    IF pc[t] = "asleep" THEN word[t].st \in {"ready", "parked"}
                        ELSE word[t].st = "running"

\* Who may be where.
Roles ==
  /\ \A p \in Sender :
       /\ stage[p] \in {"none", "offer", "deposited"}
       /\ stage[p] # "none" => sends[p] # 0
  /\ \A p \in Receiver : stage[p] \in {"none", "take", "select"}
  /\ \A p \in Proc : stage[p] \in {"none", "select"} <=> pc[p] = "run"
  /\ \A p \in Proc : pc[p] \in (IF p \in Green THEN {"run", "relock", "park", "asleep"}
                                               ELSE {"run", "relock", "wait"})

\* An idle receiver is announced, and there is no deposit for it; an idle
\* depositor waits for a deposit to go; an idle offer cannot deposit.
Waits ==
  /\ \A t \in Green : Idle(t) => t \in list
  /\ closed => \A p \in Proc : ~Idle(p)
  /\ \A r \in announced : stage[r] = "take"
  /\ pending # NoValue => announced # {}
  /\ \A r \in Receiver : Idle(r) => r \in announced /\ pending = NoValue
  /\ \A p \in Sender :
       Idle(p) => /\ stage[p] = "deposited" => pending # NoValue
                  /\ stage[p] = "offer" => ~CanDeposit

\* A value that no deposit has reached the channel with.
Unsent(v) == v[2] > sends[v[1]] \/ (v = Mine(v[1]) /\ stage[v[1]] = "offer")

\* What a depositor will read off the delivery count.
Deposit(p) ==
  /\ answer[Mine(p)] = "none"
  /\ pending = Mine(p) => deliveries = before[p]
  /\ pending # Mine(p) =>
       IF got[Mine(p)] = 1 THEN deliveries > before[p]
                           ELSE closed /\ deliveries = before[p]

\* A value is delivered at most once, and its sender hears what became of it.
Values ==
  /\ closed => pending = NoValue
  /\ \A v \in Value : Unsent(v) => answer[v] = "none" /\ got[v] = 0 /\ pending # v
  /\ \A p \in Sender : stage[p] = "deposited" => Deposit(p)
  /\ \A v \in Value :
       /\ answer[v] = "taken" => got[v] = 1
       /\ answer[v] = "refused" => got[v] = 0
       /\ answer[v] \in {"taken", "refused"} => pending # v
       /\ pending = v => got[v] = 0
       /\ got[v] \in {0, 1}

\* The inductive invariant.
IInv == TypeOK /\ Awake /\ Roles /\ Waits /\ Values

-----------------------------------------------------------------------------
(* Scheduling words, values and sections.                                  *)

\* A resumed task is Running.
LEMMA RunningFact ==
  ASSUME NEW w \in Sched!Word
  PROVE  /\ Sched!RunningWord(w, NoProc) \in Sched!Word
         /\ Sched!RunningWord(w, NoProc).st = "running"
BY DEF Sched!RunningWord, Sched!Clear, Sched!Word, Sched!RunState

\* A suspension parks a task unless a wake is pending.
LEMMA YieldedFact ==
  ASSUME NEW w \in Sched!Word
  PROVE  /\ Sched!YieldedWord(w) \in Sched!Word
         /\ Sched!YieldedWord(w).st \in {"ready", "parked"}
         /\ w.wake => Sched!YieldedWord(w).st = "ready"
BY DEF Sched!YieldedWord, Sched!Clear, Sched!Word, Sched!RunState

\* A wake leaves a Running word Running, with the flag, and the others Ready.
LEMMA WokenFact ==
  ASSUME NEW t \in Green, word[t] \in Sched!Word
  PROVE  /\ Woken(t) \in Sched!Word
         /\ word[t].st = "running" => Woken(t).st = "running" /\ Woken(t).wake
         /\ word[t].st \in {"ready", "parked"} => Woken(t).st = "ready"
BY DEF Woken, Sched!WokenWord, Sched!Claimable, Sched!Pendable, Sched!ClaimedWord,
       Sched!PendedWord, Sched!Clear, Sched!Word, Sched!RunState

\* A value is named by its sender and its number.
LEMMA ValueFact ==
  ASSUME TypeOK
  PROVE  /\ \A v \in Value : /\ v = <<v[1], v[2]>> /\ v[1] \in Sender
                             /\ v[2] \in 1..MaxSend /\ v # NoValue
         /\ \A p \in Sender : sends[p] \in Nat /\ (sends[p] # 0 => Mine(p) \in Value)
         /\ \A p, q \in Sender : Mine(p) = Mine(q) => p = q
         /\ \A p \in Sender : sends[p] < MaxSend => <<p, sends[p] + 1>> \in Value
BY ChannelAssumption DEF TypeOK, Value, Mine

\* What a section of p leaves of everybody's waiting.
Settled(p, l, whom) ==
  /\ pc' \in [Proc -> {"run", "relock", "park", "asleep", "wait"}]
  /\ word' \in [Green -> Sched!Word]
  /\ list' \in SUBSET Green
  /\ Awake'
  /\ p \in Proc => pc'[p] = l
  /\ \A q \in Proc \ {p} :
       /\ pc'[q] = "run" <=> pc[q] = "run"
       /\ Idle(q)' => Idle(q) /\ q \notin whom
  /\ \A q \in Proc : pc'[q] \in (IF q \in Green THEN {"run", "relock", "park", "asleep"}
                                                ELSE {"run", "relock", "wait"})
  /\ \A t \in Green : Idle(t)' => t \in list'

\* A section under the lock: nobody else begins to wait, and those it wakes do
\* not wait any more.
LEMMA SectionFact ==
  ASSUME IInv, NEW p, NEW l \in {"run", "park", "wait"}, NEW whom \in SUBSET Proc,
         Section(p, l, whom), p \notin whom,
         IF p \in Proc THEN pc[p] \in {"run", "relock"} /\ l \in {"run", BlockAt(p)}
                       ELSE l = "run"
  PROVE  Settled(p, l, whom)
<1> USE DEF Section
<1>0. /\ pc \in [Proc -> {"run", "relock", "park", "asleep", "wait"}]
      /\ word \in [Green -> Sched!Word] /\ list \in SUBSET Green /\ Green \subseteq Proc
      /\ p \in Green => l \in {"run", "park"}
      /\ p \notin Green => l \in {"run", "wait"}
  BY ChannelAssumption DEF IInv, TypeOK, BlockAt
<1>1. /\ p \in Proc => pc'[p] = l
      /\ \A q \in Proc \ {p} : pc'[q] = IF q \in whom /\ pc[q] = "wait" THEN "relock" ELSE pc[q]
      /\ \A t \in Green : word'[t] = IF t \in whom \cap list THEN Woken(t) ELSE word[t]
  BY <1>0
<1>2. pc' \in [Proc -> {"run", "relock", "park", "asleep", "wait"}] /\ list' \in SUBSET Green
  BY <1>0
<1>3. word' \in [Green -> Sched!Word]
  BY <1>0, WokenFact
<1>4. \A q \in Proc : pc[q] \in (IF q \in Green THEN {"run", "relock", "park", "asleep"}
                                                ELSE {"run", "relock", "wait"})
  BY DEF IInv, Roles
<1>5. \A t \in Green : pc[t] # "asleep" => word[t].st = "running"
  BY DEF IInv, Awake
<1>6. \A t \in Green : pc[t] = "asleep" => word[t].st \in {"ready", "parked"}
  BY DEF IInv, Awake
<1>7. Awake'
  <2> SUFFICES ASSUME NEW t \in Green
               PROVE  IF pc'[t] = "asleep" THEN word'[t].st \in {"ready", "parked"}
                                           ELSE word'[t].st = "running"
    BY DEF Awake
  <2>1. pc'[t] = "asleep" <=> pc[t] = "asleep"
    BY <1>0, <1>1
  <2>2. word'[t] = word[t] \/ word'[t] = Woken(t)
    BY <1>1
  <2> QED
    BY <1>0, <1>5, <1>6, <2>1, <2>2, WokenFact
<1>8. ASSUME NEW q \in Proc \ {p}, Idle(q)'
      PROVE  Idle(q) /\ q \notin whom
  <2>1. CASE q \notin Green
    BY <1>1, <1>4, <1>8, <2>1 DEF Idle
  <2>2. CASE q \in Green
    <3>1. pc'[q] = pc[q] /\ pc[q] # "wait"
      BY <1>1, <1>4, <2>2
    <3>2. CASE q \in whom \cap list
      <4>1. word'[q] = Woken(q)
        BY <1>1, <2>2, <3>2
      <4>2. ~Idle(q)'
        BY <1>0, <1>5, <1>6, <2>2, <3>1, <4>1, WokenFact DEF Idle
      <4> QED
        BY <1>8, <4>2
    <3>3. CASE q \notin whom \cap list
      <4>1. word'[q] = word[q]
        BY <1>1, <2>2, <3>3
      <4>2. Idle(q)
        BY <1>8, <3>1, <4>1 DEF Idle
      <4>3. q \in list
        BY <2>2, <4>2 DEF IInv, Waits
      <4> QED
        BY <3>3, <4>2, <4>3
    <3> QED
      BY <3>2, <3>3
  <2> QED
    BY <2>1, <2>2
<1>9. ASSUME NEW t \in Green, Idle(t)'
      PROVE  t \in list'
  <2>1. CASE t = p
    BY <1>0, <1>1, <1>9, <2>1 DEF Idle
  <2>2. CASE t # p
    <3>1. Idle(t) /\ t \notin whom
      BY <1>0, <1>8, <1>9, <2>2
    <3>2. t \in list
      BY <3>1 DEF IInv, Waits
    <3> QED
      BY <2>2, <3>1, <3>2
  <2> QED
    BY <2>1, <2>2
<1>10. \A q \in Proc : pc'[q] \in (IF q \in Green THEN {"run", "relock", "park", "asleep"}
                                                  ELSE {"run", "relock", "wait"})
  BY <1>0, <1>1, <1>4
<1>11. \A q \in Proc \ {p} : pc'[q] = "run" <=> pc[q] = "run"
  BY <1>1
<1> QED
  BY <1>1, <1>2, <1>3, <1>7, <1>8, <1>9, <1>10, <1>11 DEF Settled

\* The initial states satisfy the invariant.
LEMMA InitInv == Init => IInv
<1> SUFFICES ASSUME Init PROVE IInv
  OBVIOUS
<1>1. Sched!FreshWord \in Sched!Word
  BY DEF Sched!FreshWord, Sched!Clear, Sched!Word, Sched!RunState
<1>2. TypeOK
  <2>1. word \in [Green -> Sched!Word]
    BY <1>1, RunningFact DEF Init
  <2>2. sends \in [Sender -> 0..MaxSend] /\ before \in [Sender -> Nat] /\ got \in [Value -> Nat]
    BY ChannelAssumption DEF Init
  <2>3. /\ stage \in [Proc -> Stage] /\ pc \in [Proc -> {"run", "relock", "park", "asleep", "wait"}]
        /\ answer \in [Value -> {"none", "taken", "refused", "left"}]
    BY DEF Init, Stage
  <2> QED
    BY <2>1, <2>2, <2>3 DEF Init, TypeOK
<1>3. Awake /\ Roles
  BY <1>1, RunningFact, ChannelAssumption DEF Init, Awake, Roles, Proc
<1>4. Waits
  BY ChannelAssumption DEF Init, Waits, Idle, Proc
<1>5. Values
  BY <1>2, ValueFact DEF Init, Values, Unsent, Proc
<1> QED
  BY <1>2, <1>3, <1>4, <1>5 DEF IInv

-----------------------------------------------------------------------------
(* The steps that carry no value.                                          *)

\* A step that leaves the values and the stages alone.
LEMMA ValuesKept ==
  ASSUME IInv, UNCHANGED <<closed, pending, deliveries, before, sends, answer, got>>,
         \A p \in Sender : stage'[p] = stage[p]
  PROVE  Values'
<1>1. \A v \in Value : Unsent(v)' => Unsent(v)
  BY ValueFact DEF IInv, Unsent, Mine
<1>2. \A p \in Sender : Deposit(p) => Deposit(p)'
  BY DEF Deposit, Mine
<1> QED
  BY <1>1, <1>2 DEF IInv, Values

\* Steps of the scheduler, and wakes that say nothing.
LEMMA WordInv ==
  ASSUME IInv,
         \/ \E t \in Green : Park(t) \/ Resume(t) \/ StrayWake(t)
         \/ \E o \in Proc \ Green : Spurious(o)
  PROVE  IInv'
<1> DEFINE kept == UNCHANGED <<closed, pending, deliveries, announced, list, stage, before,
                               sends, answer, got>>
<1>1. PICK t \in Proc :
        /\ kept
        /\ pc[t] \in {"park", "asleep", "wait"}
        /\ \/ t \in Green /\ (Park(t) \/ Resume(t) \/ StrayWake(t))
           \/ t \notin Green /\ Spurious(t)
  BY ChannelAssumption DEF Park, Resume, StrayWake, Spurious
<1>2. /\ pc \in [Proc -> {"run", "relock", "park", "asleep", "wait"}]
      /\ word \in [Green -> Sched!Word] /\ Green \subseteq Proc
      /\ t \in Green => pc[t] # "wait" /\ word[t] \in Sched!Word
      /\ t \in Green => (IF pc[t] = "asleep" THEN word[t].st \in {"ready", "parked"}
                                             ELSE word[t].st = "running")
  BY ChannelAssumption DEF IInv, TypeOK, Roles, Awake
<1>3. /\ pc' \in [Proc -> {"run", "relock", "park", "asleep", "wait"}]
      /\ word' \in [Green -> Sched!Word]
      /\ \A q \in Proc \ {t} : pc'[q] = pc[q]
      /\ \A q \in Green \ {t} : word'[q] = word[q]
      /\ pc'[t] # "run" /\ (t \in Green => pc'[t] \in {"relock", "park", "asleep"})
      /\ t \notin Green => pc'[t] = "relock"
      /\ t \in Green => (IF pc'[t] = "asleep" THEN word'[t].st \in {"ready", "parked"}
                                              ELSE word'[t].st = "running")
      /\ Idle(t)' => Idle(t)
  <2>1. CASE t \in Green /\ Park(t)
    BY <1>2, <2>1, YieldedFact DEF Park, Idle
  <2>2. CASE t \in Green /\ Resume(t)
    BY <1>2, <2>2, RunningFact DEF Resume, Idle
  <2>3. CASE t \in Green /\ StrayWake(t)
    BY <1>2, <2>3, WokenFact DEF StrayWake, Idle
  <2>4. CASE t \notin Green /\ Spurious(t)
    BY <1>2, <2>4 DEF Spurious, Idle
  <2> QED
    BY <1>1, <2>1, <2>2, <2>3, <2>4
<1>4. \A q \in Proc : Idle(q)' => Idle(q)
  <2> SUFFICES ASSUME NEW q \in Proc \ {t}, Idle(q)' PROVE Idle(q)
    BY <1>3
  <2>1. CASE q \in Green
    BY <1>3, <2>1 DEF Idle
  <2>2. CASE q \notin Green
    <3>1. pc[q] = "wait"
      BY <1>3, <2>2 DEF Idle, IInv, Roles
    <3> QED
      BY <3>1 DEF Idle
  <2> QED
    BY <2>1, <2>2
<1>5. TypeOK'
  BY <1>1, <1>3 DEF IInv, TypeOK
<1>6. Awake'
  BY <1>2, <1>3 DEF IInv, Awake
<1>7. Roles'
  <2>1. stage[t] \notin {"none", "select"}
    BY <1>1 DEF IInv, Roles
  <2> QED
    BY <1>1, <1>3, <2>1 DEF IInv, Roles
<1>8. Waits'
  <2>1. Green \subseteq Proc /\ Sender \subseteq Proc /\ Receiver \subseteq Proc
    BY ChannelAssumption DEF Proc
  <2> QED
    BY <1>1, <1>4, <2>1 DEF IInv, Waits, CanDeposit
<1>9. Values'
  BY <1>1, ValuesKept
<1> QED
  BY <1>5, <1>6, <1>7, <1>8, <1>9 DEF IInv

\* A process that waits, or leaves, without a value.
LEMMA BlockInv ==
  ASSUME IInv, NEW p \in Sender, OfferWait(p) \/ DepositWait(p)
  PROVE  IInv'
<1> USE DEF Settled
<1>1. /\ p \in Proc /\ p \notin Receiver
      /\ pc[p] = "relock" /\ stage[p] \in {"offer", "deposited"}
      /\ ~closed
      /\ stage[p] = "offer" => ~CanDeposit
      /\ stage[p] = "deposited" => pending # NoValue
      /\ Section(p, BlockAt(p), {})
      /\ UNCHANGED <<closed, pending, deliveries, announced, stage, before, sends,
                     answer, got>>
      /\ BlockAt(p) \in {"park", "wait"}
  BY ChannelAssumption DEF OfferWait, DepositWait, Proc, BlockAt
<1>2. Settled(p, BlockAt(p), {})
  BY <1>1, SectionFact
<1>3. TypeOK'
  BY <1>1, <1>2 DEF IInv, TypeOK
<1>4. Roles'
  BY <1>1, <1>2 DEF IInv, Roles
<1>5. Waits'
  BY <1>1, <1>2 DEF IInv, Waits, CanDeposit, Proc
<1>6. Values'
  BY <1>1, ValuesKept
<1> QED
  BY <1>2, <1>3, <1>4, <1>5, <1>6 DEF IInv

\* A receiver that finds the channel closed goes home.
LEMMA RecvClosedInv ==
  ASSUME IInv, NEW p \in Receiver, RecvClosed(p)
  PROVE  IInv'
<1> USE DEF Settled
<1>1. /\ p \in Proc /\ p \notin Sender
      /\ pc[p] = "relock" /\ stage[p] = "take" /\ pending = NoValue /\ closed
      /\ Section(p, "run", {})
      /\ UNCHANGED <<closed, pending, deliveries, before, sends, answer, got>>
      /\ stage' = [stage EXCEPT ![p] = "none"] /\ stage \in [Proc -> Stage]
      /\ announced' = announced \ {p} /\ announced \subseteq Receiver
  BY ChannelAssumption DEF RecvClosed, To, Proc, IInv, TypeOK
<1>2. Settled(p, "run", {})
  BY <1>1, SectionFact
<1>3. /\ stage' \in [Proc -> Stage] /\ stage'[p] = "none"
      /\ \A q \in Proc \ {p} : stage'[q] = stage[q]
  BY <1>1 DEF Stage
<1>4. TypeOK'
  BY <1>1, <1>2, <1>3 DEF IInv, TypeOK
<1>5. Roles'
  BY <1>1, <1>2, <1>3 DEF IInv, Roles, Proc
<1>6. \A q \in Proc : ~Idle(q)'
  <2>1. ~Idle(p)'
    BY <1>1, <1>2 DEF Idle
  <2> QED
    BY <1>1, <1>2, <2>1 DEF IInv, Waits
<1>7. Waits'
  BY <1>1, <1>3, <1>6, ChannelAssumption DEF IInv, Waits, Proc
<1>8. Values'
  BY <1>1, <1>3, ValuesKept DEF Proc
<1> QED
  BY <1>2, <1>4, <1>5, <1>7, <1>8 DEF IInv

\* A receiver announces itself and waits.
LEMMA RecvWaitInv ==
  ASSUME IInv, NEW p \in Receiver, RecvWait(p)
  PROVE  IInv'
<1> USE DEF Settled
<1>1. /\ p \in Proc /\ p \notin Sender /\ Sender \subseteq Proc
      /\ pc[p] = "relock" /\ stage[p] = "take" /\ pending = NoValue /\ ~closed
      /\ BlockAt(p) \in {"park", "wait"}
      /\ Section(p, BlockAt(p), Sender)
      /\ UNCHANGED <<closed, pending, deliveries, stage, before, sends, answer, got>>
      /\ announced' = announced \cup {p} /\ announced \subseteq Receiver
  BY ChannelAssumption DEF RecvWait, BlockAt, Proc, IInv, TypeOK
<1>2. Settled(p, BlockAt(p), Sender)
  BY <1>1, SectionFact
<1>3. TypeOK'
  BY <1>1, <1>2 DEF IInv, TypeOK
<1>4. Roles'
  BY <1>1, <1>2 DEF IInv, Roles, Proc
<1>5. Waits'
  <2>1. \A q \in Sender : ~Idle(q)'
    BY <1>1, <1>2
  <2>2. \A r \in Receiver : Idle(r)' => r \in announced'
    BY <1>1, <1>2 DEF IInv, Waits, Proc
  <2> QED
    BY <1>1, <1>2, <2>1, <2>2 DEF IInv, Waits
<1>6. Values'
  BY <1>1, ValuesKept
<1> QED
  BY <1>2, <1>3, <1>4, <1>5, <1>6 DEF IInv

\* A receiver begins.
LEMMA StartInv ==
  ASSUME IInv, NEW p \in Receiver, Recv(p) \/ Select(p) \/ SelectOther(p)
  PROVE  IInv'
<1>1. /\ p \in Proc /\ p \notin Sender
      /\ UNCHANGED <<closed, pending, deliveries, announced, list, before, word,
                     sends, answer, got>>
      /\ pc \in [Proc -> {"run", "relock", "park", "asleep", "wait"}]
      /\ stage \in [Proc -> Stage] /\ pc[p] = "run" /\ stage[p] \in {"none", "select"}
  BY ChannelAssumption DEF IInv, TypeOK, Roles, Proc, Recv, Select, SelectOther
<1>2. /\ pc' \in [Proc -> {"run", "relock", "park", "asleep", "wait"}]
      /\ stage' \in [Proc -> Stage]
      /\ \A q \in Proc \ {p} : stage'[q] = stage[q] /\ pc'[q] = pc[q]
      /\ \/ stage'[p] = "take" /\ pc'[p] = "relock"
         \/ stage'[p] \in {"none", "select"} /\ pc'[p] = "run"
  <2>1. CASE Recv(p)
    BY <1>1, <2>1 DEF Recv, To, Stage
  <2>2. CASE Select(p) \/ SelectOther(p)
    BY <1>1, <2>2 DEF Select, SelectOther, To, Stage
  <2> QED
    BY <2>1, <2>2
<1>3. TypeOK'
  BY <1>1, <1>2 DEF IInv, TypeOK
<1>4. Awake'
  BY <1>1, <1>2, ChannelAssumption DEF IInv, Awake
<1>5. Roles'
  BY <1>1, <1>2 DEF IInv, Roles, Proc
<1>6. \A q \in Proc : Idle(q)' => Idle(q) /\ q # p
  BY <1>1, <1>2 DEF Idle
<1>7. Waits'
  <2>1. p \notin announced
    BY <1>1 DEF IInv, Waits
  <2> QED
    BY <1>1, <1>2, <1>6, <2>1, ChannelAssumption DEF IInv, TypeOK, Waits, CanDeposit, Proc
<1>8. Values'
  BY <1>1, <1>2, ValuesKept DEF Proc
<1> QED
  BY <1>3, <1>4, <1>5, <1>7, <1>8 DEF IInv

-----------------------------------------------------------------------------
(* The steps a value takes.                                                *)

\* A sender offers its next value.
LEMMA SendInv ==
  ASSUME IInv, NEW p \in Sender, Send(p)
  PROVE  IInv'
<1>1. /\ p \in Proc /\ p \notin Receiver
      /\ stage[p] = "none" /\ pc[p] = "run" /\ sends[p] < MaxSend
      /\ sends \in [Sender -> 0..MaxSend] /\ MaxSend \in Nat
      /\ UNCHANGED <<closed, pending, deliveries, announced, list, before, word,
                     answer, got>>
  BY ChannelAssumption DEF Send, IInv, TypeOK, Roles, Proc
<1>2. /\ sends' \in [Sender -> 0..MaxSend] /\ sends'[p] = sends[p] + 1
      /\ stage' \in [Proc -> Stage] /\ stage'[p] = "offer"
      /\ pc' \in [Proc -> {"run", "relock", "park", "asleep", "wait"}] /\ pc'[p] = "relock"
      /\ \A q \in Proc \ {p} : stage'[q] = stage[q] /\ pc'[q] = pc[q]
      /\ \A q \in Sender \ {p} : sends'[q] = sends[q]
  BY <1>1 DEF IInv, TypeOK, Send, To, Stage
<1>3. TypeOK'
  BY <1>1, <1>2 DEF IInv, TypeOK
<1>4. Awake'
  BY <1>1, <1>2, ChannelAssumption DEF IInv, Awake
<1>5. Roles'
  BY <1>1, <1>2 DEF IInv, Roles, Proc
<1>6. \A q \in Proc : Idle(q)' => Idle(q) /\ q # p
  BY <1>1, <1>2 DEF Idle
<1>7. Waits'
  BY <1>1, <1>2, <1>6, ChannelAssumption DEF IInv, TypeOK, Waits, CanDeposit, Proc
<1>8. Values'
  <2>1. \A v \in Value : Unsent(v)' => Unsent(v)
    BY <1>1, <1>2, ValueFact DEF IInv, Unsent, Mine, Proc
  <2>2. \A q \in Sender : stage'[q] = "deposited" => q # p /\ stage[q] = "deposited"
    BY <1>2 DEF Proc
  <2>3. \A q \in Sender \ {p} : Deposit(q) => Deposit(q)'
    BY <1>1, <1>2 DEF Deposit, Mine
  <2> QED
    BY <1>1, <2>1, <2>2, <2>3 DEF IInv, Values
<1> QED
  BY <1>3, <1>4, <1>5, <1>7, <1>8 DEF IInv

\* An answer is given to the value of a sender that is done with it.
LEMMA AnswerFact ==
  ASSUME IInv, NEW p \in Sender, stage[p] \in {"offer", "deposited"},
         UNCHANGED <<closed, pending, deliveries, before, sends, got>>,
         stage' = [stage EXCEPT ![p] = "none"],
         NEW a \in {"taken", "refused"}, Answer(p, a),
         pending # Mine(p), got[Mine(p)] = IF a = "taken" THEN 1 ELSE 0
  PROVE  Values' /\ answer' \in [Value -> {"none", "taken", "refused", "left"}]
<1>1. /\ Mine(p) \in Value /\ sends[p] \in Nat
      /\ stage \in [Proc -> Stage] /\ p \in Proc
      /\ answer \in [Value -> {"none", "taken", "refused", "left"}]
  BY ValueFact DEF IInv, TypeOK, Roles, Proc
<1>2. /\ answer' \in [Value -> {"none", "taken", "refused", "left"}]
      /\ answer'[Mine(p)] = a
      /\ \A v \in Value \ {Mine(p)} : answer'[v] = answer[v]
      /\ stage'[p] = "none" /\ \A q \in Proc \ {p} : stage'[q] = stage[q]
  BY <1>1 DEF Answer
<1>3. \A v \in Value : Unsent(v)' => Unsent(v) /\ v # Mine(p)
  BY <1>1, <1>2, ValueFact DEF IInv, Unsent, Mine, Proc
<1>4. ASSUME NEW q \in Sender, stage'[q] = "deposited"
      PROVE  Deposit(q)'
  <2>1. q # p /\ stage[q] = "deposited" /\ q \in Proc
    BY <1>2, <1>4 DEF Proc
  <2>2. Mine(q) \in Value /\ Mine(q) # Mine(p)
    BY <2>1, ValueFact DEF IInv, Roles
  <2>3. Deposit(q)
    BY <2>1 DEF IInv, Values
  <2>4. answer'[Mine(q)] = answer[Mine(q)] /\ Mine(q)' = Mine(q)
    BY <1>2, <2>2 DEF Mine
  <2> QED
    BY <2>3, <2>4 DEF Deposit
<1>5. \A v \in Value :
        /\ answer'[v] = "taken" => got[v] = 1
        /\ answer'[v] = "refused" => got[v] = 0
        /\ answer'[v] \in {"taken", "refused"} => pending # v
  BY <1>2 DEF IInv, Values
<1> QED
  BY <1>2, <1>3, <1>4, <1>5 DEF IInv, Values

\* A depositor or an offer is over: it answers what the delivery count says.
LEMMA AnswerInv ==
  ASSUME IInv, NEW p \in Sender, SendClosed(p) \/ DepositOver(p)
  PROVE  IInv'
<1> USE DEF Settled
<1>1. /\ p \in Proc /\ p \notin Receiver
      /\ stage[p] \in {"offer", "deposited"} /\ pc[p] = "relock"
      /\ Section(p, "run", {})
      /\ UNCHANGED <<closed, pending, deliveries, announced, before, sends, got>>
      /\ stage' = [stage EXCEPT ![p] = "none"] /\ stage \in [Proc -> Stage]
  BY ChannelAssumption DEF IInv, TypeOK, SendClosed, DepositOver, To, Proc
<1>2. Settled(p, "run", {})
  BY <1>1, SectionFact
<1>3. /\ stage' \in [Proc -> Stage] /\ stage'[p] = "none"
      /\ \A q \in Proc \ {p} : stage'[q] = stage[q]
  BY <1>1 DEF Stage
<1>4. Mine(p) \in Value /\ Mine(p) # NoValue
  BY <1>1, ValueFact DEF IInv, Roles
<1>5. Values' /\ answer' \in [Value -> {"none", "taken", "refused", "left"}]
  <2>1. CASE SendClosed(p)
    <3>1. Unsent(Mine(p))
      BY <2>1 DEF SendClosed, Unsent, Mine
    <3>2. got[Mine(p)] = 0 /\ pending # Mine(p)
      BY <1>4, <3>1 DEF IInv, Values
    <3> QED
      BY <1>1, <2>1, <3>2, AnswerFact DEF SendClosed
  <2>2. CASE DepositOver(p)
    <3>1. Deposit(p) /\ pending = NoValue
      BY <2>2 DEF DepositOver, IInv, Values
    <3>2. pending # Mine(p) /\ got[Mine(p)] \in {0, 1} /\ deliveries \in Nat /\ before[p] \in Nat
      BY <1>4, <3>1 DEF IInv, TypeOK, Values
    <3>3. got[Mine(p)] = IF Taken(p) THEN 1 ELSE 0
      BY <3>1, <3>2 DEF Deposit, Taken
    <3>4. CASE Taken(p)
      BY <1>1, <2>2, <3>2, <3>3, <3>4, AnswerFact DEF DepositOver
    <3>5. CASE ~Taken(p)
      BY <1>1, <2>2, <3>2, <3>3, <3>5, AnswerFact DEF DepositOver
    <3> QED
      BY <3>4, <3>5
  <2> QED
    BY <2>1, <2>2
<1>6. TypeOK'
  BY <1>1, <1>2, <1>3, <1>5 DEF IInv, TypeOK
<1>7. Roles'
  BY <1>1, <1>2, <1>3 DEF IInv, Roles, Proc
<1>8. Waits'
  <2>1. ~Idle(p)'
    BY <1>1, <1>2 DEF Idle
  <2>2. \A q \in Proc : Idle(q)' => Idle(q) /\ q # p
    BY <1>2, <2>1
  <2> QED
    BY <1>1, <1>2, <1>3, <2>2, ChannelAssumption
       DEF IInv, TypeOK, Waits, CanDeposit, Proc
<1> QED
  BY <1>2, <1>5, <1>6, <1>7, <1>8 DEF IInv

\* An offer becomes a deposit.
LEMMA DepositValueInv ==
  ASSUME IInv, NEW p \in Sender, DepositValue(p)
  PROVE  IInv'
<1> USE DEF Settled
<1>1. /\ p \in Proc /\ p \notin Receiver /\ Receiver \subseteq Proc
      /\ stage[p] = "offer" /\ pc[p] = "relock" /\ ~closed
      /\ announced # {} /\ pending = NoValue
      /\ pending' = Mine(p) /\ Mine(p) \in Value /\ Mine(p) # NoValue
      /\ before' = [before EXCEPT ![p] = deliveries]
      /\ stage' = [stage EXCEPT ![p] = "deposited"]
      /\ BlockAt(p) \in {"park", "wait"}
      /\ Section(p, BlockAt(p), Receiver)
      /\ UNCHANGED <<closed, deliveries, announced, sends, answer, got>>
  BY ChannelAssumption, ValueFact
     DEF IInv, Roles, DepositValue, CanDeposit, To, Proc, BlockAt
<1>2. Settled(p, BlockAt(p), Receiver)
  BY <1>1, SectionFact
<1>3. /\ stage' \in [Proc -> Stage] /\ stage'[p] = "deposited"
      /\ \A q \in Proc \ {p} : stage'[q] = stage[q]
      /\ before' \in [Sender -> Nat] /\ before'[p] = deliveries
      /\ \A q \in Sender \ {p} : before'[q] = before[q]
  BY <1>1 DEF IInv, TypeOK, Stage
<1>4. TypeOK'
  BY <1>1, <1>2, <1>3 DEF IInv, TypeOK
<1>5. Roles'
  BY <1>1, <1>2, <1>3 DEF IInv, Roles, Proc
<1>6. Waits'
  <2>1. \A r \in Receiver : ~Idle(r)'
    BY <1>1, <1>2
  <2>2. \A r \in announced : stage'[r] = "take"
    BY <1>1, <1>3 DEF IInv, TypeOK, Waits, Proc
  <2> QED
    BY <1>1, <1>2, <2>1, <2>2 DEF Waits, CanDeposit
<1>7. Values'
  <2>1. Unsent(Mine(p))
    BY <1>1 DEF Unsent, Mine
  <2>2. answer[Mine(p)] = "none" /\ got[Mine(p)] = 0
    BY <1>1, <2>1 DEF IInv, Values
  <2>3. \A v \in Value : Unsent(v)' => Unsent(v) /\ v # Mine(p)
    BY <1>1, <1>3, ValueFact DEF IInv, Unsent, Mine, Proc
  <2>4. ASSUME NEW q \in Sender, stage'[q] = "deposited"
        PROVE  Deposit(q)'
    <3>1. CASE q = p
      BY <1>1, <1>3, <2>2, <3>1 DEF Deposit, Mine
    <3>2. CASE q # p
      <4>1. stage[q] = "deposited" /\ q \in Proc
        BY <1>3, <2>4, <3>2 DEF Proc
      <4>2. Mine(q) \in Value /\ Mine(q) # Mine(p)
        BY <3>2, <4>1, ValueFact DEF IInv, Roles
      <4>3. Deposit(q) /\ pending # Mine(q)
        BY <1>1, <4>1, <4>2, ValueFact DEF IInv, Values
      <4>4. Mine(q)' = Mine(q) /\ before'[q] = before[q]
        BY <1>1, <1>3, <3>2 DEF Mine
      <4> QED
        BY <1>1, <4>2, <4>3, <4>4 DEF Deposit
    <3> QED
      BY <3>1, <3>2
  <2> QED
    BY <1>1, <2>2, <2>3, <2>4 DEF IInv, Values
<1> QED
  BY <1>2, <1>4, <1>5, <1>6, <1>7 DEF IInv

\* A `try_send` deposits only where a receiver is announced.
LEMMA TrySendInv ==
  ASSUME IInv, NEW p \in Sender, TrySend(p)
  PROVE  IInv'
<1> USE DEF Settled
<1> DEFINE new == <<p, sends[p] + 1>>
<1>1. /\ p \in Proc /\ p \notin Receiver /\ Receiver \subseteq Proc
      /\ stage[p] = "none" /\ pc[p] = "run" /\ ~closed
      /\ announced # {} /\ pending = NoValue
      /\ pending' = new /\ new \in Value /\ new # NoValue
      /\ sends[p] \in Nat /\ sends[p] < MaxSend /\ MaxSend \in Nat
      /\ sends' = [sends EXCEPT ![p] = @ + 1]
      /\ answer' = [answer EXCEPT ![new] = "left"]
      /\ Section(p, "run", Receiver)
      /\ UNCHANGED <<closed, deliveries, announced, stage, before, got>>
  BY ChannelAssumption, ValueFact DEF IInv, TypeOK, Roles, TrySend, CanDeposit, Proc
<1>2. Settled(p, "run", Receiver)
  BY <1>1, SectionFact
<1>3. /\ sends' \in [Sender -> 0..MaxSend] /\ sends'[p] = sends[p] + 1
      /\ \A q \in Sender \ {p} : sends'[q] = sends[q]
      /\ answer' \in [Value -> {"none", "taken", "refused", "left"}]
      /\ answer'[new] = "left" /\ \A v \in Value \ {new} : answer'[v] = answer[v]
  BY <1>1 DEF IInv, TypeOK
<1>4. TypeOK'
  BY <1>1, <1>2, <1>3 DEF IInv, TypeOK
<1>5. Roles'
  BY <1>1, <1>2, <1>3 DEF IInv, Roles, Proc
<1>6. Waits'
  <2>1. \A r \in Receiver : ~Idle(r)'
    BY <1>1, <1>2
  <2> QED
    BY <1>1, <1>2, <2>1 DEF IInv, Waits, CanDeposit
<1>7. Values'
  <2>1. Unsent(new)
    BY <1>1 DEF Unsent
  <2>2. answer[new] = "none" /\ got[new] = 0
    BY <1>1, <2>1 DEF IInv, Values
  <2>3. \A v \in Value : Unsent(v)' => Unsent(v) /\ v # new
    BY <1>1, <1>3, ValueFact DEF IInv, Unsent, Mine, Proc
  <2>4. ASSUME NEW q \in Sender, stage[q] = "deposited"
        PROVE  Deposit(q)'
    <3>1. q # p /\ Mine(q) \in Value /\ Mine(q) # new
      BY <1>1, <2>4, ValueFact DEF IInv, Roles, Mine
    <3>2. Deposit(q) /\ pending # Mine(q)
      BY <1>1, <2>4, <3>1, ValueFact DEF IInv, Values
    <3>3. Mine(q)' = Mine(q) /\ answer'[Mine(q)] = answer[Mine(q)]
      BY <1>3, <3>1 DEF Mine
    <3> QED
      BY <1>1, <3>1, <3>2, <3>3 DEF Deposit
  <2>5. \A v \in Value \ {new} : answer'[v] = answer[v] /\ pending' # v
    BY <1>1, <1>3
  <2> QED
    BY <1>1, <1>3, <2>2, <2>3, <2>4, <2>5 DEF IInv, Values
<1> QED
  BY <1>2, <1>4, <1>5, <1>6, <1>7 DEF IInv

\* A receiver takes the deposit.
LEMMA TakeValueInv ==
  ASSUME IInv, NEW p \in Receiver, TakeValue(p)
  PROVE  IInv'
<1> USE DEF Settled
<1>1. /\ p \in Proc /\ p \notin Sender /\ Sender \subseteq Proc
      /\ pc[p] \in {"run", "relock"}
      /\ pending \in Value /\ pending # NoValue /\ ~closed
      /\ got' = [got EXCEPT ![pending] = @ + 1]
      /\ pending' = NoValue /\ deliveries' = deliveries + 1 /\ deliveries \in Nat
      /\ announced' = announced \ {p}
      /\ stage' = [stage EXCEPT ![p] = "none"]
      /\ Section(p, "run", Sender)
      /\ UNCHANGED <<closed, before, sends, answer>>
  BY ChannelAssumption DEF IInv, TypeOK, Roles, Values, TakeValue, To, Proc
<1>2. Settled(p, "run", Sender)
  BY <1>1, SectionFact
<1>3. /\ stage' \in [Proc -> Stage] /\ stage'[p] = "none"
      /\ \A q \in Proc \ {p} : stage'[q] = stage[q]
      /\ got' \in [Value -> Nat] /\ got'[pending] = 1 /\ got[pending] = 0
      /\ \A v \in Value \ {pending} : got'[v] = got[v]
  BY <1>1 DEF IInv, TypeOK, Stage, Values
<1>4. TypeOK'
  BY <1>1, <1>2, <1>3 DEF IInv, TypeOK
<1>5. Roles'
  BY <1>1, <1>2, <1>3 DEF IInv, Roles, Proc
<1>6. Waits'
  <2>1. ~Idle(p)'
    BY <1>1, <1>2 DEF Idle
  <2>2. \A q \in Proc : ~Idle(q)'
    BY <1>1, <1>2, <2>1 DEF IInv, Waits, Proc
  <2>3. \A r \in announced' : stage'[r] = "take"
    BY <1>1, <1>3 DEF IInv, TypeOK, Waits, Proc
  <2> QED
    BY <1>1, <2>2, <2>3, ChannelAssumption DEF Waits, Proc
<1>7. Values'
  <2>1. \A v \in Value : Unsent(v)' => Unsent(v) /\ v # pending
    BY <1>1, <1>3, ValueFact DEF IInv, Values, Unsent, Mine, Proc
  <2>2. ASSUME NEW q \in Sender, stage'[q] = "deposited"
        PROVE  Deposit(q)'
    <3>1. stage[q] = "deposited" /\ Deposit(q)
      BY <1>1, <1>3, <2>2 DEF IInv, Values, Proc
    <3>2. Mine(q) \in Value /\ Mine(q)' = Mine(q) /\ before[q] \in Nat /\ pending' # Mine(q)
      BY <1>1, <3>1, ValueFact DEF IInv, TypeOK, Roles, Mine
    <3>3. CASE pending = Mine(q)
      BY <1>1, <1>3, <3>1, <3>2, <3>3 DEF Deposit
    <3>4. CASE pending # Mine(q)
      BY <1>1, <1>3, <3>1, <3>2, <3>4 DEF Deposit
    <3> QED
      BY <3>3, <3>4
  <2>3. \A v \in Value : pending' # v
    BY <1>1, ValueFact DEF IInv
  <2> QED
    BY <1>1, <1>3, <2>1, <2>2, <2>3 DEF IInv, Values
<1> QED
  BY <1>2, <1>4, <1>5, <1>6, <1>7 DEF IInv

\* The deposit is dropped, and its depositor will read that off the count.
LEMMA CloseInv ==
  ASSUME IInv, Close
  PROVE  IInv'
<1> USE DEF Settled
<1>1. /\ NoProc \notin Proc /\ ~closed /\ closed' = TRUE /\ pending' = NoValue
      /\ Section(NoProc, "run", Proc)
      /\ UNCHANGED <<deliveries, announced, stage, before, sends, answer, got>>
  BY ChannelAssumption DEF Close
<1>2. Settled(NoProc, "run", Proc)
  BY <1>1, SectionFact
<1>3. \A q \in Proc : ~Idle(q)'
  BY <1>1, <1>2
<1>4. TypeOK'
  BY <1>1, <1>2 DEF IInv, TypeOK
<1>5. Roles'
  BY <1>1, <1>2 DEF IInv, Roles
<1>6. Waits'
  BY <1>1, <1>3, ChannelAssumption DEF IInv, Waits, Proc
<1>7. Values'
  <2>1. \A v \in Value : (Unsent(v)' <=> Unsent(v)) /\ pending' # v
    BY <1>1, ValueFact DEF IInv, Unsent, Mine
  <2>2. ASSUME NEW q \in Sender, stage[q] = "deposited"
        PROVE  Deposit(q)'
    <3>1. Deposit(q) /\ Mine(q) \in Value /\ Mine(q)' = Mine(q)
      BY <1>1, <2>2, ValueFact DEF IInv, Values, Roles, Mine
    <3>2. got[Mine(q)] \in {0, 1} /\ (pending = Mine(q) => got[Mine(q)] = 0)
      BY <3>1 DEF IInv, Values
    <3> QED
      BY <1>1, <2>1, <3>1, <3>2 DEF Deposit
  <2> QED
    BY <1>1, <2>1, <2>2 DEF IInv, Values
<1> QED
  BY <1>2, <1>4, <1>5, <1>6, <1>7 DEF IInv

-----------------------------------------------------------------------------
\* Every step keeps the invariant.
LEMMA NextInv == IInv /\ [Next]_vars => IInv'
<1> SUFFICES ASSUME IInv, [Next]_vars PROVE IInv'
  OBVIOUS
<1>1. ASSUME NEW p \in Sender, SenderNext(p) PROVE IInv'
  BY <1>1, SendInv, AnswerInv, DepositValueInv, BlockInv, TrySendInv DEF SenderNext
<1>2. ASSUME NEW p \in Receiver, ReceiverNext(p) PROVE IInv'
  BY <1>2, StartInv, TakeValueInv, RecvClosedInv, RecvWaitInv DEF ReceiverNext
<1>3. CASE \/ \E t \in Green : Park(t) \/ Resume(t) \/ StrayWake(t)
           \/ \E o \in Proc \ Green : Spurious(o)
  BY <1>3, WordInv
<1>4. CASE Close
  BY <1>4, CloseInv
<1>5. CASE UNCHANGED vars
  <2>1. Values'
    BY <1>5, ValuesKept DEF vars
  <2> QED
    BY <1>5, <2>1 DEF vars, IInv, TypeOK, Awake, Roles, Waits, Idle, CanDeposit
<1> QED
  BY <1>1, <1>2, <1>3, <1>4, <1>5 DEF Next

\* The invariant holds in every behaviour.
LEMMA Inductive == Spec => []IInv
BY InitInv, NextInv, PTL DEF Spec

\* When nothing is under way nobody is left who could have met.
LEMMA InvMissed == IInv => NoMissedRendezvous
<1> SUFFICES ASSUME IInv, Quiet PROVE
      /\ pending = NoValue
      /\ \A p \in Proc : stage[p] # "deposited" /\ (closed => ~Parked(p))
      /\ \A p \in Sender, q \in Receiver : ~(Parked(p) /\ Parked(q))
  BY DEF NoMissedRendezvous
<1>1. Sender \subseteq Proc /\ Receiver \subseteq Proc /\ announced \subseteq Receiver
  BY DEF Proc, IInv, TypeOK
<1>2. \A p \in Proc : Parked(p) => Idle(p) /\ stage[p] \notin {"none", "select"}
  BY DEF IInv, Roles, Parked, Idle
<1>3. \A p \in Proc : stage[p] # "none" => Parked(p)
  BY DEF Quiet
<1>4. pending = NoValue
  <2> SUFFICES ASSUME pending # NoValue PROVE FALSE
    OBVIOUS
  <2>1. PICK r \in announced : stage[r] = "take"
    BY DEF IInv, Waits
  <2>2. Idle(r)
    BY <1>1, <1>2, <1>3, <2>1
  <2> QED
    BY <1>1, <2>2 DEF IInv, Waits
<1>5. \A p \in Sender : stage[p] # "deposited"
  BY <1>1, <1>2, <1>3, <1>4 DEF IInv, Waits
<1>6. \A p \in Receiver : stage[p] # "deposited"
  BY DEF IInv, Roles
<1>7. closed => \A p \in Proc : ~Parked(p)
  BY <1>2 DEF IInv, Waits
<1>8. ASSUME NEW p \in Sender, NEW q \in Receiver, Parked(p), Parked(q)
      PROVE  FALSE
  <2>1. stage[p] = "offer"
    BY <1>1, <1>2, <1>5, <1>8 DEF IInv, Roles
  <2>2. announced # {}
    BY <1>1, <1>2, <1>8 DEF IInv, Waits
  <2>3. CanDeposit
    BY <1>4, <2>2 DEF CanDeposit
  <2> QED
    BY <1>1, <1>2, <1>8, <2>1, <2>3 DEF IInv, Waits
<1> QED
  BY <1>4, <1>5, <1>6, <1>7, <1>8 DEF Proc

\* Every variable of an unbuffered channel has its type.
THEOREM TypeCorrect == Spec => []TypeOK
<1>1. IInv => TypeOK
  BY DEF IInv
<1> QED
  BY <1>1, Inductive, PTL

\* A blocking send answers true exactly when a receiver took its value, and no
\* value is taken twice, whatever a close, other senders and later deposits did
\* between the deposit and the return (the hand-off loop of pith_channel_send,
\* which compares `handoffs_before` with the delivery count).
THEOREM SendHonestAlways == Spec => []SendHonest
<1>1. IInv => SendHonest
  BY DEF IInv, Values, SendHonest
<1> QED
  BY <1>1, Inductive, PTL

\* When nothing is under way, no deposit lies in the channel, nobody waits next
\* to the one it could meet, and nobody waits on a closed channel: whoever
\* changes what another waits for wakes it under the same lock.
THEOREM NoMissedRendezvousEver == Spec => []NoMissedRendezvous
BY InvMissed, Inductive, PTL
=============================================================================
