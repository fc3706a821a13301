-------------------------- MODULE UnbufferedChannel --------------------------
(***************************************************************************)
(* An unbuffered channel (concurrency/channel.rs): a rendezvous carried    *)
(* under the channel lock.  A receiver announces itself and waits; a       *)
(* sender that finds one announced and no deposit pending leaves its       *)
(* value and waits until it is taken.  A step is one section under the     *)
(* lock, or a move of the scheduling word; every wait ends with the        *)
(* process on its way back to the lock ("relock").  `sender_waiting` is    *)
(* left out: the code counts it and reads it nowhere.                      *)
(***************************************************************************)
EXTENDS Naturals

CONSTANTS
  Sender, Receiver,
  Green,              \* those that are green tasks; the others are os threads
  MaxSend,            \* bound: how many sends a sender starts
  NoProc, NoValue

Proc == Sender \cup Receiver
Value == Sender \X (1..MaxSend)

ASSUME ChannelAssumption ==
  /\ Sender \cap Receiver = {} /\ Green \subseteq Proc /\ MaxSend \in Nat
  /\ NoProc \notin Proc /\ NoValue \notin Value

VARIABLES
  closed, pending, deliveries,   \* of ChannelState
  announced,   \* the receivers counted in `receiver_waiting`
  list,        \* green_senders and green_receivers
  stage,       \* what a process is doing with the channel
  pc,          \* whether it runs, is on its way to the lock, or waits
  before,      \* a sender's `handoffs_before`
  word,        \* scheduling words of the green tasks
  sends,       \* history: sends a sender has started
  answer,      \* history: what the send of a value answered
  got          \* history: how often each value was received

vars == <<closed, pending, deliveries, announced, list, stage, pc, before,
          word, sends, answer, got>>

Sched == INSTANCE SchedWord WITH Worker <- {}, NoWorker <- NoProc

Stage == {"none", "offer", "deposited", "take", "select"}

Init ==
  /\ closed = FALSE /\ pending = NoValue /\ deliveries = 0
  /\ announced = {}
  /\ list = {}
  /\ stage = [p \in Proc |-> "none"]
  /\ pc = [p \in Proc |-> "run"]
  /\ before = [p \in Sender |-> 0]
  /\ word = [t \in Green |-> Sched!RunningWord(Sched!FreshWord, NoProc)]
  /\ sends = [p \in Sender |-> 0]
  /\ answer = [v \in Value |-> "none"]
  /\ got = [v \in Value |-> 0]

To(p, s) == stage' = [stage EXCEPT ![p] = s]
Mine(p) == <<p, sends[p]>>
Answer(p, a) == answer' = [answer EXCEPT ![Mine(p)] = a]

-----------------------------------------------------------------------------
(* Waiting and waking                                                      *)

Woken(t) == Sched!WokenWord(word[t])

\* The frame of a section under the lock: the process p that runs it ends up
\* at `l`, the processes of `whom` are woken, tasks through the list, threads
\* through the condvar of their role (a rendezvous signals them all).  A task
\* back under the lock has taken its own entry off the list; one about to
\* suspend has put it there.
Section(p, l, whom) ==
  /\ pc' = [q \in Proc |-> IF q = p THEN l
                           ELSE IF q \in whom /\ pc[q] = "wait" THEN "relock" ELSE pc[q]]
  /\ word' = [t \in Green |-> IF t \in whom \cap list THEN Woken(t) ELSE word[t]]
  /\ list' = ((list \ {p}) \ whom) \cup (IF l = "park" THEN {p} ELSE {})

BlockAsTask(p) == "park"    \* a mutant

\* `block_on_channel`: where a process that must wait goes.
BlockAt(p) == IF p \in Green THEN "park" ELSE "wait"

Park(t) ==
  /\ pc[t] = "park"
  /\ word' = [word EXCEPT ![t] = Sched!YieldedWord(@)]
  /\ pc' = [pc EXCEPT ![t] = "asleep"]
  /\ UNCHANGED <<closed, pending, deliveries, announced, list, stage, before,
                 sends, answer, got>>

Resume(t) ==
  /\ pc[t] = "asleep" /\ word[t].st = "ready"
  /\ word' = [word EXCEPT ![t] = Sched!RunningWord(@, NoProc)]
  /\ pc' = [pc EXCEPT ![t] = "relock"]
  /\ UNCHANGED <<closed, pending, deliveries, announced, list, stage, before,
                 sends, answer, got>>

\* A condvar may wake a thread, and another site a task, for nothing.
Spurious(o) ==
  /\ pc[o] = "wait"
  /\ pc' = [pc EXCEPT ![o] = "relock"]
  /\ UNCHANGED <<closed, pending, deliveries, announced, list, stage, before,
                 word, sends, answer, got>>

StrayWake(t) ==
  /\ pc[t] \in {"park", "asleep"}
  /\ word' = [word EXCEPT ![t] = Woken(t)]
  /\ UNCHANGED <<closed, pending, deliveries, announced, list, stage, pc,
                 before, sends, answer, got>>

-----------------------------------------------------------------------------
(* send and try_send                                                       *)

CanDeposit == announced # {} /\ pending = NoValue

Send(p) ==
  /\ stage[p] = "none" /\ sends[p] < MaxSend
  /\ sends' = [sends EXCEPT ![p] = @ + 1]
  /\ To(p, "offer")
  /\ pc' = [pc EXCEPT ![p] = "relock"]
  /\ UNCHANGED <<closed, pending, deliveries, announced, list, before, word,
                 answer, got>>

SendClosed(p) ==
  /\ stage[p] = "offer" /\ pc[p] = "relock" /\ closed
  /\ To(p, "none") /\ Answer(p, "refused")
  /\ Section(p, "run", {})
  /\ UNCHANGED <<closed, pending, deliveries, announced, before, sends, got>>

\* A receiver is announced and no deposit is in the way: leave the value, wake
\* the receivers, and wait for it to be taken.
DepositValue(p) ==
  /\ stage[p] = "offer" /\ pc[p] = "relock" /\ ~closed /\ CanDeposit
  /\ pending' = Mine(p)
  /\ before' = [before EXCEPT ![p] = deliveries]
  /\ To(p, "deposited")
  /\ Section(p, BlockAt(p), Receiver)
  /\ UNCHANGED <<closed, deliveries, announced, sends, answer, got>>

OfferWait(p) ==
  /\ stage[p] = "offer" /\ pc[p] = "relock" /\ ~closed /\ ~CanDeposit
  /\ Section(p, BlockAt(p), {})
  /\ UNCHANGED <<closed, pending, deliveries, announced, stage, before, sends,
                 answer, got>>

\* The inner loop: some deposit is still pending ...
DepositWait(p) ==
  /\ stage[p] = "deposited" /\ pc[p] = "relock" /\ ~closed /\ pending # NoValue
  /\ Section(p, BlockAt(p), {})
  /\ UNCHANGED <<closed, pending, deliveries, announced, stage, before, sends,
                 answer, got>>

TakenUnlessClosed(p) == ~closed    \* a mutant
Taken(p) == deliveries # before[p]

\* ... or it is over, and the delivery count says whether the value was taken.
DepositOver(p) ==
  /\ stage[p] = "deposited" /\ pc[p] = "relock" /\ (closed \/ pending = NoValue)
  /\ Answer(p, IF Taken(p) THEN "taken" ELSE "refused")
  /\ To(p, "none")
  /\ Section(p, "run", {})
  /\ UNCHANGED <<closed, pending, deliveries, announced, before, sends, got>>

\* try_send deposits and leaves; it changes nothing when it cannot.
TrySend(p) ==
  /\ stage[p] = "none" /\ sends[p] < MaxSend
  /\ ~closed /\ CanDeposit
  /\ sends' = [sends EXCEPT ![p] = @ + 1]
  /\ pending' = <<p, sends[p] + 1>>
  /\ answer' = [answer EXCEPT ![<<p, sends[p] + 1>>] = "left"]
  /\ Section(p, "run", Receiver)
  /\ UNCHANGED <<closed, deliveries, announced, stage, before, got>>

-----------------------------------------------------------------------------
(* recv, try_recv, and the recv arm of a select                            *)

Recv(p) ==
  /\ stage[p] = "none"
  /\ To(p, "take")
  /\ pc' = [pc EXCEPT ![p] = "relock"]
  /\ UNCHANGED <<closed, pending, deliveries, announced, list, before, word,
                 sends, answer, got>>

\* A section that finds a deposit takes it, counts the delivery and wakes the
\* senders: recv back under the lock, try_recv, a probe of a select.
TakeValue(p) ==
  /\ \/ stage[p] = "take" /\ pc[p] = "relock"
     \/ stage[p] \in {"none", "select"}
  /\ pending # NoValue
  /\ got' = [got EXCEPT ![pending] = @ + 1]
  /\ pending' = NoValue
  /\ deliveries' = deliveries + 1
  /\ announced' = announced \ {p}
  /\ To(p, "none")
  /\ Section(p, "run", Sender)
  /\ UNCHANGED <<closed, before, sends, answer>>

RecvClosed(p) ==
  /\ stage[p] = "take" /\ pc[p] = "relock" /\ pending = NoValue /\ closed
  /\ announced' = announced \ {p}
  /\ To(p, "none")
  /\ Section(p, "run", {})
  /\ UNCHANGED <<closed, pending, deliveries, before, sends, answer, got>>

\* Announce, wake the senders so that one can deposit, and wait.
RecvWait(p) ==
  /\ stage[p] = "take" /\ pc[p] = "relock" /\ pending = NoValue /\ ~closed
  /\ announced' = announced \cup {p}
  /\ Section(p, BlockAt(p), Sender)
  /\ UNCHANGED <<closed, pending, deliveries, stage, before, sends, answer, got>>

\* A select probes with try_recv, pass after pass; a pass that finds nothing
\* changes nothing.  Another arm (a timeout, a default) may end it.
Select(p) ==
  /\ stage[p] = "none"
  /\ To(p, "select")
  /\ UNCHANGED <<closed, pending, deliveries, announced, list, pc, before, word,
                 sends, answer, got>>

SelectOther(p) ==
  /\ stage[p] = "select"
  /\ To(p, "none")
  /\ UNCHANGED <<closed, pending, deliveries, announced, list, pc, before, word,
                 sends, answer, got>>

-----------------------------------------------------------------------------
\* pith_channel_close: the deposit is dropped and everybody is woken.
Close ==
  /\ ~closed
  /\ closed' = TRUE
  /\ pending' = NoValue
  /\ Section(NoProc, "run", Proc)
  /\ UNCHANGED <<deliveries, announced, stage, before, sends, answer, got>>

SenderNext(p) ==
  \/ Send(p) \/ SendClosed(p) \/ DepositValue(p) \/ OfferWait(p)
  \/ DepositWait(p) \/ DepositOver(p) \/ TrySend(p)

ReceiverNext(p) ==
  \/ Recv(p) \/ TakeValue(p) \/ RecvClosed(p) \/ RecvWait(p)
  \/ Select(p) \/ SelectOther(p)

Next ==
  \/ \E p \in Sender : SenderNext(p)
  \/ \E p \in Receiver : ReceiverNext(p)
  \/ \E t \in Green : Park(t) \/ Resume(t) \/ StrayWake(t)
  \/ \E o \in Proc \ Green : Spurious(o)
  \/ Close

Spec == Init /\ [][Next]_vars

\* Whoever is on its way to the lock gets it, a select keeps probing, and a
\* Ready task is popped.  Nobody has to send, to receive or to close.
Fairness ==
  /\ \A p \in Sender :
       WF_vars(SendClosed(p) \/ DepositValue(p) \/ OfferWait(p)
               \/ DepositWait(p) \/ DepositOver(p))
  /\ \A p \in Receiver :
       /\ WF_vars(stage[p] = "take" /\ (TakeValue(p) \/ RecvClosed(p) \/ RecvWait(p)))
       /\ SF_vars(stage[p] = "select" /\ TakeValue(p))
  /\ \A t \in Green : WF_vars(Park(t) \/ Resume(t))

FairSpec == Spec /\ Fairness

-----------------------------------------------------------------------------
(* Properties                                                              *)

\* Every variable has its type.
TypeOK ==
  /\ closed \in BOOLEAN
  /\ pending \in Value \cup {NoValue}
  /\ deliveries \in Nat
  /\ announced \in SUBSET Receiver
  /\ list \in SUBSET Green
  /\ stage \in [Proc -> Stage]
  /\ pc \in [Proc -> {"run", "relock", "park", "asleep", "wait"}]
  /\ before \in [Sender -> Nat]
  /\ word \in [Green -> Sched!Word]
  /\ sends \in [Sender -> 0..MaxSend]
  /\ answer \in [Value -> {"none", "taken", "refused", "left"}]
  /\ got \in [Value -> Nat]

\* A blocking send tells the truth, whatever a close, other senders and other
\* deposits did between its deposit and its return: it answers true exactly
\* when a receiver took its value, and no value is taken twice.
SendHonest ==
  \A v \in Value :
    /\ answer[v] = "taken" => got[v] = 1
    /\ answer[v] = "refused" => got[v] = 0
    /\ got[v] <= 1

Parked(p) == pc[p] = "wait" \/ (pc[p] = "asleep" /\ word[p].st = "parked")
Quiet == \A p \in Proc : stage[p] = "none" \/ (stage[p] # "select" /\ Parked(p))

\* No missed rendezvous: when nothing is under way, no deposit is left lying,
\* no depositor waits, no sender waits next to a receiver, and nobody waits on
\* a closed channel.
NoMissedRendezvous ==
  Quiet =>
    /\ pending = NoValue
    /\ \A p \in Proc : stage[p] # "deposited" /\ (closed => ~Parked(p))
    /\ \A p \in Sender, q \in Receiver : ~(Parked(p) /\ Parked(q))

\* A waiting send and a waiting recv meet.
Rendezvous ==
  \A p \in Sender, q \in Receiver :
    (stage[p] = "offer" /\ stage[q] = "take") ~> (stage[p] # "offer" \/ stage[q] # "take")

\* A waiting send and a select that waits to receive meet.
SelectRendezvous ==
  \A p \in Sender, q \in Receiver :
    (stage[p] = "offer" /\ stage[q] = "select") ~> (stage[p] # "offer" \/ stage[q] # "select")
=============================================================================
