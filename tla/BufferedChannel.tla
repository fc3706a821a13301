--------------------------- MODULE BufferedChannel ---------------------------
(***************************************************************************)
(* A buffered channel (concurrency/channel.rs): the lock-free ring that    *)
(* carries the values, and the channel lock, gates and waiter lists that   *)
(* park and wake its users.                                                *)
(*                                                                         *)
(* A step is one atomic operation that another process can tell from the   *)
(* next: the claim of a position, the publication of a slot, the load of a *)
(* gate, a section under the channel lock that touches no ring.  The lock  *)
(* is held over several steps where the code tries the ring under it.      *)
(* Memory is sequentially consistent, which the SeqCst fences of           *)
(* `wake_parked` and of the parking paths are there to provide.            *)
(*                                                                         *)
(* A failed spin of an os thread changes nothing and is no step, and an    *)
(* attempt on the ring that has to retry its CAS is one attempt.  A waiter *)
(* list is a set: which entry a pop takes is left open.  A gate comes down *)
(* with the lock: one that reads too high for a moment only sends a waker  *)
(* to an empty list.                                                       *)
(***************************************************************************)
EXTENDS Naturals, FiniteSets, Sequences

CONSTANTS
  Sender, Receiver,   \* the processes, by what they do with the channel
  Green,              \* those that are green tasks; the others are os threads
  Capacity,           \* above 0
  MaxSend,            \* bound: how many sends a sender starts
  NoProc, NoValue

Proc == Sender \cup Receiver
Value == Sender \X (1..MaxSend)

VARIABLES
  enq, deq,    \* Ring.enqueue_pos, Ring.dequeue_pos
  seq, cell,   \* Slot.sequence, Slot.cell
  closed,      \* closed_flag, and state.closed with it
  gate,        \* parked_senders, parked_receivers
  lock,        \* holder of the channel lock
  list,        \* green_senders, green_receivers
  pc,
  pos,         \* the ring position a process has claimed and not published
  val,         \* the value it is sending, or has received
  aim,         \* the role it is waking
  hand,        \* the receiver it has claimed and not enqueued (`wake_with`)
  word,        \* scheduling words of the green tasks
  handoff,     \* SyncBlock.handoff
  sends,       \* history: sends a sender has started
  got          \* history: how often each value was received

ringVars == <<enq, deq, seq, cell>>
vars == <<ringVars, closed, gate, lock, list, pc, pos, val, aim, hand, word,
          handoff, sends, got>>

Sched == INSTANCE SchedWord WITH Worker <- {}, NoWorker <- NoProc

Role == {"send", "recv"}
RoleOf(p) == IF p \in Sender THEN "send" ELSE "recv"
Other(role) == IF role = "send" THEN "recv" ELSE "send"

\* `Ring::slot_count`: the next power of two, at least 2.
SlotCount == CHOOSE n \in {2^k : k \in 1..Capacity} :
               n >= Capacity /\ (n = 2 \/ n \div 2 < Capacity)
Exact == Capacity = SlotCount
Slot(i) == i % SlotCount

\* What the constants are, and what a ring's length comes to.
BufferedAssumption ==
  /\ Sender \cap Receiver = {} /\ Green \subseteq Proc /\ IsFiniteSet(Proc)
  /\ NoProc \notin Proc /\ NoValue \notin Value
  /\ Capacity \in Nat \ {0} /\ MaxSend \in Nat
SlotsFit == SlotCount \in Nat /\ SlotCount >= 2 /\ SlotCount >= Capacity

Init ==
  /\ enq = 0 /\ deq = 0
  /\ seq = [i \in 0..(SlotCount - 1) |-> i]
  /\ cell = [i \in 0..(SlotCount - 1) |-> NoValue]
  /\ closed = FALSE
  /\ gate = [role \in Role |-> 0]
  /\ lock = NoProc
  /\ list = [role \in Role |-> {}]
  /\ pc = [p \in Proc |-> "idle"]
  /\ pos = [p \in Proc |-> 0]
  /\ val = [p \in Proc |-> NoValue]
  /\ aim = [p \in Proc |-> "recv"]
  /\ hand = [p \in Proc |-> NoProc]
  /\ word = [p \in Green |-> Sched!RunningWord(Sched!FreshWord, NoProc)]
  /\ handoff = [p \in Green |-> NoValue]
  /\ sends = [p \in Sender |-> 0]
  /\ got = [v \in Value |-> 0]

Goto(p, l) == pc' = [pc EXCEPT ![p] = l]

-----------------------------------------------------------------------------
(* The ring                                                                *)

\* try_enqueue succeeds: the slot is free for this position, and a ring with
\* spare slots has room by count.  Otherwise it returns false.
RoomAny == seq[Slot(enq)] = enq    \* a mutant
Room == seq[Slot(enq)] = enq /\ (Exact \/ enq - deq < Capacity)

\* try_dequeue succeeds: the head is published.  It returns None otherwise,
\* also while the head is claimed by a sender that has not published it.
HeadClaimed == enq > deq    \* a mutant
HeadReady == seq[Slot(deq)] = deq + 1

ClaimEnq(p) ==
  /\ Room
  /\ enq' = enq + 1
  /\ pos' = [pos EXCEPT ![p] = enq]
  /\ UNCHANGED <<deq, seq, cell>>

ClaimDeq(p) ==
  /\ HeadReady
  /\ deq' = deq + 1
  /\ pos' = [pos EXCEPT ![p] = deq]
  /\ UNCHANGED <<enq, seq, cell>>

\* Write the cell and publish it to the dequeuer of this position ...
PublishEnq(p) ==
  /\ cell' = [cell EXCEPT ![Slot(pos[p])] = val[p]]
  /\ seq' = [seq EXCEPT ![Slot(pos[p])] = pos[p] + 1]
  /\ pos' = [pos EXCEPT ![p] = 0]
  /\ UNCHANGED <<enq, deq>>

\* ... read it and hand the slot to the enqueuer one lap later.
PublishDeq(p) ==
  /\ seq' = [seq EXCEPT ![Slot(pos[p])] = pos[p] + SlotCount]
  /\ pos' = [pos EXCEPT ![p] = 0]
  /\ UNCHANGED <<enq, deq, cell>>
Taken(p) == cell[Slot(pos[p])]

CanClaim(p) == IF p \in Sender THEN Room ELSE HeadReady
Claim(p) == IF p \in Sender THEN ClaimEnq(p) ELSE ClaimDeq(p)
Publish(p) ==
  \/ p \in Sender /\ PublishEnq(p) /\ UNCHANGED val
  \/ p \in Receiver /\ PublishDeq(p) /\ val' = [val EXCEPT ![p] = Taken(p)]

-----------------------------------------------------------------------------
(* The fast path.  send and recv park; try_send ("probe") and try_recv     *)
(* ("once") give up where those would.                                     *)

Send(p) ==
  /\ pc[p] = "idle" /\ p \in Sender /\ sends[p] < MaxSend
  /\ sends' = [sends EXCEPT ![p] = @ + 1]
  /\ val' = [val EXCEPT ![p] = <<p, sends[p] + 1>>]
  /\ Goto(p, "check") \/ Goto(p, "probe")
  /\ UNCHANGED <<ringVars, closed, gate, lock, list, pos, aim, hand, word, handoff, got>>

Recv(p) ==
  /\ pc[p] = "idle" /\ p \in Receiver
  /\ Goto(p, "try") \/ Goto(p, "once")
  /\ UNCHANGED <<ringVars, closed, gate, lock, list, pos, val, aim, hand, word,
                 handoff, sends, got>>

\* The closed_flag load: at the top of buffered_send's loop, and after the
\* failed dequeue in buffered_recv's.
Check(p) ==
  /\ \/ /\ pc[p] = "check" /\ p \in Sender
        /\ Goto(p, IF closed THEN "idle" ELSE "try")
     \/ /\ pc[p] = "probe"
        /\ Goto(p, IF closed THEN "idle" ELSE "once")
     \/ /\ pc[p] = "check" /\ p \in Receiver
        /\ Goto(p, IF closed THEN "look" ELSE "slow")
  /\ UNCHANGED <<ringVars, closed, gate, lock, list, pos, val, aim, hand, word,
                 handoff, sends, got>>

\* The ring attempt: "try" on the fast path, "look" once more after a close.
Try(p) ==
  /\ pc[p] \in {"try", "look", "once"}
  /\ \/ Claim(p) /\ Goto(p, "publish")
     \/ /\ ~CanClaim(p)
        /\ Goto(p, IF pc[p] # "try" THEN "idle"
                   ELSE IF p \in Sender THEN "slow" ELSE "check")
        /\ UNCHANGED <<ringVars, pos>>
  /\ UNCHANGED <<closed, gate, lock, list, val, aim, hand, word, handoff, sends, got>>

\* The end of a ring operation that succeeded: wake_parked comes next.
Published(p) ==
  /\ pc[p] = "publish"
  /\ Publish(p)
  /\ aim' = [aim EXCEPT ![p] = Other(RoleOf(p))]
  /\ Goto(p, "gate")
  /\ UNCHANGED <<closed, gate, lock, list, hand, word, handoff, sends, got>>

\* What an operation of p that succeeded hands to its caller.
Handed(p) == IF p \in Receiver THEN {val[p]} ELSE {}
Deliver(S) == got' = [v \in Value |-> IF v \in S THEN got[v] + 1 ELSE got[v]]

-----------------------------------------------------------------------------
(* Parking                                                                 *)

SlowUncounted(p) ==    \* a mutant
  /\ pc[p] = "slow" /\ lock = NoProc
  /\ lock' = p
  /\ Goto(p, IF p \in Sender THEN "recheck" ELSE "retry")
  /\ UNCHANGED <<ringVars, closed, gate, list, pos, val, aim, hand, word,
                 handoff, sends, got>>

SlowNoRetry(p) ==    \* a mutant
  /\ pc[p] = "slow" /\ lock = NoProc
  /\ lock' = p
  /\ gate' = [gate EXCEPT ![RoleOf(p)] = @ + 1]
  /\ Goto(p, "register")
  /\ UNCHANGED <<ringVars, closed, list, pos, val, aim, hand, word, handoff, sends, got>>

\* Under the channel lock from here: the gate goes up before the re-try.
Slow(p) ==
  /\ pc[p] = "slow" /\ lock = NoProc
  /\ lock' = p
  /\ gate' = [gate EXCEPT ![RoleOf(p)] = @ + 1]
  /\ Goto(p, IF p \in Sender THEN "recheck" ELSE "retry")
  /\ UNCHANGED <<ringVars, closed, list, pos, val, aim, hand, word, handoff, sends, got>>

LeaveCounted(p) == lock' = NoProc /\ UNCHANGED gate    \* a mutant
Leave(p) ==
  /\ lock' = NoProc
  /\ gate' = [gate EXCEPT ![RoleOf(p)] = @ - 1]

Retry(p) ==
  /\ pc[p] = "retry"
  /\ \/ Claim(p) /\ Goto(p, "republish")
     \/ /\ ~CanClaim(p)
        /\ Goto(p, IF p \in Sender THEN "register" ELSE "recheck")
        /\ UNCHANGED <<ringVars, pos>>
  /\ UNCHANGED <<closed, gate, lock, list, val, aim, hand, word, handoff, sends, got>>

Republished(p) ==
  /\ pc[p] = "republish"
  /\ Publish(p)
  /\ Leave(p)
  /\ aim' = [aim EXCEPT ![p] = Other(RoleOf(p))]
  /\ Goto(p, "gate")
  /\ UNCHANGED <<closed, list, hand, word, handoff, sends, got>>

\* The closed_flag load under the lock: a sender's before its re-try, a
\* receiver's after.  The operation fails, or goes on.
Recheck(p) ==
  /\ pc[p] = "recheck"
  /\ \/ closed /\ Leave(p) /\ Goto(p, "idle")
     \/ ~closed /\ Goto(p, IF p \in Sender THEN "retry" ELSE "register")
        /\ UNCHANGED <<gate, lock>>
  /\ UNCHANGED <<ringVars, closed, list, pos, val, aim, hand, word, handoff, sends, got>>

\* `block_on_channel`: wait on the role's condvar, or list the task and let go
\* of the lock ...
Register(p) ==
  /\ pc[p] = "register"
  /\ lock' = NoProc
  /\ \/ p \notin Green /\ Goto(p, "wait") /\ UNCHANGED list
     \/ /\ p \in Green /\ Goto(p, "park")
        /\ list' = [list EXCEPT ![RoleOf(p)] = @ \cup {p}]
  /\ UNCHANGED <<ringVars, closed, gate, pos, val, aim, hand, word, handoff, sends, got>>

\* ... and suspend it.
Park(p) ==
  /\ pc[p] = "park"
  /\ word' = [word EXCEPT ![p] = Sched!YieldedWord(@)]
  /\ Goto(p, "asleep")
  /\ UNCHANGED <<ringVars, closed, gate, lock, list, pos, val, aim, hand,
                 handoff, sends, got>>

\* Claimed by a waker that has not enqueued it yet.
InHand(t) == \E p \in Proc : hand[p] = t

Resume(p) ==
  /\ pc[p] = "asleep" /\ word[p].st = "ready" /\ ~InHand(p)
  /\ word' = [word EXCEPT ![p] = Sched!RunningWord(@, NoProc)]
  /\ Goto(p, "relock")
  /\ UNCHANGED <<ringVars, closed, gate, lock, list, pos, val, aim, hand,
                 handoff, sends, got>>

\* A condvar may wake a thread for nothing.
Spurious(p) ==
  /\ pc[p] = "wait"
  /\ Goto(p, "relock")
  /\ UNCHANGED <<ringVars, closed, gate, lock, list, pos, val, aim, hand, word,
                 handoff, sends, got>>

RelockKeep(p) ==    \* a mutant
  /\ pc[p] = "relock" /\ lock = NoProc
  /\ gate' = [gate EXCEPT ![RoleOf(p)] = @ - 1]
  /\ Goto(p, IF p \in Sender THEN "check" ELSE "resumed")
  /\ UNCHANGED <<ringVars, closed, lock, list, pos, val, aim, hand, word, handoff,
                 sends, got>>

\* Back under the lock: a stale entry goes, then the gate comes down.
Relock(p) ==
  /\ pc[p] = "relock" /\ lock = NoProc
  /\ list' = [list EXCEPT ![RoleOf(p)] = @ \ {p}]
  /\ gate' = [gate EXCEPT ![RoleOf(p)] = @ - 1]
  /\ Goto(p, IF p \in Sender THEN "check" ELSE "resumed")
  /\ UNCHANGED <<ringVars, closed, lock, pos, val, aim, hand, word, handoff, sends, got>>

\* `take_handoff`: the value is already here, or the loop starts over.
TakeHandoff(p) ==
  /\ pc[p] = "resumed"
  /\ \/ /\ p \in Green /\ handoff[p] # NoValue
        /\ Deliver({handoff[p]})
        /\ handoff' = [handoff EXCEPT ![p] = NoValue]
        /\ Goto(p, "idle")
     \/ /\ p \in Green => handoff[p] = NoValue
        /\ Goto(p, "try")
        /\ UNCHANGED <<got, handoff>>
  /\ UNCHANGED <<ringVars, closed, gate, lock, list, pos, val, aim, hand, word, sends>>

-----------------------------------------------------------------------------
(* Waking                                                                  *)

\* What a wake does to the words of the tasks of a set.
Woken(t) == Sched!WokenWord(word[t])
WakeAll(S) == word' = [t \in Green |-> IF t \in S THEN Woken(t) ELSE word[t]]

\* Os threads the state counts in a role: still waiting, or woken and not yet
\* back under the lock.
OsCounted(role) == {p \in Proc \ Green : RoleOf(p) = role /\ pc[p] \in {"wait", "relock"}}
OsAsleep(role) == {p \in OsCounted(role) : pc[p] = "wait"}

\* `wake_parked`, the gate: nobody is parked in the role, and the operation
\* is over.
GateShut(p) ==
  /\ pc[p] = "gate" /\ gate[aim[p]] = 0
  /\ Deliver(Handed(p))
  /\ Goto(p, "idle")
  /\ UNCHANGED <<ringVars, closed, gate, lock, list, pos, val, aim, hand, word,
                 handoff, sends>>

GateOpen(p) ==
  /\ pc[p] = "gate" /\ gate[aim[p]] > 0
  /\ Goto(p, "wake")
  /\ UNCHANGED <<ringVars, closed, gate, lock, list, pos, val, aim, hand, word,
                 handoff, sends, got>>

\* A listed green receiver is popped and claimed for a direct handoff ...
WakeHandoff(p, t) ==
  /\ pc[p] = "wake" /\ lock = NoProc /\ aim[p] = "recv"
  /\ t \in list["recv"]
  /\ list' = [list EXCEPT !["recv"] = @ \ {t}]
  /\ WakeAll({t})
  /\ \/ /\ Sched!Claimable(word[t])
        /\ hand' = [hand EXCEPT ![p] = t]
        /\ lock' = p
        /\ Goto(p, "fetch")
        /\ UNCHANGED aim
     \/ /\ ~Sched!Claimable(word[t])
        /\ aim' = [aim EXCEPT ![p] = "send"]
        /\ Goto(p, "gate")
        /\ UNCHANGED <<hand, lock>>
  /\ UNCHANGED <<ringVars, closed, gate, pos, val, handoff, sends, got>>

\* ... the ring is dequeued on its behalf, if the head is published ...
Fetch(p) ==
  /\ pc[p] = "fetch"
  /\ \/ ClaimDeq(p) /\ Goto(p, "deposit")
     \/ ~HeadReady /\ Goto(p, "enqueue") /\ UNCHANGED <<ringVars, pos>>
  /\ UNCHANGED <<closed, gate, lock, list, val, aim, hand, word, handoff, sends, got>>

Deposit(p) ==
  /\ pc[p] = "deposit"
  /\ PublishDeq(p)
  /\ handoff' = [handoff EXCEPT ![hand[p]] = Taken(p)]
  /\ Goto(p, "enqueue")
  /\ UNCHANGED <<closed, gate, lock, list, val, aim, hand, word, sends, got>>

\* ... and it goes to a run queue.  The slot freed may suit a parked sender.
HandoffEnqueue(p) ==
  /\ pc[p] = "enqueue"
  /\ hand' = [hand EXCEPT ![p] = NoProc]
  /\ lock' = NoProc
  /\ aim' = [aim EXCEPT ![p] = "send"]
  /\ Goto(p, "gate")
  /\ UNCHANGED <<ringVars, closed, gate, list, pos, val, word, handoff, sends, got>>

\* Everything else: signal one os thread of the role, and wake all the green
\* tasks listed in it.
WakeRole(p) ==
  LET role == aim[p]
  IN  /\ pc[p] = "wake" /\ lock = NoProc
      /\ role = "recv" => list["recv"] = {}
      /\ WakeAll(list[role])
      /\ list' = [list EXCEPT ![role] = {}]
      /\ \E one \in {{o} : o \in OsAsleep(role)} \cup
                    (IF OsAsleep(role) = {} THEN {{}} ELSE {}) :
           pc' = [q \in Proc |-> IF q \in one THEN "relock"
                                 ELSE IF q = p THEN "idle" ELSE pc[q]]
      /\ Deliver(Handed(p))
      /\ UNCHANGED <<ringVars, closed, gate, lock, pos, val, aim, hand, handoff, sends>>

-----------------------------------------------------------------------------
\* pith_channel_close, by whoever holds the handle.
Close ==
  /\ ~closed /\ lock = NoProc
  /\ closed' = TRUE
  /\ WakeAll(list["send"] \cup list["recv"])
  /\ list' = [role \in Role |-> {}]
  /\ pc' = [p \in Proc |-> IF pc[p] = "wait" THEN "relock" ELSE pc[p]]
  /\ UNCHANGED <<ringVars, gate, lock, pos, val, aim, hand, handoff, sends, got>>

\* Between two operations here, a task may park at some other block site.
ParkElsewhere(t) ==
  /\ pc[t] = "idle"
  /\ word' = [word EXCEPT ![t] = Sched!YieldedWord(@)]
  /\ Goto(t, "away")
  /\ UNCHANGED <<ringVars, closed, gate, lock, list, pos, val, aim, hand,
                 handoff, sends, got>>

ResumeElsewhere(t) ==
  /\ pc[t] = "away" /\ word[t].st = "ready" /\ ~InHand(t)
  /\ word' = [word EXCEPT ![t] = Sched!RunningWord(@, NoProc)]
  /\ Goto(t, "idle")
  /\ UNCHANGED <<ringVars, closed, gate, lock, list, pos, val, aim, hand,
                 handoff, sends, got>>

\* A wake of a task from such a site: what it waits for, or an entry it left.
StrayWake(t) ==
  /\ pc[t] \in {"park", "asleep", "away"}
  /\ WakeAll({t})
  /\ UNCHANGED <<ringVars, closed, gate, lock, list, pc, pos, val, aim, hand,
                 handoff, sends, got>>

Step(p) ==
  \/ Check(p) \/ Try(p) \/ Published(p)
  \/ Slow(p) \/ Retry(p) \/ Republished(p) \/ Recheck(p) \/ Register(p)
  \/ Park(p) \/ Resume(p) \/ Relock(p) \/ TakeHandoff(p)
  \/ GateShut(p) \/ GateOpen(p) \/ Fetch(p) \/ Deposit(p) \/ HandoffEnqueue(p)
  \/ WakeRole(p) \/ \E t \in Green : WakeHandoff(p, t)

Next ==
  \/ \E p \in Proc : Send(p) \/ Recv(p) \/ Step(p) \/ Spurious(p)
  \/ \E t \in Green : ParkElsewhere(t) \/ ResumeElsewhere(t) \/ StrayWake(t)
  \/ Close

Spec == Init /\ [][Next]_vars

-----------------------------------------------------------------------------
(* Properties                                                              *)

Label == {"idle", "away", "check", "probe", "try", "look", "once", "publish",
          "slow", "recheck", "retry", "republish", "register", "park",
          "asleep", "wait", "relock", "resumed", "gate", "wake", "fetch",
          "deposit", "enqueue"}

\* Every variable has its type.
TypeOK ==
  /\ enq \in Nat /\ deq \in Nat
  /\ seq \in [0..(SlotCount - 1) -> Nat]
  /\ cell \in [0..(SlotCount - 1) -> Value \cup {NoValue}]
  /\ closed \in BOOLEAN
  /\ gate \in [Role -> Nat]
  /\ lock \in Proc \cup {NoProc}
  /\ list \in [Role -> SUBSET Green]
  /\ pc \in [Proc -> Label]
  /\ pos \in [Proc -> Nat]
  /\ val \in [Proc -> Value \cup {NoValue}]
  /\ aim \in [Proc -> Role]
  /\ hand \in [Proc -> Green \cup {NoProc}]
  /\ word \in [Green -> Sched!Word]
  /\ handoff \in [Green -> Value \cup {NoValue}]
  /\ sends \in [Sender -> 0..MaxSend]
  /\ got \in [Value -> Nat]

\* A waiter list names only tasks inside this channel's parking section, so a
\* pop never claims a task that parked somewhere else, and a value is only
\* handed to a receiver that will take it before it does anything else.
HandoffHome ==
  /\ \A role \in Role : \A t \in list[role] :
       RoleOf(t) = role /\ pc[t] \in {"park", "asleep", "relock"}
  /\ \A t \in Green : handoff[t] # NoValue \/ InHand(t) =>
       t \in Receiver /\ pc[t] \in {"asleep", "relock", "resumed"}

\* The gate of a role counts exactly the operations that are parked in it, or
\* about to be, or not back yet: it never sticks open or shut.
GateCounts ==
  \A role \in Role :
    gate[role] = Cardinality({p \in Proc : RoleOf(p) = role
       /\ pc[p] \in {"retry", "recheck", "republish", "register", "park",
                     "asleep", "wait", "relock"}})

Parked(p) == pc[p] = "wait" \/ (pc[p] = "asleep" /\ word[p].st = "parked")

\* Nothing is under way: everybody is outside the channel or parked in it.
Quiet == \A p \in Proc : pc[p] \in {"idle", "away"} \/ Parked(p)

\* wake_parked and the parking paths lose no wake: when nothing is under way,
\* no receiver is parked next to a value, no sender next to a free slot, and
\* nobody in a closed channel.
NoMissedWake ==
  Quiet => \A p \in Proc : Parked(p) => ~CanClaim(p) /\ ~closed

(***************************************************************************)
(* What the ring and the handoff promise together: BoundedFifo.            *)
(***************************************************************************)

\* The value at a position in the ring, which its sender may be yet to write.
At(k) ==
  IF \E p \in Sender : pc[p] \in {"publish", "republish"} /\ pos[p] = k
  THEN val[CHOOSE p \in Sender : pc[p] \in {"publish", "republish"} /\ pos[p] = k]
  ELSE cell[Slot(k)]
fifoBar == [i \in 1..(enq - deq) |-> At(deq + i - 1)]

\* The values between the ring and a caller of recv.
heldBar ==
  {Taken(p) : p \in {q \in Receiver : pc[q] \in {"publish", "republish"}}}
  \cup {Taken(p) : p \in {q \in Proc : pc[q] = "deposit"}}
  \cup {val[p] : p \in {q \in Receiver : pc[q] \in {"gate", "wake"}}}
  \cup ({handoff[t] : t \in Green} \ {NoValue})

Fifo == INSTANCE BoundedFifo WITH fifo <- fifoBar, held <- heldBar

\* The channel is a bounded fifo that delivers every value at most once and
\* loses none on the way, whoever dequeues it.
FifoSpec == Fifo!Spec
=============================================================================
