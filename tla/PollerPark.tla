------------------------------ MODULE PollerPark ------------------------------
(***************************************************************************)
(* How a worker waits on its poller and how a notify gets it out           *)
(* (netpoll.rs: idle_wait, poll, notify).  The flag `notified` is the      *)
(* permit WorkerPool relies on; `mode` says by which door the worker       *)
(* waits: a condvar when it has nothing registered, epoll_wait with an     *)
(* eventfd when it has.  A step is one atomic access, one section under    *)
(* the park lock or one system call.  What else a poll harvests is         *)
(* Netpoll's subject: here the wait just may end for another reason.       *)
(***************************************************************************)
CONSTANTS
  Notifier,    \* threads that have work for the worker
  Nobody

ParkAssumption == "worker" \notin Notifier \cup {Nobody}

VARIABLES
  notified, mode, eventfd,    \* of Poller
  lock,        \* who holds Poller.park
  signalled,   \* the condvar was signalled while the worker slept on it
  harvest,     \* the events of the last epoll_wait include the eventfd
  pc           \* of the worker and of the notifiers

vars == <<notified, mode, eventfd, lock, signalled, harvest, pc>>

Mode == {"none", "futex", "epoll"}

Init ==
  /\ notified = FALSE /\ mode = "none" /\ eventfd = FALSE
  /\ lock = Nobody /\ signalled = FALSE /\ harvest = FALSE
  /\ pc = [p \in Notifier \cup {"worker"} |-> "run"]

Goto(p, l) == pc' = [pc EXCEPT ![p] = l]
Worker(l) == pc["worker"] = l

-----------------------------------------------------------------------------
(* notify                                                                  *)

\* A notify that finds one pending has nothing to do.
Swap(n) ==
  /\ pc[n] = "run"
  /\ notified' = TRUE
  /\ Goto(n, IF notified THEN "run" ELSE "read")
  /\ UNCHANGED <<mode, eventfd, lock, signalled, harvest>>

ReadMode(n) ==
  /\ pc[n] = "read"
  /\ Goto(n, IF mode = "none" THEN "run" ELSE mode)
  /\ UNCHANGED <<notified, mode, eventfd, lock, signalled, harvest>>

Asleep == pc["worker"] = "asleep"

SignalUnlocked(n) ==    \* a mutant
  /\ pc[n] = "futex"
  /\ signalled' = (signalled \/ Asleep)
  /\ Goto(n, "run")
  /\ UNCHANGED <<notified, mode, eventfd, lock, harvest>>

\* Taking the lock orders this against the worker's check-then-wait.
Signal(n) ==
  /\ pc[n] = "futex" /\ lock = Nobody
  /\ signalled' = (signalled \/ Asleep)
  /\ Goto(n, "run")
  /\ UNCHANGED <<notified, mode, eventfd, lock, harvest>>

Write(n) ==
  /\ pc[n] = "epoll"
  /\ eventfd' = TRUE
  /\ Goto(n, "run")
  /\ UNCHANGED <<notified, mode, lock, signalled, harvest>>

-----------------------------------------------------------------------------
(* idle_wait                                                               *)

\* With nothing registered: the mode is set and the flag read under the lock.
ParkFutex ==
  /\ Worker("run") /\ lock = Nobody
  /\ lock' = "worker" /\ mode' = "futex"
  /\ Goto("worker", "check")
  /\ UNCHANGED <<notified, eventfd, signalled, harvest>>

\* The condition of wait_timeout_while, on entry and after each wake.
Check ==
  /\ Worker("check")
  /\ IF notified THEN Goto("worker", "leave") /\ lock' = Nobody
                 ELSE Goto("worker", "wait") /\ UNCHANGED lock
  /\ UNCHANGED <<notified, mode, eventfd, signalled, harvest>>

\* The condvar gives the lock back and sleeps.
Sleep ==
  /\ Worker("wait")
  /\ lock' = Nobody /\ signalled' = FALSE
  /\ Goto("worker", "asleep")
  /\ UNCHANGED <<notified, mode, eventfd, harvest>>

\* Signalled, or woken for nothing: the condition is read again.
Awake ==
  /\ Worker("asleep") /\ lock = Nobody
  /\ lock' = "worker" /\ Goto("worker", "check")
  /\ UNCHANGED <<notified, mode, eventfd, signalled, harvest>>

TimedOut ==
  /\ Worker("asleep") /\ lock = Nobody
  /\ Goto("worker", "leave")
  /\ UNCHANGED <<notified, mode, eventfd, lock, signalled, harvest>>

\* With something registered: the mode first, then the flag.
ParkEpoll ==
  /\ Worker("run")
  /\ mode' = "epoll"
  /\ Goto("worker", "flag")
  /\ UNCHANGED <<notified, eventfd, lock, signalled, harvest>>

FlagIgnored ==    \* a mutant
  /\ Worker("flag")
  /\ Goto("worker", "epoll_wait")
  /\ UNCHANGED <<notified, mode, eventfd, lock, signalled, harvest>>

Flag ==
  /\ Worker("flag")
  /\ Goto("worker", IF notified THEN "leave" ELSE "epoll_wait")
  /\ UNCHANGED <<notified, mode, eventfd, lock, signalled, harvest>>

\* epoll_wait returns: for the eventfd, or for a socket, a deadline, a timeout.
Harvest ==
  /\ Worker("epoll_wait")
  /\ harvest' = eventfd
  /\ Goto("worker", "polled")
  /\ UNCHANGED <<notified, mode, eventfd, lock, signalled>>

\* A busy worker polls without waiting.
PollReady ==
  /\ Worker("run")
  /\ harvest' = eventfd
  /\ Goto("worker", "polled")
  /\ UNCHANGED <<notified, mode, eventfd, lock, signalled>>

Awoken ==
  /\ Worker("polled")
  /\ Goto("worker", IF mode = "epoll" THEN "drain" ELSE "drain ready")
  /\ mode' = "none"
  /\ UNCHANGED <<notified, eventfd, lock, signalled, harvest>>

\* The eventfd is emptied if it was among the events.
Drain ==
  /\ pc["worker"] \in {"drain", "drain ready"}
  /\ eventfd' = (eventfd /\ ~harvest) /\ harvest' = FALSE
  /\ Goto("worker", IF Worker("drain") THEN "leave" ELSE "run")
  /\ UNCHANGED <<notified, mode, lock, signalled>>

Leave ==
  /\ Worker("leave")
  /\ mode' = "none"
  /\ Goto("worker", "consume")
  /\ UNCHANGED <<notified, eventfd, lock, signalled, harvest>>

\* Back to the queues: whatever a notify before this swap announced is there.
Consume ==
  /\ Worker("consume")
  /\ notified' = FALSE
  /\ Goto("worker", "run")
  /\ UNCHANGED <<mode, eventfd, lock, signalled, harvest>>

Next ==
  \/ \E n \in Notifier : Swap(n) \/ ReadMode(n) \/ Signal(n) \/ Write(n)
  \/ ParkFutex \/ Check \/ Sleep \/ Awake \/ TimedOut
  \/ ParkEpoll \/ Flag \/ Harvest \/ PollReady \/ Awoken \/ Drain
  \/ Leave \/ Consume

Spec == Init /\ [][Next]_vars

(***************************************************************************)
(* Fairness.  A notify that has begun is finished, a worker keeps running, *)
(* and a wait ends when its condvar is signalled or its eventfd is set.    *)
(* Nothing else has to end a wait: the timeout is not relied on.           *)
(***************************************************************************)
Fairness ==
  /\ \A n \in Notifier : WF_vars(ReadMode(n) \/ Signal(n) \/ Write(n))
  /\ WF_vars(\/ Check \/ Sleep \/ Flag \/ Awoken \/ Drain \/ Leave \/ Consume
             \/ signalled /\ Awake
             \/ eventfd /\ Harvest)

FairSpec == Spec /\ Fairness

-----------------------------------------------------------------------------
(* Properties                                                              *)

\* Every variable has its type, and the worker sleeps in the mode it says.
TypeOK ==
  /\ {notified, eventfd, signalled, harvest} \subseteq BOOLEAN
  /\ mode \in Mode /\ lock \in {"worker", Nobody}
  /\ pc = [p \in Notifier \cup {"worker"} |-> pc[p]]
  /\ \A n \in Notifier : pc[n] \in {"run", "read", "futex", "epoll"}
  /\ pc["worker"] \in {"run", "check", "wait", "asleep", "flag", "epoll_wait", "polled",
                       "drain", "drain ready", "leave", "consume"}
  /\ pc["worker"] \in {"check", "wait", "asleep"} => mode = "futex"
  /\ pc["worker"] \in {"flag", "epoll_wait"} => mode = "epoll"
  /\ lock = "worker" <=> pc["worker"] \in {"check", "wait"}

\* No notify is lost: a worker that waits on a pending notify is on its way
\* out, or the notifier whose swap was the first has yet to knock.
NoLostNotify ==
  notified =>
    /\ Worker("asleep") => signalled \/ \E n \in Notifier : pc[n] \in {"read", "futex"}
    /\ Worker("epoll_wait") => eventfd \/ \E n \in Notifier : pc[n] \in {"read", "epoll"}

\* A notify gets the worker out of its wait, whichever the door and whatever
\* other notifies and timeouts race with it, without the timeout's help.
NotifyWakes ==
  (notified /\ pc["worker"] \in {"wait", "asleep", "epoll_wait"}) ~> Worker("run")
=============================================================================
