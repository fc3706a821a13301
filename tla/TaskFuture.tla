----------------------------- MODULE TaskFuture ------------------------------
(***************************************************************************)
(* What a green task handle promises to the code that holds it, with no    *)
(* scheduler in sight: a handle is spawned once, its task completes once,  *)
(* an await returns only after completion, the first await (or a detach)   *)
(* consumes the handle, and the result goes to at most one await; every    *)
(* other await of it answers 0.                                            *)
(***************************************************************************)
EXTENDS Naturals

CONSTANTS
  Handle,      \* every handle that may ever be issued
  Awaiter,     \* whoever may be inside an await
  NoHandle     \* no handle: the awaiter is in no await

VARIABLES
  status,      \* of each handle
  want,        \* the handle an awaiter is waiting on
  takes        \* how often the result of a handle was handed out

vars == <<status, want, takes>>

Init ==
  /\ status = [h \in Handle |-> "unborn"]
  /\ want = [x \in Awaiter |-> NoHandle]
  /\ takes = [h \in Handle |-> 0]

Spawn(h) ==
  /\ status[h] = "unborn"
  /\ status' = [status EXCEPT ![h] = "pending"]
  /\ UNCHANGED <<want, takes>>

Complete(h) ==
  /\ status[h] = "pending"
  /\ status' = [status EXCEPT ![h] = "done"]
  /\ UNCHANGED <<want, takes>>

\* Detached, before or after it completed.
Release(h) ==
  /\ status[h] = "done"
  /\ status' = [status EXCEPT ![h] = "gone"]
  /\ UNCHANGED <<want, takes>>

Await(x, h) ==
  /\ want[x] = NoHandle /\ status[h] # "unborn"
  /\ want' = [want EXCEPT ![x] = h]
  /\ UNCHANGED <<status, takes>>

\* The first awaiter consumes the handle; a task that panicked has no result.
Answer(x) ==
  LET h == want[x]
  IN  /\ h # NoHandle /\ status[h] = "done"
      /\ status' = [status EXCEPT ![h] = "gone"]
      /\ \/ takes' = [takes EXCEPT ![h] = @ + 1]
         \/ UNCHANGED takes
      /\ want' = [want EXCEPT ![x] = NoHandle]

AnswerZero(x) ==
  /\ want[x] # NoHandle /\ status[want[x]] = "gone"
  /\ want' = [want EXCEPT ![x] = NoHandle]
  /\ UNCHANGED <<status, takes>>

Next ==
  \/ \E h \in Handle : Spawn(h) \/ Complete(h) \/ Release(h)
  \/ \E x \in Awaiter : \/ Answer(x) \/ AnswerZero(x)
                        \/ \E h \in Handle : Await(x, h)

Spec == Init /\ [][Next]_vars
=============================================================================
