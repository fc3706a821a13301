------------------------------- MODULE WorldStop -------------------------------
(***************************************************************************)
(* The cycle collector's rendezvous with the mutators (cycle.rs): the      *)
(* thread that collects sets GC_STOP and reads the mutators' slots one by  *)
(* one until none says `running`, or gives up; a mutator parks at a gate   *)
(* and at the exit of a native bracket.  A collection may be forced, and   *)
(* the caller waits for it in a bracket of its own.  A step is one access  *)
(* to a slot or to GC_STOP, or one section under GC_GATE, the registry's   *)
(* lock or GC_CTRL.  A mutator is a slot of the registry; a new thread     *)
(* takes the slot of one that has exited.                                  *)
(***************************************************************************)
EXTENDS Naturals, FiniteSets

CONSTANTS
  Mutator,
  Main,       \* the mutator that is there from the start
  Nobody,
  MaxForce,   \* bound on the forced collections
  MaxExtra    \* bound on the collections that nobody forces

WorldAssumption ==
  Main \in Mutator /\ Nobody \notin Mutator /\ MaxForce \in Nat /\ MaxExtra \in Nat

VARIABLES
  slot,        \* MutatorSlot.state
  pc,          \* where the mutator is
  gcStop,      \* GC_STOP
  ctrl,        \* who holds GC_CTRL across steps
  pending, done, lastOk,    \* GcControl
  seq,         \* the forced request a mutator waits for
  cpc,         \* where the collector is
  toScan,      \* slots the scan has yet to read
  goal, ok,    \* the collector's force_goal, and whether the world stopped
  expired,     \* the stop's deadline has passed
  extra,       \* collections started at the threshold
  late         \* mutators that were leaving a park when the request was made,
               \* and those they spawn

mVars == <<slot, pc, ctrl, pending, seq>>
cVars == <<cpc, toScan, goal, ok, expired, extra, late>>
vars == <<slot, pc, gcStop, ctrl, pending, done, lastOk, seq, cVars>>

Init ==
  /\ slot = [m \in Mutator |-> IF m = Main THEN "running" ELSE "exited"]
  /\ pc = [m \in Mutator |-> IF m = Main THEN "run" ELSE "gone"]
  /\ gcStop = FALSE /\ ctrl = Nobody
  /\ pending = 0 /\ done = 0 /\ lastOk = FALSE
  /\ seq = [m \in Mutator |-> 0]
  /\ cpc = "wait" /\ toScan = {} /\ goal = 0 /\ ok = FALSE
  /\ expired = FALSE /\ extra = 0 /\ late = {}

At(m, l) == pc[m] = l
Goto(m, l) == pc' = [pc EXCEPT ![m] = l]
Set(m, s) == slot' = [slot EXCEPT ![m] = s]

\* The scan holds the registry's lock from its first slot to its last.
Scanning == cpc = "scan"

-----------------------------------------------------------------------------
(* Mutators                                                                *)

SpawnUnseen(m, c) ==    \* a mutant
  /\ At(m, "run") /\ At(c, "gone") /\ ~Scanning
  /\ Goto(c, "born")
  /\ UNCHANGED <<slot, gcStop, ctrl, pending, done, lastOk, seq, cVars>>

\* mutator_slot_for_spawn: the parent registers the slot, before the thread is.
\* A reused slot begins anew: the thread in it is late if its parent is.
Spawn(m, c) ==
  /\ At(m, "run") /\ At(c, "gone") /\ ~Scanning
  /\ Set(c, "running") /\ Goto(c, "born")
  /\ late' = IF m \in late THEN late \cup {c} ELSE late \ {c}
  /\ UNCHANGED <<gcStop, ctrl, pending, done, lastOk, seq, cpc, toScan, goal, ok, expired, extra>>

\* adopt_mutator_slot, the first thing the thread does.
Adopt(m) ==
  /\ At(m, "born")
  /\ Goto(m, "run")
  /\ UNCHANGED <<slot, gcStop, ctrl, pending, done, lastOk, seq, cVars>>

\* The slot's owner is dropped as the thread ends.
Exit(m) ==
  /\ At(m, "run") /\ m # Main
  /\ Set(m, "exited") /\ Goto(m, "gone")
  /\ UNCHANGED <<gcStop, ctrl, pending, done, lastOk, seq, cVars>>

\* mutator_gate: the thread stands still, and parks if it is asked to.
Gate(m) ==
  /\ At(m, "run") /\ gcStop
  /\ Goto(m, "park")
  /\ UNCHANGED <<slot, gcStop, ctrl, pending, done, lastOk, seq, cVars>>

EnterNative(m) ==
  /\ At(m, "run")
  /\ Set(m, "native") /\ Goto(m, "native")
  /\ UNCHANGED <<gcStop, ctrl, pending, done, lastOk, seq, cVars>>

ExitNativeChecked(m) ==    \* a mutant
  /\ At(m, "native") /\ ~gcStop
  /\ Goto(m, "back")
  /\ UNCHANGED <<slot, gcStop, ctrl, pending, done, lastOk, seq, cVars>>

\* exit_native: running first ...
ExitNative(m) ==
  /\ At(m, "native")
  /\ Set(m, "running") /\ Goto(m, "back")
  /\ UNCHANGED <<gcStop, ctrl, pending, done, lastOk, seq, cVars>>

\* ... and then the request.
Recheck(m) ==
  /\ At(m, "back")
  /\ Goto(m, IF gcStop THEN "park" ELSE "run")
  /\ UNCHANGED <<slot, gcStop, ctrl, pending, done, lastOk, seq, cVars>>

\* park_for_gc
Park(m) ==
  /\ At(m, "park")
  /\ Set(m, "parked") /\ Goto(m, "parked")
  /\ UNCHANGED <<gcStop, ctrl, pending, done, lastOk, seq, cVars>>

\* The request is read under GC_GATE, on entry and after each wake.
CheckGate(m) ==
  /\ At(m, "parked")
  /\ Goto(m, IF gcStop THEN "waiting" ELSE "leaving")
  /\ UNCHANGED <<slot, gcStop, ctrl, pending, done, lastOk, seq, cVars>>

\* A condvar may wake a thread for nothing.
Spurious(m) ==
  /\ At(m, "waiting")
  /\ Goto(m, "parked")
  /\ UNCHANGED <<slot, gcStop, ctrl, pending, done, lastOk, seq, cVars>>

\* The gate is let go of, and the slot says so afterwards.
Leave(m) ==
  /\ At(m, "leaving")
  /\ Set(m, "running") /\ Goto(m, "run")
  /\ UNCHANGED <<gcStop, ctrl, pending, done, lastOk, seq, cVars>>

-----------------------------------------------------------------------------
(* pith_cycle_gc_collect_now                                               *)

Ask(m) ==
  /\ At(m, "run") /\ ctrl = Nobody /\ pending < MaxForce
  /\ pending' = pending + 1
  /\ seq' = [seq EXCEPT ![m] = pending + 1]
  /\ ctrl' = m /\ Goto(m, "ask")
  /\ UNCHANGED <<slot, gcStop, done, lastOk, cVars>>

\* The bracket is entered, and the condvar lets go of the lock.
Await(m) ==
  /\ At(m, "ask")
  /\ Set(m, "native")
  /\ ctrl' = Nobody /\ Goto(m, "await")
  /\ UNCHANGED <<gcStop, pending, done, lastOk, seq, cVars>>

\* The attempt is over: the lock goes before the bracket is left.
Answered(m) ==
  /\ At(m, "await") /\ ctrl = Nobody /\ done >= seq[m]
  /\ Goto(m, "native")
  /\ UNCHANGED <<slot, gcStop, ctrl, pending, done, lastOk, seq, cVars>>

-----------------------------------------------------------------------------
(* The collector: collector_main and with_world_stopped                    *)

\* wait_for_work: a forced request, or the suspects crossed the threshold.
WaitForWork ==
  /\ cpc = "wait" /\ ctrl = Nobody
  /\ \/ pending > done /\ UNCHANGED extra
     \/ pending = done /\ extra < MaxExtra /\ extra' = extra + 1
  /\ goal' = pending /\ cpc' = "request"
  /\ UNCHANGED <<mVars, gcStop, done, lastOk, toScan, ok, expired, late>>

RequestStop ==
  /\ cpc = "request"
  /\ gcStop' = TRUE /\ expired' = FALSE
  /\ late' = {m \in Mutator : At(m, "leaving")}
  /\ cpc' = "scan" /\ toScan' = Mutator
  /\ UNCHANGED <<mVars, done, lastOk, goal, ok, extra>>

Deadline ==
  /\ cpc \in {"scan", "retry"} /\ ~expired
  /\ expired' = TRUE
  /\ UNCHANGED <<mVars, gcStop, done, lastOk, cpc, toScan, goal, ok, extra, late>>

\* world_is_stopped reads one slot after the other.
Scan(m) ==
  /\ cpc = "scan" /\ m \in toScan
  /\ toScan' = toScan \ {m}
  /\ cpc' = CASE slot[m] = "running" -> "retry"
              [] slot[m] # "running" /\ toScan = {m} -> "collect"
              [] OTHER -> "scan"
  /\ UNCHANGED <<mVars, gcStop, done, lastOk, goal, ok, expired, extra, late>>

\* Some mutator runs: look again, until the deadline.
Rescan ==
  /\ cpc = "retry" /\ ~expired
  /\ cpc' = "scan" /\ toScan' = Mutator
  /\ UNCHANGED <<mVars, gcStop, done, lastOk, goal, ok, expired, extra, late>>

GiveUp ==
  /\ cpc = "retry" /\ expired
  /\ cpc' = "release" /\ ok' = FALSE
  /\ UNCHANGED <<mVars, gcStop, done, lastOk, toScan, goal, expired, extra, late>>

Collect ==
  /\ cpc = "collect"
  /\ cpc' = "release" /\ ok' = TRUE
  /\ UNCHANGED <<mVars, gcStop, done, lastOk, toScan, goal, expired, extra, late>>

ReleaseQuietly ==    \* a mutant
  /\ cpc = "release"
  /\ gcStop' = FALSE /\ late' = {}
  /\ cpc' = "finish"
  /\ UNCHANGED <<mVars, done, lastOk, toScan, goal, ok, expired, extra>>

\* release_the_world: under GC_GATE the request goes and the parked are woken.
Release ==
  /\ cpc = "release"
  /\ gcStop' = FALSE /\ late' = {}
  /\ pc' = [m \in Mutator |-> IF At(m, "waiting") THEN "parked" ELSE pc[m]]
  /\ cpc' = "finish"
  /\ UNCHANGED <<slot, ctrl, pending, seq, done, lastOk, toScan, goal, ok, expired, extra>>

\* finish_forced: the requests this attempt covered are answered.
Finish ==
  /\ cpc = "finish" /\ ctrl = Nobody
  /\ IF goal > done THEN done' = goal /\ lastOk' = ok ELSE UNCHANGED <<done, lastOk>>
  /\ cpc' = "wait"
  /\ UNCHANGED <<mVars, gcStop, toScan, goal, ok, expired, extra, late>>

Next ==
  \/ \E m, c \in Mutator : Spawn(m, c)
  \/ \E m \in Mutator :
       \/ Adopt(m) \/ Exit(m) \/ Gate(m)
       \/ EnterNative(m) \/ ExitNative(m) \/ Recheck(m)
       \/ Park(m) \/ CheckGate(m) \/ Spurious(m) \/ Leave(m)
       \/ Ask(m) \/ Await(m) \/ Answered(m)
  \/ WaitForWork \/ RequestStop \/ (\E m \in Mutator : Scan(m))
  \/ Deadline \/ Rescan \/ GiveUp \/ Collect \/ Release \/ Finish

Spec == Init /\ [][Next]_vars

(***************************************************************************)
(* Fairness.  The collector's thread runs, its deadline passes, and a      *)
(* forced request is work; a mutator that was asked to stop or told to go  *)
(* on does so.  A mutator that runs need never come to a gate, and a       *)
(* bracket need never end.                                                 *)
(***************************************************************************)
Fairness ==
  /\ WF_vars(\/ pending > done /\ WaitForWork
             \/ RequestStop \/ (\E m \in Mutator : Scan(m))
             \/ Rescan \/ GiveUp \/ Collect \/ Release \/ Finish)
  /\ WF_vars(Deadline)
  /\ \A m \in Mutator :
       WF_vars(Recheck(m) \/ Park(m) \/ CheckGate(m) \/ Leave(m) \/ Await(m) \/ Answered(m))

FairSpec == Spec /\ Fairness

-----------------------------------------------------------------------------
(* Properties                                                              *)

\* Every variable has its type.
TypeOK ==
  /\ slot \in [Mutator -> {"running", "native", "parked", "exited"}]
  /\ pc \in [Mutator -> {"gone", "born", "run", "native", "back", "park", "parked",
                         "waiting", "leaving", "ask", "await"}]
  /\ {gcStop, lastOk, ok, expired} \subseteq BOOLEAN /\ ctrl \in Mutator \cup {Nobody}
  /\ pending \in 0..MaxForce /\ done \in 0..pending /\ goal \in 0..pending
  /\ seq \in [Mutator -> 0..MaxForce] /\ extra \in 0..MaxExtra
  /\ cpc \in {"wait", "request", "scan", "retry", "collect", "release", "finish"}
  /\ toScan \subseteq Mutator /\ late \subseteq Mutator

\* Nobody moves a reference count while a collection reads and rewrites them.
WorldStopped == cpc = "collect" => \A m \in Mutator : pc[m] \notin {"born", "run", "ask"}

\* Nobody but a thread that was on its way out of the park before.
StoppedButLate ==
  cpc = "collect" => \A m \in Mutator \ late : pc[m] \notin {"born", "run", "ask"}

\* A forced collection is answered, and whoever parked for one goes on: the
\* last stop request leaves nobody behind.
ForcedReturns ==
  \A m \in Mutator : pc[m] \in {"ask", "await", "parked", "waiting"} ~> At(m, "run") \/ At(m, "native")
=============================================================================
