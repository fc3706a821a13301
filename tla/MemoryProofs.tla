----------------------------- MODULE MemoryProofs -----------------------------
(***************************************************************************)
(* Theorems about the behaviours of MCMemory, where a struct's counts and  *)
(* the stop of the world stand side by side.  Each part's steps leave the  *)
(* other's variables alone, so that what StructCountProofs shows of the    *)
(* counts holds here too.  The stop of the world is proved here: the       *)
(* types, and that a collection finds nobody running but those who were on *)
(* their way out of an earlier park when the stop was asked for (cycle.rs, *)
(* with_world_stopped and park_for_gc).                                    *)
(***************************************************************************)
EXTENDS MCMemory, Naturals, TLAPS

CountProofs == INSTANCE StructCountProofs WITH Task <- Sharer, pc <- cPc

-----------------------------------------------------------------------------
(* A struct's counts: StructCountProofs is about the module MCMemory       *)
(* instantiates.                                                           *)

\* The next-state relation of a struct's counts is the proved one ...
LEMMA SameCounts == [C!Next]_C!vars => [CountProofs!Next]_CountProofs!vars
BY DEF C!Next, C!vars, C!header, C!Goto, C!At, C!Retain, C!WeakRetain, C!UpgradeFlags,
       C!Upgrade, C!WeakRelease, C!DropLoad, C!DropSub, C!LoadStrong, C!LoadWeak,
       C!Suspect, C!Mark, C!TakeWeak, C!Queue, C!Discard, C!Down, C!Destroy, C!BindSelf,
       C!Died, C!SetDead, C!Drain, CountProofs!Next, CountProofs!vars,
       CountProofs!header, CountProofs!Goto, CountProofs!At, CountProofs!Retain,
       CountProofs!WeakRetain, CountProofs!UpgradeFlags, CountProofs!Upgrade,
       CountProofs!WeakRelease, CountProofs!DropLoad, CountProofs!DropSub,
       CountProofs!LoadStrong, CountProofs!LoadWeak, CountProofs!Suspect,
       CountProofs!Mark, CountProofs!TakeWeak, CountProofs!Queue, CountProofs!Discard,
       CountProofs!Down, CountProofs!Destroy, CountProofs!BindSelf, CountProofs!Died,
       CountProofs!SetDead, CountProofs!Drain

\* ... so that a behaviour of the two is one of a struct's counts ...
LEMMA CountPart == MemorySpec => CountProofs!Spec
<1>1. MemoryInit => CountProofs!Init
  BY DEF MemoryInit, C!Init, CountProofs!Init
<1>2. [MemoryNext]_<<part, cVars, wVars>> => [C!Next]_C!vars
  BY DEF MemoryNext, cVars, C!vars
<1> QED
  BY <1>1, <1>2, SameCounts, PTL DEF MemorySpec, CountProofs!Spec

\* ... whose constants are what the theorems about it assume.
LEMMA CountsBounded == CountProofs!CountAssumption
BY MemoryBounds DEF C!CountAssumption, C!IsFiniteSet, C!Cardinality,
   CountProofs!CountAssumption, CountProofs!IsFiniteSet, CountProofs!Cardinality

-----------------------------------------------------------------------------

\* The destructor of a struct runs once, when nobody owns the struct any more,
\* whichever tasks retain, release, upgrade and suspect it at once
\* (pith_struct_release, pith_struct_weak_upgrade).  Without the hypothesis it
\* fails: a sole owner skips its decrement after reading the weak count.
THEOREM DestroyedByLastHere ==
  ASSUME EarlyDrop = FALSE
  PROVE  MemorySpec => []DestroyedByLast
<1>1. CountProofs!Spec => []CountProofs!DestroyedByLast
  BY CountsBounded, CountProofs!DestroyedByLastAlways
<1>2. CountProofs!DestroyedByLast => DestroyedByLast
  BY DEF DestroyedByLast, C!DestroyedByLast, C!At,
         CountProofs!DestroyedByLast, CountProofs!At
<1> QED
  BY <1>1, <1>2, CountPart, PTL

\* A struct's header is freed by the last of its owner, its weak references,
\* the suspect buffer's entry and the releases under way: not before and not
\* after (struct_weak_drop, discard_suspect, the collector's drain).
THEOREM HeaderHeldHere ==
  ASSUME EarlyDrop = FALSE
  PROVE  MemorySpec => []HeaderHeld
<1>1. CountProofs!Spec => []CountProofs!HeaderHeld
  BY CountsBounded, CountProofs!HeaderHeldAlways
<1>2. CountProofs!HeaderHeld => HeaderHeld
  BY DEF HeaderHeld, C!HeaderHeld, C!At, CountProofs!HeaderHeld, CountProofs!At
<1> QED
  BY <1>1, <1>2, CountPart, PTL

-----------------------------------------------------------------------------
(* The stop of the world.                                                  *)

\* Main is a mutator, and the bounds are numbers.
LEMMA StopBounded == W!WorldAssumption
BY MemoryBounds

\* What a slot says follows from where its mutator is; in particular somebody
\* on the way out of a park still says `parked`.
SlotOf(l) ==
  CASE l = "gone" -> "exited"
    [] l \in {"native", "await"} -> "native"
    [] l \in {"parked", "waiting", "leaving"} -> "parked"
    [] OTHER -> "running"

SlotsTrue == \A m \in Mutator : wSlot[m] = SlotOf(wPc[m])

\* GC_STOP is up from the request to the release.
StopUp == gcStop <=> cpc \in {"scan", "retry", "collect", "release"}

\* While it is up nobody passes the check under the gate, so that who leaves a
\* park then was already leaving when it was raised.
LeavingLate == gcStop => \A m \in Mutator : W!At(m, "leaving") => m \in late

\* A collection begins when every slot has been read.
ScannedAll == cpc = "collect" => toScan = {}

\* Whoever was read as not running stays off the mutators' code until the
\* release: brackets and parks are left through a look at GC_STOP, and a slot
\* is handed to a new thread only by somebody who runs.
ReadStands ==
  cpc \in {"scan", "collect"} =>
    \A m \in Mutator : m \notin toScan /\ m \notin late =>
      wPc[m] \notin {"born", "run", "ask", "leaving"}

\* The inductive invariant.
StopInv == W!TypeOK /\ SlotsTrue /\ StopUp /\ LeavingLate /\ ScannedAll /\ ReadStands

-----------------------------------------------------------------------------

\* Initially only the main thread runs, and no stop has been asked for.
LEMMA StopInvInit == ASSUME W!WorldAssumption PROVE W!Init => StopInv
<1>. SUFFICES ASSUME W!Init PROVE StopInv OBVIOUS
<1>1. W!TypeOK
  <2>1. {gcStop, lastOk, ok, expired} \subseteq BOOLEAN BY DEF W!Init
  <2>2. /\ pending \in 0..MaxForce /\ done \in 0..pending /\ goal \in 0..pending
        /\ extra \in 0..MaxExtra
    BY DEF W!Init, W!WorldAssumption
  <2>3. seq \in [Mutator -> 0..MaxForce] BY DEF W!Init, W!WorldAssumption
  <2>. QED BY <2>1, <2>2, <2>3 DEF W!Init, W!TypeOK
<1>2. SlotsTrue BY DEF W!Init, SlotsTrue, SlotOf
<1>3. StopUp /\ LeavingLate /\ ScannedAll /\ ReadStands
  BY DEF W!Init, StopUp, LeavingLate, ScannedAll, ReadStands
<1>. QED BY <1>1, <1>2, <1>3 DEF StopInv

\* Every step keeps the types: the two counters of requests are bounded, and
\* the one that is answered never overtakes the one that is asked.
LEMMA StopTypesKept ==
  ASSUME W!WorldAssumption, W!TypeOK, [W!Next]_W!vars PROVE W!TypeOK'
<1>. USE DEF W!TypeOK, W!WorldAssumption, W!At, W!Goto, W!Set
<1>1. ASSUME NEW m \in Mutator, NEW c \in Mutator, W!Spawn(m, c) PROVE W!TypeOK'
  BY <1>1 DEF W!Spawn, W!cVars
<1>2. ASSUME NEW m \in Mutator,
             \/ W!Adopt(m) \/ W!Exit(m) \/ W!Gate(m)
             \/ W!EnterNative(m) \/ W!ExitNative(m) \/ W!Recheck(m)
      PROVE W!TypeOK'
  BY <1>2 DEF W!Adopt, W!Exit, W!Gate, W!EnterNative, W!ExitNative, W!Recheck, W!cVars
<1>3. ASSUME NEW m \in Mutator,
             W!Park(m) \/ W!CheckGate(m) \/ W!Spurious(m) \/ W!Leave(m)
      PROVE W!TypeOK'
  BY <1>3 DEF W!Park, W!CheckGate, W!Spurious, W!Leave, W!cVars
<1>4. ASSUME NEW m \in Mutator, W!Ask(m) PROVE W!TypeOK'
  BY <1>4 DEF W!Ask, W!cVars
<1>5. ASSUME NEW m \in Mutator, W!Await(m) \/ W!Answered(m) PROVE W!TypeOK'
  BY <1>5 DEF W!Await, W!Answered, W!cVars
<1>6. CASE W!WaitForWork BY <1>6 DEF W!WaitForWork, W!mVars
<1>7. CASE W!RequestStop BY <1>7 DEF W!RequestStop, W!mVars
<1>8. ASSUME NEW m \in Mutator, W!Scan(m) PROVE W!TypeOK'
  BY <1>8 DEF W!Scan, W!mVars
<1>9. CASE W!Deadline \/ W!Rescan \/ W!GiveUp \/ W!Collect
  BY <1>9 DEF W!Deadline, W!Rescan, W!GiveUp, W!Collect, W!mVars
<1>10. CASE W!Release BY <1>10 DEF W!Release
<1>11. CASE W!Finish BY <1>11 DEF W!Finish, W!mVars
<1>12. CASE UNCHANGED W!vars BY <1>12 DEF W!vars, W!cVars
<1>. QED BY <1>1, <1>2, <1>3, <1>4, <1>5, <1>6, <1>7, <1>8, <1>9, <1>10, <1>11, <1>12 DEF W!Next

\* Every step of a mutator keeps the rest: it leaves GC_STOP, the phase of the
\* collector and its scan alone.
LEMMA MutatorKeeps ==
  ASSUME W!WorldAssumption, StopInv,
         NEW m \in Mutator, NEW l,
         W!Goto(m, l), wSlot' = [wSlot EXCEPT ![m] = SlotOf(l)],
         UNCHANGED <<gcStop, cpc, toScan, late>>,
         gcStop => l # "leaving" \/ m \in late,
         l \in {"born", "run", "ask", "leaving"} =>
           wPc[m] \in {"born", "run", "ask", "leaving"} \/ ~gcStop
  PROVE  (SlotsTrue /\ StopUp /\ LeavingLate /\ ScannedAll /\ ReadStands)'
<1>. USE DEF StopInv, W!TypeOK, W!At, W!Goto
<1>1. SlotsTrue' BY DEF SlotsTrue
<1>2. StopUp' /\ ScannedAll' BY DEF StopUp, ScannedAll
<1>3. LeavingLate' BY DEF LeavingLate
<1>4. ReadStands' BY DEF ReadStands, StopUp
<1>. QED BY <1>1, <1>2, <1>3, <1>4

\* Every step keeps the rest of the invariant.
LEMMA StopRestKept ==
  ASSUME W!WorldAssumption, StopInv, [W!Next]_W!vars
  PROVE  (SlotsTrue /\ StopUp /\ LeavingLate /\ ScannedAll /\ ReadStands)'
<1>. DEFINE Rest == SlotsTrue /\ StopUp /\ LeavingLate /\ ScannedAll /\ ReadStands
<1>. USE DEF StopInv, W!At
<1>1. ASSUME NEW m \in Mutator, NEW c \in Mutator, W!Spawn(m, c) PROVE Rest'
  \* While slots are read, or a collection goes on, only a late mutator spawns.
  <2>. USE <1>1 DEF W!Spawn, W!Goto, W!Set, W!TypeOK
  <2>1. SlotsTrue' BY DEF SlotsTrue, SlotOf
  <2>2. StopUp' /\ ScannedAll' BY DEF StopUp, ScannedAll
  <2>3. LeavingLate' BY DEF LeavingLate
  <2>4. ReadStands' BY DEF ReadStands, W!Scanning, ScannedAll
  <2>. QED BY <2>1, <2>2, <2>3, <2>4
<1>2. ASSUME NEW m \in Mutator, W!Adopt(m) \/ W!Gate(m) \/ W!Recheck(m) \/ W!Ask(m) PROVE Rest'
  <2>1. PICK l \in {"run", "park", "ask"} :
          /\ W!Goto(m, l) /\ wSlot' = wSlot
          /\ SlotOf(wPc[m]) = "running"
          /\ l \in {"run", "ask"} => wPc[m] \in {"born", "run"} \/ ~gcStop
    BY <1>2 DEF W!Adopt, W!Gate, W!Recheck, W!Ask, SlotOf, W!Goto
  <2>2. wSlot' = [wSlot EXCEPT ![m] = SlotOf(l)]
    BY <2>1 DEF SlotOf, SlotsTrue, W!TypeOK
  <2>3. UNCHANGED <<gcStop, cpc, toScan, late>>
    BY <1>2 DEF W!Adopt, W!Gate, W!Recheck, W!Ask, W!cVars
  <2>. QED BY <2>1, <2>2, <2>3, MutatorKeeps
<1>3. ASSUME NEW m \in Mutator, W!Exit(m) PROVE Rest'
  <2>1. W!Goto(m, "gone") /\ wSlot' = [wSlot EXCEPT ![m] = SlotOf("gone")]
        /\ UNCHANGED <<gcStop, cpc, toScan, late>>
    BY <1>3 DEF W!Exit, W!Set, SlotOf, W!cVars
  <2>. QED BY <2>1, MutatorKeeps
<1>4. ASSUME NEW m \in Mutator, W!EnterNative(m) \/ W!Answered(m) PROVE Rest'
  <2>1. W!Goto(m, "native") /\ wSlot' = [wSlot EXCEPT ![m] = SlotOf("native")]
        /\ UNCHANGED <<gcStop, cpc, toScan, late>>
    BY <1>4 DEF W!EnterNative, W!Answered, W!Set, SlotOf, SlotsTrue, W!TypeOK, W!cVars
  <2>. QED BY <2>1, MutatorKeeps
<1>5. ASSUME NEW m \in Mutator, W!Await(m) PROVE Rest'
  <2>1. W!Goto(m, "await") /\ wSlot' = [wSlot EXCEPT ![m] = SlotOf("await")]
        /\ UNCHANGED <<gcStop, cpc, toScan, late>>
    BY <1>5 DEF W!Await, W!Set, SlotOf, W!cVars
  <2>. QED BY <2>1, MutatorKeeps
<1>6. ASSUME NEW m \in Mutator, W!ExitNative(m) PROVE Rest'
  <2>1. W!Goto(m, "back") /\ wSlot' = [wSlot EXCEPT ![m] = SlotOf("back")]
        /\ UNCHANGED <<gcStop, cpc, toScan, late>>
    BY <1>6 DEF W!ExitNative, W!Set, SlotOf, W!cVars
  <2>. QED BY <2>1, MutatorKeeps
<1>7. ASSUME NEW m \in Mutator, W!Park(m) \/ W!Spurious(m) PROVE Rest'
  <2>1. W!Goto(m, "parked") /\ wSlot' = [wSlot EXCEPT ![m] = SlotOf("parked")]
        /\ UNCHANGED <<gcStop, cpc, toScan, late>>
    BY <1>7 DEF W!Park, W!Spurious, W!Set, SlotOf, SlotsTrue, W!TypeOK, W!cVars
  <2>. QED BY <2>1, MutatorKeeps
<1>8. ASSUME NEW m \in Mutator, W!CheckGate(m) PROVE Rest'
  \* Under the gate the request is seen.
  <2>1. PICK l \in {"waiting", "leaving"} : W!Goto(m, l) /\ (l = "leaving" => ~gcStop)
    BY <1>8 DEF W!CheckGate
  <2>2. wSlot' = [wSlot EXCEPT ![m] = SlotOf(l)] /\ UNCHANGED <<gcStop, cpc, toScan, late>>
    BY <1>8, <2>1 DEF W!CheckGate, SlotOf, SlotsTrue, W!TypeOK, W!cVars
  <2>. QED BY <2>1, <2>2, MutatorKeeps
<1>9. ASSUME NEW m \in Mutator, W!Leave(m) PROVE Rest'
  <2>1. W!Goto(m, "run") /\ wSlot' = [wSlot EXCEPT ![m] = SlotOf("run")]
        /\ wPc[m] = "leaving" /\ UNCHANGED <<gcStop, cpc, toScan, late>>
    BY <1>9 DEF W!Leave, W!Set, SlotOf, W!cVars
  <2>. QED BY <2>1, MutatorKeeps
<1>10. CASE W!WaitForWork \/ W!Deadline \/ W!GiveUp \/ W!Collect \/ W!Rescan \/ W!Finish
  BY <1>10 DEF W!WaitForWork, W!Deadline, W!GiveUp, W!Collect, W!Rescan, W!Finish, W!mVars,
               SlotsTrue, StopUp, LeavingLate, ScannedAll, ReadStands
<1>11. CASE W!RequestStop
  BY <1>11 DEF W!RequestStop, W!mVars, SlotsTrue, StopUp, LeavingLate, ScannedAll, ReadStands,
               W!TypeOK
<1>12. ASSUME NEW m \in Mutator, W!Scan(m) PROVE Rest'
  \* Who is not running is in a park, in a bracket, gone, or late.
  <2>. USE <1>12 DEF W!Scan, W!mVars, W!TypeOK
  <2>1. SlotsTrue' BY DEF SlotsTrue
  <2>2. StopUp' /\ LeavingLate' BY DEF StopUp, LeavingLate
  <2>3. ScannedAll' BY DEF ScannedAll
  <2>4. ReadStands'
    BY DEF ReadStands, SlotsTrue, SlotOf, StopUp, LeavingLate
  <2>. QED BY <2>1, <2>2, <2>3, <2>4
<1>13. CASE W!Release
  \* The waiting are woken, and nobody's slot changes.
  <2>. USE <1>13 DEF W!Release, W!TypeOK
  <2>1. SlotsTrue' BY DEF SlotsTrue, SlotOf
  <2>2. StopUp' /\ LeavingLate' /\ ScannedAll' /\ ReadStands'
    BY DEF StopUp, LeavingLate, ScannedAll, ReadStands
  <2>. QED BY <2>1, <2>2
<1>14. CASE UNCHANGED W!vars
  BY <1>14 DEF W!vars, W!cVars, SlotsTrue, StopUp, LeavingLate, ScannedAll, ReadStands
<1>. QED BY <1>1, <1>2, <1>3, <1>4, <1>5, <1>6, <1>7, <1>8, <1>9, <1>10, <1>11, <1>12,
            <1>13, <1>14 DEF W!Next

\* The invariant holds in every behaviour.
LEMMA StopInvAlways == MemorySpec => []StopInv
<1>1. MemoryInit => StopInv BY StopBounded, StopInvInit DEF MemoryInit
<1>2. StopInv /\ [MemoryNext]_<<part, cVars, wVars>> => StopInv'
  <2>1. [MemoryNext]_<<part, cVars, wVars>> => [W!Next]_W!vars
    BY DEF MemoryNext, wVars, W!vars, W!cVars
  <2>. QED BY <2>1, StopBounded, StopTypesKept, StopRestKept DEF StopInv
<1>. QED BY <1>1, <1>2, PTL DEF MemorySpec

-----------------------------------------------------------------------------

\* Every variable of the rendezvous keeps its type; in particular a request is
\* never answered before it was made (GcControl's pending and done).
THEOREM StopTypes == MemorySpec => []W!TypeOK
<1>1. StopInv => W!TypeOK BY DEF StopInv
<1>. QED BY <1>1, StopInvAlways, PTL

\* While a collection rewrites the counts no mutator runs, except one that was
\* leaving an earlier park when this stop was asked for, or that such a one has
\* spawned since: gates, brackets and spawns let nobody else through
\* (with_world_stopped, park_for_gc).
THEOREM StoppedButLateHere == MemorySpec => []StoppedButLate
<1>1. StopInv => StoppedButLate
  BY DEF StopInv, ScannedAll, ReadStands, StoppedButLate, W!StoppedButLate, W!At
<1>. QED BY <1>1, StopInvAlways, PTL
=============================================================================
