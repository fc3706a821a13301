----------------------------- MODULE StructCount -----------------------------
(***************************************************************************)
(* The counts in a struct's header (runtime_core.rs) with the cycle        *)
(* collector on: one shared struct, so its counts are atomic, and a step   *)
(* is one load or one read-modify-write of them.  A task holds at most one *)
(* strong count and one weak one.  The last strong release runs the        *)
(* destructor under a guard count; the value and every weak reference hold *)
(* the header.  A release that is not the last puts the struct, with a     *)
(* weak count of the buffer's own, among the collector's suspects; the     *)
(* collector empties the buffer while the world is stopped.                *)
(***************************************************************************)
EXTENDS Naturals, FiniteSets

CONSTANTS
  Task,
  DtorGuard,    \* STRUCT_DTOR_GUARD, 2^31: far above any real count
  EarlyDrop     \* a weak reference that was read may go before the value

CountAssumption ==
  /\ IsFiniteSet(Task) /\ EarlyDrop \in BOOLEAN
  /\ DtorGuard \in Nat /\ DtorGuard > 2 * Cardinality(Task) + 2

VARIABLES
  strong, weak,    \* the header's counts
  dead, buffered,  \* two bits of its flag word
  queued,          \* it is in SUSPECTS
  freed,           \* the allocation is gone
  destroyed,       \* how often the destructor began
  owners,          \* the tasks that hold a strong count
  readers,         \* the tasks that hold a weak reference ...
  used,            \* ... and have upgraded it
  nested,          \* tasks whose destructor's `drop` has bound self
  pc,
  back             \* where a weak drop returns to

header == <<strong, weak, dead, buffered>>
vars == <<strong, weak, dead, buffered, queued, freed, destroyed, owners,
          readers, used, nested, pc, back>>

\* A struct as its first owner has built it.
Init ==
  /\ strong = 1 /\ weak = 1 /\ dead = FALSE /\ buffered = FALSE
  /\ queued = FALSE /\ freed = FALSE /\ destroyed = 0
  /\ \E t \in Task : owners = {t}
  /\ readers = {} /\ used = {} /\ nested = {}
  /\ pc = [t \in Task |-> "idle"] /\ back = [t \in Task |-> "idle"]

Goto(t, l) == pc' = [pc EXCEPT ![t] = l]
At(t, l) == pc[t] = l

-----------------------------------------------------------------------------
(* pith_struct_retain, pith_struct_weak_retain, pith_struct_weak_upgrade   *)

\* An owner makes another one, itself the only party that can.
Retain(t, u) ==
  /\ At(t, "idle") /\ t \in owners /\ u \notin owners /\ At(u, "idle")
  /\ strong' = strong + 1 /\ owners' = owners \cup {u}
  /\ UNCHANGED <<weak, dead, buffered, queued, freed, destroyed, readers, used, nested, pc, back>>

WeakRetain(t, u) ==
  /\ At(t, "idle") /\ t \in owners \cup readers /\ u \notin readers /\ At(u, "idle")
  /\ weak' = weak + 1 /\ readers' = readers \cup {u}
  /\ UNCHANGED <<strong, dead, buffered, queued, freed, destroyed, owners, used, nested, pc, back>>

\* The dead bit first ...
UpgradeFlags(t) ==
  /\ At(t, "idle") /\ t \in readers \ owners /\ ~dead
  /\ Goto(t, "upgrade")
  /\ UNCHANGED <<header, queued, freed, destroyed, owners, readers, used, nested, back>>

UpgradeAnyway(t) ==    \* a mutant
  /\ At(t, "upgrade")
  /\ Goto(t, "idle")
  /\ IF strong > 0
       THEN strong' = strong + 1 /\ owners' = owners \cup {t} /\ used' = used \cup {t}
       ELSE UNCHANGED <<strong, owners, used>>
  /\ UNCHANGED <<weak, dead, buffered, queued, freed, destroyed, readers, nested, back>>

\* ... then one more owner, while the count is a live one.
Upgrade(t) ==
  /\ At(t, "upgrade")
  /\ Goto(t, "idle")
  /\ IF strong # 0 /\ strong < DtorGuard
       THEN strong' = strong + 1 /\ owners' = owners \cup {t} /\ used' = used \cup {t}
       ELSE UNCHANGED <<strong, owners, used>>
  /\ UNCHANGED <<weak, dead, buffered, queued, freed, destroyed, readers, nested, back>>

-----------------------------------------------------------------------------
(* struct_weak_drop                                                        *)

WeakRelease(t) ==
  /\ At(t, "idle") /\ t \in readers
  /\ EarlyDrop \/ t \notin used \/ destroyed > 0
  /\ readers' = readers \ {t} /\ used' = used \ {t}
  /\ Goto(t, "drop") /\ back' = [back EXCEPT ![t] = "idle"]
  /\ UNCHANGED <<header, queued, freed, destroyed, owners, nested>>

\* A count of one is the caller's alone: no decrement.
DropLoad(t) ==
  /\ At(t, "drop")
  /\ IF weak = 1 THEN freed' = TRUE /\ Goto(t, back[t])
                 ELSE UNCHANGED freed /\ Goto(t, "sub")
  /\ UNCHANGED <<header, queued, destroyed, owners, readers, used, nested, back>>

DropSub(t) ==
  /\ At(t, "sub")
  /\ weak' = weak - 1 /\ freed' = (freed \/ weak = 1)
  /\ Goto(t, back[t])
  /\ UNCHANGED <<strong, dead, buffered, queued, destroyed, owners, readers, used, nested, back>>

-----------------------------------------------------------------------------
(* struct_release                                                          *)

LoadStrongAlone(t) ==    \* a mutant
  /\ At(t, "idle") /\ t \in owners
  /\ Goto(t, IF strong = 1 THEN "destroy" ELSE "shared")
  /\ owners' = IF strong = 1 THEN owners \ {t} ELSE owners
  /\ UNCHANGED <<header, queued, freed, destroyed, readers, used, nested, back>>

\* The sole owner of a struct without weak references skips the decrement:
\* the strong count is read, ...
LoadStrong(t) ==
  /\ At(t, "idle") /\ t \in owners
  /\ Goto(t, IF strong = 1 THEN "weak" ELSE "shared")
  /\ UNCHANGED <<header, queued, freed, destroyed, owners, readers, used, nested, back>>

\* ... and then the weak one.
LoadWeak(t) ==
  /\ At(t, "weak")
  /\ Goto(t, IF weak = 1 THEN "destroy" ELSE "shared")
  /\ owners' = IF weak = 1 THEN owners \ {t} ELSE owners
  /\ UNCHANGED <<header, queued, freed, destroyed, readers, used, nested, back>>

\* maybe_suspect_struct, before the count is given up.
Suspect(t) ==
  /\ At(t, "shared")
  /\ Goto(t, IF strong > 1 THEN "mark" ELSE "down")
  /\ UNCHANGED <<header, queued, freed, destroyed, owners, readers, used, nested, back>>

MarkUncounted(t) ==    \* a mutant
  /\ At(t, "mark")
  /\ buffered' = TRUE
  /\ Goto(t, IF buffered THEN "down" ELSE "queue")
  /\ UNCHANGED <<strong, weak, dead, queued, freed, destroyed, owners, readers, used, nested, back>>

Mark(t) ==
  /\ At(t, "mark")
  /\ buffered' = TRUE
  /\ Goto(t, IF buffered THEN "down" ELSE "take")
  /\ UNCHANGED <<strong, weak, dead, queued, freed, destroyed, owners, readers, used, nested, back>>

TakeWeak(t) ==
  /\ At(t, "take")
  /\ weak' = weak + 1
  /\ Goto(t, "queue")
  /\ UNCHANGED <<strong, dead, buffered, queued, freed, destroyed, owners, readers, used, nested, back>>

\* cycle_suspect: admitted, or turned away at the cap.
Queue(t) ==
  /\ At(t, "queue")
  /\ \/ queued' = TRUE /\ Goto(t, "down")
     \/ UNCHANGED queued /\ Goto(t, "discard")
  /\ UNCHANGED <<header, freed, destroyed, owners, readers, used, nested, back>>

\* discard_suspect: the bit, then the buffer's weak count.
Discard(t) ==
  /\ At(t, "discard")
  /\ buffered' = FALSE
  /\ Goto(t, "drop")
  /\ back' = [back EXCEPT ![t] = "down"]
  /\ UNCHANGED <<strong, weak, dead, queued, freed, destroyed, owners, readers, used, nested>>

\* The count is given up; an over-release is put back.
Down(t) ==
  /\ At(t, "down")
  /\ strong' = IF strong = 0 THEN strong ELSE strong - 1
  /\ owners' = IF t \in nested THEN owners ELSE owners \ {t}
  /\ nested' = nested \ {t}
  /\ Goto(t, CASE strong = 1 -> "destroy"
               [] strong # 1 /\ t \in nested -> "bound"
               [] OTHER -> "idle")
  /\ UNCHANGED <<weak, dead, buffered, queued, freed, destroyed, readers, used, back>>

\* The destructor runs under the guard count.
Destroy(t) ==
  /\ At(t, "destroy")
  /\ strong' = DtorGuard /\ destroyed' = destroyed + 1
  /\ Goto(t, "body")
  /\ UNCHANGED <<weak, dead, buffered, queued, freed, owners, readers, used, nested, back>>

\* A `drop` that binds self retains it, and releases it when it returns.
BindSelf(t) ==
  /\ At(t, "body")
  /\ strong' = strong + 1 /\ nested' = nested \cup {t}
  /\ Goto(t, "shared")
  /\ UNCHANGED <<weak, dead, buffered, queued, freed, destroyed, owners, readers, used, back>>

\* The destructor returns.  With only the implicit weak unit left the header
\* goes at once ...
Died(t) ==
  /\ pc[t] \in {"body", "bound"}
  /\ IF weak = 1 THEN freed' = TRUE /\ Goto(t, "idle")
                 ELSE UNCHANGED freed /\ Goto(t, "dead")
  /\ UNCHANGED <<header, queued, destroyed, owners, readers, used, nested, back>>

\* ... and otherwise the value is marked dead and the unit dropped.
SetDead(t) ==
  /\ At(t, "dead")
  /\ dead' = TRUE
  /\ Goto(t, "drop") /\ back' = [back EXCEPT ![t] = "idle"]
  /\ UNCHANGED <<strong, weak, buffered, queued, freed, destroyed, owners, readers, used, nested>>

-----------------------------------------------------------------------------
(* The collector's drain.  The world is stopped: every task is outside the *)
(* runtime or frozen in a destructor's user code.  The struct is unmarked  *)
(* and the buffer's weak count dropped, whether the value lives or not.    *)

Drain ==
  /\ queued /\ \A t \in Task : pc[t] \in {"idle", "body"}
  /\ queued' = FALSE /\ buffered' = FALSE
  /\ weak' = weak - 1 /\ freed' = (freed \/ weak = 1)
  /\ UNCHANGED <<strong, dead, destroyed, owners, readers, used, nested, pc, back>>

Next ==
  \/ \E t, u \in Task : Retain(t, u) \/ WeakRetain(t, u)
  \/ \E t \in Task :
       \/ UpgradeFlags(t) \/ Upgrade(t) \/ WeakRelease(t) \/ DropLoad(t) \/ DropSub(t)
       \/ LoadStrong(t) \/ LoadWeak(t) \/ Suspect(t) \/ Mark(t) \/ TakeWeak(t)
       \/ Queue(t) \/ Discard(t) \/ Down(t)
       \/ Destroy(t) \/ BindSelf(t) \/ Died(t) \/ SetDead(t)
  \/ Drain

Spec == Init /\ [][Next]_vars

-----------------------------------------------------------------------------
(* Properties                                                              *)

\* Every variable has its type.
TypeOK ==
  /\ strong \in 0..(DtorGuard + 1) /\ weak \in Nat /\ destroyed \in Nat
  /\ {dead, buffered, queued, freed} \subseteq BOOLEAN
  /\ owners \subseteq Task /\ used \subseteq readers /\ readers \subseteq Task
  /\ nested \subseteq Task
  /\ pc \in [Task -> {"idle", "upgrade", "weak", "shared", "mark", "take", "queue",
                      "discard", "down", "drop", "sub", "destroy", "body", "bound", "dead"}]
  /\ back \in [Task -> {"idle", "down"}]

\* The destructor runs once, and only when nobody owns the struct any more:
\* not on the sole-owner shortcut while a weak reference is being upgraded.
DestroyedByLast ==
  /\ destroyed <= 1
  /\ destroyed = 1 \/ (\E t \in Task : At(t, "destroy")) => owners = {}

\* The header outlives everything that will still read it: an owner, a weak
\* reference, the suspect buffer's entry, and a release that is under way.
\* And it goes with the last of them.
HeaderHeld ==
  freed <=> /\ owners = {} /\ readers = {} /\ ~queued
            /\ \A t \in Task : At(t, "idle")
=============================================================================
