-------------------------- MODULE StructCountProofs --------------------------
(***************************************************************************)
(* A struct is destroyed once, by its last owner, and its header lives     *)
(* exactly as long as somebody will still read it, for any number of tasks *)
(* (a weak reference that was read stays until the value is gone: see the  *)
(* run that drops one early).  The invariant that carries the proof        *)
(* accounts for the two counts: the strong one is the number of owners     *)
(* until the destructor begins, and the guard with the destructor's own    *)
(* `self` after that; the weak one is the number of WeakUnits.             *)
(***************************************************************************)
EXTENDS StructCount, FiniteSetTheorems, TLAPS

\* The places of a task.
Label == {"idle", "upgrade", "weak", "shared", "mark", "take", "queue", "discard",
          "down", "drop", "sub", "destroy", "body", "bound", "dead"}

\* Tasks in a release that is neither the shortcut nor past its decrement.
Releasing(t) ==
  \/ pc[t] \in {"shared", "mark", "take", "queue", "discard", "down"}
  \/ pc[t] \in {"drop", "sub"} /\ back[t] = "down"

\* The task that destroys the value, from the decision to the end.
Dying(t) == pc[t] \in {"destroy", "body", "bound", "dead"} \/ t \in nested

\* A suspect on its way to the buffer, and off it.
Buffering(t) == pc[t] \in {"take", "queue", "discard"}

\* What the weak count counts: the readers, the drops under way, a suspect's
\* unit on its way to the buffer, that of the buffer, and that of the value.
Dropping == {t \in Task : pc[t] \in {"drop", "sub"}}
Suspecting == {t \in Task : pc[t] \in {"queue", "discard"}}
One(b) == IF b THEN 1 ELSE 0

\* The units of the weak count that somebody will give back.
WeakHeld ==
  Cardinality(readers) + Cardinality(Dropping) + Cardinality(Suspecting)
    + One(queued) + One(~dead)

\* A task has decided to destroy the value, or has.
Doomed == destroyed = 1 \/ \E t \in Task : At(t, "destroy")

\* Where a task may be, by what it holds.
Places ==
  /\ \A t \in Task : pc[t] = "weak" => t \in owners /\ (owners = {t} \/ used # {})
  /\ \A t \in Task : pc[t] = "upgrade" => t \in readers \ owners
  /\ \A t \in Task : Releasing(t) => t \in owners \cup nested
  /\ \A t \in nested : Releasing(t)

\* One task at most destroys the value, when it has no owner.
Death ==
  /\ destroyed \in {0, 1}
  /\ Doomed <=> owners = {}
  /\ \A t, u \in Task : Dying(t) /\ Dying(u) => t = u
  /\ \A t \in Task : Dying(t) => (destroyed = 0 <=> At(t, "destroy"))
  /\ dead => destroyed = 1 /\ \A t \in Task : ~Dying(t)
  /\ destroyed = 1 /\ ~dead /\ ~freed => \E t \in Task : Dying(t)

\* The strong count is the owners', until a guard keeps the destructor from
\* running again on the `self` it binds.
Strong ==
  /\ ~Doomed => strong = Cardinality(owners)
  /\ Doomed /\ destroyed = 0 => strong = 0 \/ (strong = 1 /\ readers = {})
  /\ destroyed = 1 => strong = IF nested = {} THEN DtorGuard ELSE DtorGuard + 1

\* The buffered bit lets one suspect through at a time.
Buffer ==
  /\ \A t \in Task : Buffering(t) => buffered /\ ~queued
  /\ \A t, u \in Task : Buffering(t) /\ Buffering(u) => t = u
  /\ queued => buffered

\* The weak count is exact as long as there is a header.
Weak == ~freed => weak = WeakHeld /\ weak # 0

\* Nobody holds anything of a header that was freed.
Gone ==
  freed => /\ owners = {} /\ readers = {} /\ ~queued
           /\ \A t \in Task : At(t, "idle")

\* The inductive invariant.
IInv ==
  /\ TypeOK
  /\ Places
  /\ Death
  /\ Strong
  /\ Buffer
  /\ Weak
  /\ Gone

-----------------------------------------------------------------------------
(* Sets of tasks are finite, and counting them is arithmetic.              *)

\* A set of tasks is finite and no larger than all of them.
LEMMA TaskSet ==
  ASSUME CountAssumption, NEW X \in SUBSET Task
  PROVE  /\ IsFiniteSet(X)
         /\ Cardinality(X) \in Nat
         /\ Cardinality(X) <= Cardinality(Task)
         /\ Cardinality(X) = 0 <=> X = {}
BY FS_Subset, FS_CardinalityType, FS_EmptySet DEF CountAssumption

\* A task more.
LEMMA OneMore ==
  ASSUME CountAssumption, NEW X \in SUBSET Task, NEW t \in Task \ X
  PROVE  Cardinality(X \cup {t}) = Cardinality(X) + 1
BY TaskSet, FS_AddElement

\* A task less.
LEMMA OneLess ==
  ASSUME CountAssumption, NEW X \in SUBSET Task, NEW t \in X
  PROVE  Cardinality(X \ {t}) = Cardinality(X) - 1
BY TaskSet, FS_RemoveElement

\* A count of one has one holder.
LEMMA Single ==
  ASSUME CountAssumption, NEW X \in SUBSET Task
  PROVE  Cardinality(X) = 1 => \E t \in Task : X = {t}
<1> SUFFICES ASSUME Cardinality(X) = 1 PROVE \E t \in Task : X = {t}
  OBVIOUS
<1>1. PICK t \in Task : t \in X
  BY TaskSet
<1>2. Cardinality(X \ {t}) = 0
  BY <1>1, OneLess
<1>3. X \ {t} = {}
  BY <1>2, TaskSet
<1> QED
  BY <1>1, <1>3

\* The guard exceeds every count of owners.
LEMMA GuardFact ==
  ASSUME CountAssumption
  PROVE  /\ DtorGuard \in Nat /\ Cardinality(Task) \in Nat
         /\ Cardinality(Task) < DtorGuard /\ DtorGuard > 2
BY FS_CardinalityType DEF CountAssumption

\* A task that is in the middle of something keeps the header.
LEMMA NotFreed ==
  ASSUME IInv, owners # {} \/ readers # {} \/ queued \/ \E t \in Task : pc[t] # "idle"
  PROVE  ~freed
BY DEF IInv, Gone, At

\* The units that one weak count leaves room for.
LEMMA LastUnit ==
  ASSUME CountAssumption, IInv, ~freed, weak = 1
  PROVE  /\ ~dead => readers = {} /\ Dropping = {} /\ Suspecting = {} /\ ~queued
         /\ queued => readers = {} /\ Dropping = {} /\ Suspecting = {} /\ dead
         /\ \A t \in Dropping : readers = {} /\ Dropping = {t} /\ Suspecting = {} /\ ~queued /\ dead
<1>1. /\ readers \in SUBSET Task /\ Dropping \in SUBSET Task /\ Suspecting \in SUBSET Task
      /\ queued \in BOOLEAN /\ dead \in BOOLEAN
  BY DEF IInv, TypeOK, Dropping, Suspecting
<1>2. /\ Cardinality(readers) \in Nat /\ (Cardinality(readers) = 0 <=> readers = {})
      /\ Cardinality(Dropping) \in Nat /\ (Cardinality(Dropping) = 0 <=> Dropping = {})
      /\ Cardinality(Suspecting) \in Nat /\ (Cardinality(Suspecting) = 0 <=> Suspecting = {})
  BY <1>1, TaskSet
<1>3. One(queued) \in {0, 1} /\ One(~dead) \in {0, 1} /\ (One(queued) = 0 <=> ~queued)
      /\ (One(~dead) = 0 <=> dead)
  BY <1>1 DEF One
<1>4. Cardinality(readers) + Cardinality(Dropping) + Cardinality(Suspecting)
        + One(queued) + One(~dead) = 1
  BY DEF IInv, Weak, WeakHeld
<1>5. ASSUME NEW t \in Dropping
      PROVE  readers = {} /\ Dropping = {t} /\ Suspecting = {} /\ ~queued /\ dead
  <2>1. Cardinality(Dropping) = 1 /\ readers = {} /\ Suspecting = {} /\ ~queued /\ dead
    BY <1>2, <1>3, <1>4
  <2> QED
    BY <1>1, <2>1, Single
<1>6. ~dead => readers = {} /\ Dropping = {} /\ Suspecting = {} /\ ~queued
  BY <1>2, <1>3, <1>4
<1>7. ASSUME queued
      PROVE  readers = {} /\ Dropping = {} /\ Suspecting = {} /\ dead
  <2>1. One(queued) = 1
    BY <1>7 DEF One
  <2>2. /\ Cardinality(readers) = 0 /\ Cardinality(Dropping) = 0
        /\ Cardinality(Suspecting) = 0 /\ One(~dead) = 0
    BY <1>2, <1>3, <1>4, <2>1
  <2> QED
    BY <1>2, <1>3, <2>2
<1> QED
  BY <1>5, <1>6, <1>7

\* One owner, and the unit of the value.
LEMMA InitInv == CountAssumption /\ Init => IInv
<1> SUFFICES ASSUME CountAssumption, Init PROVE IInv
  OBVIOUS
<1>1. PICK t \in Task : owners = {t}
  BY DEF Init
<1>2. TypeOK
  <2>1. 1 \in 0..(DtorGuard + 1)
    BY GuardFact
  <2>2. pc = [u \in Task |-> "idle"] /\ back = [u \in Task |-> "idle"]
    BY DEF Init
  <2> QED
    BY <1>1, <2>1, <2>2 DEF Init, TypeOK
<1>3. Places /\ Buffer /\ Gone
  BY <1>1 DEF Init, Places, Buffer, Gone, Releasing, Buffering, At
<1>4. ~Doomed /\ Death
  BY <1>1 DEF Init, Death, Doomed, Dying, At
<1>5. Strong
  <2>1. owners = {} \cup {t} /\ t \in Task \ {} /\ {} \in SUBSET Task
    BY <1>1
  <2>2. Cardinality(owners) = 1
    BY <2>1, OneMore, FS_EmptySet
  <2> QED
    BY <1>1, <1>4, <2>2 DEF Init, Strong, Doomed
<1>6. Weak
  <2>1. readers = {} /\ Dropping = {} /\ Suspecting = {} /\ ~queued /\ ~dead /\ weak = 1
    BY DEF Init, Dropping, Suspecting
  <2>2. WeakHeld = 1
    BY <2>1, FS_EmptySet DEF WeakHeld, One
  <2> QED
    BY <2>1, <2>2 DEF Weak
<1> QED
  BY <1>2, <1>3, <1>4, <1>5, <1>6 DEF IInv

-----------------------------------------------------------------------------
(* The actions that move a task on and touch no count.                     *)

\* Reading a count or deciding moves the task only.
LEMMA MoveInv ==
  ASSUME CountAssumption, IInv, NEW t \in Task,
         UpgradeFlags(t) \/ LoadStrong(t) \/ Suspect(t)
  PROVE  IInv'
<1> USE DEF UpgradeFlags, LoadStrong, Suspect, Goto, At, header
<1>0. /\ UNCHANGED <<strong, weak, dead, buffered, queued, freed, destroyed, owners,
                     readers, used, nested, back>>
      /\ pc' \in [Task -> Label]
      /\ \A u \in Task \ {t} : pc'[u] = pc[u]
      /\ nested \subseteq Task
      /\ \/ pc[t] = "idle" /\ pc'[t] = "upgrade" /\ t \in readers \ owners
         \/ pc[t] = "idle" /\ pc'[t] = "weak" /\ t \in owners /\ strong = 1
         \/ pc[t] = "idle" /\ pc'[t] = "shared" /\ t \in owners
         \/ pc[t] = "shared" /\ pc'[t] \in {"mark", "down"}
  BY DEF IInv, TypeOK, Label
<1>1. TypeOK'
  BY <1>0 DEF IInv, TypeOK, Label
<1>2. ~freed
  BY <1>0, NotFreed
<1>3. strong = 1 /\ t \in owners /\ pc[t] = "idle" => owners = {t}
  <2>1. SUFFICES ASSUME strong = 1, t \in owners, pc[t] = "idle" PROVE owners = {t}
    OBVIOUS
  <2>2. Cardinality(owners) = 1
    BY <2>1 DEF IInv, Strong, Death
  <2> QED
    BY <2>1, <2>2, Single DEF IInv, TypeOK
<1>4. Places'
  <2>1. \A u \in Task : pc'[u] = "weak" => u \in owners /\ (owners = {u} \/ used # {})
    BY <1>0, <1>3 DEF IInv, Places
  <2>2. \A u \in Task : pc'[u] = "upgrade" => u \in readers \ owners
    BY <1>0 DEF IInv, Places
  <2>3. \A u \in Task : Releasing(u)' => u \in owners \cup nested
    BY <1>0 DEF IInv, Places, Releasing
  <2>4. \A u \in nested : Releasing(u)'
    BY <1>0 DEF IInv, Places, Releasing
  <2> QED
    BY <1>0, <2>1, <2>2, <2>3, <2>4 DEF Places
<1>5. Death'
  BY <1>0 DEF IInv, Death, Doomed, Dying
<1>6. Strong'
  BY <1>0 DEF IInv, Strong, Doomed
<1>7. Buffer'
  BY <1>0 DEF IInv, Buffer, Buffering
<1>8. Weak'
  <2>1. Dropping' = Dropping /\ Suspecting' = Suspecting
    BY <1>0 DEF Dropping, Suspecting
  <2> QED
    BY <1>0, <2>1 DEF IInv, Weak, WeakHeld
<1>9. Gone'
  BY <1>0, <1>2 DEF Gone
<1> QED
  BY <1>1, <1>4, <1>5, <1>6, <1>7, <1>8, <1>9 DEF IInv

-----------------------------------------------------------------------------
(* More owners and readers.                                                *)

\* An owner hands a unit to another task.
LEMMA RetainInv ==
  ASSUME CountAssumption, IInv, NEW t \in Task, NEW u \in Task, Retain(t, u)
  PROVE  IInv'
<1> USE DEF Retain, At
<1>0. /\ t \in owners /\ u \notin owners /\ pc[t] = "idle" /\ pc[u] = "idle"
      /\ owners' = owners \cup {u} /\ strong' = strong + 1
      /\ UNCHANGED <<weak, dead, buffered, queued, freed, destroyed, readers, used,
                    nested, pc, back>>
      /\ owners \subseteq Task
  BY DEF IInv, TypeOK
<1>1. ~Doomed /\ ~Doomed' /\ ~freed
  BY <1>0, NotFreed DEF IInv, Death, Doomed
<1>2. strong = Cardinality(owners) /\ strong' = Cardinality(owners')
  BY <1>0, <1>1, OneMore DEF IInv, Strong
<1>3. TypeOK'
  <2>1. strong' \in 0..(DtorGuard + 1)
    BY <1>0, <1>2, TaskSet, GuardFact
  <2> QED
    BY <1>0, <2>1 DEF IInv, TypeOK
<1>4. Places'
  BY <1>0 DEF IInv, Places, Releasing
<1>5. Death'
  BY <1>0, <1>1 DEF IInv, Death, Doomed, Dying
<1>6. Strong'
  BY <1>0, <1>1, <1>2 DEF IInv, Strong, Doomed
<1>7. Buffer' /\ Gone'
  BY <1>0, <1>1 DEF IInv, Buffer, Buffering, Gone
<1>8. Weak'
  BY <1>0 DEF IInv, Weak, WeakHeld, Dropping, Suspecting
<1> QED
  BY <1>3, <1>4, <1>5, <1>6, <1>7, <1>8 DEF IInv

\* An owner or a reader makes a weak reference.
LEMMA WeakRetainInv ==
  ASSUME CountAssumption, IInv, NEW t \in Task, NEW u \in Task, WeakRetain(t, u)
  PROVE  IInv'
<1> USE DEF WeakRetain, At
<1>0. /\ t \in owners \cup readers /\ u \notin readers /\ pc[t] = "idle" /\ pc[u] = "idle"
      /\ readers' = readers \cup {u} /\ weak' = weak + 1
      /\ UNCHANGED <<strong, dead, buffered, queued, freed, destroyed, owners, used,
                    nested, pc, back>>
      /\ readers \subseteq Task /\ weak \in Nat
  BY DEF IInv, TypeOK
<1>1. ~freed
  BY <1>0, NotFreed
<1>2. TypeOK'
  BY <1>0 DEF IInv, TypeOK
<1>3. Places'
  BY <1>0 DEF IInv, Places, Releasing
<1>4. Death'
  BY <1>0 DEF IInv, Death, Doomed, Dying
<1>5. Strong'
  BY <1>0 DEF IInv, Strong, Death, Doomed
<1>6. Buffer' /\ Gone'
  BY <1>0, <1>1 DEF IInv, Buffer, Buffering, Gone
<1>7. Weak'
  <2>1. Cardinality(readers') = Cardinality(readers) + 1 /\ Cardinality(readers) \in Nat
    BY <1>0, OneMore, TaskSet
  <2>2. Dropping' = Dropping /\ Suspecting' = Suspecting
    BY <1>0 DEF Dropping, Suspecting
  <2>3. Cardinality(Dropping) \in Nat /\ Cardinality(Suspecting) \in Nat
    BY TaskSet DEF Dropping, Suspecting
  <2>4. One(queued) \in Nat /\ One(~dead) \in Nat
    BY DEF One
  <2>5. WeakHeld' = WeakHeld + 1
    BY <1>0, <2>1, <2>2, <2>3, <2>4 DEF WeakHeld
  <2> QED
    BY <1>0, <1>1, <2>5 DEF IInv, Weak
<1> QED
  BY <1>2, <1>3, <1>4, <1>5, <1>6, <1>7 DEF IInv

\* A reader becomes an owner, unless the count is zero or the value is dead.
LEMMA UpgradeInv ==
  ASSUME CountAssumption, IInv, NEW t \in Task, Upgrade(t)
  PROVE  IInv'
<1> USE DEF Upgrade, Goto, At
<1>0. /\ pc[t] = "upgrade" /\ t \in readers \ owners /\ t \notin nested
      /\ pc' = [pc EXCEPT ![t] = "idle"]
      /\ pc'[t] = "idle" /\ \A u \in Task \ {t} : pc'[u] = pc[u]
      /\ UNCHANGED <<weak, dead, buffered, queued, freed, destroyed, readers, nested, back>>
      /\ owners \subseteq Task /\ nested \subseteq Task
  BY DEF IInv, TypeOK, Places, Releasing
<1>1. ~freed
  BY <1>0, NotFreed
<1>2. \/ UNCHANGED <<strong, owners, used>>
      \/ /\ ~Doomed /\ owners' = owners \cup {t} /\ used' = used \cup {t}
         /\ strong = Cardinality(owners) /\ strong' = Cardinality(owners')
  <2>1. CASE strong # 0 /\ strong < DtorGuard
    <3>1. ~Doomed
      <4>1. destroyed = 1 => strong >= DtorGuard
        BY GuardFact DEF IInv, Strong
      <4>2. Doomed /\ destroyed = 0 => strong = 0
        BY <1>0 DEF IInv, Strong
      <4>3. destroyed \in {0, 1} /\ DtorGuard \in Nat /\ strong \in Nat
        BY GuardFact DEF IInv, Death, TypeOK
      <4> QED
        BY <2>1, <4>1, <4>2, <4>3
    <3>2. strong = Cardinality(owners)
      BY <3>1 DEF IInv, Strong
    <3>3. Cardinality(owners \cup {t}) = Cardinality(owners) + 1
      BY <1>0, OneMore
    <3> QED
      BY <2>1, <3>1, <3>2, <3>3
  <2>2. CASE ~(strong # 0 /\ strong < DtorGuard)
    BY <2>2
  <2> QED
    BY <2>1, <2>2
<1>3. TypeOK'
  <2>1. strong' \in 0..(DtorGuard + 1)
    <3>1. owners' \subseteq Task /\ strong \in 0..(DtorGuard + 1)
      BY <1>0, <1>2 DEF IInv, TypeOK
    <3> QED
      BY <1>2, <3>1, TaskSet, GuardFact
  <2> QED
    BY <1>0, <1>2, <2>1 DEF IInv, TypeOK
<1>4. Places'
  <2>1. \A u \in Task : pc'[u] = "weak" => u \in owners' /\ (owners' = {u} \/ used' # {})
    BY <1>0, <1>2 DEF IInv, Places
  <2>2. \A u \in Task : pc'[u] = "upgrade" => u \in readers' \ owners'
    BY <1>0, <1>2 DEF IInv, Places
  <2>3. \A u \in Task : Releasing(u)' => u \in owners' \cup nested'
    BY <1>0, <1>2 DEF IInv, Places, Releasing
  <2>4. \A u \in nested' : Releasing(u)'
    BY <1>0 DEF IInv, Places, Releasing
  <2> QED
    BY <2>1, <2>2, <2>3, <2>4 DEF Places
<1>5. (Doomed' <=> Doomed) /\ (owners' = {} <=> owners = {})
  <2>1. Doomed' <=> Doomed
    BY <1>0 DEF Doomed
  <2>2. ~Doomed => owners # {}
    BY DEF IInv, Death
  <2> QED
    BY <1>2, <2>1, <2>2
<1>6. Death'
  <2>1. \A u \in Task : Dying(u)' <=> Dying(u)
    BY <1>0 DEF Dying
  <2> QED
    BY <1>0, <1>5, <2>1 DEF IInv, Death
<1>7. Strong'
  <2>1. CASE UNCHANGED <<strong, owners, used>>
    BY <1>0, <1>5, <2>1 DEF IInv, Strong
  <2>2. CASE ~Doomed /\ strong' = Cardinality(owners')
    <3>1. ~Doomed' /\ destroyed' # 1
      BY <1>0, <1>5, <2>2 DEF Doomed
    <3> QED
      BY <2>2, <3>1 DEF Strong
  <2> QED
    BY <1>2, <2>1, <2>2
<1>8. Buffer' /\ Gone'
  BY <1>0, <1>1 DEF IInv, Buffer, Buffering, Gone
<1>9. Weak'
  <2>1. Dropping' = Dropping /\ Suspecting' = Suspecting
    BY <1>0 DEF Dropping, Suspecting
  <2> QED
    BY <1>0, <2>1 DEF IInv, Weak, WeakHeld
<1> QED
  BY <1>3, <1>4, <1>6, <1>7, <1>8, <1>9 DEF IInv

-----------------------------------------------------------------------------
(* A unit of the weak count changes hands or goes.                         *)

\* The five parts of the weak count are numbers.
LEMMA WeakParts ==
  ASSUME CountAssumption, TypeOK
  PROVE  /\ readers \in SUBSET Task /\ Cardinality(readers) \in Nat
         /\ Dropping \in SUBSET Task /\ Cardinality(Dropping) \in Nat
         /\ Suspecting \in SUBSET Task /\ Cardinality(Suspecting) \in Nat
         /\ One(queued) = (IF queued THEN 1 ELSE 0) /\ One(~dead) = (IF dead THEN 0 ELSE 1)
BY TaskSet DEF TypeOK, Dropping, Suspecting, One

\* A weak reference goes: the reader turns into a drop under way.
LEMMA WeakReleaseInv ==
  ASSUME CountAssumption, EarlyDrop = FALSE, IInv, NEW t \in Task, WeakRelease(t)
  PROVE  IInv'
<1> USE DEF WeakRelease, Goto, At, header
<1>0. /\ pc[t] = "idle" /\ t \in readers /\ (t \notin used \/ destroyed > 0)
      /\ readers' = readers \ {t} /\ used' = used \ {t}
      /\ pc' = [pc EXCEPT ![t] = "drop"] /\ back' = [back EXCEPT ![t] = "idle"]
      /\ pc'[t] = "drop" /\ back'[t] = "idle"
      /\ \A u \in Task \ {t} : pc'[u] = pc[u] /\ back'[u] = back[u]
      /\ UNCHANGED <<strong, weak, dead, buffered, queued, freed, destroyed, owners, nested>>
      /\ owners \subseteq Task /\ nested \subseteq Task
  BY DEF IInv, TypeOK
<1>1. ~freed
  BY <1>0, NotFreed
<1>2. TypeOK'
  BY <1>0 DEF IInv, TypeOK
<1>3. Places'
  <2>1. ASSUME NEW u \in Task, pc'[u] = "weak"
        PROVE  u \in owners /\ (owners = {u} \/ used' # {})
    <3>1. u # t /\ pc[u] = "weak" /\ u \in owners /\ (owners = {u} \/ used # {})
      BY <1>0, <2>1 DEF IInv, Places
    <3>2. destroyed = 0
      BY <3>1 DEF IInv, Death, Doomed
    <3>3. used' = used
      BY <1>0, <3>2
    <3> QED
      BY <3>1, <3>3
  <2>2. \A u \in Task : pc'[u] = "upgrade" => u \in readers' \ owners
    BY <1>0 DEF IInv, Places
  <2>3. \A u \in Task : Releasing(u)' => u \in owners \cup nested
    BY <1>0 DEF IInv, Places, Releasing
  <2>4. \A u \in nested : Releasing(u)'
    BY <1>0 DEF IInv, Places, Releasing
  <2> QED
    BY <1>0, <2>1, <2>2, <2>3, <2>4 DEF Places
<1>4. Death'
  BY <1>0 DEF IInv, Death, Doomed, Dying
<1>5. Strong'
  BY <1>0 DEF IInv, Strong, Doomed
<1>6. Buffer' /\ Gone'
  BY <1>0, <1>1 DEF IInv, Buffer, Buffering, Gone
<1>7. Weak'
  <2>1. Dropping' = Dropping \cup {t} /\ t \notin Dropping /\ Suspecting' = Suspecting
    BY <1>0 DEF Dropping, Suspecting
  <2>2. /\ Cardinality(readers') = Cardinality(readers) - 1
        /\ Cardinality(Dropping') = Cardinality(Dropping) + 1
    BY <1>0, <2>1, WeakParts, OneLess, OneMore DEF IInv
  <2>3. WeakHeld' = WeakHeld
    BY <1>0, <2>1, <2>2, WeakParts DEF IInv, WeakHeld, One
  <2> QED
    BY <1>0, <2>3 DEF IInv, Weak
<1> QED
  BY <1>2, <1>3, <1>4, <1>5, <1>6, <1>7 DEF IInv

\* The header goes with the last unit of the weak count.
LEMMA DropInv ==
  ASSUME CountAssumption, IInv, NEW t \in Task, DropLoad(t) \/ DropSub(t)
  PROVE  IInv'
<1> USE DEF Goto, At, header
<1>0. /\ pc[t] \in {"drop", "sub"} /\ weak \in Nat
      /\ UNCHANGED <<strong, dead, buffered, queued, destroyed, owners, readers,
                    used, nested, back>>
      /\ \A u \in Task \ {t} : pc'[u] = pc[u]
      /\ nested \subseteq Task /\ back[t] \in {"idle", "down"}
      /\ t \in Dropping
  BY DEF IInv, TypeOK, DropLoad, DropSub, Dropping
<1>1. ~freed
  BY <1>0, NotFreed
\* What is left depends on whether the unit was the last one.
<1>2. /\ weak' \in {weak, weak - 1}
      /\ pc' \in [Task -> Label]
      /\ \/ weak = 1 /\ freed' = TRUE /\ pc'[t] = back[t]
         \/ /\ weak # 1 /\ freed' = FALSE
            /\ \/ pc'[t] = "sub" /\ weak' = weak
               \/ pc'[t] = back[t] /\ weak' = weak - 1
  <2>0. freed = FALSE /\ pc \in [Task -> Label]
    BY <1>1 DEF IInv, TypeOK, Label
  <2>1. CASE DropLoad(t)
    BY <1>0, <2>0, <2>1 DEF DropLoad, Label
  <2>2. CASE DropSub(t)
    <3>1. freed' = (weak = 1)
      BY <2>0, <2>2 DEF DropSub
    <3>2. pc' = [pc EXCEPT ![t] = back[t]] /\ weak' = weak - 1
      BY <2>2 DEF DropSub
    <3> QED
      BY <1>0, <2>0, <3>1, <3>2 DEF Label
  <2> QED
    BY <2>1, <2>2
<1>3. weak # 0
  BY <1>1 DEF IInv, Weak
<1>4. TypeOK'
  <2>1. weak' \in Nat
    BY <1>0, <1>2, <1>3
  <2>2. freed' \in BOOLEAN
    BY <1>2
  <2> QED
    BY <1>0, <1>2, <2>1, <2>2 DEF IInv, TypeOK, Label
<1>5. \A u \in Task : Releasing(u)' => Releasing(u)
  BY <1>0, <1>2 DEF Releasing
<1>6. Releasing(t) => Releasing(t)'
  BY <1>0, <1>2 DEF Releasing
<1>7. Places'
  BY <1>0, <1>2, <1>5, <1>6 DEF IInv, Places, Releasing
<1>8. \A u \in Task : (Dying(u)' <=> Dying(u)) /\ (pc'[u] = "destroy" <=> pc[u] = "destroy")
  BY <1>0, <1>2 DEF Dying
<1>9. Doomed' <=> Doomed
  BY <1>0, <1>8 DEF Doomed
<1>10. Strong'
  BY <1>0, <1>9 DEF IInv, Strong
<1>11. Buffer'
  BY <1>0, <1>2 DEF IInv, Buffer, Buffering
<1>12. CASE weak = 1
  <2>1. readers = {} /\ Dropping = {t} /\ Suspecting = {} /\ ~queued /\ dead
    BY <1>0, <1>1, <1>12, LastUnit
  <2>2. owners = {} /\ nested = {} /\ \A u \in Task : ~Dying(u) /\ u \notin nested
    BY <1>0, <2>1 DEF IInv, Death, Doomed, Dying
  <2>3. \A u \in Task : ~Releasing(u)
    BY <2>2 DEF IInv, Places
  <2>4. pc'[t] = "idle"
    BY <1>0, <1>2, <1>12, <2>3 DEF Releasing
  <2>5. \A u \in Task \ {t} : pc[u] = "idle"
    <3> SUFFICES ASSUME NEW u \in Task \ {t} PROVE pc[u] = "idle"
      OBVIOUS
    <3>1. pc[u] \notin {"upgrade", "weak"}
      BY <2>1, <2>2 DEF IInv, Places
    <3>2. pc[u] \notin {"shared", "mark", "take", "queue", "discard", "down"}
      BY <2>3 DEF Releasing
    <3>3. pc[u] \notin {"drop", "sub"}
      BY <2>1 DEF Dropping
    <3>4. pc[u] \notin {"destroy", "body", "bound", "dead"}
      BY <2>2 DEF Dying
    <3> QED
      BY <3>1, <3>2, <3>3, <3>4 DEF IInv, TypeOK
  <2>6. Gone'
    BY <1>0, <2>1, <2>2, <2>4, <2>5 DEF Gone
  <2>7. Death' /\ Weak'
    BY <1>0, <1>2, <1>8, <1>9, <1>12 DEF IInv, Death, Weak
  <2> QED
    BY <1>4, <1>7, <1>10, <1>11, <2>6, <2>7 DEF IInv
<1>13. CASE weak # 1
  <2>1. Gone'
    BY <1>2, <1>13 DEF Gone
  <2>2. Death'
    BY <1>0, <1>1, <1>8, <1>9 DEF IInv, Death
  <2>3. CASE pc'[t] = "sub" /\ weak' = weak
    <3>1. Dropping' = Dropping /\ Suspecting' = Suspecting
      BY <1>0, <2>3 DEF Dropping, Suspecting
    <3> QED
      BY <1>0, <1>1, <1>4, <1>7, <1>10, <1>11, <2>1, <2>2, <2>3, <3>1 DEF IInv, Weak, WeakHeld
  <2>4. CASE pc'[t] = back[t] /\ weak' = weak - 1
    <3>1. Dropping' = Dropping \ {t} /\ Suspecting' = Suspecting
      BY <1>0, <2>4 DEF Dropping, Suspecting
    <3>2. Cardinality(Dropping') = Cardinality(Dropping) - 1
      BY <1>0, <3>1, WeakParts, OneLess DEF IInv
    <3>3. WeakHeld' = WeakHeld - 1
      BY <1>0, <3>1, <3>2, WeakParts DEF IInv, WeakHeld
    <3>4. Weak'
      BY <1>0, <1>1, <1>3, <1>13, <2>4, <3>3 DEF IInv, Weak
    <3> QED
      BY <1>4, <1>7, <1>10, <1>11, <2>1, <2>2, <3>4 DEF IInv
  <2> QED
    BY <1>2, <1>13, <2>3, <2>4
<1> QED
  BY <1>12, <1>13

-----------------------------------------------------------------------------
(* A release.                                                              *)

\* An owned value is alive.
LEMMA Living ==
  ASSUME IInv, owners # {}
  PROVE  /\ ~Doomed /\ destroyed = 0 /\ dead = FALSE /\ nested = {} /\ freed = FALSE
         /\ strong = Cardinality(owners)
         /\ \A t \in Task : ~Dying(t)
<1>1. ~Doomed /\ destroyed = 0
  BY DEF IInv, Death, Doomed
<1>2. dead = FALSE /\ freed = FALSE
  BY <1>1 DEF IInv, Death, TypeOK, Gone
<1>3. \A t \in Task : ~Dying(t)
  BY <1>1 DEF IInv, Death, Doomed
<1>4. nested = {}
  BY <1>3 DEF IInv, TypeOK, Dying
<1> QED
  BY <1>1, <1>2, <1>3, <1>4 DEF IInv, Strong

\* Its destroyer is the only one left that could have bound self.
LEMMA Destroyer ==
  ASSUME IInv, NEW t \in Task, Dying(t)
  PROVE  /\ owners = {} /\ dead = FALSE
         /\ nested \subseteq {t}
         /\ \A u \in Task \ {t} : ~Dying(u)
         /\ ~Releasing(t) => nested = {}
<1>1. \A u \in Task \ {t} : ~Dying(u)
  BY DEF IInv, Death
<1>2. nested \subseteq {t}
  BY <1>1 DEF IInv, TypeOK, Dying
<1>3. dead = FALSE
  BY DEF IInv, Death, TypeOK
<1>4. owners = {}
  BY DEF IInv, Death, Doomed
<1> QED
  BY <1>1, <1>2, <1>3, <1>4 DEF IInv, Places

\* Where a task is that holds nothing.
LEMMA Resting ==
  ASSUME IInv, owners = {}, readers = {}, nested = {}, Dropping = {},
         NEW u \in Task, ~Dying(u)
  PROVE  pc[u] = "idle"
<1>1. pc[u] \notin {"upgrade", "weak"}
  BY DEF IInv, Places
<1>2. pc[u] \notin {"shared", "mark", "take", "queue", "discard", "down"}
  BY DEF IInv, Places, Releasing
<1>3. pc[u] \notin {"drop", "sub"}
  BY DEF Dropping
<1>4. pc[u] \notin {"destroy", "body", "bound", "dead"}
  BY DEF Dying
<1> QED
  BY <1>1, <1>2, <1>3, <1>4 DEF IInv, TypeOK

\* The shortcut of a release whose caller is alone, and its long way.
LEMMA LoadWeakInv ==
  ASSUME CountAssumption, IInv, NEW t \in Task, LoadWeak(t)
  PROVE  IInv'
<1> USE DEF LoadWeak, Goto, At, header
<1>0. /\ pc[t] = "weak" /\ t \in owners /\ (owners = {t} \/ used # {})
      /\ UNCHANGED <<strong, weak, dead, buffered, queued, freed, destroyed, readers,
                    used, nested, back>>
      /\ pc' \in [Task -> Label]
      /\ \A u \in Task \ {t} : pc'[u] = pc[u]
      /\ nested \subseteq Task /\ used \subseteq readers /\ owners \subseteq Task
      /\ \/ weak # 1 /\ pc'[t] = "shared" /\ owners' = owners
         \/ weak = 1 /\ pc'[t] = "destroy" /\ owners' = owners \ {t}
  BY DEF IInv, TypeOK, Places, Label
<1>1. ~Doomed /\ destroyed = 0 /\ ~dead /\ nested = {} /\ ~freed /\ strong = Cardinality(owners)
      /\ \A u \in Task : ~Dying(u)
  BY <1>0, Living
<1>2. TypeOK'
  BY <1>0 DEF IInv, TypeOK, Label
<1>3. Dropping' = Dropping /\ Suspecting' = Suspecting
  BY <1>0 DEF Dropping, Suspecting
<1>4. Weak'
  BY <1>0, <1>3 DEF IInv, Weak, WeakHeld
<1>5. Gone'
  BY <1>0, <1>1 DEF Gone
<1>6. Buffer'
  BY <1>0 DEF IInv, Buffer, Buffering
<1>7. CASE weak # 1
  <2>1. pc'[t] = "shared" /\ owners' = owners
    BY <1>0, <1>7
  <2>2. Places'
    BY <1>0, <1>1, <2>1 DEF IInv, Places, Releasing
  <2>3. Death'
    BY <1>0, <1>1, <2>1 DEF IInv, Death, Doomed, Dying
  <2>4. Strong'
    BY <1>0, <1>1, <2>1 DEF Strong, Doomed
  <2> QED
    BY <1>2, <1>4, <1>5, <1>6, <2>2, <2>3, <2>4 DEF IInv
\* The shortcut: without a weak reference nobody else can own it.
<1>8. CASE weak = 1
  <2>1. readers = {} /\ Dropping = {} /\ Suspecting = {}
    BY <1>1, <1>8, LastUnit
  <2>2. owners = {t} /\ owners' = {} /\ pc'[t] = "destroy"
    BY <1>0, <1>8, <2>1
  <2>3. \A u \in Task \ {t} : pc'[u] = "idle"
    <3> SUFFICES ASSUME NEW u \in Task \ {t} PROVE pc[u] = "idle"
      BY <1>0
    <3>1. pc[u] \notin {"upgrade", "weak"}
      BY <1>0, <2>1, <2>2 DEF IInv, Places
    <3>2. pc[u] \notin {"shared", "mark", "take", "queue", "discard", "down"}
      BY <1>1, <2>2 DEF IInv, Places, Releasing
    <3>3. pc[u] \notin {"drop", "sub"}
      BY <2>1 DEF Dropping
    <3>4. pc[u] \notin {"destroy", "body", "bound", "dead"}
      BY <1>1 DEF Dying
    <3> QED
      BY <3>1, <3>2, <3>3, <3>4 DEF IInv, TypeOK
  <2>4. Places'
    BY <1>0, <1>1, <2>2, <2>3 DEF Places, Releasing
  <2>5. Doomed'
    BY <2>2 DEF Doomed
  <2>6. Death'
    BY <1>0, <1>1, <2>2, <2>3, <2>5 DEF Death, Dying
  <2>7. strong = 1
    BY <1>1, <2>2, FS_Singleton
  <2>8. Strong'
    BY <1>0, <1>1, <2>1, <2>5, <2>7 DEF Strong
  <2> QED
    BY <1>2, <1>4, <1>5, <1>6, <2>4, <2>6, <2>8 DEF IInv
<1> QED
  BY <1>7, <1>8

\* One suspect at a time sets the buffered bit.
LEMMA MarkInv ==
  ASSUME CountAssumption, IInv, NEW t \in Task, Mark(t)
  PROVE  IInv'
<1> USE DEF Mark, Goto, At
<1>0. /\ pc[t] = "mark" /\ buffered' = TRUE
      /\ UNCHANGED <<strong, weak, dead, queued, freed, destroyed, owners, readers,
                    used, nested, back>>
      /\ pc' \in [Task -> Label]
      /\ \A u \in Task \ {t} : pc'[u] = pc[u]
      /\ nested \subseteq Task
      /\ \/ buffered /\ pc'[t] = "down"
         \/ ~buffered /\ pc'[t] = "take"
  BY DEF IInv, TypeOK, Label
<1>1. ~freed
  BY <1>0, NotFreed
<1>2. TypeOK'
  BY <1>0 DEF IInv, TypeOK, Label
<1>3. Places'
  BY <1>0 DEF IInv, Places, Releasing
<1>4. Death'
  BY <1>0 DEF IInv, Death, Doomed, Dying
<1>5. Strong'
  BY <1>0 DEF IInv, Strong, Doomed
<1>6. Buffer'
  BY <1>0 DEF IInv, Buffer, Buffering
<1>7. Dropping' = Dropping /\ Suspecting' = Suspecting
  BY <1>0 DEF Dropping, Suspecting
<1>8. Weak' /\ Gone'
  BY <1>0, <1>1, <1>7 DEF IInv, Weak, WeakHeld, Gone
<1> QED
  BY <1>2, <1>3, <1>4, <1>5, <1>6, <1>8 DEF IInv

\* The unit of a suspect on its way to the buffer.
LEMMA TakeWeakInv ==
  ASSUME CountAssumption, IInv, NEW t \in Task, TakeWeak(t)
  PROVE  IInv'
<1> USE DEF TakeWeak, Goto, At
<1>0. /\ pc[t] = "take" /\ weak' = weak + 1 /\ weak \in Nat
      /\ UNCHANGED <<strong, dead, buffered, queued, freed, destroyed, owners, readers,
                    used, nested, back>>
      /\ pc' \in [Task -> Label] /\ pc'[t] = "queue"
      /\ \A u \in Task \ {t} : pc'[u] = pc[u]
      /\ nested \subseteq Task
  BY DEF IInv, TypeOK, Label
<1>1. ~freed
  BY <1>0, NotFreed
<1>2. TypeOK'
  BY <1>0 DEF IInv, TypeOK, Label
<1>3. Places'
  BY <1>0 DEF IInv, Places, Releasing
<1>4. Death'
  BY <1>0 DEF IInv, Death, Doomed, Dying
<1>5. Strong'
  BY <1>0 DEF IInv, Strong, Doomed
<1>6. Buffer' /\ Gone'
  BY <1>0, <1>1 DEF IInv, Buffer, Buffering, Gone
<1>7. Weak'
  <2>1. Dropping' = Dropping /\ Suspecting' = Suspecting \cup {t} /\ t \notin Suspecting
    BY <1>0 DEF Dropping, Suspecting
  <2>2. Cardinality(Suspecting') = Cardinality(Suspecting) + 1
    BY <2>1, WeakParts, OneMore DEF IInv
  <2>3. WeakHeld' = WeakHeld + 1
    BY <1>0, <2>1, <2>2, WeakParts DEF IInv, WeakHeld
  <2> QED
    BY <1>0, <1>1, <2>3 DEF IInv, Weak
<1> QED
  BY <1>2, <1>3, <1>4, <1>5, <1>6, <1>7 DEF IInv

\* The buffer takes the unit over, or the suspect is discarded.
LEMMA QueueInv ==
  ASSUME CountAssumption, IInv, NEW t \in Task, Queue(t)
  PROVE  IInv'
<1> USE DEF Queue, Goto, At, header
<1>0. /\ pc[t] = "queue"
      /\ UNCHANGED <<strong, weak, dead, buffered, freed, destroyed, owners, readers,
                    used, nested, back>>
      /\ pc' \in [Task -> Label]
      /\ \A u \in Task \ {t} : pc'[u] = pc[u]
      /\ nested \subseteq Task /\ queued = FALSE /\ buffered = TRUE
      /\ \/ queued' = TRUE /\ pc'[t] = "down"
         \/ queued' = FALSE /\ pc'[t] = "discard"
  BY DEF IInv, TypeOK, Label, Buffer, Buffering
<1>1. ~freed
  BY <1>0, NotFreed
<1>2. TypeOK'
  <2>1. queued' \in BOOLEAN
    BY <1>0
  <2> QED
    BY <1>0, <2>1 DEF IInv, TypeOK, Label
<1>3. Places'
  BY <1>0 DEF IInv, Places, Releasing
<1>4. Death'
  BY <1>0 DEF IInv, Death, Doomed, Dying
<1>5. Strong'
  BY <1>0 DEF IInv, Strong, Doomed
<1>6. Buffer' /\ Gone'
  BY <1>0, <1>1 DEF IInv, Buffer, Buffering, Gone
<1>7. Weak'
  <2>1. Dropping' = Dropping
    BY <1>0 DEF Dropping
  <2>2. CASE queued' = TRUE /\ pc'[t] = "down"
    <3>1. Suspecting' = Suspecting \ {t} /\ t \in Suspecting
      BY <1>0, <2>2 DEF Suspecting
    <3>2. Cardinality(Suspecting') = Cardinality(Suspecting) - 1
      BY <3>1, WeakParts, OneLess DEF IInv
    <3>3. One(queued)' = 1 /\ One(queued) = 0
      BY <1>0, <2>2 DEF One
    <3>4. WeakHeld' = WeakHeld
      BY <1>0, <2>1, <3>1, <3>2, <3>3, WeakParts DEF IInv, WeakHeld
    <3> QED
      BY <1>0, <3>4 DEF IInv, Weak
  <2>3. CASE queued' = FALSE /\ pc'[t] = "discard"
    <3>1. Suspecting' = Suspecting
      BY <1>0, <2>3 DEF Suspecting
    <3> QED
      BY <1>0, <2>1, <2>3, <3>1 DEF IInv, Weak, WeakHeld
  <2> QED
    BY <1>0, <2>2, <2>3
<1> QED
  BY <1>2, <1>3, <1>4, <1>5, <1>6, <1>7 DEF IInv

\* A discarded suspect turns its unit into a drop.
LEMMA DiscardInv ==
  ASSUME CountAssumption, IInv, NEW t \in Task, Discard(t)
  PROVE  IInv'
<1> USE DEF Discard, Goto, At
<1>0. /\ pc[t] = "discard" /\ buffered' = FALSE
      /\ UNCHANGED <<strong, weak, dead, queued, freed, destroyed, owners, readers, used, nested>>
      /\ pc' \in [Task -> Label] /\ pc'[t] = "drop"
      /\ back' \in [Task -> {"idle", "down"}] /\ back'[t] = "down"
      /\ \A u \in Task \ {t} : pc'[u] = pc[u] /\ back'[u] = back[u]
      /\ nested \subseteq Task /\ queued = FALSE
  BY DEF IInv, TypeOK, Label, Buffer, Buffering
<1>1. ~freed
  BY <1>0, NotFreed
<1>2. TypeOK'
  BY <1>0 DEF IInv, TypeOK, Label
<1>3. Places'
  BY <1>0 DEF IInv, Places, Releasing
<1>4. Death'
  BY <1>0 DEF IInv, Death, Doomed, Dying
<1>5. Strong'
  BY <1>0 DEF IInv, Strong, Doomed
<1>6. Buffer' /\ Gone'
  BY <1>0, <1>1 DEF IInv, Buffer, Buffering, Gone
<1>7. Weak'
  <2>1. /\ Dropping' = Dropping \cup {t} /\ t \notin Dropping
        /\ Suspecting' = Suspecting \ {t} /\ t \in Suspecting
    BY <1>0 DEF Dropping, Suspecting
  <2>2. /\ Cardinality(Dropping') = Cardinality(Dropping) + 1
        /\ Cardinality(Suspecting') = Cardinality(Suspecting) - 1
    BY <2>1, WeakParts, OneMore, OneLess DEF IInv
  <2>3. WeakHeld' = WeakHeld
    BY <1>0, <2>2, WeakParts DEF IInv, WeakHeld
  <2> QED
    BY <1>0, <2>3 DEF IInv, Weak
<1> QED
  BY <1>2, <1>3, <1>4, <1>5, <1>6, <1>7 DEF IInv

\* The decrement: the last owner is the one to destroy the value.
LEMMA DownInv ==
  ASSUME CountAssumption, IInv, NEW t \in Task, Down(t)
  PROVE  IInv'
<1> USE DEF Down, Goto, At
<1>0. /\ pc[t] = "down" /\ t \in owners \cup nested
      /\ UNCHANGED <<weak, dead, buffered, queued, freed, destroyed, readers, used, back>>
      /\ strong' = IF strong = 0 THEN strong ELSE strong - 1
      /\ nested' = nested \ {t}
      /\ \A u \in Task \ {t} : pc'[u] = pc[u]
      /\ nested \subseteq Task /\ owners \subseteq Task
      /\ strong \in Nat /\ DtorGuard \in Nat /\ DtorGuard > 2
  BY GuardFact DEF IInv, TypeOK, Places, Releasing
<1>1. ~freed
  BY <1>0, NotFreed
<1>2. pc' \in [Task -> Label] /\ pc'[t] \in {"destroy", "bound", "idle"}
  BY DEF IInv, TypeOK, Label
<1>3. TypeOK'
  BY <1>0, <1>2 DEF IInv, TypeOK, Label
<1>4. Buffer' /\ Gone'
  BY <1>0, <1>1, <1>2 DEF IInv, Buffer, Buffering, Gone
<1>5. Weak'
  <2>1. Dropping' = Dropping /\ Suspecting' = Suspecting
    BY <1>0, <1>2 DEF Dropping, Suspecting
  <2> QED
    BY <1>0, <2>1 DEF IInv, Weak, WeakHeld
\* The destructor's own self: the guard is what is left.
<1>6. CASE t \in nested
  <2>1. Dying(t)
    BY <1>6 DEF Dying
  <2>2. destroyed = 1 /\ owners = {} /\ nested = {t} /\ \A u \in Task \ {t} : ~Dying(u)
    BY <1>0, <1>6, <2>1, Destroyer DEF IInv, Death
  <2>3. strong = DtorGuard + 1
    BY <2>2 DEF IInv, Strong
  <2>4. strong' = DtorGuard /\ owners' = {} /\ nested' = {} /\ pc'[t] = "bound"
    <3>1. strong # 0 /\ strong # 1 /\ strong - 1 = DtorGuard
      BY <1>0, <2>3
    <3> QED
      BY <1>0, <1>6, <2>2, <3>1 DEF IInv, TypeOK
  <2>5. \A u \in Task : ~Releasing(u)'
    BY <1>0, <2>2, <2>4 DEF IInv, Places, Releasing
  <2>6. Places'
    BY <1>0, <2>2, <2>4, <2>5 DEF IInv, Places
  <2>7. Doomed'
    BY <1>0, <2>2 DEF Doomed
  <2>8. \A u \in Task : Dying(u)' <=> u = t
    BY <1>0, <2>2, <2>4 DEF Dying
  <2>9. Death'
    BY <1>0, <2>1, <2>2, <2>4, <2>7, <2>8 DEF IInv, Death
  <2>10. Strong'
    BY <1>0, <2>2, <2>4, <2>7 DEF Strong
  <2> QED
    BY <1>3, <1>4, <1>5, <2>6, <2>9, <2>10 DEF IInv
\* An owner's: the last one goes on to destroy.
<1>7. CASE t \notin nested
  <2>1. t \in owners
    BY <1>0, <1>7
  <2>2. ~Doomed /\ destroyed = 0 /\ ~dead /\ nested = {} /\ strong = Cardinality(owners)
        /\ \A u \in Task : ~Dying(u)
    BY <2>1, Living
  <2>3. owners' = owners \ {t} /\ Cardinality(owners \ {t}) = Cardinality(owners) - 1
        /\ Cardinality(owners) \in Nat /\ Cardinality(owners \ {t}) \in Nat
    BY <1>0, <1>7, <2>1, OneLess, TaskSet
  <2>4. strong' = Cardinality(owners') /\ (strong = 1 <=> owners' = {})
    <3>1. Cardinality(owners \ {t}) = 0 <=> owners \ {t} = {}
      BY <1>0, TaskSet
    <3> QED
      BY <1>0, <2>2, <2>3, <3>1
  <2>5. IF owners' = {} THEN pc'[t] = "destroy" ELSE pc'[t] = "idle"
    <3>1. pc'[t] = CASE strong = 1 -> "destroy"
                     [] strong # 1 /\ t \in nested -> "bound"
                     [] OTHER -> "idle"
      BY DEF IInv, TypeOK
    <3> QED
      BY <1>7, <2>4, <3>1
  <2>6. Places'
    <3>1. ASSUME NEW u \in Task, pc'[u] = "weak"
          PROVE  u \in owners' /\ (owners' = {u} \/ used' # {})
      <4>1. u # t /\ pc[u] = "weak" /\ u \in owners /\ used # {}
        BY <1>0, <1>2, <2>1, <3>1 DEF IInv, Places
      <4> QED
        BY <1>0, <2>3, <4>1
    <3>2. \A u \in Task : pc'[u] = "upgrade" => u \in readers' \ owners'
      BY <1>0, <1>2, <2>3 DEF IInv, Places
    <3>3. \A u \in Task : Releasing(u)' => u \in owners' \cup nested'
      BY <1>0, <1>2, <2>2, <2>3 DEF IInv, Places, Releasing
    <3> QED
      BY <1>0, <2>2, <3>1, <3>2, <3>3 DEF Places
  <2>7. \A u \in Task : Dying(u)' => u = t /\ pc'[t] = "destroy"
    BY <1>0, <1>2, <2>2, <2>5 DEF Dying
  <2>8. Doomed' <=> owners' = {}
    <3>1. \A u \in Task \ {t} : pc'[u] # "destroy"
      BY <1>0, <2>2 DEF Dying
    <3> QED
      BY <1>0, <2>2, <2>5, <3>1 DEF Doomed
  <2>9. Death'
    BY <1>0, <1>1, <2>2, <2>7, <2>8 DEF Death
  <2>10. Strong'
    <3>1. Doomed' => strong' = 0
      BY <2>4, <2>8, FS_EmptySet
    <3> QED
      BY <1>0, <2>2, <2>4, <3>1 DEF Strong
  <2> QED
    BY <1>3, <1>4, <1>5, <2>6, <2>9, <2>10 DEF IInv
<1> QED
  BY <1>6, <1>7

-----------------------------------------------------------------------------
(* The destructor.                                                         *)

\* The destructor begins, with the guard in the strong count.
LEMMA DestroyInv ==
  ASSUME CountAssumption, IInv, NEW t \in Task, Destroy(t)
  PROVE  IInv'
<1> USE DEF Destroy, Goto, At
<1>0. /\ pc[t] = "destroy" /\ Dying(t) /\ destroyed = 0
      /\ strong' = DtorGuard /\ destroyed' = 1
      /\ UNCHANGED <<weak, dead, buffered, queued, freed, owners, readers, used, nested, back>>
      /\ pc' \in [Task -> Label] /\ pc'[t] = "body"
      /\ \A u \in Task \ {t} : pc'[u] = pc[u]
  BY DEF IInv, TypeOK, Label, Dying, Death
<1>1. ~freed
  BY <1>0, NotFreed
<1>2. owners = {} /\ dead = FALSE /\ nested = {} /\ \A u \in Task \ {t} : ~Dying(u)
  BY <1>0, Destroyer DEF Releasing
<1>3. TypeOK'
  BY <1>0, GuardFact DEF IInv, TypeOK, Label
<1>4. Places'
  BY <1>0, <1>2 DEF IInv, Places, Releasing
<1>5. Death'
  <2>1. Doomed'
    BY <1>0 DEF Doomed
  <2>2. \A u \in Task : Dying(u)' <=> u = t
    BY <1>0, <1>2 DEF Dying
  <2> QED
    BY <1>0, <1>2, <2>1, <2>2 DEF Death
<1>6. Strong'
  BY <1>0, <1>2 DEF Strong, Doomed
<1>7. Buffer' /\ Gone'
  BY <1>0, <1>1 DEF IInv, Buffer, Buffering, Gone
<1>8. Weak'
  <2>1. Dropping' = Dropping /\ Suspecting' = Suspecting
    BY <1>0 DEF Dropping, Suspecting
  <2> QED
    BY <1>0, <2>1 DEF IInv, Weak, WeakHeld
<1> QED
  BY <1>3, <1>4, <1>5, <1>6, <1>7, <1>8 DEF IInv

\* The destructor binds its `self`, one unit above the guard.
LEMMA BindSelfInv ==
  ASSUME CountAssumption, IInv, NEW t \in Task, BindSelf(t)
  PROVE  IInv'
<1> USE DEF BindSelf, Goto, At
<1>0. /\ pc[t] = "body" /\ Dying(t) /\ destroyed = 1
      /\ strong' = strong + 1 /\ nested' = nested \cup {t}
      /\ UNCHANGED <<weak, dead, buffered, queued, freed, destroyed, owners, readers, used, back>>
      /\ pc' \in [Task -> Label] /\ pc'[t] = "shared"
      /\ \A u \in Task \ {t} : pc'[u] = pc[u]
      /\ DtorGuard \in Nat
  BY GuardFact DEF IInv, TypeOK, Label, Dying, Death
<1>1. ~freed
  BY <1>0, NotFreed
<1>2. owners = {} /\ dead = FALSE /\ nested = {} /\ \A u \in Task \ {t} : ~Dying(u)
  BY <1>0, Destroyer DEF Releasing
<1>3. strong' = DtorGuard + 1 /\ nested' = {t}
  BY <1>0, <1>2 DEF IInv, Strong
<1>4. TypeOK'
  BY <1>0, <1>3 DEF IInv, TypeOK, Label
<1>5. Places'
  BY <1>0, <1>2, <1>3 DEF IInv, Places, Releasing
<1>6. Death'
  <2>1. Doomed'
    BY <1>0 DEF Doomed
  <2>2. \A u \in Task : Dying(u)' <=> u = t
    BY <1>0, <1>2, <1>3 DEF Dying
  <2> QED
    BY <1>0, <1>2, <2>1, <2>2 DEF Death
<1>7. Strong'
  BY <1>0, <1>3 DEF Strong, Doomed
<1>8. Buffer' /\ Gone'
  BY <1>0, <1>1 DEF IInv, Buffer, Buffering, Gone
<1>9. Weak'
  <2>1. Dropping' = Dropping /\ Suspecting' = Suspecting
    BY <1>0 DEF Dropping, Suspecting
  <2> QED
    BY <1>0, <2>1 DEF IInv, Weak, WeakHeld
<1> QED
  BY <1>4, <1>5, <1>6, <1>7, <1>8, <1>9 DEF IInv

\* The destructor is over: alone, it frees the header at once.
LEMMA DiedInv ==
  ASSUME CountAssumption, IInv, NEW t \in Task, Died(t)
  PROVE  IInv'
<1> USE DEF Died, Goto, At, header
<1>0. /\ pc[t] \in {"body", "bound"} /\ Dying(t) /\ destroyed = 1
      /\ UNCHANGED <<strong, weak, dead, buffered, queued, destroyed, owners, readers,
                    used, nested, back>>
      /\ pc' \in [Task -> Label]
      /\ \A u \in Task \ {t} : pc'[u] = pc[u]
      /\ \/ weak = 1 /\ pc'[t] = "idle" /\ freed' = TRUE
         \/ weak # 1 /\ pc'[t] = "dead" /\ freed' = freed
  BY DEF IInv, TypeOK, Label, Dying, Death
<1>1. freed = FALSE
  BY <1>0, NotFreed DEF IInv, TypeOK
<1>2. owners = {} /\ dead = FALSE /\ nested = {} /\ \A u \in Task \ {t} : ~Dying(u)
  BY <1>0, Destroyer DEF Releasing
<1>3. TypeOK'
  <2>1. freed' \in BOOLEAN
    BY <1>0, <1>1
  <2> QED
    BY <1>0, <2>1 DEF IInv, TypeOK, Label
<1>4. Places'
  BY <1>0, <1>2 DEF IInv, Places, Releasing
<1>5. Strong'
  BY <1>0 DEF IInv, Strong, Doomed
<1>6. Buffer'
  BY <1>0 DEF IInv, Buffer, Buffering
<1>7. Doomed'
  BY <1>0 DEF Doomed
<1>8. CASE weak = 1
  <2>1. readers = {} /\ Dropping = {} /\ ~queued
    BY <1>1, <1>2, <1>8, LastUnit
  <2>2. \A u \in Task : pc'[u] = "idle"
    BY <1>0, <1>2, <1>8, <2>1, Resting
  <2>3. Gone'
    BY <1>0, <1>2, <2>1, <2>2 DEF Gone
  <2>4. \A u \in Task : ~Dying(u)'
    BY <1>0, <1>2, <2>2 DEF Dying
  <2>5. Death'
    BY <1>0, <1>2, <1>7, <1>8, <2>4 DEF Death
  <2>6. Weak'
    BY <1>0, <1>8 DEF Weak
  <2> QED
    BY <1>3, <1>4, <1>5, <1>6, <2>3, <2>5, <2>6 DEF IInv
<1>9. CASE weak # 1
  <2>1. \A u \in Task : Dying(u)' <=> u = t
    BY <1>0, <1>2, <1>9 DEF Dying
  <2>2. Death'
    BY <1>0, <1>2, <1>7, <1>9, <2>1 DEF Death
  <2>3. Dropping' = Dropping /\ Suspecting' = Suspecting
    BY <1>0, <1>9 DEF Dropping, Suspecting
  <2>4. Weak' /\ Gone'
    BY <1>0, <1>1, <1>9, <2>3 DEF IInv, Weak, WeakHeld, Gone
  <2> QED
    BY <1>3, <1>4, <1>5, <1>6, <2>2, <2>4 DEF IInv
<1> QED
  BY <1>8, <1>9

\* With readers left the value is marked dead and its unit dropped.
LEMMA SetDeadInv ==
  ASSUME CountAssumption, IInv, NEW t \in Task, SetDead(t)
  PROVE  IInv'
<1> USE DEF SetDead, Goto, At
<1>0. /\ pc[t] = "dead" /\ Dying(t) /\ destroyed = 1 /\ dead' = TRUE
      /\ UNCHANGED <<strong, weak, buffered, queued, freed, destroyed, owners,
                    readers, used, nested>>
      /\ pc' \in [Task -> Label] /\ pc'[t] = "drop"
      /\ back' \in [Task -> {"idle", "down"}] /\ back'[t] = "idle"
      /\ \A u \in Task \ {t} : pc'[u] = pc[u] /\ back'[u] = back[u]
  BY DEF IInv, TypeOK, Label, Dying, Death
<1>1. ~freed
  BY <1>0, NotFreed
<1>2. owners = {} /\ dead = FALSE /\ nested = {} /\ \A u \in Task \ {t} : ~Dying(u)
  BY <1>0, Destroyer DEF Releasing
<1>3. TypeOK'
  BY <1>0 DEF IInv, TypeOK, Label
<1>4. Places'
  BY <1>0, <1>2 DEF IInv, Places, Releasing
<1>5. Strong'
  BY <1>0 DEF IInv, Strong, Doomed
<1>6. Buffer' /\ Gone'
  BY <1>0, <1>1 DEF IInv, Buffer, Buffering, Gone
<1>7. Death'
  <2>1. Doomed'
    BY <1>0 DEF Doomed
  <2>2. \A u \in Task : ~Dying(u)'
    BY <1>0, <1>2 DEF Dying
  <2> QED
    BY <1>0, <1>2, <2>1, <2>2 DEF Death
<1>8. Weak'
  <2>1. Dropping' = Dropping \cup {t} /\ t \notin Dropping /\ Suspecting' = Suspecting
    BY <1>0 DEF Dropping, Suspecting
  <2>2. Cardinality(Dropping') = Cardinality(Dropping) + 1
    BY <2>1, WeakParts, OneMore DEF IInv
  <2>3. One(~dead)' = 0 /\ One(~dead) = 1
    BY <1>0, <1>2 DEF One
  <2>4. WeakHeld' = WeakHeld
    BY <1>0, <2>1, <2>2, <2>3, WeakParts DEF IInv, WeakHeld
  <2> QED
    BY <1>0, <2>4 DEF IInv, Weak
<1> QED
  BY <1>3, <1>4, <1>5, <1>6, <1>7, <1>8 DEF IInv

-----------------------------------------------------------------------------
(* The collector's drain, and every step.                                  *)

\* The collector drops the buffer's unit.
LEMMA DrainInv ==
  ASSUME CountAssumption, IInv, Drain
  PROVE  IInv'
<1> USE DEF Drain
<1>0. /\ queued = TRUE /\ queued' = FALSE /\ buffered' = FALSE
      /\ \A t \in Task : pc[t] \in {"idle", "body"}
      /\ weak' = weak - 1 /\ weak \in Nat
      /\ UNCHANGED <<strong, dead, destroyed, owners, readers, used, nested, pc, back>>
  BY DEF IInv, TypeOK
<1>1. freed = FALSE /\ weak # 0
  BY <1>0, NotFreed DEF IInv, TypeOK, Weak
<1>2. freed' = (weak = 1) /\ freed' \in BOOLEAN
  BY <1>1
<1>3. TypeOK'
  <2>1. weak' \in Nat
    BY <1>0, <1>1
  <2> QED
    BY <1>0, <1>2, <2>1 DEF IInv, TypeOK
<1>4. Places'
  BY <1>0 DEF IInv, Places, Releasing
<1>5. Death'
  <2>1. (Doomed' <=> Doomed) /\ \A t \in Task : Dying(t)' <=> Dying(t)
    BY <1>0 DEF Doomed, Dying, At
  <2> QED
    BY <1>0, <1>1, <2>1 DEF IInv, Death, At
<1>6. Strong'
  BY <1>0 DEF IInv, Strong, Doomed, At
<1>7. Buffer'
  BY <1>0 DEF Buffer, Buffering
<1>8. CASE weak = 1
  <2>1. readers = {} /\ dead
    BY <1>0, <1>1, <1>8, LastUnit
  <2>2. owners = {} /\ \A t \in Task : ~Dying(t)
    BY <2>1 DEF IInv, Death, Doomed
  <2>3. \A t \in Task : pc[t] = "idle"
    BY <1>0, <2>2 DEF Dying
  <2> QED
    BY <1>0, <1>2, <1>3, <1>4, <1>5, <1>6, <1>7, <1>8, <2>1, <2>2, <2>3
       DEF IInv, Gone, Weak, At
<1>9. CASE weak # 1
  <2>1. freed' = FALSE
    BY <1>2, <1>9
  <2>2. Dropping' = Dropping /\ Suspecting' = Suspecting
    BY <1>0 DEF Dropping, Suspecting
  <2>3. One(queued)' = 0 /\ One(queued) = 1 /\ One(~dead)' = One(~dead)
    BY <1>0 DEF One
  <2>4. WeakHeld' = WeakHeld - 1
    <3>1. /\ Cardinality(readers) \in Nat /\ Cardinality(Dropping) \in Nat
          /\ Cardinality(Suspecting) \in Nat /\ One(~dead) \in Nat
      BY WeakParts DEF IInv, One
    <3>2. readers' = readers /\ dead' = dead
      BY <1>0
    <3>3. WeakHeld' = Cardinality(readers) + Cardinality(Dropping) + Cardinality(Suspecting)
                        + One(queued)' + One(~dead)
      BY <2>2, <3>2 DEF WeakHeld
    <3> HIDE DEF Drain
    <3> QED
      BY <2>3, <3>1, <3>3 DEF WeakHeld
  <2>5. Weak' /\ Gone'
    BY <1>0, <1>1, <1>9, <2>1, <2>4 DEF IInv, Weak, Gone
  <2> QED
    BY <1>3, <1>4, <1>5, <1>6, <1>7, <2>5 DEF IInv
<1> QED
  BY <1>8, <1>9

\* Every step keeps the invariant, if no read reference is dropped early.
LEMMA StepInv ==
  ASSUME CountAssumption, EarlyDrop = FALSE, IInv, [Next]_vars
  PROVE  IInv'
<1>1. CASE \E t, u \in Task : Retain(t, u) \/ WeakRetain(t, u)
  BY <1>1, RetainInv, WeakRetainInv
<1>2. ASSUME NEW t \in Task,
             \/ UpgradeFlags(t) \/ Upgrade(t) \/ WeakRelease(t) \/ DropLoad(t) \/ DropSub(t)
             \/ LoadStrong(t) \/ LoadWeak(t) \/ Suspect(t) \/ Mark(t) \/ TakeWeak(t)
             \/ Queue(t) \/ Discard(t) \/ Down(t)
             \/ Destroy(t) \/ BindSelf(t) \/ Died(t) \/ SetDead(t)
      PROVE  IInv'
  BY <1>2, MoveInv, UpgradeInv, WeakReleaseInv, DropInv, LoadWeakInv, MarkInv,
     TakeWeakInv, QueueInv, DiscardInv, DownInv, DestroyInv, BindSelfInv, DiedInv, SetDeadInv
<1>3. CASE Drain
  BY <1>3, DrainInv
<1>4. CASE UNCHANGED vars
  BY <1>4 DEF vars, IInv, TypeOK, Places, Releasing, Death, Doomed, Dying, Strong,
     Buffer, Buffering, Weak, WeakHeld, Dropping, Suspecting, Gone, At
<1> QED
  BY <1>1, <1>2, <1>3, <1>4 DEF Next

\* The invariant holds in every behaviour.
LEMMA Inductive ==
  ASSUME CountAssumption, EarlyDrop = FALSE
  PROVE  Spec => []IInv
<1>1. IInv /\ [Next]_vars => IInv'
  BY StepInv
<1> QED
  BY InitInv, <1>1, PTL DEF Spec

\* One destruction, and by the last owner.
LEMMA InvDestroyed == IInv => DestroyedByLast
BY DEF IInv, Death, Doomed, DestroyedByLast

\* No later than the last holder ...
LEMMA InvHeader ==
  ASSUME CountAssumption, IInv
  PROVE  HeaderHeld
<1>1. freed => owners = {} /\ readers = {} /\ ~queued /\ \A t \in Task : At(t, "idle")
  BY DEF IInv, Gone
<1>2. ASSUME owners = {}, readers = {}, ~queued, \A t \in Task : At(t, "idle"), ~freed
      PROVE  FALSE
  <2>1. Dropping = {} /\ Suspecting = {}
    BY <1>2 DEF Dropping, Suspecting, At
  <2>2. \A t \in Task : ~Dying(t)
    BY <1>2 DEF IInv, Places, Releasing, Dying, At
  <2>3. dead
    BY <1>2, <2>2 DEF IInv, Death, Doomed, At
  <2>4. WeakHeld = 0
    BY <1>2, <2>1, <2>3, FS_EmptySet DEF WeakHeld, One
  <2> QED
    BY <1>2, <2>4 DEF IInv, Weak
<1> QED
  BY <1>1, <1>2 DEF HeaderHeld, IInv, TypeOK

\* Every variable of a struct's counts has its type, whatever tasks share it.
THEOREM CountTypes ==
  ASSUME CountAssumption, EarlyDrop = FALSE
  PROVE  Spec => []TypeOK
<1>1. IInv => TypeOK
  BY DEF IInv
<1> QED
  BY Inductive, <1>1, PTL

\* The destructor of a struct runs once, when nobody owns the struct any more,
\* whichever tasks retain, release, upgrade and suspect it at once
\* (pith_struct_release, pith_struct_weak_upgrade).
THEOREM DestroyedByLastAlways ==
  ASSUME CountAssumption, EarlyDrop = FALSE
  PROVE  Spec => []DestroyedByLast
BY Inductive, InvDestroyed, PTL

\* A struct's header is freed by the last of its owner, its weak references,
\* the suspect buffer's entry and the releases under way: not before and not
\* after (struct_weak_drop, discard_suspect, the collector's drain).
THEOREM HeaderHeldAlways ==
  ASSUME CountAssumption, EarlyDrop = FALSE
  PROVE  Spec => []HeaderHeld
<1>1. IInv => HeaderHeld
  BY InvHeader
<1> QED
  BY Inductive, <1>1, PTL
=============================================================================
