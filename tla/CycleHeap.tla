------------------------------- MODULE CycleHeap -------------------------------
(***************************************************************************)
(* Counted values and the cycle collector (runtime_core.rs, list.rs,       *)
(* map.rs, cycle.rs).  A struct has a header that outlives its value; a    *)
(* list stands for the kinds without one: lists, maps and closures.  A     *)
(* mutator makes values, stores them in each other and lets go of them; a  *)
(* value that dies releases its children one after the other, and a `Drop` *)
(* method may run first.  The collector drains the suspects, finds the     *)
(* garbage among what they reach by trial deletion, and takes it down.     *)
(* The world is stopped for it, so the mutator stands between two          *)
(* operations or in a `Drop` method at a safe-point: a heap operation is a *)
(* step (StructCount has its parts, WorldStop the stop).                   *)
(***************************************************************************)
EXTENDS Naturals, Sequences, FiniteSets, Garbage

CONSTANTS
  Struct, List,   \* the memory there is for each kind
  Gated,          \* structs with a `Drop` method that has a safe-point
  Fields,         \* children of a value
  MayOwn,         \* <<p, o>>: the type of p has fields of o's type
  None,
  DtorGuard,      \* STRUCT_DTOR_GUARD, 2^31
  WhiteGuard,     \* WHITE_GUARD, 2^30: above any real count
  Cap,            \* CYCLE_SUSPECT_CAP
  MaxHeld         \* bound on the references a mutator holds to one value

Obj == Struct \cup List

VARIABLES
  life,        \* live; dying: releasing its children; dead: only the header
               \* is left; shell: only the box is left, in the graveyard
  strong, weak,
  kids,        \* a slot is not cleared when a destructor has released it
  held, wheld, \* the mutator's strong and weak references
  buffered,    \* the mark in the value
  suspects, graveyard,    \* SUSPECTS, GRAVEYARD
  overflowed,  \* the cap has turned a suspect away
  stack,       \* destructions under way: the value, the child that is next
               \* (0: the `Drop` method), and whether it frees the value
  phase,       \* where the collection is
  floor,       \* the mutator's part of the stack
  roots, parked, whites, todo    \* locals of collect

counts == <<strong, weak>>
buffer == <<buffered, suspects, overflowed>>
refs == <<held, wheld>>
pass == <<phase, floor, roots, parked, whites, todo>>
vars == <<life, strong, weak, kids, held, wheld, buffered, suspects, graveyard,
          overflowed, stack, phase, floor, roots, parked, whites, todo>>

Nothing == [f \in 1..Fields |-> None]

Init ==
  /\ life = [o \in Obj |-> "free"]
  /\ strong = [o \in Obj |-> 0] /\ weak = [o \in Obj |-> 0]
  /\ kids = [o \in Obj |-> Nothing]
  /\ held = [o \in Obj |-> 0] /\ wheld = [o \in Obj |-> FALSE]
  /\ buffered = [o \in Obj |-> FALSE] /\ suspects = {} /\ graveyard = {}
  /\ overflowed = FALSE /\ stack = <<>>
  /\ phase = "run" /\ floor = 0 /\ roots = {} /\ parked = {} /\ whites = {} /\ todo = {}

\* What the magic word and the dead bit say: the value can be walked.
Valid(o) == life[o] \in {"live", "dying"}

\* A destruction begins with the `Drop` method, where there is one.
Frame(o, frees) == [obj |-> o, at |-> IF o \in Gated THEN 0 ELSE 1, frees |-> frees]

InDrop == stack # <<>> /\ Head(stack).at = 0

-----------------------------------------------------------------------------
(* Counts                                                                  *)

\* A count that is given up while others stay may have been the last one
\* from outside a cycle.
SuspectsWhom(o) == strong[o] > 1 /\ ~buffered[o]

\* maybe_suspect_struct, maybe_suspect_list and cycle_suspect: at the cap
\* the mark is taken back.
Suspect(o) ==
  LET admitted == SuspectsWhom(o) /\ Cardinality(suspects) < Cap
  IN /\ buffered' = [buffered EXCEPT ![o] = @ \/ admitted]
     /\ suspects' = suspects \cup {x \in {o} : admitted}
     /\ weak' = [weak EXCEPT ![o] = IF admitted /\ o \in Struct THEN @ + 1 ELSE @]
     /\ overflowed' = (overflowed \/ (SuspectsWhom(o) /\ ~admitted))

\* A release: the hook, the count, and the start of the destruction on top of
\* `rest`.  A struct's runs under a guard count, a list's at zero.
Release(o, rest) ==
  /\ Suspect(o)
  /\ IF strong[o] = 1
       THEN /\ strong' = [strong EXCEPT ![o] = IF o \in Struct THEN DtorGuard ELSE 0]
            /\ life' = [life EXCEPT ![o] = "dying"]
            /\ stack' = <<Frame(o, TRUE)>> \o rest
       ELSE /\ strong' = [strong EXCEPT ![o] = IF @ = 0 THEN 0 ELSE @ - 1]
            /\ stack' = rest
            /\ UNCHANGED life

\* Memory that is given back holds nothing.
Cleared(f, S, zero) == [o \in Obj |-> IF o \in S THEN zero ELSE f[o]]
Free(S) ==
  /\ strong' = Cleared(strong, S, 0)
  /\ kids' = Cleared(kids, S, Nothing)

-----------------------------------------------------------------------------
(* Mutator.  It runs while no collection does, outside destructors or in a *)
(* `Drop` method, which borrows its value.                                 *)

Running == phase = "run" /\ (stack = <<>> \/ InDrop)
Reads(p) == held[p] > 0 \/ (InDrop /\ Head(stack).obj = p)

\* A `Drop` method that the collector runs.  What it does is modelled as far as
\* it is about the garbage: a white's count is below STRUCT_DTOR_GUARD, so it can
\* be upgraded, also when its own destructor has run.
Sweeping == phase = "destroy" /\ InDrop /\ Len(stack) > floor
Touches(o) == Running \/ (Sweeping /\ o \in whites)

Alloc(o) ==
  /\ Running /\ life[o] = "free"
  /\ life' = [life EXCEPT ![o] = "live"]
  /\ strong' = [strong EXCEPT ![o] = 1] /\ held' = [held EXCEPT ![o] = 1]
  /\ weak' = [weak EXCEPT ![o] = IF o \in Struct THEN 1 ELSE 0]
  /\ UNCHANGED <<kids, wheld, buffer, graveyard, stack, pass>>

Store(p, f, o) ==
  /\ Running /\ Reads(p) /\ held[o] > 0 /\ <<p, o>> \in MayOwn /\ kids[p][f] = None
  /\ kids' = [kids EXCEPT ![p][f] = o]
  /\ strong' = [strong EXCEPT ![o] = @ + 1]
  /\ UNCHANGED <<life, weak, refs, buffer, graveyard, stack, pass>>

Load(p, f) ==
  /\ Running /\ Reads(p) /\ kids[p][f] # None
  /\ LET o == kids[p][f]
     IN /\ held[o] < MaxHeld
        /\ strong' = [strong EXCEPT ![o] = @ + 1] /\ held' = [held EXCEPT ![o] = @ + 1]
  /\ UNCHANGED <<life, weak, kids, wheld, buffer, graveyard, stack, pass>>

Clear(p, f) ==
  /\ Running /\ Reads(p) /\ kids[p][f] # None
  /\ kids' = [kids EXCEPT ![p][f] = None]
  /\ Release(kids[p][f], stack)
  /\ UNCHANGED <<refs, graveyard, pass>>

LetGo(o) ==
  /\ Touches(o) /\ held[o] > 0
  /\ held' = [held EXCEPT ![o] = @ - 1]
  /\ Release(o, stack)
  /\ UNCHANGED <<kids, wheld, graveyard, pass>>

WeakRetain(o) ==
  /\ Running /\ o \in Struct /\ held[o] > 0 /\ ~wheld[o]
  /\ wheld' = [wheld EXCEPT ![o] = TRUE] /\ weak' = [weak EXCEPT ![o] = @ + 1]
  /\ UNCHANGED <<life, strong, kids, held, buffer, graveyard, stack, pass>>

\* struct_weak_drop: the last weak count takes the header with it.
WeakRelease(o) ==
  /\ Running /\ wheld[o]
  /\ wheld' = [wheld EXCEPT ![o] = FALSE] /\ weak' = [weak EXCEPT ![o] = @ - 1]
  /\ IF weak[o] = 1 THEN life' = [life EXCEPT ![o] = "free"] /\ Free({o})
                    ELSE UNCHANGED <<life, strong, kids>>
  /\ UNCHANGED <<held, buffer, graveyard, stack, pass>>

\* weak_upgrade: not a dead value, nor one whose destructor runs.
Upgrade(o) ==
  /\ Touches(o) /\ wheld[o] /\ life[o] # "dead" /\ strong[o] < DtorGuard
  /\ held[o] < MaxHeld
  /\ strong' = [strong EXCEPT ![o] = @ + 1] /\ held' = [held EXCEPT ![o] = @ + 1]
  /\ UNCHANGED <<life, weak, kids, wheld, buffer, graveyard, stack, pass>>

-----------------------------------------------------------------------------
(* Destruction, by the mutator or by the collector                         *)

Busy == phase \in {"run", "destroy"} /\ stack # <<>> /\ (phase = "destroy" => Len(stack) > floor)

\* The method has let go of the garbage it took up: `self` and what belongs to it
\* are not to escape.
DropReturns ==
  /\ Busy /\ InDrop
  /\ Sweeping => \A o \in whites : held[o] = 0
  /\ stack' = [stack EXCEPT ![1].at = 1]
  /\ UNCHANGED <<life, counts, kids, refs, buffer, graveyard, pass>>

\* The next child is released; the slot keeps its pointer.
ReleaseChild ==
  /\ Busy /\ Head(stack).at \in 1..Fields
  /\ LET d == Head(stack)
         child == kids[d.obj][d.at]
         rest == [stack EXCEPT ![1].at = @ + 1]
     IN IF child = None THEN stack' = rest /\ UNCHANGED <<life, counts, buffer>>
                        ELSE Release(child, rest)
  /\ UNCHANGED <<kids, refs, graveyard, pass>>

DiedAtOnce ==    \* a mutant
  /\ Busy /\ Head(stack).at > Fields /\ Head(stack).frees
  /\ stack' = Tail(stack)
  /\ LET o == Head(stack).obj
         stays == o \in Struct /\ weak[o] > 1
     IN /\ life' = [life EXCEPT ![o] = IF stays THEN "dead" ELSE "free"]
        /\ Free({o})
        /\ weak' = [weak EXCEPT ![o] = IF o \in Struct THEN @ - 1 ELSE @]
  /\ UNCHANGED <<refs, buffer, graveyard, pass>>

\* The tail of a release: a struct's header stays for its weak references,
\* a buffered list's box for the collector.
Died ==
  /\ Busy /\ Head(stack).at > Fields /\ Head(stack).frees
  /\ stack' = Tail(stack)
  /\ LET o == Head(stack).obj
         stays == IF o \in Struct THEN weak[o] > 1 ELSE buffered[o]
     IN /\ life' = [life EXCEPT ![o] = CASE ~stays -> "free"
                                         [] stays /\ o \in Struct -> "dead"
                                         [] stays /\ o \in List -> "shell"]
        /\ Free({o})
        /\ weak' = [weak EXCEPT ![o] = IF o \in Struct THEN @ - 1 ELSE @]
        /\ graveyard' = graveyard \cup {x \in {o} : stays /\ o \in List}
  /\ UNCHANGED <<refs, buffer, pass>>

-----------------------------------------------------------------------------
(* collect                                                                 *)

\* Every count that a value owns, as a triple.  A pointer in a slot that has
\* been released is an edge while it leads to a value.
Edges == {<<p, f, kids[p][f]>> : <<p, f>> \in
            {<<p, f>> \in Obj \X (1..Fields) : Valid(p) /\ kids[p][f] # None /\ Valid(kids[p][f])}}

\* A mutant: the counts from values that are not roots themselves are forgotten.
CondemnedFew == {o \in roots : strong[o] <= Inner(Edges, roots, o)}

\* Trial deletion from the roots (TrialDeletion has its steps).
Condemned == Unowned(Edges, strong, roots)

\* The world is stopped: the mutator may be in a `Drop` method.
Drain ==
  /\ Running
  /\ phase' = "condemn" /\ floor' = Len(stack)
  /\ parked' = graveyard /\ graveyard' = {}
  /\ suspects' = {} /\ roots' = {o \in suspects : Valid(o)}
  /\ buffered' = [o \in Obj |-> buffered[o] /\ (o \notin suspects \/ life[o] = "shell")]
  /\ LET corpses == {o \in suspects \cap Struct : life[o] = "dead"}
         over == {o \in corpses : weak[o] = 1}
     IN /\ weak' = [o \in Obj |-> IF o \in corpses THEN weak[o] - 1 ELSE weak[o]]
        /\ life' = Cleared(life, over, "free") /\ Free(over)
  /\ UNCHANGED <<refs, overflowed, stack, whites, todo>>

\* guard_white: no release from another white can reach a death.
Condemn ==
  /\ phase = "condemn"
  /\ whites' = Condemned /\ todo' = whites'
  /\ strong' = [o \in Obj |-> strong[o] + (IF o \in whites' THEN WhiteGuard ELSE 0)]
  /\ phase' = "destroy"
  /\ UNCHANGED <<life, weak, kids, refs, buffer, graveyard, stack, floor, roots, parked>>

\* destroy_white, in the order of a hash map.
Destroy(o) ==
  /\ phase = "destroy" /\ Len(stack) = floor /\ o \in todo
  /\ todo' = todo \ {o}
  /\ stack' = <<Frame(o, FALSE)>> \o stack
  /\ UNCHANGED <<life, counts, kids, refs, buffer, graveyard, phase, floor, roots, parked, whites>>

\* A list's storage is emptied, a struct's slots keep what they held.
Destroyed ==
  /\ Busy /\ Head(stack).at > Fields /\ ~Head(stack).frees
  /\ stack' = Tail(stack)
  /\ kids' = Cleared(kids, {Head(stack).obj} \cap List, Nothing)
  /\ UNCHANGED <<life, counts, refs, buffer, graveyard, pass>>

\* free_white_shell for each white: its value is gone, and its header or box
\* too unless a weak count or a fresh entry of the buffer holds it.
FreeShells ==
  /\ phase = "destroy" /\ todo = {} /\ Len(stack) = floor
  /\ phase' = "finish"
  /\ LET stays == {o \in whites : IF o \in Struct THEN weak[o] > 1 ELSE buffered[o]}
     IN /\ life' = [o \in Obj |-> CASE o \in whites \ stays -> "free"
                                    [] o \in stays \cap Struct -> "dead"
                                    [] o \in stays \cap List -> "shell"
                                    [] OTHER -> life[o]]
        /\ Free(whites)
        /\ weak' = [o \in Obj |-> IF o \in whites \cap Struct THEN weak[o] - 1 ELSE weak[o]]
        /\ graveyard' = graveyard \cup (stays \cap List)
  /\ UNCHANGED <<refs, buffer, stack, floor, roots, parked, whites, todo>>

FinishKept ==    \* a mutant
  /\ phase = "finish"
  /\ life' = Cleared(life, parked, "free") /\ buffered' = Cleared(buffered, parked, FALSE)
  /\ phase' = "run" /\ floor' = 0
  /\ roots' = {} /\ parked' = {} /\ whites' = {}
  /\ UNCHANGED <<counts, kids, refs, suspects, overflowed, graveyard, stack, todo>>

\* The boxes of the snapshot go, and the buffer's weak counts on the roots.
Finish ==
  /\ phase = "finish"
  /\ LET kept == roots \cap Struct
         over == {o \in kept : weak[o] = 1}
     IN /\ weak' = [o \in Obj |-> IF o \in kept THEN weak[o] - 1 ELSE weak[o]]
        /\ life' = Cleared(life, over \cup parked, "free")
        /\ buffered' = Cleared(buffered, parked, FALSE)
  /\ phase' = "run" /\ floor' = 0
  /\ roots' = {} /\ parked' = {} /\ whites' = {}
  /\ UNCHANGED <<strong, kids, refs, suspects, overflowed, graveyard, stack, todo>>

Next ==
  \/ \E o \in Obj : Alloc(o) \/ LetGo(o) \/ WeakRetain(o) \/ WeakRelease(o) \/ Upgrade(o)
  \/ \E p, o \in Obj, f \in 1..Fields : Store(p, f, o)
  \/ \E p \in Obj, f \in 1..Fields : Load(p, f) \/ Clear(p, f)
  \/ DropReturns \/ ReleaseChild \/ Died
  \/ Drain \/ Condemn \/ (\E o \in Obj : Destroy(o)) \/ Destroyed \/ FreeShells \/ Finish

Spec == Init /\ [][Next]_vars

-----------------------------------------------------------------------------
(* Properties                                                              *)

\* Every variable has its type.
TypeOK ==
  /\ life \in [Obj -> {"free", "live", "dying", "dead", "shell"}]
  /\ \A o \in Obj : strong[o] \in Nat /\ weak[o] \in Nat /\ held[o] \in 0..MaxHeld
  /\ kids \in [Obj -> [1..Fields -> Obj \cup {None}]]
  /\ wheld \in [Obj -> BOOLEAN] /\ buffered \in [Obj -> BOOLEAN] /\ overflowed \in BOOLEAN
  /\ suspects \in SUBSET Obj /\ graveyard \in SUBSET List
  /\ \A i \in 1..Len(stack) :
       stack[i] \in [obj : Obj, at : 0..(Fields + 1), frees : BOOLEAN]
  /\ phase \in {"run", "condemn", "destroy", "finish"} /\ floor \in 0..Len(stack)
  /\ {roots, parked, whites, todo} \subseteq SUBSET Obj

\* A slot that still owns its child: the destructions under way have not
\* come to it.
Owned(p, f) ==
  /\ kids[p][f] # None
  /\ \A i \in 1..Len(stack) : stack[i].obj = p => f >= stack[i].at
  /\ p \in whites => p \in todo \/ \E i \in 1..Len(stack) : stack[i].obj = p

\* Nothing that is still used is gone: a reference and a slot that owns
\* lead to a live value, a destruction under way is about one that no one
\* else has freed, and an entry of the buffer to what its mark keeps.
NoDangle ==
  /\ \A o \in Obj : held[o] > 0 => life[o] = "live"
  /\ \A o \in Obj : wheld[o] => life[o] # "free"
  /\ \A p \in Obj, f \in 1..Fields : Owned(p, f) => life[kids[p][f]] = "live"
  /\ \A i \in 1..Len(stack) : stack[i].frees => life[stack[i].obj] = "dying"
  /\ \A o \in suspects : buffered[o] /\ life[o] # "free" /\ (life[o] = "shell" => o \in graveyard)

\* A value's counts are its owners': between two operations and through
\* every destruction and collection, nothing is lost and nothing released twice.
CountsExact ==
  \A o \in Obj :
    /\ life[o] = "live" =>
         strong[o] = held[o] + Inner({<<p, f, kids[p][f]>> : <<p, f>> \in {e \in Obj \X (1..Fields) : Owned(e[1], e[2])}}, Obj, o)
                       + (IF o \in whites /\ phase = "destroy" THEN WhiteGuard ELSE 0)
    /\ o \in Struct /\ life[o] # "free" =>
         weak[o] = (IF Valid(o) THEN 1 ELSE 0) + (IF wheld[o] THEN 1 ELSE 0)
                     + (IF buffered[o] THEN 1 ELSE 0) + (IF o \in roots THEN 1 ELSE 0)

\* What the mutator can still come to, or will release.
InUse == Reach(Edges, {o \in Obj : held[o] > 0} \cup {stack[i].obj : i \in 1..Len(stack)})

\* A cycle that nobody can reach any more hangs from a suspect, so the next
\* collection finds it, unless the cap turned one away.
GarbageSuspected ==
  phase = "run" /\ ~overflowed => {o \in Obj : life[o] = "live"} \subseteq InUse \cup Reach(Edges, suspects \ InUse)

\* A collection leaves no garbage behind, and takes nothing else.
GarbageGone ==
  phase = "finish" /\ ~overflowed => {o \in Obj : life[o] = "live"} \subseteq InUse
=============================================================================
