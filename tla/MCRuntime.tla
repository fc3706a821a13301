------------------------------- MODULE MCRuntime -------------------------------
(***************************************************************************)
(* Small instances of the runtime's services: reads and closes of a        *)
(* descriptor (NetIo), a struct's counts and the stop of the world         *)
(* (MCMemory), the heap and its collector (CycleHeap, on values with one   *)
(* child and with two) and trial deletion (TrialDeletion).  A behaviour    *)
(* exercises one of them, `part`, and leaves the others in their initial   *)
(* state.  The names of NetIo and of MCMemory are used as they are.        *)
(***************************************************************************)
EXTENDS NetIo, MCMemory, TLC

CONSTANTS
  Parts,
  Struct, List, Gated, MayOwn, None, WhiteGuard, Cap, MaxHeld,
  Node, Roots

VARIABLES
  cast,
  life, hStrong, hWeak, kids, held, wheld, hBuffered, suspects, graveyard,
  overflowed, stack, phase, floor, roots, parked, whites, hTodo,
  tKids, tStrong, tRoots, tTodo, graph, tPc

hVars == <<life, hStrong, hWeak, kids, held, wheld, hBuffered, suspects,
           graveyard, overflowed, stack, phase, floor, roots, parked, whites, hTodo>>
tVars == <<tKids, tStrong, tRoots, tTodo, graph, tPc>>

H == INSTANCE CycleHeap WITH Fields <- 1, strong <- hStrong, weak <- hWeak,
       buffered <- hBuffered, todo <- hTodo
H2 == INSTANCE CycleHeap WITH Fields <- 2, Struct <- Struct \cap Gated,
       Gated <- {}, strong <- hStrong, weak <- hWeak, buffered <- hBuffered,
       todo <- hTodo
D == INSTANCE TrialDeletion WITH MaxKids <- 2, MaxOutside <- 1, kids <- tKids,
       strong <- tStrong, roots <- tRoots, todo <- tTodo, pc <- tPc

ASSUME RuntimeBounds ==
  /\ Parts \subseteq {"netio", "counts", "world", "heap", "heap 2", "trial"}
  /\ Closer \subseteq Proc /\ Pipes \subseteq Gen
  /\ Struct \cap List = {} /\ Gated \subseteq Struct
  /\ MayOwn \subseteq (Struct \cup List) \X (Struct \cup List)
  /\ WhiteGuard < DtorGuard

\* A graph is chosen only where it is worked on.
NoGraph ==
  /\ tKids = <<>> /\ tStrong = <<>> /\ tRoots = {} /\ tTodo = {}
  /\ graph = <<>> /\ tPc = ""

\* Who reads in a behaviour of NetIo, and on which workers: two readers of one
\* worker and the thread that closes, or one reader that moves between workers.
Casts ==
  {[readers |-> Proc, pool |-> {w}] : w \in Worker}
    \cup {[readers |-> {t}, pool |-> Worker] : t \in Task}
Nothing == [readers |-> {}, pool |-> {}]

RuntimeInit ==
  /\ part \in Parts
  /\ cast \in (IF part = "netio" THEN Casts ELSE {Nothing})
  /\ Init /\ MemoryInit /\ owners = {CHOOSE x \in Sharer : TRUE}
  /\ IF part = "heap 2" THEN H2!Init ELSE H!Init
  /\ IF part = "trial" THEN D!Init ELSE NoGraph

CastNext ==
  /\ Next
  /\ \A p \in Proc \ cast.readers : pc'[p] # "read"
  /\ \A t \in Task : on'[t] \in cast.pool \cup {NoWorker}

RuntimeNext ==
  \/ part = "netio" /\ CastNext /\ UNCHANGED <<part, cast, cVars, wVars, hVars, tVars>>
  \/ MemoryNext /\ UNCHANGED <<cast, vars, hVars, tVars>>
  \/ part = "heap" /\ H!Next /\ UNCHANGED <<part, cast, vars, cVars, wVars, tVars>>
  \/ part = "heap 2" /\ H2!Next /\ UNCHANGED <<part, cast, vars, cVars, wVars, tVars>>
  \/ part = "trial" /\ D!Next /\ UNCHANGED <<part, cast, vars, cVars, wVars, hVars>>

RuntimeSpec == RuntimeInit /\ [][RuntimeNext]_<<part, cast, vars, cVars, wVars, hVars, tVars>>

\* Every type may own every other, but that no value whose `Drop` method has a
\* safe-point dies as a part of a list.
NotGated == {e \in (Struct \cup List) \X (Struct \cup List) : e[2] \in Gated => e[1] \in Gated}
Anything == (Struct \cup List) \X (Struct \cup List)

\* The algorithm does not look at names: one value is no suspect itself.
RootSets == {Node \ {CHOOSE n \in Node : TRUE}}

\* Tasks, and workers, are interchangeable; no liveness is checked here.
Symmetry == Permutations(Task) \cup Permutations(Worker)

\* Every variable has its type.
TypesOK ==
  CASE part = "netio" -> TypeOK
    [] part = "counts" -> C!TypeOK
    [] part = "world" -> W!TypeOK
    [] part = "heap" -> H!TypeOK
    [] part = "heap 2" -> H2!TypeOK
    [] part = "trial" -> D!TypeOK

\* The properties of the others, by the names they have there.
NoDangle ==
  /\ part = "heap" => H!NoDangle
  /\ part = "heap 2" => H2!NoDangle
CountsExact ==
  /\ part = "heap" => H!CountsExact
  /\ part = "heap 2" => H2!CountsExact
GarbageFound ==
  /\ part = "heap" => H!GarbageSuspected /\ H!GarbageGone
  /\ part = "heap 2" => H2!GarbageSuspected /\ H2!GarbageGone
WhitesExact == part = "trial" => D!WhitesExact
=============================================================================
