------------------------------- MODULE MCMemory -------------------------------
(***************************************************************************)
(* Small instances of what keeps a value safe from other threads: a        *)
(* struct's counts (StructCount) and the stop of the world (WorldStop).  A *)
(* behaviour exercises one of them, `part`, and leaves the other in its    *)
(* initial state.  MCRuntime runs it beside the other services.            *)
(***************************************************************************)
CONSTANTS
  Sharer, DtorGuard, EarlyDrop,
  Mutator, Main, Nobody, MaxForce, MaxExtra

VARIABLES
  part,
  strong, weak, dead, buffered, queued, freed, destroyed, owners, readers,
  used, nested, cPc, back,
  wSlot, wPc, gcStop, ctrl, pending, done, lastOk, seq, cpc, toScan, goal, ok,
  expired, extra, late

cVars == <<strong, weak, dead, buffered, queued, freed, destroyed, owners,
           readers, used, nested, cPc, back>>
wVars == <<wSlot, wPc, gcStop, ctrl, pending, done, lastOk, seq, cpc, toScan,
           goal, ok, expired, extra, late>>

C == INSTANCE StructCount WITH Task <- Sharer, pc <- cPc
W == INSTANCE WorldStop WITH slot <- wSlot, pc <- wPc

ASSUME MemoryBounds == C!CountAssumption /\ W!WorldAssumption

MemoryInit == C!Init /\ W!Init

MemoryNext ==
  \/ part = "counts" /\ C!Next /\ UNCHANGED <<part, wVars>>
  \/ part = "world" /\ W!Next /\ UNCHANGED <<part, cVars>>

MemorySpec == MemoryInit /\ [][MemoryNext]_<<part, cVars, wVars>>

\* The properties of the two, by the names they have there.
DestroyedByLast == part = "counts" => C!DestroyedByLast
HeaderHeld == part = "counts" => C!HeaderHeld
WorldStopped == part = "world" => W!WorldStopped
StoppedButLate == part = "world" => W!StoppedButLate
=============================================================================
