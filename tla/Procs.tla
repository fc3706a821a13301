-------------------------------- MODULE Procs --------------------------------
(***************************************************************************)
(* Who uses a synchronisation primitive: green tasks, which suspend and    *)
(* are woken through their scheduling word, and os threads, which spin or  *)
(* sleep on a condvar.                                                     *)
(***************************************************************************)
CONSTANTS
  Task,        \* green tasks
  OsThread,    \* os threads
  NoProc

Proc == Task \cup OsThread

ASSUME ProcAssumption ==
  /\ Task \cap OsThread = {}
  /\ NoProc \notin Proc
=============================================================================
