------------------------------- MODULE FdHandle -------------------------------
(***************************************************************************)
(* The slot of one descriptor number (fd_handle.rs): the generation of the *)
(* most recent handle on it, whether that handle is open, and how many     *)
(* calls are inside it.  Every transition of the runtime is one            *)
(* compare-exchange on the word these operators compute; here the word is  *)
(* a record.  A handle is its generation: there is one number.             *)
(***************************************************************************)
EXTENDS Naturals

CONSTANT MaxUsers    \* what the user field can count to

Slot(Gen) == [gen : Gen, opened : BOOLEAN, live : BOOLEAN, users : 0..MaxUsers]

\* A number that never had a handle.
Unopened == [gen |-> 0, opened |-> FALSE, live |-> FALSE, users |-> 0]

\* `open`: the next generation, or the first one; it drops what was there.
NextGen(s) == IF s.opened THEN s.gen + 1 ELSE 0
Opened(s) == [gen |-> NextGen(s), opened |-> TRUE, live |-> TRUE, users |-> 0]

\* `is_live`: a handle of an earlier generation is closed for good.
IsLive(s, handle) == s.gen = handle /\ s.live

\* `acquire`: only an open handle, and only while the count has room.
CanAcquire(s, handle) == IsLive(s, handle) /\ s.users < MaxUsers
Acquired(s) == [s EXCEPT !.users = @ + 1]

\* `release`: a guard whose number moved on does nothing.
CanRelease(s, handle) == s.gen = handle /\ s.users > 0
Released(s) == [s EXCEPT !.users = @ - 1]

\* `close` clears the open bit and leaves the count to its users.
Closed(s) == [s EXCEPT !.live = FALSE]

MustFinishAtOnce(s) == ~s.live    \* a mutant
\* The one transition after which the number goes back to the kernel: the
\* handle is closed and nobody is inside.
MustFinish(s) == ~s.live /\ s.users = 0
=============================================================================
