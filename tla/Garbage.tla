-------------------------------- MODULE Garbage --------------------------------
(***************************************************************************)
(* Trial deletion as a definition (cycle.rs).  An edge is a triple         *)
(* <<owner, slot, child>>: a value may own another more than once.         *)
(***************************************************************************)
EXTENDS Naturals, FiniteSets

\* The least set that holds S and the children of its members.
Reach(E, S) ==
  LET all == S \cup {e[3] : e \in E}
  IN {o \in all : \A T \in SUBSET all :
        (S \subseteq T /\ \A e \in E : e[1] \in T => e[3] \in T) => o \in T}

\* The counts that come from inside a set of values.
Inner(E, S, o) == Cardinality({e \in E : e[1] \in S /\ e[3] = o})

\* What the roots reach and no count from outside of that keeps.
Unowned(E, count, roots) ==
  LET graph == Reach(E, roots)
  IN graph \ Reach(E, {o \in graph : count[o] > Inner(E, graph, o)})
=============================================================================
