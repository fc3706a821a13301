----------------------------- MODULE TrialDeletion -----------------------------
(***************************************************************************)
(* mark_gray, scan and scan_black of cycle.rs, with their worklists, on    *)
(* every small heap: what comes out white is what the definition in        *)
(* Garbage says, in whatever order the roots come.  A step takes one root. *)
(* The heap does not change meanwhile.                                     *)
(***************************************************************************)
EXTENDS Naturals, Integers, Sequences, FiniteSets

CONSTANTS
  Node, MaxKids, MaxOutside,
  Roots    \* the sets of suspects to try

Pure == INSTANCE Garbage

VARIABLES
  kids,      \* Node.children
  strong,    \* the real counts
  roots, todo,
  graph,     \* the trial count and the color of every node
  pc

heap == <<kids, strong, roots>>
vars == <<heap, todo, graph, pc>>

Places == {<<n, i>> \in Node \X (1..MaxKids) : i <= Len(kids[n])}
Edges == {<<p[1], p[2], kids[p[1]][p[2]]>> : p \in Places}
Times(c, s) == Cardinality({i \in 1..Len(s) : s[i] = c})

\* A heap: any children, and some counts from elsewhere.
Init ==
  /\ kids \in [Node -> UNION {[1..k -> Node] : k \in 0..MaxKids}]
  /\ \E outside \in [Node -> 0..MaxOutside] :
       strong = [c \in Node |-> outside[c] + Cardinality({p \in Places : kids[p[1]][p[2]] = c})]
  /\ roots \in Roots /\ todo = roots
  /\ graph = [count |-> strong, color |-> [n \in Node |-> "fresh"]]
  /\ pc = "mark"

\* The children that are not yet of a color, on top of a worklist.
Push(n, g, c, rest) ==
  LET left == SelectSeq(kids[n], LAMBDA kid : g.color[kid] # c)
      k == Len(left)
  IN [i \in 1..k |-> left[k + 1 - i]] \o rest

PaintedOnce(n, g, c, d) ==    \* a mutant
  [count |-> [k \in Node |-> IF Times(k, kids[n]) > 0 THEN g.count[k] + d ELSE g.count[k]],
   color |-> [g.color EXCEPT ![n] = c]]

\* A node takes a color, and d is added to the trial count of each child once
\* for every edge to it.
Painted(n, g, c, d) ==
  [count |-> [k \in Node |-> g.count[k] + d * Times(k, kids[n])],
   color |-> [g.color EXCEPT ![n] = c]]

RECURSIVE MarkGray(_, _)
MarkGray(stack, g) ==
  IF stack = <<>> THEN g
  ELSE LET n == Head(stack)
           h == Painted(n, g, "gray", -1)
       IN IF g.color[n] = "gray" THEN MarkGray(Tail(stack), g)
          ELSE MarkGray(Push(n, h, "gray", Tail(stack)), h)

\* A value that is kept keeps what it reaches, also what was white already.
RECURSIVE ScanBlack(_, _)
ScanBlack(stack, g) ==
  IF stack = <<>> THEN g
  ELSE LET n == Head(stack)
           h == Painted(n, g, "black", 1)
       IN IF g.color[n] = "black" THEN ScanBlack(Tail(stack), g)
          ELSE ScanBlack(Push(n, h, "black", Tail(stack)), h)

RECURSIVE Scan(_, _)
Scan(stack, g) ==
  IF stack = <<>> THEN g
  ELSE LET n == Head(stack)
           rest == Tail(stack)
           white == [g EXCEPT !.color[n] = "white"]
       IN IF g.color[n] # "gray" THEN Scan(rest, g)
          ELSE IF g.count[n] > 0 THEN Scan(rest, ScanBlack(<<n>>, g))
          ELSE Scan(Push(n, g, "", rest), white)

\* Every root is marked before the first is scanned.
Mark(r) ==
  /\ pc = "mark" /\ r \in todo
  /\ graph' = MarkGray(<<r>>, graph)
  /\ todo' = IF todo = {r} THEN roots ELSE todo \ {r}
  /\ pc' = IF todo = {r} THEN "scan" ELSE pc
  /\ UNCHANGED heap

Look(r) ==
  /\ pc = "scan" /\ r \in todo
  /\ graph' = Scan(<<r>>, graph)
  /\ todo' = todo \ {r}
  /\ pc' = IF todo = {r} THEN "done" ELSE pc
  /\ UNCHANGED heap

Next == \E r \in Node : Mark(r) \/ Look(r)

Spec == Init /\ [][Next]_vars

-----------------------------------------------------------------------------
(* Properties                                                              *)

\* Every variable has its type.
TypeOK ==
  /\ todo \subseteq roots /\ roots \subseteq Node
  /\ graph.count \in [Node -> Int]
  /\ graph.color \in [Node -> {"fresh", "gray", "white", "black"}]
  /\ pc \in {"mark", "scan", "done"}

\* What is about to be freed is exactly what nobody outside of it owns.
WhitesExact ==
  pc = "done" => {n \in Node : graph.color[n] = "white"} = Pure!Unowned(Edges, strong, roots)
=============================================================================
