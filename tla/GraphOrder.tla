------------------------------- MODULE GraphOrder -------------------------------
(***************************************************************************)
(* Graphs as the search sees them.  A Hypergraph object carries a globally *)
(* unique id and, up to isomorphism, a shape; the Order of the analysis is *)
(* a relation between shapes.  Two objects of one shape, or of two shapes  *)
(* that are below each other, are isomorphic graphs with different ids.    *)
(***************************************************************************)
EXTENDS Naturals

CONSTANTS
  Shapes,     \* what isLessOrEq and the enumerators can tell apart of a graph
  Leq(_, _),  \* the relation on shapes that the chosen Order decides
  IDType_MAX  \* UINT_MAX in the code, small when model-checking

(***************************************************************************)
(* The analysis is documented for well-quasi-orders only.  A finite Shapes *)
(* makes every quasi-order a wqo, so this is all that is asked here.       *)
(***************************************************************************)
ASSUME LeqIsQuasiOrder ==
  /\ \A s \in Shapes : Leq(s, s)
  /\ \A s, t, u \in Shapes : Leq(s, t) /\ Leq(t, u) => Leq(s, u)

ASSUME IDTypeMaxIsPositive == IDType_MAX \in Nat \ {0}

\* gl_getNewStateID starts at 1 and refuses to hand out IDType_MAX.
IDType == 1 .. IDType_MAX - 1

Hypergraph == [id : IDType, shape : Shapes]

\* Order::isLessOrEq on two objects: ids play no role.
IsLessOrEq(smaller, bigger) == Leq(smaller.shape, bigger.shape)

\* A set of objects represents every shape above one of its elements.
Represents(S, s) == \E g \in S : Leq(g.shape, s)

UpwardClosure(S) == {s \in Shapes : Represents(S, s)}

\* No two different objects of S are comparable.
Antichain(S) == \A g, h \in S : IsLessOrEq(g, h) => g = h

=============================================================================
