----------------------------- MODULE MinimalGraphs -----------------------------
(***************************************************************************)
(* What a list of minimal graphs promises: adding a graph is one step that *)
(* either rejects it, because something stored is smaller or equal, or     *)
(* stores it and drops everything it makes superfluous.                    *)
(***************************************************************************)
EXTENDS GraphOrder

VARIABLE minimal   \* the set of stored objects

\* Some stored object is smaller than or equal to g.
Subsumed(S, g) == \E h \in S : IsLessOrEq(h, g)

\* S after storing g: everything above g is dropped.
Minimized(S, g) == {h \in S : ~ IsLessOrEq(g, h)} \cup {g}

Init == minimal = {}

AddGraph(g) ==
  /\ ~ Subsumed(minimal, g)
  /\ minimal' = Minimized(minimal, g)

Next == \E g \in Hypergraph : AddGraph(g)

Spec == Init /\ [][Next]_minimal

=============================================================================
