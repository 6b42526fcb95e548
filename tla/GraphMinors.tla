------------------------------ MODULE GraphMinors ------------------------------
(***************************************************************************)
(* What a minor of a hypergraph is, from the definition alone: a graph     *)
(* that is reached by deleting edges, deleting isolated vertices and       *)
(* contracting edges, where a contraction deletes an edge and merges its   *)
(* vertices along any partition of them.                                   *)
(***************************************************************************)
EXTENDS PlainHypergraph

VerticesOf(g, e) == Range(g.edges[e].vertices)

Isolated(g) == {v \in g.vertices : \A e \in DOMAIN g.edges : v \notin VerticesOf(g, e)}

PartitionsOf(S) == {{{y \in S : f[y] = f[x]} : x \in S} : f \in [S -> S]}

\* The classes of P become one vertex each.
MergeAlong(g, P) == FoldSet(LAMBDA c, acc : MergeVertexSet(acc, c), g, P)

SmallerByOneStep(g) ==
  {DeleteVertex(g, v) : v \in Isolated(g)}
  \cup UNION {{MergeAlong(DeleteEdge(g, e), P) : P \in PartitionsOf(VerticesOf(g, e))} :
                e \in DOMAIN g.edges}

\* What is reached by that many steps; each of them takes an element away.
ReachedBySteps(g, steps) ==
  LET reached[n \in 0 .. steps] ==
        IF n = 0 THEN {g}
        ELSE LET before == reached[n - 1]
             IN before \cup UNION {SmallerByOneStep(h) : h \in before}
  IN reached[steps]

MinorsOf(g) == ReachedBySteps(g, Cardinality(Elements(g)))

Bijections(S, T) == {f \in [S -> T] : IsInjective(f) /\ Range(f) = T}

\* Some bijection of the vertices leaves for every edge as many as are parallel to it.
IsomorphicGraphs(g, h) ==
  /\ Cardinality(g.vertices) = Cardinality(h.vertices)
  /\ Cardinality(DOMAIN g.edges) = Cardinality(DOMAIN h.edges)
  /\ \E f \in Bijections(g.vertices, h.vertices) :
       LET moved(e) == [g.edges[e] EXCEPT !.vertices = [i \in DOMAIN @ |-> f[@[i]]]]
       IN \A e \in DOMAIN g.edges :
            Cardinality({d \in DOMAIN g.edges : moved(d) = moved(e)})
              = Cardinality({d \in DOMAIN h.edges : h.edges[d] = moved(e)})

=============================================================================
