----------------------------- MODULE AnonHypergraph -----------------------------
(***************************************************************************)
(* graphs/AnonHypergraph: the graph the enumerators of pushout complements *)
(* copy, merge and cut.  The incident edges of a vertex are kept a second  *)
(* time in connectedEdges, a multiset per vertex, and both merge and       *)
(* delete walk over that index instead of over all edges.                  *)
(*                                                                         *)
(* Operations are functions of the graph, for they call each other; an     *)
(* action is one call from outside.  A call that throws may have changed   *)
(* the graph before.                                                       *)
(***************************************************************************)
EXTENDS Integers, Sequences, FiniteSets, SequencesExt, FiniteSetsExt

CONSTANTS
  Labels,     \* edge labels
  MaxArity,   \* bound on the arity of the edges added
  MaxID       \* bound on the ids of vertices and edges

ASSUME BoundsAreNatural == MaxArity \in Nat /\ MaxID \in Nat

VARIABLES
  graph,      \* [lastUsedID, vertices, edges, connectedEdges]
  delEdges,   \* the out-parameter of the last deleteVertex or deleteVertices
  thrown      \* the last call threw an InvalidInputException

vars == <<graph, delEdges, thrown>>

IDs == 1 .. MaxID

AttVertices(S) == UNION {[1 .. n -> S] : n \in 0 .. MaxArity}

Edge(S) == [label : Labels, vertices : AttVertices(S)]

\* The multiset without an element: an edge occurs as often as its value says.
NoEdges == [e \in IDs |-> 0]

Graph(id, V, E, C) == [lastUsedID |-> id, vertices |-> V, edges |-> E, connectedEdges |-> C]

EmptyGraph == Graph(0, {}, <<>>, <<>>)

Occurrences(vs, v) == Cardinality({i \in DOMAIN vs : vs[i] = v})

ConnectedTo(g, v) == {e \in IDs : g.connectedEdges[v][e] > 0}

-----------------------------------------------------------------------------
(* Adding *)

addVertex(g) ==
  LET id == g.lastUsedID + 1
      V == g.vertices \cup {id}
  IN Graph(id, V, g.edges, [v \in V |-> IF v = id THEN NoEdges ELSE g.connectedEdges[v]])

addEdge(g, label, attVertices) ==
  LET id == g.lastUsedID + 1
  IN Graph(id, g.vertices,
           [e \in DOMAIN g.edges \cup {id} |->
              IF e = id THEN [label |-> label, vertices |-> attVertices] ELSE g.edges[e]],
           [v \in g.vertices |->
              [g.connectedEdges[v] EXCEPT ![id] = @ + Occurrences(attVertices, v)]])

-----------------------------------------------------------------------------
(* Deleting *)

\* unordered_multiset::erase(id) takes every copy of id.
deleteEdge(g, id) ==
  IF id \notin DOMAIN g.edges THEN g
  ELSE Graph(g.lastUsedID, g.vertices, Restrict(g.edges, DOMAIN g.edges \ {id}),
             [v \in g.vertices |->
                IF v \in Range(g.edges[id].vertices)
                THEN [g.connectedEdges[v] EXCEPT ![id] = 0] ELSE g.connectedEdges[v]])

deleteVertexOnly(g, id) ==
  IF id \notin g.vertices THEN g
  ELSE LET V == g.vertices \ {id}
       IN Graph(g.lastUsedID, V, g.edges, Restrict(g.connectedEdges, V))

deleteEdges(g, ids) == FoldSet(LAMBDA e, acc : deleteEdge(acc, e), g, ids)

\* The edges to delete are read from the index before the first goes.
deleteVertex(g, id) ==
  IF id \notin g.vertices THEN g
  ELSE LET V == g.vertices \ {id}
           h == deleteEdges(g, ConnectedTo(g, id))
       IN Graph(h.lastUsedID, V, h.edges, Restrict(h.connectedEdges, V))

\* deleteVertices calls deleteVertex for one vertex after the other; each call
\* adds the edges it finds in the index to the out-parameter.
deleteVertices(g, ids) ==
  FoldSet(LAMBDA v, acc :
            [graph |-> deleteVertex(acc.graph, v),
             delEdges |-> acc.delEdges \cup
               IF v \in acc.graph.vertices THEN ConnectedTo(acc.graph, v) ELSE {}],
          [graph |-> g, delEdges |-> {}], ids)

-----------------------------------------------------------------------------
(* Merging vertices *)

Replaced(vs, w, v) == [i \in DOMAIN vs |-> IF vs[i] = w THEN v ELSE vs[i]]

Reattached(edges, touched, w, v) ==
  [e \in DOMAIN edges |->
     IF e \in touched THEN [edges[e] EXCEPT !.vertices = Replaced(@, w, v)] ELSE edges[e]]

mergeVerticesOncePerEdge(g, v, w) ==
  IF v = w THEN g
  ELSE LET touched == ConnectedTo(g, w)
       IN Graph(g.lastUsedID, g.vertices \ {w}, Reattached(g.edges, touched, w, v),
                [x \in g.vertices \ {w} |->
                   IF x = v
                   THEN [e \in IDs |-> g.connectedEdges[v][e] + IF e \in touched THEN 1 ELSE 0]
                   ELSE g.connectedEdges[x]])

\* Of two vertices: every edge listed at w is rewritten to v and entered at v
\* once for each of its positions; then w goes.
mergeVertices(g, v, w) ==
  IF v = w THEN g
  ELSE LET touched == ConnectedTo(g, w)
       IN Graph(g.lastUsedID, g.vertices \ {w}, Reattached(g.edges, touched, w, v),
                [x \in g.vertices \ {w} |->
                   IF x = v
                   THEN [e \in IDs |-> g.connectedEdges[v][e] +
                           IF e \in touched THEN Occurrences(g.edges[e].vertices, w) ELSE 0]
                   ELSE g.connectedEdges[x]])

\* Of a set, in the order its elements are taken out of the hash set.
mergeVertexSet(g, order) ==
  FoldLeft(LAMBDA acc, w : mergeVertices(acc, Head(order), w), g, Tail(order))

-----------------------------------------------------------------------------
(* Merging edges: r.thrown says that an exception is on its way, and the   *)
(* rest of the call is skipped.                                            *)

Tried(g) == [graph |-> g, thrown |-> FALSE]

Thrown(g) == [graph |-> g, thrown |-> TRUE]

tryMergeVertices(r, v, w) ==
  CASE r.thrown -> r
    [] ~ r.thrown /\ ~ {v, w} \subseteq r.graph.vertices -> Thrown(r.graph)
    [] OTHER -> Tried(mergeVertices(r.graph, v, w))

Mergeable(g, e, f) ==
  /\ g.edges[e].label = g.edges[f].label
  /\ Len(g.edges[e].vertices) = Len(g.edges[f].vertices)

mergePositions(r, id1Nodes, id2Nodes) ==
  FoldLeft(LAMBDA acc, i : tryMergeVertices(acc, id1Nodes[i], id2Nodes[i]),
           r, [i \in DOMAIN id1Nodes |-> i])

\* The incident vertices of both edges are copied before the first pair is
\* merged; a pair may name a vertex an earlier pair has merged away.
MergedPositions(r, e, f) ==
  mergePositions(r, r.graph.edges[e].vertices, r.graph.edges[f].vertices)

tryMergeEdges(r, e, f) ==
  CASE r.thrown -> r
    [] ~ r.thrown /\ ~ {e, f} \subseteq DOMAIN r.graph.edges -> Thrown(r.graph)
    [] ~ r.thrown /\ {e, f} \subseteq DOMAIN r.graph.edges /\ e = f -> r
    [] OTHER ->
         IF ~ Mergeable(r.graph, e, f) THEN Thrown(r.graph)
         ELSE LET m == MergedPositions(r, e, f)
              IN IF m.thrown THEN m ELSE Tried(deleteEdge(m.graph, f))

tryMergeEdgeSet(r, order) ==
  FoldLeft(LAMBDA acc, f : tryMergeEdges(acc, Head(order), f), r, Tail(order))

areParallelEdges(g, e, f) ==
  /\ g.edges[e].label = g.edges[f].label
  /\ g.edges[e].vertices = g.edges[f].vertices

-----------------------------------------------------------------------------
(* The calls.  Ids handed in were given out once; they may be gone.        *)

Known == 1 .. graph.lastUsedID

Return(r) == graph' = r.graph /\ delEdges' = {} /\ thrown' = r.thrown

AddVertex == graph.lastUsedID < MaxID /\ Return(Tried(addVertex(graph)))

AddEdge(label, attVertices) ==
  /\ graph.lastUsedID < MaxID
  /\ Return(IF Range(attVertices) \subseteq graph.vertices
            THEN Tried(addEdge(graph, label, attVertices)) ELSE Thrown(graph))

DeleteEdge(id) == Return(Tried(deleteEdge(graph, id)))

DeleteVertices(ids) ==
  LET r == deleteVertices(graph, ids)
  IN graph' = r.graph /\ delEdges' = r.delEdges /\ thrown' = FALSE

MergeVertices(v, w) == Return(tryMergeVertices(Tried(graph), v, w))

MergeEdges(e, f) == Return(tryMergeEdges(Tried(graph), e, f))

\* The set variants drop ids that are not in the graph and reject the rest
\* only if nothing remains.
MergeVertexSet(ids) ==
  LET valid == ids \cap graph.vertices
  IN IF valid = {} THEN Return(Thrown(graph))
     ELSE \E order \in SetToSeqs(valid) : Return(Tried(mergeVertexSet(graph, order)))

MergeEdgeSet(ids) ==
  LET valid == ids \cap DOMAIN graph.edges
  IN IF valid = {} THEN Return(Thrown(graph))
     ELSE \E order \in SetToSeqs(valid) : Return(tryMergeEdgeSet(Tried(graph), order))

Init == graph = EmptyGraph /\ delEdges = {} /\ thrown = FALSE

Next ==
  \/ AddVertex
  \/ \E l \in Labels, vs \in AttVertices(Known) : AddEdge(l, vs)
  \/ \E id \in Known : DeleteEdge(id)
  \/ \E ids \in SUBSET Known : DeleteVertices(ids)
  \/ \E v, w \in Known : MergeVertices(v, w)
  \/ \E e, f \in Known : MergeEdges(e, f)
  \/ \E ids \in SUBSET Known : MergeVertexSet(ids)
  \/ \E ids \in SUBSET Known : MergeEdgeSet(ids)

Spec == Init /\ [][Next]_vars

-----------------------------------------------------------------------------
(* Properties *)

\* connectedEdges lists an edge at a vertex as often as the edge is attached to
\* it, and no edge that is gone, also after a call that threw half-way.
\* deleteVertex and mergeVertices find the edges they change nowhere else.
IndexIsExact ==
  \A v \in graph.vertices, e \in IDs :
    graph.connectedEdges[v][e] =
      IF e \in DOMAIN graph.edges THEN Occurrences(graph.edges[e].vertices, v) ELSE 0

\* PartialPOCEnumerator::mergeEdges deletes all but one of a set of parallel
\* edges instead of merging them, because that comes to the same graph.
ParallelMergeIsDeletion ==
  \A e, f \in DOMAIN graph.edges :
    e # f /\ areParallelEdges(graph, e, f) =>
      tryMergeEdges(Tried(graph), e, f) = Tried(deleteEdge(graph, f))

\* The graph without its index does what HypergraphQuotient says: ids are given
\* out once, a deleted vertex takes exactly its edges along and reports them,
\* a merge that succeeds is the quotient by the pairs at equal positions, and
\* one that throws has identified nothing beyond that quotient.
Quotient == INSTANCE HypergraphQuotient WITH
  vertices <- graph.vertices, edges <- graph.edges, used <- Known

ImplementsQuotient == Quotient!Spec

\* Labels are only compared for equality, so they may be exchanged.
LabelSymmetry == Permutations(Labels)

=============================================================================
