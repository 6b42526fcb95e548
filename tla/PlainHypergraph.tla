---------------------------- MODULE PlainHypergraph ----------------------------
(***************************************************************************)
(* The operations of graphs/AnonHypergraph on [vertices, edges,            *)
(* lastUsedID], without the incidence index: AnonHypergraph!IndexIsExact   *)
(* shows that the index always follows from the edges.  With them the      *)
(* mappings between graphs (graphs/Mapping) as functions, and the order in *)
(* which an unordered set is iterated.                                     *)
(***************************************************************************)
EXTENDS PartitionEnumerators

CONSTANT Before(_, _)   \* the order in which hash sets of ids are iterated

Elements(g) == g.vertices \cup DOMAIN g.edges

\* x after those that are iterated before it.
Inserted(seq, x) == InsertAt(seq, 1 + Cardinality({i \in DOMAIN seq : Before(seq[i], x)}), x)

Iterate(ids) == Folded(Inserted, <<>>, Listed(ids))

\* Of a set of classes, by their first elements.
IterateClasses(P) == SortSeq(Listed(P), LAMBDA c, d : Before(Head(Iterate(c)), Head(Iterate(d))))

\* Vertices and edges of a graph are kept in ordered maps.
Ascending(ids) ==
  [i \in 1 .. Cardinality(ids) |-> CHOOSE x \in ids : Cardinality({y \in ids : y <= x}) = i]

NewID(g) == g.lastUsedID + 1

AddVertex(g) == [g EXCEPT !.lastUsedID = NewID(g), !.vertices = @ \cup {NewID(g)}]

AddEdge(g, label, attVertices) ==
  [g EXCEPT !.lastUsedID = NewID(g),
            !.edges = Entered(@, NewID(g), [label |-> label, vertices |-> attVertices])]

DeleteEdge(g, e) == [g EXCEPT !.edges = Restrict(@, DOMAIN @ \ {e})]

\* With its edges.
DeleteVertex(g, v) ==
  [g EXCEPT !.vertices = @ \ {v},
            !.edges = Restrict(@, {e \in DOMAIN @ : v \notin Range(@[e].vertices)})]

MergeVerticesKeepsEdges(g, v, w) == [g EXCEPT !.vertices = (@ \ {w}) \cup {v}]

MergeVertices(g, v, w) ==
  [g EXCEPT !.vertices = (@ \ {w}) \cup {v},
            !.edges = [e \in DOMAIN @ |->
               [@[e] EXCEPT !.vertices = [i \in DOMAIN @ |-> IF @[i] = w THEN v ELSE @[i]]]]]

MergeInto(g, v, ids) == FoldSet(LAMBDA w, acc : MergeVertices(acc, v, w), g, ids)

\* A set is put into a vector that is then merged from the back: the last one stays.
Kept(ids) == Last(Iterate(ids))

MergeVertexSet(g, ids) == MergeInto(g, Kept(ids), ids \ {Kept(ids)})

\* Of two edges, position by position; r.thrown once a vertex of a pair is gone.
MergeEdges(r, e, f) ==
  LET id1Nodes == r.graph.edges[e].vertices
      id2Nodes == r.graph.edges[f].vertices
      merged == FoldLeft(
        LAMBDA acc, i :
          IF acc.thrown \/ ~ {id1Nodes[i], id2Nodes[i]} \subseteq acc.graph.vertices
          THEN [acc EXCEPT !.thrown = TRUE]
          ELSE [acc EXCEPT !.graph = MergeVertices(@, id1Nodes[i], id2Nodes[i])],
        r, [i \in DOMAIN id1Nodes |-> i])
  IN IF merged.thrown THEN merged ELSE [merged EXCEPT !.graph = DeleteEdge(@, f)]

MergeEdgeSet(g, ids) ==
  FoldLeft(LAMBDA acc, f : MergeEdges(acc, Kept(ids), f),
           [graph |-> g, thrown |-> FALSE], Tail(Reverse(Iterate(ids))))

\* Mapping::getInverseMatch, delTar, and concat with another mapping.
Preimage(map, x) == {y \in DOMAIN map : map[y] = x}

DelTar(map, ids) == Restrict(map, {x \in DOMAIN map : map[x] \notin ids})

Concat(map, next) == [x \in {y \in DOMAIN map : map[y] \in DOMAIN next} |-> next[map[x]]]

=============================================================================
