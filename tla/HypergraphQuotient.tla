--------------------------- MODULE HypergraphQuotient ---------------------------
(***************************************************************************)
(* What the users of a graph expect of graphs/AnonHypergraph: vertices and *)
(* edges with ids that are never given out twice, deletions that take all  *)
(* incident edges along, and merges that form the quotient of the graph by *)
(* the pairs to be identified, and nothing coarser.  No incidence index.   *)
(***************************************************************************)
EXTENDS Integers, Sequences, Functions

CONSTANTS Labels, MaxArity, MaxID

VARIABLES
  vertices,   \* a set of ids
  edges,      \* id -> [label, vertices]
  used,       \* the ids given out so far
  delEdges,   \* edges reported as deleted by the last call
  thrown      \* the last call threw

vars == <<vertices, edges, used, delEdges, thrown>>

IDs == 1 .. MaxID

AttVertices(S) == UNION {[1 .. n -> S] : n \in 0 .. MaxArity}

Init ==
  /\ vertices = {} /\ edges = <<>> /\ used = {}
  /\ delEdges = {} /\ thrown = FALSE

Quiet == delEdges' = {} /\ thrown' = FALSE

AddVertex ==
  \E id \in IDs \ used :
    /\ vertices' = vertices \cup {id}
    /\ used' = used \cup {id}
    /\ Quiet /\ UNCHANGED edges

AddEdge ==
  \E id \in IDs \ used, l \in Labels, vs \in AttVertices(vertices) :
    /\ edges' = [e \in DOMAIN edges \cup {id} |->
                   IF e = id THEN [label |-> l, vertices |-> vs] ELSE edges[e]]
    /\ used' = used \cup {id}
    /\ Quiet /\ UNCHANGED vertices

Reject ==
  /\ thrown' = TRUE /\ delEdges' = {}
  /\ UNCHANGED <<vertices, edges, used>>

DeleteEdge ==
  \E e \in IDs :
    /\ edges' = Restrict(edges, DOMAIN edges \ {e})
    /\ Quiet /\ UNCHANGED <<vertices, used>>

\* Edges attached to a vertex that goes away go with it, and are reported.
DeleteVertices ==
  \E S \in SUBSET vertices :
    LET gone == {e \in DOMAIN edges : Range(edges[e].vertices) \cap S # {}}
    IN /\ vertices' = vertices \ S
       /\ edges' = Restrict(edges, DOMAIN edges \ gone)
       /\ delEdges' = gone /\ thrown' = FALSE
       /\ UNCHANGED used

-----------------------------------------------------------------------------
(* Merging: r maps every vertex to the one that stands for it afterwards.  *)

Identifies(r, pairs) == \A p \in pairs : r[p[1]] = r[p[2]]

\* r maps two vertices to the same one only if every map that identifies the
\* pairs does: the universal property of the quotient.
IdentifiesNoMore(r, pairs) ==
  \A s \in [vertices -> vertices] :
    Identifies(s, pairs) => \A v \in vertices : s[v] = s[r[v]]

Representatives == {r \in [vertices -> vertices] : \A v \in vertices : r[r[v]] = r[v]}

IdentifyVertices(r, kept) ==
  /\ vertices' = Range(r)
  /\ edges' = [e \in kept |->
       [edges[e] EXCEPT !.vertices = [i \in DOMAIN @ |-> r[@[i]]]]]
  /\ delEdges' = {} /\ UNCHANGED used

Mergeable(e, f) ==
  /\ edges[e].label = edges[f].label
  /\ Len(edges[e].vertices) = Len(edges[f].vertices)

\* The vertices at equal positions of two edges of S.
Pairs(S) ==
  {p \in vertices \X vertices :
     \E e, f \in S : /\ Mergeable(e, f)
                     /\ \E i \in DOMAIN edges[e].vertices :
                          p = <<edges[e].vertices[i], edges[f].vertices[i]>>}

MergeVertices ==
  \E S \in SUBSET vertices, r \in Representatives :
    /\ Identifies(r, S \X S) /\ IdentifiesNoMore(r, S \X S)
    /\ IdentifyVertices(r, DOMAIN edges) /\ thrown' = FALSE

\* One edge of S remains, attached to the quotient.
MergeEdges ==
  \E S \in SUBSET DOMAIN edges, r \in Representatives : \E e \in S :
    /\ \A f \in S : Mergeable(e, f)
    /\ Identifies(r, Pairs(S)) /\ IdentifiesNoMore(r, Pairs(S))
    /\ IdentifyVertices(r, DOMAIN edges \ (S \ {e})) /\ thrown' = FALSE

\* A merge that gives up leaves some of its work done and two edges or more.
MergeEdgesPartly ==
  \E S \in SUBSET DOMAIN edges, r \in Representatives : \E kept \in SUBSET S :
    /\ \E e, f \in kept : e # f
    /\ IdentifiesNoMore(r, Pairs(S))
    /\ IdentifyVertices(r, (DOMAIN edges \ S) \cup kept) /\ thrown' = TRUE

Next ==
  \/ AddVertex \/ AddEdge \/ Reject \/ DeleteEdge \/ DeleteVertices
  \/ MergeVertices \/ MergeEdges \/ MergeEdgesPartly

Spec == Init /\ [][Next]_vars

=============================================================================
