-------------------------- MODULE AnonHypergraphProofs --------------------------
(***************************************************************************)
(* The incidence index of AnonHypergraph is exact, and the graph without   *)
(* it is the quotient that HypergraphQuotient describes.                   *)
(*                                                                         *)
(* A graph with an exact index is determined by its vertices and edges     *)
(* (Indexed), and every operation takes such a graph to such a graph:      *)
(* adding and deleting by the lemmas of the first part, merging by those   *)
(* of the second.  A sequence of merges is followed by a map r of the      *)
(* vertices it began with to those that stand for them now (QuotientBy).   *)
(***************************************************************************)
EXTENDS AnonHypergraph, SequenceLemmas

IndexOf(V, E) ==
  [v \in V |-> [e \in IDs |-> IF e \in DOMAIN E THEN Occurrences(E[e].vertices, v) ELSE 0]]

\* The graph with these vertices and edges and the index that belongs to them.
Indexed(n, V, E) == Graph(n, V, E, IndexOf(V, E))

WellFormed(n, V, E) ==
  /\ n \in 0 .. MaxID /\ V \in SUBSET (1 .. n)
  /\ DOMAIN E \in SUBSET (1 .. n) /\ E \in [DOMAIN E -> Edge(V)]

\* What every call leaves behind.
IndexInv ==
  /\ WellFormed(graph.lastUsedID, graph.vertices, graph.edges)
  /\ graph = Indexed(graph.lastUsedID, graph.vertices, graph.edges)

-----------------------------------------------------------------------------
(* Occurrences *)

\* An edge is attached to a vertex at a natural number of positions.
LEMMA OccurrencesType ==
  ASSUME NEW S, NEW vs \in AttVertices(S), NEW v
  PROVE  /\ Occurrences(vs, v) \in Nat
         /\ Occurrences(vs, v) = 0 <=> v \notin Range(vs)
         /\ Range(vs) \subseteq S
<1>1. PICK n \in 0 .. MaxArity : vs \in [1 .. n -> S] BY DEF AttVertices
<1>2. n \in Nat BY <1>1, BoundsAreNatural
<1> DEFINE at == {i \in DOMAIN vs : vs[i] = v}
<1>3. at \in SUBSET (1 .. n) /\ IsFiniteSet(1 .. n) BY <1>1, <1>2, FS_Interval
<1>4. IsFiniteSet(at) BY <1>3, FS_Subset
<1>5. Cardinality(at) \in Nat /\ (Cardinality(at) = 0 <=> at = {})
  BY <1>4, FS_CardinalityType, FS_EmptySet
<1>6. at = {} <=> v \notin Range(vs) BY DEF Range
<1>7. Range(vs) \subseteq S BY <1>1 DEF Range
<1> HIDE DEF at
<1>8. Occurrences(vs, v) = Cardinality(at) BY DEF Occurrences, at
<1> QED BY <1>5, <1>6, <1>7, <1>8

\* The edges of a well-formed graph.
LEMMA EdgesType ==
  ASSUME NEW n, NEW V, NEW E, WellFormed(n, V, E)
  PROVE  /\ n \in Nat /\ n <= MaxID /\ V \subseteq 1 .. n /\ V \subseteq IDs
         /\ DOMAIN E \subseteq 1 .. n /\ DOMAIN E \subseteq IDs
         /\ E \in [DOMAIN E -> Edge(V)]
         /\ \A e \in DOMAIN E :
              /\ E[e] \in Edge(V) /\ E[e].vertices \in AttVertices(V)
              /\ Range(E[e].vertices) \subseteq V
              /\ \A v : /\ Occurrences(E[e].vertices, v) \in Nat
                        /\ Occurrences(E[e].vertices, v) = 0 <=> v \notin Range(E[e].vertices)
<1>1. n \in Nat /\ n <= MaxID /\ V \subseteq 1 .. n BY BoundsAreNatural DEF WellFormed
<1>2. DOMAIN E \subseteq 1 .. n /\ E \in [DOMAIN E -> Edge(V)] BY DEF WellFormed
<1>3. 1 .. n \subseteq IDs BY <1>1, BoundsAreNatural DEF IDs
<1>4. ASSUME NEW e \in DOMAIN E
      PROVE  /\ E[e] \in Edge(V) /\ E[e].vertices \in AttVertices(V)
             /\ Range(E[e].vertices) \subseteq V
             /\ \A v : /\ Occurrences(E[e].vertices, v) \in Nat
                       /\ Occurrences(E[e].vertices, v) = 0 <=> v \notin Range(E[e].vertices)
  <2>1. E[e] \in Edge(V) BY <1>2, <1>4
  <2>2. E[e].vertices \in AttVertices(V) BY <2>1 DEF Edge
  <2> QED BY <2>1, <2>2, OccurrencesType
<1> QED BY <1>1, <1>2, <1>3, <1>4

\* The edges attached to a vertex of S.
Attached(E, S) == {e \in DOMAIN E : Range(E[e].vertices) \cap S # {}}

\* The edges the index lists at a vertex are those attached to it.
LEMMA ConnectedToIsAttached ==
  ASSUME NEW n, NEW V, NEW E, WellFormed(n, V, E), NEW v \in V
  PROVE  ConnectedTo(Indexed(n, V, E), v) = Attached(E, {v})
<1>1. \A e \in IDs :
        Indexed(n, V, E).connectedEdges[v][e]
          = IF e \in DOMAIN E THEN Occurrences(E[e].vertices, v) ELSE 0
  BY DEF Indexed, IndexOf, Graph
<1>2. ASSUME NEW e \in IDs
      PROVE  Indexed(n, V, E).connectedEdges[v][e] > 0
               <=> e \in DOMAIN E /\ v \in Range(E[e].vertices)
  <2>1. CASE e \in DOMAIN E
    <3>1. /\ Occurrences(E[e].vertices, v) \in Nat
          /\ Occurrences(E[e].vertices, v) = 0 <=> v \notin Range(E[e].vertices)
      BY <2>1, EdgesType
    <3> QED BY <1>1, <2>1, <3>1
  <2>2. CASE e \notin DOMAIN E BY <1>1, <2>2
  <2> QED BY <2>1, <2>2
<1>3. DOMAIN E \subseteq IDs BY EdgesType
<1> QED BY <1>2, <1>3 DEF ConnectedTo, Attached

LEMMA Fields ==
  ASSUME NEW n, NEW V, NEW E, NEW C
  PROVE  LET g == Graph(n, V, E, C)
         IN g.lastUsedID = n /\ g.vertices = V /\ g.edges = E /\ g.connectedEdges = C
BY DEF Graph

-----------------------------------------------------------------------------
(* Adding and deleting one thing *)

LEMMA AddVertexLemma ==
  ASSUME NEW n, NEW V, NEW E, WellFormed(n, V, E), n < MaxID
  PROVE  /\ addVertex(Indexed(n, V, E)) = Indexed(n + 1, V \cup {n + 1}, E)
         /\ WellFormed(n + 1, V \cup {n + 1}, E)
<1> DEFINE g == Indexed(n, V, E)
           m == g.lastUsedID + 1
           W == g.vertices \cup {m}
           C == [v \in W |-> IF v = m THEN NoEdges ELSE g.connectedEdges[v]]
<1>1. /\ n \in Nat /\ n <= MaxID /\ V \subseteq 1 .. n /\ DOMAIN E \subseteq 1 .. n
      /\ E \in [DOMAIN E -> Edge(V)]
      /\ \A e \in DOMAIN E : /\ n + 1 \notin Range(E[e].vertices)
                             /\ Occurrences(E[e].vertices, n + 1) = 0
  <2>1. n \in Nat /\ V \subseteq 1 .. n BY EdgesType
  <2>2. n + 1 \notin V BY <2>1
  <2> QED BY <2>2, EdgesType
<1>2. addVertex(g) = Graph(m, W, g.edges, C) BY Zenon DEF addVertex
<1>3. /\ m = n + 1 /\ W = V \cup {n + 1} /\ g.edges = E
      /\ \A v \in V : g.connectedEdges[v] = IndexOf(V, E)[v]
  BY Fields DEF Indexed
<1> HIDE DEF g, m, W
<1>4. WellFormed(n + 1, W, E)
  <2>1. AttVertices(V) \subseteq AttVertices(W) BY <1>3 DEF AttVertices
  <2>2. \A e \in DOMAIN E : E[e] \in Edge(W) BY <1>1, <2>1 DEF Edge
  <2>3. n + 1 \in 0 .. MaxID BY <1>1, BoundsAreNatural
  <2>4. W \in SUBSET (1 .. n + 1) /\ DOMAIN E \in SUBSET (1 .. n + 1) BY <1>1, <1>3
  <2> QED BY <1>1, <2>2, <2>3, <2>4 DEF WellFormed
<1>5. IndexOf(W, E) = C
  <2>1. ASSUME NEW v \in W PROVE IndexOf(W, E)[v] = C[v]
    <3>1. CASE v = m
      <4>1. \A e \in IDs :
              (IF e \in DOMAIN E THEN Occurrences(E[e].vertices, v) ELSE 0) = 0
        BY <1>1, <1>3, <3>1
      <4> QED BY <3>1, <4>1 DEF IndexOf, NoEdges
    <3>2. CASE v # m
      <4>1. v \in V BY <1>3, <3>2
      <4> QED BY <1>3, <3>2, <4>1 DEF IndexOf
    <3> QED BY <3>1, <3>2
  <2> QED BY <2>1 DEF IndexOf
<1> HIDE DEF C
<1>6. addVertex(g) = Indexed(n + 1, W, E) BY <1>2, <1>3, <1>5 DEF Indexed
<1> QED BY <1>3, <1>4, <1>6 DEF g

LEMMA AddEdgeLemma ==
  ASSUME NEW n, NEW V, NEW E, WellFormed(n, V, E), n < MaxID,
         NEW l \in Labels, NEW vs \in AttVertices(V)
  PROVE  LET F == [e \in DOMAIN E \cup {n + 1} |->
                     IF e = n + 1 THEN [label |-> l, vertices |-> vs] ELSE E[e]]
         IN /\ addEdge(Indexed(n, V, E), l, vs) = Indexed(n + 1, V, F)
            /\ WellFormed(n + 1, V, F)
<1> DEFINE F == [e \in DOMAIN E \cup {n + 1} |->
                   IF e = n + 1 THEN [label |-> l, vertices |-> vs] ELSE E[e]]
           g == Indexed(n, V, E)
           m == g.lastUsedID + 1
           G == [e \in DOMAIN g.edges \cup {m} |->
                   IF e = m THEN [label |-> l, vertices |-> vs] ELSE g.edges[e]]
           C == [v \in g.vertices |->
                   [g.connectedEdges[v] EXCEPT ![m] = @ + Occurrences(vs, v)]]
<1>1. /\ n \in Nat /\ n <= MaxID /\ V \subseteq 1 .. n /\ DOMAIN E \subseteq 1 .. n
      /\ E \in [DOMAIN E -> Edge(V)]
      /\ \A e \in DOMAIN E : E[e] \in Edge(V)
  BY EdgesType
<1>2. n + 1 \in 1 .. MaxID /\ n + 1 \in IDs /\ n + 1 \notin DOMAIN E
  BY <1>1, BoundsAreNatural DEF IDs
<1>3. addEdge(g, l, vs) = Graph(m, g.vertices, G, C) BY Zenon DEF addEdge
<1>4. /\ m = n + 1 /\ g.vertices = V /\ g.edges = E
      /\ \A v \in V : g.connectedEdges[v] = IndexOf(V, E)[v]
  BY Fields DEF Indexed
<1> HIDE DEF g, m
<1>5. G = F BY <1>4
<1>6. WellFormed(n + 1, V, F)
  <2>1. n + 1 \in 0 .. MaxID BY <1>2
  <2>2. V \in SUBSET (1 .. n + 1) /\ DOMAIN F \in SUBSET (1 .. n + 1) BY <1>1
  <2>3. [label |-> l, vertices |-> vs] \in Edge(V) BY DEF Edge
  <2>4. F \in [DOMAIN F -> Edge(V)] BY <1>1, <2>3
  <2> QED BY <2>1, <2>2, <2>4 DEF WellFormed
<1>7. IndexOf(V, F) = C
  <2>1. ASSUME NEW v \in V, NEW e \in IDs
        PROVE  (IF e \in DOMAIN F THEN Occurrences(F[e].vertices, v) ELSE 0) = C[v][e]
    <3>0. /\ C[v] = [IndexOf(V, E)[v] EXCEPT ![n + 1] = @ + Occurrences(vs, v)]
          /\ DOMAIN IndexOf(V, E)[v] = IDs
          /\ IndexOf(V, E)[v][e]
               = IF e \in DOMAIN E THEN Occurrences(E[e].vertices, v) ELSE 0
      BY <1>4 DEF IndexOf
    <3>1. CASE e = n + 1
      <4>1. C[v][e] = 0 + Occurrences(vs, v) BY <1>2, <3>0, <3>1
      <4>2. Occurrences(vs, v) \in Nat BY OccurrencesType
      <4> QED BY <3>1, <4>1, <4>2
    <3>2. CASE e # n + 1
      <4>1. C[v][e] = IndexOf(V, E)[v][e] BY <3>0, <3>2
      <4> QED BY <3>0, <3>2, <4>1
    <3> QED BY <3>1, <3>2
  <2>2. DOMAIN C = V /\ \A v \in V : C[v] = [e \in IDs |-> C[v][e]]
    BY <1>4 DEF IndexOf
  <2> HIDE DEF F, C
  <2>3. ASSUME NEW v \in V PROVE IndexOf(V, F)[v] = C[v]
    <3>1. IndexOf(V, F)[v]
            = [e \in IDs |-> IF e \in DOMAIN F THEN Occurrences(F[e].vertices, v) ELSE 0]
      BY DEF IndexOf
    <3> QED BY <2>1, <2>2, <3>1
  <2>4. C = [v \in V |-> C[v]] BY <1>4 DEF C
  <2> QED BY <2>2, <2>3, <2>4 DEF IndexOf
<1> HIDE DEF F, G, C
<1>8. addEdge(g, l, vs) = Indexed(n + 1, V, F) BY <1>3, <1>4, <1>5, <1>7 DEF Indexed
<1> QED BY <1>6, <1>8 DEF F, g

\* Any of the edges may be left out.
LEMMA FewerEdges ==
  ASSUME NEW n, NEW V, NEW E, WellFormed(n, V, E), NEW K \in SUBSET DOMAIN E
  PROVE  /\ WellFormed(n, V, Restrict(E, K))
         /\ DOMAIN Restrict(E, K) = K /\ \A e \in K : Restrict(E, K)[e] = E[e]
BY EdgesType DEF WellFormed, Restrict

LEMMA DeleteEdgeLemma ==
  ASSUME NEW n, NEW V, NEW E, WellFormed(n, V, E), NEW id
  PROVE  deleteEdge(Indexed(n, V, E), id) = Indexed(n, V, Restrict(E, DOMAIN E \ {id}))
<1> DEFINE F == Restrict(E, DOMAIN E \ {id})
           g == Indexed(n, V, E)
           C == [v \in g.vertices |->
                   IF v \in Range(g.edges[id].vertices)
                   THEN [g.connectedEdges[v] EXCEPT ![id] = 0] ELSE g.connectedEdges[v]]
<1>1. E \in [DOMAIN E -> Edge(V)] /\ DOMAIN E \subseteq IDs BY EdgesType
<1>2. DOMAIN F = DOMAIN E \ {id} /\ \A e \in DOMAIN F : F[e] = E[e] BY DEF Restrict
<1>3. /\ g.lastUsedID = n /\ g.vertices = V /\ g.edges = E
      /\ \A v \in V : g.connectedEdges[v] = IndexOf(V, E)[v]
  BY Fields DEF Indexed
<1>4. CASE id \notin DOMAIN E
  <2>1. F = E BY <1>1, <1>4 DEF Restrict
  <2>2. deleteEdge(g, id) = g
    <3> HIDE DEF g
    <3> QED BY <1>3, <1>4 DEF deleteEdge
  <2> QED BY <2>1, <2>2
<1>5. CASE id \in DOMAIN E
  <2>1. deleteEdge(g, id)
          = Graph(g.lastUsedID, g.vertices, Restrict(g.edges, DOMAIN g.edges \ {id}), C)
    <3>1. id \in DOMAIN g.edges BY <1>3, <1>5
    <3> QED BY <3>1, Zenon DEF deleteEdge
  <2> HIDE DEF g
  <2>2. deleteEdge(g, id) = Graph(n, V, F, C) BY <1>3, <2>1
  <2>3. ASSUME NEW v \in V, NEW e \in IDs
        PROVE  C[v][e] = IF e \in DOMAIN F THEN Occurrences(F[e].vertices, v) ELSE 0
    <3>1. /\ IndexOf(V, E)[v][e] = IF e \in DOMAIN E THEN Occurrences(E[e].vertices, v) ELSE 0
          /\ DOMAIN IndexOf(V, E)[v] = IDs
          /\ C[v] = IF v \in Range(E[id].vertices)
                    THEN [IndexOf(V, E)[v] EXCEPT ![id] = 0] ELSE IndexOf(V, E)[v]
      BY <1>3 DEF IndexOf
    <3>2. CASE e = id
      <4>1. v \notin Range(E[id].vertices) => Occurrences(E[id].vertices, v) = 0
        BY <1>5, EdgesType
      <4>2. v \in Range(E[id].vertices) => C[v][e] = 0 BY <3>1, <3>2
      <4>3. v \notin Range(E[id].vertices) => C[v][e] = IndexOf(V, E)[v][e] BY <3>1
      <4> QED BY <1>2, <1>5, <3>1, <3>2, <4>1, <4>2, <4>3
    <3>3. CASE e # id
      <4>1. C[v][e] = IndexOf(V, E)[v][e] BY <3>1, <3>3
      <4> QED BY <1>2, <3>1, <3>3, <4>1
    <3> QED BY <3>2, <3>3
  <2>4. \A v \in V : C[v] = [e \in IDs |-> C[v][e]] BY <1>3 DEF IndexOf
  <2>5. C = [v \in V |-> C[v]] BY <1>3
  <2> HIDE DEF F, C
  <2>6. ASSUME NEW v \in V PROVE IndexOf(V, F)[v] = C[v]
    <3>1. IndexOf(V, F)[v]
            = [e \in IDs |-> IF e \in DOMAIN F THEN Occurrences(F[e].vertices, v) ELSE 0]
      BY DEF IndexOf
    <3> QED BY <2>3, <2>4, <3>1
  <2>7. IndexOf(V, F) = C BY <2>5, <2>6 DEF IndexOf
  <2> QED BY <2>2, <2>7 DEF Indexed, F, g
<1> QED BY <1>4, <1>5

\* The loop of deleteVertex over the edges of the vertex.
LEMMA DeleteEdges ==
  ASSUME NEW n, NEW V, NEW E, WellFormed(n, V, E), NEW S \in SUBSET DOMAIN E
  PROVE  deleteEdges(Indexed(n, V, E), S) = Indexed(n, V, Restrict(E, DOMAIN E \ S))
<1> DEFINE g == Indexed(n, V, E)
           Left(s) == Indexed(n, V, Restrict(E, DOMAIN E \ s))
           Step(f) == [s \in SUBSET S |->
             IF s = {} THEN g
             ELSE deleteEdge(f[s \ {CHOOSE x \in s : TRUE}], CHOOSE x \in s : TRUE)]
           f0 == [s \in SUBSET S |-> Left(s)]
           iter == CHOOSE f : f = Step(f)
<1>1. DOMAIN E \subseteq 1 .. n /\ n \in Nat /\ E = [e \in DOMAIN E |-> E[e]] BY EdgesType
<1>2. IsFiniteSet(S)
  <2>1. IsFiniteSet(1 .. n) BY <1>1, FS_Interval
  <2> QED BY <1>1, <2>1, FS_Subset
<1>3. Left({}) = g
  <2>1. Restrict(E, DOMAIN E \ {}) = E BY <1>1 DEF Restrict
  <2> QED BY <2>1
<1>4. ASSUME NEW s \in SUBSET S, NEW x \in s
      PROVE  deleteEdge(Left(s \ {x}), x) = Left(s)
  <2> DEFINE F == Restrict(E, DOMAIN E \ (s \ {x}))
  <2>1. WellFormed(n, V, F) BY FewerEdges
  <2> HIDE DEF F
  <2>2. deleteEdge(Indexed(n, V, F), x) = Indexed(n, V, Restrict(F, DOMAIN F \ {x}))
    BY <2>1, DeleteEdgeLemma
  <2>3. Restrict(F, DOMAIN F \ {x}) = Restrict(E, DOMAIN E \ s)
    <3>1. DOMAIN F \ {x} = DOMAIN E \ s /\ \A y \in DOMAIN E \ s : F[y] = E[y]
      BY DEF Restrict, F
    <3> QED BY <3>1 DEF Restrict
  <2> QED BY <2>2, <2>3 DEF F
<1> HIDE DEF Left, g
<1>5. ASSUME NEW s \in SUBSET S PROVE f0[s] = Step(f0)[s]
  <2>1. CASE s = {} BY <1>3, <2>1
  <2>2. CASE s # {}
    <3> DEFINE x == CHOOSE y \in s : TRUE
    <3>1. x \in s BY <2>2
    <3> HIDE DEF x
    <3>2. s \ {x} \in SUBSET S /\ f0[s \ {x}] = Left(s \ {x}) /\ f0[s] = Left(s) OBVIOUS
    <3>3. deleteEdge(f0[s \ {x}], x) = f0[s] BY <1>4, <3>1, <3>2
    <3>4. Step(f0)[s] = deleteEdge(f0[s \ {x}], x) BY <2>2, Zenon DEF x
    <3> QED BY <3>3, <3>4
  <2> QED BY <2>1, <2>2
<1>6. f0 = Step(f0) BY <1>5
<1>7. iter = Step(iter) BY <1>6
<1>8. deleteEdges(g, S) = iter[S] BY DEF deleteEdges, FoldSet, MapThenFoldSet
<1> HIDE DEF iter
<1> DEFINE Good == {s \in SUBSET S : iter[s] = Left(s)}
<1>9. {} \in Good
  <2>1. Step(iter)[{}] = g OBVIOUS
  <2> HIDE DEF Step
  <2> QED BY <1>3, <1>7, <2>1
<1>10. \A s \in SUBSET S : s # {} => \E x \in s : s \ {x} \in Good => s \in Good
  <2> SUFFICES ASSUME NEW s \in SUBSET S, s # {}
               PROVE  \E x \in s : s \ {x} \in Good => s \in Good
    OBVIOUS
  <2> DEFINE x == CHOOSE y \in s : TRUE
  <2>1. x \in s OBVIOUS
  <2>2. Step(iter)[s] = deleteEdge(iter[s \ {x}], x) BY Zenon
  <2> HIDE DEF x, Step
  <2>3. iter[s] = deleteEdge(iter[s \ {x}], x) BY <1>7, <2>2
  <2>4. ASSUME s \ {x} \in Good PROVE s \in Good BY <1>4, <2>1, <2>3, <2>4
  <2> QED BY <2>1, <2>4
<1>11. SUBSET S \subseteq Good
  <2> HIDE DEF Good
  <2> QED BY <1>2, <1>9, <1>10, SubsetInduction
<1>12. iter[S] = Left(S) BY <1>11
<1> QED BY <1>8, <1>12 DEF Left, g

\* A graph without some vertices and all edges at them.
LEMMA FewerVertices ==
  ASSUME NEW n, NEW V, NEW E, WellFormed(n, V, E), NEW S
  PROVE  WellFormed(n, V \ S, Restrict(E, DOMAIN E \ Attached(E, S)))
<1> DEFINE K == DOMAIN E \ Attached(E, S)
           F == Restrict(E, K)
<1>1. ASSUME NEW e \in K PROVE E[e] \in Edge(V \ S)
  <2>1. /\ E[e] \in Edge(V) /\ Range(E[e].vertices) \subseteq V
        /\ Range(E[e].vertices) \cap S = {}
    BY EdgesType DEF Attached
  <2>2. PICK k \in 0 .. MaxArity : E[e].vertices \in [1 .. k -> V]
    BY <2>1 DEF Edge, AttVertices
  <2>3. E[e].vertices \in [1 .. k -> V \ S] BY <2>1, <2>2 DEF Range
  <2>4. E[e].vertices \in AttVertices(V \ S) BY <2>3 DEF AttVertices
  <2> QED BY <2>1, <2>4 DEF Edge
<1>2. DOMAIN F = K /\ F \in [K -> Edge(V \ S)] BY <1>1 DEF Restrict
<1>3. V \ S \in SUBSET (1 .. n) /\ K \in SUBSET (1 .. n) /\ n \in 0 .. MaxID
  BY EdgesType DEF WellFormed
<1> HIDE DEF K, F
<1>4. WellFormed(n, V \ S, F) BY <1>2, <1>3 DEF WellFormed
<1> QED BY <1>4 DEF K, F

LEMMA DeleteVertexLemma ==
  ASSUME NEW n, NEW V, NEW E, WellFormed(n, V, E), NEW id
  PROVE  deleteVertex(Indexed(n, V, E), id)
           = Indexed(n, V \ {id}, Restrict(E, DOMAIN E \ Attached(E, {id})))
<1> DEFINE g == Indexed(n, V, E)
           A == Attached(E, {id})
           F == Restrict(E, DOMAIN E \ A)
           W == V \ {id}
           h == deleteEdges(g, ConnectedTo(g, id))
<1>1. g.vertices = V BY Fields DEF Indexed
<1>2. CASE id \notin V
  <2>1. A = {} BY <1>2, EdgesType DEF Attached
  <2> HIDE DEF A
  <2>2. W = V /\ DOMAIN E \ A = DOMAIN E /\ E = [e \in DOMAIN E |-> E[e]]
    <3>1. E \in [DOMAIN E -> Edge(V)] BY EdgesType
    <3> QED BY <1>2, <2>1, <3>1
  <2>3. F = E BY <2>2 DEF Restrict
  <2>4. deleteVertex(g, id) = g BY <1>1, <1>2 DEF deleteVertex
  <2> QED BY <2>2, <2>3, <2>4 DEF A
<1>3. CASE id \in V
  <2>1. ConnectedTo(g, id) = A BY <1>3, ConnectedToIsAttached
  <2>2. A \in SUBSET DOMAIN E BY DEF Attached
  <2>3. deleteVertex(g, id)
          = Graph(h.lastUsedID, g.vertices \ {id}, h.edges,
                  Restrict(h.connectedEdges, g.vertices \ {id}))
    BY <1>1, <1>3, Zenon DEF deleteVertex
  <2> HIDE DEF A
  <2>4. h = Indexed(n, V, F)
    <3>1. deleteEdges(g, A) = Indexed(n, V, F) BY <2>2, DeleteEdges
    <3> QED BY <2>1, <3>1
  <2> HIDE DEF h, F, g
  <2>5. h.lastUsedID = n /\ h.edges = F /\ h.connectedEdges = IndexOf(V, F)
    BY <2>4, Fields DEF Indexed
  <2>6. Restrict(IndexOf(V, F), W) = IndexOf(W, F) BY DEF Restrict, IndexOf
  <2>7. deleteVertex(g, id) = Graph(n, W, F, IndexOf(W, F)) BY <1>1, <2>3, <2>5, <2>6
  <2> QED BY <2>7 DEF Indexed, F, A, g
<1> QED BY <1>2, <1>3

\* deleteVertices takes exactly the vertices and the edges attached to them, in
\* whatever order it goes through the set, and reports these edges.
LEMMA DeleteVerticesLemma ==
  ASSUME NEW n, NEW V, NEW E, WellFormed(n, V, E), NEW S \in SUBSET (1 .. n)
  PROVE  deleteVertices(Indexed(n, V, E), S)
           = [graph |-> Indexed(n, V \ S, Restrict(E, DOMAIN E \ Attached(E, S))),
              delEdges |-> Attached(E, S)]
<1> DEFINE base == [graph |-> Indexed(n, V, E), delEdges |-> {}]
           Left(s) == [graph |-> Indexed(n, V \ s, Restrict(E, DOMAIN E \ Attached(E, s))),
                       delEdges |-> Attached(E, s)]
           Without(v, acc) ==
             [graph |-> deleteVertex(acc.graph, v),
              delEdges |-> acc.delEdges \cup
                IF v \in acc.graph.vertices THEN ConnectedTo(acc.graph, v) ELSE {}]
           Step(f) == [s \in SUBSET S |->
             IF s = {} THEN base
             ELSE Without(CHOOSE x \in s : TRUE, f[s \ {CHOOSE x \in s : TRUE}])]
           f0 == [s \in SUBSET S |-> Left(s)]
           iter == CHOOSE f : f = Step(f)
<1>1. n \in Nat /\ E \in [DOMAIN E -> Edge(V)] BY EdgesType
<1>2. IsFiniteSet(S)
  <2>1. IsFiniteSet(1 .. n) BY <1>1, FS_Interval
  <2> QED BY <2>1, FS_Subset
<1>3. Left({}) = base
  <2>1. Attached(E, {}) = {} BY DEF Attached
  <2>2. DOMAIN E \ {} = DOMAIN E /\ V \ {} = V /\ E = [e \in DOMAIN E |-> E[e]] BY <1>1
  <2>3. Restrict(E, DOMAIN E) = E BY <2>2 DEF Restrict
  <2> QED BY <2>1, <2>2, <2>3
<1>4. ASSUME NEW s \in SUBSET S, NEW x \in s
      PROVE  Without(x, Left(s \ {x})) = Left(s)
  <2> DEFINE t == s \ {x}
             W == V \ t
             A == Attached(E, t)
             F == Restrict(E, DOMAIN E \ A)
             B == Attached(F, {x})
  <2>1. WellFormed(n, W, F) BY FewerVertices
  <2>2. DOMAIN F = DOMAIN E \ A /\ \A e \in DOMAIN F : F[e] = E[e] BY DEF Restrict
  <2>3. A \cup B = Attached(E, s) /\ DOMAIN F \ B = DOMAIN E \ Attached(E, s)
        /\ A \subseteq DOMAIN E
    <3> HIDE DEF F
    <3>1. t \cup {x} = s OBVIOUS
    <3>2. A \subseteq DOMAIN E BY DEF Attached
    <3>3. ASSUME NEW e \in DOMAIN E PROVE e \in A \cup B <=> e \in Attached(E, s)
      <4>1. Range(E[e].vertices) \cap s # {}
              <=> \/ Range(E[e].vertices) \cap t # {}
                  \/ Range(E[e].vertices) \cap {x} # {}
        BY <3>1
      <4> QED BY <2>2, <4>1 DEF Attached
    <3>4. B \subseteq DOMAIN E /\ Attached(E, s) \subseteq DOMAIN E BY <2>2 DEF Attached
    <3> HIDE DEF A, B
    <3> QED BY <2>2, <3>2, <3>3, <3>4
  <2>4. (W \ {x}) = V \ s OBVIOUS
  <2>5. Restrict(F, DOMAIN F \ B) = Restrict(E, DOMAIN E \ Attached(E, s))
    <3> HIDE DEF F, B, A
    <3> QED BY <2>2, <2>3 DEF Restrict
  <2>6. deleteVertex(Indexed(n, W, F), x) = Indexed(n, W \ {x}, Restrict(F, DOMAIN F \ B))
    <3> HIDE DEF W, F
    <3> QED BY <2>1, DeleteVertexLemma
  <2>7. (IF x \in Indexed(n, W, F).vertices THEN ConnectedTo(Indexed(n, W, F), x) ELSE {}) = B
    <3> HIDE DEF W, F
    <3>1. Indexed(n, W, F).vertices = W BY Fields DEF Indexed
    <3>2. CASE x \in W BY <2>1, <3>1, <3>2, ConnectedToIsAttached
    <3>3. CASE x \notin W
      <4>1. B = {} BY <2>1, <3>3, EdgesType DEF Attached
      <4> QED BY <3>1, <3>3, <4>1
    <3> QED BY <3>2, <3>3
  <2>8. Left(t).graph = Indexed(n, W, F) /\ Left(t).delEdges = A OBVIOUS
  <2> HIDE DEF t, W, F, A, B, Left
  <2>9. Without(x, Left(t))
          = [graph |-> Indexed(n, V \ s, Restrict(E, DOMAIN E \ Attached(E, s))),
             delEdges |-> Attached(E, s)]
    BY <2>3, <2>4, <2>5, <2>6, <2>7, <2>8
  <2> QED BY <2>9 DEF t, Left
<1> HIDE DEF Left, base, Without
<1>5. ASSUME NEW s \in SUBSET S PROVE f0[s] = Step(f0)[s]
  <2>1. CASE s = {} BY <1>3, <2>1
  <2>2. CASE s # {}
    <3> DEFINE x == CHOOSE y \in s : TRUE
    <3>1. x \in s BY <2>2
    <3> HIDE DEF x
    <3>2. s \ {x} \in SUBSET S /\ f0[s \ {x}] = Left(s \ {x}) /\ f0[s] = Left(s) OBVIOUS
    <3>3. Without(x, f0[s \ {x}]) = f0[s] BY <1>4, <3>1, <3>2
    <3>4. Step(f0)[s] = Without(x, f0[s \ {x}]) BY <2>2, Zenon DEF x
    <3> QED BY <3>3, <3>4
  <2> QED BY <2>1, <2>2
<1>6. f0 = Step(f0) BY <1>5
<1>7. iter = Step(iter) BY <1>6
<1>8. deleteVertices(Indexed(n, V, E), S) = iter[S]
  BY Zenon DEF deleteVertices, FoldSet, MapThenFoldSet, Without, base
<1> HIDE DEF iter
<1> DEFINE Good == {s \in SUBSET S : iter[s] = Left(s)}
<1>9. {} \in Good
  <2>1. Step(iter)[{}] = base OBVIOUS
  <2> HIDE DEF Step
  <2> QED BY <1>3, <1>7, <2>1
<1>10. \A s \in SUBSET S : s # {} => \E x \in s : s \ {x} \in Good => s \in Good
  <2> SUFFICES ASSUME NEW s \in SUBSET S, s # {}
               PROVE  \E x \in s : s \ {x} \in Good => s \in Good
    OBVIOUS
  <2> DEFINE x == CHOOSE y \in s : TRUE
  <2>1. x \in s OBVIOUS
  <2>2. Step(iter)[s] = Without(x, iter[s \ {x}]) BY Zenon
  <2> HIDE DEF x, Step
  <2>3. iter[s] = Without(x, iter[s \ {x}]) BY <1>7, <2>2
  <2>4. ASSUME s \ {x} \in Good PROVE s \in Good BY <1>4, <2>1, <2>3, <2>4
  <2> QED BY <2>1, <2>4
<1>11. SUBSET S \subseteq Good
  <2> HIDE DEF Good
  <2> QED BY <1>2, <1>9, <1>10, SubsetInduction
<1>12. iter[S] = Left(S) BY <1>11
<1> QED BY <1>8, <1>12 DEF Left

-----------------------------------------------------------------------------
(* Merging two vertices *)

\* Writing v for w, every position of w becomes one of v.
LEMMA OccurrencesReplaced ==
  ASSUME NEW S, NEW vs \in AttVertices(S), NEW v, NEW w, v # w
  PROVE  /\ Occurrences(Replaced(vs, w, v), v) = Occurrences(vs, v) + Occurrences(vs, w)
         /\ \A x : x # v /\ x # w => Occurrences(Replaced(vs, w, v), x) = Occurrences(vs, x)
         /\ w \notin Range(vs) => Replaced(vs, w, v) = vs
<1>1. PICK n \in 0 .. MaxArity : vs \in [1 .. n -> S] BY DEF AttVertices
<1>2. n \in Nat BY <1>1, BoundsAreNatural
<1> DEFINE us == Replaced(vs, w, v)
           At(x) == {i \in 1 .. n : vs[i] = x}
<1>3. DOMAIN us = 1 .. n /\ \A i \in 1 .. n : us[i] = IF vs[i] = w THEN v ELSE vs[i]
  BY <1>1 DEF Replaced
<1>4. \A x : Occurrences(vs, x) = Cardinality(At(x)) BY <1>1 DEF Occurrences
<1>5. \A x : IsFiniteSet(At(x)) /\ Cardinality(At(x)) \in Nat
  <2>1. IsFiniteSet(1 .. n) BY <1>2, FS_Interval
  <2>2. \A x : At(x) \in SUBSET (1 .. n) OBVIOUS
  <2> HIDE DEF At
  <2> QED BY <2>1, <2>2, FS_Subset, FS_CardinalityType
<1>6. At(v) \cap At(w) = {} OBVIOUS
<1>7. {i \in DOMAIN us : us[i] = v} = At(v) \cup At(w) BY <1>3
<1>8. \A x : x # v /\ x # w => {i \in DOMAIN us : us[i] = x} = At(x) BY <1>3
<1>9. w \notin Range(vs) => us = vs BY <1>1 DEF Range, Replaced
<1>10. Cardinality(At(v) \cup At(w)) = Cardinality(At(v)) + Cardinality(At(w))
  <2> HIDE DEF At
  <2>1. Cardinality(At(v) \cup At(w))
          = Cardinality(At(v)) + Cardinality(At(w)) - Cardinality(At(v) \cap At(w))
    BY <1>5, FS_Union
  <2>2. Cardinality(At(v) \cap At(w)) = 0 BY <1>6, FS_EmptySet
  <2> QED BY <1>5, <2>1, <2>2
<1>11. Occurrences(us, v) = Cardinality(At(v) \cup At(w)) BY <1>7 DEF Occurrences
<1>12. \A x : x # v /\ x # w => Occurrences(us, x) = Cardinality(At(x)) BY <1>8 DEF Occurrences
<1> HIDE DEF us, At
<1>13. /\ Occurrences(us, v) = Occurrences(vs, v) + Occurrences(vs, w)
       /\ \A x : x # v /\ x # w => Occurrences(us, x) = Occurrences(vs, x)
       /\ w \notin Range(vs) => us = vs
  BY <1>4, <1>9, <1>10, <1>11, <1>12
<1> QED BY <1>13 DEF us

\* Other vertices for the same edge.
LEMMA SetVertices ==
  ASSUME NEW S, NEW x \in Edge(S), NEW vs
  PROVE  [x EXCEPT !.vertices = vs] = [label |-> x.label, vertices |-> vs]
<1>1. x \in [label : Labels, vertices : AttVertices(S)] BY DEF Edge
<1> HIDE DEF Edge
<1> QED BY <1>1

\* What an index has to list to be the one that belongs to V and F.
LEMMA IndexIsDetermined ==
  ASSUME NEW V, NEW F, NEW C, C = [v \in V |-> C[v]],
         \A v \in V : C[v] = [e \in IDs |-> C[v][e]],
         \A v \in V, e \in IDs :
            C[v][e] = IF e \in DOMAIN F THEN Occurrences(F[e].vertices, v) ELSE 0
  PROVE  C = IndexOf(V, F)
<1>1. ASSUME NEW v \in V PROVE IndexOf(V, F)[v] = C[v]
  <2>1. IndexOf(V, F)[v]
          = [e \in IDs |-> IF e \in DOMAIN F THEN Occurrences(F[e].vertices, v) ELSE 0]
    BY DEF IndexOf
  <2> QED BY <2>1
<1> QED BY <1>1 DEF IndexOf

LEMMA MergeLemma ==
  ASSUME NEW n, NEW W, NEW F, WellFormed(n, W, F), NEW v \in W, NEW w \in W, v # w
  PROVE  mergeVertices(Indexed(n, W, F), v, w)
           = Indexed(n, W \ {w},
                     [e \in DOMAIN F |->
                        [label |-> F[e].label, vertices |-> Replaced(F[e].vertices, w, v)]])
<1> DEFINE g == Indexed(n, W, F)
           G == [e \in DOMAIN F |->
                   [label |-> F[e].label, vertices |-> Replaced(F[e].vertices, w, v)]]
           T == ConnectedTo(g, w)
           R == Reattached(g.edges, T, w, v)
           C == [x \in g.vertices \ {w} |->
                   IF x = v
                   THEN [e \in IDs |-> g.connectedEdges[v][e] +
                           IF e \in T THEN Occurrences(g.edges[e].vertices, w) ELSE 0]
                   ELSE g.connectedEdges[x]]
<1>1. /\ F \in [DOMAIN F -> Edge(W)] /\ DOMAIN F \subseteq IDs
      /\ \A e \in DOMAIN F : F[e] \in Edge(W) /\ F[e].vertices \in AttVertices(W)
  BY EdgesType
<1>2. /\ g.lastUsedID = n /\ g.vertices = W /\ g.edges = F
      /\ \A x \in W : g.connectedEdges[x] = IndexOf(W, F)[x]
  BY Fields DEF Indexed
<1>3. mergeVertices(g, v, w) = Graph(g.lastUsedID, g.vertices \ {w}, R, C)
  BY Zenon DEF mergeVertices
<1>4. T = Attached(F, {w}) BY ConnectedToIsAttached
<1>5. \A e \in IDs : e \in T <=> e \in DOMAIN F /\ w \in Range(F[e].vertices)
  BY <1>1, <1>4 DEF Attached
<1> HIDE DEF g, T
<1>6. R = G
  <2>1. R = [e \in DOMAIN F |->
               IF e \in T THEN [F[e] EXCEPT !.vertices = Replaced(@, w, v)] ELSE F[e]]
    BY <1>2 DEF Reattached
  <2>2. ASSUME NEW e \in DOMAIN F
        PROVE  (IF e \in T THEN [F[e] EXCEPT !.vertices = Replaced(@, w, v)] ELSE F[e]) = G[e]
    <3>1. CASE e \in T
      <4>1. [F[e] EXCEPT !.vertices = Replaced(F[e].vertices, w, v)] = G[e]
        BY <1>1, SetVertices
      <4> QED BY <3>1, <4>1
    <3>2. CASE e \notin T
      <4>1. Replaced(F[e].vertices, w, v) = F[e].vertices
        BY <1>1, <1>5, <3>2, OccurrencesReplaced
      <4>2. F[e] = [label |-> F[e].label, vertices |-> F[e].vertices] BY <1>1 DEF Edge
      <4> QED BY <3>2, <4>1, <4>2
    <3> QED BY <3>1, <3>2
  <2> QED BY <2>1, <2>2
<1>7. C = IndexOf(W \ {w}, G)
  <2>0. DOMAIN G = DOMAIN F
        /\ \A e \in DOMAIN F : G[e].vertices = Replaced(F[e].vertices, w, v)
    OBVIOUS
  <2>a. \A x \in W, e \in IDs :
          IndexOf(W, F)[x][e] = IF e \in DOMAIN F THEN Occurrences(F[e].vertices, x) ELSE 0
    BY DEF IndexOf
  <2>b. \A x \in W : IndexOf(W, F)[x] = [e \in IDs |-> IndexOf(W, F)[x][e]] BY DEF IndexOf
  <2>c. C = [x \in W \ {w} |-> C[x]] BY <1>2
  <2>d. C[v] = [e \in IDs |-> g.connectedEdges[v][e] +
                  IF e \in T THEN Occurrences(g.edges[e].vertices, w) ELSE 0]
    BY <1>2
  <2>e. \A x \in W \ {w} : x # v => C[x] = IndexOf(W, F)[x] BY <1>2
  <2> HIDE DEF G, C
  <2>1. ASSUME NEW x \in W \ {w}, NEW e \in IDs
        PROVE  C[x][e] = IF e \in DOMAIN G THEN Occurrences(G[e].vertices, x) ELSE 0
    <3>1. CASE x = v
      <4>1. C[v][e] = IndexOf(W, F)[v][e] +
                        IF e \in T THEN Occurrences(F[e].vertices, w) ELSE 0
        BY <1>2, <2>d
      <4>2. CASE e \notin DOMAIN F BY <1>5, <2>0, <2>a, <3>1, <4>1, <4>2
      <4>3. CASE e \in DOMAIN F
        <5>1. /\ Occurrences(F[e].vertices, v) \in Nat /\ Occurrences(F[e].vertices, w) \in Nat
              /\ w \notin Range(F[e].vertices) => Occurrences(F[e].vertices, w) = 0
          BY <1>1, <4>3, OccurrencesType
        <5>2. Occurrences(G[e].vertices, v)
                = Occurrences(F[e].vertices, v) + Occurrences(F[e].vertices, w)
          BY <1>1, <2>0, <4>3, OccurrencesReplaced
        <5>3. C[v][e] = Occurrences(F[e].vertices, v) +
                          IF e \in T THEN Occurrences(F[e].vertices, w) ELSE 0
          BY <2>a, <4>1, <4>3
        <5>4. C[v][e] = Occurrences(F[e].vertices, v) + Occurrences(F[e].vertices, w)
          BY <1>5, <4>3, <5>1, <5>3
        <5> QED BY <2>0, <3>1, <4>3, <5>2, <5>4
      <4> QED BY <4>2, <4>3
    <3>2. CASE x # v
      <4>1. C[x][e] = IF e \in DOMAIN F THEN Occurrences(F[e].vertices, x) ELSE 0
        BY <2>a, <2>e, <3>2
      <4>2. e \in DOMAIN F => Occurrences(G[e].vertices, x) = Occurrences(F[e].vertices, x)
        BY <1>1, <2>0, <3>2, OccurrencesReplaced
      <4> QED BY <2>0, <4>1, <4>2
    <3> QED BY <3>1, <3>2
  <2>2. ASSUME NEW x \in W \ {w} PROVE C[x] = [e \in IDs |-> C[x][e]]
    <3>1. CASE x = v BY <2>d, <3>1
    <3>2. CASE x # v BY <2>b, <2>e, <3>2
    <3> QED BY <3>1, <3>2
  <2> QED BY <2>c, <2>1, <2>2, IndexIsDetermined
<1> HIDE DEF R, C, G
<1>8. mergeVertices(g, v, w) = Indexed(n, W \ {w}, G) BY <1>2, <1>3, <1>6, <1>7 DEF Indexed
<1> QED BY <1>8 DEF g, G

-----------------------------------------------------------------------------
(* Merging one pair after the other: r says which vertex stands for each   *)
(* of the vertices V the merges began with, and K which edges are left.    *)

Reps(V) == {r \in [V -> V] : \A x \in V : r[r[x]] = r[x]}

Mapped(r, E, K) ==
  [e \in K |-> [label |-> E[e].label,
                vertices |-> [i \in DOMAIN E[e].vertices |-> r[E[e].vertices[i]]]]]

QuotientBy(n, E, r, K) == Indexed(n, Range(r), Mapped(r, E, K))

Joined(r, v, w) == [x \in DOMAIN r |-> IF r[x] = w THEN v ELSE r[x]]

\* The vertices of an edge are what they are when nothing is merged.
LEMMA VerticesOfEdge ==
  ASSUME NEW n, NEW V, NEW E, WellFormed(n, V, E), NEW e \in DOMAIN E
  PROVE  \E k \in 0 .. MaxArity :
           /\ E[e].vertices \in [1 .. k -> V] /\ k \in Nat
           /\ E[e].vertices \in Seq(V) /\ Len(E[e].vertices) = k
<1>1. E[e].vertices \in AttVertices(V) BY EdgesType
<1>2. PICK k \in 0 .. MaxArity : E[e].vertices \in [1 .. k -> V] BY <1>1 DEF AttVertices
<1>3. k \in Nat BY BoundsAreNatural
<1>4. E[e].vertices \in Seq(V) /\ Len(E[e].vertices) = k BY <1>2, <1>3, LenOfFunction
<1> QED BY <1>2, <1>3, <1>4

LEMMA MappedIsWellFormed ==
  ASSUME NEW n, NEW V, NEW E, WellFormed(n, V, E), NEW r \in Reps(V), NEW K \in SUBSET DOMAIN E
  PROVE  /\ WellFormed(n, Range(r), Mapped(r, E, K)) /\ Range(r) \subseteq V
         /\ DOMAIN Mapped(r, E, K) = K
<1> DEFINE W == Range(r)
           F == Mapped(r, E, K)
<1>1. W \subseteq V /\ \A x \in V : r[x] \in W BY DEF Reps, Range
<1>2. DOMAIN F = K BY DEF Mapped
<1>3. ASSUME NEW e \in K PROVE F[e] \in Edge(W)
  <2>1. PICK k \in 0 .. MaxArity : E[e].vertices \in [1 .. k -> V] BY VerticesOfEdge
  <2> DEFINE vs == [i \in DOMAIN E[e].vertices |-> r[E[e].vertices[i]]]
  <2>2. vs \in [1 .. k -> W] BY <1>1, <2>1
  <2>3. vs \in AttVertices(W) BY <2>2 DEF AttVertices
  <2>4. E[e] \in Edge(V) BY EdgesType
  <2>5. E[e].label \in Labels BY <2>4 DEF Edge
  <2>6. F[e] = [label |-> E[e].label, vertices |-> vs] BY DEF Mapped
  <2> HIDE DEF vs, F
  <2> QED BY <2>3, <2>5, <2>6 DEF Edge
<1>4. F \in [K -> Edge(W)] BY <1>3 DEF Mapped
<1>5. W \in SUBSET (1 .. n) /\ K \in SUBSET (1 .. n) /\ n \in 0 .. MaxID
  BY <1>1, EdgesType DEF WellFormed
<1> HIDE DEF W, F
<1>6. WellFormed(n, W, F) BY <1>2, <1>4, <1>5 DEF WellFormed
<1> QED BY <1>1, <1>2, <1>6 DEF W, F

\* Nothing is merged yet.
LEMMA IdentityIsRep ==
  ASSUME NEW n, NEW V, NEW E, WellFormed(n, V, E), NEW r, r = [x \in V |-> x]
  PROVE  /\ r \in Reps(V) /\ Range(r) = V
         /\ QuotientBy(n, E, r, DOMAIN E) = Indexed(n, V, E)
<1>1. r \in Reps(V) /\ Range(r) = V BY DEF Reps, Range
<1> DEFINE F == Mapped(r, E, DOMAIN E)
<1>2. ASSUME NEW e \in DOMAIN E PROVE F[e] = E[e]
  <2>1. PICK k \in 0 .. MaxArity : E[e].vertices \in [1 .. k -> V] BY VerticesOfEdge
  <2>2. [i \in DOMAIN E[e].vertices |-> r[E[e].vertices[i]]] = E[e].vertices BY <2>1
  <2>3. E[e] \in Edge(V) BY EdgesType
  <2>4. E[e] = [label |-> E[e].label, vertices |-> E[e].vertices] BY <2>3 DEF Edge
  <2>5. F[e] = [label |-> E[e].label,
                vertices |-> [i \in DOMAIN E[e].vertices |-> r[E[e].vertices[i]]]]
    BY DEF Mapped
  <2> QED BY <2>2, <2>4, <2>5
<1>3. E = [e \in DOMAIN E |-> E[e]] /\ F = [e \in DOMAIN E |-> F[e]]
  <2>1. E \in [DOMAIN E -> Edge(V)] BY EdgesType
  <2>2. E = [e \in DOMAIN E |-> E[e]] BY <2>1
  <2>3. F = [e \in DOMAIN E |-> F[e]] BY DEF Mapped
  <2> QED BY <2>2, <2>3
<1>4. F = E
  <2> HIDE DEF F
  <2> QED BY <1>2, <1>3
<1> QED BY <1>1, <1>4 DEF QuotientBy

\* Merging w into v lets v stand for all that w stood for.
LEMMA JoinLemma ==
  ASSUME NEW n, NEW V, NEW E, WellFormed(n, V, E), NEW r \in Reps(V), NEW K \in SUBSET DOMAIN E,
         NEW v \in Range(r), NEW w \in Range(r)
  PROVE  /\ Joined(r, v, w) \in Reps(V)
         /\ Range(Joined(r, v, w)) = Range(r) \ ({w} \ {v})
         /\ mergeVertices(QuotientBy(n, E, r, K), v, w) = QuotientBy(n, E, Joined(r, v, w), K)
<1> DEFINE q == Joined(r, v, w)
           W == Range(r)
           F == Mapped(r, E, K)
<1>1. /\ r \in [V -> V] /\ \A x \in V : r[r[x]] = r[x]
      /\ v \in V /\ w \in V /\ r[v] = v /\ r[w] = w
  BY DEF Reps, Range
<1>2. q \in [V -> V] /\ \A x \in V : q[x] = IF r[x] = w THEN v ELSE r[x]
  BY <1>1 DEF Joined
<1>3. q \in Reps(V)
  <2>1. ASSUME NEW x \in V PROVE q[q[x]] = q[x]
    <3>1. CASE r[x] = w
      <4>1. q[x] = v /\ q[v] = v BY <1>1, <1>2, <3>1
      <4> QED BY <4>1
    <3>2. CASE r[x] # w
      <4>1. q[x] = r[x] /\ r[x] \in V /\ r[r[x]] # w BY <1>1, <1>2, <3>2
      <4> QED BY <1>1, <1>2, <4>1
    <3> QED BY <3>1, <3>2
  <2> QED BY <1>2, <2>1 DEF Reps
<1>4. Range(q) = W \ ({w} \ {v})
  <2>1. ASSUME NEW x \in V PROVE q[x] \in W \ ({w} \ {v}) BY <1>1, <1>2 DEF Range
  <2>2. ASSUME NEW y \in W \ ({w} \ {v}) PROVE y \in Range(q)
    <3>1. y \in V /\ r[y] = y BY <1>1 DEF Range
    <3>2. q[y] = y BY <1>2, <2>2, <3>1
    <3> QED BY <1>2, <3>1, <3>2 DEF Range
  <2>3. \A y \in Range(q) : \E x \in V : y = q[x] BY <1>2 DEF Range
  <2> HIDE DEF q, W
  <2> QED BY <2>1, <2>2, <2>3
<1>5. WellFormed(n, W, F) /\ DOMAIN F = K BY MappedIsWellFormed
<1>6. CASE v = w
  <2>1. q = r BY <1>1, <1>6 DEF Joined
  <2>2. mergeVertices(Indexed(n, W, F), v, w) = Indexed(n, W, F) BY <1>6 DEF mergeVertices
  <2> QED BY <1>3, <1>4, <2>1, <2>2 DEF QuotientBy
<1>7. CASE v # w
  <2> DEFINE G == [e \in DOMAIN F |->
                     [label |-> F[e].label, vertices |-> Replaced(F[e].vertices, w, v)]]
  <2> HIDE DEF F
  <2>1. mergeVertices(Indexed(n, W, F), v, w) = Indexed(n, W \ {w}, G)
    BY <1>5, <1>7, MergeLemma
  <2>2. ASSUME NEW e \in K PROVE G[e] = Mapped(q, E, K)[e]
    <3>1. PICK k \in 0 .. MaxArity : E[e].vertices \in [1 .. k -> V] BY VerticesOfEdge
    <3> DEFINE us == E[e].vertices
    <3>2. F[e] = [label |-> E[e].label, vertices |-> [i \in DOMAIN us |-> r[us[i]]]]
      BY DEF Mapped, F
    <3>3. Replaced([i \in DOMAIN us |-> r[us[i]]], w, v) = [i \in DOMAIN us |-> q[us[i]]]
      <4>1. \A i \in DOMAIN us : us[i] \in V BY <3>1
      <4> HIDE DEF us, q
      <4> QED BY <1>2, <4>1 DEF Replaced
    <3>4. Mapped(q, E, K)[e] = [label |-> E[e].label, vertices |-> [i \in DOMAIN us |-> q[us[i]]]]
      BY DEF Mapped
    <3>5. F[e].label = E[e].label /\ F[e].vertices = [i \in DOMAIN us |-> r[us[i]]] BY <3>2
    <3>6. G[e] = [label |-> F[e].label, vertices |-> Replaced(F[e].vertices, w, v)] BY <1>5
    <3> HIDE DEF us, q, G
    <3> QED BY <3>3, <3>4, <3>5, <3>6
  <2>3. G = [e \in K |-> G[e]] /\ Mapped(q, E, K) = [e \in K |-> Mapped(q, E, K)[e]]
    BY <1>5 DEF Mapped
  <2> HIDE DEF G, q
  <2>4. G = Mapped(q, E, K) BY <2>2, <2>3
  <2>5. W \ {w} = W \ ({w} \ {v}) BY <1>7
  <2>6. mergeVertices(Indexed(n, W, F), v, w) = Indexed(n, Range(q), Mapped(q, E, K))
    BY <1>4, <2>1, <2>4, <2>5
  <2> QED BY <1>3, <1>4, <2>6 DEF QuotientBy, q, F
<1> QED BY <1>6, <1>7

-----------------------------------------------------------------------------
(* The loop over the positions of two edges *)

\* a is what is there before the first position, after it, and so on.
IsRunOfPositions(a, k, base, us, vs) ==
  /\ a[0] = base /\ mergePositions(base, us, vs) = a[k]
  /\ \A i \in 1 .. k : a[i] = tryMergeVertices(a[i - 1], us[i], vs[i])

\* The loop goes through the positions one after the other.
LEMMA PositionsLoop ==
  ASSUME NEW k \in Nat, NEW us, NEW vs, DOMAIN us = 1 .. k, NEW R, NEW base \in R,
         \A acc \in R, i \in 1 .. k : tryMergeVertices(acc, us[i], vs[i]) \in R
  PROVE  \E a : IsRunOfPositions(a, k, base, us, vs)
<1> DEFINE F == [p \in (1 .. k) \X R |-> tryMergeVertices(p[2], us[p[1]], vs[p[1]])]
           seq == [i \in DOMAIN us |-> i]
           Step(f) == [s \in SUBSET DOMAIN seq |->
             IF s = {} THEN base
             ELSE tryMergeVertices(f[s \ {Max(s)}], us[seq[Max(s)]], vs[seq[Max(s)]])]
           iter == CHOOSE f : f = Step(f)
<1>1. F \in [(1 .. k) \X R -> R] OBVIOUS
<1>2. \A i \in 1 .. k, acc \in R : F[<<i, acc>>] = tryMergeVertices(acc, us[i], vs[i])
  OBVIOUS
<1> HIDE DEF F
<1>3. PICK g \in [SUBSET (1 .. k) -> R] : IsLoop(g, 1 .. k, base, F)
  BY <1>1, LoopHasResult
<1>4. DOMAIN seq = 1 .. k /\ \A i \in 1 .. k : seq[i] = i OBVIOUS
<1>5. mergePositions(base, us, vs) = iter[DOMAIN seq]
  BY Zenon DEF mergePositions, FoldLeft, MapThenFoldSet
<1> HIDE DEF seq
<1>6. ASSUME NEW s \in SUBSET (1 .. k), s # {}
      PROVE  /\ Max(s) \in 1 .. k /\ s \ {Max(s)} \in SUBSET (1 .. k)
             /\ seq[Max(s)] = Max(s)
  BY <1>4, <1>6, GreatestIndex
<1>7. ASSUME NEW s \in SUBSET (1 .. k) PROVE g[s] = Step(g)[s]
  <2>1. CASE s = {} BY <1>3, <1>4, <2>1 DEF IsLoop
  <2>2. CASE s # {}
    <3>1. Step(g)[s] = tryMergeVertices(g[s \ {Max(s)}], us[Max(s)], vs[Max(s)])
      BY <1>4, <1>6, <2>2
    <3>2. g[s \ {Max(s)}] \in R BY <1>3, <1>6, <2>2
    <3>3. g[s] = F[<<Max(s), g[s \ {Max(s)}]>>] BY <1>3, <2>2 DEF IsLoop
    <3> HIDE DEF Step
    <3> QED BY <1>2, <1>6, <2>2, <3>1, <3>2, <3>3
  <2> QED BY <2>1, <2>2
<1>8. g = Step(g) BY <1>3, <1>4, <1>7
<1>9. iter = Step(iter) BY <1>8
<1> HIDE DEF iter
<1> DEFINE a == [i \in 0 .. k |-> iter[1 .. i]]
<1>10. a[0] = base
  <2>1. iter[{}] = base
    <3>1. Step(iter)[{}] = base OBVIOUS
    <3> HIDE DEF Step
    <3> QED BY <1>9, <3>1
  <2>2. 1 .. 0 = {} OBVIOUS
  <2> QED BY <2>1, <2>2
<1>11. ASSUME NEW i \in 1 .. k PROVE a[i] = tryMergeVertices(a[i - 1], us[i], vs[i])
  <2>1. i \in Nat /\ i # 0 /\ 1 .. i \in SUBSET (1 .. k) /\ i - 1 \in 0 .. k /\ i \in 0 .. k
    OBVIOUS
  <2>2. Max(1 .. i) = i /\ (1 .. i) \ {i} = 1 .. (i - 1) /\ 1 .. i # {}
    BY <2>1, FirstIndices
  <2> DEFINE s == 1 .. i
  <2>3. Step(iter)[s] = tryMergeVertices(iter[s \ {Max(s)}], us[seq[Max(s)]], vs[seq[Max(s)]])
    BY <1>4, <2>1, <2>2
  <2> HIDE DEF Step
  <2>4. iter[1 .. i] = tryMergeVertices(iter[1 .. (i - 1)], us[i], vs[i])
    BY <1>4, <1>9, <2>2, <2>3
  <2> QED BY <2>1, <2>4
<1>12. mergePositions(base, us, vs) = a[k] BY <1>4, <1>5
<1> HIDE DEF a
<1> QED BY <1>10, <1>11, <1>12 DEF IsRunOfPositions

\* r maps alike what q maps to the same vertex.
Follows(V, q, r) == \A x \in V : r[q[x]] = r[x]

\* r identifies the vertices at equal positions of two edges.
Identified(r, E, e, f) ==
  \A i \in DOMAIN E[e].vertices : r[E[e].vertices[i]] = r[E[f].vertices[i]]

LEMMA TryMergeVerticesLemma ==
  ASSUME NEW n, NEW V, NEW E, WellFormed(n, V, E), NEW r \in Reps(V), NEW K \in SUBSET DOMAIN E,
         NEW v, NEW w
  PROVE  LET g == QuotientBy(n, E, r, K)
         IN /\ tryMergeVertices(Thrown(g), v, w) = Thrown(g)
            /\ ~ {v, w} \subseteq Range(r) => tryMergeVertices(Tried(g), v, w) = Thrown(g)
            /\ {v, w} \subseteq Range(r) =>
                 /\ Joined(r, v, w) \in Reps(V)
                 /\ tryMergeVertices(Tried(g), v, w)
                      = Tried(QuotientBy(n, E, Joined(r, v, w), K))
<1> DEFINE g == QuotientBy(n, E, r, K)
           o == Tried(g)
           x == Thrown(g)
<1>1. o.graph = g /\ o.thrown = FALSE /\ x.graph = g /\ x.thrown = TRUE BY DEF Tried, Thrown
<1>2. g.vertices = Range(r) BY Fields DEF QuotientBy, Indexed
<1>3. x = Thrown(g) OBVIOUS
<1> HIDE DEF g, o, x
<1>4. tryMergeVertices(x, v, w) = x BY <1>1 DEF tryMergeVertices
<1>5. ~ {v, w} \subseteq Range(r) => tryMergeVertices(o, v, w) = x
  BY <1>1, <1>2, <1>3 DEF tryMergeVertices
<1>6. ASSUME {v, w} \subseteq Range(r)
      PROVE  /\ Joined(r, v, w) \in Reps(V)
             /\ tryMergeVertices(o, v, w) = Tried(QuotientBy(n, E, Joined(r, v, w), K))
  <2>1. v \in Range(r) /\ w \in Range(r) BY <1>6
  <2>2. /\ Joined(r, v, w) \in Reps(V)
        /\ mergeVertices(g, v, w) = QuotientBy(n, E, Joined(r, v, w), K)
    BY <2>1, JoinLemma DEF g
  <2>3. tryMergeVertices(o, v, w) = Tried(mergeVertices(g, v, w))
    BY <1>1, <1>2, <1>6 DEF tryMergeVertices
  <2> QED BY <2>2, <2>3
<1> QED BY <1>4, <1>5, <1>6 DEF o, x, g

\* What the pairs merged so far, and no others, identify.
LEMMA JoinIdentifies ==
  ASSUME NEW V, NEW q \in Reps(V), NEW r \in Reps(V), Follows(V, q, r),
         NEW u1 \in V, NEW u2 \in V, q[u1] \in Range(r), q[u2] \in Range(r),
         NEW p, p = Joined(r, q[u1], q[u2])
  PROVE  /\ Follows(V, q, p) /\ p[u1] = p[u2]
         /\ \A x, y \in V : r[x] = r[y] => p[x] = p[y]
         /\ \A s \in [V -> V] :
              Follows(V, q, s) /\ Follows(V, r, s) /\ s[u1] = s[u2] => Follows(V, p, s)
<1> DEFINE v == q[u1]
           w == q[u2]
<1>1. /\ q \in [V -> V] /\ r \in [V -> V] /\ v \in V /\ w \in V
      /\ \A x \in V : r[r[x]] = r[x] /\ q[q[x]] = q[x]
      /\ r[v] = v /\ r[w] = w
  BY DEF Reps, Range
<1>2. \A x \in V : p[x] = IF r[x] = w THEN v ELSE r[x] BY <1>1 DEF Joined
<1>3. \A x, y \in V : r[x] = r[y] => p[x] = p[y] BY <1>2
<1>4. \A x \in V : r[q[x]] = r[x] BY DEF Follows
<1>5. Follows(V, q, p)
  <2>1. ASSUME NEW x \in V PROVE p[q[x]] = p[x] BY <1>1, <1>3, <1>4
  <2> QED BY <2>1 DEF Follows
<1>6. p[u1] = p[u2]
  <2>1. p[v] = p[u1] /\ p[w] = p[u2] BY <1>5 DEF Follows
  <2>2. p[v] = v /\ p[w] = v BY <1>1, <1>2
  <2> QED BY <2>1, <2>2
<1>7. ASSUME NEW s \in [V -> V], Follows(V, q, s), Follows(V, r, s), s[u1] = s[u2]
      PROVE  Follows(V, p, s)
  <2>1. s[v] = s[w] BY <1>7 DEF Follows
  <2>2. ASSUME NEW x \in V PROVE s[p[x]] = s[x]
    <3>1. s[r[x]] = s[x] BY <1>7 DEF Follows
    <3> QED BY <1>2, <2>1, <3>1
  <2> QED BY <2>2 DEF Follows
<1> QED BY <1>3, <1>5, <1>6, <1>7

\* Merging two edges position by position gives the quotient by the pairs at
\* equal positions, or, if one of them names a vertex that is gone, by some.
LEMMA MergedPositionsLemma ==
  ASSUME NEW n, NEW V, NEW E, WellFormed(n, V, E), NEW q \in Reps(V), NEW K \in SUBSET DOMAIN E,
         NEW e \in K, NEW f \in K, Len(E[e].vertices) = Len(E[f].vertices)
  PROVE  \E r \in Reps(V) :
           /\ LET m == MergedPositions(Tried(QuotientBy(n, E, q, K)), e, f)
              IN \/ m = Tried(QuotientBy(n, E, r, K)) /\ Identified(r, E, e, f)
                 \/ m = Thrown(QuotientBy(n, E, r, K))
           /\ Follows(V, q, r)
           /\ \A s \in [V -> V] : Follows(V, q, s) /\ Identified(s, E, e, f) => Follows(V, r, s)
<1> DEFINE us == E[e].vertices
           vs == E[f].vertices
           Q(r) == QuotientBy(n, E, r, K)
           base == Tried(Q(q))
           R == {Tried(Q(r)) : r \in Reps(V)} \cup {Thrown(Q(r)) : r \in Reps(V)}
           us1 == base.graph.edges[e].vertices
           vs1 == base.graph.edges[f].vertices
<1>1. PICK k \in Nat : us \in [1 .. k -> V] /\ vs \in [1 .. k -> V]
  <2>1. PICK k \in 0 .. MaxArity : us \in [1 .. k -> V] /\ k \in Nat /\ Len(us) = k
    BY VerticesOfEdge
  <2>2. PICK l \in 0 .. MaxArity : vs \in [1 .. l -> V] /\ l \in Nat /\ Len(vs) = l
    BY VerticesOfEdge
  <2> QED BY <2>1, <2>2
<1>2. /\ DOMAIN us1 = 1 .. k
      /\ \A i \in 1 .. k : us1[i] = q[us[i]] /\ vs1[i] = q[vs[i]]
  <2>1. base.graph.edges = Mapped(q, E, K) BY Fields DEF Tried, QuotientBy, Indexed
  <2>2. /\ Mapped(q, E, K)[e].vertices = [i \in DOMAIN us |-> q[us[i]]]
        /\ Mapped(q, E, K)[f].vertices = [i \in DOMAIN vs |-> q[vs[i]]]
    BY DEF Mapped
  <2>3. us1 = [i \in DOMAIN us |-> q[us[i]]] /\ vs1 = [i \in DOMAIN vs |-> q[vs[i]]]
    BY <2>1, <2>2
  <2> HIDE DEF us, vs, us1, vs1
  <2> QED BY <1>1, <2>3
<1>3. MergedPositions(base, e, f) = mergePositions(base, us1, vs1) BY DEF MergedPositions
<1>4. q \in [V -> V] /\ Follows(V, q, q) BY DEF Reps, Follows
<1>5. \A i \in 1 .. k : us[i] \in V /\ vs[i] \in V BY <1>1
<1>6. \A r \in Reps(V) : \A v, w :
        /\ tryMergeVertices(Thrown(Q(r)), v, w) = Thrown(Q(r))
        /\ ~ {v, w} \subseteq Range(r) => tryMergeVertices(Tried(Q(r)), v, w) = Thrown(Q(r))
        /\ {v, w} \subseteq Range(r) =>
             /\ Joined(r, v, w) \in Reps(V)
             /\ tryMergeVertices(Tried(Q(r)), v, w) = Tried(Q(Joined(r, v, w)))
  BY TryMergeVerticesLemma
<1> HIDE DEF us, vs, us1, vs1, Q
<1>7. base \in R OBVIOUS
<1>8. \A acc \in R, i \in 1 .. k : tryMergeVertices(acc, us1[i], vs1[i]) \in R
  <2> SUFFICES ASSUME NEW acc \in R, NEW v, NEW w PROVE tryMergeVertices(acc, v, w) \in R
    OBVIOUS
  <2>1. PICK r \in Reps(V) : acc = Tried(Q(r)) \/ acc = Thrown(Q(r)) OBVIOUS
  <2>2. CASE acc = Thrown(Q(r)) BY <1>6, <2>2
  <2>3. CASE acc = Tried(Q(r)) BY <1>6, <2>3
  <2> QED BY <2>1, <2>2, <2>3
<1> HIDE DEF R, base
<1>9. PICK a : IsRunOfPositions(a, k, base, us1, vs1)
  BY <1>2, <1>7, <1>8, PositionsLoop
<1>10. /\ a[0] = base /\ mergePositions(base, us1, vs1) = a[k]
       /\ \A i \in 1 .. k : a[i] = tryMergeVertices(a[i - 1], us1[i], vs1[i])
  BY <1>9 DEF IsRunOfPositions
<1> DEFINE Holds(i, r) ==
             /\ \/ a[i] = Tried(Q(r)) /\ \A j \in 1 .. i : r[us[j]] = r[vs[j]]
                \/ a[i] = Thrown(Q(r))
             /\ Follows(V, q, r)
             /\ \A s \in [V -> V] :
                  Follows(V, q, s) /\ Identified(s, E, e, f) => Follows(V, r, s)
           Bad == {i \in 0 .. k : ~ \E r \in Reps(V) : Holds(i, r)}
<1>11. \E r \in Reps(V) : Holds(0, r)
  <2>1. Holds(0, q) BY <1>4, <1>10 DEF base
  <2> HIDE DEF Holds
  <2> QED BY <2>1
<1>12. ASSUME NEW i \in 1 .. k, NEW r \in Reps(V), Holds(i - 1, r)
       PROVE  \E p \in Reps(V) : Holds(i, p)
  <2> DEFINE v == us1[i]
             w == vs1[i]
  <2>1. a[i] = tryMergeVertices(a[i - 1], v, w) BY <1>10
  <2>2. v = q[us[i]] /\ w = q[vs[i]] /\ us[i] \in V /\ vs[i] \in V BY <1>2, <1>5
  <2> HIDE DEF v, w
  <2>3. CASE a[i - 1] = Thrown(Q(r)) \/ ~ {v, w} \subseteq Range(r)
    <3>1. a[i] = Thrown(Q(r)) BY <1>6, <1>12, <2>1, <2>3
    <3>2. Holds(i, r) BY <1>12, <3>1
    <3> HIDE DEF Holds
    <3> QED BY <3>2
  <2>4. CASE a[i - 1] # Thrown(Q(r)) /\ {v, w} \subseteq Range(r)
    <3> DEFINE p == Joined(r, v, w)
    <3>1. p \in Reps(V) /\ a[i] = Tried(Q(p)) BY <1>6, <1>12, <2>1, <2>4
    <3>2. p = Joined(r, q[us[i]], q[vs[i]]) BY <2>2
    <3>3. q[us[i]] \in Range(r) /\ q[vs[i]] \in Range(r) /\ Follows(V, q, r)
      BY <1>12, <2>2, <2>4
    <3> HIDE DEF p
    <3>4. /\ Follows(V, q, p) /\ p[us[i]] = p[vs[i]]
          /\ \A x, y \in V : r[x] = r[y] => p[x] = p[y]
          /\ \A s \in [V -> V] :
               Follows(V, q, s) /\ Follows(V, r, s) /\ s[us[i]] = s[vs[i]] => Follows(V, p, s)
      BY <2>2, <3>2, <3>3, JoinIdentifies
    <3>5. \A j \in 1 .. i : p[us[j]] = p[vs[j]]
      <4>1. ASSUME NEW j \in 1 .. i PROVE p[us[j]] = p[vs[j]]
        <5>1. CASE j = i BY <3>4, <5>1
        <5>2. CASE j # i
          <6>1. j \in 1 .. i - 1 /\ j \in 1 .. k BY <5>2
          <6>2. r[us[j]] = r[vs[j]] BY <1>12, <2>4, <6>1
          <6> QED BY <1>5, <3>4, <6>1, <6>2
        <5> QED BY <5>1, <5>2
      <4> QED BY <4>1
    <3>6. ASSUME NEW s \in [V -> V], Follows(V, q, s), Identified(s, E, e, f)
          PROVE  Follows(V, p, s)
      <4>1. s[us[i]] = s[vs[i]]
        <5>1. i \in DOMAIN us BY <1>1
        <5> QED BY <3>6, <5>1 DEF Identified, us, vs
      <4>2. Follows(V, r, s) BY <1>12, <3>6
      <4> QED BY <3>4, <3>6, <4>1, <4>2
    <3>7. Holds(i, p) BY <3>1, <3>4, <3>5, <3>6
    <3> HIDE DEF Holds
    <3> QED BY <3>1, <3>7
  <2> QED BY <2>3, <2>4
<1> HIDE DEF Holds
<1>13. Bad = {}
  <2> SUFFICES ASSUME Bad # {} PROVE FALSE OBVIOUS
  <2>1. Bad \subseteq Nat OBVIOUS
  <2>2. PICK i \in Bad : \A j \in Bad : i <= j
    <3> HIDE DEF Bad
    <3> QED BY <2>1, LeastNatural
  <2>3. i \in 0 .. k /\ i # 0 BY <1>11, <2>2
  <2>4. i \in 1 .. k /\ i - 1 \in 0 .. k /\ ~ (i <= i - 1) BY <2>3
  <2>5. \E r \in Reps(V) : Holds(i - 1, r) BY <2>2, <2>4
  <2>6. \E r \in Reps(V) : Holds(i, r) BY <1>12, <2>4, <2>5
  <2> QED BY <2>2, <2>6
<1>14. k \in 0 .. k /\ DOMAIN us = 1 .. k BY <1>1
<1>15. PICK r \in Reps(V) : Holds(k, r) BY <1>13, <1>14
<1>16. MergedPositions(base, e, f) = a[k] BY <1>3, <1>10
<1>17. /\ \/ a[k] = Tried(Q(r)) /\ Identified(r, E, e, f)
          \/ a[k] = Thrown(Q(r))
       /\ Follows(V, q, r)
       /\ \A s \in [V -> V] : Follows(V, q, s) /\ Identified(s, E, e, f) => Follows(V, r, s)
  <2>1. (\A j \in 1 .. k : r[us[j]] = r[vs[j]]) => Identified(r, E, e, f)
    BY <1>14 DEF Identified, us, vs
  <2> QED BY <1>15, <2>1 DEF Holds
<1> QED BY <1>16, <1>17 DEF base, Q

-----------------------------------------------------------------------------
(* Merging two edges *)

\* Mergeable, of the edges as they were before any merge.
Alike(E, e, f) == E[e].label = E[f].label /\ Len(E[e].vertices) = Len(E[f].vertices)

LEMMA MergeableMapped ==
  ASSUME NEW n, NEW V, NEW E, WellFormed(n, V, E), NEW r \in Reps(V), NEW K \in SUBSET DOMAIN E,
         NEW e \in K, NEW f \in K
  PROVE  Mergeable(QuotientBy(n, E, r, K), e, f) <=> Alike(E, e, f)
<1> DEFINE F == Mapped(r, E, K)
<1>1. ASSUME NEW x \in K
      PROVE  F[x].label = E[x].label /\ Len(F[x].vertices) = Len(E[x].vertices)
  <2>1. PICK k \in 0 .. MaxArity :
          E[x].vertices \in [1 .. k -> V] /\ k \in Nat /\ Len(E[x].vertices) = k
    BY VerticesOfEdge
  <2> DEFINE us == [i \in DOMAIN E[x].vertices |-> r[E[x].vertices[i]]]
  <2>2. us \in [1 .. k -> V] BY <2>1 DEF Reps
  <2>3. Len(us) = k BY <2>1, <2>2, LenOfFunction
  <2>4. F[x] = [label |-> E[x].label, vertices |-> us] BY DEF Mapped
  <2> HIDE DEF us, F
  <2> QED BY <2>1, <2>3, <2>4
<1>2. QuotientBy(n, E, r, K).edges = F BY Fields DEF QuotientBy, Indexed
<1> HIDE DEF F
<1> QED BY <1>1, <1>2 DEF Mergeable, Alike

\* r identifies what q does and e with f, position by position, and nothing more.
IsLeastMerge(V, E, q, r, e, f) ==
  /\ Follows(V, q, r)
  /\ \A s \in [V -> V] : Follows(V, q, s) /\ Identified(s, E, e, f) => Follows(V, r, s)

\* The call has put e for f, or has given up and left both.
Merges(m, n, E, r, K, e, f) ==
  \/ m = Tried(QuotientBy(n, E, r, K \ {f})) /\ Identified(r, E, e, f)
  \/ m = Thrown(QuotientBy(n, E, r, K))

LEMMA TryMergeEdgesLemma ==
  ASSUME NEW n, NEW V, NEW E, WellFormed(n, V, E), NEW q \in Reps(V), NEW K \in SUBSET DOMAIN E,
         NEW e, NEW f
  PROVE  LET g == QuotientBy(n, E, q, K)
         IN /\ tryMergeEdges(Thrown(g), e, f) = Thrown(g)
            /\ ~ {e, f} \subseteq K => tryMergeEdges(Tried(g), e, f) = Thrown(g)
            /\ {e, f} \subseteq K /\ e = f => tryMergeEdges(Tried(g), e, f) = Tried(g)
            /\ {e, f} \subseteq K /\ e # f /\ ~ Alike(E, e, f) =>
                 tryMergeEdges(Tried(g), e, f) = Thrown(g)
            /\ {e, f} \subseteq K /\ e # f /\ Alike(E, e, f) =>
                 \E r \in Reps(V) : /\ IsLeastMerge(V, E, q, r, e, f)
                                    /\ Merges(tryMergeEdges(Tried(g), e, f), n, E, r, K, e, f)
<1> DEFINE g == QuotientBy(n, E, q, K)
           o == Tried(g)
           x == Thrown(g)
<1>1. o.graph = g /\ o.thrown = FALSE /\ x.graph = g /\ x.thrown = TRUE BY DEF Tried, Thrown
<1>2. DOMAIN g.edges = K
  <2>1. g.edges = Mapped(q, E, K) BY Fields DEF QuotientBy, Indexed
  <2> QED BY <2>1, MappedIsWellFormed
<1>3. x = Thrown(g) /\ o = Tried(g) OBVIOUS
<1> HIDE DEF g, o, x
<1>4. tryMergeEdges(x, e, f) = x BY <1>1 DEF tryMergeEdges
<1>5. ~ {e, f} \subseteq K => tryMergeEdges(o, e, f) = x
  BY <1>1, <1>2, <1>3 DEF tryMergeEdges
<1>6. {e, f} \subseteq K /\ e = f => tryMergeEdges(o, e, f) = o
  BY <1>1, <1>2 DEF tryMergeEdges
<1>7. {e, f} \subseteq K => (Mergeable(g, e, f) <=> Alike(E, e, f)) BY MergeableMapped DEF g
<1>8. {e, f} \subseteq K /\ e # f /\ ~ Alike(E, e, f) => tryMergeEdges(o, e, f) = x
  BY <1>1, <1>2, <1>3, <1>7 DEF tryMergeEdges
<1>9. ASSUME {e, f} \subseteq K, e # f, Alike(E, e, f)
      PROVE  \E r \in Reps(V) : /\ IsLeastMerge(V, E, q, r, e, f)
                                /\ Merges(tryMergeEdges(o, e, f), n, E, r, K, e, f)
  <2> DEFINE m == MergedPositions(o, e, f)
  <2>1. tryMergeEdges(o, e, f) = IF m.thrown THEN m ELSE Tried(deleteEdge(m.graph, f))
    BY <1>1, <1>2, <1>7, <1>9 DEF tryMergeEdges
  <2>2. e \in K /\ f \in K /\ Len(E[e].vertices) = Len(E[f].vertices) BY <1>9 DEF Alike
  <2>3. PICK r \in Reps(V) :
          /\ \/ m = Tried(QuotientBy(n, E, r, K)) /\ Identified(r, E, e, f)
             \/ m = Thrown(QuotientBy(n, E, r, K))
          /\ Follows(V, q, r)
          /\ \A s \in [V -> V] : Follows(V, q, s) /\ Identified(s, E, e, f) => Follows(V, r, s)
    BY <2>2, MergedPositionsLemma DEF o, g
  <2>4. IsLeastMerge(V, E, q, r, e, f) BY <2>3 DEF IsLeastMerge
  <2> HIDE DEF m
  <2>5. CASE m = Thrown(QuotientBy(n, E, r, K))
    <3>1. m.thrown = TRUE BY <2>5 DEF Thrown
    <3>2. tryMergeEdges(o, e, f) = Thrown(QuotientBy(n, E, r, K)) BY <2>1, <2>5, <3>1
    <3> QED BY <2>4, <3>2 DEF Merges
  <2>6. CASE m = Tried(QuotientBy(n, E, r, K)) /\ Identified(r, E, e, f)
    <3>1. m.thrown = FALSE /\ m.graph = QuotientBy(n, E, r, K) BY <2>6 DEF Tried
    <3>2. deleteEdge(QuotientBy(n, E, r, K), f) = QuotientBy(n, E, r, K \ {f})
      <4>1. WellFormed(n, Range(r), Mapped(r, E, K)) /\ DOMAIN Mapped(r, E, K) = K
        BY MappedIsWellFormed
      <4>2. deleteEdge(QuotientBy(n, E, r, K), f)
              = Indexed(n, Range(r), Restrict(Mapped(r, E, K), K \ {f}))
        BY <4>1, DeleteEdgeLemma DEF QuotientBy
      <4>3. Restrict(Mapped(r, E, K), K \ {f}) = Mapped(r, E, K \ {f}) BY DEF Restrict, Mapped
      <4> QED BY <4>2, <4>3 DEF QuotientBy
    <3>3. tryMergeEdges(o, e, f) = Tried(QuotientBy(n, E, r, K \ {f})) BY <2>1, <3>1, <3>2
    <3> QED BY <2>4, <2>6, <3>3 DEF Merges
  <2> QED BY <2>3, <2>5, <2>6
<1> QED BY <1>4, <1>5, <1>6, <1>8, <1>9 DEF o, x, g

-----------------------------------------------------------------------------
(* The loops over a set, in any order its elements are taken out *)

\* The first element and the others after it, each once.
Enumerates(h, t, k, S) ==
  /\ k \in Nat /\ h \in S /\ t \in [1 .. k -> S]
  /\ \A i \in 1 .. k : t[i] # h
  /\ \A i, j \in 1 .. k : i # j => t[i] # t[j]
  /\ \A x \in S : x = h \/ \E i \in 1 .. k : x = t[i]

LEMMA OrderOfSet ==
  ASSUME NEW S, IsFiniteSet(S), S # {}, NEW order \in SetToSeqs(S)
  PROVE  \E k \in Nat : Enumerates(Head(order), Tail(order), k, S)
<1>1. PICK c \in Nat : c = Cardinality(S) /\ c # 0 BY FS_CardinalityType, FS_EmptySet
<1>2. order \in [1 .. c -> S] /\ \A i, j \in 1 .. c : i # j => order[i] # order[j]
  BY <1>1 DEF SetToSeqs
<1>3. order \in Injection(1 .. c, S) BY <1>2 DEF Injection, IsInjective
<1>4. Cardinality(1 .. c) = c BY <1>1, FS_Interval
<1>5. order \in Surjection(1 .. c, S) BY <1>1, <1>3, <1>4, FS_Injection
<1>6. \A x \in S : \E i \in 1 .. c : x = order[i] BY <1>5 DEF Surjection
<1>7. order \in Seq(S) /\ Len(order) = c BY <1>2, LenOfFunction
<1>8. order # <<>> BY <1>1, <1>7, EmptySeq
<1> DEFINE t == Tail(order)
           k == c - 1
<1>9. /\ Head(order) = order[1] /\ t \in Seq(S) /\ Len(t) = k
      /\ \A i \in 1 .. Len(t) : t[i] = order[i + 1]
  BY <1>7, <1>8, HeadTailProperties
<1>10. k \in Nat /\ 1 \in 1 .. c BY <1>1
<1>11. t \in [1 .. k -> S]
  <2> HIDE DEF t, k
  <2>1. DOMAIN t = 1 .. k BY <1>9, LenProperties
  <2>2. \A i \in 1 .. k : t[i] \in S BY <1>9, ElementOfSeq
  <2>3. t \in [1 .. Len(t) -> S] BY <1>9, LenProperties
  <2> QED BY <1>9, <2>3
<1>12. \A i \in 1 .. k : t[i] = order[i + 1] /\ i + 1 \in 1 .. c /\ i + 1 # 1
  BY <1>1, <1>9
<1>13. \A i \in 1 .. c : i # 1 => i - 1 \in 1 .. k /\ (i - 1) + 1 = i BY <1>1
<1> HIDE DEF t, k
<1>14. \A i \in 1 .. k : t[i] # order[1] BY <1>2, <1>10, <1>12
<1>15. \A i, j \in 1 .. k : i # j => t[i] # t[j]
  <2>1. \A i, j \in 1 .. k : i # j => i + 1 # j + 1 BY <1>10
  <2> QED BY <1>2, <1>12, <2>1
<1>16. ASSUME NEW x \in S PROVE x = order[1] \/ \E i \in 1 .. k : x = t[i]
  <2>1. PICK i \in 1 .. c : x = order[i] BY <1>6
  <2>2. CASE i # 1 BY <1>12, <1>13, <2>1, <2>2
  <2> QED BY <2>1, <2>2
<1>17. order[1] \in S BY <1>2, <1>10
<1>18. Enumerates(Head(order), t, k, S)
  BY <1>9, <1>10, <1>11, <1>14, <1>15, <1>16, <1>17 DEF Enumerates
<1> QED BY <1>10, <1>18 DEF t

\* a is what is there before the first edge is merged, after it, and so on.
IsRunOfEdges(a, k, base, order) ==
  /\ a[0] = base /\ tryMergeEdgeSet(base, order) = a[k]
  /\ \A i \in 1 .. k : a[i] = tryMergeEdges(a[i - 1], Head(order), Tail(order)[i])

\* The loop goes through the edges one after the other.
LEMMA EdgesLoop ==
  ASSUME NEW k \in Nat, NEW order, DOMAIN Tail(order) = 1 .. k, NEW R, NEW base \in R,
         \A acc \in R, i \in 1 .. k : tryMergeEdges(acc, Head(order), Tail(order)[i]) \in R
  PROVE  \E a : IsRunOfEdges(a, k, base, order)
<1> DEFINE h == Head(order)
           t == Tail(order)
           F == [p \in (1 .. k) \X R |-> tryMergeEdges(p[2], h, t[p[1]])]
           Step(f) == [s \in SUBSET DOMAIN t |->
             IF s = {} THEN base ELSE tryMergeEdges(f[s \ {Max(s)}], h, t[Max(s)])]
           iter == CHOOSE f : f = Step(f)
<1>1. tryMergeEdgeSet(base, order) = iter[DOMAIN t]
  BY Zenon DEF tryMergeEdgeSet, FoldLeft, MapThenFoldSet
<1> HIDE DEF h, t
<1>2. DOMAIN t = 1 .. k BY DEF t
<1>3. F \in [(1 .. k) \X R -> R] BY DEF h, t
<1>4. \A i \in 1 .. k, acc \in R : F[<<i, acc>>] = tryMergeEdges(acc, h, t[i]) OBVIOUS
<1> HIDE DEF F
<1>5. PICK g \in [SUBSET (1 .. k) -> R] : IsLoop(g, 1 .. k, base, F)
  BY <1>3, LoopHasResult
<1>6. ASSUME NEW s \in SUBSET (1 .. k), s # {}
      PROVE  Max(s) \in 1 .. k /\ s \ {Max(s)} \in SUBSET (1 .. k)
  BY <1>6, GreatestIndex
<1>7. ASSUME NEW s \in SUBSET (1 .. k) PROVE g[s] = Step(g)[s]
  <2>1. CASE s = {} BY <1>2, <1>5, <2>1 DEF IsLoop
  <2>2. CASE s # {}
    <3>1. Step(g)[s] = tryMergeEdges(g[s \ {Max(s)}], h, t[Max(s)]) BY <1>2, <1>6, <2>2
    <3>2. g[s \ {Max(s)}] \in R BY <1>5, <1>6, <2>2
    <3>3. g[s] = F[<<Max(s), g[s \ {Max(s)}]>>] BY <1>5, <2>2 DEF IsLoop
    <3> HIDE DEF Step
    <3> QED BY <1>4, <1>6, <2>2, <3>1, <3>2, <3>3
  <2> QED BY <2>1, <2>2
<1>8. g = Step(g) BY <1>2, <1>5, <1>7
<1>9. iter = Step(iter) BY <1>8
<1> HIDE DEF iter
<1> DEFINE a == [i \in 0 .. k |-> iter[1 .. i]]
<1>10. a[0] = base
  <2>1. iter[{}] = base
    <3>1. Step(iter)[{}] = base OBVIOUS
    <3> HIDE DEF Step
    <3> QED BY <1>9, <3>1
  <2>2. 1 .. 0 = {} OBVIOUS
  <2> QED BY <2>1, <2>2
<1>11. ASSUME NEW i \in 1 .. k PROVE a[i] = tryMergeEdges(a[i - 1], h, t[i])
  <2>1. i \in Nat /\ i # 0 /\ 1 .. i \in SUBSET (1 .. k) /\ i - 1 \in 0 .. k /\ i \in 0 .. k
    OBVIOUS
  <2>2. Max(1 .. i) = i /\ (1 .. i) \ {i} = 1 .. (i - 1) /\ 1 .. i # {}
    BY <2>1, FirstIndices
  <2> DEFINE s == 1 .. i
  <2>3. Step(iter)[s] = tryMergeEdges(iter[s \ {Max(s)}], h, t[Max(s)])
    BY <1>2, <2>1, <2>2
  <2> HIDE DEF Step
  <2>4. iter[1 .. i] = tryMergeEdges(iter[1 .. (i - 1)], h, t[i])
    BY <1>9, <2>2, <2>3
  <2> QED BY <2>1, <2>4
<1>12. tryMergeEdgeSet(base, order) = a[k] BY <1>1, <1>2
<1> HIDE DEF a
<1> QED BY <1>10, <1>11, <1>12 DEF IsRunOfEdges, h, t

\* s identifies all edges of S that can be merged.
IdentifiedWithin(s, E, S) == \A e, f \in S : Alike(E, e, f) => Identified(s, E, e, f)

\* What is left of the edges S: one, at which all others are identified, or, after
\* the loop has given up, two or more.  In both cases no vertices are identified that
\* merging S does not identify.
IsEdgeMerge(m, n, V, E, S, r, K) ==
  /\ \/ /\ m = Tried(QuotientBy(n, E, r, K))
        /\ \E e \in S : /\ K = (DOMAIN E \ S) \cup {e}
                        /\ \A f \in S : f # e => Alike(E, e, f) /\ Identified(r, E, e, f)
     \/ /\ m = Thrown(QuotientBy(n, E, r, K)) /\ DOMAIN E \ S \subseteq K
        /\ \E e, f \in K \cap S : e # f
  /\ \A s \in [V -> V] : IdentifiedWithin(s, E, S) => Follows(V, r, s)

LEMMA EdgeSetLemma ==
  ASSUME NEW n, NEW V, NEW E, WellFormed(n, V, E), NEW S \in SUBSET DOMAIN E,
         NEW order, NEW k, Enumerates(Head(order), Tail(order), k, S)
  PROVE  \E r \in Reps(V), K \in SUBSET DOMAIN E :
           IsEdgeMerge(tryMergeEdgeSet(Tried(Indexed(n, V, E)), order), n, V, E, S, r, K)
<1> DEFINE h == Head(order)
           t == Tail(order)
           Q(r, K) == QuotientBy(n, E, r, K)
           D == DOMAIN E
           base == Tried(Indexed(n, V, E))
           R == {Tried(Q(p[1], p[2])) : p \in Reps(V) \X SUBSET D}
                  \cup {Thrown(Q(p[1], p[2])) : p \in Reps(V) \X SUBSET D}
           id == [x \in V |-> x]
           First(i) == {t[j] : j \in 1 .. i}
<1>1. /\ k \in Nat /\ h \in S /\ t \in [1 .. k -> S]
      /\ \A i \in 1 .. k : t[i] # h
      /\ \A i, j \in 1 .. k : i # j => t[i] # t[j]
      /\ \A x \in S : x = h \/ \E i \in 1 .. k : x = t[i]
  BY DEF Enumerates
<1>2. id \in Reps(V) /\ base = Tried(Q(id, D)) BY IdentityIsRep
<1>3. \A s : Follows(V, id, s) BY DEF Follows
<1>4. \A q \in Reps(V), K \in SUBSET D : \A e, f :
        /\ tryMergeEdges(Thrown(Q(q, K)), e, f) = Thrown(Q(q, K))
        /\ ~ {e, f} \subseteq K => tryMergeEdges(Tried(Q(q, K)), e, f) = Thrown(Q(q, K))
        /\ {e, f} \subseteq K /\ e = f => tryMergeEdges(Tried(Q(q, K)), e, f) = Tried(Q(q, K))
        /\ {e, f} \subseteq K /\ e # f /\ ~ Alike(E, e, f) =>
             tryMergeEdges(Tried(Q(q, K)), e, f) = Thrown(Q(q, K))
        /\ {e, f} \subseteq K /\ e # f /\ Alike(E, e, f) =>
             \E r \in Reps(V) : /\ IsLeastMerge(V, E, q, r, e, f)
                                /\ Merges(tryMergeEdges(Tried(Q(q, K)), e, f), n, E, r, K, e, f)
  BY TryMergeEdgesLemma
<1>5. \A m, r, K, e, f :
        Merges(m, n, E, r, K, e, f) <=> \/ m = Tried(Q(r, K \ {f})) /\ Identified(r, E, e, f)
                                        \/ m = Thrown(Q(r, K))
  BY DEF Merges
<1> HIDE DEF Q, h, t, D, id
<1>6. base \in R
  <2>1. <<id, D>> \in Reps(V) \X SUBSET D BY <1>2
  <2>2. base = Tried(Q(<<id, D>>[1], <<id, D>>[2])) BY <1>2
  <2> QED BY <2>1, <2>2
<1>7. \A q \in Reps(V), K \in SUBSET D : Tried(Q(q, K)) \in R /\ Thrown(Q(q, K)) \in R
  <2> SUFFICES ASSUME NEW q \in Reps(V), NEW K \in SUBSET D
               PROVE  Tried(Q(q, K)) \in R /\ Thrown(Q(q, K)) \in R
    OBVIOUS
  <2> DEFINE p == <<q, K>>
  <2>1. p \in Reps(V) \X SUBSET D /\ p[1] = q /\ p[2] = K OBVIOUS
  <2> QED BY <2>1
<1>8. \A acc \in R : \E q \in Reps(V), K \in SUBSET D :
        acc = Tried(Q(q, K)) \/ acc = Thrown(Q(q, K))
  OBVIOUS
<1> HIDE DEF R, base
<1>9. \A acc \in R, i \in 1 .. k : tryMergeEdges(acc, h, t[i]) \in R
  <2> SUFFICES ASSUME NEW acc \in R, NEW e, NEW f PROVE tryMergeEdges(acc, e, f) \in R
    OBVIOUS
  <2>1. PICK q \in Reps(V), K \in SUBSET D : acc = Tried(Q(q, K)) \/ acc = Thrown(Q(q, K))
    BY <1>8
  <2>2. CASE acc = Thrown(Q(q, K)) BY <1>4, <1>7, <2>2
  <2>3. CASE acc = Tried(Q(q, K))
    <3>1. CASE {e, f} \subseteq K /\ e # f /\ Alike(E, e, f)
      <4>1. PICK r \in Reps(V) : Merges(tryMergeEdges(Tried(Q(q, K)), e, f), n, E, r, K, e, f)
        BY <1>4, <3>1
      <4> DEFINE m == tryMergeEdges(Tried(Q(q, K)), e, f)
      <4> HIDE DEF m
      <4>2. K \ {f} \in SUBSET D OBVIOUS
      <4>3. m = Tried(Q(r, K \ {f})) \/ m = Thrown(Q(r, K)) BY <1>5, <4>1 DEF m
      <4>4. m \in R BY <1>7, <4>2, <4>3
      <4> QED BY <2>3, <4>4 DEF m
    <3>2. CASE ~ ({e, f} \subseteq K /\ e # f /\ Alike(E, e, f)) BY <1>4, <1>7, <2>3, <3>2
    <3> QED BY <3>1, <3>2
  <2> QED BY <2>1, <2>2, <2>3
<1>10. PICK a : IsRunOfEdges(a, k, base, order)
  <2>1. DOMAIN Tail(order) = 1 .. k BY <1>1 DEF t
  <2>2. \A acc \in R, i \in 1 .. k : tryMergeEdges(acc, Head(order), Tail(order)[i]) \in R
    BY <1>9 DEF h, t
  <2> QED BY <1>1, <1>6, <2>1, <2>2, EdgesLoop
<1>11. /\ a[0] = base /\ tryMergeEdgeSet(base, order) = a[k]
       /\ \A i \in 1 .. k : a[i] = tryMergeEdges(a[i - 1], h, t[i])
  BY <1>10 DEF IsRunOfEdges, h, t
<1> DEFINE Done(i, r, K) ==
             /\ a[i] = Tried(Q(r, K)) /\ K = D \ First(i)
             /\ \A j \in 1 .. i : Alike(E, h, t[j]) /\ Identified(r, E, h, t[j])
           Stopped(i, r, K) ==
             /\ a[i] = Thrown(Q(r, K)) /\ D \ S \subseteq K
             /\ \E e, f \in K \cap S : e # f
           Least(r) == \A s \in [V -> V] : IdentifiedWithin(s, E, S) => Follows(V, r, s)
           Holds(i, r, K) == (Done(i, r, K) \/ Stopped(i, r, K)) /\ Least(r)
           Bad == {i \in 0 .. k : ~ \E r \in Reps(V), K \in SUBSET D : Holds(i, r, K)}
<1>12. \E r \in Reps(V), K \in SUBSET D : Holds(0, r, K)
  <2>1. D = D \ First(0) OBVIOUS
  <2>2. Holds(0, id, D) BY <1>2, <1>3, <1>11, <2>1
  <2> HIDE DEF Holds
  <2> QED BY <1>2, <2>2
<1>13. ASSUME NEW i \in 1 .. k, NEW q \in Reps(V), NEW K \in SUBSET D, Holds(i - 1, q, K)
       PROVE  \E r \in Reps(V), L \in SUBSET D : Holds(i, r, L)
  <2>1. a[i] = tryMergeEdges(a[i - 1], h, t[i]) BY <1>11
  <2>2. i - 1 \in Nat /\ i \in Nat BY <1>1
  <2>3. CASE Stopped(i - 1, q, K)
    <3>1. a[i] = Thrown(Q(q, K)) BY <1>4, <2>1, <2>3
    <3>2. Holds(i, q, K) BY <1>13, <2>3, <3>1
    <3> HIDE DEF Holds
    <3> QED BY <3>2
  <2>4. CASE Done(i - 1, q, K)
    <3> DEFINE f == t[i]
    <3>1. /\ f \in S /\ h \in S /\ f # h /\ S \subseteq D
          /\ f \notin First(i - 1) /\ h \notin First(i - 1) /\ First(i - 1) \subseteq S
      <4>1. S \subseteq D BY DEF D
      <4>2. \A j \in 1 .. (i - 1) : j \in 1 .. k /\ j # i BY <1>1
      <4> QED BY <1>1, <4>1, <4>2
    <3>2. h \in K /\ f \in K /\ h # f BY <2>4, <3>1
    <3>3. First(i) = First(i - 1) \cup {f}
      <4>1. 1 .. i = 1 .. (i - 1) \cup {i} BY <2>2
      <4> QED BY <4>1
    <3> HIDE DEF f, First
    <3>4. CASE ~ Alike(E, h, f)
      <4>1. a[i] = Thrown(Q(q, K)) BY <1>4, <2>1, <2>4, <3>2, <3>4 DEF f
      <4>2. D \ S \subseteq K BY <2>4, <3>1
      <4>3. h \in K \cap S /\ f \in K \cap S BY <3>1, <3>2
      <4>4. Holds(i, q, K) BY <1>13, <3>2, <4>1, <4>2, <4>3
      <4> HIDE DEF Holds
      <4> QED BY <4>4
    <3>5. CASE Alike(E, h, f)
      <4>1. PICK r \in Reps(V) : /\ IsLeastMerge(V, E, q, r, h, f)
                                 /\ Merges(a[i], n, E, r, K, h, f)
        BY <1>4, <2>1, <2>4, <3>2, <3>5 DEF f
      <4>2. Least(r)
        <5> SUFFICES ASSUME NEW s \in [V -> V], IdentifiedWithin(s, E, S)
                     PROVE  Follows(V, r, s)
          OBVIOUS
        <5>1. Identified(s, E, h, f) BY <3>1, <3>5 DEF IdentifiedWithin
        <5>2. Follows(V, q, s) BY <1>13
        <5> QED BY <4>1, <5>1, <5>2 DEF IsLeastMerge
      <4>3. CASE a[i] = Thrown(Q(r, K))
        <5>1. D \ S \subseteq K BY <2>4, <3>1
        <5>2. h \in K \cap S /\ f \in K \cap S BY <3>1, <3>2
        <5>3. Holds(i, r, K) BY <3>2, <4>2, <4>3, <5>1, <5>2
        <5> HIDE DEF Holds
        <5> QED BY <5>3
      <4>4. CASE a[i] = Tried(Q(r, K \ {f})) /\ Identified(r, E, h, f)
        <5>1. K \ {f} = D \ First(i) BY <2>4, <3>3
        <5>2. ASSUME NEW j \in 1 .. i PROVE Alike(E, h, t[j]) /\ Identified(r, E, h, t[j])
          <6>1. CASE j = i BY <3>5, <4>4, <6>1 DEF f
          <6>2. CASE j # i
            <7>1. j \in 1 .. (i - 1) BY <2>2, <6>2
            <7>2. Alike(E, h, t[j]) /\ Identified(q, E, h, t[j]) BY <2>4, <7>1
            <7>3. t[j] \in D /\ h \in D
              <8>1. j \in 1 .. k BY <1>1, <7>1
              <8> QED BY <1>1, <3>1, <8>1
            <7>4. \A x \in DOMAIN E[h].vertices : E[h].vertices[x] \in V /\ E[t[j]].vertices[x] \in V
              <8>1. PICK l \in Nat : /\ E[h].vertices \in [1 .. l -> V]
                                     /\ Len(E[h].vertices) = l
                BY <7>3, VerticesOfEdge DEF D
              <8>2. PICK p \in Nat : /\ E[t[j]].vertices \in [1 .. p -> V]
                                     /\ Len(E[t[j]].vertices) = p
                BY <7>3, VerticesOfEdge DEF D
              <8>3. l = p BY <7>2, <8>1, <8>2 DEF Alike
              <8> QED BY <8>1, <8>2, <8>3
            <7>5. ASSUME NEW x \in V, NEW y \in V, q[x] = q[y] PROVE r[x] = r[y]
              BY <4>1, <7>5 DEF IsLeastMerge, Follows
            <7> QED BY <7>2, <7>4, <7>5 DEF Identified
          <6> QED BY <6>1, <6>2
        <5>3. Holds(i, r, K \ {f}) BY <4>2, <4>4, <5>1, <5>2
        <5>4. K \ {f} \in SUBSET D OBVIOUS
        <5> HIDE DEF Holds
        <5> QED BY <5>3, <5>4
      <4> QED BY <1>5, <4>1, <4>3, <4>4
    <3> QED BY <3>4, <3>5
  <2> QED BY <1>13, <2>3, <2>4
<1> HIDE DEF Holds
<1>14. Bad = {}
  <2> SUFFICES ASSUME Bad # {} PROVE FALSE OBVIOUS
  <2>1. Bad \subseteq Nat OBVIOUS
  <2>2. PICK i \in Bad : \A j \in Bad : i <= j
    <3> HIDE DEF Bad
    <3> QED BY <2>1, LeastNatural
  <2>3. i \in 0 .. k /\ i # 0 BY <1>12, <2>2
  <2>4. i \in 1 .. k /\ i - 1 \in 0 .. k /\ ~ (i <= i - 1) BY <1>1, <2>3
  <2>5. \E r \in Reps(V), K \in SUBSET D : Holds(i - 1, r, K) BY <2>2, <2>4
  <2>6. \E r \in Reps(V), K \in SUBSET D : Holds(i, r, K) BY <1>13, <2>4, <2>5
  <2> QED BY <2>2, <2>6
<1>15. k \in 0 .. k BY <1>1
<1>16. PICK r \in Reps(V), K \in SUBSET D : Holds(k, r, K) BY <1>14, <1>15
<1> DEFINE m == tryMergeEdgeSet(base, order)
<1>17. m = a[k] BY <1>11
<1>18. S = First(k) \cup {h} /\ h \notin First(k) /\ S \subseteq D BY <1>1 DEF D
<1>19. CASE Stopped(k, r, K)
  <2>1. IsEdgeMerge(m, n, V, E, S, r, K) BY <1>16, <1>17, <1>19 DEF IsEdgeMerge, Holds, Q, D
  <2> QED BY <2>1 DEF base, D
<1>20. CASE Done(k, r, K)
  <2>1. K = (D \ S) \cup {h}
    <3> HIDE DEF First
    <3> QED BY <1>18, <1>20
  <2>2. \A f \in S : f # h => Alike(E, h, f) /\ Identified(r, E, h, f) BY <1>1, <1>20
  <2>3. IsEdgeMerge(m, n, V, E, S, r, K)
    BY <1>1, <1>16, <1>17, <1>20, <2>1, <2>2 DEF IsEdgeMerge, Holds, Q, D
  <2> QED BY <2>3 DEF base, D
<1> QED BY <1>16, <1>19, <1>20 DEF Holds

\* The vertices S are one, and no others are identified.
IsVertexMerge(g, n, V, E, S, r) ==
  /\ g = QuotientBy(n, E, r, DOMAIN E)
  /\ \A x, y \in S : r[x] = r[y]
  /\ \A s \in [V -> V] : (\A x, y \in S : s[x] = s[y]) => Follows(V, r, s)

LEMMA VertexSetLemma ==
  ASSUME NEW n, NEW V, NEW E, WellFormed(n, V, E), NEW S \in SUBSET V,
         NEW order, NEW k, Enumerates(Head(order), Tail(order), k, S)
  PROVE  \E r \in Reps(V) : IsVertexMerge(mergeVertexSet(Indexed(n, V, E), order), n, V, E, S, r)
<1> DEFINE h == Head(order)
           t == Tail(order)
           base == Indexed(n, V, E)
           Gone(s) == {t[j] : j \in s}
           To(s) == [x \in V |-> IF x \in Gone(s) THEN h ELSE x]
           Q(s) == QuotientBy(n, E, To(s), DOMAIN E)
           Step(f) == [s \in SUBSET DOMAIN t |->
             IF s = {} THEN base ELSE mergeVertices(f[s \ {Max(s)}], h, t[Max(s)])]
           f0 == [s \in SUBSET (1 .. k) |-> Q(s)]
           iter == CHOOSE f : f = Step(f)
<1>1. /\ k \in Nat /\ h \in S /\ t \in [1 .. k -> S] /\ h \in V
      /\ \A i \in 1 .. k : t[i] # h /\ t[i] \in V
      /\ \A i, j \in 1 .. k : i # j => t[i] # t[j]
      /\ \A x \in S : x = h \/ \E i \in 1 .. k : x = t[i]
  BY DEF Enumerates
<1>2. mergeVertexSet(base, order) = iter[DOMAIN t]
  BY Zenon DEF mergeVertexSet, FoldLeft, MapThenFoldSet
<1> HIDE DEF h, t
<1>3. DOMAIN t = 1 .. k /\ IsFiniteSet(1 .. k) BY <1>1, FS_Interval
<1>4. ASSUME NEW s \in SUBSET (1 .. k)
      PROVE  /\ To(s) \in Reps(V) /\ h \notin Gone(s)
             /\ \A x \in V : To(s)[x] = IF x \in Gone(s) THEN h ELSE x
  <2>1. h \notin Gone(s) BY <1>1
  <2> HIDE DEF Gone
  <2> QED BY <1>1, <2>1 DEF Reps
<1>5. Q({}) = base
  <2>1. To({}) = [x \in V |-> x] OBVIOUS
  <2> HIDE DEF To
  <2> QED BY <2>1, IdentityIsRep
<1>6. ASSUME NEW s \in SUBSET (1 .. k), s # {}
      PROVE  /\ Max(s) \in s /\ s \ {Max(s)} \in SUBSET (1 .. k)
             /\ mergeVertices(Q(s \ {Max(s)}), h, t[Max(s)]) = Q(s)
  <2>1. Max(s) \in s BY <1>1, <1>6, GreatestIndex
  <2>2. PICK i \in s : i = Max(s) BY <2>1
  <2> DEFINE u == s \ {i}
             w == t[i]
  <2>3. /\ w \in V /\ w # h /\ w \notin Gone(u) /\ Gone(s) = Gone(u) \cup {w}
        /\ u \in SUBSET (1 .. k)
    BY <1>1
  <2> HIDE DEF w, u, Gone
  <2>4. To(u) \in Reps(V) /\ h \notin Gone(u) /\ \A x \in V : To(u)[x] = IF x \in Gone(u) THEN h ELSE x
    BY <1>4, <2>3
  <2>5. h \in Range(To(u)) /\ w \in Range(To(u))
    <3>1. To(u)[h] = h /\ To(u)[w] = w BY <1>1, <2>3, <2>4
    <3>2. DOMAIN To(u) = V OBVIOUS
    <3> HIDE DEF To
    <3> QED BY <1>1, <2>3, <3>1, <3>2 DEF Range
  <2>6. Joined(To(u), h, w) = To(s)
    <3>1. DOMAIN To(u) = V /\ To(s) = [x \in V |-> IF x \in Gone(s) THEN h ELSE x] OBVIOUS
    <3>2. \A x \in V : (IF To(u)[x] = w THEN h ELSE To(u)[x]) = IF x \in Gone(s) THEN h ELSE x
      BY <2>3, <2>4
    <3> HIDE DEF To
    <3> QED BY <3>1, <3>2 DEF Joined
  <2> HIDE DEF To
  <2>7. mergeVertices(Q(u), h, w) = Q(s) BY <2>4, <2>5, <2>6, JoinLemma
  <2> QED BY <2>2, <2>3, <2>7 DEF u, w
<1> HIDE DEF Q, base
<1>7. ASSUME NEW s \in SUBSET (1 .. k) PROVE f0[s] = Step(f0)[s]
  <2>1. CASE s = {} BY <1>3, <1>5, <2>1
  <2>2. CASE s # {}
    <3>1. Step(f0)[s] = mergeVertices(f0[s \ {Max(s)}], h, t[Max(s)]) BY <1>3, <2>2
    <3>2. f0[s \ {Max(s)}] = Q(s \ {Max(s)}) /\ f0[s] = Q(s) BY <1>6, <2>2
    <3> HIDE DEF Step, f0
    <3> QED BY <1>6, <2>2, <3>1, <3>2
  <2> QED BY <2>1, <2>2
<1>8. f0 = Step(f0) BY <1>3, <1>7
<1>9. iter = Step(iter) BY <1>8
<1> HIDE DEF iter
<1> DEFINE Good == {s \in SUBSET (1 .. k) : iter[s] = Q(s)}
<1>10. {} \in Good
  <2>1. Step(iter)[{}] = base OBVIOUS
  <2> HIDE DEF Step
  <2> QED BY <1>5, <1>9, <2>1
<1>11. \A s \in SUBSET (1 .. k) : s # {} => \E x \in s : s \ {x} \in Good => s \in Good
  <2> SUFFICES ASSUME NEW s \in SUBSET (1 .. k), s # {}
               PROVE  \E x \in s : s \ {x} \in Good => s \in Good
    OBVIOUS
  <2>1. Step(iter)[s] = mergeVertices(iter[s \ {Max(s)}], h, t[Max(s)]) BY <1>3
  <2> HIDE DEF Step
  <2>2. iter[s] = mergeVertices(iter[s \ {Max(s)}], h, t[Max(s)]) BY <1>9, <2>1
  <2>3. ASSUME s \ {Max(s)} \in Good PROVE s \in Good BY <1>6, <2>2, <2>3
  <2> QED BY <1>6, <2>3
<1>12. SUBSET (1 .. k) \subseteq Good
  <2> DEFINE D == 1 .. k
  <2>1. IsFiniteSet(D) /\ {} \in Good BY <1>3, <1>10
  <2>2. \A s \in SUBSET D : s # {} => \E x \in s : s \ {x} \in Good => s \in Good BY <1>11
  <2>3. SUBSET D \subseteq Good
    <3> HIDE DEF Good, D
    <3> QED BY <2>1, <2>2, SubsetInduction
  <2> QED BY <2>3
<1>13. iter[1 .. k] = Q(1 .. k) BY <1>12
<1> DEFINE r == To(1 .. k)
<1>14. r \in Reps(V) /\ \A x \in V : r[x] = IF x \in Gone(1 .. k) THEN h ELSE x BY <1>4
<1>15. Gone(1 .. k) \subseteq S /\ \A x \in S : x = h \/ x \in Gone(1 .. k) BY <1>1
<1> HIDE DEF Gone, r
<1>16. \A x \in S : r[x] = h BY <1>14, <1>15
<1>17. ASSUME NEW s \in [V -> V], \A x, y \in S : s[x] = s[y] PROVE Follows(V, r, s)
  <2>1. \A x \in V : s[r[x]] = s[x] BY <1>1, <1>14, <1>15, <1>17
  <2> QED BY <2>1 DEF Follows
<1>18. mergeVertexSet(base, order) = QuotientBy(n, E, r, DOMAIN E)
  BY <1>2, <1>3, <1>13 DEF Q, r
<1>19. IsVertexMerge(mergeVertexSet(base, order), n, V, E, S, r)
  BY <1>16, <1>17, <1>18 DEF IsVertexMerge
<1> QED BY <1>14, <1>19 DEF base

-----------------------------------------------------------------------------
(* The calls: each leaves an exact index, and does what HypergraphQuotient *)
(* allows.                                                                 *)

LEMMA Returned ==
  ASSUME NEW n, NEW V, NEW E, WellFormed(n, V, E), graph' = Indexed(n, V, E)
  PROVE  /\ IndexInv'
         /\ graph'.lastUsedID = n /\ graph'.vertices = V /\ graph'.edges = E
<1>1. graph'.lastUsedID = n /\ graph'.vertices = V /\ graph'.edges = E
  BY Fields DEF Indexed
<1> QED BY <1>1 DEF IndexInv, WellFormed, Indexed, Graph, IndexOf, Occurrences, Edge, AttVertices, IDs

LEMMA ReturnFields ==
  ASSUME NEW g
  PROVE  /\ Return(Tried(g)) => graph' = g /\ delEdges' = {} /\ thrown' = FALSE
         /\ Return(Thrown(g)) => graph' = g /\ delEdges' = {} /\ thrown' = TRUE
BY DEF Return, Tried, Thrown

LEMMA RejectStep ==
  ASSUME IndexInv, Return(Thrown(graph))
  PROVE  IndexInv' /\ Quotient!Next
<1>1. graph' = graph /\ delEdges' = {} /\ thrown' = TRUE BY ReturnFields
<1>2. IndexInv' BY <1>1 DEF IndexInv, WellFormed, Indexed, Graph, IndexOf, Occurrences, Edge,
                            AttVertices, IDs
<1>3. Quotient!Reject BY <1>1 DEF Quotient!Reject, Known
<1> QED BY <1>2, <1>3 DEF Quotient!Next

LEMMA AddVertexStep ==
  ASSUME IndexInv, AddVertex
  PROVE  IndexInv' /\ Quotient!Next
<1> DEFINE n == graph.lastUsedID
           V == graph.vertices
           E == graph.edges
<1>1. WellFormed(n, V, E) /\ graph = Indexed(n, V, E) /\ n < MaxID BY DEF IndexInv, AddVertex
<1>2. graph' = addVertex(graph) /\ delEdges' = {} /\ thrown' = FALSE
  BY ReturnFields DEF AddVertex
<1>3. graph' = Indexed(n + 1, V \cup {n + 1}, E) /\ WellFormed(n + 1, V \cup {n + 1}, E)
  BY <1>1, <1>2, AddVertexLemma
<1>4. n \in Nat /\ n + 1 \in 1 .. MaxID /\ n + 1 \notin 1 .. n /\ 1 .. (n + 1) = 1 .. n \cup {n + 1}
  BY <1>1, BoundsAreNatural, EdgesType
<1>5. /\ IndexInv' /\ graph'.lastUsedID = n + 1
      /\ graph'.vertices = V \cup {n + 1} /\ graph'.edges = E
  BY <1>3, Returned
<1>6. Quotient!AddVertex
  BY <1>2, <1>4, <1>5 DEF Quotient!AddVertex, Quotient!IDs, Quotient!Quiet, Known
<1> QED BY <1>5, <1>6 DEF Quotient!Next

LEMMA AddEdgeStep ==
  ASSUME IndexInv, NEW l \in Labels, NEW vs \in AttVertices(Known), AddEdge(l, vs)
  PROVE  IndexInv' /\ Quotient!Next
<1> DEFINE n == graph.lastUsedID
           V == graph.vertices
           E == graph.edges
           F == [e \in DOMAIN E \cup {n + 1} |->
                   IF e = n + 1 THEN [label |-> l, vertices |-> vs] ELSE E[e]]
<1>1. WellFormed(n, V, E) /\ graph = Indexed(n, V, E) /\ n < MaxID BY DEF IndexInv, AddEdge
<1>2. CASE ~ (Range(vs) \subseteq V)
  <2>1. Return(Thrown(graph)) BY <1>2 DEF AddEdge
  <2> QED BY <2>1, RejectStep
<1>3. CASE Range(vs) \subseteq V
  <2>1. graph' = addEdge(graph, l, vs) /\ delEdges' = {} /\ thrown' = FALSE
    BY <1>3, ReturnFields DEF AddEdge
  <2>2. vs \in AttVertices(V)
    <3>1. PICK k \in 0 .. MaxArity : vs \in [1 .. k -> Known] BY DEF AttVertices
    <3>2. vs \in [1 .. k -> V] BY <1>3, <3>1 DEF Range
    <3> QED BY <3>2 DEF AttVertices
  <2>3. graph' = Indexed(n + 1, V, F) /\ WellFormed(n + 1, V, F)
    BY <1>1, <2>1, <2>2, AddEdgeLemma
  <2>4. /\ n \in Nat /\ n + 1 \in 1 .. MaxID /\ n + 1 \notin 1 .. n
        /\ 1 .. (n + 1) = 1 .. n \cup {n + 1}
    BY <1>1, BoundsAreNatural, EdgesType
  <2>5. /\ IndexInv' /\ graph'.lastUsedID = n + 1 /\ graph'.vertices = V /\ graph'.edges = F
    BY <2>3, Returned
  <2>6. vs \in Quotient!AttVertices(V) BY <2>2 DEF AttVertices, Quotient!AttVertices
  <2>7. Quotient!AddEdge
    BY <2>1, <2>4, <2>5, <2>6 DEF Quotient!AddEdge, Quotient!IDs, Quotient!Quiet, Known
  <2> QED BY <2>5, <2>7 DEF Quotient!Next
<1> QED BY <1>2, <1>3

LEMMA DeleteEdgeStep ==
  ASSUME IndexInv, NEW id \in Known, DeleteEdge(id)
  PROVE  IndexInv' /\ Quotient!Next
<1> DEFINE n == graph.lastUsedID
           V == graph.vertices
           E == graph.edges
<1>1. WellFormed(n, V, E) /\ graph = Indexed(n, V, E) BY DEF IndexInv
<1>2. graph' = deleteEdge(graph, id) /\ delEdges' = {} /\ thrown' = FALSE
  BY ReturnFields DEF DeleteEdge
<1>3. graph' = Indexed(n, V, Restrict(E, DOMAIN E \ {id})) BY <1>1, <1>2, DeleteEdgeLemma
<1>4. WellFormed(n, V, Restrict(E, DOMAIN E \ {id})) BY <1>1, FewerEdges
<1>5. /\ IndexInv' /\ graph'.lastUsedID = n /\ graph'.vertices = V
      /\ graph'.edges = Restrict(E, DOMAIN E \ {id})
  BY <1>3, <1>4, Returned
<1>6. id \in 1 .. MaxID
  <2>1. n \in Nat /\ n <= MaxID BY <1>1, EdgesType
  <2> QED BY <2>1, BoundsAreNatural DEF Known
<1>7. Quotient!DeleteEdge
  BY <1>2, <1>5, <1>6 DEF Quotient!DeleteEdge, Quotient!IDs, Quotient!Quiet, Known,
                           Quotient!Restrict, Restrict
<1> QED BY <1>5, <1>7 DEF Quotient!Next

LEMMA DeleteVerticesStep ==
  ASSUME IndexInv, NEW ids \in SUBSET Known, DeleteVertices(ids)
  PROVE  IndexInv' /\ Quotient!Next
<1> DEFINE n == graph.lastUsedID
           V == graph.vertices
           E == graph.edges
           S == ids \cap V
           gone == {e \in DOMAIN E : Range(E[e].vertices) \cap S # {}}
<1>1. WellFormed(n, V, E) /\ graph = Indexed(n, V, E) BY DEF IndexInv
<1>2. deleteVertices(graph, ids)
        = [graph |-> Indexed(n, V \ ids, Restrict(E, DOMAIN E \ Attached(E, ids))),
           delEdges |-> Attached(E, ids)]
  <2>1. ids \in SUBSET (1 .. n) BY DEF Known
  <2> HIDE DEF n, V, E
  <2>2. deleteVertices(Indexed(n, V, E), ids)
          = [graph |-> Indexed(n, V \ ids, Restrict(E, DOMAIN E \ Attached(E, ids))),
             delEdges |-> Attached(E, ids)]
    BY <1>1, <2>1, DeleteVerticesLemma
  <2> QED BY <1>1, <2>2
<1>3. /\ graph' = Indexed(n, V \ ids, Restrict(E, DOMAIN E \ Attached(E, ids)))
      /\ delEdges' = Attached(E, ids) /\ thrown' = FALSE
  BY <1>2 DEF DeleteVertices
<1>4. V \ ids = V \ S OBVIOUS
<1>5. Attached(E, ids) = gone
  <2>1. \A e \in DOMAIN E : Range(E[e].vertices) \subseteq V BY <1>1, EdgesType
  <2> QED BY <2>1 DEF Attached
<1>6. WellFormed(n, V \ ids, Restrict(E, DOMAIN E \ Attached(E, ids))) BY <1>1, FewerVertices
<1>7. /\ IndexInv' /\ graph'.lastUsedID = n /\ graph'.vertices = V \ ids
      /\ graph'.edges = Restrict(E, DOMAIN E \ Attached(E, ids))
  BY <1>3, <1>6, Returned
<1>8. Quotient!DeleteVertices
  <2>1. S \in SUBSET V OBVIOUS
  <2>2. /\ graph'.vertices = V \ S /\ graph'.edges = Restrict(E, DOMAIN E \ gone)
        /\ delEdges' = gone
    BY <1>3, <1>4, <1>5, <1>7
  <2>3. /\ Quotient!Restrict(E, DOMAIN E \ gone) = Restrict(E, DOMAIN E \ gone)
        /\ gone = {e \in DOMAIN E : Quotient!Range(E[e].vertices) \cap S # {}}
    BY DEF Quotient!Restrict, Restrict, Quotient!Range, Range
  <2>4. UNCHANGED Known /\ thrown' = FALSE BY <1>3, <1>7 DEF Known
  <2> HIDE DEF S, gone
  <2> QED BY <2>1, <2>2, <2>3, <2>4 DEF Quotient!DeleteVertices
<1> QED BY <1>7, <1>8 DEF Quotient!Next

\* What a merge leaves is IdentifyVertices of the abstract graph.
LEMMA IdentifyStep ==
  ASSUME IndexInv, NEW r \in Reps(graph.vertices), NEW K \in SUBSET DOMAIN graph.edges,
         graph' = QuotientBy(graph.lastUsedID, graph.edges, r, K), delEdges' = {}
  PROVE  IndexInv' /\ Quotient!IdentifyVertices(r, K)
<1> DEFINE n == graph.lastUsedID
           V == graph.vertices
           E == graph.edges
           F == Mapped(r, E, K)
           G == [e \in K |-> [E[e] EXCEPT !.vertices = [i \in DOMAIN @ |-> r[@[i]]]]]
<1>1. WellFormed(n, V, E) BY DEF IndexInv
<1>2. WellFormed(n, Range(r), F) BY <1>1, MappedIsWellFormed
<1>3. /\ IndexInv' /\ graph'.lastUsedID = n /\ graph'.vertices = Range(r) /\ graph'.edges = F
  BY <1>2, Returned DEF QuotientBy
<1>4. G = F
  <2>1. ASSUME NEW e \in K
        PROVE  [E[e] EXCEPT !.vertices = [i \in DOMAIN @ |-> r[@[i]]]] = F[e]
    <3>1. E[e] \in Edge(V) BY <1>1, EdgesType
    <3> DEFINE vs == [i \in DOMAIN E[e].vertices |-> r[E[e].vertices[i]]]
    <3>2. [E[e] EXCEPT !.vertices = [i \in DOMAIN @ |-> r[@[i]]]] = [E[e] EXCEPT !.vertices = vs]
      OBVIOUS
    <3>3. F[e] = [label |-> E[e].label, vertices |-> vs] BY DEF Mapped
    <3> HIDE DEF vs, F, E
    <3>4. [E[e] EXCEPT !.vertices = vs] = [label |-> E[e].label, vertices |-> vs]
      BY <3>1, SetVertices
    <3> QED BY <3>2, <3>3, <3>4
  <2>2. F = [e \in K |-> F[e]] BY DEF Mapped
  <2> QED BY <2>1, <2>2
<1>5. Quotient!Range(r) = Range(r) BY DEF Quotient!Range, Range
<1>6. UNCHANGED Known BY <1>3 DEF Known
<1> HIDE DEF F
<1>7. Quotient!IdentifyVertices(r, K)
  BY <1>3, <1>4, <1>5, <1>6 DEF Quotient!IdentifyVertices
<1> QED BY <1>3, <1>7

LEMMA VertexMergeStep ==
  ASSUME IndexInv, NEW S \in SUBSET graph.vertices, NEW r \in Reps(graph.vertices), NEW g,
         IsVertexMerge(g, graph.lastUsedID, graph.vertices, graph.edges, S, r),
         Return(Tried(g))
  PROVE  IndexInv' /\ Quotient!Next
<1> DEFINE V == graph.vertices
           E == graph.edges
<1>1. graph' = g /\ delEdges' = {} /\ thrown' = FALSE BY ReturnFields
<1>2. /\ g = QuotientBy(graph.lastUsedID, E, r, DOMAIN E)
      /\ \A x, y \in S : r[x] = r[y]
      /\ \A s \in [V -> V] : (\A x, y \in S : s[x] = s[y]) => Follows(V, r, s)
  BY DEF IsVertexMerge
<1>3. IndexInv' /\ Quotient!IdentifyVertices(r, DOMAIN E) BY <1>1, <1>2, IdentifyStep
<1>4. r \in Quotient!Representatives BY DEF Quotient!Representatives, Reps
<1>5. Quotient!Identifies(r, S \X S) BY <1>2 DEF Quotient!Identifies
<1>6. Quotient!IdentifiesNoMore(r, S \X S)
  <2> SUFFICES ASSUME NEW s \in [V -> V], Quotient!Identifies(s, S \X S)
               PROVE  \A v \in V : s[v] = s[r[v]]
    BY DEF Quotient!IdentifiesNoMore
  <2>1. ASSUME NEW x \in S, NEW y \in S PROVE s[x] = s[y]
    <3>1. <<x, y>> \in S \X S OBVIOUS
    <3>2. s[<<x, y>>[1]] = s[<<x, y>>[2]] BY <3>1 DEF Quotient!Identifies
    <3> QED BY <3>2
  <2>2. Follows(V, r, s) BY <1>2, <2>1
  <2> QED BY <2>2 DEF Follows
<1>7. Quotient!MergeVertices BY <1>1, <1>3, <1>4, <1>5, <1>6 DEF Quotient!MergeVertices
<1> QED BY <1>3, <1>7 DEF Quotient!Next

LEMMA MergeVerticesStep ==
  ASSUME IndexInv, NEW v \in Known, NEW w \in Known, MergeVertices(v, w)
  PROVE  IndexInv' /\ Quotient!Next
<1> DEFINE n == graph.lastUsedID
           V == graph.vertices
           E == graph.edges
           g == mergeVertices(graph, v, w)
<1>1. WellFormed(n, V, E) /\ graph = Indexed(n, V, E) BY DEF IndexInv
<1>2. Tried(graph).graph = graph /\ Tried(graph).thrown = FALSE BY DEF Tried
<1>3. CASE ~ ({v, w} \subseteq V)
  <2>1. tryMergeVertices(Tried(graph), v, w) = Thrown(graph)
    BY <1>2, <1>3 DEF tryMergeVertices
  <2> QED BY <2>1, RejectStep DEF MergeVertices
<1>4. CASE {v, w} \subseteq V
  <2> DEFINE id == [x \in V |-> x]
             r == Joined(id, v, w)
  <2>1. tryMergeVertices(Tried(graph), v, w) = Tried(g) BY <1>2, <1>4 DEF tryMergeVertices
  <2>2. id \in Reps(V) /\ Range(id) = V /\ QuotientBy(n, E, id, DOMAIN E) = graph
    BY <1>1, IdentityIsRep
  <2>3. \A x \in V : r[x] = IF x = w THEN v ELSE x BY DEF Joined
  <2> HIDE DEF id
  <2>4. r \in Reps(V) /\ g = QuotientBy(n, E, r, DOMAIN E)
    <3>1. v \in Range(id) /\ w \in Range(id) BY <1>4, <2>2
    <3>2. DOMAIN E \in SUBSET DOMAIN E OBVIOUS
    <3> HIDE DEF n, V, E
    <3>3. /\ Joined(id, v, w) \in Reps(V)
          /\ mergeVertices(QuotientBy(n, E, id, DOMAIN E), v, w)
               = QuotientBy(n, E, Joined(id, v, w), DOMAIN E)
      BY <1>1, <2>2, <3>1, <3>2, JoinLemma
    <3> QED BY <2>2, <3>3
  <2> HIDE DEF r, g
  <2>5. \A x, y \in {v, w} : r[x] = r[y] BY <1>4, <2>3
  <2>6. ASSUME NEW s \in [V -> V], \A x, y \in {v, w} : s[x] = s[y] PROVE Follows(V, r, s)
    <3>1. \A x \in V : s[r[x]] = s[x] BY <2>3, <2>6
    <3> QED BY <3>1 DEF Follows
  <2>7. IsVertexMerge(g, n, V, E, {v, w}, r) BY <2>4, <2>5, <2>6 DEF IsVertexMerge
  <2>8. Return(Tried(g)) /\ {v, w} \in SUBSET V BY <1>4, <2>1 DEF MergeVertices
  <2> QED BY <2>4, <2>7, <2>8, VertexMergeStep
<1> QED BY <1>3, <1>4

LEMMA MergeVertexSetStep ==
  ASSUME IndexInv, NEW ids \in SUBSET Known, MergeVertexSet(ids)
  PROVE  IndexInv' /\ Quotient!Next
<1> DEFINE n == graph.lastUsedID
           V == graph.vertices
           E == graph.edges
           S == ids \cap V
<1>1. WellFormed(n, V, E) /\ graph = Indexed(n, V, E) BY DEF IndexInv
<1>2. CASE S = {}
  <2>1. Return(Thrown(graph)) BY <1>2 DEF MergeVertexSet
  <2> QED BY <2>1, RejectStep
<1>3. CASE S # {}
  <2>1. PICK order \in SetToSeqs(S) : Return(Tried(mergeVertexSet(graph, order)))
    BY <1>3 DEF MergeVertexSet
  <2>2. IsFiniteSet(S) /\ S \in SUBSET V
    <3>1. V \subseteq 1 .. n /\ n \in Nat BY <1>1, EdgesType
    <3>2. S \subseteq V OBVIOUS
    <3> HIDE DEF n, V, S
    <3>3. IsFiniteSet(1 .. n) /\ S \in SUBSET (1 .. n) BY <3>1, <3>2, FS_Interval
    <3> QED BY <3>2, <3>3, FS_Subset
  <2> HIDE DEF n, V, E, S
  <2>3. PICK k \in Nat : Enumerates(Head(order), Tail(order), k, S)
    BY <1>3, <2>2, OrderOfSet
  <2>4. PICK r \in Reps(V) :
          IsVertexMerge(mergeVertexSet(Indexed(n, V, E), order), n, V, E, S, r)
    BY <1>1, <2>2, <2>3, VertexSetLemma
  <2> USE DEF n, V, E
  <2>5. IsVertexMerge(mergeVertexSet(graph, order), n, V, E, S, r) BY <1>1, <2>4
  <2> QED BY <2>1, <2>2, <2>5, VertexMergeStep
<1> QED BY <1>2, <1>3

\* The pairs of HypergraphQuotient say which edges are identified.
LEMMA PairsAreIdentified ==
  ASSUME IndexInv, NEW S \in SUBSET DOMAIN graph.edges, NEW s
  PROVE  Quotient!Identifies(s, Quotient!Pairs(S)) <=> IdentifiedWithin(s, graph.edges, S)
<1> DEFINE V == graph.vertices
           E == graph.edges
<1>1. WellFormed(graph.lastUsedID, V, E) BY DEF IndexInv
<1>2. ASSUME NEW e \in S, NEW f \in S, Alike(E, e, f), NEW i \in DOMAIN E[e].vertices
      PROVE  E[e].vertices[i] \in V /\ E[f].vertices[i] \in V
  <2>1. PICK l \in Nat : E[e].vertices \in [1 .. l -> V] /\ Len(E[e].vertices) = l
    BY <1>1, VerticesOfEdge
  <2>2. PICK p \in Nat : E[f].vertices \in [1 .. p -> V] /\ Len(E[f].vertices) = p
    BY <1>1, VerticesOfEdge
  <2>3. l = p BY <1>2, <2>1, <2>2 DEF Alike
  <2>4. i \in 1 .. l BY <1>2, <2>1
  <2> QED BY <2>1, <2>2, <2>3, <2>4
<1>3. \A e, f \in S : Quotient!Mergeable(e, f) <=> Alike(E, e, f)
  BY DEF Quotient!Mergeable, Alike
<1>4. ASSUME Quotient!Identifies(s, Quotient!Pairs(S)) PROVE IdentifiedWithin(s, E, S)
  <2> SUFFICES ASSUME NEW e \in S, NEW f \in S, Alike(E, e, f), NEW i \in DOMAIN E[e].vertices
               PROVE  s[E[e].vertices[i]] = s[E[f].vertices[i]]
    BY DEF IdentifiedWithin, Identified
  <2> DEFINE p == <<E[e].vertices[i], E[f].vertices[i]>>
  <2>1. p \in V \X V BY <1>2
  <2>2. p \in Quotient!Pairs(S) BY <1>3, <2>1 DEF Quotient!Pairs
  <2>3. s[p[1]] = s[p[2]] BY <1>4, <2>2 DEF Quotient!Identifies
  <2> QED BY <2>3
<1>5. ASSUME IdentifiedWithin(s, E, S), NEW p \in Quotient!Pairs(S) PROVE s[p[1]] = s[p[2]]
  <2>1. PICK e \in S, f \in S :
          /\ Quotient!Mergeable(e, f)
          /\ \E i \in DOMAIN E[e].vertices : p = <<E[e].vertices[i], E[f].vertices[i]>>
    BY DEF Quotient!Pairs
  <2>2. PICK i \in DOMAIN E[e].vertices : p = <<E[e].vertices[i], E[f].vertices[i]>> BY <2>1
  <2>3. s[E[e].vertices[i]] = s[E[f].vertices[i]]
    BY <1>3, <1>5, <2>1 DEF IdentifiedWithin, Identified
  <2> QED BY <2>2, <2>3
<1> QED BY <1>4, <1>5 DEF Quotient!Identifies

LEMMA EdgeMergeStep ==
  ASSUME IndexInv, NEW S \in SUBSET DOMAIN graph.edges, NEW r \in Reps(graph.vertices),
         NEW K \in SUBSET DOMAIN graph.edges, NEW m,
         IsEdgeMerge(m, graph.lastUsedID, graph.vertices, graph.edges, S, r, K),
         Return(m)
  PROVE  IndexInv' /\ Quotient!Next
<1> DEFINE n == graph.lastUsedID
           V == graph.vertices
           E == graph.edges
<1>1. WellFormed(n, V, E) BY DEF IndexInv
<1>2. r \in Quotient!Representatives BY DEF Quotient!Representatives, Reps
<1>3. Quotient!IdentifiesNoMore(r, Quotient!Pairs(S))
  <2> SUFFICES ASSUME NEW s \in [V -> V], Quotient!Identifies(s, Quotient!Pairs(S))
               PROVE  \A v \in V : s[v] = s[r[v]]
    BY DEF Quotient!IdentifiesNoMore
  <2>1. IdentifiedWithin(s, E, S) BY PairsAreIdentified
  <2>2. Follows(V, r, s) BY <2>1 DEF IsEdgeMerge
  <2> QED BY <2>2 DEF Follows
<1>4. CASE /\ m = Thrown(QuotientBy(n, E, r, K)) /\ DOMAIN E \ S \subseteq K
           /\ \E e, f \in K \cap S : e # f
  <2>1. graph' = QuotientBy(n, E, r, K) /\ delEdges' = {} /\ thrown' = TRUE
    BY <1>4, ReturnFields
  <2>2. IndexInv' /\ Quotient!IdentifyVertices(r, K) BY <2>1, IdentifyStep
  <2> DEFINE kept == K \cap S
  <2>3. kept \in SUBSET S /\ K = (DOMAIN E \ S) \cup kept BY <1>4
  <2>4. \E e, f \in kept : e # f BY <1>4
  <2> HIDE DEF kept
  <2>5. Quotient!MergeEdgesPartly
    BY <1>2, <1>3, <2>1, <2>2, <2>3, <2>4 DEF Quotient!MergeEdgesPartly
  <2> QED BY <2>2, <2>5 DEF Quotient!Next
<1>5. CASE /\ m = Tried(QuotientBy(n, E, r, K))
           /\ \E e \in S : /\ K = (DOMAIN E \ S) \cup {e}
                           /\ \A f \in S : f # e => Alike(E, e, f) /\ Identified(r, E, e, f)
  <2>1. graph' = QuotientBy(n, E, r, K) /\ delEdges' = {} /\ thrown' = FALSE
    BY <1>5, ReturnFields
  <2>2. IndexInv' /\ Quotient!IdentifyVertices(r, K) BY <2>1, IdentifyStep
  <2>3. PICK e \in S : /\ K = (DOMAIN E \ S) \cup {e}
                       /\ \A f \in S : f # e => Alike(E, e, f) /\ Identified(r, E, e, f)
    BY <1>5
  <2>4. K = DOMAIN E \ (S \ {e}) BY <2>3
  <2>5. \A f \in S : Alike(E, e, f) /\ Identified(r, E, e, f)
    <3>1. Alike(E, e, e) /\ Identified(r, E, e, e) BY DEF Alike, Identified
    <3> QED BY <2>3, <3>1
  <2>6. \A f \in S : Quotient!Mergeable(e, f) BY <2>5 DEF Quotient!Mergeable, Alike
  <2>7. IdentifiedWithin(r, E, S)
    <3> SUFFICES ASSUME NEW f \in S, NEW g \in S, NEW i \in DOMAIN E[f].vertices
                 PROVE  r[E[f].vertices[i]] = r[E[g].vertices[i]]
      BY DEF IdentifiedWithin, Identified
    <3>1. PICK l \in Nat : E[e].vertices \in [1 .. l -> V] /\ Len(E[e].vertices) = l
      BY <1>1, VerticesOfEdge
    <3>2. PICK p \in Nat : E[f].vertices \in [1 .. p -> V] /\ Len(E[f].vertices) = p
      BY <1>1, VerticesOfEdge
    <3>3. l = p BY <2>5, <3>1, <3>2 DEF Alike
    <3>4. i \in DOMAIN E[e].vertices BY <3>1, <3>2, <3>3
    <3> QED BY <2>5, <3>4 DEF Identified
  <2>8. Quotient!Identifies(r, Quotient!Pairs(S)) BY <2>7, PairsAreIdentified
  <2>9. Quotient!MergeEdges
    BY <1>2, <1>3, <2>1, <2>2, <2>4, <2>6, <2>8 DEF Quotient!MergeEdges
  <2> QED BY <2>2, <2>9 DEF Quotient!Next
<1> QED BY <1>4, <1>5 DEF IsEdgeMerge

LEMMA MergeEdgesStep ==
  ASSUME IndexInv, NEW e \in Known, NEW f \in Known, MergeEdges(e, f)
  PROVE  IndexInv' /\ Quotient!Next
<1> DEFINE n == graph.lastUsedID
           V == graph.vertices
           E == graph.edges
           D == DOMAIN E
           id == [x \in V |-> x]
           m == tryMergeEdges(Tried(graph), e, f)
<1>1. WellFormed(n, V, E) /\ graph = Indexed(n, V, E) BY DEF IndexInv
<1>2. Return(m) BY DEF MergeEdges
<1>3. id \in Reps(V) /\ QuotientBy(n, E, id, D) = graph BY <1>1, IdentityIsRep
<1>4. \A s : Follows(V, id, s) BY DEF Follows
<1>5. /\ ~ {e, f} \subseteq D => m = Thrown(graph)
      /\ {e, f} \subseteq D /\ e = f => m = Tried(graph)
      /\ {e, f} \subseteq D /\ e # f /\ ~ Alike(E, e, f) => m = Thrown(graph)
      /\ {e, f} \subseteq D /\ e # f /\ Alike(E, e, f) =>
           \E r \in Reps(V) : /\ IsLeastMerge(V, E, id, r, e, f)
                              /\ Merges(m, n, E, r, D, e, f)
  <2>1. D \in SUBSET DOMAIN E OBVIOUS
  <2> HIDE DEF n, V, E, D, id
  <2>2. LET g == QuotientBy(n, E, id, D)
        IN /\ tryMergeEdges(Thrown(g), e, f) = Thrown(g)
           /\ ~ {e, f} \subseteq D => tryMergeEdges(Tried(g), e, f) = Thrown(g)
           /\ {e, f} \subseteq D /\ e = f => tryMergeEdges(Tried(g), e, f) = Tried(g)
           /\ {e, f} \subseteq D /\ e # f /\ ~ Alike(E, e, f) =>
                tryMergeEdges(Tried(g), e, f) = Thrown(g)
           /\ {e, f} \subseteq D /\ e # f /\ Alike(E, e, f) =>
                \E r \in Reps(V) : /\ IsLeastMerge(V, E, id, r, e, f)
                                   /\ Merges(tryMergeEdges(Tried(g), e, f), n, E, r, D, e, f)
    BY <1>1, <1>3, <2>1, TryMergeEdgesLemma
  <2> QED BY <1>3, <2>2
<1> HIDE DEF m, id, n, V, E, D
<1>6. CASE m = Thrown(graph) BY <1>2, <1>6, RejectStep
<1>7. CASE {e, f} \subseteq D /\ e = f
  <2>1. D = (D \ {e}) \cup {e} BY <1>7
  <2>2. m = Tried(QuotientBy(n, E, id, D)) BY <1>3, <1>5, <1>7
  <2>3. IsEdgeMerge(m, n, V, E, {e}, id, D) BY <1>4, <2>1, <2>2 DEF IsEdgeMerge, D
  <2>4. {e} \in SUBSET D BY <1>7
  <2> QED BY <1>2, <1>3, <2>3, <2>4, EdgeMergeStep DEF n, V, E, D
<1>8. CASE {e, f} \subseteq D /\ e # f /\ Alike(E, e, f)
  <2>1. PICK r \in Reps(V) : IsLeastMerge(V, E, id, r, e, f) /\ Merges(m, n, E, r, D, e, f)
    BY <1>5, <1>8
  <2> DEFINE S == {e, f}
  <2>2. ASSUME NEW s \in [V -> V], IdentifiedWithin(s, E, S) PROVE Follows(V, r, s)
    <3>1. Identified(s, E, e, f) BY <1>8, <2>2 DEF IdentifiedWithin
    <3> QED BY <1>4, <2>1, <3>1 DEF IsLeastMerge
  <2>3. S \in SUBSET D BY <1>8
  <2>4. CASE m = Thrown(QuotientBy(n, E, r, D))
    <3>1. IsEdgeMerge(m, n, V, E, S, r, D) BY <1>8, <2>2, <2>4 DEF IsEdgeMerge, D
    <3>2. D \in SUBSET D OBVIOUS
    <3> HIDE DEF S
    <3> QED BY <1>2, <2>1, <2>3, <3>1, <3>2, EdgeMergeStep DEF n, V, E, D
  <2>5. CASE m = Tried(QuotientBy(n, E, r, D \ {f})) /\ Identified(r, E, e, f)
    <3>1. D \ {f} = (D \ S) \cup {e} /\ D \ {f} \in SUBSET D BY <1>8
    <3>2. e \in S /\ \A x \in S : x # e => Alike(E, e, x) /\ Identified(r, E, e, x)
      BY <1>8, <2>5
    <3> DEFINE K == D \ {f}
    <3> HIDE DEF S, K
    <3>3. IsEdgeMerge(m, n, V, E, S, r, K) BY <2>2, <2>5, <3>1, <3>2 DEF IsEdgeMerge, D, K
    <3>4. K \in SUBSET D BY <3>1 DEF K
    <3> QED BY <1>2, <2>1, <2>3, <3>3, <3>4, EdgeMergeStep DEF n, V, E, D
  <2> QED BY <2>1, <2>4, <2>5 DEF Merges
<1> QED BY <1>5, <1>6, <1>7, <1>8

LEMMA MergeEdgeSetStep ==
  ASSUME IndexInv, NEW ids \in SUBSET Known, MergeEdgeSet(ids)
  PROVE  IndexInv' /\ Quotient!Next
<1> DEFINE n == graph.lastUsedID
           V == graph.vertices
           E == graph.edges
           S == ids \cap DOMAIN E
<1>1. WellFormed(n, V, E) /\ graph = Indexed(n, V, E) BY DEF IndexInv
<1>2. CASE S = {}
  <2>1. Return(Thrown(graph)) BY <1>2 DEF MergeEdgeSet
  <2> QED BY <2>1, RejectStep
<1>3. CASE S # {}
  <2>1. PICK order \in SetToSeqs(S) : Return(tryMergeEdgeSet(Tried(graph), order))
    BY <1>3 DEF MergeEdgeSet
  <2>2. IsFiniteSet(S) /\ S \in SUBSET DOMAIN E
    <3>1. DOMAIN E \subseteq 1 .. n /\ n \in Nat BY <1>1, EdgesType
    <3>2. S \subseteq DOMAIN E OBVIOUS
    <3> HIDE DEF n, E, S
    <3>3. IsFiniteSet(1 .. n) /\ S \in SUBSET (1 .. n) BY <3>1, <3>2, FS_Interval
    <3> QED BY <3>2, <3>3, FS_Subset
  <2> HIDE DEF n, V, E, S
  <2>3. PICK k \in Nat : Enumerates(Head(order), Tail(order), k, S)
    BY <1>3, <2>2, OrderOfSet
  <2>4. PICK r \in Reps(V), K \in SUBSET DOMAIN E :
          IsEdgeMerge(tryMergeEdgeSet(Tried(Indexed(n, V, E)), order), n, V, E, S, r, K)
    BY <1>1, <2>2, <2>3, EdgeSetLemma
  <2> DEFINE m == tryMergeEdgeSet(Tried(graph), order)
  <2>5. IsEdgeMerge(m, n, V, E, S, r, K) BY <1>1, <2>4
  <2> HIDE DEF m
  <2>6. Return(m) BY <2>1 DEF m
  <2> QED BY <2>2, <2>4, <2>5, <2>6, EdgeMergeStep DEF n, V, E
<1> QED BY <1>2, <1>3

LEMMA InitialIndex == Init => IndexInv /\ Quotient!Init
<1> SUFFICES ASSUME Init PROVE IndexInv /\ Quotient!Init
  OBVIOUS
<1>1. graph = Graph(0, {}, <<>>, <<>>) /\ delEdges = {} /\ thrown = FALSE
  BY DEF Init, EmptyGraph
<1>2. /\ graph.lastUsedID = 0 /\ graph.vertices = {} /\ graph.edges = <<>>
      /\ graph.connectedEdges = <<>>
  BY <1>1, Fields
<1>3. DOMAIN <<>> = {} /\ IndexOf({}, <<>>) = <<>> BY DEF IndexOf
<1>4. <<>> \in [DOMAIN <<>> -> Edge({})] BY <1>3
<1>5. 0 \in 0 .. MaxID BY BoundsAreNatural
<1>6. WellFormed(0, {}, <<>>) BY <1>3, <1>4, <1>5 DEF WellFormed
<1>7. IndexInv BY <1>1, <1>2, <1>3, <1>6 DEF IndexInv, Indexed
<1>8. Known = {} BY <1>2 DEF Known
<1> QED BY <1>1, <1>2, <1>7, <1>8 DEF Quotient!Init

LEMMA NextStep ==
  ASSUME IndexInv, [Next]_vars
  PROVE  IndexInv' /\ [Quotient!Next]_(Quotient!vars)
<1>1. CASE UNCHANGED vars
  <2>1. graph' = graph /\ delEdges' = delEdges /\ thrown' = thrown BY <1>1 DEF vars
  <2>2. IndexInv' BY <2>1 DEF IndexInv, WellFormed, Indexed, Graph, IndexOf, Occurrences, Edge,
                              AttVertices, IDs
  <2>3. UNCHANGED Quotient!vars BY <2>1 DEF Quotient!vars, Known
  <2> QED BY <2>2, <2>3
<1>2. CASE AddVertex BY <1>2, AddVertexStep
<1>3. CASE \E l \in Labels, vs \in AttVertices(Known) : AddEdge(l, vs) BY <1>3, AddEdgeStep
<1>4. CASE \E id \in Known : DeleteEdge(id) BY <1>4, DeleteEdgeStep
<1>5. CASE \E ids \in SUBSET Known : DeleteVertices(ids) BY <1>5, DeleteVerticesStep
<1>6. CASE \E v, w \in Known : MergeVertices(v, w) BY <1>6, MergeVerticesStep
<1>7. CASE \E e, f \in Known : MergeEdges(e, f) BY <1>7, MergeEdgesStep
<1>8. CASE \E ids \in SUBSET Known : MergeVertexSet(ids) BY <1>8, MergeVertexSetStep
<1>9. CASE \E ids \in SUBSET Known : MergeEdgeSet(ids) BY <1>9, MergeEdgeSetStep
<1> QED BY <1>1, <1>2, <1>3, <1>4, <1>5, <1>6, <1>7, <1>8, <1>9 DEF Next

-----------------------------------------------------------------------------
(* Theorems *)

LEMMA IndexInvariant == Spec => []IndexInv
<1>1. Init => IndexInv BY InitialIndex
<1>2. IndexInv /\ [Next]_vars => IndexInv' BY NextStep
<1> QED BY <1>1, <1>2, PTL DEF Spec

\* The incidence index is exact after every call, also after one that has thrown half-way:
\* deleteVertex and mergeVertices, which look nowhere else, change the edges they must.
THEOREM IndexStaysExact == Spec => []IndexIsExact
<1>1. IndexInv => IndexIsExact
  <2> SUFFICES ASSUME IndexInv, NEW v \in graph.vertices, NEW e \in IDs
               PROVE  graph.connectedEdges[v][e] =
                        IF e \in DOMAIN graph.edges THEN Occurrences(graph.edges[e].vertices, v)
                        ELSE 0
    BY DEF IndexIsExact
  <2>1. graph.connectedEdges = IndexOf(graph.vertices, graph.edges)
    BY Fields DEF IndexInv, Indexed
  <2> QED BY <2>1 DEF IndexOf
<1> QED BY IndexInvariant, <1>1, PTL

\* The graph without its index does what HypergraphQuotient says, whatever the number of
\* vertices and edges and in whatever order the sets of the merges are gone through.
THEOREM MergesAreQuotients == Spec => ImplementsQuotient
<1>1. Init => Quotient!Init BY InitialIndex
<1>2. IndexInv /\ [Next]_vars => [Quotient!Next]_(Quotient!vars) BY NextStep
<1> QED BY <1>1, <1>2, IndexInvariant, PTL DEF Spec, ImplementsQuotient, Quotient!Spec

\* PartialPOCEnumerator::mergeEdges may delete parallel edges instead of merging them: the
\* positions of two such edges are merged with themselves, which changes nothing.
THEOREM ParallelEdgesMayBeDeleted == Spec => []ParallelMergeIsDeletion
<1>1. ASSUME IndexInv PROVE ParallelMergeIsDeletion
  <2> SUFFICES ASSUME NEW e \in DOMAIN graph.edges, NEW f \in DOMAIN graph.edges,
                      e # f, areParallelEdges(graph, e, f)
               PROVE  tryMergeEdges(Tried(graph), e, f) = Tried(deleteEdge(graph, f))
    BY DEF ParallelMergeIsDeletion
  <2> DEFINE V == graph.vertices
             E == graph.edges
             o == Tried(graph)
             us == E[e].vertices
  <2>1. WellFormed(graph.lastUsedID, V, E) BY <1>1 DEF IndexInv
  <2>2. PICK k \in Nat : us \in [1 .. k -> V] BY <2>1, VerticesOfEdge
  <2>3. E[f].vertices = us /\ E[e].label = E[f].label BY DEF areParallelEdges
  <2>4. o.graph = graph /\ o.thrown = FALSE BY DEF Tried
  <2>5. ASSUME NEW v \in V PROVE tryMergeVertices(o, v, v) = o
    <3>1. mergeVertices(graph, v, v) = graph BY DEF mergeVertices
    <3> QED BY <2>4, <3>1 DEF tryMergeVertices
  <2>6. \A i \in 1 .. k : tryMergeVertices(o, us[i], us[i]) = o BY <2>2, <2>5
  <2>7. DOMAIN us = 1 .. k BY <2>2
  <2> HIDE DEF o, us
  <2>8. PICK a : IsRunOfPositions(a, k, o, us, us)
    <3> DEFINE R == {o}
    <3>1. o \in R /\ \A acc \in R, i \in 1 .. k : tryMergeVertices(acc, us[i], us[i]) \in R
      BY <2>6
    <3> HIDE DEF R
    <3> QED BY <2>7, <3>1, PositionsLoop
  <2>9. /\ a[0] = o /\ mergePositions(o, us, us) = a[k]
        /\ \A i \in 1 .. k : a[i] = tryMergeVertices(a[i - 1], us[i], us[i])
    BY <2>8 DEF IsRunOfPositions
  <2> DEFINE Bad == {i \in 0 .. k : a[i] # o}
  <2>10. Bad = {}
    <3> SUFFICES ASSUME Bad # {} PROVE FALSE OBVIOUS
    <3>1. Bad \subseteq Nat OBVIOUS
    <3>2. PICK i \in Bad : \A j \in Bad : i <= j
      <4> HIDE DEF Bad
      <4> QED BY <3>1, LeastNatural
    <3>3. i \in 0 .. k /\ i # 0 BY <2>9, <3>2
    <3>4. i \in 1 .. k /\ i - 1 \in 0 .. k /\ ~ (i <= i - 1) BY <2>2, <3>3
    <3>5. a[i - 1] = o BY <3>2, <3>4
    <3> QED BY <2>6, <2>9, <3>2, <3>4, <3>5
  <2>11. mergePositions(o, us, us) = o
    <3>1. k \in 0 .. k BY <2>2
    <3> QED BY <2>9, <2>10, <3>1
  <2>12. MergedPositions(o, e, f) = o BY <2>3, <2>4, <2>11 DEF MergedPositions, us
  <2>13. Mergeable(graph, e, f) BY <2>3 DEF Mergeable, us
  <2>14. tryMergeEdges(o, e, f) = Tried(deleteEdge(graph, f))
    BY <2>4, <2>12, <2>13 DEF tryMergeEdges
  <2> QED BY <2>14 DEF o
<1> QED BY IndexInvariant, <1>1, PTL

=============================================================================
