----------------------------- MODULE OldMinorOrder -----------------------------
(***************************************************************************)
(* minors/OldMinorOrder, the deprecated test for minors: the edges of the  *)
(* smaller graph are mapped to edges of the bigger one, and the vertices   *)
(* that must become one have to be joined by paths of other edges that do  *)
(* not meet.  The recursions undo what they try, so each of them is a      *)
(* choice of one of its candidates; the list of found paths that a         *)
(* PathFinder keeps for its next round is the set of them.                 *)
(***************************************************************************)
EXTENDS GraphMinors

-----------------------------------------------------------------------------
(* PathFinder: breadth first from one vertex to another.  An element is    *)
(* left by what is not on its inner path, not forbidden and not the start. *)

ConnectedEdges(g, v) == {e \in DOMAIN g.edges : v \in VerticesOf(g, e)}

\* With an edge, all its vertices are put on the path.
NextOnPath(g, start, forbidden, el) ==
  LET avoided == el.innerPath \cup forbidden \cup {start}
      reached == IF el.isEdge THEN VerticesOf(g, el.position) ELSE ConnectedEdges(g, el.position)
      passed  == {el.position} \cup (IF el.isEdge THEN reached ELSE {})
  IN {[position |-> x, isEdge |-> ~ el.isEdge, innerPath |-> el.innerPath \cup passed] :
        x \in reached \ avoided}

PathsFrom(g, start, end, forbidden, first) ==
  LET paths[el \in [position : Elements(g), isEdge : BOOLEAN, innerPath : SUBSET Elements(g)]] ==
        IF el.position = end THEN {el.innerPath}
        ELSE UNION {paths[next] : next \in NextOnPath(g, start, forbidden, el)}
  IN paths[first]

PathsBetween(g, start, end, forbidden) ==
  UNION {PathsFrom(g, start, end, forbidden, [position |-> e, isEdge |-> TRUE, innerPath |-> {}]) :
           e \in ConnectedEdges(g, start) \ forbidden}

-----------------------------------------------------------------------------
(* createCombinations, combinePaths, findPaths                             *)

\* One path from each vertex of a tupel to the next, in every combination.
PathCombinations(g, tupel, forbidden) ==
  LET ids == Ascending(tupel)
      extend(combinations, i) ==
        {c \cup p : c \in combinations, p \in PathsBetween(g, ids[i], ids[i + 1], forbidden \ tupel)}
  IN FoldLeft(extend, {{}}, [i \in 1 .. Len(ids) - 1 |-> i])

\* The paths of different tupels have nothing in common.
CombinePaths(all) ==
  LET combine[i \in 0 .. Len(all), nodesUsed \in SUBSET UNION UNION Range(all)] ==
        \/ i = Len(all)
        \/ \E path \in all[i + 1] : path \cap nodesUsed = {} /\ combine[i + 1, nodesUsed \cup path]
  IN combine[0, {}]

FindPathsThroughImages(g, tupels, mappedEdges) ==
  CombinePaths(Mapped(LAMBDA t : PathCombinations(g, t, mappedEdges),
                      SelectSeq(tupels, LAMBDA t : Cardinality(t) > 1)))

FindPaths(g, tupels, mappedEdges) ==
  LET forbidden == mappedEdges \cup UNION Range(tupels)
  IN CombinePaths(Mapped(LAMBDA t : PathCombinations(g, t, forbidden),
                         SelectSeq(tupels, LAMBDA t : Cardinality(t) > 1)))

-----------------------------------------------------------------------------
(* createEdgeTupels: where the ends at one vertex of the smaller graph are *)
(* mapped to; the isolated vertices of the smaller graph are counted       *)
(* against the vertices of the bigger one that are nobody's image.         *)

EdgeTupel(minor, graph, mappings, v) ==
  UNION {{graph.edges[mappings[e]].vertices[i] : i \in {j \in DOMAIN minor.edges[e].vertices :
                                                         minor.edges[e].vertices[j] = v}} :
           e \in DOMAIN mappings}

CreateEdgeTupels(minor, graph, mappings) ==
  LET tupelOf(v) == EdgeTupel(minor, graph, mappings, v)
      nodeImage == UNION {tupelOf(v) : v \in minor.vertices}
  IN /\ \A v, w \in minor.vertices : v # w => tupelOf(v) \cap tupelOf(w) = {}
     /\ Cardinality(Isolated(minor)) <= Cardinality(graph.vertices \ nodeImage)
     /\ FindPaths(graph,
                  SelectSeq(Mapped(tupelOf, Ascending(minor.vertices)), LAMBDA t : t # {}),
                  Range(mappings))

\* images are those of the first edges.
MapEdges(minor, graph, occurrencesM) ==
  LET mappings(images) == [e \in Range(occurrencesM) |->
                             images[CHOOSE i \in DOMAIN images : occurrencesM[i] = e]]
      map[images \in Seq(DOMAIN graph.edges)] ==
        IF Len(images) = Len(occurrencesM) THEN CreateEdgeTupels(minor, graph, mappings(images))
        ELSE \E e \in DOMAIN graph.edges \ Range(images) :
               /\ graph.edges[e].label = minor.edges[occurrencesM[Len(images) + 1]].label
               /\ map[Append(images, e)]
  IN map[<<>>]

EdgesLabelled(g, label) == {e \in DOMAIN g.edges : g.edges[e].label = label}

\* isLessOrEq
IsMinorByPaths(smaller, bigger) ==
  /\ Cardinality(DOMAIN smaller.edges) <= Cardinality(DOMAIN bigger.edges)
  /\ Cardinality(smaller.vertices) <= Cardinality(bigger.vertices)
  /\ \A e \in DOMAIN smaller.edges :
       LET label == smaller.edges[e].label
       IN Cardinality(EdgesLabelled(smaller, label)) <= Cardinality(EdgesLabelled(bigger, label))
  /\ MapEdges(smaller, bigger, Ascending(DOMAIN smaller.edges))

=============================================================================
