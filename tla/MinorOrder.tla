------------------------------ MODULE MinorOrder ------------------------------
(***************************************************************************)
(* minors/MinorOrder: whether one graph is a minor of another.  A counter  *)
(* runs through the injective mappings of the edges of the smaller graph   *)
(* to those of the bigger one, label by label; for each of them a counter  *)
(* runs through the contractions of the other edges, and jumps over those  *)
(* that share a wrong merging.                                             *)
(***************************************************************************)
EXTENDS GraphMinors

EdgesByLabel(g, labels) ==
  [l \in labels |-> Ascending({e \in DOMAIN g.edges : g.edges[e].label = l})]

LabelsOf(g) == {g.edges[e].label : e \in DOMAIN g.edges}

-----------------------------------------------------------------------------
(* The counter over injective vectors of values below tarCount             *)

FirstVector(numCount) == [i \in 1..numCount |-> i - 1]

PlacesOf(vec, value) == {i \in DOMAIN vec : vec[i] = value}

\* The values from one on, in a circle.
Circle(value, tarCount) == [k \in 1..tarCount |-> (value + k - 1) % tarCount]

\* The next value that no place has, or tarCount if the one of the preceding place comes first.
NextUnused(vec, place, value, tarCount) ==
  LET isUnused(v) == PlacesOf(vec, v) = {}
      stops(v) == isUnused(v) \/ place - 1 = Min(PlacesOf(vec, v))
      next == Head(SelectSeq(Circle(value, tarCount), stops))
  IN IF isUnused(next) THEN next ELSE tarCount

\* The places from one on get the next unused values.
Refill(vec, place, value, tarCount) ==
  LET unused == SelectSeq(Circle(value, tarCount), LAMBDA v : PlacesOf(vec, v) = {})
  IN [i \in DOMAIN vec |-> IF i < place THEN vec[i] ELSE unused[i - place + 1]]

\* The last place that can move on does, and those after it are filled again.
IncVector(vec, tarCount) ==
  LET emptiedFrom(place) == [i \in DOMAIN vec |-> IF i < place THEN vec[i] ELSE tarCount]
      inc[place \in 1 .. Len(vec)] ==
        LET emptied == emptiedFrom(place)
            value == NextUnused(emptied, place, (vec[place] + 1) % tarCount, tarCount)
        IN IF place = 1 /\ vec[1] = tarCount - 1 THEN [vec |-> vec, more |-> FALSE]
           ELSE IF value = tarCount THEN inc[place - 1]
           ELSE [vec |-> Refill([emptied EXCEPT ![place] = value], place + 1,
                                (value + 1) % tarCount, tarCount),
                 more |-> TRUE]
  IN inc[Len(vec)]

\* The first label whose vector moves on; the vectors before it start again.
IncEdgeMap(edgeMap, edgesInB) ==
  IncEnums(edgeMap,
           LAMBDA m : LET next == IncVector(m.places, Len(edgesInB[m.label]))
                      IN [m EXCEPT !.places = next.vec, !.ended = ~ next.more],
           LAMBDA m : m.ended,
           LAMBDA m : [m EXCEPT !.places = FirstVector(Len(@)), !.ended = FALSE])

FirstEdgeMap(edgesInS) ==
  Mapped(LAMBDA l : [label |-> l, places |-> FirstVector(Len(edgesInS[l])), ended |-> FALSE],
         Listed(DOMAIN edgesInS))

-----------------------------------------------------------------------------
(* generateMapp: what an edge mapping makes of the vertices of the bigger  *)
(* graph, unless two edges disagree.                                       *)

EdgePairs(edgesInS, edgesInB, edgeMap) ==
  UNION {{<<edgesInS[m.label][i], edgesInB[m.label][m.places[i] + 1]>> : i \in DOMAIN m.places} :
           m \in Range(edgeMap)}

VertexPairs(smaller, bigger, pairs) ==
  UNION {{<<bigger.edges[p[2]].vertices[i], smaller.edges[p[1]].vertices[i]>> :
            i \in DOMAIN bigger.edges[p[2]].vertices} : p \in pairs}

GenerateMapp(smaller, bigger, pairs) ==
  LET ends == VertexPairs(smaller, bigger, pairs)
      sources == {p[1] : p \in ends}
  IN [consistent |-> \A p, q \in ends : p[1] = q[1] => p[2] = q[2],
      nodeMap |-> [v \in sources |-> (CHOOSE p \in ends : p[1] = v)[2]]]

-----------------------------------------------------------------------------
(* checkContractions                                                       *)

\* No class has vertices with different images.
IsFiner(partition, nodeMap) ==
  \A c \in partition : Cardinality({nodeMap[v] : v \in c \cap DOMAIN nodeMap}) <= 1

\* All vertices with one image are in one class.
IsIncludedIn(partition, nodeMap) ==
  \A s \in Range(nodeMap) : \E c \in partition : Preimage(nodeMap, s) \subseteq c

\* Classes without image can become the isolated vertices that the bigger graph lacks.
EnoughIsolated(partition, nodeMap, num) ==
  num <= 0 \/ Cardinality({c \in partition : c \cap DOMAIN nodeMap = {}}) >= num

\* From the last enumerator to the first, which is the one that moves fastest.
MergeUntilWrong(enums, nodeMap, partition) ==
  LET merge(acc, i) ==
        LET merged == Closure(acc.partition, Partition(enums[i]))
        IN CASE acc.aborted                  -> acc
             [] ~ IsFiner(merged, nodeMap)   -> [acc EXCEPT !.aborted = TRUE, !.skip = i - 1]
             [] OTHER                        -> [acc EXCEPT !.partition = merged]
  IN FoldLeft(merge, [partition |-> partition, aborted |-> FALSE, skip |-> 0],
              Reverse([i \in DOMAIN enums |-> i]))

\* The enumerators before the one that went wrong are not tried any further.
IncFromOffByOne(enums, skip) ==
  LET place == Min({skip + 1, Len(enums)})
      next == IncPartitions(SubSeq(enums, place + 1, Len(enums)))
  IN [enums |-> Mapped(ResetPartitions, SubSeq(enums, 1, place)) \o next.enums,
      more |-> next.more]

IncFrom(enums, skip) ==
  LET next == IncPartitions(SubSeq(enums, skip + 1, Len(enums)))
  IN [enums |-> Mapped(ResetPartitions, SubSeq(enums, 1, skip)) \o next.enums,
      more |-> next.more]

TryContractions(bigger, nodeMap, isoNodes, first) ==
  LET discrete == {{v} : v \in bigger.vertices \ Isolated(bigger)}
      fits(result) == /\ ~ result.aborted
                      /\ IsIncludedIn(result.partition, nodeMap)
                      /\ EnoughIsolated(result.partition, nodeMap, isoNodes)
      try[enums \in Seq(EnumeratorsOf(bigger.vertices))] ==
        LET result == MergeUntilWrong(enums, nodeMap, discrete)
            next == IncFrom(enums, result.skip)
        IN fits(result) \/ (next.more /\ try[next.enums])
  IN try[first]

CheckContractions(bigger, nodeMap, preservedEdges, isoNodes) ==
  LET contractible == {e \in DOMAIN bigger.edges \ preservedEdges :
                         Cardinality(VerticesOf(bigger, e)) > 1}
  IN TryContractions(bigger, nodeMap, isoNodes,
       Mapped(LAMBDA e : NewPartitions(VerticesOf(bigger, e)), Ascending(contractible)))

-----------------------------------------------------------------------------
(* isLessOrEq *)

TryEdgeMaps(smaller, bigger, edgesInS, edgesInB, first) ==
  LET isoNodes == Cardinality(Isolated(smaller)) - Cardinality(Isolated(bigger))
      fits(pairs, mapp) == /\ mapp.consistent
                           /\ CheckContractions(bigger, mapp.nodeMap, {p[2] : p \in pairs}, isoNodes)
      try[edgeMap \in Seq([label : LabelsOf(smaller), places : Seq(Nat), ended : BOOLEAN])] ==
        LET pairs == EdgePairs(edgesInS, edgesInB, edgeMap)
            next == IncEdgeMap(edgeMap, edgesInB)
        IN fits(pairs, GenerateMapp(smaller, bigger, pairs)) \/ (next.more /\ try[next.enums])
  IN try[first]

IsMinorOf(smaller, bigger) ==
  LET edgesInS == EdgesByLabel(smaller, LabelsOf(smaller))
      edgesInB == EdgesByLabel(bigger, LabelsOf(smaller))
  IN /\ Cardinality(DOMAIN smaller.edges) <= Cardinality(DOMAIN bigger.edges)
     /\ Cardinality(smaller.vertices) <= Cardinality(bigger.vertices)
     /\ \A l \in DOMAIN edgesInS : Len(edgesInS[l]) <= Len(edgesInB[l])
     /\ TryEdgeMaps(smaller, bigger, edgesInS, edgesInB, FirstEdgeMap(edgesInS))

=============================================================================
