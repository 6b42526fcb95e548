--------------------------- MODULE LEQCheckScenario ---------------------------
(***************************************************************************)
(* scenarios/LEQCheckScenario: which graphs of one file are above a graph  *)
(* of another file.  With it everything that compares two graphs: the two  *)
(* orders it can be run with, and beside them the deprecated test for      *)
(* minors and the isomorphism check, which no scenario uses.               *)
(***************************************************************************)
EXTENDS MinorOrder, IsomorphismChecker, MatchSearch

OldOrder == INSTANCE OldMinorOrder

CONSTANTS
  GraphFiles,       \* the graphs in each file that readGXL can read
  CommandLines      \* the parameters, [order, upclosedset, checkset, faststop]

\* A parameter that was not given.
Absent == "absent"

ASSUME CommandLinesAssumption ==
  \A p \in CommandLines : DOMAIN p = {"order", "upclosedset", "checkset", "faststop"}

AllGraphs == UNION {Range(GraphFiles[f]) : f \in DOMAIN GraphFiles}

\* What the reader makes: ids are numbers, no vertex is an edge, edges end at vertices.
IsHypergraph(g) ==
  /\ IsFiniteSet(g.vertices) /\ IsFiniteSet(DOMAIN g.edges)
  /\ Elements(g) \subseteq Nat
  /\ g.vertices \cap DOMAIN g.edges = {}
  /\ g.edges \in [DOMAIN g.edges -> [label : DOMAIN CharCodes, vertices : Seq(g.vertices)]]

\* The labels of edges with their numbers of vertices.
Arities == UNION {{<<d.label, Len(d.vertices)>> : d \in Range(g.edges)} : g \in AllGraphs}

\* The comparison of two edges with one label relies on it that they have as many vertices.
ASSUME GraphFilesAssumption ==
  /\ \A f \in DOMAIN GraphFiles : GraphFiles[f] \in Seq(AllGraphs)
  /\ \A g \in AllGraphs : IsHypergraph(g)
  /\ \A p, q \in Arities : p[1] = q[1] => p = q

VARIABLES
  parameters,
  status,           \* "created", "failed" (by an exception), "initialized" or "finished"
  faststop,
  minimalGraphs,    \* the minimal graphs of an upward-closed set
  checkGraphs,      \* the graphs that may be in it
  graphToCheck,     \* places in the two lists
  miniGraph,
  newGraph,         \* nothing was found for the current graph yet
  count,            \* relations and
  graphCount,       \* represented graphs that were counted
  represented       \* the pairs that were reported

vars == <<parameters, status, faststop, minimalGraphs, checkGraphs, graphToCheck, miniGraph,
          newGraph, count, graphCount, represented>>

Init ==
  /\ parameters \in CommandLines
  /\ status = "created"
  /\ faststop = FALSE
  /\ minimalGraphs = <<>>
  /\ checkGraphs = <<>>
  /\ graphToCheck = 1
  /\ miniGraph = 1
  /\ newGraph = TRUE
  /\ count = 0
  /\ graphCount = 0
  /\ represented = {}

-----------------------------------------------------------------------------
(* initialize *)

\* An unknown order, or a file that cannot be read.
InitialisationFails ==
  \/ parameters.order \notin {"minor", "subgraph"}
  \/ ~ {parameters.upclosedset, parameters.checkset} \subseteq DOMAIN GraphFiles

Initialize ==
  /\ status = "created"
  /\ IF InitialisationFails
     THEN /\ status' = "failed"
          /\ UNCHANGED <<faststop, minimalGraphs, checkGraphs>>
     ELSE /\ status' = "initialized"
          /\ minimalGraphs' = GraphFiles[parameters.upclosedset]
          /\ checkGraphs' = GraphFiles[parameters.checkset]
          /\ faststop' = (parameters.faststop \in {"true", "false"})
  /\ UNCHANGED <<parameters, graphToCheck, miniGraph, newGraph, count, graphCount, represented>>

-----------------------------------------------------------------------------
(* run *)

\* SubgraphOrder::isLessOrEq: the match finder, to be injective and to stop at the first match.
IsSubgraphOf(smaller, bigger) ==
  FindsInjectiveMatch([source |-> smaller, target |-> bigger, injective |-> TRUE, beyond |-> 0])

IsLessOrEq(smaller, bigger) ==
  IF parameters.order = "minor" THEN IsMinorOf(smaller, bigger) ELSE IsSubgraphOf(smaller, bigger)

HasPair == graphToCheck <= Len(checkGraphs) /\ miniGraph <= Len(minimalGraphs)

Smaller == minimalGraphs[miniGraph]
Bigger == checkGraphs[graphToCheck]

\* One round of the inner loop.
ComparePair ==
  /\ status = "initialized"
  /\ HasPair
  /\ IF IsLessOrEq(Smaller, Bigger)
     THEN /\ count' = count + 1
          /\ graphCount' = IF newGraph THEN graphCount + 1 ELSE graphCount
          /\ newGraph' = FALSE
          /\ represented' = represented \cup {<<miniGraph, graphToCheck>>}
          /\ IF faststop THEN status' = "finished" /\ UNCHANGED miniGraph
             ELSE miniGraph' = miniGraph + 1 /\ UNCHANGED status
     ELSE /\ miniGraph' = miniGraph + 1
          /\ UNCHANGED <<status, count, graphCount, newGraph, represented>>
  /\ UNCHANGED <<parameters, faststop, minimalGraphs, checkGraphs, graphToCheck>>

NextGraphToCheckKeepsFlag ==
  /\ status = "initialized"
  /\ graphToCheck <= Len(checkGraphs) /\ miniGraph > Len(minimalGraphs)
  /\ graphToCheck' = graphToCheck + 1
  /\ miniGraph' = 1
  /\ UNCHANGED <<parameters, status, faststop, minimalGraphs, checkGraphs, newGraph, count,
                 graphCount, represented>>

NextGraphToCheck ==
  /\ status = "initialized"
  /\ graphToCheck <= Len(checkGraphs) /\ miniGraph > Len(minimalGraphs)
  /\ graphToCheck' = graphToCheck + 1
  /\ miniGraph' = 1
  /\ newGraph' = TRUE
  /\ UNCHANGED <<parameters, status, faststop, minimalGraphs, checkGraphs, count, graphCount,
                 represented>>

PrintTotals ==
  /\ status = "initialized"
  /\ graphToCheck > Len(checkGraphs)
  /\ status' = "finished"
  /\ UNCHANGED <<parameters, faststop, minimalGraphs, checkGraphs, graphToCheck, miniGraph,
                 newGraph, count, graphCount, represented>>

Next == Initialize \/ ComparePair \/ NextGraphToCheck \/ PrintTotals

Spec == Init /\ [][Next]_vars

-----------------------------------------------------------------------------
(* Properties                                                              *)

\* The minors of each graph, worked out once.
MinorTable ==
  {<<g, MinorsOf(g)>> : g \in UNION {Range(GraphFiles[p.checkset]) :
                                        p \in {q \in CommandLines : q.order = "minor"
                                                                  /\ q.checkset \in DOMAIN GraphFiles}}}

IsMinor(smaller, bigger) ==
  \E entry \in MinorTable : entry[1] = bigger /\ \E m \in entry[2] : IsomorphicGraphs(smaller, m)

\* The counter over edge mappings and the one over contractions with its jumps find a minor
\* whenever there is one by deletions and contractions, and nothing else (MinorOrder.h: "true
\* iff the first graph is a minor of the second").
MinorOrderIsExact ==
  status = "initialized" /\ parameters.order = "minor" /\ HasPair =>
    (IsMinorOf(Smaller, Bigger) <=> IsMinor(Smaller, Bigger))

\* The deprecated test by paths agrees with the definition for graphs whose edges have at most
\* two vertices, as its documentation says, when the smaller graph has no isolated vertices.
PathsFindMinors ==
  status = "initialized" /\ parameters.order = "minor" /\ HasPair
  /\ Isolated(Smaller) = {}
  /\ (\A g \in {Smaller, Bigger} : \A e \in DOMAIN g.edges : Len(g.edges[e].vertices) <= 2) =>
    (OldOrder!IsMinorByPaths(Smaller, Bigger) <=> IsMinor(Smaller, Bigger))

\* No isomorphic graphs are told apart: equal structure gives equal signatures, and taking back
\* too much never hides a mapping.
IsomorphicGraphsAreRecognised ==
  status = "initialized" /\ HasPair /\ IsomorphicGraphs(Smaller, Bigger) =>
    AreIsomorphic(Smaller, Bigger)

\* An edge, when its vertices have moved.
MovedBy(m, d) == [d EXCEPT !.vertices = [i \in DOMAIN @ |-> m[@[i]]]]

\* For every edge there are as many edges as there are parallel to it.
EdgesFit(m, smaller, bigger) ==
  \A e \in DOMAIN smaller.edges :
    Cardinality({d \in DOMAIN smaller.edges : MovedBy(m, smaller.edges[d]) = MovedBy(m, smaller.edges[e])})
      <= Cardinality({d \in DOMAIN bigger.edges : bigger.edges[d] = MovedBy(m, smaller.edges[e])})

\* What a subgraph is.
IsSubgraph(smaller, bigger) ==
  \E m \in {f \in [smaller.vertices -> bigger.vertices] : IsInjective(f)} : EdgesFit(m, smaller, bigger)

\* An edge f has one vertex where edge e with the same label has two.
IsFolding(e, f) ==
  /\ e.label = f.label
  /\ \E i, j \in DOMAIN e.vertices : e.vertices[i] # e.vertices[j] /\ f.vertices[i] = f.vertices[j]

\* The subgraph order may take two vertices to one, since the match finder does not notice it
\* within an edge (StdMatchFinder!OnlyInjectiveMatches).
MayFold(smaller, bigger) ==
  /\ parameters.order = "subgraph"
  /\ \E e \in Range(smaller.edges), f \in Range(bigger.edges) : IsFolding(e, f)

\* "false" is to check all pairs (LEQCheckScenario.cpp 44-45, 59-60), and stops like "true".
StopsUnasked == parameters.faststop = "false"

\* The pairs of graphs that are related by definition, and those that may be reported beside them.
PairsSuchThat(Holds(_, _)) ==
  {p \in (DOMAIN minimalGraphs) \X (DOMAIN checkGraphs) :
     Holds(minimalGraphs[p[1]], checkGraphs[p[2]])}

Related ==
  PairsSuchThat(LAMBDA smaller, bigger :
    IF parameters.order = "minor" THEN IsMinor(smaller, bigger) ELSE IsSubgraph(smaller, bigger))

MayBeFolded == PairsSuchThat(MayFold)

\* What is reported at the end are the related pairs, all of them unless the scenario stops
\* early; then it is one of them if there is one.  Only a pair with an edge that may be folded
\* onto another is reported without being related.  The totals are those of what is reported.
TotalsAreRight ==
  status = "finished" =>
    /\ represented \subseteq Related \cup MayBeFolded
    /\ IF parameters.faststop = "true" \/ StopsUnasked
       THEN Related # {} => represented # {}
       ELSE /\ Related \subseteq represented
            /\ count = Cardinality(represented)
            /\ graphCount = Cardinality({p[2] : p \in represented})

=============================================================================
