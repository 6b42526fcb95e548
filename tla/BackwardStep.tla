------------------------------ MODULE BackwardStep ------------------------------
(***************************************************************************)
(* One backward step of one rule from one graph, with the parts that       *)
(* compute it: the rule is prepared for the order, and every prepared rule *)
(* is handed with the graph to the complement enumerator of the order      *)
(* (subgraphs/SubgraphPOCEnumerator, which drops graphs with long paths if *)
(* there is a bound, or minors/MinorPOCEnumerator).  BackwardAnalysis      *)
(* takes the outcome of such steps as a parameter and assumes of it what   *)
(* is checked here.  An enumerator can also be made directly, for the      *)
(* properties of the enumeration itself.                                   *)
(***************************************************************************)
EXTENDS PartialPOCEnumerator, RulePreparers, MinorOrder

CONSTANTS
  Steps,    \* [order, rule, graph, injective, pathBound], -1 for no bound; instead of a rule
            \* a step can have a quantified one, uqRule
  Graphs    \* the graphs for which the definition is tried

\* Only the subgraph order has settings.  Every prepared rule keeps the matches the match
\* finder can be trusted with.
ASSUME StepsAssumption ==
  \A s \in Steps :
    /\ s.order \in {"subgraph", "minor"}
    /\ s.order = "minor" => ~ s.injective /\ s.pathBound = -1
    /\ s.injective /\ "rule" \in DOMAIN s =>
         \A n \in 0 .. 2^Cardinality(s.rule.right.vertices) - 1 :
           LoopsApart(WithoutNodes(s.rule, n).right, s.graph)

VARIABLES
  step,             \* the step, NoStep for an enumerator made directly
  instances,        \* the instances of a quantified rule that are still to be prepared
  predecessors      \* what the enumerators of the prepared rules returned, [graph, mapp]

stepVars == <<step, instances, predecessors, minorPreparerVars, vars>>

NoStep == [order |-> "none"]

-----------------------------------------------------------------------------
(* graphs/PathChecker: whether a graph has a path of some length, by depth *)
(* first search from every vertex.  What is marked is unmarked on the way  *)
(* back, so that each call sees the elements of its own path.              *)

RECURSIVE FindPath(_, _, _, _, _)
FindPath(graph, visited, currentVertex, currentPath, maxPath) ==
  \/ currentPath >= maxPath
  \/ \E e \in {x \in DOMAIN graph.edges \ visited : currentVertex \in Range(graph.edges[x].vertices)} :
       \E v \in Range(graph.edges[e].vertices) \ visited :
         FindPath(graph, visited \cup {e, v}, v, currentPath + 1, maxPath)

HasPathBelow(graph, length) ==
  \E v \in graph.vertices : FindPath(graph, {v}, v, 1, length)

HasPath(graph, length) ==
  \E v \in graph.vertices : FindPath(graph, {v}, v, 0, length)

-----------------------------------------------------------------------------
(* The step *)

\* The multiplicities within the bound of PreparedGTS::beginUQInstances.
Quantities(uq, bound) == {q \in [DOMAIN uq.quants -> 0..bound] : FoldFunction(+, 0, q) <= bound}

\* The instances to apply to the graph of the step, in some order; UQInstances has the
\* iterator that runs through them.
Instances(s) ==
  IF "rule" \in DOMAIN s THEN <<s.rule>>
  ELSE Mapped(LAMBDA q : CreateInstance(s.uqRule, q),
              Listed(Quantities(s.uqRule, Cardinality(Elements(s.graph)))))

StepInit ==
  /\ predecessors = {}
  /\ totalPOCs = <<>> /\ mergableEdges = <<>> /\ vertexMergings = <<>> /\ edgeMergings = <<>>
  /\ template = Unused /\ current = Unused /\ delivered = <<>>
  /\ \/ /\ step \in Steps
        /\ MinorPreparationInit(Head(Instances(step)))
        /\ instances = Tail(Instances(step))
        /\ input = <<>>
     \/ /\ step = NoStep /\ instances = <<>>
        /\ originalRule = <<>> /\ nodeDefMap = 0 /\ edgeDefMap = 0 /\ preparedRules = <<>>
        /\ partitionEnums = <<>> /\ enumedPartitions = {}
        /\ input \in Inputs

\* PreparedGTS::getOriginalRules: a prepared rule comes from the one original rule; those of
\* an instance are not known.
OriginalRules ==
  IF step.injective \/ "uqRule" \in DOMAIN step THEN {} ELSE {DOMAIN step.rule.map}

ExceedsBound(graph) == step.pathBound >= 0 /\ HasPath(graph, step.pathBound + 1)

Prepare ==
  /\ \/ /\ step.order = "subgraph"
        /\ PrepareVariant
        /\ UNCHANGED <<partitionEnums, enumedPartitions>>
     \/ step.order = "minor" /\ PrepareDeletion
     \/ step.order = "minor" /\ PrepareContraction
  /\ UNCHANGED <<step, instances, predecessors, vars>>

\* The prepared rules of one instance have been applied: the next one.
NextInstance ==
  /\ step # NoStep
  /\ IsPrepared /\ preparedRules = <<>> /\ (input # <<>> => HasEnded)
  /\ instances # <<>>
  /\ originalRule' = Head(instances) /\ nodeDefMap' = 0 /\ edgeDefMap' = 0
  /\ instances' = Tail(instances)
  /\ UNCHANGED <<step, predecessors, preparedRules, partitionEnums, enumedPartitions, vars>>

\* A new enumerator for the next prepared rule.
ResetWith ==
  /\ step # NoStep
  /\ IsPrepared /\ preparedRules # <<>>
  /\ input = <<>> \/ HasEnded
  /\ input' = [rule |-> Head(preparedRules), graph |-> step.graph,
               injective |-> step.injective, originals |-> OriginalRules]
  /\ preparedRules' = Tail(preparedRules)
  /\ totalPOCs' = <<>> /\ mergableEdges' = <<>> /\ vertexMergings' = <<>> /\ edgeMergings' = <<>>
  /\ template' = Unused /\ current' = Unused /\ delivered' = <<>>
  /\ UNCHANGED <<step, instances, predecessors, originalRule, nodeDefMap, edgeDefMap,
                 partitionEnums, enumedPartitions>>

\* A step of the enumerator; what it delivers within the bound is a predecessor.
Enumerate ==
  /\ input # <<>>
  /\ Next
  /\ predecessors' =
       IF step = NoStep \/ delivered' = delivered THEN predecessors
       ELSE LET new == Last(delivered')
            IN IF ExceedsBound(new.graph) THEN predecessors
               ELSE predecessors \cup {[graph |-> new.graph, mapp |-> new.mapp]}
  /\ UNCHANGED <<step, instances, minorPreparerVars>>

StepNext == Prepare \/ NextInstance \/ ResetWith \/ Enumerate

StepSpec == StepInit /\ [][StepNext]_stepVars

IsFinished ==
  /\ step # NoStep
  /\ IsPrepared /\ preparedRules = <<>> /\ (input # <<>> => HasEnded \/ Thrown)
  /\ instances = <<>> \/ Thrown

-----------------------------------------------------------------------------
(* Properties                                                              *)

\* The elements of a graph are given numbers.
Numbered(g) ==
  LET vertices == Listed(g.vertices)
      edges == Listed(DOMAIN g.edges)
      place(v) == CHOOSE i \in DOMAIN vertices : vertices[i] = v
  IN [vertices |-> DOMAIN vertices,
      edges |-> [e \in Len(vertices) + 1 .. Len(vertices) + Len(edges) |->
                   [g.edges[edges[e - Len(vertices)]] EXCEPT
                      !.vertices = [i \in DOMAIN @ |-> place(@[i])]]]]

\* The graph that a rule makes of h at the match m.
Rewritten(rule, h, m) == Numbered(PC!RewriteStep(rule, [graph |-> h, mapp |-> m]).graph)

MayMatch(rule, m) == IF step.injective THEN IsInjective(m) ELSE IsConflictFree(DOMAIN rule.map, m)

\* The original rule of the step, not the prepared ones, or the instances by definition of
\* those that use the quantifications up to bound times.
OriginalInstances(bound) ==
  IF "rule" \in DOMAIN step THEN {step.rule}
  ELSE {InstanceByDefinition(step.uqRule, q) : q \in Quantities(step.uqRule, bound)}

\* The matches of a rule where it may be applied.
Applications(rule, h) ==
  {m \in FindMatches(rule.left, h, step.injective) : MayMatch(rule, m) /\ CoversNeighbourhood(rule, h, m)}

\* The orders that a step is measured by: the subgraph order as it should be, without the
\* edges that SubgraphOrder takes for parts of loops (LEQCheckScenario!TotalsAreRight).
IsBelow(smaller, bigger) ==
  IF step.order = "minor" THEN IsMinorOf(smaller, bigger)
  ELSE FindMatches(smaller, bigger, TRUE) # {}

LeadsAbove(rule, h, m) == IsBelow(step.graph, Rewritten(rule, h, m))

\* What HasPath is meant to find: different vertices, joined one after the other by different edges.
IsPath(graph, vertices, edges) ==
  \A i \in DOMAIN edges :
    {vertices[i], vertices[i + 1]} \subseteq Range(graph.edges[edges[i]].vertices)

ContainsPath(graph, length) ==
  \E vertices \in {f \in [1..length + 1 -> graph.vertices] : IsInjective(f)} :
    \E edges \in {f \in [1..length -> DOMAIN graph.edges] : IsInjective(f)} :
      IsPath(graph, vertices, edges)

\* The graphs the analysis is about.
WithinBound(g) == step.pathBound < 0 \/ ~ ContainsPath(g, step.pathBound + 1)

\* Each predecessor really is one: the original rule, or an instance of it, applies to it, a
\* standard rule at the delivered mapping, and leads to a graph that is above the one the
\* step started from; and it has no path beyond the bound.
StepIsSound ==
  IsFinished =>
    \A d \in predecessors :
      /\ WithinBound(d.graph)
      /\ \E rule \in OriginalInstances(Cardinality(Elements(d.graph))) :
           \E m \in Applications(rule, d.graph) :
             /\ "rule" \in DOMAIN step => m = d.mapp
             /\ LeadsAbove(rule, d.graph, m)

\* No predecessor is missed: whenever the rule leads from some graph to one that is above
\* the graph of the step, that graph is above a predecessor or the graph of the step
\* itself.  (RulePreparer.h 35: "for the backward search to be sound and complete".)  For a
\* quantified rule it says besides that the instances within the bound are enough.
StepIsComplete ==
  IsFinished =>
    \A h \in {g \in Graphs : WithinBound(g)} :
      ~ IsBelow(step.graph, h) =>
        \A rule \in OriginalInstances(Cardinality(Elements(h))) :
          \A m \in Applications(rule, h) :
            LeadsAbove(rule, h, m) => \E d \in predecessors : IsBelow(d.graph, h)

=============================================================================
