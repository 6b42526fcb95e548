------------------------- MODULE PartialPOCEnumerator -------------------------
(***************************************************************************)
(* rule_engine/PartialPOCEnumerator: the pushout complements of a partial  *)
(* rule, one per increment.  The rule is split into the part that deletes  *)
(* and a total one; each complement of the total one gets back what was    *)
(* deleted, in every way to merge the deleted vertices and then the        *)
(* deleted edges that are parallel.  Complements that conflict with every  *)
(* one of the original rules are stepped over.                             *)
(***************************************************************************)
EXTENDS TotalPOCEnumerator

CONSTANT Inputs   \* the rules, graphs and settings an enumerator is made for

InputFields == {"rule", "graph", "injective", "originals"}

\* No edge can be matched to a loop by a search that is to be injective: the match finder
\* would not notice (StdMatchFinder!OnlyInjectiveMatches), FindMatches leaves such matches out.
LoopsApart(right, graph) ==
  Cardinality(right.vertices) <= Cardinality(graph.vertices) =>
    \A e \in DOMAIN right.edges, f \in DOMAIN graph.edges :
      right.edges[e].label = graph.edges[f].label /\ IsInjective(right.edges[e].vertices)
        => IsInjective(graph.edges[f].vertices)

ASSUME InputsAssumption ==
  \A i \in Inputs :
    /\ DOMAIN i = InputFields
    /\ i.injective \in BOOLEAN
    /\ i.injective => LoopsApart(i.rule.right, i.graph)
    /\ i.originals \subseteq SUBSET Elements(i.rule.left)
    /\ DOMAIN i.rule.map \subseteq Elements(i.rule.left)
    /\ Range(i.rule.map) \subseteq Elements(i.rule.right)

VARIABLES
  input,            \* with what the enumerator was made
  totalPOCs,        \* the enumerator for the total part, <<>> before reset
  template,         \* the complement with all that was deleted, nothing of it merged
  mergableEdges,    \* the edges that were added again
  vertexMergings,   \* the enumerator of the partitions of the vertices added again
  edgeMergings,     \* those of the partitions of parallel edges added again
  current,          \* the current complement and the mapping of the left side into it
  delivered         \* what was returned so far: [match, graph, mapp]

vars == <<input, totalPOCs, template, mergableEdges, vertexMergings, edgeMergings,
          current, delivered>>

-----------------------------------------------------------------------------
(* AnonRule::fillSplitRule *)

Kernel(g, ids) == [vertices |-> g.vertices \cap ids,
                   edges |-> Restrict(g.edges, DOMAIN g.edges \cap ids),
                   lastUsedID |-> g.lastUsedID]

TotalPart(rule) == [rule EXCEPT !.left = Kernel(@, DOMAIN rule.map)]

Deleted(rule) == Elements(rule.left) \ DOMAIN rule.map

-----------------------------------------------------------------------------
(* genTemplates *)

AddDeletedVertex(acc, v) ==
  [acc EXCEPT !.graph = AddVertex(@), !.mapp = (v :> NewID(acc.graph)) @@ @,
              !.vertices = @ \cup {NewID(acc.graph)}]

\* addEdge refuses vertices that are not in the graph.
AddDeletedEdge(acc, edge, e) ==
  LET newVertices == [i \in DOMAIN edge.vertices |-> acc.mapp[edge.vertices[i]]]
  IN IF acc.thrown \/ ~ Range(newVertices) \subseteq acc.graph.vertices
     THEN [acc EXCEPT !.thrown = TRUE]
     ELSE [acc EXCEPT !.graph = AddEdge(@, edge.label, newVertices),
                      !.mapp = (e :> NewID(acc.graph)) @@ @,
                      !.edges = Append(@, NewID(acc.graph))]

Template(rule, t) ==
  LET left == rule.left
      vertices == FoldLeft(AddDeletedVertex,
                    [graph |-> t.current.graph, mapp |-> t.current.mapp,
                     vertices |-> {}, edges |-> <<>>, thrown |-> FALSE],
                    Ascending(left.vertices \cap Deleted(rule)))
  IN FoldLeft(LAMBDA acc, e : AddDeletedEdge(acc, left.edges[e], e),
              vertices, Ascending(DOMAIN left.edges \cap Deleted(rule)))

-----------------------------------------------------------------------------
(* mergeNodes, prepEdgeMergings, mergeEdges *)

Redirect(mapp, class, kept) ==
  [x \in DOMAIN mapp |-> IF mapp[x] \in class THEN kept ELSE mapp[x]]

MergeNodes(from, partition) ==
  FoldSet(LAMBDA c, acc : [graph |-> MergeVertexSet(acc.graph, c),
                           mapp  |-> Redirect(acc.mapp, c, Kept(c))],
          [graph |-> from.graph, mapp |-> from.mapp], {c \in partition : Cardinality(c) > 1})

\* One enumerator for each set of several edges of one label with the same vertices.
ParallelMergings(graph, edges) ==
  LET parallel(e) == {f \in Range(edges) : graph.edges[f] = graph.edges[e]}
      isFirst(e) == Cardinality(parallel(e)) > 1 /\ \A f \in parallel(e) : e <= f
  IN Mapped(LAMBDA e : NewPartitions(parallel(e)), SelectSeq(edges, isFirst))

\* Of parallel edges all but the first are deleted.
MergeParallel(acc, class) ==
  LET first == Head(Iterate(class))
  IN [graph |-> FoldSet(LAMBDA e, g : DeleteEdge(g, e), acc.graph, class \ {first}),
      mapp  |-> Redirect(acc.mapp, class, first)]

MergeParallelEdges(from, enums) ==
  FoldLeft(LAMBDA acc, e : FoldSet(LAMBDA c, a : MergeParallel(a, c), acc,
                                   {c \in Partition(e) : Cardinality(c) > 1}),
           from, enums)

-----------------------------------------------------------------------------
(* cfWrtOriginalRule: no two elements of which the original rule deletes   *)
(* one have become one, for one of the original rules at least.            *)

IsConflictFree(defined, mapp) ==
  \A x, y \in DOMAIN mapp : mapp[x] = mapp[y] => (x \in defined <=> y \in defined)

CfWrtOriginalRule(mapp) ==
  input.originals # {} => \E defined \in input.originals : IsConflictFree(defined, mapp)

Accepted(mapp) == input.injective \/ CfWrtOriginalRule(mapp)

\* The new current complement; operator++ returns it or steps on.
Deliver(complement) ==
  \E new \in {complement} :
  /\ current' = new
  /\ delivered' = IF Accepted(new.mapp)
                  THEN Append(delivered, [match |-> Match(totalPOCs'), graph |-> new.graph,
                                          mapp |-> new.mapp])
                  ELSE delivered

-----------------------------------------------------------------------------
(* The steps of the enumeration: those of getNext, and reset.              *)

Unused == [graph |-> <<>>, mapp |-> <<>>]

Init ==
  /\ input \in Inputs
  /\ totalPOCs = <<>>
  /\ template = Unused
  /\ mergableEdges = <<>>
  /\ vertexMergings = <<>>
  /\ edgeMergings = <<>>
  /\ current = Unused
  /\ delivered = <<>>

Thrown == totalPOCs # <<>> /\ totalPOCs.thrown

HasEnded == totalPOCs # <<>> /\ Exhausted(totalPOCs)

NoTemplates ==
  /\ template' = Unused
  /\ mergableEdges' = <<>>
  /\ vertexMergings' = <<>>
  /\ edgeMergings' = <<>>
  /\ current' = Unused
  /\ UNCHANGED delivered

\* An exception while the templates are made leaves the enumerator as well.
GenTemplates(t, new) ==
  LET vertices == NewPartitions(new.vertices)
      merged   == MergeNodes(new, Partition(vertices))
  IN /\ totalPOCs' = t
     /\ template' = [graph |-> new.graph, mapp |-> new.mapp]
     /\ mergableEdges' = new.edges
     /\ IF input.injective
        THEN /\ vertexMergings' = <<>>
             /\ edgeMergings' = <<>>
             /\ Deliver(template')
        ELSE /\ vertexMergings' = vertices
             /\ edgeMergings' = ParallelMergings(merged.graph, new.edges)
             /\ Deliver(MergeParallelEdges(merged, edgeMergings'))

Stop(t) == totalPOCs' = t /\ NoTemplates

Continue(totals) ==
  \E t \in {totals} :
    IF Exhausted(t) \/ t.thrown THEN Stop(t)
    ELSE \E new \in {Template(input.rule, t)} :
           IF new.thrown THEN Stop([t EXCEPT !.thrown = TRUE]) ELSE GenTemplates(t, new)

Working == totalPOCs # <<>> /\ ~ Thrown /\ ~ HasEnded

Reset ==
  /\ totalPOCs = <<>>
  /\ Continue(TotalPOCs(TotalPart(input.rule), input.graph, input.injective))
  /\ UNCHANGED input

NextEdgeMerging ==
  /\ Working
  /\ IncPartitions(edgeMergings).more
  /\ edgeMergings' = IncPartitions(edgeMergings).enums
  /\ UNCHANGED <<input, totalPOCs, template, mergableEdges, vertexMergings>>
  /\ Deliver(MergeParallelEdges(MergeNodes(template, Partition(vertexMergings)), edgeMergings'))

NextVertexMerging ==
  /\ Working
  /\ ~ input.injective
  /\ ~ IncPartitions(edgeMergings).more
  /\ ~ Ended(NextPartition(vertexMergings))
  /\ vertexMergings' = NextPartition(vertexMergings)
  /\ UNCHANGED <<input, totalPOCs, template, mergableEdges>>
  /\ LET merged == MergeNodes(template, Partition(vertexMergings'))
     IN /\ edgeMergings' = ParallelMergings(merged.graph, mergableEdges)
        /\ Deliver(MergeParallelEdges(merged, edgeMergings'))

NextTotal ==
  /\ Working
  /\ ~ IncPartitions(edgeMergings).more
  /\ ~ input.injective => Ended(NextPartition(vertexMergings))
  /\ Continue(NextTotalPOC(totalPOCs))
  /\ UNCHANGED input

Next == Reset \/ NextEdgeMerging \/ NextVertexMerging \/ NextTotal

Spec == Init /\ [][Next]_vars

-----------------------------------------------------------------------------
(* Properties                                                              *)

PC == INSTANCE PushoutComplements

(***************************************************************************)
(* What an instance of a quantified rule is meant to be, as a quotient:    *)
(* the main rule and the copies beside each other, <<0, 0, x>> and         *)
(* <<i, j, x>>, glued along what the quantifications share.                *)
(***************************************************************************)
InstanceByDefinition(uq, quantities) ==
  LET copies == {<<0, 0>>} \cup {<<i, j>> : i \in DOMAIN uq.quants, j \in 1..Max(Range(quantities) \cup {0})}
      used == {c \in copies : c[1] = 0 \/ c[2] <= quantities[c[1]]}
      part(c) == IF c[1] = 0 THEN [rule |-> uq.main, match |-> <<>>] ELSE uq.quants[c[1]]
      named(c, x) == <<c[1], c[2], x>>
      own(c, ids) == ids \ DOMAIN part(c).match
      leftOf(c, x) == IF x \in DOMAIN part(c).match THEN <<0, 0, part(c).match[x]>> ELSE named(c, x)
      sharing(c, y) == {x \in DOMAIN part(c).match \cap DOMAIN part(c).rule.map : part(c).rule.map[x] = y}
      rightOf(c, y) == IF sharing(c, y) = {} THEN {named(c, y)}
                       ELSE {<<0, 0, uq.main.map[x]>> :
                               x \in {part(c).match[z] : z \in sharing(c, y)} \cap DOMAIN uq.main.map}
      thePlace(c, y) == CHOOSE x \in rightOf(c, y) : TRUE
      leftEdges == UNION {{<<c, e>> : e \in own(c, DOMAIN part(c).rule.left.edges)} : c \in used}
      rightEdges == UNION {{<<c, e>> : e \in {f \in DOMAIN part(c).rule.right.edges :
                       sharing(c, f) = {} /\ \A v \in Range(part(c).rule.right.edges[f].vertices) :
                                               rightOf(c, v) # {}}} : c \in used}
      key(k, pairs) == CHOOSE p \in pairs : named(p[1], p[2]) = k
      left == [vertices |-> UNION {{leftOf(c, v) : v \in part(c).rule.left.vertices} : c \in used},
               edges |-> [k \in {named(p[1], p[2]) : p \in leftEdges} |->
                  LET p == key(k, leftEdges) IN [part(p[1]).rule.left.edges[p[2]] EXCEPT
                    !.vertices = [i \in DOMAIN @ |-> leftOf(p[1], @[i])]]]]
      right == [vertices |-> UNION {UNION {rightOf(c, v) : v \in part(c).rule.right.vertices} : c \in used},
                edges |-> [k \in {named(p[1], p[2]) : p \in rightEdges} |->
                  LET p == key(k, rightEdges) IN [part(p[1]).rule.right.edges[p[2]] EXCEPT
                    !.vertices = [i \in DOMAIN @ |-> thePlace(p[1], @[i])]]]]
      mapped == UNION {{<<c, x>> : x \in {z \in own(c, DOMAIN part(c).rule.map) :
                          rightOf(c, part(c).rule.map[z]) \cap Elements(right) # {}}} : c \in used}
  IN [left |-> left, right |-> right,
      map |-> [k \in {named(p[1], p[2]) : p \in mapped} |->
                 LET p == key(k, mapped) IN thePlace(p[1], part(p[1]).rule.map[p[2]])],
      leftUQ |-> {<<0, 0, v>> : v \in LeftUQVertices(uq)}]

\* The instance may be applied at a match if it takes with it every edge at such a vertex.
CoversNeighbourhood(instance, graph, match) ==
  \A v \in GetLeftUQVertices(instance), e \in DOMAIN graph.edges :
    match[v] \in Range(graph.edges[e].vertices) => e \in Range(match)

\* Soundness of one backward step: each delivered graph, rewritten with the rule along the
\* delivered mapping, gives the graph the enumerator was made for, with the match it used.
EveryComplementRewrites ==
  \A i \in {Len(delivered)} \ {0} :
    PC!Isomorphic(PC!RewriteStep(input.rule, delivered[i]),
                  [graph |-> input.graph, mapp |-> delivered[i].match])

\* Completeness and no repetition (TotalPOCEnumerator.h 33, PartialPOCEnumerator.h): when the
\* enumerator has ended, it has delivered for each match of R exactly the complements that
\* the definition allows, each as often as the definition has it up to isomorphism.
AllComplementsFound ==
  HasEnded \/ Thrown =>
    \A m \in FindMatches(input.rule.right, input.graph, input.injective) :
      LET found == {i \in DOMAIN delivered : delivered[i].match = m}
          wanted == {c \in PC!Complements(input, m) : CoversNeighbourhood(input.rule, c.graph, c.mapp)}
      IN /\ Cardinality(found) = Cardinality(wanted)
         /\ \A c \in wanted :
              Cardinality({i \in found : PC!Isomorphic(delivered[i], c)})
                = Cardinality({d \in wanted : PC!Isomorphic(d, c)})

\* TotalPOCEnumerator.h 88: the mapping that is returned goes from L to the complement.
MappingIsIntoComplement ==
  \A i \in DOMAIN delivered : Range(delivered[i].mapp) \subseteq Elements(delivered[i].graph)

\* The place of the enumeration, what changes least often first.
Position ==
  LET t == totalPOCs
  IN <<-Len(t.matchList)>>
     \o Reverse(Mapped(LAMBDA e : e.partitions.current, t.edgeEnums))
     \o Reverse(Mapped(LAMBDA e : e.partitions.current, t.vertexEnums))
     \o Reverse(Mapped(LAMBDA e : e.iter, t.targetEnums))
     \o (IF vertexMergings = <<>> THEN <<>> ELSE <<vertexMergings.current>>)
     \o Reverse(Mapped(LAMBDA e : e.current, edgeMergings))

Later(p, q) ==
  \E i \in DOMAIN p \cap DOMAIN q : p[i] > q[i] /\ \A j \in 1..(i - 1) : p[j] = q[j]

\* The five nested enumerators (incEnums, incEdgeMergings, getNext) form one odometer that
\* only goes forward: none of them is reset without a higher one moving on, so it ends.
EnumerationAdvances == [][Working /\ Working' => Later(Position', Position)]_vars

=============================================================================
