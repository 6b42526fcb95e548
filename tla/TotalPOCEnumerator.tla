-------------------------- MODULE TotalPOCEnumerator --------------------------
(***************************************************************************)
(* rule_engine/TotalPOCEnumerator: all pushout complements of a total rule *)
(* L -> R for all matches of R in a graph.  The enumerator is a record t:  *)
(* its inputs, the matches left (the current one last), the copy of L and  *)
(* the unmatched part of the graph ("original", "toGraph"), that copy      *)
(* after the edges were merged ("template"), the enumerators of what else  *)
(* can be merged, and the current complement.  t.thrown is an exception    *)
(* that leaves the enumerator.                                             *)
(***************************************************************************)
EXTENDS UQRule

-----------------------------------------------------------------------------
(* Matches (rule_engine/StdMatchFinder finds all of them) and              *)
(* isBackApplicable of AnonRule and, for the last part, of UQRuleInstance. *)

Attached(g, v) == {e \in DOMAIN g.edges : v \in Range(g.edges[e].vertices)}

IsMorphism(m, from, to) ==
  \A e \in DOMAIN from.edges :
    to.edges[m[e]] = [from.edges[e] EXCEPT !.vertices = [i \in DOMAIN @ |-> m[@[i]]]]

TooLarge(from, to, injective) ==
  injective /\ (\/ Cardinality(from.vertices) > Cardinality(to.vertices)
                \/ Cardinality(DOMAIN from.edges) > Cardinality(DOMAIN to.edges))

FindMatches(from, to, injective) ==
  IF TooLarge(from, to, injective) THEN {}
  ELSE {m \in {v @@ e : v \in [from.vertices -> to.vertices],
                        e \in [DOMAIN from.edges -> DOMAIN to.edges]} :
         IsMorphism(m, from, to) /\ (injective => IsInjective(m))}

DanglingEdges(rule, graph, match) ==
  UNION {Attached(graph, match[v]) : v \in rule.right.vertices \ Range(rule.map)} \ Range(match)

IdentifiesCreated(rule, match) ==
  \E x, y \in DOMAIN match : x # y /\ match[x] = match[y] /\ x \notin Range(rule.map)

IsBackApplicableIfDangling(rule, graph, match) ==
  ~ IdentifiesCreated(rule, match) /\ MatchesWholeNeighbourhood(rule, graph, match)

IsBackApplicable(rule, graph, match) ==
  /\ DanglingEdges(rule, graph, match) = {}
  /\ ~ IdentifiesCreated(rule, match)
  /\ MatchesWholeNeighbourhood(rule, graph, match)

Match(t) == Last(t.matchList)

-----------------------------------------------------------------------------
(* generateNonMergedPOC: L, a copy of each unmatched vertex and edge, and  *)
(* a vertex of its own for each tentacle of these edges to a matched one.  *)

AddCopy(acc, v) ==
  [acc EXCEPT !.graph = AddVertex(@), !.toGraph = (NewID(acc.graph) :> v) @@ @]

CopyVertex(acc, v) == [AddCopy(acc, v) EXCEPT !.copies = (v :> NewID(acc.graph)) @@ @]

CopyTentacle(acc, v) ==
  IF v \in DOMAIN acc.copies THEN [acc EXCEPT !.attached = Append(@, acc.copies[v])]
  ELSE [AddCopy(acc, v) EXCEPT !.attached = Append(@, NewID(acc.graph))]

CopyEdge(acc, edge) ==
  LET tentacles == FoldLeft(CopyTentacle, [acc EXCEPT !.attached = <<>>], edge.vertices)
  IN [tentacles EXCEPT !.graph = AddEdge(@, edge.label, tentacles.attached)]

GenerateNonMergedPOC(t) ==
  LET unmatched(ids) == Ascending(ids \ Range(Match(t)))
      vertices == FoldLeft(CopyVertex,
                    [graph |-> t.rule.left, toGraph |-> Concat(t.rule.map, Match(t)),
                     copies |-> <<>>, attached |-> <<>>],
                    unmatched(t.graph.vertices))
      all == FoldLeft(LAMBDA acc, e : CopyEdge(acc, t.graph.edges[e]),
                      vertices, unmatched(DOMAIN t.graph.edges))
  IN [t EXCEPT !.original = all.graph, !.toGraph = all.toGraph]

-----------------------------------------------------------------------------
(* The enumeration if neither rule nor match need be injective: of the     *)
(* elements over one of the graph all partitions that the rule glues to    *)
(* one class, first of the edges, then of the vertices.                    *)

Enumerators(ids, toGraph, glued) ==
  LET several == SelectSeq(Iterate(ids), LAMBDA x : Cardinality(Preimage(toGraph, x)) > 1)
  IN Mapped(LAMBDA class :
              NewClosures(class, {c \in glued : Cardinality(c) > 1 /\ Head(Iterate(c)) \in class}),
            Mapped(LAMBDA x : Preimage(toGraph, x), several))

InitEdgeTemplates(t) ==
  LET new == GenerateNonMergedPOC(t)
  IN [new EXCEPT !.edgeEnums =
       Enumerators(DOMAIN t.graph.edges, new.toGraph,
                   {Preimage(t.rule.map, r) : r \in DOMAIN t.rule.right.edges})]

\* A vertex of a merged edge: the rule's and the graph's side now find it in the kept edge.
MoveVertex(acc, t, old, new) ==
  [acc EXCEPT !.mapp = (old :> new) @@ @,
              !.toGraph = (new :> t.toGraph[old]) @@ Restrict(@, DOMAIN @ \ {old})]

MoveEdge(acc, t, edge, kept) ==
  FoldLeft(LAMBDA a, i : MoveVertex(a, t, t.original.edges[edge].vertices[i],
                                    acc.graph.edges[kept].vertices[i]),
           [acc EXCEPT !.mapp = (edge :> kept) @@ @],
           [i \in DOMAIN t.original.edges[edge].vertices |-> i])

MergeEdgeClass(acc, t, class) ==
  LET kept   == Kept(class)
      merged == MergeEdgeSet(acc.graph, class)
  IN IF acc.thrown \/ merged.thrown THEN [acc EXCEPT !.thrown = TRUE]
     ELSE FoldLeft(LAMBDA a, e : MoveEdge(a, t, e, kept),
            [acc EXCEPT !.graph = merged.graph,
                        !.toGraph = (kept :> t.toGraph[kept]) @@ Restrict(@, DOMAIN @ \ class)],
            Iterate(class))

\* The classes with several elements of the current partitions.
Classes(enums) ==
  FoldLeft(LAMBDA acc, e : acc \o SelectSeq(IterateClasses(Partition(e.partitions)),
                                            LAMBDA c : Cardinality(c) > 1),
           <<>>, enums)

MergedEdges(t) ==
  FoldLeft(LAMBDA acc, c : MergeEdgeClass(acc, t, c),
           [graph |-> t.original, mapp |-> [x \in Elements(t.rule.left) |-> x],
            toGraph |-> t.toGraph, thrown |-> FALSE],
           Classes(t.edgeEnums))

InitVertexTemplates(t) ==
  LET merged == MergedEdges(t)
      glued == {{merged.mapp[x] : x \in Preimage(t.rule.map, r)} : r \in t.rule.right.vertices}
  IN [t EXCEPT !.template = [graph |-> merged.graph, mapp |-> merged.mapp],
               !.thrown = merged.thrown,
               !.vertexEnums = Enumerators(t.graph.vertices, merged.toGraph, glued)]

\* Ids that are no vertices any more are left out, but a set of only such ids is refused.
MergeVertexClass(acc, t, class) ==
  LET valid == class \cap acc.graph.vertices
      moved == class \cap Range(t.template.mapp)
  IN IF acc.thrown \/ valid = {} THEN [acc EXCEPT !.thrown = TRUE]
     ELSE [acc EXCEPT !.graph = MergeVertexSet(@, valid),
                      !.mapp = [x \in moved |-> Kept(valid)] @@ @]

ComputePOC(t) ==
  IF t.thrown THEN t
  ELSE LET new == FoldLeft(LAMBDA acc, c : MergeVertexClass(acc, t, c),
                           [thrown |-> FALSE] @@ t.template, Classes(t.vertexEnums))
       IN [t EXCEPT !.current = [graph |-> new.graph, mapp |-> new.mapp], !.thrown = new.thrown]

-----------------------------------------------------------------------------
(* The enumeration if the match of L is to be injective, and the rule is   *)
(* not: nothing of L is merged, and each tentacle ends at one of the       *)
(* vertices of L over the vertex it came from.                             *)

AttachTentacles(t) ==
  LET several == SelectSeq(Iterate(t.graph.vertices), LAMBDA x : Cardinality(Preimage(t.toGraph, x)) > 1)
      withPre(x)    == Preimage(t.toGraph, x) \cap DOMAIN t.rule.map
      withoutPre(x) == Preimage(t.toGraph, x) \ DOMAIN t.rule.map
      single(x) == Cardinality(withPre(x)) = 1
  IN [t EXCEPT
       !.original = FoldLeft(LAMBDA g, x : MergeInto(g, CHOOSE v \in withPre(x) : TRUE, withoutPre(x)),
                             @, SelectSeq(several, single)),
       !.targetEnums = FoldLeft(
          LAMBDA acc, x : acc \o Mapped(LAMBDA v : NewTargets(v, withPre(x)), Iterate(withoutPre(x))),
          <<>>, SelectSeq(several, LAMBDA x : ~ single(x)))]

InitTemplatesInj(t) == AttachTentacles(GenerateNonMergedPOC(t))

ComputePOCInj(t) ==
  [t EXCEPT !.current =
     [graph |-> FoldLeft(LAMBDA g, e : MergeVertices(g, Target(e), e.source), t.original, t.targetEnums),
      mapp  |-> [x \in Elements(t.rule.left) |-> x]]]

-----------------------------------------------------------------------------
(* The one complement of a match if the rule is injective: the graph       *)
(* without what the rule creates.                                          *)

Without(g, ids) ==
  FoldSet(LAMBDA x, acc : IF x \in acc.vertices THEN DeleteVertex(acc, x) ELSE DeleteEdge(acc, x),
          g, ids)

ComputePOCInjRule(t) ==
  LET created == {Match(t)[r] : r \in DOMAIN Match(t) \ Range(t.rule.map)}
  IN [t EXCEPT !.current = [graph |-> Without(t.graph, created),
                            mapp  |-> Concat(t.rule.map, Match(t))]]

-----------------------------------------------------------------------------
(* reset and operator++ *)

FirstPOC(t) ==
  CASE t.matchList = <<>>      -> [t EXCEPT !.current = <<>>]
    [] IsInjective(t.rule.map) -> ComputePOCInjRule(t)
    [] t.injective             -> ComputePOCInj(InitTemplatesInj(t))
    [] OTHER                   -> ComputePOC(InitVertexTemplates(InitEdgeTemplates(t)))

NextMatch(t) ==
  FirstPOC([t EXCEPT !.matchList = Front(@), !.edgeEnums = <<>>, !.vertexEnums = <<>>,
                     !.targetEnums = <<>>, !.original = <<>>, !.template = <<>>, !.toGraph = <<>>])

TotalPOCs(rule, graph, injective) ==
  FirstPOC(
    [rule |-> rule, graph |-> graph, injective |-> injective,
     matchList |-> Listed({m \in FindMatches(rule.right, graph, injective) :
                             IsBackApplicable(rule, graph, m)}),
     original |-> <<>>, toGraph |-> <<>>, template |-> <<>>, edgeEnums |-> <<>>,
     vertexEnums |-> <<>>, targetEnums |-> <<>>, current |-> <<>>, thrown |-> FALSE])

NextTotalPOC(t) ==
  LET vertices == IncClosures(t.vertexEnums)
      edges    == IncClosures(t.edgeEnums)
      targets  == IncTargets(t.targetEnums)
  IN CASE vertices.more -> ComputePOC([t EXCEPT !.vertexEnums = vertices.enums])
       [] edges.more    -> ComputePOC(InitVertexTemplates([t EXCEPT !.edgeEnums = edges.enums]))
       [] targets.more  -> ComputePOCInj([t EXCEPT !.targetEnums = targets.enums])
       [] OTHER         -> NextMatch(t)

Exhausted(t) == t.matchList = <<>>

=============================================================================
