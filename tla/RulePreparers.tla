----------------------------- MODULE RulePreparers -----------------------------
(***************************************************************************)
(* subgraphs/SubgraphRulePreparer: from a rule L -> R all rules L -> R ->  *)
(* S, where S is what a deletion of vertices, with their edges, and then   *)
(* of remaining edges leaves of R.  Two counters run through the subsets,  *)
(* one binary digit for each vertex or edge; no-op rules are not stored.   *)
(*                                                                         *)
(* minors/MinorRulePreparer: all rules L -> R -> S where S is a minor of   *)
(* R.  The counters are in a copy of the code; for each of their values    *)
(* one enumerator per deleted edge runs through the ways to contract it    *)
(* instead.                                                                *)
(***************************************************************************)
EXTENDS UQRule

VARIABLES
  originalRule,    \* the rule to prepare
  nodeDefMap,      \* whose digits say which vertices are deleted
  edgeDefMap,      \* whose digits say which remaining edges are deleted
  preparedRules    \* what was stored by the callback

preparerVars == <<originalRule, nodeDefMap, edgeDefMap, preparedRules>>

\* The elements whose digit is set.
Chosen(defMap, elements) ==
  {elements[i] : i \in {j \in DOMAIN elements : (defMap \div 2^(j - 1)) % 2 = 1}}

\* createRuleFrom: an instance of a quantified rule stays one.
CreateRuleFrom(rule, newRight, newMapping) ==
  [f \in DOMAIN rule |-> CASE f = "right"   -> newRight
                           [] f = "map"     -> newMapping
                           [] f = "rightUQ" -> rule.rightUQ \cap newRight.vertices
                           [] OTHER         -> rule[f]]

\* A vertex goes with its edges, and both with what is mapped to them.
WithoutNodes(rule, defMap) ==
  LET newRight == FoldSet(LAMBDA v, g : DeleteVertex(g, v), rule.right,
                          Chosen(defMap, Ascending(rule.right.vertices)))
  IN CreateRuleFrom(rule, newRight, DelTar(rule.map, Elements(rule.right) \ Elements(newRight)))

WithoutEdges(rule, defMap) ==
  LET deletedElem == Chosen(defMap, Ascending(DOMAIN rule.right.edges))
  IN [rule EXCEPT !.right = FoldSet(LAMBDA e, g : DeleteEdge(g, e), @, deletedElem),
                  !.map = DelTar(@, deletedElem)]

\* The edges of the right side are not looked at.
IsNoOpRuleButForEdges(rule) ==
  IsInjective(rule.map) /\ rule.right.vertices \subseteq Range(rule.map)

\* Injective and onto the right side: what it leads back to is above what it started from.
IsNoOpRule(rule) ==
  IsInjective(rule.map) /\ Elements(rule.right) \subseteq Range(rule.map)

PreparationInit(rule) ==
  /\ originalRule = rule
  /\ nodeDefMap = 0
  /\ edgeDefMap = 0
  /\ preparedRules = <<>>

IsPrepared == nodeDefMap = 2^Cardinality(originalRule.right.vertices)

\* One round of the inner loop of prepareRule, and of the outer one after the last.
PrepareVariant ==
  LET smaller == WithoutNodes(originalRule, nodeDefMap)
      newRule == WithoutEdges(smaller, edgeDefMap)
  IN /\ ~ IsPrepared
     /\ preparedRules' = IF IsNoOpRule(newRule) THEN preparedRules
                         ELSE Append(preparedRules, newRule)
     /\ IF edgeDefMap + 1 < 2^Cardinality(DOMAIN smaller.right.edges)
        THEN edgeDefMap' = edgeDefMap + 1 /\ UNCHANGED nodeDefMap
        ELSE edgeDefMap' = 0 /\ nodeDefMap' = nodeDefMap + 1
     /\ UNCHANGED originalRule

-----------------------------------------------------------------------------
(* The rules for the minor order                                           *)

VARIABLES
  partitionEnums,      \* the contractions of the deleted edges, <<>> before the first
  enumedPartitions     \* the partitions they have led to so far

minorPreparerVars == <<preparerVars, partitionEnums, enumedPartitions>>

MinorPreparationInit(rule) ==
  /\ PreparationInit(rule)
  /\ partitionEnums = <<>>
  /\ enumedPartitions = {}

-----------------------------------------------------------------------------
(* generateIDEnumerator *)

\* Only an edge with two vertices that stay can be contracted.
IDEnumerators(right, genFrom, delVertices) ==
  LET mergeable(e) == Range(right.edges[e].vertices) \ delVertices
  IN Mapped(LAMBDA e : NewPartitions(mergeable(e)),
            SelectSeq(Iterate(genFrom), LAMBDA e : Cardinality(mergeable(e)) > 1))

\* The edges of deleted vertices are listed twice.
PartitionEnums ==
  LET right   == originalRule.right
      smaller == WithoutNodes(originalRule, nodeDefMap).right
      deletedEdges == DOMAIN right.edges \ DOMAIN smaller.edges
      additional == DOMAIN right.edges
                      \ DOMAIN WithoutEdges(WithoutNodes(originalRule, nodeDefMap), edgeDefMap).right.edges
      generate(edges) == IDEnumerators(right, edges, right.vertices \ smaller.vertices)
  IN generate(deletedEdges) \o generate(additional)

-----------------------------------------------------------------------------
(* The rule for one contraction                                            *)

FinalPartition(enums) ==
  FoldLeft(LAMBDA acc, e : Closure(acc, Partition(e)), Partition(Head(enums)), Tail(enums))

\* The first vertex of a class stays; what was mapped to another one is mapped to it.
ContractClass(rule, class) ==
  LET first == Head(Iterate(class))
  IN [rule EXCEPT !.right = MergeInto(@, first, class \ {first}),
                  !.map = [x \in DOMAIN @ |-> IF @[x] \in class THEN first ELSE @[x]]]

Contracted(rule, partition) == FoldSet(LAMBDA c, acc : ContractClass(acc, c), rule, partition)

-----------------------------------------------------------------------------
(* isNoOpRule: S is a minor of what the rule leaves of L.                  *)

RECURSIVE ReachedByContraction(_, _, _)
ReachedByContraction(rule, within, found) ==
  LET contracted == {e \in DOMAIN rule.left.edges \ DOMAIN rule.map :
                       Range(rule.left.edges[e].vertices) \cap found # {}}
      next == found \cup UNION {Range(rule.left.edges[e].vertices) \cap within : e \in contracted}
  IN IF next = found THEN found ELSE ReachedByContraction(rule, within, next)

IsNoOpMinorRuleUnconnected(rule) ==
  /\ Elements(rule.right) \subseteq Range(rule.map)
  /\ \A e \in DOMAIN rule.right.edges : Cardinality(Preimage(rule.map, e)) = 1

IsNoOpMinorRule(rule) ==
  /\ Elements(rule.right) \subseteq Range(rule.map)
  /\ \A e \in DOMAIN rule.right.edges : Cardinality(Preimage(rule.map, e)) = 1
  /\ \A x \in Range(rule.map) :
       LET glued == Preimage(rule.map, x)
       IN Cardinality(glued) >= 2 =>
            ReachedByContraction(rule, glued, {Head(Iterate(glued))}) = glued

-----------------------------------------------------------------------------
(* prepareRule *)

Store(newRule) ==
  preparedRules' = IF IsNoOpMinorRule(newRule) THEN preparedRules
                   ELSE Append(preparedRules, newRule)

\* The digits for the edges, then those for the vertices.
NextDeletion ==
  LET remaining == DOMAIN WithoutNodes(originalRule, nodeDefMap).right.edges
  IN /\ IF edgeDefMap + 1 < 2^Cardinality(remaining)
        THEN edgeDefMap' = edgeDefMap + 1 /\ UNCHANGED nodeDefMap
        ELSE edgeDefMap' = 0 /\ nodeDefMap' = nodeDefMap + 1
     /\ partitionEnums' = <<>>
     /\ enumedPartitions' = {}

WithoutElements == WithoutEdges(WithoutNodes(originalRule, nodeDefMap), edgeDefMap)

PrepareDeletion ==
  /\ ~ IsPrepared
  /\ partitionEnums = <<>> /\ PartitionEnums = <<>>
  /\ Store(WithoutElements)
  /\ NextDeletion
  /\ UNCHANGED originalRule

\* One round of the loop over contractions; a partition that came up before is left out.
PrepareContraction ==
  LET enums == IF partitionEnums = <<>> THEN PartitionEnums ELSE partitionEnums
      partition == FinalPartition(enums)
      next == IncPartitions(enums)
  IN /\ ~ IsPrepared
     /\ enums # <<>>
     /\ IF partition \in enumedPartitions THEN UNCHANGED preparedRules
        ELSE Store(Contracted(WithoutElements, partition))
     /\ IF next.more
        THEN /\ partitionEnums' = next.enums
             /\ enumedPartitions' = enumedPartitions \cup {partition}
             /\ UNCHANGED <<nodeDefMap, edgeDefMap>>
        ELSE NextDeletion
     /\ UNCHANGED originalRule

=============================================================================
