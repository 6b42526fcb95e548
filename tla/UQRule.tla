--------------------------------- MODULE UQRule ---------------------------------
(***************************************************************************)
(* graphs/UQRule and graphs/UQRuleInstance: a main rule with universal     *)
(* quantifications, each a rule of its own that shares elements of its     *)
(* left side with the main rule.  An instance uses each quantification     *)
(* some number of times; each use glues a copy of it to the rule.  A rule  *)
(* with quantifications is a record [main, quants], a quantification a     *)
(* record [rule, match], where match takes what its left side shares to    *)
(* the left side of the main rule.                                         *)
(***************************************************************************)
EXTENDS PlainHypergraph

\* addQuantification: the vertices whose edges have to be matched as a whole.
LeftUQVertices(uq) ==
  UNION {{q.match[v] : v \in q.rule.left.vertices \cap DOMAIN q.match} : q \in Range(uq.quants)}

RightUQVertices(uq) ==
  {uq.main.map[v] : v \in LeftUQVertices(uq) \cap DOMAIN uq.main.map}

\* Only an instance has such vertices, a standard rule has none.
GetLeftUQVertices(rule) == IF "leftUQ" \in DOMAIN rule THEN rule.leftUQ ELSE {}
GetRightUQVertices(rule) == IF "rightUQ" \in DOMAIN rule THEN rule.rightUQ ELSE {}

ZeroInstance(uq) ==
  Entered(Entered(uq.main, "leftUQ", LeftUQVertices(uq)), "rightUQ", RightUQVertices(uq))

-----------------------------------------------------------------------------
(* extendRuleByUQ: the rule grows by one copy of a quantification; r2r and *)
(* l2l say where its sides went, genLeft and genRight what is new.         *)

\* The element of the main rule's left side that is mapped, with x, to an element of the
\* quantification's right side; none, or an arbitrary one of several, is no such element.
SharedPreimages(quant, y) ==
  LET preimage == Preimage(quant.rule.map, y)
  IN IF Cardinality(preimage) = 1 THEN preimage \cap DOMAIN quant.match ELSE {}

AddElement(graph, from, x, place) ==
  IF x \in from.vertices THEN AddVertex(graph)
  ELSE AddEdge(graph, from.edges[x].label, [i \in DOMAIN from.edges[x].vertices |->
                                              place[from.edges[x].vertices[i]]])

\* What the main rule keeps is shared, what it deletes has no place, and an edge at a vertex
\* without place is left out.
ExtendRight(acc, quant, y) ==
  LET qRight == quant.rule.right
      shared == {quant.match[x] : x \in SharedPreimages(quant, y)}
      kept   == shared \cap DOMAIN acc.rule.map
      fits   == y \in DOMAIN qRight.edges => Range(qRight.edges[y].vertices) \subseteq DOMAIN acc.r2r
      new    == NewID(acc.rule.right)
  IN IF shared # {}
     THEN IF kept = {} THEN acc
          ELSE [acc EXCEPT !.r2r = Entered(@, y, acc.rule.map[CHOOSE x \in kept : TRUE])]
     ELSE IF ~ fits THEN acc
     ELSE [acc EXCEPT !.rule.right = AddElement(@, qRight, y, acc.r2r),
                      !.r2r = Entered(@, y, new),
                      !.genRight = @ \cup {new}]

ExtendLeft(acc, quant, x) ==
  LET qMap  == quant.rule.map
      image == {qMap[z] : z \in {x} \cap DOMAIN qMap} \cap DOMAIN acc.r2r
      new   == NewID(acc.rule.left)
  IN [acc EXCEPT !.rule.left = AddElement(@, quant.rule.left, x, acc.l2l),
                 !.rule.map = IF image = {} THEN @
                              ELSE Entered(@, new, acc.r2r[CHOOSE y \in image : TRUE]),
                 !.l2l = Entered(@, x, new),
                 !.genLeft = @ \cup {new}]

InOrder(graph, ids) == Ascending(graph.vertices \cap ids) \o Ascending(DOMAIN graph.edges \cap ids)

ExtendAllRight(acc, quant) ==
  LET right == quant.rule.right
  IN Folded(LAMBDA a, y : ExtendRight(a, quant, y), acc, InOrder(right, Elements(right)))

ExtendAllLeft(acc, quant) ==
  LET left == quant.rule.left
  IN Folded(LAMBDA a, x : ExtendLeft(a, quant, x), acc,
            InOrder(left, Elements(left) \ DOMAIN quant.match))

ExtendRuleByUQ(rule, quant) ==
  ExtendAllLeft(
    ExtendAllRight([rule |-> rule, r2r |-> <<>>, l2l |-> quant.match,
                    genLeft |-> {}, genRight |-> {}], quant), quant)

\* The instance that uses each quantification as often as quantities says.
CreateInstance(uq, quantities) ==
  Folded(LAMBDA rule, i :
           Folded(LAMBDA acc, j : ExtendRuleByUQ(acc, uq.quants[i]).rule, rule,
                  [j \in 1..quantities[i] |-> j]),
         ZeroInstance(uq), [i \in DOMAIN uq.quants |-> i])

-----------------------------------------------------------------------------
(* UQRuleInstance::isBackApplicable, beside the test of every rule         *)

ConnEdgesCount(g, v) == Cardinality({e \in DOMAIN g.edges : v \in Range(g.edges[e].vertices)})

AtLeastItsNeighbourhood(rule, graph, match) == GetRightUQVertices(rule) \subseteq DOMAIN match

\* Counted, not compared.
MatchesWholeNeighbourhood(rule, graph, match) ==
  \A v \in GetRightUQVertices(rule) :
    v \in DOMAIN match /\ ConnEdgesCount(rule.right, v) = ConnEdgesCount(graph, match[v])

=============================================================================
