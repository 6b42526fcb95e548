--------------------------- MODULE GTXLReaderXerces ---------------------------
(***************************************************************************)
(* io/GTXLReaderXerces: graphs and transformation systems from documents,  *)
(* without warnings, as every scenario reads them.  A reading carries what *)
(* was read so far and an error: "none", "XMLioException", or what the     *)
(* code does not expect, "out_of_range" (Mapping::getTar of an element     *)
(* that is not mapped) and "null" (a pointer that was never set).          *)
(***************************************************************************)
EXTENDS GTXLWriterXerces

EmptyGraph == [vertices |-> {}, edges |-> <<>>, lastUsedID |-> 0, name |-> ""]

Fail(reading, error) == [reading EXCEPT !.error = error]

XMLioException(reading) == Fail(reading, "XMLioException")

-----------------------------------------------------------------------------
(* Graphs.  strToID takes all XML ids to elements, nodeIDList only those   *)
(* of vertices.                                                            *)

EmptyReading ==
  [graph |-> EmptyGraph, strToID |-> <<>>, nodeIDList |-> <<>>, error |-> "none"]

ReadNode(reading, node) ==
  LET id == node.attributes.id
      new == NewID(reading.graph)
  IN IF ~ HasAttribute(node, "id") \/ id \in DOMAIN reading.nodeIDList
     THEN XMLioException(reading)
     ELSE [reading EXCEPT !.graph = AddVertex(@), !.nodeIDList = Entered(@, id, new),
                          !.strToID = Entered(@, id, new)]

\* The last string of an attr node counts, but more than one give the empty label.
ReadLabel(element) ==
  LET next(label, strings) == CASE Len(strings) > 1 -> ""
                                [] Len(strings) = 1 /\ strings[1].text # <<>> -> strings[1].text[1]
                                [] OTHER -> label
  IN Folded(LAMBDA label, attr : next(label, Children(attr, "string")), "", Attrs(element, "label"))

IsNewID(reading, element) ==
  HasAttribute(element, "id") /\ element.attributes.id \notin DOMAIN reading.strToID

StoreEdge(reading, element, attached) ==
  [reading EXCEPT
     !.graph = AddEdge(@, ReadLabel(element), [i \in DOMAIN attached |-> reading.nodeIDList[attached[i]]]),
     !.strToID = Entered(@, element.attributes.id, NewID(reading.graph))]

\* A directed edge from one node to another.
ReadEdge(reading, edge) ==
  IF /\ IsNewID(reading, edge)
     /\ \A a \in {"from", "to"} :
          HasAttribute(edge, a) /\ edge.attributes[a] \in DOMAIN reading.nodeIDList
  THEN StoreEdge(reading, edge, <<edge.attributes.from, edge.attributes.to>>)
  ELSE XMLioException(reading)

\* The order of the tentacles is that of their numbers, which have to be 0, 1, ...; a number
\* that is none is -1.
OrderedFromZero(relends) ==
  {relends[i].attributes.startorder : i \in DOMAIN relends} = 0 .. Len(relends) - 1

GoodTentacles(reading, relends) ==
  /\ \A i \in DOMAIN relends :
       /\ HasAttribute(relends[i], "target") /\ HasAttribute(relends[i], "startorder")
       /\ relends[i].attributes.target \in DOMAIN reading.nodeIDList
  /\ OrderedFromZero(relends)

ReadRel(reading, rel) ==
  LET targets(relends) ==
        [k \in DOMAIN relends |->
           (CHOOSE r \in Range(relends) : r.attributes.startorder = k - 1).attributes.target]
  IN IF IsNewID(reading, rel) /\ GoodTentacles(reading, Children(rel, "relend"))
     THEN StoreEdge(reading, rel, targets(Children(rel, "relend")))
     ELSE XMLioException(reading)

\* The attr nodes with this name whose first child may hold the value; the last one counts.
AttrChildren(root, a, tag) ==
  Mapped(LAMBDA attr : attr.children[1],
         SelectSeq(Attrs(root, a), LAMBDA attr : attr.children # <<>> /\ attr.children[1].name = tag))

ReadName(root) ==
  Folded(LAMBDA name, c : IF c.text = <<>> THEN "" ELSE c.text[1], "", AttrChildren(root, "name", "string"))

\* Only a number is an id.
ReadOldID(root, none) ==
  Folded(LAMBDA id, c : IF c.text = <<>> THEN id ELSE c.text[1], none, AttrChildren(root, "id", "int"))

ReadNodes(root) == Each(ReadNode, EmptyReading, Children(root, "node"))

ReadEdges(root) == Each(ReadEdge, ReadNodes(root), Children(root, "edge"))

ReadRels(root) == Each(ReadRel, ReadEdges(root), Children(root, "rel"))

ReadAnonHypergraph(root) ==
  IF HasAttribute(root, "edgeids") /\ root.attributes.edgeids = "true"
  THEN [ReadRels(root) EXCEPT !.graph.name = ReadName(root)]
  ELSE XMLioException(EmptyReading)

\* With the next id of a graph, and the id that it had in the file if there is one.
NumberGraph(reading, read, oldID) ==
  IF read.error # "none" THEN Fail(reading, read.error)
  ELSE [reading EXCEPT !.graphs = Append(@, read.graph @@ [id |-> reading.nextID]),
                       !.nextID = @ + 1,
                       !.oldIDs = IF oldID < 0 THEN @ ELSE (reading.nextID :> oldID) @@ @]

ReadHypergraph(reading, root) == NumberGraph(reading, ReadAnonHypergraph(root), ReadOldID(root, -1))

NoGraphs(nextID) == [graphs |-> <<>>, nextID |-> nextID, oldIDs |-> <<>>, error |-> "none"]

\* files is the file system; a file that is missing or no XML makes the parser's handler throw.
ReadGXL(files, filename, nextID) ==
  IF filename \notin DOMAIN files \/ files[filename].name # "gxl"
  THEN XMLioException(NoGraphs(nextID))
  ELSE Each(ReadHypergraph, NoGraphs(nextID), Children(files[filename], "graph"))

-----------------------------------------------------------------------------
(* Rules.  Each side has its graph, its XML ids and its quantifications;   *)
(* a quantification without elements leaves no trace.                      *)

ReadElem(side, quantID, elem) ==
  LET ref == elem.attributes.ref
      known == IF quantID \in DOMAIN side.quantMap THEN side.quantMap[quantID] ELSE {}
  IN IF ~ HasAttribute(elem, "ref") THEN side
     ELSE IF ref \notin DOMAIN side.strToID THEN XMLioException(side)
     ELSE [side EXCEPT !.quantMap = Entered(@, quantID, known \cup {side.strToID[ref]})]

ReadQuantMap(side, root) ==
  LET quantID == IF HasAttribute(root, "id") THEN root.attributes.id ELSE -1
  IN Each(LAMBDA acc, elem : ReadElem(acc, quantID, elem), side, Children(root, "elem"))

EmptySide ==
  [isSet |-> FALSE, graph |-> EmptyGraph, strToID |-> <<>>, quantMap |-> <<>>, error |-> "none"]

\* A graph replaces the one before it, the quantifications stay.
SideWith(side, read) ==
  [side EXCEPT !.isSet = TRUE, !.graph = read.graph, !.strToID = read.strToID, !.error = read.error]

ReadPartOfSide(side, c) ==
  CASE c.name = "graph" -> SideWith(side, ReadAnonHypergraph(c))
    [] c.name = "quantification" -> ReadQuantMap(side, c)
    [] OTHER -> side

ReadRulegraph(side, rulegraph) == Each(ReadPartOfSide, side, rulegraph.children)

ReadSide(side, root) == Each(ReadRulegraph, side, Children(root, "rulegraph"))

ReadMapElem(rule, elem) ==
  LET from == elem.attributes.from
      to == elem.attributes.to
  IN IF /\ HasAttribute(elem, "from") /\ HasAttribute(elem, "to")
        /\ from \in DOMAIN rule.left.strToID /\ to \in DOMAIN rule.right.strToID
     THEN [rule EXCEPT !.map = Entered(@, rule.left.strToID[from], rule.right.strToID[to])]
     ELSE XMLioException(rule)

ReadMapping(rule, mapping) == Each(ReadMapElem, rule, Children(mapping, "mapelem"))

WithSide(rule, field, side) == [rule EXCEPT ![field] = side, !.error = side.error]

\* A mapping has to come after both sides.
ReadPartOfRule(rule, c) ==
  CASE c.name = "lhs" -> WithSide(rule, "left", ReadSide(rule.left, c))
    [] c.name = "rhs" -> WithSide(rule, "right", ReadSide(rule.right, c))
    [] c.name = "mapping" -> ReadMapping(rule, c)
    [] OTHER -> rule

\* What checkConsistency finds wrong with the image of one element of the left graph.
ErrorOfElement(map, left, right, x) ==
  LET from == left.edges[x]
      to == right.edges[map[x]]
      wrong == {i \in DOMAIN from.vertices :
                  from.vertices[i] \notin DOMAIN map \/ map[from.vertices[i]] # to.vertices[i]}
  IN IF x \in left.vertices
     THEN IF map[x] \in right.vertices THEN "none" ELSE "XMLioException"
     ELSE IF \/ x \notin DOMAIN left.edges \/ map[x] \notin DOMAIN right.edges
             \/ from.label # to.label
             \/ Len(from.vertices) # Len(to.vertices)
     THEN "XMLioException"
     ELSE IF wrong = {} THEN "none"
     ELSE IF from.vertices[Min(wrong)] \in DOMAIN map THEN "XMLioException"
     ELSE "out_of_range"

NoErrorOfMapping(map, left, right) ==
  IF \A x \in DOMAIN map : map[x] \in Elements(right) THEN "none" ELSE "XMLioException"

ErrorOfMapping(map, left, right) ==
  Folded(LAMBDA error, x : IF error = "none" THEN ErrorOfElement(map, left, right, x) ELSE error,
         "none", Iterate(DOMAIN map))

EmptyRule == [left |-> EmptySide, right |-> EmptySide, map |-> <<>>, error |-> "none"]

ReadPartsOfRule(root) == Each(ReadPartOfRule, EmptyRule, root.children)

ErrorOfRule(rule) ==
  IF rule.error # "none" THEN rule.error
  ELSE IF ~ (rule.left.isSet /\ rule.right.isSet) THEN "null"
  ELSE ErrorOfMapping(rule.map, rule.left.graph, rule.right.graph)

CompletedRule(rule, root) ==
  [rule |-> [left |-> rule.left.graph, right |-> rule.right.graph, map |-> rule.map,
             name |-> ReadName(root)],
   leftQuant |-> rule.left.quantMap, rightQuant |-> rule.right.quantMap,
   oldID |-> ReadOldID(root, 0), error |-> ErrorOfRule(rule)]

ReadRule(root) == CompletedRule(ReadPartsOfRule(root), root)

-----------------------------------------------------------------------------
(* Rules with quantifications                                              *)

\* checkConsistency of one side: an element is in one quantification, a vertex with its edges.
QuantsFit(graph, quantMap) ==
  /\ UNION Range(quantMap) \subseteq Elements(graph)
  /\ \A q, r \in DOMAIN quantMap : q # r => quantMap[q] \cap quantMap[r] = {}
  /\ \A q \in DOMAIN quantMap, e \in DOMAIN graph.edges :
       Range(graph.edges[e].vertices) \cap quantMap[q] # {} => e \in quantMap[q]

\* The quantification on the right is empty if it is not given.
RightQuant(read, q) == IF q \in DOMAIN read.rightQuant THEN read.rightQuant[q] ELSE {}

\* checkConsistency of the rule.  The loop over the preimages of a right element starts at the
\* end of the set, so that it has no effect.
UQIsConsistent(read) ==
  /\ QuantsFit(read.rule.left, read.leftQuant)
  /\ QuantsFit(read.rule.right, read.rightQuant)
  /\ \A q \in DOMAIN read.leftQuant :
       \A x \in read.leftQuant[q] \cap DOMAIN read.rule.map :
         read.rule.map[x] \in RightQuant(read, q)
  /\ DOMAIN read.rightQuant \subseteq DOMAIN read.leftQuant

\* Takes elements out of a graph into a graph of their own, vertices before edges; a vertex
\* that an edge needs and that stays comes in too.  place says where each element went.
TakeVertex(acc, v) ==
  IF v \in DOMAIN acc.place THEN acc
  ELSE [acc EXCEPT !.place = Entered(@, v, NewID(acc.graph)), !.graph = AddVertex(@)]

TakeVertices(acc, vertices) == Folded(TakeVertex, acc, vertices)

TakeEdge(acc, e) ==
  LET edge == acc.from.edges[e]
      take(a) == [a EXCEPT !.place = Entered(@, e, NewID(a.graph)),
                           !.graph = AddEdge(@, edge.label, [i \in DOMAIN edge.vertices |->
                                                               a.place[edge.vertices[i]]]),
                           !.from = DeleteEdge(@, e)]
  IN take(TakeVertices(acc, edge.vertices))

TakeEdges(acc, edges) == Folded(TakeEdge, acc, edges)

DeleteVertices(graph, vertices) == Folded(DeleteVertex, graph, vertices)

Among(S, ids) == Selected(LAMBDA x : x \in S, ids)

Extract(graph, ids) ==
  LET vertices == Among(graph.vertices, Iterate(ids))
      edges == Among(DOMAIN graph.edges, Iterate(ids))
      nothing == [from |-> graph, graph |-> EmptyGraph, place |-> <<>>]
  IN [TakeEdges(TakeVertices(nothing, vertices), edges) EXCEPT !.from = DeleteVertices(@, vertices)]

AllTaken(left, leftIDs) == DOMAIN left.place

\* What comes with the edges of a quantification and stays in the main rule.
Shared(left, leftIDs) == DOMAIN left.place \ leftIDs

\* left and right are what was taken out; place says where each element went.
Quantification(map, leftIDs, left, right) ==
  LET old(y) == CHOOSE x \in DOMAIN left.place : left.place[x] = y
  IN [rule |-> [left |-> left.graph, right |-> right.graph, name |-> "",
                map |-> [y \in {left.place[x] : x \in DOMAIN left.place \cap DOMAIN map} |->
                           right.place[map[old(y)]]]],
      match |-> [y \in {left.place[x] : x \in Shared(left, leftIDs)} |-> old(y)]]

WithQuantification(uq, leftIDs, left, right) ==
  IF \E x \in DOMAIN left.place \cap DOMAIN uq.main.map : uq.main.map[x] \notin DOMAIN right.place
  THEN Fail(uq, "out_of_range")
  ELSE [uq EXCEPT !.main.left = left.from, !.main.right = right.from,
                  !.main.map = Restrict(@, DOMAIN @ \ leftIDs),
                  !.quants = Append(@, Quantification(uq.main.map, leftIDs, left, right))]

\* convertToQuant: the elements of one quantification leave the main rule.
ConvertToQuant(uq, leftIDs, rightIDs) ==
  WithQuantification(uq, leftIDs, Extract(uq.main.left, leftIDs), Extract(uq.main.right, rightIDs))

UQRuleOf(read) ==
  Each(LAMBDA uq, q : ConvertToQuant(uq, read.leftQuant[q], RightQuant(read, q)),
       [main |-> read.rule, quants |-> <<>>, error |-> "none"],
       Iterate(DOMAIN read.leftQuant))

IsQuantified(read) == DOMAIN read.leftQuant # {} \/ DOMAIN read.rightQuant # {}

-----------------------------------------------------------------------------
(* Transformation systems.  Without its id there is no GTS object, which   *)
(* is noticed when the first graph or rule is added to it.                 *)

AddedTo(reading, field, x) ==
  IF reading.isSet THEN [reading EXCEPT !.gts[field] = Append(@, x)]
  ELSE Fail(reading, "null")

AddInitialGraph(reading, read) ==
  IF read.error # "none" THEN Fail(reading, read.error)
  ELSE AddedTo([reading EXCEPT !.nextID = read.nextID, !.oldGraphIDs = read.oldIDs],
               "initialGraphs", read.graphs[1])

ReadInitialGraph(reading, root) ==
  AddInitialGraph(reading,
    ReadHypergraph([NoGraphs(reading.nextID) EXCEPT !.oldIDs = reading.oldGraphIDs], root))

\* Every rule that is made gets a new id.  A quantified rule is a copy of the rule under whose
\* id the id in the file is kept.
CountRule(reading, read) ==
  [reading EXCEPT !.nextRuleID = IF IsQuantified(read) THEN @ + 2 ELSE @ + 1,
                  !.oldRuleIDs = IF read.oldID = 0 THEN @
                                 ELSE (reading.nextRuleID :> read.oldID) @@ @]

AddUQRule(reading, uq, id) ==
  IF uq.error # "none" THEN Fail(reading, uq.error)
  ELSE AddedTo(reading, "uqRules", [main |-> uq.main, quants |-> uq.quants, id |-> id])

AddRule(reading, read) ==
  LET id == reading.nextRuleID
      counted == CountRule(reading, read)
  IN IF read.error # "none" THEN Fail(reading, read.error)
     ELSE IF ~ IsQuantified(read) THEN AddedTo(counted, "stdRules", Entered(read.rule, "id", id))
     ELSE IF ~ UQIsConsistent(read) THEN XMLioException(reading)
     ELSE AddUQRule(counted, UQRuleOf(read), id + 1)

ReadInitial(reading, initial) == Each(ReadInitialGraph, reading, Children(initial, "graph"))

ReadPartOfGTS(reading, c) ==
  CASE c.name = "initial" -> ReadInitial(reading, c)
    [] c.name = "rule" -> AddRule(reading, ReadRule(c))
    [] OTHER -> reading

ReadGTS(reading, root) == Each(ReadPartOfGTS, reading, root.children)

ReadGTXL(files, filename, nextID) ==
  LET root == files[filename]
      empty == [gts |-> [name |-> "", initialGraphs |-> <<>>, stdRules |-> <<>>, uqRules |-> <<>>],
                isSet |-> FALSE, nextID |-> nextID, nextRuleID |-> 1,
                oldGraphIDs |-> <<>>, oldRuleIDs |-> <<>>, error |-> "none"]
      named == IF HasAttribute(root, "id")
               THEN [empty EXCEPT !.isSet = TRUE, !.gts.name = root.attributes.id] ELSE empty
  IN IF filename \notin DOMAIN files \/ root.name # "gts" THEN XMLioException(empty)
     ELSE ReadGTS(named, root)

=============================================================================
