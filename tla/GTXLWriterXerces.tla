--------------------------- MODULE GTXLWriterXerces ---------------------------
(***************************************************************************)
(* io/GTXLWriterXerces: graphs and transformation systems as documents.  A *)
(* Hypergraph is a graph with fields name and id, a rule a record          *)
(* [left, right, map, name, id], a quantified rule [main, quants, name,    *)
(* id], a GTS [name, initialGraphs, stdRules, uqRules]; rules are kept in  *)
(* a hash map by their ids.                                                *)
(***************************************************************************)
EXTENDS UQRule

(***************************************************************************)
(* The documents of the Xerces DOM that reader and writer exchange with    *)
(* the file system: elements with named attributes, child elements in      *)
(* their order and at most one text.  Names are compared without regard to *)
(* case, so they are one value here; an id is the tuple of the parts that  *)
(* it is put together from.                                                *)
(***************************************************************************)
Element(name, attributes, children) ==
  [name |-> name, attributes |-> attributes, children |-> children, text |-> <<>>]

\* createTextNode; the empty text leaves no node in a file.
TextElement(name, text) == [Element(name, <<>>, <<>>) EXCEPT !.text = text]

HasAttribute(element, a) == a \in DOMAIN element.attributes

Children(element, name) == Selected(LAMBDA c : c.name = name, element.children)

\* The children <attr name="a"> of an element.
Attrs(element, a) ==
  SelectSeq(Children(element, "attr"), LAMBDA c : HasAttribute(c, "name") /\ c.attributes.name = a)

\* Steps over elements until one of them fails.
Each(Step(_, _), reading, elements) ==
  Folded(LAMBDA r, e : IF r.error = "none" THEN Step(r, e) ELSE r, reading, elements)

-----------------------------------------------------------------------------
(* Writing *)

AnonGraphID == 0

VertexID(v, graphID) == <<"n", graphID, v>>
EdgeID(e, graphID) == <<"e", graphID, e>>

\* The XML id of an element of a rule's side.
ElementID(graph, x) == IF x \in graph.vertices THEN VertexID(x, AnonGraphID) ELSE EdgeID(x, AnonGraphID)

NameAttr(name) ==
  IF name = "" THEN <<>>
  ELSE << Element("attr", [name |-> "name"], << TextElement("string", <<name>>) >>) >>

IDAttr(id) == << Element("attr", [name |-> "id"], << TextElement("int", <<id>>) >>) >>

WriteNode(v, graphID) == Element("node", [id |-> VertexID(v, graphID)], <<>>)

\* startOrderCounter after the tentacle is written.
WriteTentaclesFromOne(vertices, graphID) ==
  [i \in DOMAIN vertices |->
     Element("relend", [target |-> VertexID(vertices[i], graphID), startorder |-> i], <<>>)]

WriteTentacles(vertices, graphID) ==
  [i \in DOMAIN vertices |->
     Element("relend", [target |-> VertexID(vertices[i], graphID), startorder |-> i - 1], <<>>)]

WriteRel(edge, e, graphID) ==
  Element("rel", [id |-> EdgeID(e, graphID)],
    << Element("attr", [name |-> "label"],
         << TextElement("string", IF edge.label = "" THEN <<>> ELSE <<edge.label>>) >>) >>
    \o WriteTentacles(edge.vertices, graphID))

WriteGraph(graph, graphID) ==
  Element("graph", [id |-> <<"hg", graphID>>, edgeids |-> "true"],
    NameAttr(graph.name)
    \o Mapped(LAMBDA v : WriteNode(v, graphID), Ascending(graph.vertices))
    \o Mapped(LAMBDA e : WriteRel(graph.edges[e], e, graphID), Ascending(DOMAIN graph.edges)))

\* A Hypergraph keeps its id; the sides of a rule have none.
WriteHypergraph(graph) ==
  LET root == WriteGraph(graph, graph.id)
  IN [root EXCEPT !.children = @ \o IDAttr(graph.id)]

WriteQuantification(graph, i, ids) ==
  Element("quantification", [id |-> i],
    Mapped(LAMBDA x : Element("elem", [ref |-> ElementID(graph, x)], <<>>), Iterate(ids)))

\* One side of a rule with the elements that belong to each quantification.
WriteSide(name, graph, uqIDs) ==
  Element(name, <<>>,
    << Element("rulegraph", <<>>,
         << WriteGraph(graph, AnonGraphID) >>
         \o [i \in DOMAIN uqIDs |-> WriteQuantification(graph, i - 1, uqIDs[i])]) >>)

WriteMapElem(rule, x) ==
  Element("mapelem",
    IF x \in rule.left.vertices
    THEN [from |-> VertexID(x, AnonGraphID), to |-> VertexID(rule.map[x], AnonGraphID)]
    ELSE [from |-> EdgeID(x, AnonGraphID), to |-> EdgeID(rule.map[x], AnonGraphID)], <<>>)

WriteRule(rule, id, leftUQids, rightUQids) ==
  Element("rule", [id |-> <<"r", id>>],
    IDAttr(id) \o NameAttr(rule.name)
    \o << WriteSide("lhs", rule.left, leftUQids),
          WriteSide("rhs", rule.right, rightUQids),
          Element("mapping", <<>>,
            Mapped(LAMBDA x : WriteMapElem(rule, x), Iterate(DOMAIN rule.map))) >>)

WriteStdRule(rule) == WriteRule(rule, rule.id, <<>>, <<>>)

\* createOneInstance, with the elements that each quantification generated.
WithOne(one, extended) ==
  [rule |-> extended.rule,
   leftUQids |-> Append(one.leftUQids, extended.genLeft),
   rightUQids |-> Append(one.rightUQids, extended.genRight)]

CreateOneInstance(uq) ==
  Folded(LAMBDA one, quant : WithOne(one, ExtendRuleByUQ(one.rule, quant)),
         [rule |-> ZeroInstance(uq), leftUQids |-> <<>>, rightUQids |-> <<>>], uq.quants)

WriteInstance(one, id) == WriteRule(one.rule, id, one.leftUQids, one.rightUQids)

WriteUQRule(uq) == WriteInstance(CreateOneInstance(uq), uq.id)

WriteGXL(graphs) == Element("gxl", <<>>, Mapped(WriteHypergraph, graphs))

WriteGTXL(gts) ==
  Element("gts", [id |-> gts.name],
    << Element("initial", <<>>, Mapped(WriteHypergraph, gts.initialGraphs)) >>
    \o Mapped(WriteStdRule, gts.stdRules)
    \o Mapped(WriteUQRule, gts.uqRules))

=============================================================================
