------------------------------- MODULE MCProgram -------------------------------
(***************************************************************************)
(* Calls of every scenario, right and wrong ones, on a few documents, and  *)
(* calls that read the document of a quantified rule or of graphs after    *)
(* one thing in it was changed, each possible one in turn.                 *)
(***************************************************************************)
EXTENDS Program, SmallGraphs

Named(g, name, id) == g @@ [name |-> name, id |-> id]
Side(g) == g @@ [name |-> ""]

Unlabelled == [label |-> "", vertices |-> <<>>]

\* An edge with a label that has two vertices elsewhere.
ShortB(v) == [label |-> "B", vertices |-> <<v>>]

\* Ids with gaps, edges of all arities, an edge without label, an isolated vertex.
TheGraphs ==
  << Named(Graph({2, 4}, (3 :> B(4, 2)) @@ (7 :> A(2)) @@ (8 :> Unlabelled)),
           "one", 3),
     Named(Graph({1, 2}, 5 :> D(2, 1, 2)), "", 7) >>

\* A graph in the notation for ordinary directed graphs, without an id.
PlainGraph ==
  Element("graph", [id |-> <<"hg", 9>>, edgeids |-> "true"],
    << WriteNode(1, 9), WriteNode(2, 9),
       Element("edge", [id |-> EdgeID(3, 9), from |-> VertexID(2, 9), to |-> VertexID(1, 9)],
         << Element("attr", [name |-> "label"], << TextElement("string", <<"B">>) >>) >>) >>)

Same(ids) == [x \in ids |-> x]

\* A token passes along an edge; two vertices become one.
StdRules ==
  << [left |-> Side(Graph({1, 2}, (3 :> A(1)) @@ (4 :> B(1, 2)))),
      right |-> Side(Graph({1, 2}, (3 :> A(2)) @@ (4 :> B(1, 2)))),
      map |-> Same({1, 2, 4}), name |-> "pass", id |-> 1],
     [left |-> Side(Graph({1, 2}, 3 :> B(1, 2))), right |-> Side(Graph({1}, <<>>)),
      map |-> <<1, 1>>, name |-> "", id |-> 2] >>

\* Rules with the quantifications on both sides.
\* All neighbours of 1 and their edges stay, and each edge gets a second label; the tokens of 1 go.
Relabel ==
  [rule |-> [left |-> Side(Graph({1, 2}, (3 :> B(1, 2)) @@ (4 :> A(1)))),
             right |-> Side(Graph({1, 2}, (3 :> B(1, 2)) @@ (4 :> C(1, 2)))),
             map |-> Same({1, 2, 3}), name |-> "relabel"],
   left |-> << {2, 3}, {4} >>, right |-> << {2, 3, 4}, {} >>]

\* An edge between two vertices of the main rule is quantified, beside one that stays.
Reverse2 ==
  [rule |-> [left |-> Side(Graph({1, 2}, (3 :> B(1, 2)) @@ (4 :> A(2)))),
             right |-> Side(Graph({1, 2}, (3 :> B(2, 1)) @@ (4 :> A(2)))),
             map |-> Same({1, 2, 4}), name |-> "reverse"],
   left |-> << {3} >>, right |-> << {3} >>]

\* The edges of a vertex go with it.
Delete ==
  [rule |-> [left |-> Side(Graph({1, 2}, 3 :> B(1, 2))), right |-> Side(Graph({1}, 2 :> A(1))),
             map |-> (2 :> 1), name |-> "delete"],
   left |-> << {3} >>, right |-> << {2} >>]

\* Accepted, and an element of the main rule stays mapped into a quantification.
Dangling ==
  [rule |-> [left |-> Side(Graph({1, 2}, 3 :> B(1, 2))), right |-> Side(Graph({1, 2}, 3 :> B(1, 2))),
             map |-> Same({1, 2, 3}), name |-> "dangling"],
   left |-> << {3} >>, right |-> << {2, 3} >>]

\* Accepted, but not made: no quantified edge is left at the vertex that is kept.
Losing ==
  [rule |-> [left |-> Side(Graph({1, 2}, 3 :> B(1, 2))), right |-> Side(Graph({1}, <<>>)),
             map |-> Same({1}), name |-> "losing"],
   left |-> << {2, 3} >>, right |-> << {} >>]

\* Accepted, and two vertices of the main rule become the one that the quantified edge is at.
Merging ==
  [rule |-> [left |-> Side(Graph({1, 2}, 3 :> B(1, 2))), right |-> Side(Graph({1}, 2 :> B(1, 1))),
             map |-> <<1, 1, 2>>, name |-> "merging"],
   left |-> << {3} >>, right |-> << {2} >>]

\* A rule with more vertices on the right than can be prepared.
Wide ==
  [left |-> Side(Graph({1}, <<>>)), right |-> Side(Graph(1 .. MaxRightSide + 1, <<>>)),
   map |-> <<1>>, name |-> "wide", id |-> 1]

QuantifiedRule(q) == WriteRule(q.rule, 1, q.left, q.right)

GTSElement(name, graphs, rules) ==
  Element("gts", [id |-> name], << Element("initial", <<>>, graphs) >> \o rules)

QuantifiedDocument(q) == GTSElement(q.rule.name, <<>>, << QuantifiedRule(q) >>)

-----------------------------------------------------------------------------
(* An element with one attribute left out of it or of a child, one child   *)
(* left out, twice or exchanged with the next, or an attribute of a child  *)
(* taken from another one.                                                 *)

WithoutAttribute(element, a) == [element EXCEPT !.attributes = Restrict(@, DOMAIN @ \ {a})]

Flat(seqs) == Folded(LAMBDA acc, s : acc \o s, <<>>, seqs)

Damaged(element) ==
  LET children == element.children
      with(new) == [element EXCEPT !.children = new]
      twins(i) == {j \in DOMAIN children : j # i /\ children[j].name = children[i].name}
      shared(i, j) == DOMAIN children[i].attributes \cap DOMAIN children[j].attributes
      others(i) == UNION {{<<j, a>> : a \in shared(i, j)}
                            : j \in twins(i)}
      taken(i) == {p \in others(i) : children[i].attributes[p[2]] # children[p[1]].attributes[p[2]]}
      from(i, p) == with([children EXCEPT ![i].attributes[p[2]] = children[p[1]].attributes[p[2]]])
      less(i, a) == with([children EXCEPT ![i] = WithoutAttribute(@, a)])
  IN Mapped(LAMBDA a : WithoutAttribute(element, a), Listed(DOMAIN element.attributes))
     \o [i \in DOMAIN children |-> with(RemoveAt(children, i))]
     \o [i \in DOMAIN children |-> with(Append(children, children[i]))]
     \o Mapped(LAMBDA i : with([children EXCEPT ![i] = children[i + 1], ![i + 1] = children[i]]),
               Listed(1 .. Len(children) - 1))
     \o Flat([i \in DOMAIN children |-> Mapped(LAMBDA p : from(i, p), Listed(taken(i)))])
     \o Flat([i \in DOMAIN children |->
                Mapped(LAMBDA a : less(i, a), Listed(DOMAIN children[i].attributes))])

\* The element at a place in a document, and the document with another one there.
At(document, place) == Folded(LAMBDA e, i : e.children[i], document, place)

Replaced(d, p, e) ==
  CASE Len(p) = 0 -> e
    [] Len(p) = 1 -> [d EXCEPT !.children[p[1]] = e]
    [] Len(p) = 2 -> [d EXCEPT !.children[p[1]].children[p[2]] = e]
    [] Len(p) = 3 -> [d EXCEPT !.children[p[1]].children[p[2]].children[p[3]] = e]
    [] Len(p) = 4 -> [d EXCEPT !.children[p[1]].children[p[2]].children[p[3]].children[p[4]] = e]
    [] Len(p) = 5 ->
         [d EXCEPT !.children[p[1]].children[p[2]].children[p[3]].children[p[4]].children[p[5]] = e]

DamagedAt(document, places) ==
  Flat(Mapped(LAMBDA p : Mapped(LAMBDA e : Replaced(document, p, e), Damaged(At(document, p))), places))

\* The document, its rule, the sides and their graphs, the quantifications, the mapping.
PlacesOfRule ==
  << <<>>, <<2>>, <<2, 3>>, <<2, 3, 1>>, <<2, 4, 1>>, <<2, 3, 1, 1>>, <<2, 4, 1, 1>>, <<2, 3, 1, 2>>,
     <<2, 4, 1, 2>>, <<2, 5>>, <<2, 3, 1, 1, 3>> >>

\* The document, its graphs and some of their edges.
PlacesOfGraphs == << <<>>, <<1>>, <<2>>, <<1, 3>>, <<1, 3, 1>>, <<2, 4>>, <<3, 3>> >>

DamagedRules ==
  DamagedAt(QuantifiedDocument(Relabel), PlacesOfRule)
  \o DamagedAt(QuantifiedDocument(Reverse2), SubSeq(PlacesOfRule, 4, 10))

DamagedGraphs ==
  DamagedAt(Element("gxl", <<>>, << PlainGraph >> \o Mapped(WriteHypergraph, TheGraphs)), PlacesOfGraphs)

NameOf(stub, i) == stub \o ToString(i)

FilesOf(stub, documents) ==
  [name \in {NameOf(stub, i) : i \in DOMAIN documents} |->
     documents[CHOOSE i \in DOMAIN documents : NameOf(stub, i) = name]]

-----------------------------------------------------------------------------

GoodFiles ==
  ("graphs" :> Element("gxl", <<>>, << PlainGraph >> \o Mapped(WriteHypergraph, TheGraphs)))
  @@ ("t00" :> WriteGXL(TheGraphs))
  @@ ("t01" :> WriteGTXL([name |-> "no graphs", initialGraphs |-> <<>>, stdRules |-> <<>>,
                          uqRules |-> <<>>]))
  @@ ("rules" :> WriteGTXL([name |-> "rules", initialGraphs |-> TheGraphs, stdRules |-> StdRules,
                            uqRules |-> <<>>]))
  @@ ("u00" :> GTSElement("quantified", Mapped(WriteHypergraph, TheGraphs),
                 Mapped(QuantifiedRule, << Relabel, Reverse2, Delete >>) \o Mapped(WriteStdRule, StdRules)))
  @@ ("u01" :> QuantifiedDocument(Dangling))
  @@ ("losing" :> QuantifiedDocument(Losing))
  @@ ("merging" :> QuantifiedDocument(Merging))
  @@ ("short" :> WriteGXL(<< Named(GraphWith(2, <<A(1), ShortB(1), B(1, 1), Unlabelled>>), "short", 1) >>))
  @@ ("wide" :> GTSElement("wide", <<>>, << WriteStdRule(Wide) >>))
  @@ ("noid" :> Element("gts", <<>>, <<>>))
  @@ ("v00" :> Element("gts", <<>>, Mapped(WriteStdRule, StdRules)))

MCGivenFiles == GoodFiles @@ FilesOf("r", DamagedRules) @@ FilesOf("g", DamagedGraphs)

Value(v) == [key |-> "", value |-> v]
KeyValue(k, v) == [key |-> k, value |-> v]
Values(words) == Mapped(Value, words)

MCConfigFiles ==
  ("conf" :> [unknownKey |-> FALSE, words |-> Values(<<"lerc", "", "2", "le">>)])
  @@ ("badconf" :> [unknownKey |-> TRUE, words |-> <<>>])

Plainly == [options |-> {"scn"}, usage |-> Absent, level |-> Absent, scn |-> <<>>, scnFile |-> Absent]
With(words) == [Plainly EXCEPT !.scn = words]

Options ==
  {[Plainly EXCEPT !.options = {o}] : o \in {"help", "version", "scenarios", "unknown", "scn"}}
  \cup {[Plainly EXCEPT !.options = {}, !.usage = u] : u \in {"leq", "300", "nonsense"}}
  \cup {[Plainly EXCEPT !.options = {}, !.scnFile = f] : f \in {"conf", "badconf", "noconf"}}
  \cup {[With(Values(<<"gxl2pic", "graphs">>)) EXCEPT !.level = l] : l \in {"3", "loud"}}
  \cup {[Plainly EXCEPT !.options = {}], With(<<Value("")>>), With(Values(<<"nonsense">>)),
        With(<<KeyValue("lerc", "x")>>)}

Searches ==
  {With(Values(<<"backw", gts, errors, order>>) \o rest) :
     gts \in {"rules", "u00", "noid", "u01", "wide", "le"}, errors \in {"graphs"},
     order \in {"minor", "subgraph[-]"},
     rest \in {<<KeyValue("m", "inj"), KeyValue("res", "out")>>, Values(<<"out">>), <<>>}}
  \cup {With(Values(<<"backw", "rules">>) \o <<KeyValue("or", "minor")>>),
        With(Values(<<"backw", "rules", "rules", "minor">>)),
        With(Values(<<"backw", "nowhere", "graphs", "minor">>)),
        With(Values(<<"backw", "rules", "graphs", "size">>)),
        With(Values(<<"backw", "rules", "graphs", "minor", "nowhere">>))}

Tools ==
  {With(Values(<<"lerc", n, "le">>)) : n \in {"0", "3", "many"}}
  \cup {With(Values(<<"lerc", "2", "le", "le">>)),
        With(<<Value("lerc"), KeyValue("c", "2"), KeyValue("count", "1")>>)}
  \cup {With(Values(<<"leq", order, g, h>>)) :
          order \in {"minor", "size"}, g \in {"graphs", "ErrorGraphs", "rules"}, h \in {"graphs"}}
  \cup {With(Values(<<"gxl2pic", g>>) \o rest) :
          g \in {"graphs", "t00new", "rules", "graph1"},
          rest \in {<<>>, <<KeyValue("c", "true")>>, <<KeyValue("o", "ps")>>}}
  \cup {With(Values(<<"gtxl2latex", g>>) \o rest) :
          g \in {"rules", "u00", "losing", "merging", "noid", "u00new", "graphs", "le"},
          rest \in {<<>>, <<KeyValue("t", "paper.tex")>>}}
  \cup {With(Values(<<"test_xml", stub, "2", stub2, "2">>)) : stub \in {"t", "u"}, stub2 \in {"u", "v"}}
  \cup {With(Values(<<"test_xml", "t", "many">>)), With(<<Value("test_xml"), KeyValue("gtxl", "2")>>)}
  \cup {With(Values(<<"testprep", g>>) \o rest) :
          g \in {"rules", "u00", "noid", "u01", "wide", "losing"}, rest \in {<<>>, <<KeyValue("o", "minor")>>}}
  \cup {With(Values(<<"testbws", g, "graphs", order>>)) :
          g \in {"rules", "noid", "wide", "rules_new", "graphs"}, order \in {"minor", "subgraph", "size"}}
  \cup {With(Values(<<"test_matcher", g, "graphs", "matches">>) \o rest) :
          g \in {"t00", "graphs", "out/ErrorGraphs", "nowhere"},
          rest \in {<<>>, <<KeyValue("inj", "true")>>}}
  \cup {With(Values(<<"test_matcher", "graphs", "short", "matches">>)),
        With(Values(<<"test_matcher", "short", "graphs", "matches">>))}

OnDamaged ==
  {With(Values(<<"gtxl2latex", NameOf("r", i)>>)) : i \in DOMAIN DamagedRules}
  \cup {With(Values(<<"test_matcher", NameOf("g", i), "t00", NameOf("m", i)>>)) :
           i \in DOMAIN DamagedGraphs}

MCCommandLines == Options \cup Searches \cup Tools \cup OnDamaged

MCNumerals == [n \in {"0", "1", "2", "3"} |-> CHOOSE k \in 0..3 : ToString(k) = n]

\* Some rules and graphs in place of those that a preparer and a backward step find.
MCPrepared(rule, order) ==
  IF order = "minor" THEN <<rule, [rule EXCEPT !.map = <<>>, !.name = ""]>> ELSE <<rule>>

MCPredecessors(rule, graph) == <<graph, [rule.left EXCEPT !.name = rule.name]>>

MCSearchResults(graphs) == {graphs, <<>>}

=============================================================================
