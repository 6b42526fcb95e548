----------------------------- MODULE ProgramProofs -----------------------------
(***************************************************************************)
(* The rules that a scenario goes on with are morphisms, whatever the      *)
(* documents on the disk are.                                              *)
(***************************************************************************)
EXTENDS Program, SequenceLemmas

-----------------------------------------------------------------------------
(* Graphs *)

\* An edge with its label and its ends in V.
IsEdge(edge, V) ==
  /\ edge = [label |-> edge.label, vertices |-> edge.vertices]
  /\ edge.vertices \in Seq(V)

\* The ids in use are up to lastUsedID, those of vertices and edges are different, and the
\* ends of edges are vertices.
IsGraph(g) ==
  /\ {"vertices", "edges", "lastUsedID"} \subseteq DOMAIN g
  /\ g.lastUsedID \in Nat
  /\ g.vertices \subseteq 1 .. g.lastUsedID
  /\ DOMAIN g.edges \subseteq 1 .. g.lastUsedID
  /\ g.vertices \cap DOMAIN g.edges = {}
  /\ \A e \in DOMAIN g.edges : IsEdge(g.edges[e], g.vertices)

\* What a map with one more entry returns.
LEMMA EnteredFacts ==
  ASSUME NEW f, NEW x, NEW y
  PROVE  /\ DOMAIN Entered(f, x, y) = DOMAIN f \cup {x}
         /\ Entered(f, x, y)[x] = y
         /\ \A z \in DOMAIN f : z # x => Entered(f, x, y)[z] = f[z]
BY DEF Entered

\* A list of some elements is a list of more.
LEMMA SeqGrows ==
  ASSUME NEW V, NEW W, V \subseteq W, NEW s \in Seq(V)
  PROVE  s \in Seq(W)
OBVIOUS

\* The positions of a list, and what is at them.
LEMMA SeqPositions ==
  ASSUME NEW V, NEW s \in Seq(V)
  PROVE  Len(s) \in Nat /\ DOMAIN s = 1 .. Len(s) /\ \A i \in 1 .. Len(s) : s[i] \in V
OBVIOUS

\* The graph without elements.
LEMMA EmptyGraphFacts ==
  /\ IsGraph(EmptyGraph) /\ "name" \in DOMAIN EmptyGraph
  /\ EmptyGraph.vertices = {} /\ DOMAIN EmptyGraph.edges = {}
<1>1. DOMAIN EmptyGraph = {"vertices", "edges", "lastUsedID", "name"} BY DEF EmptyGraph
<1>2. EmptyGraph.vertices = {} /\ EmptyGraph.edges = <<>> /\ EmptyGraph.lastUsedID = 0
  BY DEF EmptyGraph
<1>3. DOMAIN <<>> = {} OBVIOUS
<1> QED BY <1>1, <1>2, <1>3 DEF IsGraph

\* A graph has finitely many elements, and a vertex is no edge.
LEMMA GraphIsFinite ==
  ASSUME NEW g, IsGraph(g)
  PROVE  /\ IsFiniteSet(Elements(g)) /\ Elements(g) \subseteq Nat
         /\ NewID(g) \notin Elements(g)
<1>1. PICK n \in Nat : n = g.lastUsedID BY DEF IsGraph
<1>2. Elements(g) \subseteq 1 .. n BY <1>1 DEF IsGraph, Elements
<1>3. IsFiniteSet(1 .. n) BY FS_Interval
<1>4. n + 1 \notin 1 .. n OBVIOUS
<1> QED BY <1>1, <1>2, <1>3, <1>4, FS_Subset DEF NewID

\* addVertex
LEMMA AddVertexFacts ==
  ASSUME NEW g, IsGraph(g)
  PROVE  /\ IsGraph(AddVertex(g)) /\ DOMAIN AddVertex(g) = DOMAIN g
         /\ AddVertex(g).vertices = g.vertices \cup {NewID(g)}
         /\ AddVertex(g).edges = g.edges
<1>1. PICK n \in Nat : n = g.lastUsedID BY DEF IsGraph
<1>2. PICK h : h = AddVertex(g) OBVIOUS
<1>3. /\ DOMAIN h = DOMAIN g /\ h.vertices = g.vertices \cup {n + 1}
      /\ h.edges = g.edges /\ h.lastUsedID = n + 1
  BY <1>1, <1>2 DEF IsGraph, AddVertex, NewID
<1>4. n + 1 \in Nat /\ 1 .. n \subseteq 1 .. (n + 1) /\ n + 1 \in 1 .. (n + 1) /\ n + 1 \notin 1 .. n
  OBVIOUS
<1>5. \A e \in DOMAIN h.edges : IsEdge(h.edges[e], h.vertices)
  <2> SUFFICES ASSUME NEW e \in DOMAIN g.edges PROVE IsEdge(g.edges[e], h.vertices)
    BY <1>3
  <2>1. IsEdge(g.edges[e], g.vertices) BY DEF IsGraph
  <2>2. g.vertices \subseteq h.vertices BY <1>3
  <2> QED BY <2>1, <2>2, SeqGrows DEF IsEdge
<1>6. IsGraph(h)
  <2>1. /\ g.vertices \subseteq 1 .. n /\ DOMAIN g.edges \subseteq 1 .. n
        /\ g.vertices \cap DOMAIN g.edges = {}
        /\ {"vertices", "edges", "lastUsedID"} \subseteq DOMAIN g
    BY <1>1 DEF IsGraph
  <2>2. h.vertices \cap DOMAIN h.edges = {} BY <1>3, <1>4, <2>1
  <2>3. h.vertices \subseteq 1 .. (n + 1) /\ DOMAIN h.edges \subseteq 1 .. (n + 1)
    BY <1>3, <1>4, <2>1
  <2> QED BY <1>3, <1>4, <1>5, <2>1, <2>2, <2>3 DEF IsGraph
<1> QED BY <1>1, <1>2, <1>3, <1>6 DEF NewID

\* addEdge between vertices
LEMMA AddEdgeFacts ==
  ASSUME NEW g, IsGraph(g), NEW label, NEW ends \in Seq(g.vertices)
  PROVE  /\ IsGraph(AddEdge(g, label, ends)) /\ DOMAIN AddEdge(g, label, ends) = DOMAIN g
         /\ AddEdge(g, label, ends).vertices = g.vertices
         /\ AddEdge(g, label, ends).edges
              = Entered(g.edges, NewID(g), [label |-> label, vertices |-> ends])
<1>1. PICK n \in Nat : n = g.lastUsedID BY DEF IsGraph
<1>2. PICK h : h = AddEdge(g, label, ends) OBVIOUS
<1>3. PICK new : new = [label |-> label, vertices |-> ends] BY Zenon
<1>4. /\ DOMAIN h = DOMAIN g /\ h.vertices = g.vertices
      /\ h.edges = Entered(g.edges, n + 1, new) /\ h.lastUsedID = n + 1
  BY <1>1, <1>2, <1>3 DEF IsGraph, AddEdge, NewID
<1>5. n + 1 \in Nat /\ 1 .. n \subseteq 1 .. (n + 1) /\ n + 1 \in 1 .. (n + 1) /\ n + 1 \notin 1 .. n
  OBVIOUS
<1>6. /\ DOMAIN h.edges = DOMAIN g.edges \cup {n + 1} /\ h.edges[n + 1] = new
      /\ \A e \in DOMAIN g.edges : e # n + 1 => h.edges[e] = g.edges[e]
  <2>1. PICK x, old, more : x = n + 1 /\ old = g.edges /\ more = h.edges OBVIOUS
  <2>2. more = Entered(old, x, new) BY <1>4, <2>1
  <2>3. /\ DOMAIN more = DOMAIN old \cup {x} /\ more[x] = new
        /\ \A e \in DOMAIN old : e # x => more[e] = old[e]
    BY <2>2 DEF Entered
  <2> QED BY <2>1, <2>3
<1>7. IsEdge(new, h.vertices) BY <1>3, <1>4 DEF IsEdge
<1>8. \A e \in DOMAIN h.edges : IsEdge(h.edges[e], h.vertices)
  <2> SUFFICES ASSUME NEW e \in DOMAIN h.edges PROVE IsEdge(h.edges[e], h.vertices)
    OBVIOUS
  <2>1. CASE e = n + 1 BY <1>6, <1>7, <2>1
  <2>2. CASE e # n + 1
    <3>1. e \in DOMAIN g.edges /\ h.edges[e] = g.edges[e] BY <1>6, <2>2
    <3> QED BY <1>4, <3>1 DEF IsGraph
  <2> QED BY <2>1, <2>2
<1>9. IsGraph(h)
  <2>1. /\ g.vertices \subseteq 1 .. n /\ DOMAIN g.edges \subseteq 1 .. n
        /\ g.vertices \cap DOMAIN g.edges = {}
        /\ {"vertices", "edges", "lastUsedID"} \subseteq DOMAIN g
    BY <1>1 DEF IsGraph
  <2>2. h.vertices \cap DOMAIN h.edges = {} BY <1>4, <1>5, <1>6, <2>1
  <2>3. h.vertices \subseteq 1 .. (n + 1) /\ DOMAIN h.edges \subseteq 1 .. (n + 1)
    BY <1>4, <1>5, <1>6, <2>1
  <2> QED BY <1>4, <1>5, <1>8, <2>1, <2>2, <2>3 DEF IsGraph
<1> QED BY <1>1, <1>2, <1>3, <1>4, <1>9 DEF NewID

-----------------------------------------------------------------------------
(* What readings, copies and instances are                                 *)

\* An edge as it is between the images of its ends.
Carried(edge, map) ==
  [label |-> edge.label, vertices |-> [i \in DOMAIN edge.vertices |-> map[edge.vertices[i]]]]

\* A map takes a vertex to a vertex, an edge with its ends to an edge.
PreservesElement(left, right, map, x) ==
  \/ x \in left.vertices /\ map[x] \in right.vertices
  \/ /\ x \in DOMAIN left.edges /\ map[x] \in DOMAIN right.edges
     /\ Range(left.edges[x].vertices) \subseteq DOMAIN map
     /\ right.edges[map[x]] = Carried(left.edges[x], map)

Preserves(left, right, map) == \A x \in DOMAIN map : PreservesElement(left, right, map, x)

\* h is g without the elements ids.
IsRest(g, ids, h) ==
  /\ IsGraph(h)
  /\ h.vertices = g.vertices \ ids
  /\ DOMAIN h.edges = DOMAIN g.edges \ ids
  /\ \A e \in DOMAIN h.edges : h.edges[e] = g.edges[e]

\* place takes some elements of g to different elements of h.
IsCopy(g, place, h) ==
  /\ IsGraph(h)
  /\ Preserves(g, h, place)
  /\ \A x, y \in DOMAIN place : place[x] = place[y] => x = y

IsReading(r) ==
  /\ {"graph", "strToID", "nodeIDList", "error"} \subseteq DOMAIN r
  /\ IsGraph(r.graph) /\ "name" \in DOMAIN r.graph
  /\ \A id \in DOMAIN r.nodeIDList : r.nodeIDList[id] \in r.graph.vertices

IsSide(s) ==
  /\ {"isSet", "graph", "strToID", "quantMap", "error"} \subseteq DOMAIN s
  /\ IsGraph(s.graph)
  /\ IsFiniteSet(DOMAIN s.quantMap)

IsRuleReading(r) ==
  /\ {"left", "right", "map", "error"} \subseteq DOMAIN r
  /\ IsSide(r.left) /\ IsSide(r.right)
  /\ IsFiniteSet(DOMAIN r.map)

\* A rule that may grow: the main rule or an instance.
IsInstance(rule) ==
  /\ {"left", "right", "map"} \subseteq DOMAIN rule
  /\ IsGraph(rule.left) /\ IsGraph(rule.right)
  /\ Preserves(rule.left, rule.right, rule.map)

\* A quantification of a rule whose main rule keeps the vertices V.
IsQuantification(quant, V) ==
  /\ IsInstance(quant.rule)
  /\ DOMAIN quant.match \subseteq quant.rule.left.vertices
  /\ \A x \in DOMAIN quant.match : quant.match[x] \in V

AreQuantifications(quants, V) ==
  \E S : quants \in Seq(S) /\ \A quant \in S : IsQuantification(quant, V)

AreMorphisms(rules) == \E S : rules \in Seq(S) /\ \A rule \in S : IsMorphism(rule)

AreUQMorphisms(rules) == \E S : rules \in Seq(S) /\ \A uq \in S : IsUQMorphism(uq)

IsGTSReading(r) ==
  /\ {"gts", "isSet", "nextID", "nextRuleID", "oldGraphIDs", "oldRuleIDs", "error"} \subseteq DOMAIN r
  /\ {"name", "initialGraphs", "stdRules", "uqRules"} \subseteq DOMAIN r.gts
  /\ AreMorphisms(r.gts.stdRules)
  /\ AreUQMorphisms(r.gts.uqRules)

-----------------------------------------------------------------------------
(* The loops: what one round does, and what holds after i rounds.  A loop  *)
(* is told from the others by its name, and c has what its body uses and   *)
(* in seq the vector that it goes through.                                 *)

Visited(c, i) == {c.seq[j] : j \in 1 .. i}

\* Selected, for the children of one name and for the elements of a set.
KeepChild(c, a, x) == IF x.name = c.name THEN Append(a, x) ELSE a

KeepElement(c, a, x) == IF x \in c.S THEN Append(a, x) ELSE a

\* Error of a mapping after one more element.
CheckElement(c, a, x) == IF a = "none" THEN ErrorOfElement(c.map, c.left, c.right, x) ELSE a

\* ExtendRuleByUQ and CreateOneInstance.
ExtendOnce(c, a, quant) == WithOne(a, ExtendRuleByUQ(a.rule, quant))

LoopStep(c, a, x) ==
  CASE c.loop = "children"   -> KeepChild(c, a, x)
    [] c.loop = "elements"   -> KeepElement(c, a, x)
    [] c.loop = "iterate"    -> Inserted(a, x)
    [] c.loop = "node"       -> IF a.error = "none" THEN ReadNode(a, x) ELSE a
    [] c.loop = "edge"       -> IF a.error = "none" THEN ReadEdge(a, x) ELSE a
    [] c.loop = "rel"        -> IF a.error = "none" THEN ReadRel(a, x) ELSE a
    [] c.loop = "elem"       -> IF a.error = "none" THEN ReadElem(a, c.quantID, x) ELSE a
    [] c.loop = "side"       -> IF a.error = "none" THEN ReadPartOfSide(a, x) ELSE a
    [] c.loop = "rulegraph"  -> IF a.error = "none" THEN ReadRulegraph(a, x) ELSE a
    [] c.loop = "mapelem"    -> IF a.error = "none" THEN ReadMapElem(a, x) ELSE a
    [] c.loop = "rule"       -> IF a.error = "none" THEN ReadPartOfRule(a, x) ELSE a
    [] c.loop = "check"      -> CheckElement(c, a, x)
    [] c.loop = "take vertex"   -> TakeVertex(a, x)
    [] c.loop = "take edge"     -> TakeEdge(a, x)
    [] c.loop = "delete vertex" -> DeleteVertex(a, x)
    [] c.loop = "quantification" ->
         IF a.error = "none" THEN ConvertToQuant(a, c.read.leftQuant[x], RightQuant(c.read, x)) ELSE a
    [] c.loop = "extend right"  -> ExtendRight(a, c.quant, x)
    [] c.loop = "extend left"   -> ExtendLeft(a, c.quant, x)
    [] c.loop = "instance"      -> ExtendOnce(c, a, x)
    [] c.loop = "initial"    -> IF a.error = "none" THEN ReadInitialGraph(a, x) ELSE a
    [] c.loop = "gts"        -> IF a.error = "none" THEN ReadPartOfGTS(a, x) ELSE a
    [] c.loop = "load gts"   -> IF a.error = "none" THEN LoadGTS(a, c.disk, c.p[x]) ELSE a
    [] c.loop = "load graphs" -> IF a.error = "none" THEN LoadGraphs(a, c.disk, c.p[x]) ELSE a

ElementsSoFar(c, i, a) == IsListOf(a, Len(a), c.S \cap Visited(c, i))

CheckedSoFar(c, i, a) ==
  a = "none" => \A x \in Visited(c, i) : ErrorOfElement(c.map, c.left, c.right, x) = "none"

\* Extract: c.graph is what elements are taken from.
VerticesTaken(c, i, a) ==
  /\ DOMAIN a = {"from", "graph", "place"}
  /\ a.from = c.from
  /\ IsCopy(c.graph, a.place, a.graph)
  /\ DOMAIN a.place = c.start \cup Visited(c, i)

\* What comes in with the edges F: their ends.
ComesWith(g, F, x) == \E e \in F : x \in Range(g.edges[e].vertices)

EdgesTaken(c, i, a) ==
  /\ DOMAIN a = {"from", "graph", "place"}
  /\ IsCopy(c.graph, a.place, a.graph)
  /\ c.start \subseteq DOMAIN a.place
  /\ DOMAIN a.place \cap DOMAIN c.graph.edges = Visited(c, i)
  /\ \A x \in DOMAIN a.place :
       x \in c.start \/ x \in Visited(c, i) \/ ComesWith(c.graph, Visited(c, i), x)
  /\ IsRest(c.graph, Visited(c, i), a.from)

\* The elements of the quantifications that were taken out.
GoneLeft(read, ids) == UNION {read.leftQuant[q] : q \in ids}
GoneRight(read, ids) == UNION {RightQuant(read, q) : q \in ids}

\* The vertices that no quantification takes out.
Staying(read) == read.rule.left.vertices \ GoneLeft(read, DOMAIN read.leftQuant)

Made(read, Q, uq) ==
  /\ {"left", "right", "map"} \subseteq DOMAIN uq.main
  /\ IsRest(read.rule.left, GoneLeft(read, Q), uq.main.left)
  /\ IsRest(read.rule.right, GoneRight(read, Q), uq.main.right)
  /\ DOMAIN uq.main.map = DOMAIN read.rule.map \ GoneLeft(read, Q)
  /\ \A x \in DOMAIN uq.main.map : uq.main.map[x] = read.rule.map[x]
  /\ AreQuantifications(uq.quants, Staying(read))

SplitSoFar(read, Q, uq) ==
  /\ {"main", "quants", "error"} \subseteq DOMAIN uq
  /\ uq.error = "none" => Made(read, Q, uq)

\* ExtendRuleByUQ: a.rule is the rule that grows.
IsExtension(a) ==
  /\ DOMAIN a = {"rule", "r2r", "l2l", "genLeft", "genRight"}
  /\ IsInstance(a.rule)

\* What is shared goes where the rule takes it.
SharedGoesAlong(rule, quant, r2r) ==
  \A y \in DOMAIN r2r : \A x \in SharedPreimages(quant, y) :
    quant.match[x] \in DOMAIN rule.map /\ r2r[y] = rule.map[quant.match[x]]

\* The elements done of the right side were gone through, from the rule as it was.
RightExtended(rule, quant, done, a) ==
  /\ IsExtension(a)
  /\ a.rule.left = rule.left /\ a.rule.map = rule.map /\ a.l2l = quant.match
  /\ DOMAIN a.r2r \subseteq done
  /\ Preserves(quant.rule.right, a.rule.right, a.r2r)
  /\ SharedGoesAlong(rule, quant, a.r2r)

\* The rule takes a copied element where the quantification does.
GoesAlong(qmap, map, l2l, r2r, x) ==
  x \in DOMAIN qmap /\ qmap[x] \in DOMAIN r2r => l2l[x] \in DOMAIN map /\ map[l2l[x]] = r2r[qmap[x]]

\* And then the elements done of the left side.
LeftExtended(rule, quant, r2r, done, a) ==
  /\ IsExtension(a)
  /\ a.rule.right = rule.right /\ a.r2r = r2r
  /\ rule.left.vertices \subseteq a.rule.left.vertices
  /\ DOMAIN a.l2l = DOMAIN quant.match \cup done
  /\ Preserves(quant.rule.left, a.rule.left, a.l2l)
  /\ \A x \in DOMAIN a.l2l : GoesAlong(quant.rule.map, a.rule.map, a.l2l, r2r, x)

\* What was loaded has the rules of the GTS, if its file was read.
GTSLoaded(i, a) ==
  /\ DOMAIN a = DOMAIN Nothing
  /\ i = 0 => a = Nothing
  /\ i = 1 => IsGTSReading(a.gts[1])

LoopState(c, i, a) ==
  CASE c.loop = "children"   -> a \in Seq(c.S)
    [] c.loop = "elements"   -> ElementsSoFar(c, i, a)
    [] c.loop = "iterate"    -> IsListOf(a, i, Visited(c, i))
    [] c.loop \in {"node", "edge", "rel"} -> IsReading(a)
    [] c.loop \in {"elem", "side", "rulegraph"} -> IsSide(a)
    [] c.loop \in {"mapelem", "rule"} -> IsRuleReading(a)
    [] c.loop = "check"      -> CheckedSoFar(c, i, a)
    [] c.loop = "take vertex"   -> VerticesTaken(c, i, a)
    [] c.loop = "take edge"     -> EdgesTaken(c, i, a)
    [] c.loop = "delete vertex" -> IsRest(c.graph, Visited(c, i), a)
    [] c.loop = "quantification" -> SplitSoFar(c.read, Visited(c, i), a)
    [] c.loop = "extend right"  -> RightExtended(c.rule, c.quant, Visited(c, i), a)
    [] c.loop = "extend left"   -> LeftExtended(c.rule, c.quant, c.r2r, Visited(c, i), a)
    [] c.loop = "instance"      -> IsInstance(a.rule) /\ c.V \subseteq a.rule.left.vertices
    [] c.loop \in {"initial", "gts"} -> IsGTSReading(a)
    [] c.loop = "load gts"   -> GTSLoaded(i, a)
    [] c.loop = "load graphs" -> DOMAIN a = DOMAIN Nothing /\ a.gts = c.gts

Loops == INSTANCE SequenceLemmas WITH LoopBody <- LoopStep, LoopInvariant <- LoopState

-----------------------------------------------------------------------------
(* Loops of the helpers                                                    *)

\* What the child elements of one name are.
LEMMA ChildrenFacts ==
  ASSUME NEW S, NEW element, element.children \in Seq(S), NEW name
  PROVE  Children(element, name) \in Seq(S)
<1>1. PICK seq : seq = element.children OBVIOUS
<1>2. PICK c : c = [loop |-> "children", S |-> S, name |-> name] BY Zenon
<1>3. Len(seq) \in Nat /\ \A i \in 1 .. Len(seq) : seq[i] \in S BY <1>1, SeqPositions
<1>4. \A a, x : LoopStep(c, a, x) = IF x.name = name THEN Append(a, x) ELSE a
  BY <1>2 DEF LoopStep, KeepChild
<1>5. \A i, a : LoopState(c, i, a) <=> a \in Seq(S) BY <1>2 DEF LoopState
<1>6. LoopState(c, 0, <<>>) BY <1>5, EmptySeq, Zenon
<1>7. \A i \in 1 .. Len(seq) : \A a : LoopState(c, i - 1, a) => LoopState(c, i, LoopStep(c, a, seq[i]))
  BY <1>3, <1>4, <1>5
<1>8. LoopState(c, Len(seq), Loops!Loop(c, <<>>, seq)) BY <1>3, <1>6, <1>7, Loops!LoopKeepsInvariant
<1>9. Loops!Loop(c, <<>>, element.children) = Children(element, name)
  <2> DEFINE list == element.children
  <2>1. \A f : [i \in 0 .. Len(list) |-> IF i = 0 THEN <<>> ELSE LoopStep(c, f[i - 1], list[i])]
              = [i \in 0 .. Len(list) |-> IF i = 0 THEN <<>> ELSE
                  IF list[i].name = name THEN Append(f[i - 1], list[i]) ELSE f[i - 1]]
    BY <1>4, Zenon
  <2> QED BY <2>1, Zenon DEF Loops!Loop, Children, Selected, Folded
<1> QED BY <1>1, <1>5, <1>8, <1>9

\* No element at all.
LEMMA EmptyList == IsListOf(<<>>, 0, {})
<1>1. Len(<<>>) = 0 /\ <<>> \in [1 .. 0 -> {}] BY EmptySeq
<1> QED BY <1>1 DEF IsListOf

\* A list is a sequence, and its elements are those of the set.
LEMMA ListIsSequence ==
  ASSUME NEW s, NEW n, NEW S, IsListOf(s, n, S)
  PROVE  /\ n \in Nat /\ s \in Seq(S) /\ Len(s) = n /\ DOMAIN s = 1 .. n
         /\ S = {s[j] : j \in 1 .. n}
BY LenOfFunction DEF IsListOf

\* One more element at the end.
LEMMA AppendToList ==
  ASSUME NEW s, NEW n, NEW S, IsListOf(s, n, S), NEW x, x \notin S
  PROVE  IsListOf(Append(s, x), n + 1, S \cup {x})
<1>1. n \in Nat /\ s \in Seq(S \cup {x}) /\ Len(s) = n BY ListIsSequence, SeqGrows
<1>2. PICK t : t = Append(s, x) BY Zenon
<1>3. /\ t \in Seq(S \cup {x}) /\ Len(t) = n + 1 /\ t[n + 1] = x
      /\ \A i \in 1 .. n : t[i] = s[i]
  BY <1>1, <1>2, AppendProperties
<1>4. t \in [1 .. (n + 1) -> S \cup {x}] BY <1>1, <1>3, LenProperties
<1>5. \A i \in 1 .. (n + 1) : i \in 1 .. n \/ i = n + 1 BY <1>1
<1>6. \A y \in S \cup {x} : \E i \in 1 .. (n + 1) : t[i] = y
  <2>1. n + 1 \in 1 .. (n + 1) /\ 1 .. n \subseteq 1 .. (n + 1) BY <1>1
  <2> QED BY <1>3, <2>1 DEF IsListOf
<1>7. \A i, j \in 1 .. (n + 1) : t[i] = t[j] => i = j
  <2>1. \A i \in 1 .. n : t[i] \in S /\ t[i] # x BY <1>3 DEF IsListOf
  <2>2. \A i, j \in 1 .. n : t[i] = t[j] => i = j BY <1>3 DEF IsListOf
  <2> QED BY <1>3, <1>5, <2>1, <2>2
<1> QED BY <1>1, <1>2, <1>3, <1>4, <1>6, <1>7 DEF IsListOf

\* Two lists one after the other.
LEMMA ConcatLists ==
  ASSUME NEW s, NEW n, NEW S, IsListOf(s, n, S), NEW t, NEW m, NEW T, IsListOf(t, m, T),
         S \cap T = {}
  PROVE  IsListOf(s \o t, n + m, S \cup T)
<1>1. /\ n \in Nat /\ s \in Seq(S \cup T) /\ Len(s) = n
      /\ m \in Nat /\ t \in Seq(S \cup T) /\ Len(t) = m
  BY ListIsSequence, SeqGrows
<1>2. PICK u : u = s \o t BY Zenon
<1>3. /\ u \in Seq(S \cup T) /\ Len(u) = n + m
      /\ \A i \in 1 .. n + m : u[i] = IF i <= n THEN s[i] ELSE t[i - n]
  BY <1>1, <1>2, ConcatProperties, Zenon
<1>4. \A i \in 1 .. n : i \in 1 .. (n + m) /\ u[i] = s[i] BY <1>1, <1>3
<1>5. ASSUME NEW i \in 1 .. m PROVE n + i \in 1 .. (n + m) /\ u[n + i] = t[i]
  <2>1. n + i \in 1 .. (n + m) /\ ~ n + i <= n /\ (n + i) - n = i BY <1>1
  <2> QED BY <1>3, <2>1
<1>6. u \in [1 .. (n + m) -> S \cup T] BY <1>3, LenProperties
<1>7. \A y \in S \cup T : \E i \in 1 .. (n + m) : u[i] = y BY <1>4, <1>5 DEF IsListOf
<1>8. ASSUME NEW i \in 1 .. (n + m)
      PROVE  \/ i \in 1 .. n /\ u[i] \in S
             \/ \E k \in 1 .. m : i = n + k /\ u[i] = t[k] /\ u[i] \in T
  <2>1. CASE i \in 1 .. n BY <1>4, <2>1 DEF IsListOf
  <2>2. CASE i \notin 1 .. n
    <3>1. PICK k \in 1 .. m : i = n + k
      <4>1. i - n \in 1 .. m /\ i = n + (i - n) BY <1>1, <2>2
      <4> QED BY <4>1
    <3> QED BY <1>5, <3>1, Zenon DEF IsListOf
  <2> QED BY <2>1, <2>2
<1>9. \A i, j \in 1 .. (n + m) : u[i] = u[j] => i = j
  <2> SUFFICES ASSUME NEW i \in 1 .. (n + m), NEW j \in 1 .. (n + m), u[i] = u[j] PROVE i = j
    OBVIOUS
  <2>1. CASE u[i] \in S
    <3>1. u[i] \notin T /\ u[j] \notin T BY <2>1
    <3>2. i \in 1 .. n /\ j \in 1 .. n BY <1>8, <3>1
    <3>3. s[i] = s[j] BY <1>4, <3>2
    <3> QED BY <3>2, <3>3 DEF IsListOf
  <2>2. CASE u[i] \notin S
    <3>1. PICK k \in 1 .. m : i = n + k /\ u[i] = t[k] BY <1>8, <2>2
    <3>2. PICK l \in 1 .. m : j = n + l /\ u[j] = t[l] BY <1>8, <2>2
    <3>3. k = l BY <3>1, <3>2 DEF IsListOf
    <3> QED BY <3>1, <3>2, <3>3
  <2> QED BY <2>1, <2>2
<1>10. IsListOf(u, n + m, S \cup T)
  <2>1. n + m \in Nat BY <1>1
  <2> QED BY <2>1, <1>3, <1>6, <1>7, <1>9 DEF IsListOf
<1> QED BY <1>2, <1>10

\* Some adjacent elements of a list.
LEMMA PartOfList ==
  ASSUME NEW s, NEW n, NEW S, IsListOf(s, n, S), NEW a \in 1 .. n + 1, NEW b \in 0 .. n, a <= b + 1
  PROVE  IsListOf(SubSeq(s, a, b), b - a + 1, {s[j] : j \in a .. b})
<1>1. n \in Nat /\ a \in Nat /\ b \in Nat /\ 1 <= a /\ b <= n BY DEF IsListOf
<1>2. PICK T : T = {s[j] : j \in a .. b} BY Zenon
<1>3. PICK t, m : t = SubSeq(s, a, b) /\ m = b - a + 1 BY Zenon
<1>4. m \in Nat BY <1>1, <1>3
<1>5. /\ t \in Seq(T) /\ Len(t) = m
      /\ \A i \in 1 .. m : t[i] = s[a + i - 1]
  <2>1. \A i \in a .. b : s[i] \in T BY <1>2
  <2>2. /\ t \in Seq(T) /\ Len(t) = IF a <= b THEN b - a + 1 ELSE 0
        /\ \A i \in 1 .. b - a + 1 : t[i] = s[a + i - 1]
    BY <1>1, <1>3, <2>1, SubSeqProperties
  <2> QED BY <1>1, <1>3, <2>2
<1>6. t \in [1 .. m -> T] BY <1>5, LenProperties
<1>7. ASSUME NEW i \in 1 .. m PROVE a + i - 1 \in 1 .. n /\ a + i - 1 \in a .. b
  BY <1>1, <1>3
<1>8. \A y \in T : \E i \in 1 .. m : t[i] = y
  <2> SUFFICES ASSUME NEW j \in a .. b PROVE \E i \in 1 .. m : t[i] = s[j]
    BY <1>2
  <2>1. j - a + 1 \in 1 .. m /\ a + (j - a + 1) - 1 = j BY <1>1, <1>3
  <2> QED BY <1>5, <2>1
<1>9. \A i, j \in 1 .. m : t[i] = t[j] => i = j
  <2> SUFFICES ASSUME NEW i \in 1 .. m, NEW j \in 1 .. m, t[i] = t[j] PROVE i = j
    OBVIOUS
  <2>1. PICK k, l : k = a + i - 1 /\ l = a + j - 1 OBVIOUS
  <2>2. s[k] = s[l] /\ k \in 1 .. n /\ l \in 1 .. n BY <1>5, <1>7, <2>1
  <2>3. k = l BY <2>2 DEF IsListOf
  <2> QED BY <1>1, <2>1, <2>3
<1> QED BY <1>2, <1>3, <1>4, <1>5, <1>6, <1>8, <1>9, Zenon DEF IsListOf

\* One more element somewhere.
LEMMA InsertIntoList ==
  ASSUME NEW s, NEW n, NEW S, IsListOf(s, n, S), NEW x, x \notin S, NEW k \in 1 .. n + 1
  PROVE  IsListOf(InsertAt(s, k, x), n + 1, S \cup {x})
<1>1. n \in Nat /\ Len(s) = n /\ k \in Nat /\ k - 1 \in 0 .. n /\ 1 \in 1 .. n + 1 /\ n \in 0 .. n
      /\ 1 <= (k - 1) + 1 /\ k <= n + 1
  BY DEF IsListOf
<1>2. PICK front, back : front = SubSeq(s, 1, k - 1) /\ back = SubSeq(s, k, n) BY Zenon
<1>3. PICK A, B : A = {s[j] : j \in 1 .. (k - 1)} /\ B = {s[j] : j \in k .. n} BY Zenon
<1>4. IsListOf(front, (k - 1) - 1 + 1, A) BY <1>1, <1>2, <1>3, PartOfList
<1>5. IsListOf(back, n - k + 1, B) BY <1>1, <1>2, <1>3, PartOfList, Zenon
<1>6. IsListOf(<<x>>, 1, {x})
  <2>1. <<x>> \in [1 .. 1 -> {x}] /\ Len(<<x>>) = 1 /\ <<x>>[1] = x OBVIOUS
  <2>2. \A i \in 1 .. 1 : i = 1 OBVIOUS
  <2>3. \A i, j \in 1 .. 1 : i = j BY <2>2
  <2> QED BY <2>1, <2>3 DEF IsListOf
<1>7. A \cup B = S
  <2>1. \A j \in 1 .. n : j \in 1 .. (k - 1) \/ j \in k .. n BY <1>1
  <2>2. 1 .. (k - 1) \subseteq 1 .. n /\ k .. n \subseteq 1 .. n BY <1>1
  <2>3. S = {s[j] : j \in 1 .. n} BY ListIsSequence
  <2> QED BY <1>3, <2>1, <2>2, <2>3
<1>8. A \cap B = {}
  <2> SUFFICES ASSUME NEW i \in 1 .. (k - 1), NEW j \in k .. n, s[i] = s[j] PROVE FALSE
    BY <1>3
  <2>1. i \in 1 .. n /\ j \in 1 .. n /\ i # j BY <1>1
  <2> QED BY <2>1 DEF IsListOf
<1>9. PICK t : t = front \o <<x>> BY Zenon
<1>10. PICK p, q : p = (k - 1) - 1 + 1 /\ q = n - k + 1 OBVIOUS
<1>11. IsListOf(t, p + 1, A \cup {x})
  <2>1. A \cap {x} = {} BY <1>7
  <2> QED BY <1>4, <1>6, <1>9, <1>10, <2>1, ConcatLists, Zenon
<1>12. IsListOf(t \o back, (p + 1) + q, (A \cup {x}) \cup B)
  <2>1. (A \cup {x}) \cap B = {} BY <1>7, <1>8
  <2> QED BY <1>5, <1>10, <1>11, <2>1, ConcatLists
<1>13. (p + 1) + q = n + 1 /\ (A \cup {x}) \cup B = S \cup {x} BY <1>1, <1>7, <1>10
<1>14. InsertAt(s, k, x) = t \o back BY <1>1, <1>2, <1>9 DEF InsertAt
<1> QED BY <1>12, <1>13, <1>14

\* What a loop over a list has visited after one more round.
LEMMA OneMoreVisited ==
  ASSUME NEW c, NEW n, NEW S, IsListOf(c.seq, n, S), NEW i \in 1 .. n
  PROVE  /\ Visited(c, i) = Visited(c, i - 1) \cup {c.seq[i]}
         /\ c.seq[i] \in S /\ c.seq[i] \notin Visited(c, i - 1)
         /\ Visited(c, i - 1) \subseteq S
<1>1. n \in Nat /\ i \in Nat /\ i - 1 \in Nat BY DEF IsListOf
<1>2. \A j \in 1 .. i : j \in 1 .. (i - 1) \/ j = i BY <1>1
<1>3. 1 .. (i - 1) \subseteq 1 .. i /\ i \in 1 .. i /\ 1 .. i \subseteq 1 .. n BY <1>1
<1>4. Visited(c, i) = Visited(c, i - 1) \cup {c.seq[i]} BY <1>2, <1>3 DEF Visited
<1>5. ASSUME NEW j \in 1 .. (i - 1) PROVE j \in 1 .. n /\ c.seq[j] # c.seq[i]
  <2>1. j \in 1 .. n /\ j # i BY <1>1, <1>3
  <2> QED BY <2>1 DEF IsListOf
<1>6. \A j \in 1 .. n : c.seq[j] \in S BY DEF IsListOf
<1> QED BY <1>4, <1>5, <1>6 DEF Visited

\* And before the first and after the last one.
LEMMA AllVisited ==
  ASSUME NEW c, NEW n, NEW S, IsListOf(c.seq, n, S)
  PROVE  Visited(c, 0) = {} /\ Visited(c, n) = S
<1>1. 1 .. 0 = {} OBVIOUS
<1>2. S = {c.seq[j] : j \in 1 .. n} BY ListIsSequence
<1> QED BY <1>1, <1>2 DEF Visited

\* The elements of a list that are in a set.
LEMMA AmongFacts ==
  ASSUME NEW list, NEW n, NEW T, IsListOf(list, n, T), NEW S
  PROVE  \E m : IsListOf(Among(S, list), m, S \cap T)
<1>1. PICK c : c = [loop |-> "elements", S |-> S, seq |-> list] BY Zenon
<1>2. c.seq = list /\ c.S = S /\ Len(list) = n /\ n \in Nat BY <1>1 DEF IsListOf
<1>3. \A a, x : LoopStep(c, a, x) = IF x \in S THEN Append(a, x) ELSE a
  BY <1>1 DEF LoopStep, KeepElement
<1>4. \A i, a : LoopState(c, i, a) <=> IsListOf(a, Len(a), S \cap Visited(c, i))
  BY <1>1 DEF LoopState, ElementsSoFar
<1>5. IsListOf(c.seq, n, T) BY <1>2
<1>6. LoopState(c, 0, <<>>)
  <2>1. S \cap Visited(c, 0) = {} /\ Len(<<>>) = 0 BY <1>5, AllVisited
  <2> QED BY <1>4, <2>1, EmptyList
<1>7. ASSUME NEW i \in 1 .. n, NEW a, LoopState(c, i - 1, a)
      PROVE  LoopState(c, i, LoopStep(c, a, list[i]))
  <2>1. PICK V, m, x : V = S \cap Visited(c, i - 1) /\ m = Len(a) /\ x = list[i] BY Zenon
  <2>2. IsListOf(a, m, V) BY <1>4, <1>7, <2>1
  <2>3. Visited(c, i) = Visited(c, i - 1) \cup {x} /\ x \notin Visited(c, i - 1)
    BY <1>2, <1>5, <2>1, OneMoreVisited, Zenon
  <2>4. CASE x \in S
    <3>1. IsListOf(Append(a, x), m + 1, V \cup {x}) BY <2>1, <2>2, <2>3, AppendToList, Zenon
    <3>2. V \cup {x} = S \cap Visited(c, i) BY <2>1, <2>3, <2>4
    <3>3. PICK b : b = Append(a, x) BY Zenon
    <3>4. IsListOf(b, m + 1, S \cap Visited(c, i)) BY <3>1, <3>2, <3>3, Zenon
    <3>5. Len(b) = m + 1 BY <3>4 DEF IsListOf
    <3> QED BY <1>3, <1>4, <2>1, <2>4, <3>3, <3>4, <3>5, Zenon
  <2>5. CASE x \notin S
    <3>1. V = S \cap Visited(c, i) BY <2>1, <2>3, <2>5
    <3> QED BY <1>3, <1>4, <2>1, <2>2, <2>5, <3>1
  <2> QED BY <2>4, <2>5
<1>8. LoopState(c, n, Loops!Loop(c, <<>>, list)) BY <1>2, <1>6, <1>7, Loops!LoopKeepsInvariant
<1>9. Loops!Loop(c, <<>>, list) = Among(S, list)
  <2>1. \A f : [i \in 0 .. Len(list) |-> IF i = 0 THEN <<>> ELSE LoopStep(c, f[i - 1], list[i])]
              = [i \in 0 .. Len(list) |-> IF i = 0 THEN <<>> ELSE
                  IF list[i] \in S THEN Append(f[i - 1], list[i]) ELSE f[i - 1]]
    BY <1>3, Zenon
  <2> QED BY <2>1, Zenon DEF Loops!Loop, Among, Selected, Folded
<1>10. Visited(c, n) = T BY <1>5, AllVisited
<1> QED BY <1>4, <1>8, <1>9, <1>10

\* An unordered set is iterated as a list of its elements.
LEMMA IterateFacts ==
  ASSUME NEW S, IsFiniteSet(S)
  PROVE  \E n : IsListOf(Iterate(S), n, S)
<1>1. PICK list : list = Listed(S) OBVIOUS
<1>2. PICK n : IsListOf(list, n, S)
  <2>1. Listed(S) = ListsOf(S)[S] BY FoldIsList, Zenon DEF Listed
  <2> QED BY <1>1, <2>1, ListsFacts
<1>3. PICK c : c = [loop |-> "iterate", seq |-> list] BY Zenon
<1>4. c.seq = list /\ Len(list) = n /\ n \in Nat BY <1>2, <1>3 DEF IsListOf
<1>5. \A a, x : LoopStep(c, a, x) = Inserted(a, x) BY <1>3 DEF LoopStep
<1>6. \A i, a : LoopState(c, i, a) <=> IsListOf(a, i, Visited(c, i)) BY <1>3 DEF LoopState
<1>7. IsListOf(c.seq, n, S) BY <1>2, <1>4
<1>8. LoopState(c, 0, <<>>)
  <2>1. Visited(c, 0) = {} BY <1>7, AllVisited, Zenon
  <2> QED BY <1>6, <2>1, EmptyList
<1>9. ASSUME NEW i \in 1 .. n, NEW a, LoopState(c, i - 1, a)
      PROVE  LoopState(c, i, LoopStep(c, a, list[i]))
  <2>1. PICK V, m, x : V = Visited(c, i - 1) /\ m = i - 1 /\ x = list[i] OBVIOUS
  <2>2. IsListOf(a, m, V) BY <1>6, <1>9, <2>1
  <2>3. Visited(c, i) = V \cup {x} /\ x \notin V BY <1>4, <1>7, <2>1, OneMoreVisited, Zenon
  <2>4. PICK before : before = {j \in DOMAIN a : Before(a[j], x)} BY Zenon
  <2>5. PICK k : k = 1 + Cardinality(before) OBVIOUS
  <2>6. k \in 1 .. m + 1
    <3>1. m \in Nat /\ DOMAIN a = 1 .. m BY <2>2, ListIsSequence
    <3>2. IsFiniteSet(1 .. m) /\ Cardinality(1 .. m) = m BY <3>1, FS_Interval
    <3>3. before \subseteq 1 .. m BY <2>4, <3>1
    <3>4. Cardinality(before) <= m /\ IsFiniteSet(before) BY <3>2, <3>3, FS_Subset, Zenon
    <3>5. Cardinality(before) \in Nat BY <3>4, FS_CardinalityType
    <3> QED BY <2>5, <3>1, <3>4, <3>5
  <2>7. IsListOf(InsertAt(a, k, x), m + 1, V \cup {x}) BY <2>2, <2>3, <2>6, InsertIntoList
  <2>8. Inserted(a, x) = InsertAt(a, k, x) BY <2>4, <2>5 DEF Inserted
  <2>9. m + 1 = i BY <2>1
  <2> QED BY <1>5, <1>6, <2>1, <2>3, <2>7, <2>8, <2>9
<1>10. LoopState(c, n, Loops!Loop(c, <<>>, list)) BY <1>4, <1>8, <1>9, Loops!LoopKeepsInvariant
<1>11. Loops!Loop(c, <<>>, Listed(S)) = Iterate(S)
  <2> DEFINE l == Listed(S)
  <2>1. \A f : [i \in 0 .. Len(l) |-> IF i = 0 THEN <<>> ELSE LoopStep(c, f[i - 1], l[i])]
              = [i \in 0 .. Len(l) |-> IF i = 0 THEN <<>> ELSE Inserted(f[i - 1], l[i])]
    BY <1>5
  <2> QED BY <2>1, Zenon DEF Loops!Loop, Iterate, Folded
<1>12. Visited(c, n) = S BY <1>7, AllVisited
<1> QED BY <1>1, <1>6, <1>10, <1>11, <1>12

\* The elements of an ordered map, and those of a graph: vertices before edges.
LEMMA AscendingFacts ==
  ASSUME NEW S, IsFiniteSet(S), S \subseteq Nat
  PROVE  IsListOf(Ascending(S), Cardinality(S), S)
<1>1. Ascending(S) = RankedList(S) BY DEF Ascending, RankedList, RankIn
<1> QED BY <1>1, RankedFacts, Zenon

\* An edge of the graph comes after all vertices in the list.
VerticesComeFirst(g, list) ==
  \A i \in DOMAIN list : list[i] \in DOMAIN g.edges =>
    \A j \in DOMAIN list : list[j] \in g.vertices => j < i

\* The elements of a graph in its order: all that were asked for, vertices before edges.
LEMMA InOrderFacts ==
  ASSUME NEW g, IsGraph(g), NEW ids
  PROVE  \E n : /\ IsListOf(InOrder(g, ids), n, Elements(g) \cap ids)
                /\ VerticesComeFirst(g, InOrder(g, ids))
<1>1. PICK V, F : V = g.vertices \cap ids /\ F = DOMAIN g.edges \cap ids BY Zenon
<1>2. V \cap F = {} /\ V \cup F = Elements(g) \cap ids BY <1>1 DEF IsGraph, Elements
<1>3. IsFiniteSet(V) /\ V \subseteq Nat /\ IsFiniteSet(F) /\ F \subseteq Nat
  <2>1. V \subseteq Elements(g) /\ F \subseteq Elements(g) BY <1>2
  <2> QED BY <2>1, GraphIsFinite, FS_Subset
<1>4. PICK s, n, t, m : /\ s = Ascending(V) /\ n = Cardinality(V)
                        /\ t = Ascending(F) /\ m = Cardinality(F)
  OBVIOUS
<1>5. IsListOf(s, n, V) /\ IsListOf(t, m, F) BY <1>3, <1>4, AscendingFacts, Zenon
<1>6. PICK u : u = s \o t BY Zenon
<1>7. /\ IsListOf(u, n + m, V \cup F)
      /\ \A i \in 1 .. n : u[i] = s[i]
      /\ \A i \in 1 .. m : u[n + i] = t[i]
  <2>1. V \cap F = {} /\ IsListOf(s, n, V) /\ IsListOf(t, m, F) BY <1>2, <1>5
  <2>2. IsListOf(s \o t, n + m, V \cup F) BY <2>1, ConcatLists
  <2>3. /\ n \in Nat /\ s \in Seq(V \cup F) /\ Len(s) = n
        /\ m \in Nat /\ t \in Seq(V \cup F) /\ Len(t) = m
    BY <2>1, ListIsSequence, SeqGrows
  <2>4. \A i \in 1 .. n + m : u[i] = IF i <= n THEN s[i] ELSE t[i - n]
    BY <1>6, <2>3, ConcatProperties, Zenon
  <2>5. \A i \in 1 .. n : u[i] = s[i] BY <2>3, <2>4
  <2>6. ASSUME NEW i \in 1 .. m PROVE u[n + i] = t[i]
    <3>1. n + i \in 1 .. n + m /\ ~ n + i <= n /\ (n + i) - n = i BY <2>3
    <3> QED BY <2>4, <3>1
  <2> QED BY <1>6, <2>2, <2>5, <2>6, Zenon
<1>8. InOrder(g, ids) = u BY <1>1, <1>4, <1>6 DEF InOrder
<1>9. n \in Nat /\ m \in Nat /\ DOMAIN u = 1 .. n + m BY <1>5, <1>7, ListIsSequence DEF IsListOf
<1>10. \A i \in 1 .. n + m : (i \in 1 .. n /\ u[i] \in V) \/ (~ i <= n /\ u[i] \in F)
  <2> SUFFICES ASSUME NEW i \in 1 .. n + m
               PROVE  (i \in 1 .. n /\ u[i] \in V) \/ (~ i <= n /\ u[i] \in F)
    OBVIOUS
  <2>1. CASE i <= n
    <3>1. i \in 1 .. n BY <1>9, <2>1
    <3> QED BY <1>5, <1>7, <3>1 DEF IsListOf
  <2>2. CASE ~ i <= n
    <3>1. i - n \in 1 .. m /\ n + (i - n) = i BY <1>9, <2>2
    <3>2. t[i - n] \in F BY <1>5, <3>1 DEF IsListOf
    <3>3. u[n + (i - n)] = t[i - n] BY <1>7, <3>1
    <3> QED BY <2>2, <3>1, <3>2, <3>3
  <2> QED BY <2>1, <2>2
<1>11. g.vertices \cap F = {} /\ DOMAIN g.edges \cap V = {} BY <1>1 DEF IsGraph
<1>12. VerticesComeFirst(g, u)
  <2> SUFFICES ASSUME NEW i \in 1 .. n + m, u[i] \in DOMAIN g.edges,
                      NEW j \in 1 .. n + m, u[j] \in g.vertices
               PROVE  j < i
    BY <1>9 DEF VerticesComeFirst
  <2>1. ~ i <= n /\ j \in 1 .. n BY <1>10, <1>11
  <2> QED BY <1>9, <2>1
<1> QED BY <1>2, <1>7, <1>8, <1>12

-----------------------------------------------------------------------------
(* Deleting elements                                                       *)

\* Nothing is deleted.
LEMMA NothingDeleted ==
  ASSUME NEW g, IsGraph(g)
  PROVE  IsRest(g, {}, g)
BY DEF IsRest

\* deleteEdge
LEMMA DeleteEdgeFacts ==
  ASSUME NEW g, NEW ids, NEW h, IsRest(g, ids, h), NEW e \in DOMAIN g.edges, e \notin g.vertices
  PROVE  IsRest(g, ids \cup {e}, DeleteEdge(h, e))
<1>1. PICK n \in Nat : n = h.lastUsedID BY DEF IsRest, IsGraph
<1>2. PICK k : k = DeleteEdge(h, e) OBVIOUS
<1>3. /\ DOMAIN k = DOMAIN h /\ k.vertices = h.vertices /\ k.lastUsedID = n
      /\ k.edges = [f \in DOMAIN h.edges \ {e} |-> h.edges[f]]
  BY <1>1, <1>2 DEF DeleteEdge, Restrict, IsRest, IsGraph
<1>4. IsGraph(k)
  <2>1. IsGraph(h) BY DEF IsRest
  <2>2. \A f \in DOMAIN k.edges : f \in DOMAIN h.edges /\ k.edges[f] = h.edges[f] BY <1>3
  <2> QED BY <1>1, <1>3, <2>1, <2>2 DEF IsGraph
<1> QED BY <1>2, <1>3, <1>4 DEF IsRest

\* deleteVertex, when no edge is left at the vertex
LEMMA DeleteVertexFacts ==
  ASSUME NEW g, NEW ids, NEW h, IsRest(g, ids, h), NEW v \in g.vertices, v \notin DOMAIN g.edges,
         \A f \in DOMAIN h.edges : v \notin Range(h.edges[f].vertices)
  PROVE  IsRest(g, ids \cup {v}, DeleteVertex(h, v))
<1>1. PICK n \in Nat : n = h.lastUsedID BY DEF IsRest, IsGraph
<1>2. PICK k : k = DeleteVertex(h, v) OBVIOUS
<1>3. /\ DOMAIN k = DOMAIN h /\ k.vertices = h.vertices \ {v} /\ k.lastUsedID = n
      /\ k.edges = [f \in {d \in DOMAIN h.edges : v \notin Range(h.edges[d].vertices)} |-> h.edges[f]]
  BY <1>1, <1>2 DEF DeleteVertex, Restrict, IsRest, IsGraph
<1>4. DOMAIN k.edges = DOMAIN h.edges /\ \A f \in DOMAIN h.edges : k.edges[f] = h.edges[f]
  BY <1>3
<1>5. IsGraph(h) BY DEF IsRest
<1>6. ASSUME NEW f \in DOMAIN h.edges PROVE IsEdge(h.edges[f], k.vertices)
  <2>1. PICK s : s = h.edges[f].vertices OBVIOUS
  <2>2. s \in Seq(h.vertices) /\ IsEdge(h.edges[f], h.vertices) BY <1>5, <2>1 DEF IsGraph, IsEdge
  <2>3. \A i \in DOMAIN s : s[i] # v BY <2>1 DEF Range
  <2>4. Len(s) \in Nat /\ DOMAIN s = 1 .. Len(s) /\ \A i \in 1 .. Len(s) : s[i] \in h.vertices
    BY <2>2, SeqPositions
  <2>5. s \in [1 .. Len(s) -> k.vertices]
    <3>1. s \in [1 .. Len(s) -> h.vertices] BY <2>2, LenProperties
    <3> QED BY <1>3, <2>3, <2>4, <3>1
  <2>6. s \in Seq(k.vertices) BY <2>4, <2>5, LenOfFunction
  <2> QED BY <2>1, <2>2, <2>6 DEF IsEdge
<1>7. IsGraph(k)
  <2>1. h.vertices \cap DOMAIN h.edges = {} /\ h.vertices \subseteq 1 .. n /\ DOMAIN h.edges \subseteq 1 .. n
        /\ {"vertices", "edges", "lastUsedID"} \subseteq DOMAIN h
    BY <1>1, <1>5 DEF IsGraph
  <2> QED BY <1>1, <1>3, <1>4, <1>6, <2>1, Zenon DEF IsGraph
<1>8. k.vertices = g.vertices \ (ids \cup {v}) BY <1>3 DEF IsRest
<1>9. DOMAIN k.edges = DOMAIN g.edges \ (ids \cup {v}) BY <1>4 DEF IsRest
<1> QED BY <1>2, <1>4, <1>7, <1>8, <1>9 DEF IsRest

-----------------------------------------------------------------------------
(* Reading graphs                                                          *)

\* The elements of documents: their children are such elements, in a row.
AreElements(S) == \A element \in S : element.children \in Seq(S)

IsDocument(element) == \E S : AreElements(S) /\ element \in S

\* A failed reading is a reading.
LEMMA FailFacts ==
  ASSUME NEW r, NEW error
  PROVE  /\ IsReading(r) => IsReading(Fail(r, error))
         /\ IsSide(r) => IsSide(Fail(r, error))
         /\ IsRuleReading(r) => IsRuleReading(Fail(r, error))
         /\ IsGTSReading(r) => IsGTSReading(Fail(r, error))
<1>1. PICK f : f = Fail(r, error) OBVIOUS
<1>2. DOMAIN f = DOMAIN r /\ \A d \in DOMAIN r : d # "error" => f[d] = r[d] BY <1>1 DEF Fail
<1>3. IsReading(r) => IsReading(f) BY <1>2 DEF IsReading
<1>4. IsSide(r) => IsSide(f) BY <1>2 DEF IsSide
<1>5. IsRuleReading(r) => IsRuleReading(f) BY <1>2 DEF IsRuleReading
<1>6. IsGTSReading(r) => IsGTSReading(f) BY <1>2 DEF IsGTSReading
<1> QED BY <1>1, <1>3, <1>4, <1>5, <1>6

\* The reading before the first node.
LEMMA EmptyReadingFacts == IsReading(EmptyReading) /\ EmptyReading.error = "none"
<1>1. PICK r : r = EmptyReading OBVIOUS
<1>2. /\ DOMAIN r = {"graph", "strToID", "nodeIDList", "error"}
      /\ r.graph = EmptyGraph /\ r.nodeIDList = <<>> /\ r.error = "none"
  BY <1>1 DEF EmptyReading
<1>3. DOMAIN <<>> = {} OBVIOUS
<1> QED BY <1>1, <1>2, <1>3, EmptyGraphFacts DEF IsReading

\* A node becomes a vertex.
LEMMA ReadNodeFacts ==
  ASSUME NEW r, IsReading(r), NEW node
  PROVE  IsReading(ReadNode(r, node))
<1>1. PICK id, new, g, list : /\ id = node.attributes.id /\ new = NewID(r.graph)
                              /\ g = AddVertex(r.graph) /\ list = Entered(r.nodeIDList, id, new)
  OBVIOUS
<1>2. PICK strToID : strToID = Entered(r.strToID, id, new) OBVIOUS
<1>3. PICK next : next = [r EXCEPT !.graph = g, !.nodeIDList = list, !.strToID = strToID] OBVIOUS
<1>4. ReadNode(r, node) = XMLioException(r) \/ ReadNode(r, node) = next
  BY <1>1, <1>2, <1>3 DEF ReadNode
<1>5. IsReading(next)
  <2>1. DOMAIN next = DOMAIN r /\ next.graph = g /\ next.nodeIDList = list BY <1>3 DEF IsReading
  <2>2. /\ IsGraph(g) /\ DOMAIN g = DOMAIN r.graph /\ g.vertices = r.graph.vertices \cup {new}
    BY <1>1, AddVertexFacts DEF IsReading
  <2>3. /\ DOMAIN list = DOMAIN r.nodeIDList \cup {id} /\ list[id] = new
        /\ \A z \in DOMAIN r.nodeIDList : z # id => list[z] = r.nodeIDList[z]
    <3>1. PICK old : old = r.nodeIDList OBVIOUS
    <3>2. list = Entered(old, id, new) BY <1>1, <3>1
    <3>3. /\ DOMAIN list = DOMAIN old \cup {id} /\ list[id] = new
          /\ \A z \in DOMAIN old : z # id => list[z] = old[z]
      BY <3>2 DEF Entered
    <3> QED BY <3>1, <3>3
  <2>4. \A z \in DOMAIN list : list[z] \in g.vertices BY <2>2, <2>3 DEF IsReading
  <2> QED BY <2>1, <2>2, <2>4 DEF IsReading
<1> QED BY <1>4, <1>5, FailFacts DEF XMLioException

\* An edge is stored between vertices.
LEMMA StoreEdgeFacts ==
  ASSUME NEW r, IsReading(r), NEW element, NEW n \in Nat, NEW attached, DOMAIN attached = 1 .. n,
         \A i \in 1 .. n : attached[i] \in DOMAIN r.nodeIDList
  PROVE  IsReading(StoreEdge(r, element, attached))
<1>1. PICK ends : ends = [i \in DOMAIN attached |-> r.nodeIDList[attached[i]]] BY Zenon
<1>2. ends \in [1 .. n -> r.graph.vertices] BY <1>1 DEF IsReading
<1>3. ends \in Seq(r.graph.vertices) BY <1>2, LenOfFunction
<1>4. PICK label, g : label = ReadLabel(element) /\ g = AddEdge(r.graph, label, ends) OBVIOUS
<1>5. IsGraph(g) /\ DOMAIN g = DOMAIN r.graph /\ g.vertices = r.graph.vertices
  <2>1. PICK h : h = r.graph OBVIOUS
  <2>2. IsGraph(h) /\ ends \in Seq(h.vertices) /\ g = AddEdge(h, label, ends)
    BY <1>3, <1>4, <2>1 DEF IsReading
  <2>3. IsGraph(g) /\ DOMAIN g = DOMAIN h /\ g.vertices = h.vertices
    <3>1. /\ IsGraph(AddEdge(h, label, ends)) /\ DOMAIN AddEdge(h, label, ends) = DOMAIN h
          /\ AddEdge(h, label, ends).vertices = h.vertices
      BY <2>2, AddEdgeFacts, Zenon
    <3> QED BY <2>2, <3>1
  <2> QED BY <2>1, <2>3
<1>6. PICK strToID : strToID = Entered(r.strToID, element.attributes.id, NewID(r.graph)) OBVIOUS
<1>7. PICK next : next = [r EXCEPT !.graph = g, !.strToID = strToID] OBVIOUS
<1>8. StoreEdge(r, element, attached) = next BY <1>1, <1>4, <1>6, <1>7 DEF StoreEdge
<1>9. DOMAIN next = DOMAIN r /\ next.graph = g /\ next.nodeIDList = r.nodeIDList
  BY <1>7 DEF IsReading
<1> QED BY <1>5, <1>8, <1>9 DEF IsReading

\* A directed edge.
LEMMA ReadEdgeFacts ==
  ASSUME NEW r, IsReading(r), NEW edge
  PROVE  IsReading(ReadEdge(r, edge))
<1>1. CASE ReadEdge(r, edge) = XMLioException(r) BY <1>1, FailFacts DEF XMLioException
<1>2. CASE ReadEdge(r, edge) # XMLioException(r)
  <2>1. PICK from, to : from = edge.attributes.from /\ to = edge.attributes.to OBVIOUS
  <2>2. /\ ReadEdge(r, edge) = StoreEdge(r, edge, <<from, to>>)
        /\ \A a \in {"from", "to"} : edge.attributes[a] \in DOMAIN r.nodeIDList
    BY <1>2, <2>1 DEF ReadEdge
  <2>3. from \in DOMAIN r.nodeIDList /\ to \in DOMAIN r.nodeIDList BY <2>1, <2>2
  <2>4. DOMAIN <<from, to>> = 1 .. 2 /\ <<from, to>>[1] = from /\ <<from, to>>[2] = to OBVIOUS
  <2>5. \A i \in 1 .. 2 : i = 1 \/ i = 2 OBVIOUS
  <2>6. \A i \in 1 .. 2 : <<from, to>>[i] \in DOMAIN r.nodeIDList BY <2>3, <2>4, <2>5
  <2> QED BY <2>2, <2>4, <2>6, StoreEdgeFacts, Zenon
<1> QED BY <1>1, <1>2

\* A hyperedge: each number from 0 has a tentacle, and each tentacle a known vertex.
LEMMA ReadRelFacts ==
  ASSUME NEW r, IsReading(r), NEW S, NEW rel, rel.children \in Seq(S)
  PROVE  IsReading(ReadRel(r, rel))
<1>1. CASE ReadRel(r, rel) = XMLioException(r) BY <1>1, FailFacts DEF XMLioException
<1>2. CASE ReadRel(r, rel) # XMLioException(r)
  <2>1. PICK relends : relends = Children(rel, "relend") OBVIOUS
  <2>2. relends \in Seq(S) BY <2>1, ChildrenFacts
  <2>3. PICK n \in Nat : n = Len(relends) /\ DOMAIN relends = 1 .. n BY <2>2, SeqPositions
  <2>4. PICK attached : attached =
          [k \in DOMAIN relends |->
             (CHOOSE one \in Range(relends) : one.attributes.startorder = k - 1).attributes.target]
    BY Zenon
  <2>5. ReadRel(r, rel) = StoreEdge(r, rel, attached) /\ GoodTentacles(r, relends)
    BY <1>2, <2>1, <2>4 DEF ReadRel
  <2>6. ASSUME NEW k \in 1 .. n PROVE attached[k] \in DOMAIN r.nodeIDList
    <3>1. PICK one : one = CHOOSE x \in Range(relends) : x.attributes.startorder = k - 1 OBVIOUS
    <3>2. k - 1 \in 0 .. n - 1 BY <2>3
    <3>3. {relends[i].attributes.startorder : i \in DOMAIN relends} = 0 .. n - 1
      BY <2>3, <2>5 DEF GoodTentacles, OrderedFromZero
    <3>4. \E x \in Range(relends) : x.attributes.startorder = k - 1 BY <3>2, <3>3 DEF Range
    <3>5. one \in Range(relends) BY <3>1, <3>4
    <3>6. \A x \in Range(relends) : x.attributes.target \in DOMAIN r.nodeIDList
      BY <2>5 DEF GoodTentacles, Range
    <3>7. attached[k] = one.attributes.target BY <2>3, <2>4, <3>1
    <3> QED BY <3>5, <3>6, <3>7
  <2>7. DOMAIN attached = 1 .. n BY <2>3, <2>4
  <2> QED BY <2>5, <2>6, <2>7, StoreEdgeFacts
<1> QED BY <1>1, <1>2

\* The reading after all nodes ...
LEMMA ReadNodesFacts ==
  ASSUME NEW S, NEW root, root.children \in Seq(S)
  PROVE  IsReading(ReadNodes(root))
<1>1. PICK c : c = [loop |-> "node"] BY Zenon
<1>2. PICK list : list = Children(root, "node") OBVIOUS
<1>3. Len(list) \in Nat BY <1>2, ChildrenFacts, SeqPositions
<1>4. \A a, x : LoopStep(c, a, x) = IF a.error = "none" THEN ReadNode(a, x) ELSE a
  BY <1>1 DEF LoopStep
<1>5. \A i, a : LoopState(c, i, a) <=> IsReading(a) BY <1>1 DEF LoopState
<1>6. LoopState(c, 0, EmptyReading) BY <1>5, EmptyReadingFacts
<1>7. \A i \in 1 .. Len(list) : \A a : LoopState(c, i - 1, a) => LoopState(c, i, LoopStep(c, a, list[i]))
  BY <1>4, <1>5, ReadNodeFacts
<1>8. LoopState(c, Len(list), Loops!Loop(c, EmptyReading, list))
  BY <1>3, <1>6, <1>7, Loops!LoopKeepsInvariant
<1>9. Loops!Loop(c, EmptyReading, Children(root, "node")) = ReadNodes(root)
  <2> DEFINE l == Children(root, "node")
  <2>1. \A f : [i \in 0 .. Len(l) |-> IF i = 0 THEN EmptyReading ELSE LoopStep(c, f[i - 1], l[i])]
              = [i \in 0 .. Len(l) |-> IF i = 0 THEN EmptyReading ELSE
                  IF f[i - 1].error = "none" THEN ReadNode(f[i - 1], l[i]) ELSE f[i - 1]]
    BY <1>4
  <2> QED BY <2>1, Zenon DEF Loops!Loop, ReadNodes, Each, Folded
<1> QED BY <1>2, <1>5, <1>8, <1>9

\* ... after all edges ...
LEMMA ReadEdgesFacts ==
  ASSUME NEW S, NEW root, root.children \in Seq(S)
  PROVE  IsReading(ReadEdges(root))
<1>1. PICK c : c = [loop |-> "edge"] BY Zenon
<1>2. PICK base, list : base = ReadNodes(root) /\ list = Children(root, "edge") OBVIOUS
<1>3. Len(list) \in Nat BY <1>2, ChildrenFacts, SeqPositions
<1>4. \A a, x : LoopStep(c, a, x) = IF a.error = "none" THEN ReadEdge(a, x) ELSE a
  BY <1>1 DEF LoopStep
<1>5. \A i, a : LoopState(c, i, a) <=> IsReading(a) BY <1>1 DEF LoopState
<1>6. LoopState(c, 0, base) BY <1>2, <1>5, ReadNodesFacts
<1>7. \A i \in 1 .. Len(list) : \A a : LoopState(c, i - 1, a) => LoopState(c, i, LoopStep(c, a, list[i]))
  BY <1>4, <1>5, ReadEdgeFacts
<1>8. LoopState(c, Len(list), Loops!Loop(c, base, list))
  BY <1>3, <1>6, <1>7, Loops!LoopKeepsInvariant
<1>9. Loops!Loop(c, ReadNodes(root), Children(root, "edge")) = ReadEdges(root)
  <2> DEFINE b == ReadNodes(root)
             l == Children(root, "edge")
  <2>1. \A f : [i \in 0 .. Len(l) |-> IF i = 0 THEN b ELSE LoopStep(c, f[i - 1], l[i])]
              = [i \in 0 .. Len(l) |-> IF i = 0 THEN b ELSE
                  IF f[i - 1].error = "none" THEN ReadEdge(f[i - 1], l[i]) ELSE f[i - 1]]
    BY <1>4
  <2> QED BY <2>1, Zenon DEF Loops!Loop, ReadEdges, Each, Folded
<1> QED BY <1>2, <1>5, <1>8, <1>9

\* ... and after all hyperedges.
LEMMA ReadRelsFacts ==
  ASSUME NEW S, AreElements(S), NEW root \in S
  PROVE  IsReading(ReadRels(root))
<1>1. PICK c : c = [loop |-> "rel"] BY Zenon
<1>2. PICK base, list : base = ReadEdges(root) /\ list = Children(root, "rel") OBVIOUS
<1>3. list \in Seq(S) BY <1>2, ChildrenFacts, Zenon DEF AreElements
<1>4. \A a, x : LoopStep(c, a, x) = IF a.error = "none" THEN ReadRel(a, x) ELSE a
  BY <1>1 DEF LoopStep
<1>5. \A i, a : LoopState(c, i, a) <=> IsReading(a) BY <1>1 DEF LoopState
<1>6. LoopState(c, 0, base) BY <1>2, <1>5, ReadEdgesFacts DEF AreElements
<1>7. ASSUME NEW i \in 1 .. Len(list), NEW a, LoopState(c, i - 1, a)
      PROVE  LoopState(c, i, LoopStep(c, a, list[i]))
  <2>1. PICK x : x = list[i] OBVIOUS
  <2>2. x.children \in Seq(S) BY <1>3, <2>1, SeqPositions DEF AreElements
  <2>3. IsReading(a) BY <1>5, <1>7
  <2>4. IsReading(ReadRel(a, x)) BY <2>2, <2>3, ReadRelFacts
  <2> QED BY <1>4, <1>5, <2>1, <2>3, <2>4
<1>8. LoopState(c, Len(list), Loops!Loop(c, base, list))
  <2>1. Len(list) \in Nat BY <1>3, SeqPositions
  <2> QED BY <1>6, <1>7, <2>1, Loops!LoopKeepsInvariant
<1>9. Loops!Loop(c, ReadEdges(root), Children(root, "rel")) = ReadRels(root)
  <2> DEFINE b == ReadEdges(root)
             l == Children(root, "rel")
  <2>1. \A f : [i \in 0 .. Len(l) |-> IF i = 0 THEN b ELSE LoopStep(c, f[i - 1], l[i])]
              = [i \in 0 .. Len(l) |-> IF i = 0 THEN b ELSE
                  IF f[i - 1].error = "none" THEN ReadRel(f[i - 1], l[i]) ELSE f[i - 1]]
    BY <1>4
  <2> QED BY <2>1, Zenon DEF Loops!Loop, ReadRels, Each, Folded
<1> QED BY <1>2, <1>5, <1>8, <1>9

\* What is read is a graph.
LEMMA ReadAnonHypergraphFacts ==
  ASSUME NEW S, AreElements(S), NEW root \in S
  PROVE  IsReading(ReadAnonHypergraph(root))
<1>1. PICK r, name : r = ReadRels(root) /\ name = ReadName(root) OBVIOUS
<1>2. IsReading(r) BY <1>1, ReadRelsFacts
<1>3. PICK named : named = [r EXCEPT !.graph.name = name] BY Zenon
<1>4. /\ DOMAIN named = DOMAIN r /\ named.nodeIDList = r.nodeIDList
      /\ DOMAIN named.graph = DOMAIN r.graph
      /\ named.graph.vertices = r.graph.vertices /\ named.graph.edges = r.graph.edges
      /\ named.graph.lastUsedID = r.graph.lastUsedID
  BY <1>2, <1>3 DEF IsReading, IsGraph
<1>5. IsGraph(named.graph) BY <1>2, <1>4 DEF IsReading, IsGraph
<1>6. IsReading(named) BY <1>2, <1>4, <1>5 DEF IsReading
<1>7. \/ ReadAnonHypergraph(root) = named
      \/ ReadAnonHypergraph(root) = XMLioException(EmptyReading)
  BY <1>1, <1>3 DEF ReadAnonHypergraph
<1> QED BY <1>6, <1>7, EmptyReadingFacts, FailFacts DEF XMLioException

-----------------------------------------------------------------------------
(* Reading rules                                                           *)

\* One more entry in a finite map.
LEMMA EnteredIsFinite ==
  ASSUME NEW f, IsFiniteSet(DOMAIN f), NEW x, NEW y
  PROVE  IsFiniteSet(DOMAIN Entered(f, x, y))
<1>1. DOMAIN Entered(f, x, y) = DOMAIN f \cup {x} BY EnteredFacts, Zenon
<1> QED BY <1>1, FS_AddElement

\* The side and the rule before anything is read.
LEMMA EmptySideFacts == IsSide(EmptySide)
<1>1. PICK s : s = EmptySide OBVIOUS
<1>2. /\ DOMAIN s = {"isSet", "graph", "strToID", "quantMap", "error"}
      /\ s.graph = EmptyGraph /\ s.quantMap = <<>>
  BY <1>1 DEF EmptySide
<1>3. DOMAIN <<>> = {} OBVIOUS
<1> QED BY <1>1, <1>2, <1>3, EmptyGraphFacts, FS_EmptySet DEF IsSide

\* The rule before anything is read: a rule without a map.
LEMMA EmptyRuleFacts == IsRuleReading(EmptyRule)
<1>1. PICK r : r = EmptyRule OBVIOUS
<1>2. /\ DOMAIN r = {"left", "right", "map", "error"}
      /\ r.left = EmptySide /\ r.right = EmptySide /\ r.map = <<>>
  BY <1>1 DEF EmptyRule
<1>3. DOMAIN <<>> = {} OBVIOUS
<1> QED BY <1>1, <1>2, <1>3, EmptySideFacts, FS_EmptySet DEF IsRuleReading

\* An element of a quantification.
LEMMA ReadElemFacts ==
  ASSUME NEW s, IsSide(s), NEW quantID, NEW elem
  PROVE  IsSide(ReadElem(s, quantID, elem))
<1>1. PICK ids : ids = (IF quantID \in DOMAIN s.quantMap THEN s.quantMap[quantID] ELSE {})
                         \cup {s.strToID[elem.attributes.ref]}
  BY Zenon
<1>2. PICK quants : quants = Entered(s.quantMap, quantID, ids) OBVIOUS
<1>3. PICK next : next = [s EXCEPT !.quantMap = quants] BY Zenon
<1>4. ReadElem(s, quantID, elem) \in {s, XMLioException(s), next}
  BY <1>1, <1>2, <1>3 DEF ReadElem
<1>5. IsFiniteSet(DOMAIN quants)
  <2>1. PICK old : old = s.quantMap OBVIOUS
  <2>2. IsFiniteSet(DOMAIN Entered(old, quantID, ids)) BY <2>1, EnteredIsFinite DEF IsSide
  <2> QED BY <1>2, <2>1, <2>2
<1>6. DOMAIN next = DOMAIN s /\ next.graph = s.graph /\ next.quantMap = quants BY <1>3 DEF IsSide
<1>7. IsSide(next) BY <1>5, <1>6 DEF IsSide
<1> QED BY <1>4, <1>7, FailFacts DEF XMLioException

\* A quantification.
LEMMA ReadQuantMapFacts ==
  ASSUME NEW s, IsSide(s), NEW S, NEW root, root.children \in Seq(S)
  PROVE  IsSide(ReadQuantMap(s, root))
<1> DEFINE id == IF HasAttribute(root, "id") THEN root.attributes.id ELSE -1
<1>2. PICK c : c = [loop |-> "elem", quantID |-> id] BY Zenon
<1>3. PICK list : list = Children(root, "elem") OBVIOUS
<1>4. Len(list) \in Nat BY <1>3, ChildrenFacts, SeqPositions
<1>5. \A a, x : LoopStep(c, a, x) = IF a.error = "none" THEN ReadElem(a, id, x) ELSE a
  BY <1>2 DEF LoopStep
<1>6. \A i, a : LoopState(c, i, a) <=> IsSide(a) BY <1>2 DEF LoopState
<1>7. LoopState(c, 0, s) BY <1>6
<1>8. \A i \in 1 .. Len(list) : \A a : LoopState(c, i - 1, a) => LoopState(c, i, LoopStep(c, a, list[i]))
  BY <1>5, <1>6, ReadElemFacts
<1>9. LoopState(c, Len(list), Loops!Loop(c, s, list)) BY <1>4, <1>7, <1>8, Loops!LoopKeepsInvariant
<1>10. Loops!Loop(c, s, Children(root, "elem")) = ReadQuantMap(s, root)
  <2> DEFINE l == Children(root, "elem")
  <2>1. \A f : [i \in 0 .. Len(l) |-> IF i = 0 THEN s ELSE LoopStep(c, f[i - 1], l[i])]
              = [i \in 0 .. Len(l) |-> IF i = 0 THEN s ELSE
                  IF f[i - 1].error = "none" THEN ReadElem(f[i - 1], id, l[i]) ELSE f[i - 1]]
    BY <1>5
  <2> QED BY <2>1, Zenon DEF Loops!Loop, ReadQuantMap, Each, Folded
<1> QED BY <1>3, <1>6, <1>9, <1>10

\* A graph or a quantification.
LEMMA ReadPartOfSideFacts ==
  ASSUME NEW s, IsSide(s), NEW S, AreElements(S), NEW part \in S
  PROVE  IsSide(ReadPartOfSide(s, part))
<1>1. CASE part.name = "graph"
  <2>1. PICK r : r = ReadAnonHypergraph(part) OBVIOUS
  <2>2. IsReading(r) BY <2>1, ReadAnonHypergraphFacts
  <2>3. PICK next : next = SideWith(s, r) OBVIOUS
  <2>4. DOMAIN next = DOMAIN s /\ next.graph = r.graph /\ next.quantMap = s.quantMap
    BY <2>3 DEF SideWith, IsSide
  <2>5. IsSide(next) BY <2>2, <2>4 DEF IsSide, IsReading
  <2> QED BY <1>1, <2>1, <2>3, <2>5 DEF ReadPartOfSide
<1>2. CASE part.name = "quantification"
  <2>1. IsSide(ReadQuantMap(s, part)) BY ReadQuantMapFacts DEF AreElements
  <2> QED BY <1>2, <2>1 DEF ReadPartOfSide
<1>3. CASE part.name \notin {"graph", "quantification"} BY <1>3 DEF ReadPartOfSide
<1> QED BY <1>1, <1>2, <1>3

\* The parts of a rulegraph ...
LEMMA ReadRulegraphFacts ==
  ASSUME NEW s, IsSide(s), NEW S, AreElements(S), NEW root \in S
  PROVE  IsSide(ReadRulegraph(s, root))
<1>1. PICK c : c = [loop |-> "side"] BY Zenon
<1>2. PICK list : list = root.children OBVIOUS
<1>3. Len(list) \in Nat /\ \A i \in 1 .. Len(list) : list[i] \in S
  BY <1>2, SeqPositions DEF AreElements
<1>4. \A a, x : LoopStep(c, a, x) = IF a.error = "none" THEN ReadPartOfSide(a, x) ELSE a
  BY <1>1 DEF LoopStep
<1>5. \A i, a : LoopState(c, i, a) <=> IsSide(a) BY <1>1 DEF LoopState
<1>6. LoopState(c, 0, s) BY <1>5
<1>7. \A i \in 1 .. Len(list) : \A a : LoopState(c, i - 1, a) => LoopState(c, i, LoopStep(c, a, list[i]))
  BY <1>3, <1>4, <1>5, ReadPartOfSideFacts
<1>8. LoopState(c, Len(list), Loops!Loop(c, s, list)) BY <1>3, <1>6, <1>7, Loops!LoopKeepsInvariant
<1>9. Loops!Loop(c, s, root.children) = ReadRulegraph(s, root)
  <2> DEFINE l == root.children
  <2>1. \A f : [i \in 0 .. Len(l) |-> IF i = 0 THEN s ELSE LoopStep(c, f[i - 1], l[i])]
              = [i \in 0 .. Len(l) |-> IF i = 0 THEN s ELSE
                  IF f[i - 1].error = "none" THEN ReadPartOfSide(f[i - 1], l[i]) ELSE f[i - 1]]
    BY <1>4
  <2> QED BY <2>1, Zenon DEF Loops!Loop, ReadRulegraph, Each, Folded
<1> QED BY <1>2, <1>5, <1>8, <1>9

\* ... and the rulegraphs of a side.
LEMMA ReadSideFacts ==
  ASSUME NEW s, IsSide(s), NEW S, AreElements(S), NEW root \in S
  PROVE  IsSide(ReadSide(s, root))
<1>1. PICK c : c = [loop |-> "rulegraph"] BY Zenon
<1>2. PICK list : list = Children(root, "rulegraph") OBVIOUS
<1>3. list \in Seq(S) BY <1>2, ChildrenFacts, Zenon DEF AreElements
<1>4. Len(list) \in Nat /\ \A i \in 1 .. Len(list) : list[i] \in S BY <1>3, SeqPositions
<1>5. \A a, x : LoopStep(c, a, x) = IF a.error = "none" THEN ReadRulegraph(a, x) ELSE a
  BY <1>1 DEF LoopStep
<1>6. \A i, a : LoopState(c, i, a) <=> IsSide(a) BY <1>1 DEF LoopState
<1>7. LoopState(c, 0, s) BY <1>6
<1>8. \A i \in 1 .. Len(list) : \A a : LoopState(c, i - 1, a) => LoopState(c, i, LoopStep(c, a, list[i]))
  BY <1>4, <1>5, <1>6, ReadRulegraphFacts
<1>9. LoopState(c, Len(list), Loops!Loop(c, s, list)) BY <1>4, <1>7, <1>8, Loops!LoopKeepsInvariant
<1>10. Loops!Loop(c, s, Children(root, "rulegraph")) = ReadSide(s, root)
  <2> DEFINE l == Children(root, "rulegraph")
  <2>1. \A f : [i \in 0 .. Len(l) |-> IF i = 0 THEN s ELSE LoopStep(c, f[i - 1], l[i])]
              = [i \in 0 .. Len(l) |-> IF i = 0 THEN s ELSE
                  IF f[i - 1].error = "none" THEN ReadRulegraph(f[i - 1], l[i]) ELSE f[i - 1]]
    BY <1>5
  <2> QED BY <2>1, Zenon DEF Loops!Loop, ReadSide, Each, Folded
<1> QED BY <1>2, <1>6, <1>9, <1>10

\* An element of the mapping ...
LEMMA ReadMapElemFacts ==
  ASSUME NEW r, IsRuleReading(r), NEW elem
  PROVE  IsRuleReading(ReadMapElem(r, elem))
<1>1. PICK x, y : /\ x = r.left.strToID[elem.attributes.from]
                  /\ y = r.right.strToID[elem.attributes.to]
  OBVIOUS
<1>2. PICK map : map = Entered(r.map, x, y) OBVIOUS
<1>3. PICK next : next = [r EXCEPT !.map = map] BY Zenon
<1>4. ReadMapElem(r, elem) \in {XMLioException(r), next} BY <1>1, <1>2, <1>3 DEF ReadMapElem
<1>5. IsFiniteSet(DOMAIN map)
  <2>1. PICK old : old = r.map OBVIOUS
  <2>2. IsFiniteSet(DOMAIN Entered(old, x, y)) BY <2>1, EnteredIsFinite DEF IsRuleReading
  <2> QED BY <1>2, <2>1, <2>2
<1>6. DOMAIN next = DOMAIN r /\ next.left = r.left /\ next.right = r.right /\ next.map = map
  BY <1>3 DEF IsRuleReading
<1>7. IsRuleReading(next) BY <1>5, <1>6 DEF IsRuleReading
<1> QED BY <1>4, <1>7, FailFacts DEF XMLioException

\* ... and all of them.
LEMMA ReadMappingFacts ==
  ASSUME NEW r, IsRuleReading(r), NEW S, NEW root, root.children \in Seq(S)
  PROVE  IsRuleReading(ReadMapping(r, root))
<1>1. PICK c : c = [loop |-> "mapelem"] BY Zenon
<1>2. PICK list : list = Children(root, "mapelem") OBVIOUS
<1>3. Len(list) \in Nat BY <1>2, ChildrenFacts, SeqPositions
<1>4. \A a, x : LoopStep(c, a, x) = IF a.error = "none" THEN ReadMapElem(a, x) ELSE a
  BY <1>1 DEF LoopStep
<1>5. \A i, a : LoopState(c, i, a) <=> IsRuleReading(a) BY <1>1 DEF LoopState
<1>6. LoopState(c, 0, r) BY <1>5
<1>7. \A i \in 1 .. Len(list) : \A a : LoopState(c, i - 1, a) => LoopState(c, i, LoopStep(c, a, list[i]))
  BY <1>4, <1>5, ReadMapElemFacts
<1>8. LoopState(c, Len(list), Loops!Loop(c, r, list)) BY <1>3, <1>6, <1>7, Loops!LoopKeepsInvariant
<1>9. Loops!Loop(c, r, Children(root, "mapelem")) = ReadMapping(r, root)
  <2> DEFINE l == Children(root, "mapelem")
  <2>1. \A f : [i \in 0 .. Len(l) |-> IF i = 0 THEN r ELSE LoopStep(c, f[i - 1], l[i])]
              = [i \in 0 .. Len(l) |-> IF i = 0 THEN r ELSE
                  IF f[i - 1].error = "none" THEN ReadMapElem(f[i - 1], l[i]) ELSE f[i - 1]]
    BY <1>4
  <2> QED BY <2>1, Zenon DEF Loops!Loop, ReadMapping, Each, Folded
<1> QED BY <1>2, <1>5, <1>8, <1>9

\* A side or the mapping of a rule.
LEMMA ReadPartOfRuleFacts ==
  ASSUME NEW r, IsRuleReading(r), NEW S, AreElements(S), NEW part \in S
  PROVE  IsRuleReading(ReadPartOfRule(r, part))
<1>1. ASSUME NEW field \in {"left", "right"}, NEW s, IsSide(s)
      PROVE  IsRuleReading(WithSide(r, field, s))
  <2>1. PICK next : next = WithSide(r, field, s) OBVIOUS
  <2>2. /\ DOMAIN next = DOMAIN r /\ next.map = r.map
        /\ next.left \in {r.left, s} /\ next.right \in {r.right, s}
    BY <2>1, Zenon DEF WithSide, IsRuleReading
  <2> QED BY <1>1, <2>1, <2>2 DEF IsRuleReading
<1>2. CASE part.name = "lhs"
  <2>1. PICK s : s = ReadSide(r.left, part) OBVIOUS
  <2>2. IsSide(s) BY <2>1, ReadSideFacts DEF IsRuleReading
  <2> QED BY <1>1, <1>2, <2>1, <2>2 DEF ReadPartOfRule
<1>3. CASE part.name = "rhs"
  <2>1. PICK s : s = ReadSide(r.right, part) OBVIOUS
  <2>2. IsSide(s) BY <2>1, ReadSideFacts DEF IsRuleReading
  <2> QED BY <1>1, <1>3, <2>1, <2>2 DEF ReadPartOfRule
<1>4. CASE part.name = "mapping"
  <2>1. IsRuleReading(ReadMapping(r, part)) BY ReadMappingFacts DEF AreElements
  <2> QED BY <1>4, <2>1 DEF ReadPartOfRule
<1>5. CASE part.name \notin {"lhs", "rhs", "mapping"} BY <1>5 DEF ReadPartOfRule
<1> QED BY <1>2, <1>3, <1>4, <1>5

\* The whole rule, before it is checked.
LEMMA ReadPartsOfRuleFacts ==
  ASSUME NEW S, AreElements(S), NEW root \in S
  PROVE  IsRuleReading(ReadPartsOfRule(root))
<1>1. PICK c : c = [loop |-> "rule"] BY Zenon
<1>2. PICK list : list = root.children OBVIOUS
<1>3. Len(list) \in Nat /\ \A i \in 1 .. Len(list) : list[i] \in S
  BY <1>2, SeqPositions DEF AreElements
<1>4. \A a, x : LoopStep(c, a, x) = IF a.error = "none" THEN ReadPartOfRule(a, x) ELSE a
  BY <1>1 DEF LoopStep
<1>5. \A i, a : LoopState(c, i, a) <=> IsRuleReading(a) BY <1>1 DEF LoopState
<1>6. LoopState(c, 0, EmptyRule) BY <1>5, EmptyRuleFacts
<1>7. \A i \in 1 .. Len(list) : \A a : LoopState(c, i - 1, a) => LoopState(c, i, LoopStep(c, a, list[i]))
  BY <1>3, <1>4, <1>5, ReadPartOfRuleFacts
<1>8. LoopState(c, Len(list), Loops!Loop(c, EmptyRule, list))
  BY <1>3, <1>6, <1>7, Loops!LoopKeepsInvariant
<1>9. Loops!Loop(c, EmptyRule, root.children) = ReadPartsOfRule(root)
  <2> DEFINE l == root.children
  <2>1. \A f : [i \in 0 .. Len(l) |-> IF i = 0 THEN EmptyRule ELSE LoopStep(c, f[i - 1], l[i])]
              = [i \in 0 .. Len(l) |-> IF i = 0 THEN EmptyRule ELSE
                  IF f[i - 1].error = "none" THEN ReadPartOfRule(f[i - 1], l[i]) ELSE f[i - 1]]
    BY <1>4
  <2> QED BY <2>1, Zenon DEF Loops!Loop, ReadPartsOfRule, Each, Folded
<1> QED BY <1>2, <1>5, <1>8, <1>9

-----------------------------------------------------------------------------
(* What checkConsistency lets through                                      *)

\* An edge with a label and its ends in a row, between the images of its ends.
LEMMA CarriedFacts ==
  ASSUME NEW V, NEW edge, IsEdge(edge, V), NEW W, NEW map, \A v \in Range(edge.vertices) : map[v] \in W
  PROVE  IsEdge(Carried(edge, map), W) /\ Len(Carried(edge, map).vertices) = Len(edge.vertices)
<1>1. PICK n \in Nat : /\ n = Len(edge.vertices) /\ DOMAIN edge.vertices = 1 .. n
  BY SeqPositions DEF IsEdge
<1>2. PICK ends : ends = [i \in DOMAIN edge.vertices |-> map[edge.vertices[i]]] BY Zenon
<1>3. ends \in [1 .. n -> W] BY <1>1, <1>2 DEF Range
<1>4. ends \in Seq(W) /\ Len(ends) = n BY <1>3, LenOfFunction
<1>5. Carried(edge, map) = [label |-> edge.label, vertices |-> ends] BY <1>2 DEF Carried
<1> QED BY <1>1, <1>4, <1>5 DEF IsEdge

\* An image that passes the check
LEMMA CheckedElementFacts ==
  ASSUME NEW left, IsGraph(left), NEW right, IsGraph(right), NEW map, NEW x,
         ErrorOfElement(map, left, right, x) = "none"
  PROVE  PreservesElement(left, right, map, x)
<1>1. CASE x \in left.vertices BY <1>1 DEF ErrorOfElement, PreservesElement
<1>2. CASE x \notin left.vertices
  <2>1. PICK from, to : from = left.edges[x] /\ to = right.edges[map[x]] OBVIOUS
  <2>2. PICK wrong : wrong = {i \in DOMAIN from.vertices : \/ from.vertices[i] \notin DOMAIN map
                                                           \/ map[from.vertices[i]] # to.vertices[i]}
    BY Zenon
  <2>3. /\ x \in DOMAIN left.edges /\ map[x] \in DOMAIN right.edges /\ from.label = to.label
        /\ Len(from.vertices) = Len(to.vertices) /\ wrong = {}
    BY <1>2, <2>1, <2>2 DEF ErrorOfElement
  <2>4. IsEdge(from, left.vertices) /\ IsEdge(to, right.vertices) BY <2>1, <2>3 DEF IsGraph
  <2>5. /\ Len(from.vertices) \in Nat /\ DOMAIN from.vertices = 1 .. Len(from.vertices)
        /\ DOMAIN to.vertices = 1 .. Len(to.vertices)
    BY <2>4, SeqPositions DEF IsEdge
  <2>6. \A i \in DOMAIN from.vertices : /\ from.vertices[i] \in DOMAIN map
                                        /\ map[from.vertices[i]] = to.vertices[i]
    BY <2>2, <2>3
  <2>7. to.vertices = [i \in DOMAIN from.vertices |-> map[from.vertices[i]]]
    <3>1. DOMAIN to.vertices = DOMAIN from.vertices BY <2>3, <2>5
    <3>2. PICK s : s = to.vertices OBVIOUS
    <3>3. s \in Seq(right.vertices) BY <2>4, <3>2 DEF IsEdge
    <3>4. s = [i \in DOMAIN s |-> s[i]] BY <3>3
    <3> QED BY <2>6, <3>1, <3>2, <3>4
  <2>8. to = [label |-> to.label, vertices |-> to.vertices] BY <2>4 DEF IsEdge
  <2>9. to = Carried(from, map) BY <2>3, <2>7, <2>8 DEF Carried
  <2>10. Range(from.vertices) \subseteq DOMAIN map BY <2>6 DEF Range
  <2> QED BY <2>1, <2>3, <2>9, <2>10 DEF PreservesElement
<1> QED BY <1>1, <1>2

\* A mapping that passes the check
LEMMA CheckedMappingFacts ==
  ASSUME NEW left, IsGraph(left), NEW right, IsGraph(right), NEW map, IsFiniteSet(DOMAIN map),
         ErrorOfMapping(map, left, right) = "none"
  PROVE  Preserves(left, right, map)
<1>1. PICK list : list = Iterate(DOMAIN map) OBVIOUS
<1>2. PICK n : IsListOf(list, n, DOMAIN map) BY <1>1, IterateFacts
<1>3. PICK c : c = [loop |-> "check", map |-> map, left |-> left, right |-> right, seq |-> list]
  BY Zenon
<1>4. c.seq = list /\ Len(list) = n /\ n \in Nat /\ IsListOf(c.seq, n, DOMAIN map)
  BY <1>2, <1>3 DEF IsListOf
<1>5. \A a, x : LoopStep(c, a, x) = IF a = "none" THEN ErrorOfElement(map, left, right, x) ELSE a
  BY <1>3 DEF LoopStep, CheckElement
<1>6. \A i, a : LoopState(c, i, a) <=>
         (a = "none" => \A x \in Visited(c, i) : ErrorOfElement(map, left, right, x) = "none")
  BY <1>3 DEF LoopState, CheckedSoFar
<1>7. LoopState(c, 0, "none") BY <1>4, <1>6, AllVisited, Zenon
<1>8. ASSUME NEW i \in 1 .. n, NEW a, LoopState(c, i - 1, a)
      PROVE  LoopState(c, i, LoopStep(c, a, list[i]))
  <2>1. Visited(c, i) = Visited(c, i - 1) \cup {list[i]} BY <1>4, OneMoreVisited, Zenon
  <2> QED BY <1>5, <1>6, <1>8, <2>1
<1>9. LoopState(c, n, Loops!Loop(c, "none", list)) BY <1>4, <1>7, <1>8, Loops!LoopKeepsInvariant
<1>10. Loops!Loop(c, "none", Iterate(DOMAIN map)) = ErrorOfMapping(map, left, right)
  <2> DEFINE l == Iterate(DOMAIN map)
  <2>1. \A f : [i \in 0 .. Len(l) |-> IF i = 0 THEN "none" ELSE LoopStep(c, f[i - 1], l[i])]
              = [i \in 0 .. Len(l) |-> IF i = 0 THEN "none" ELSE
                  IF f[i - 1] = "none" THEN ErrorOfElement(map, left, right, l[i]) ELSE f[i - 1]]
    BY <1>5
  <2> QED BY <2>1, Zenon DEF Loops!Loop, ErrorOfMapping, Folded
<1>11. \A x \in DOMAIN map : ErrorOfElement(map, left, right, x) = "none"
  <2>1. Visited(c, n) = DOMAIN map BY <1>4, AllVisited, Zenon
  <2> QED BY <1>1, <1>6, <1>9, <1>10, <2>1
<1> QED BY <1>11, CheckedElementFacts DEF Preserves

\* What preserves labels and ends is a morphism.
LEMMA PreservingIsMorphism ==
  ASSUME NEW rule, IsInstance(rule)
  PROVE  IsMorphism(rule)
<1>1. PICK left, right, map : left = rule.left /\ right = rule.right /\ map = rule.map OBVIOUS
<1>2. IsGraph(left) /\ Preserves(left, right, map) BY <1>1 DEF IsInstance
<1>3. ASSUME NEW x \in DOMAIN map, x \in left.vertices PROVE map[x] \in right.vertices
  <2>1. x \notin DOMAIN left.edges BY <1>2, <1>3 DEF IsGraph
  <2>2. PreservesElement(left, right, map, x) BY <1>2 DEF Preserves
  <2> QED BY <2>1, <2>2 DEF PreservesElement
<1>4. ASSUME NEW e \in DOMAIN map \ left.vertices
      PROVE  /\ Range(left.edges[e].vertices) \subseteq DOMAIN map
             /\ right.edges[map[e]] = [left.edges[e] EXCEPT !.vertices = [i \in DOMAIN @ |-> map[@[i]]]]
  <2>1. PICK edge : edge = left.edges[e] OBVIOUS
  <2>2. PreservesElement(left, right, map, e) BY <1>2 DEF Preserves
  <2>3. /\ e \in DOMAIN left.edges /\ Range(edge.vertices) \subseteq DOMAIN map
        /\ right.edges[map[e]] = Carried(edge, map)
    BY <2>1, <2>2 DEF PreservesElement
  <2>4. edge = [label |-> edge.label, vertices |-> edge.vertices] BY <1>2, <2>1, <2>3 DEF IsGraph, IsEdge
  <2>5. PICK ends : ends = [i \in DOMAIN edge.vertices |-> map[edge.vertices[i]]] BY Zenon
  <2>6. [edge EXCEPT !.vertices = ends] = [label |-> edge.label, vertices |-> ends]
    <3>1. PICK label, old : label = edge.label /\ old = edge.vertices OBVIOUS
    <3>2. edge = [label |-> label, vertices |-> old] BY <2>4, <3>1
    <3>3. [edge EXCEPT !.vertices = ends] = [label |-> label, vertices |-> ends] BY <3>2
    <3> QED BY <3>1, <3>3
  <2> QED BY <2>1, <2>3, <2>5, <2>6 DEF Carried
<1> QED BY <1>1, <1>3, <1>4 DEF IsMorphism

\* A rule that the scenario goes on with.
IsAccepted(read) == IsInstance(read.rule) /\ IsFiniteSet(DOMAIN read.leftQuant)

\* A rule that is read without an error is one.
LEMMA ReadRuleFacts ==
  ASSUME NEW S, AreElements(S), NEW root \in S, ReadRule(root).error = "none"
  PROVE  IsAccepted(ReadRule(root))
<1>1. PICK r, read : r = ReadPartsOfRule(root) /\ read = ReadRule(root) OBVIOUS
<1>2. IsRuleReading(r) BY <1>1, ReadPartsOfRuleFacts
<1>3. PICK rule : rule = [left |-> r.left.graph, right |-> r.right.graph, map |-> r.map,
                          name |-> ReadName(root)]
  BY Zenon
<1>4. read.rule = rule /\ read.leftQuant = r.left.quantMap /\ read.error = ErrorOfRule(r)
  BY <1>1, <1>3 DEF ReadRule, CompletedRule
<1>5. ErrorOfMapping(r.map, r.left.graph, r.right.graph) = "none" BY <1>1, <1>4 DEF ErrorOfRule
<1>6. IsGraph(r.left.graph) /\ IsGraph(r.right.graph) /\ IsFiniteSet(DOMAIN r.map)
  BY <1>2 DEF IsRuleReading, IsSide
<1>7. Preserves(r.left.graph, r.right.graph, r.map) BY <1>5, <1>6, CheckedMappingFacts
<1>8. IsInstance(rule) BY <1>3, <1>6, <1>7 DEF IsInstance
<1>9. IsFiniteSet(DOMAIN r.left.quantMap) BY <1>2 DEF IsRuleReading, IsSide
<1> QED BY <1>1, <1>4, <1>8, <1>9 DEF IsAccepted

-----------------------------------------------------------------------------
(* Taking elements out of a graph                                          *)

\* What a loop has visited after one more round, and before the first and after the last one.
LEMMA VisitedGrows ==
  ASSUME NEW c, NEW n \in Nat
  PROVE  /\ Visited(c, 0) = {}
         /\ \A i \in 1 .. n : Visited(c, i) = Visited(c, i - 1) \cup {c.seq[i]}
         /\ DOMAIN c.seq = 1 .. n => Visited(c, n) = Range(c.seq)
<1>1. 1 .. 0 = {} OBVIOUS
<1>2. \A i \in 1 .. n : 1 .. i = (1 .. (i - 1)) \cup {i} OBVIOUS
<1>3. \A i \in 1 .. n : Visited(c, i) = Visited(c, i - 1) \cup {c.seq[i]} BY <1>2 DEF Visited
<1>4. Visited(c, n) = {c.seq[j] : j \in 1 .. n} BY DEF Visited
<1> QED BY <1>1, <1>3, <1>4 DEF Visited, Range

\* A map keeps what it preserves when it and its target grow.
LEMMA PreservesGrows ==
  ASSUME NEW left, NEW right, NEW map, NEW x \in DOMAIN map, PreservesElement(left, right, map, x),
         NEW more, NEW wider, DOMAIN map \subseteq DOMAIN wider,
         \A z \in DOMAIN map : wider[z] = map[z],
         right.vertices \subseteq more.vertices,
         \A e \in DOMAIN right.edges : e \in DOMAIN more.edges /\ more.edges[e] = right.edges[e]
  PROVE  PreservesElement(left, more, wider, x)
<1>1. CASE x \in left.vertices /\ map[x] \in right.vertices BY <1>1 DEF PreservesElement
<1>2. CASE ~ (x \in left.vertices /\ map[x] \in right.vertices)
  <2>1. /\ x \in DOMAIN left.edges /\ map[x] \in DOMAIN right.edges
        /\ Range(left.edges[x].vertices) \subseteq DOMAIN map
        /\ right.edges[map[x]] = Carried(left.edges[x], map)
    BY <1>2 DEF PreservesElement
  <2>2. PICK edge : edge = left.edges[x] OBVIOUS
  <2>3. \A i \in DOMAIN edge.vertices : wider[edge.vertices[i]] = map[edge.vertices[i]]
    BY <2>1, <2>2 DEF Range
  <2>4. Carried(edge, wider) = Carried(edge, map) BY <2>3 DEF Carried
  <2>5. wider[x] = map[x] /\ Range(edge.vertices) \subseteq DOMAIN wider BY <2>1, <2>2
  <2>6. more.edges[wider[x]] = Carried(edge, wider) /\ wider[x] \in DOMAIN more.edges
    BY <2>1, <2>2, <2>4, <2>5
  <2> QED BY <2>1, <2>2, <2>5, <2>6 DEF PreservesElement
<1> QED BY <1>1, <1>2

\* What a map preserves goes to elements.
LEMMA PreservesIntoElements ==
  ASSUME NEW left, NEW right, NEW map, Preserves(left, right, map), NEW x \in DOMAIN map
  PROVE  x \in Elements(left) /\ map[x] \in Elements(right)
BY DEF Preserves, PreservesElement, Elements

\* A graph that has all of another one.
Includes(more, g) ==
  /\ g.vertices \subseteq more.vertices
  /\ \A e \in DOMAIN g.edges : e \in DOMAIN more.edges /\ more.edges[e] = g.edges[e]

\* One more element comes to a copy under a new id.
ComesTo(g, place, h, x, wider, more) ==
  /\ IsCopy(g, place, h)
  /\ x \notin DOMAIN place
  /\ wider = Entered(place, x, NewID(h))
  /\ IsGraph(more)
  /\ Includes(more, h)
  /\ PreservesElement(g, more, wider, x)

\* A copy with one more element in its place is a copy.
LEMMA CopyGrows ==
  ASSUME NEW g, NEW place, NEW h, NEW x, NEW wider, NEW more, ComesTo(g, place, h, x, wider, more)
  PROVE  IsCopy(g, wider, more) /\ DOMAIN wider = DOMAIN place \cup {x}
<1>0. PICK new : new = NewID(h) OBVIOUS
<1>1. /\ DOMAIN wider = DOMAIN place \cup {x} /\ wider[x] = new
      /\ \A z \in DOMAIN place : wider[z] = place[z]
  BY <1>0 DEF ComesTo, Entered
<1>2. IsGraph(h) /\ Preserves(g, h, place) BY DEF ComesTo, IsCopy
<1>3. ASSUME NEW z \in DOMAIN wider PROVE PreservesElement(g, more, wider, z)
  <2>1. CASE z = x BY <2>1 DEF ComesTo
  <2>2. CASE z # x
    <3>1. z \in DOMAIN place /\ PreservesElement(g, h, place, z) BY <1>1, <1>2, <2>2 DEF Preserves
    <3>2. DOMAIN place \subseteq DOMAIN wider BY <1>1
    <3> QED BY <1>1, <3>1, <3>2, PreservesGrows DEF ComesTo, Includes
  <2> QED BY <2>1, <2>2
<1>4. \A y, z \in DOMAIN wider : wider[y] = wider[z] => y = z
  <2>1. new \notin Elements(h) BY <1>0, <1>2, GraphIsFinite
  <2>2. \A z \in DOMAIN place : place[z] \in Elements(h) BY <1>2, PreservesIntoElements
  <2>3. \A y, z \in DOMAIN place : place[y] = place[z] => y = z BY DEF ComesTo, IsCopy
  <2> QED BY <1>1, <2>1, <2>2, <2>3
<1> QED BY <1>1, <1>3, <1>4 DEF ComesTo, IsCopy, Preserves

\* What was taken so far: a.graph is a copy of a part of g.
IsTaking(g, a) == DOMAIN a = {"from", "graph", "place"} /\ IsCopy(g, a.place, a.graph)

\* One more vertex
LEMMA TakeVertexFacts ==
  ASSUME NEW g, NEW a, IsTaking(g, a), NEW v \in g.vertices
  PROVE  /\ IsTaking(g, TakeVertex(a, v)) /\ TakeVertex(a, v).from = a.from
         /\ DOMAIN TakeVertex(a, v).place = DOMAIN a.place \cup {v}
<1>1. CASE v \in DOMAIN a.place
  <2>1. DOMAIN a.place = DOMAIN a.place \cup {v} BY <1>1
  <2> QED BY <1>1, <2>1 DEF TakeVertex
<1>2. CASE v \notin DOMAIN a.place
  <2>1. PICK place, h : place = a.place /\ h = a.graph OBVIOUS
  <2>2. PICK new, wider, more : new = NewID(h) /\ wider = Entered(place, v, new) /\ more = AddVertex(h)
    OBVIOUS
  <2>3. PICK next : next = [a EXCEPT !.place = wider, !.graph = more] OBVIOUS
  <2>4. TakeVertex(a, v) = next BY <1>2, <2>1, <2>2, <2>3 DEF TakeVertex
  <2>5. IsCopy(g, place, h) BY <2>1 DEF IsTaking
  <2>6. IsGraph(more) /\ more.vertices = h.vertices \cup {new} /\ more.edges = h.edges
    <3>1. IsGraph(h) BY <2>5 DEF IsCopy
    <3> QED BY <2>2, <3>1, AddVertexFacts
  <2>7. Includes(more, h) BY <2>6 DEF Includes
  <2>8. wider[v] = new BY <2>2 DEF Entered
  <2>9. PreservesElement(g, more, wider, v) BY <2>6, <2>8 DEF PreservesElement
  <2>10. ComesTo(g, place, h, v, wider, more)
    BY <1>2, <2>1, <2>2, <2>5, <2>6, <2>7, <2>9 DEF ComesTo
  <2>11. IsCopy(g, wider, more) /\ DOMAIN wider = DOMAIN place \cup {v}
    <3>1. IsCopy(g, wider, more) BY <2>10, CopyGrows, Zenon
    <3>2. DOMAIN wider = DOMAIN place \cup {v} BY <2>2 DEF Entered
    <3> QED BY <3>1, <3>2
  <2>12. DOMAIN next = DOMAIN a /\ next.place = wider /\ next.graph = more /\ next.from = a.from
    BY <2>3 DEF IsTaking
  <2> QED BY <2>1, <2>4, <2>11, <2>12 DEF IsTaking
<1> QED BY <1>1, <1>2

\* Several vertices, some of them more than once
LEMMA TakeVerticesFacts ==
  ASSUME NEW g, NEW a, IsTaking(g, a), NEW list \in Seq(g.vertices)
  PROVE  /\ IsTaking(g, TakeVertices(a, list)) /\ TakeVertices(a, list).from = a.from
         /\ DOMAIN TakeVertices(a, list).place = DOMAIN a.place \cup Range(list)
<1>1. PICK from, start : from = a.from /\ start = DOMAIN a.place OBVIOUS
<1>2. PICK c : c = [loop |-> "take vertex", graph |-> g, from |-> from, start |-> start, seq |-> list]
  BY Zenon
<1>3. PICK n \in Nat : /\ n = Len(list) /\ DOMAIN list = 1 .. n
                       /\ \A i \in 1 .. n : list[i] \in g.vertices
  BY SeqPositions
<1>4. \A b, x : LoopStep(c, b, x) = TakeVertex(b, x) BY <1>2, Zenon DEF LoopStep
<1>5. \A i, b : LoopState(c, i, b) <=>
         IsTaking(g, b) /\ b.from = from /\ DOMAIN b.place = start \cup Visited(c, i)
  BY <1>2, Zenon DEF LoopState, VerticesTaken, IsTaking
<1>6. /\ Visited(c, 0) = {} /\ Visited(c, n) = Range(list)
      /\ \A i \in 1 .. n : Visited(c, i) = Visited(c, i - 1) \cup {list[i]}
  <2>1. c.seq = list BY <1>2, Zenon
  <2> QED BY <1>3, <2>1, VisitedGrows
<1>7. LoopState(c, 0, a) BY <1>1, <1>5, <1>6
<1>8. ASSUME NEW i \in 1 .. n, NEW b, LoopState(c, i - 1, b)
      PROVE  LoopState(c, i, LoopStep(c, b, list[i]))
  <2>1. PICK x, V, next : x = list[i] /\ V = Visited(c, i - 1) /\ next = TakeVertex(b, x) OBVIOUS
  <2>2. IsTaking(g, b) /\ b.from = from /\ DOMAIN b.place = start \cup V BY <1>5, <1>8, <2>1
  <2>3. x \in g.vertices /\ Visited(c, i) = V \cup {x} BY <1>3, <1>6, <2>1
  <2>4. IsTaking(g, next) /\ next.from = from BY <2>1, <2>2, <2>3, TakeVertexFacts
  <2>5. DOMAIN next.place = (start \cup V) \cup {x} BY <2>1, <2>2, <2>3, TakeVertexFacts
  <2>6. DOMAIN next.place = start \cup Visited(c, i) BY <2>3, <2>5
  <2> QED BY <1>4, <1>5, <2>1, <2>4, <2>6
<1>9. LoopState(c, n, Loops!Loop(c, a, list)) BY <1>3, <1>7, <1>8, Loops!LoopKeepsInvariant
<1>10. Loops!Loop(c, a, list) = TakeVertices(a, list)
  <2>1. \A f : [i \in 0 .. Len(list) |-> IF i = 0 THEN a ELSE LoopStep(c, f[i - 1], list[i])]
              = [i \in 0 .. Len(list) |-> IF i = 0 THEN a ELSE TakeVertex(f[i - 1], list[i])]
    BY <1>4
  <2> QED BY <2>1, Zenon DEF Loops!Loop, TakeVertices, Folded
<1> QED BY <1>1, <1>5, <1>6, <1>9, <1>10

\* One more edge, with its ends: it leaves the graph.
LEMMA TakeEdgeFacts ==
  ASSUME NEW g, IsGraph(g), NEW a, IsTaking(g, a), NEW e \in DOMAIN g.edges, e \notin DOMAIN a.place,
         a.from.edges[e] = g.edges[e]
  PROVE  /\ IsTaking(g, TakeEdge(a, e)) /\ TakeEdge(a, e).from = DeleteEdge(a.from, e)
         /\ DOMAIN TakeEdge(a, e).place = DOMAIN a.place \cup Range(g.edges[e].vertices) \cup {e}
<1>1. PICK edge, b : edge = g.edges[e] /\ b = TakeVertices(a, edge.vertices) OBVIOUS
<1>2. IsEdge(edge, g.vertices) BY <1>1 DEF IsGraph
<1>3. PICK ends : ends = edge.vertices OBVIOUS
<1>4. ends \in Seq(g.vertices) BY <1>2, <1>3 DEF IsEdge
<1>5. IsTaking(g, b) /\ b.from = a.from /\ DOMAIN b.place = DOMAIN a.place \cup Range(ends)
  BY <1>1, <1>3, <1>4, TakeVerticesFacts
<1>6. PICK place, h : place = b.place /\ h = b.graph OBVIOUS
<1>7. PICK label, images : /\ label = edge.label
                           /\ images = [i \in DOMAIN edge.vertices |-> place[edge.vertices[i]]]
  BY Zenon
<1>8. PICK new, wider, more : /\ new = NewID(h) /\ wider = Entered(place, e, new)
                              /\ more = AddEdge(h, label, images)
  OBVIOUS
<1>9. PICK rest : rest = DeleteEdge(b.from, e) OBVIOUS
<1>10. PICK next : next = [b EXCEPT !.place = wider, !.graph = more, !.from = rest] OBVIOUS
<1>11. TakeEdge(a, e) = next
  BY <1>1, <1>6, <1>7, <1>8, <1>9, <1>10, Zenon DEF TakeEdge
<1>12. IsCopy(g, place, h) /\ IsGraph(h) BY <1>5, <1>6 DEF IsTaking, IsCopy
<1>13. g.vertices \cap DOMAIN g.edges = {} BY DEF IsGraph
<1>14. Range(ends) \subseteq g.vertices BY <1>4, SeqPositions DEF Range
<1>15. DOMAIN place = DOMAIN a.place \cup Range(ends) /\ e \notin DOMAIN place
  BY <1>5, <1>6, <1>13, <1>14
<1>16. \A v \in Range(ends) : place[v] \in h.vertices
  <2> SUFFICES ASSUME NEW v \in Range(ends) PROVE place[v] \in h.vertices
    OBVIOUS
  <2>1. v \in DOMAIN place /\ v \notin DOMAIN g.edges BY <1>13, <1>14, <1>15
  <2>2. PreservesElement(g, h, place, v) BY <1>12, <2>1 DEF IsCopy, Preserves
  <2> QED BY <2>1, <2>2 DEF PreservesElement
<1>17. images \in Seq(h.vertices)
  <2>1. Len(ends) \in Nat /\ DOMAIN ends = 1 .. Len(ends) BY <1>4, SeqPositions
  <2>2. images \in [1 .. Len(ends) -> h.vertices] BY <1>3, <1>7, <1>16, <2>1 DEF Range
  <2> QED BY <2>1, <2>2, LenOfFunction
<1>18. PICK stored : stored = [label |-> label, vertices |-> images] BY Zenon
<1>19. IsGraph(more) /\ more.vertices = h.vertices /\ more.edges = Entered(h.edges, new, stored)
  <2>1. /\ IsGraph(AddEdge(h, label, images)) /\ AddEdge(h, label, images).vertices = h.vertices
        /\ AddEdge(h, label, images).edges
             = Entered(h.edges, NewID(h), [label |-> label, vertices |-> images])
    BY <1>12, <1>17, AddEdgeFacts
  <2> QED BY <1>8, <1>18, <2>1
<1>20. /\ DOMAIN more.edges = DOMAIN h.edges \cup {new} /\ more.edges[new] = stored
       /\ \A f \in DOMAIN h.edges : f # new => more.edges[f] = h.edges[f]
  BY <1>19 DEF Entered
<1>21. Includes(more, h)
  <2>1. new \notin Elements(h) BY <1>8, <1>12, GraphIsFinite
  <2> QED BY <1>19, <1>20, <2>1 DEF Includes, Elements
<1>22. PreservesElement(g, more, wider, e)
  <2>1. DOMAIN wider = DOMAIN place \cup {e} /\ wider[e] = new
        /\ \A z \in DOMAIN place : z # e => wider[z] = place[z]
    BY <1>8 DEF Entered
  <2>2. \A i \in DOMAIN ends : wider[ends[i]] = place[ends[i]] BY <1>15, <2>1 DEF Range
  <2>3. stored = Carried(edge, wider) BY <1>3, <1>7, <1>18, <2>2 DEF Carried
  <2>4. Range(ends) \subseteq DOMAIN wider BY <1>15, <2>1
  <2> QED BY <1>1, <1>3, <1>20, <2>1, <2>3, <2>4 DEF PreservesElement
<1>23. ComesTo(g, place, h, e, wider, more)
  BY <1>8, <1>12, <1>15, <1>19, <1>21, <1>22 DEF ComesTo
<1>24. IsCopy(g, wider, more) BY <1>23, CopyGrows, Zenon
<1>25. DOMAIN wider = DOMAIN place \cup {e} BY <1>8 DEF Entered
<1>26. DOMAIN next = DOMAIN b /\ next.place = wider /\ next.graph = more /\ next.from = rest
  BY <1>5, <1>10 DEF IsTaking
<1>27. IsTaking(g, next) BY <1>5, <1>24, <1>26 DEF IsTaking
<1> QED BY <1>1, <1>3, <1>5, <1>9, <1>11, <1>15, <1>25, <1>26, <1>27

\* Several edges, after the vertices
OnlyVerticesTaken(g, a) ==
  IsTaking(g, a) /\ a.from = g /\ DOMAIN a.place \cap DOMAIN g.edges = {}

\* takeEdges: all the edges come, and no other elements than their ends.
LEMMA TakeEdgesFacts ==
  ASSUME NEW g, IsGraph(g), NEW a, OnlyVerticesTaken(g, a),
         NEW list, NEW n, NEW F, IsListOf(list, n, F), F \subseteq DOMAIN g.edges
  PROVE  /\ IsTaking(g, TakeEdges(a, list)) /\ DOMAIN a.place \subseteq DOMAIN TakeEdges(a, list).place
         /\ DOMAIN TakeEdges(a, list).place \cap DOMAIN g.edges = F
         /\ \A x \in DOMAIN TakeEdges(a, list).place :
              x \in DOMAIN a.place \/ x \in F \/ ComesWith(g, F, x)
         /\ IsRest(g, F, TakeEdges(a, list).from)
<1>1. PICK start : start = DOMAIN a.place OBVIOUS
<1>2. PICK c : c = [loop |-> "take edge", graph |-> g, start |-> start, seq |-> list] BY Zenon
<1>3. c.seq = list /\ Len(list) = n /\ n \in Nat /\ IsListOf(c.seq, n, F) BY <1>2, Zenon DEF IsListOf
<1>4. \A b, x : LoopStep(c, b, x) = TakeEdge(b, x) BY <1>2, Zenon DEF LoopStep
<1>5. \A i, b : LoopState(c, i, b) <=>
         /\ IsTaking(g, b) /\ start \subseteq DOMAIN b.place
         /\ DOMAIN b.place \cap DOMAIN g.edges = Visited(c, i)
         /\ \A x \in DOMAIN b.place :
              x \in start \/ x \in Visited(c, i) \/ ComesWith(g, Visited(c, i), x)
         /\ IsRest(g, Visited(c, i), b.from)
  <2>1. \A i, b : LoopState(c, i, b) <=> EdgesTaken(c, i, b) BY <1>2, Zenon DEF LoopState
  <2>2. c.graph = g /\ c.start = start BY <1>2, Zenon
  <2> QED BY <2>1, <2>2 DEF EdgesTaken, IsTaking
<1>6. LoopState(c, 0, a)
  <2>1. Visited(c, 0) = {} BY <1>3, AllVisited, Zenon
  <2> QED BY <1>1, <1>5, <2>1, NothingDeleted DEF OnlyVerticesTaken
<1>7. ASSUME NEW i \in 1 .. n, NEW b, LoopState(c, i - 1, b)
      PROVE  LoopState(c, i, LoopStep(c, b, list[i]))
  <2>1. PICK e, V, next : e = list[i] /\ V = Visited(c, i - 1) /\ next = TakeEdge(b, e) OBVIOUS
  <2>2. /\ IsTaking(g, b) /\ start \subseteq DOMAIN b.place
        /\ DOMAIN b.place \cap DOMAIN g.edges = V /\ IsRest(g, V, b.from)
        /\ \A x \in DOMAIN b.place : x \in start \/ x \in V \/ ComesWith(g, V, x)
    BY <1>5, <1>7, <2>1
  <2>3. Visited(c, i) = V \cup {e} /\ e \notin V /\ e \in DOMAIN g.edges
    <3>1. Visited(c, i) = V \cup {e} /\ e \notin V /\ e \in F BY <1>3, <2>1, OneMoreVisited, Zenon
    <3> QED BY <3>1
  <2>4. PICK edge : edge = g.edges[e] OBVIOUS
  <2>5. b.from.edges[e] = edge /\ e \notin DOMAIN b.place
    <3>1. e \in DOMAIN b.from.edges BY <2>2, <2>3 DEF IsRest
    <3> QED BY <2>2, <2>3, <2>4, <3>1 DEF IsRest
  <2>6. /\ IsTaking(g, next) /\ next.from = DeleteEdge(b.from, e)
        /\ DOMAIN next.place = DOMAIN b.place \cup Range(edge.vertices) \cup {e}
    BY <2>1, <2>2, <2>3, <2>4, <2>5, TakeEdgeFacts
  <2>7. IsRest(g, V \cup {e}, next.from)
    <3>1. e \notin g.vertices BY <2>3 DEF IsGraph
    <3>2. IsRest(g, V \cup {e}, DeleteEdge(b.from, e)) BY <2>2, <2>3, <3>1, DeleteEdgeFacts
    <3> QED BY <2>6, <3>2
  <2>8. Range(edge.vertices) \cap DOMAIN g.edges = {}
    <3>1. PICK ends : ends = edge.vertices OBVIOUS
    <3>2. ends \in Seq(g.vertices) BY <2>3, <2>4, <3>1 DEF IsGraph, IsEdge
    <3>3. Range(ends) \subseteq g.vertices BY <3>2, SeqPositions DEF Range
    <3> QED BY <3>1, <3>3 DEF IsGraph
  <2>9. DOMAIN next.place \cap DOMAIN g.edges = V \cup {e} BY <2>2, <2>3, <2>6, <2>8
  <2>10. start \subseteq DOMAIN next.place BY <2>2, <2>6
  <2>11. PICK W : W = V \cup {e} BY Zenon
  <2>12. Visited(c, i) = W /\ IsRest(g, W, next.from) /\ DOMAIN next.place \cap DOMAIN g.edges = W
    BY <2>3, <2>7, <2>9, <2>11
  <2>13. \A x \in DOMAIN next.place : x \in start \/ x \in W \/ ComesWith(g, W, x)
    <3>1. \A x : x \in Range(edge.vertices) => ComesWith(g, W, x) BY <2>4, <2>11 DEF ComesWith
    <3>2. \A x : ComesWith(g, V, x) => ComesWith(g, W, x) BY <2>11 DEF ComesWith
    <3> QED BY <2>2, <2>6, <2>11, <3>1, <3>2
  <2>14. LoopState(c, i, next) BY <1>5, <2>6, <2>10, <2>12, <2>13
  <2> QED BY <1>4, <2>1, <2>14
<1>8. LoopState(c, n, Loops!Loop(c, a, list)) BY <1>3, <1>6, <1>7, Loops!LoopKeepsInvariant
<1>9. Loops!Loop(c, a, list) = TakeEdges(a, list)
  <2>1. \A f : [i \in 0 .. Len(list) |-> IF i = 0 THEN a ELSE LoopStep(c, f[i - 1], list[i])]
              = [i \in 0 .. Len(list) |-> IF i = 0 THEN a ELSE TakeEdge(f[i - 1], list[i])]
    BY <1>4
  <2> QED BY <2>1, Zenon DEF Loops!Loop, TakeEdges, Folded
<1>10. Visited(c, n) = F BY <1>3, AllVisited, Zenon
<1> QED BY <1>1, <1>5, <1>8, <1>9, <1>10

\* Vertices are deleted when no edge is left at them.
LEMMA DeleteVerticesFacts ==
  ASSUME NEW g, IsGraph(g), NEW list, NEW n, NEW V, IsListOf(list, n, V), V \subseteq g.vertices,
         \A f \in DOMAIN g.edges : Range(g.edges[f].vertices) \cap V = {}
  PROVE  IsRest(g, V, DeleteVertices(g, list))
<1>1. PICK c : c = [loop |-> "delete vertex", graph |-> g, seq |-> list] BY Zenon
<1>2. c.seq = list /\ Len(list) = n /\ n \in Nat /\ IsListOf(c.seq, n, V) BY <1>1, Zenon DEF IsListOf
<1>3. \A a, x : LoopStep(c, a, x) = DeleteVertex(a, x) BY <1>1, Zenon DEF LoopStep
<1>4. \A i, a : LoopState(c, i, a) <=> IsRest(g, Visited(c, i), a) BY <1>1, Zenon DEF LoopState
<1>5. LoopState(c, 0, g)
  <2>1. Visited(c, 0) = {} BY <1>2, AllVisited, Zenon
  <2> QED BY <1>4, <2>1, NothingDeleted
<1>6. ASSUME NEW i \in 1 .. n, NEW a, LoopState(c, i - 1, a)
      PROVE  LoopState(c, i, LoopStep(c, a, list[i]))
  <2>1. PICK v, U : v = list[i] /\ U = Visited(c, i - 1) OBVIOUS
  <2>2. IsRest(g, U, a) BY <1>4, <1>6, <2>1
  <2>3. Visited(c, i) = U \cup {v} /\ v \in V BY <1>2, <2>1, OneMoreVisited, Zenon
  <2>4. v \in g.vertices /\ v \notin DOMAIN g.edges BY <2>3 DEF IsGraph
  <2>5. \A f \in DOMAIN a.edges : v \notin Range(a.edges[f].vertices)
    <3> SUFFICES ASSUME NEW f \in DOMAIN a.edges PROVE v \notin Range(a.edges[f].vertices)
      OBVIOUS
    <3>1. f \in DOMAIN g.edges /\ a.edges[f] = g.edges[f] BY <2>2 DEF IsRest
    <3>2. Range(g.edges[f].vertices) \cap V = {} BY <3>1
    <3> QED BY <2>3, <3>1, <3>2
  <2>6. IsRest(g, U \cup {v}, DeleteVertex(a, v)) BY <2>2, <2>4, <2>5, DeleteVertexFacts
  <2> QED BY <1>3, <1>4, <2>1, <2>3, <2>6, Zenon
<1>7. LoopState(c, n, Loops!Loop(c, g, list)) BY <1>2, <1>5, <1>6, Loops!LoopKeepsInvariant
<1>8. Loops!Loop(c, g, list) = DeleteVertices(g, list)
  <2>1. \A f : [i \in 0 .. Len(list) |-> IF i = 0 THEN g ELSE LoopStep(c, f[i - 1], list[i])]
              = [i \in 0 .. Len(list) |-> IF i = 0 THEN g ELSE DeleteVertex(f[i - 1], list[i])]
    BY <1>3
  <2> QED BY <2>1, Zenon DEF Loops!Loop, DeleteVertices, Folded
<1>9. Visited(c, n) = V BY <1>2, AllVisited, Zenon
<1> QED BY <1>4, <1>7, <1>8, <1>9

\* With a vertex, its edges are among the elements.
IsClosed(g, ids) == \A e \in DOMAIN g.edges : Range(g.edges[e].vertices) \cap ids # {} => e \in ids

\* What is extracted is a copy of the elements and of the ends of their edges; the graph keeps
\* everything but the elements.
LEMMA ExtractFacts ==
  ASSUME NEW g, IsGraph(g), NEW ids, IsFiniteSet(ids), IsClosed(g, ids)
  PROVE  /\ IsTaking(g, Extract(g, ids))
         /\ Elements(g) \cap ids \subseteq DOMAIN Extract(g, ids).place
         /\ DOMAIN Extract(g, ids).place \cap DOMAIN g.edges \subseteq ids
         /\ \A x \in DOMAIN Extract(g, ids).place :
              x \in ids \/ ComesWith(g, DOMAIN g.edges \cap ids, x)
         /\ IsRest(g, ids, Extract(g, ids).from)
<1>1. PICK all, N : all = Iterate(ids) /\ IsListOf(all, N, ids) BY IterateFacts
<1>2. PICK V, F : V = g.vertices \cap ids /\ F = DOMAIN g.edges \cap ids BY Zenon
<1>3. PICK vertices, edges : vertices = Among(g.vertices, all) /\ edges = Among(DOMAIN g.edges, all)
  OBVIOUS
<1>4. PICK n : IsListOf(vertices, n, V) BY <1>1, <1>2, <1>3, AmongFacts
<1>5. PICK m : IsListOf(edges, m, F) BY <1>1, <1>2, <1>3, AmongFacts
<1>6. PICK nothing : nothing = [from |-> g, graph |-> EmptyGraph, place |-> <<>>] BY Zenon
<1>7. PICK a, b, rest : /\ a = TakeVertices(nothing, vertices) /\ b = TakeEdges(a, edges)
                        /\ rest = DeleteVertices(b.from, vertices)
  OBVIOUS
<1>8. PICK c : c = [b EXCEPT !.from = rest] BY Zenon
<1>9. Extract(g, ids) = c BY <1>1, <1>3, <1>6, <1>7, <1>8 DEF Extract
<1>10. IsTaking(g, nothing) /\ DOMAIN nothing.place = {} /\ nothing.from = g
  <2>1. DOMAIN <<>> = {} OBVIOUS
  <2>2. /\ DOMAIN nothing = {"from", "graph", "place"} /\ nothing.graph = EmptyGraph
        /\ nothing.place = <<>> /\ nothing.from = g
    BY <1>6
  <2>3. IsGraph(EmptyGraph) BY EmptyGraphFacts
  <2> QED BY <2>1, <2>2, <2>3 DEF IsTaking, IsCopy, Preserves
<1>11. vertices \in Seq(g.vertices) /\ Range(vertices) = V
  <2>1. vertices \in Seq(V) /\ n \in Nat /\ DOMAIN vertices = 1 .. n /\ V = {vertices[j] : j \in 1 .. n}
    BY <1>4, ListIsSequence
  <2>2. V \subseteq g.vertices BY <1>2
  <2> QED BY <2>1, <2>2, SeqGrows DEF Range
<1>12. IsTaking(g, a) /\ a.from = g /\ DOMAIN a.place = V
  <2>1. DOMAIN a.place = DOMAIN nothing.place \cup Range(vertices)
    BY <1>7, <1>10, <1>11, TakeVerticesFacts, Zenon
  <2> QED BY <1>7, <1>10, <1>11, <2>1, TakeVerticesFacts
<1>13. DOMAIN a.place \cap DOMAIN g.edges = {} BY <1>2, <1>12 DEF IsGraph
<1>14. /\ IsTaking(g, b) /\ DOMAIN a.place \subseteq DOMAIN b.place
       /\ DOMAIN b.place \cap DOMAIN g.edges = F /\ IsRest(g, F, b.from)
       /\ \A x \in DOMAIN b.place : x \in V \/ x \in F \/ ComesWith(g, F, x)
  <2>1. F \subseteq DOMAIN g.edges BY <1>2
  <2> QED BY <1>5, <1>7, <1>12, <1>13, <2>1, TakeEdgesFacts DEF OnlyVerticesTaken
<1>15. PICK h : h = b.from OBVIOUS
<1>16. IsGraph(h) /\ h.vertices = g.vertices /\ DOMAIN h.edges = DOMAIN g.edges \ ids
       /\ \A e \in DOMAIN h.edges : h.edges[e] = g.edges[e]
  <2>1. g.vertices \ F = g.vertices BY <1>2 DEF IsGraph
  <2>2. DOMAIN g.edges \ F = DOMAIN g.edges \ ids BY <1>2
  <2> QED BY <1>14, <1>15, <2>1, <2>2 DEF IsRest
<1>17. ASSUME NEW f \in DOMAIN h.edges PROVE Range(h.edges[f].vertices) \cap V = {}
  <2>1. f \in DOMAIN g.edges /\ f \notin ids /\ h.edges[f] = g.edges[f] BY <1>16
  <2>2. Range(g.edges[f].vertices) \cap ids = {} BY <2>1 DEF IsClosed
  <2> QED BY <1>2, <2>1, <2>2
<1>18. IsRest(h, V, rest)
  <2>1. V \subseteq h.vertices BY <1>2, <1>16
  <2>2. IsRest(h, V, DeleteVertices(h, vertices)) BY <1>4, <1>16, <1>17, <2>1, DeleteVerticesFacts
  <2> QED BY <1>7, <1>15, <2>2
<1>19. IsRest(g, ids, rest)
  <2>1. h.vertices \ V = g.vertices \ ids BY <1>2, <1>16
  <2>2. DOMAIN h.edges \ V = DOMAIN g.edges \ ids BY <1>2, <1>16 DEF IsGraph
  <2> QED BY <1>16, <1>18, <2>1, <2>2 DEF IsRest
<1>20. DOMAIN c = DOMAIN b /\ c.place = b.place /\ c.graph = b.graph /\ c.from = rest
  BY <1>8, <1>14 DEF IsTaking
<1>21. IsTaking(g, c) BY <1>14, <1>20 DEF IsTaking
<1>22. Elements(g) \cap ids = V \cup F BY <1>2 DEF Elements
<1>23. \A x \in DOMAIN c.place : x \in ids \/ ComesWith(g, DOMAIN g.edges \cap ids, x)
  BY <1>2, <1>14, <1>20
<1> QED BY <1>2, <1>9, <1>12, <1>14, <1>19, <1>20, <1>21, <1>22, <1>23

-----------------------------------------------------------------------------
(* Quantifications leave a rule                                            *)

\* What is left of what is left, and what is copied from it.
LEMMA RestOfRest ==
  ASSUME NEW g, NEW ids, NEW h, IsRest(g, ids, h), NEW more, NEW k, IsRest(h, more, k)
  PROVE  IsRest(g, ids \cup more, k)
<1>1. k.vertices = g.vertices \ (ids \cup more) BY DEF IsRest
<1>2. DOMAIN k.edges = DOMAIN g.edges \ (ids \cup more) BY DEF IsRest
<1>3. \A e \in DOMAIN k.edges : k.edges[e] = g.edges[e] BY DEF IsRest
<1> QED BY <1>1, <1>2, <1>3 DEF IsRest

\* A copy of what is left of a graph is a copy of the graph.
LEMMA CopyOfRest ==
  ASSUME NEW g, NEW ids, NEW h, IsRest(g, ids, h), NEW place, NEW k, IsCopy(h, place, k)
  PROVE  IsCopy(g, place, k)
<1>1. ASSUME NEW x \in DOMAIN place PROVE PreservesElement(g, k, place, x)
  <2>1. PreservesElement(h, k, place, x) BY DEF IsCopy, Preserves
  <2>2. x \in h.vertices => x \in g.vertices BY DEF IsRest
  <2>3. x \in DOMAIN h.edges => x \in DOMAIN g.edges /\ h.edges[x] = g.edges[x] BY DEF IsRest
  <2> QED BY <2>1, <2>2, <2>3 DEF PreservesElement
<1> QED BY <1>1 DEF IsCopy, Preserves

\* A map between the originals of two copies, as a map between the copies.
BetweenCopies(map, from, to) ==
  LET old(y) == CHOOSE x \in DOMAIN from : from[x] = y
  IN [y \in {from[x] : x \in DOMAIN from \cap DOMAIN map} |-> to[map[old(y)]]]

\* The map between two copies keeps labels and ends if the one between the originals does.
LEMMA BetweenCopiesFacts ==
  ASSUME NEW l, IsGraph(l), NEW r, IsGraph(r), NEW map, Preserves(l, r, map),
         NEW from, NEW lg, IsCopy(l, from, lg), NEW to, NEW rg, IsCopy(r, to, rg),
         \A x \in DOMAIN from \cap DOMAIN map : map[x] \in DOMAIN to
  PROVE  Preserves(lg, rg, BetweenCopies(map, from, to))
<1>1. PICK D : D = DOMAIN from \cap DOMAIN map BY Zenon
<1>2. PICK qmap : qmap = BetweenCopies(map, from, to) OBVIOUS
<1>3. ASSUME NEW x \in D PROVE from[x] \in DOMAIN qmap /\ qmap[from[x]] = to[map[x]]
  <2>1. PICK old : old = CHOOSE z \in DOMAIN from : from[z] = from[x] OBVIOUS
  <2>2. x \in DOMAIN from BY <1>1
  <2>3. old \in DOMAIN from /\ from[old] = from[x] BY <2>1, <2>2
  <2>4. old = x BY <2>2, <2>3 DEF IsCopy
  <2> QED BY <1>1, <1>2, <2>1, <2>4 DEF BetweenCopies
<1>4. \A y \in DOMAIN qmap : \E x \in D : y = from[x] BY <1>1, <1>2 DEF BetweenCopies
<1>5. l.vertices \cap DOMAIN l.edges = {} /\ r.vertices \cap DOMAIN r.edges = {} BY DEF IsGraph
<1>6. ASSUME NEW x \in D PROVE PreservesElement(lg, rg, qmap, from[x])
  <2>1. x \in DOMAIN from /\ x \in DOMAIN map /\ map[x] \in DOMAIN to BY <1>1
  <2>2. /\ PreservesElement(l, r, map, x) /\ PreservesElement(l, lg, from, x)
        /\ PreservesElement(r, rg, to, map[x])
    BY <2>1 DEF IsCopy, Preserves
  <2>3. CASE x \in l.vertices
    <3>1. map[x] \in r.vertices /\ from[x] \in lg.vertices BY <1>5, <2>2, <2>3 DEF PreservesElement
    <3>2. to[map[x]] \in rg.vertices BY <1>5, <2>2, <3>1 DEF PreservesElement
    <3> QED BY <1>3, <3>1, <3>2 DEF PreservesElement
  <2>4. CASE x \notin l.vertices
    <3>1. PICK e, f : e = l.edges[x] /\ f = r.edges[map[x]] OBVIOUS
    <3>2. /\ x \in DOMAIN l.edges /\ map[x] \in DOMAIN r.edges /\ f = Carried(e, map)
          /\ from[x] \in DOMAIN lg.edges /\ lg.edges[from[x]] = Carried(e, from)
          /\ Range(e.vertices) \subseteq DOMAIN from /\ Range(e.vertices) \subseteq DOMAIN map
      BY <2>2, <2>4, <3>1 DEF PreservesElement
    <3>3. to[map[x]] \in DOMAIN rg.edges /\ rg.edges[to[map[x]]] = Carried(f, to)
      BY <1>5, <2>2, <3>1, <3>2 DEF PreservesElement
    <3>4. Range(e.vertices) \subseteq D BY <1>1, <3>1, <3>2
    <3>5. PICK copy : copy = lg.edges[from[x]] OBVIOUS
    <3>6. /\ DOMAIN copy.vertices = DOMAIN e.vertices /\ copy.label = e.label
          /\ \A i \in DOMAIN e.vertices : copy.vertices[i] = from[e.vertices[i]]
      BY <3>2, <3>5 DEF Carried
    <3>7. \A i \in DOMAIN e.vertices : e.vertices[i] \in D BY <3>4 DEF Range
    <3>8. \A i \in DOMAIN e.vertices : /\ copy.vertices[i] \in DOMAIN qmap
                                       /\ qmap[copy.vertices[i]] = to[map[e.vertices[i]]]
      BY <1>3, <3>6, <3>7
    <3>9. Range(copy.vertices) \subseteq DOMAIN qmap BY <3>6, <3>8 DEF Range
    <3>10. Carried(f, to) = Carried(copy, qmap)
      <4>1. /\ f.label = e.label /\ DOMAIN f.vertices = DOMAIN e.vertices
            /\ \A i \in DOMAIN e.vertices : f.vertices[i] = map[e.vertices[i]]
        BY <3>2 DEF Carried
      <4> QED BY <3>6, <3>8, <4>1 DEF Carried
    <3> QED BY <1>3, <3>2, <3>3, <3>5, <3>9, <3>10 DEF PreservesElement
  <2> QED BY <2>3, <2>4
<1> QED BY <1>2, <1>4, <1>6 DEF Preserves

\* What checkConsistency says of one side.
LEMMA QuantsFitFacts ==
  ASSUME NEW g, IsGraph(g), NEW quantMap, QuantsFit(g, quantMap), NEW q \in DOMAIN quantMap
  PROVE  IsFiniteSet(quantMap[q]) /\ quantMap[q] \subseteq Elements(g) /\ IsClosed(g, quantMap[q])
<1>1. quantMap[q] \subseteq Elements(g)
  <2>1. quantMap[q] \in Range(quantMap) BY DEF Range
  <2> QED BY <2>1 DEF QuantsFit
<1>2. IsFiniteSet(quantMap[q]) BY <1>1, GraphIsFinite, FS_Subset
<1> QED BY <1>1, <1>2 DEF QuantsFit, IsClosed

\* An element of a rule that stays there when the quantifications Q leave is closed with q.
LEMMA ClosedInRest ==
  ASSUME NEW g, NEW ids, NEW h, IsRest(g, ids, h), NEW more, IsClosed(g, more)
  PROVE  IsClosed(h, more)
BY DEF IsRest, IsClosed

\* A quantified rule that checkConsistency accepts.
IsConsistent(read) == IsAccepted(read) /\ UQIsConsistent(read)

\* The elements of one quantification: closed, and not those of another one.
LEMMA QuantifiedFacts ==
  ASSUME NEW read, IsConsistent(read), NEW q \in DOMAIN read.leftQuant
  PROVE  /\ IsFiniteSet(read.leftQuant[q]) /\ IsClosed(read.rule.left, read.leftQuant[q])
         /\ IsFiniteSet(RightQuant(read, q)) /\ IsClosed(read.rule.right, RightQuant(read, q))
         /\ \A p \in DOMAIN read.leftQuant : p # q => read.leftQuant[p] \cap read.leftQuant[q] = {}
<1>1. PICK l, r, lq, rq : /\ l = read.rule.left /\ r = read.rule.right
                          /\ lq = read.leftQuant /\ rq = read.rightQuant
  OBVIOUS
<1>2. IsGraph(l) /\ IsGraph(r) BY <1>1 DEF IsConsistent, IsAccepted, IsInstance
<1>3. QuantsFit(l, lq) /\ QuantsFit(r, rq) BY <1>1 DEF IsConsistent, UQIsConsistent
<1>4. q \in DOMAIN lq BY <1>1
<1>5. IsFiniteSet(lq[q]) /\ IsClosed(l, lq[q]) BY <1>2, <1>3, <1>4, QuantsFitFacts
<1>6. IsFiniteSet(RightQuant(read, q)) /\ IsClosed(r, RightQuant(read, q))
  <2>1. CASE q \in DOMAIN rq
    <3>1. RightQuant(read, q) = rq[q] BY <1>1, <2>1 DEF RightQuant
    <3>2. IsFiniteSet(rq[q]) /\ IsClosed(r, rq[q]) BY <1>2, <1>3, <2>1, QuantsFitFacts
    <3> QED BY <3>1, <3>2
  <2>2. CASE q \notin DOMAIN rq
    <3>1. RightQuant(read, q) = {} BY <1>1, <2>2 DEF RightQuant
    <3>2. IsFiniteSet({}) /\ IsClosed(r, {}) BY FS_EmptySet DEF IsClosed
    <3> QED BY <3>1, <3>2
  <2> QED BY <2>1, <2>2
<1>7. \A p \in DOMAIN lq : p # q => lq[p] \cap lq[q] = {} BY <1>3, <1>4 DEF QuantsFit
<1> QED BY <1>1, <1>5, <1>6, <1>7

\* What a quantification takes out of the left side: copies of elements of the whole left side,
\* an edge only if it is quantified, and a vertex that stays only if no other quantification has it.
LEMMA LeftTakenFacts ==
  ASSUME NEW read, IsConsistent(read), NEW q \in DOMAIN read.leftQuant,
         NEW Q, NEW g, IsRest(read.rule.left, GoneLeft(read, Q), g),
         NEW a, a = Extract(g, read.leftQuant[q])
  PROVE  /\ IsCopy(read.rule.left, a.place, a.graph)
         /\ IsRest(g, read.leftQuant[q], a.from)
         /\ DOMAIN a.place \cap DOMAIN read.rule.left.edges \subseteq read.leftQuant[q]
         /\ DOMAIN a.place \ read.leftQuant[q] \subseteq Staying(read)
<1>1. PICK l, ids : l = read.rule.left /\ ids = read.leftQuant[q] OBVIOUS
<1>2. IsFiniteSet(ids) /\ IsClosed(l, ids) BY <1>1, QuantifiedFacts
<1>3. IsRest(l, GoneLeft(read, Q), g) /\ IsGraph(g) BY <1>1 DEF IsRest
<1>4. IsClosed(g, ids) BY <1>2, <1>3, ClosedInRest
<1>5. a = Extract(g, ids) BY <1>1
<1>6. /\ IsTaking(g, Extract(g, ids)) /\ DOMAIN Extract(g, ids).place \cap DOMAIN g.edges \subseteq ids
      /\ \A x \in DOMAIN Extract(g, ids).place : x \in ids \/ ComesWith(g, DOMAIN g.edges \cap ids, x)
      /\ IsRest(g, ids, Extract(g, ids).from)
  BY <1>2, <1>3, <1>4, ExtractFacts
<1>7. IsCopy(g, a.place, a.graph) BY <1>5, <1>6 DEF IsTaking
<1>8. IsCopy(l, a.place, a.graph) BY <1>3, <1>7, CopyOfRest
<1>9. \A x \in DOMAIN a.place : x \in g.vertices \/ x \in DOMAIN g.edges
  BY <1>7 DEF IsCopy, Preserves, PreservesElement
<1>10. IsGraph(l) BY <1>1 DEF IsConsistent, IsAccepted, IsInstance
<1>11. g.vertices \subseteq l.vertices /\ l.vertices \cap DOMAIN l.edges = {}
  BY <1>3, <1>10 DEF IsRest, IsGraph
<1>12. DOMAIN a.place \cap DOMAIN l.edges \subseteq ids
  <2>1. \A x \in DOMAIN a.place \cap DOMAIN g.edges : x \in ids BY <1>5, <1>6
  <2> QED BY <1>9, <1>11, <2>1
<1>13. ASSUME NEW x \in DOMAIN a.place, x \notin ids PROVE x \in Staying(read)
  <2>1. PICK e \in DOMAIN g.edges \cap ids : x \in Range(g.edges[e].vertices)
    BY <1>5, <1>6, <1>13 DEF ComesWith
  <2>2. e \in DOMAIN l.edges /\ g.edges[e] = l.edges[e] BY <1>3, <2>1 DEF IsRest
  <2>3. ASSUME NEW p \in DOMAIN read.leftQuant PROVE x \notin read.leftQuant[p]
    <3>1. SUFFICES ASSUME x \in read.leftQuant[p] PROVE FALSE
      OBVIOUS
    <3>2. IsClosed(l, read.leftQuant[p]) BY <1>1, QuantifiedFacts
    <3>3. e \in read.leftQuant[p] BY <2>1, <2>2, <3>1, <3>2 DEF IsClosed
    <3>4. p # q BY <1>1, <1>13, <3>1
    <3>5. read.leftQuant[p] \cap read.leftQuant[q] = {} BY <3>4, QuantifiedFacts
    <3> QED BY <1>1, <2>1, <3>3, <3>5
  <2>4. x \in g.vertices
    <3>1. x \notin DOMAIN g.edges BY <1>5, <1>6, <1>13
    <3> QED BY <1>9, <3>1
  <2> QED BY <1>1, <1>11, <2>3, <2>4 DEF Staying, GoneLeft
<1> QED BY <1>1, <1>5, <1>6, <1>8, <1>12, <1>13

\* And out of the right side.
LEMMA RightTakenFacts ==
  ASSUME NEW read, IsConsistent(read), NEW q \in DOMAIN read.leftQuant,
         NEW Q, NEW g, IsRest(read.rule.right, GoneRight(read, Q), g),
         NEW a, a = Extract(g, RightQuant(read, q))
  PROVE  IsCopy(read.rule.right, a.place, a.graph) /\ IsRest(g, RightQuant(read, q), a.from)
<1>1. PICK r, ids : r = read.rule.right /\ ids = RightQuant(read, q) OBVIOUS
<1>2. IsFiniteSet(ids) /\ IsClosed(r, ids) BY <1>1, QuantifiedFacts
<1>3. IsRest(r, GoneRight(read, Q), g) /\ IsGraph(g) BY <1>1 DEF IsRest
<1>4. IsClosed(g, ids) BY <1>2, <1>3, ClosedInRest
<1>5. a = Extract(g, ids) BY <1>1
<1>6. IsTaking(g, Extract(g, ids)) /\ IsRest(g, ids, Extract(g, ids).from)
  BY <1>2, <1>3, <1>4, ExtractFacts, Zenon
<1>7. IsCopy(g, a.place, a.graph) BY <1>5, <1>6 DEF IsTaking
<1>8. IsCopy(r, a.place, a.graph) BY <1>3, <1>7, CopyOfRest
<1> QED BY <1>1, <1>5, <1>6, <1>8

\* One more quantification of the right kind
LEMMA MoreQuantifications ==
  ASSUME NEW quants, NEW V, AreQuantifications(quants, V), NEW quant, IsQuantification(quant, V)
  PROVE  AreQuantifications(Append(quants, quant), V)
<1>1. PICK S : quants \in Seq(S) /\ \A one \in S : IsQuantification(one, V) BY DEF AreQuantifications
<1>2. PICK T : T = S \cup {quant} BY Zenon
<1>3. quants \in Seq(T) /\ quant \in T BY <1>1, <1>2, SeqGrows
<1>4. Append(quants, quant) \in Seq(T) BY <1>3, AppendProperties
<1>5. \A one \in T : IsQuantification(one, V) BY <1>1, <1>2
<1> QED BY <1>4, <1>5 DEF AreQuantifications

\* What is left of the map takes elements of the rule to elements of the rule, though those may
\* have left the main rule.
LEMMA MadeMapFacts ==
  ASSUME NEW read, IsConsistent(read), NEW Q, Q \subseteq DOMAIN read.leftQuant, NEW uq, Made(read, Q, uq)
  PROVE  Preserves(read.rule.left, read.rule.right, uq.main.map)
<1>1. PICK l, r, full, map, gone : /\ l = read.rule.left /\ r = read.rule.right /\ full = read.rule.map
                                   /\ map = uq.main.map /\ gone = GoneLeft(read, Q)
  OBVIOUS
<1>2. IsGraph(l) /\ Preserves(l, r, full) BY <1>1 DEF IsConsistent, IsAccepted, IsInstance
<1>3. DOMAIN map = DOMAIN full \ gone /\ \A x \in DOMAIN map : map[x] = full[x] BY <1>1 DEF Made
<1>4. ASSUME NEW x \in DOMAIN map PROVE PreservesElement(l, r, map, x)
  <2>1. PreservesElement(l, r, full, x) /\ map[x] = full[x] BY <1>2, <1>3 DEF Preserves
  <2>2. CASE x \in l.vertices /\ full[x] \in r.vertices BY <2>1, <2>2 DEF PreservesElement
  <2>3. CASE ~ (x \in l.vertices /\ full[x] \in r.vertices)
    <3>1. PICK e : e = l.edges[x] OBVIOUS
    <3>2. /\ x \in DOMAIN l.edges /\ full[x] \in DOMAIN r.edges
          /\ Range(e.vertices) \subseteq DOMAIN full /\ r.edges[full[x]] = Carried(e, full)
      BY <2>1, <2>3, <3>1 DEF PreservesElement
    <3>3. ASSUME NEW v \in Range(e.vertices) PROVE v \notin gone
      <4>1. SUFFICES ASSUME NEW p \in Q, v \in read.leftQuant[p] PROVE FALSE
        BY <1>1 DEF GoneLeft
      <4>2. IsClosed(l, read.leftQuant[p]) BY <1>1, QuantifiedFacts
      <4>3. x \in read.leftQuant[p] BY <3>1, <3>2, <4>1, <4>2 DEF IsClosed
      <4>4. x \in gone BY <1>1, <4>3 DEF GoneLeft
      <4> QED BY <1>3, <4>4
    <3>4. Range(e.vertices) \subseteq DOMAIN map BY <1>3, <3>2, <3>3
    <3>5. \A i \in DOMAIN e.vertices : map[e.vertices[i]] = full[e.vertices[i]]
      BY <1>3, <3>4 DEF Range
    <3>6. Carried(e, map) = Carried(e, full) BY <3>5 DEF Carried
    <3> QED BY <2>1, <3>1, <3>2, <3>4, <3>6 DEF PreservesElement
  <2> QED BY <2>2, <2>3
<1> QED BY <1>1, <1>4 DEF Preserves

\* One more quantification leaves the rule.
LEMMA ConvertToQuantFacts ==
  ASSUME NEW read, IsConsistent(read), NEW Q, Q \subseteq DOMAIN read.leftQuant,
         NEW q \in DOMAIN read.leftQuant, NEW uq, SplitSoFar(read, Q, uq), uq.error = "none"
  PROVE  SplitSoFar(read, Q \cup {q}, ConvertToQuant(uq, read.leftQuant[q], RightQuant(read, q)))
<1>0. PICK next : next = ConvertToQuant(uq, read.leftQuant[q], RightQuant(read, q)) OBVIOUS
<1>a. Made(read, Q, uq) /\ {"main", "quants", "error"} \subseteq DOMAIN uq BY DEF SplitSoFar
<1>1. PICK main, leftIDs, rightIDs : /\ main = uq.main
                                     /\ leftIDs = read.leftQuant[q] /\ rightIDs = RightQuant(read, q)
  OBVIOUS
<1>2. PICK a, b : a = Extract(main.left, leftIDs) /\ b = Extract(main.right, rightIDs) OBVIOUS
<1>3. next = WithQuantification(uq, leftIDs, a, b) BY <1>0, <1>1, <1>2 DEF ConvertToQuant
<1>4. CASE \E x \in DOMAIN a.place \cap DOMAIN main.map : main.map[x] \notin DOMAIN b.place
  <2>1. next = [uq EXCEPT !.error = "out_of_range"] BY <1>1, <1>3, <1>4 DEF WithQuantification, Fail
  <2>2. DOMAIN next = DOMAIN uq /\ next.error = "out_of_range" BY <2>1
  <2>3. SplitSoFar(read, Q \cup {q}, next) BY <1>a, <2>2 DEF SplitSoFar
  <2> QED BY <1>0, <2>3
<1>5. CASE \A x \in DOMAIN a.place \cap DOMAIN main.map : main.map[x] \in DOMAIN b.place
  <2>1. PICK l, r : l = read.rule.left /\ r = read.rule.right OBVIOUS
  <2>2. IsGraph(l) /\ IsGraph(r) BY <2>1 DEF IsConsistent, IsAccepted, IsInstance
  <2>3. /\ IsRest(l, GoneLeft(read, Q), main.left) /\ IsRest(r, GoneRight(read, Q), main.right)
        /\ DOMAIN main.map = DOMAIN read.rule.map \ GoneLeft(read, Q)
        /\ \A x \in DOMAIN main.map : main.map[x] = read.rule.map[x]
        /\ {"left", "right", "map"} \subseteq DOMAIN main
        /\ AreQuantifications(uq.quants, Staying(read))
    BY <1>a, <1>1, <2>1 DEF Made
  <2>4. /\ IsCopy(l, a.place, a.graph) /\ IsRest(main.left, leftIDs, a.from)
        /\ DOMAIN a.place \cap DOMAIN l.edges \subseteq leftIDs
        /\ DOMAIN a.place \ leftIDs \subseteq Staying(read)
    <3>1. PICK g : g = main.left OBVIOUS
    <3>2. IsRest(read.rule.left, GoneLeft(read, Q), g) BY <2>1, <2>3, <3>1
    <3>3. a = Extract(g, read.leftQuant[q]) BY <1>1, <1>2, <3>1
    <3>4. /\ IsCopy(read.rule.left, a.place, a.graph) /\ IsRest(g, read.leftQuant[q], a.from)
          /\ DOMAIN a.place \cap DOMAIN read.rule.left.edges \subseteq read.leftQuant[q]
          /\ DOMAIN a.place \ read.leftQuant[q] \subseteq Staying(read)
      BY <3>2, <3>3, LeftTakenFacts
    <3> QED BY <1>1, <2>1, <3>1, <3>4
  <2>5. IsCopy(r, b.place, b.graph) /\ IsRest(main.right, rightIDs, b.from)
    <3>1. PICK g : g = main.right OBVIOUS
    <3>2. IsRest(read.rule.right, GoneRight(read, Q), g) BY <2>1, <2>3, <3>1
    <3>3. b = Extract(g, RightQuant(read, q)) BY <1>1, <1>2, <3>1
    <3>4. IsCopy(read.rule.right, b.place, b.graph) /\ IsRest(g, RightQuant(read, q), b.from)
      BY <3>2, <3>3, RightTakenFacts
    <3> QED BY <1>1, <2>1, <3>1, <3>4
  <2>6. PICK qmap : qmap = BetweenCopies(main.map, a.place, b.place) OBVIOUS
  <2>7. PICK old, match : /\ old = [y \in {a.place[x] : x \in DOMAIN a.place \ leftIDs} |->
                                      CHOOSE x \in DOMAIN a.place : a.place[x] = y]
                          /\ match = old
    BY Zenon
  <2>8. PICK qrule : qrule = [left |-> a.graph, right |-> b.graph, name |-> "", map |-> qmap] BY Zenon
  <2>9. PICK quant : quant = [rule |-> qrule, match |-> match] BY Zenon
  <2>10. Quantification(main.map, leftIDs, a, b) = quant
    BY <2>6, <2>7, <2>8, <2>9, Zenon DEF Quantification, BetweenCopies, Shared
  <2>11. PICK map, quants : /\ map = Restrict(main.map, DOMAIN main.map \ leftIDs)
                            /\ quants = Append(uq.quants, quant)
    BY Zenon
  <2>12. next = [uq EXCEPT !.main.left = a.from, !.main.right = b.from, !.main.map = map, !.quants = quants]
    <3>1. next = [uq EXCEPT !.main.left = a.from, !.main.right = b.from,
                            !.main.map = Restrict(@, DOMAIN @ \ leftIDs),
                            !.quants = Append(@, Quantification(uq.main.map, leftIDs, a, b))]
      BY <1>1, <1>3, <1>5 DEF WithQuantification
    <3> QED BY <1>1, <2>3, <2>10, <2>11, <3>1, Zenon
  <2>13. /\ DOMAIN next = DOMAIN uq /\ DOMAIN next.main = DOMAIN main /\ next.quants = quants
         /\ next.main.left = a.from /\ next.main.right = b.from /\ next.main.map = map
    <3>1. PICK newMain : newMain = [main EXCEPT !.left = a.from, !.right = b.from, !.map = map] OBVIOUS
    <3>2. PICK newUq : newUq = [uq EXCEPT !.main = newMain, !.quants = quants] OBVIOUS
    <3>3. next = newUq BY <1>1, <2>3, <2>12, <3>1, <3>2, Zenon
    <3>4. /\ DOMAIN newMain = DOMAIN main
          /\ newMain.left = a.from /\ newMain.right = b.from /\ newMain.map = map
      BY <2>3, <3>1
    <3>5. DOMAIN newUq = DOMAIN uq /\ newUq.main = newMain /\ newUq.quants = quants BY <3>2
    <3> QED BY <3>3, <3>4, <3>5
  <2>14. IsQuantification(quant, Staying(read))
    <3>1. Preserves(l, r, main.map) BY <1>a, <1>1, <2>1, MadeMapFacts
    <3>2. Preserves(a.graph, b.graph, qmap) BY <1>5, <2>2, <2>4, <2>5, <2>6, <3>1, BetweenCopiesFacts
    <3>3. IsGraph(a.graph) /\ IsGraph(b.graph) BY <2>4, <2>5 DEF IsCopy
    <3>4. IsInstance(qrule) BY <2>8, <3>2, <3>3, Zenon DEF IsInstance
    <3>5. ASSUME NEW y \in DOMAIN match PROVE y \in a.graph.vertices /\ match[y] \in Staying(read)
      <4>1. PICK x \in DOMAIN a.place \ leftIDs : y = a.place[x] BY <2>7
      <4>2. match[y] \in DOMAIN a.place /\ a.place[match[y]] = y BY <2>7, <4>1
      <4>3. match[y] = x BY <2>4, <4>1, <4>2 DEF IsCopy
      <4>4. x \in Staying(read) /\ x \in l.vertices BY <2>1, <2>4, <4>1 DEF Staying
      <4>5. x \notin DOMAIN l.edges BY <2>2, <4>4 DEF IsGraph
      <4>6. PreservesElement(l, a.graph, a.place, x) BY <2>4, <4>1 DEF IsCopy, Preserves
      <4>7. y \in a.graph.vertices BY <4>1, <4>5, <4>6 DEF PreservesElement
      <4> QED BY <4>3, <4>4, <4>7
    <3>6. quant.rule = qrule /\ quant.match = match /\ qrule.left = a.graph BY <2>8, <2>9, Zenon
    <3> QED BY <3>4, <3>5, <3>6 DEF IsQuantification
  <2>15. AreQuantifications(quants, Staying(read))
    <3>1. PICK before : before = uq.quants OBVIOUS
    <3>2. AreQuantifications(before, Staying(read)) BY <2>3, <3>1
    <3>3. AreQuantifications(Append(before, quant), Staying(read)) BY <2>14, <3>2, MoreQuantifications
    <3> QED BY <2>11, <3>1, <3>3
  <2>16. GoneLeft(read, Q \cup {q}) = GoneLeft(read, Q) \cup leftIDs BY <1>1 DEF GoneLeft
  <2>17. GoneRight(read, Q \cup {q}) = GoneRight(read, Q) \cup rightIDs BY <1>1 DEF GoneRight
  <2>18. /\ IsRest(l, GoneLeft(read, Q \cup {q}), a.from)
         /\ IsRest(r, GoneRight(read, Q \cup {q}), b.from)
    <3>1. PICK g, h, gone, goneR : /\ g = main.left /\ h = main.right
                                   /\ gone = GoneLeft(read, Q) /\ goneR = GoneRight(read, Q)
      OBVIOUS
    <3>2. PICK k, m : k = a.from /\ m = b.from OBVIOUS
    <3>3. IsRest(l, gone, g) /\ IsRest(r, goneR, h) /\ IsRest(g, leftIDs, k) /\ IsRest(h, rightIDs, m)
      BY <2>3, <2>4, <2>5, <3>1, <3>2
    <3>4. IsRest(l, gone \cup leftIDs, k) BY <3>3, RestOfRest
    <3>5. IsRest(r, goneR \cup rightIDs, m) BY <3>3, RestOfRest
    <3> QED BY <2>16, <2>17, <3>1, <3>2, <3>4, <3>5
  <2>19. /\ DOMAIN map = DOMAIN read.rule.map \ GoneLeft(read, Q \cup {q})
         /\ \A x \in DOMAIN map : map[x] = read.rule.map[x]
    <3>1. DOMAIN map = DOMAIN main.map \ leftIDs /\ \A x \in DOMAIN map : map[x] = main.map[x]
      BY <2>11 DEF Restrict
    <3> QED BY <2>3, <2>16, <3>1
  <2>20. Made(read, Q \cup {q}, next) BY <2>1, <2>3, <2>13, <2>15, <2>18, <2>19 DEF Made
  <2>21. SplitSoFar(read, Q \cup {q}, next) BY <1>a, <2>13, <2>20 DEF SplitSoFar
  <2> QED BY <1>0, <2>21
<1> QED BY <1>4, <1>5

\* The quantified rule that is made of a consistent reading.
LEMMA UQRuleFacts ==
  ASSUME NEW read, IsConsistent(read), NEW uq, uq = UQRuleOf(read), uq.error = "none"
  PROVE  Made(read, DOMAIN read.leftQuant, uq)
<1>1. PICK Q, list : Q = DOMAIN read.leftQuant /\ list = Iterate(Q) OBVIOUS
<1>2. PICK n : IsListOf(list, n, Q)
  <2>1. IsFiniteSet(Q) BY <1>1 DEF IsConsistent, IsAccepted
  <2> QED BY <1>1, <2>1, IterateFacts
<1> DEFINE base == [main |-> read.rule, quants |-> <<>>, error |-> "none"]
<1>4. PICK c : c = [loop |-> "quantification", read |-> read, seq |-> list] BY Zenon
<1>5. c.seq = list /\ c.read = read /\ Len(list) = n /\ n \in Nat /\ IsListOf(c.seq, n, Q)
  BY <1>2, <1>4 DEF IsListOf
<1>6. \A a, x : LoopStep(c, a, x) =
        IF a.error = "none" THEN ConvertToQuant(a, read.leftQuant[x], RightQuant(read, x)) ELSE a
  BY <1>4 DEF LoopStep
<1>7. \A i, a : LoopState(c, i, a) <=> SplitSoFar(read, Visited(c, i), a)
  BY <1>4, <1>5 DEF LoopState
<1>8. LoopState(c, 0, base)
  <2>1. Visited(c, 0) = {} BY <1>5, AllVisited, Zenon
  <2>2. GoneLeft(read, {}) = {} /\ GoneRight(read, {}) = {} BY DEF GoneLeft, GoneRight
  <2>3. PICK main, l, r, none : /\ main = read.rule /\ l = main.left /\ r = main.right /\ none = {}
    BY Zenon
  <2>4. IsGraph(l) /\ IsGraph(r) /\ {"left", "right", "map"} \subseteq DOMAIN main
    BY <2>3 DEF IsConsistent, IsAccepted, IsInstance
  <2>5. IsRest(l, none, l) /\ IsRest(r, none, r) BY <2>3, <2>4, NothingDeleted
  <2>6. AreQuantifications(<<>>, Staying(read))
    <3>1. PICK S : S = {} BY Zenon
    <3>2. <<>> \in Seq(S) BY EmptySeq
    <3>3. \A quant \in S : IsQuantification(quant, Staying(read)) BY <3>1
    <3> QED BY <3>2, <3>3 DEF AreQuantifications
  <2>7. /\ DOMAIN base = {"main", "quants", "error"}
        /\ base.main = main /\ base.quants = <<>>
    BY <2>3
  <2>8. Made(read, {}, base) BY <2>2, <2>3, <2>4, <2>5, <2>6, <2>7, Zenon DEF Made
  <2>9. SplitSoFar(read, {}, base) BY <2>7, <2>8 DEF SplitSoFar
  <2> QED BY <1>7, <2>1, <2>9
<1>9. ASSUME NEW i \in 1 .. n, NEW a, LoopState(c, i - 1, a)
      PROVE  LoopState(c, i, LoopStep(c, a, list[i]))
  <2>1. PICK q, P : q = list[i] /\ P = Visited(c, i - 1) OBVIOUS
  <2>2. Visited(c, i) = P \cup {q} /\ q \in Q /\ P \subseteq Q BY <1>5, <2>1, OneMoreVisited, Zenon
  <2>3. SplitSoFar(read, P, a) BY <1>7, <1>9, <2>1
  <2>4. CASE a.error = "none"
    <3>1. P \subseteq DOMAIN read.leftQuant /\ q \in DOMAIN read.leftQuant BY <1>1, <2>2
    <3>2. SplitSoFar(read, P \cup {q}, ConvertToQuant(a, read.leftQuant[q], RightQuant(read, q)))
      BY <2>3, <2>4, <3>1, ConvertToQuantFacts, Zenon
    <3> QED BY <1>6, <1>7, <2>1, <2>2, <2>4, <3>2
  <2>5. CASE a.error # "none"
    <3>1. SplitSoFar(read, P \cup {q}, a) BY <2>3, <2>5 DEF SplitSoFar
    <3> QED BY <1>6, <1>7, <2>1, <2>2, <2>5, <3>1, Zenon
  <2> QED BY <2>4, <2>5
<1>10. LoopState(c, n, Loops!Loop(c, base, list)) BY <1>5, <1>8, <1>9, Loops!LoopKeepsInvariant
<1>11. Loops!Loop(c, base, Iterate(DOMAIN read.leftQuant)) = UQRuleOf(read)
  <2> DEFINE l == Iterate(DOMAIN read.leftQuant)
  <2>1. \A f : [i \in 0 .. Len(l) |-> IF i = 0 THEN base ELSE LoopStep(c, f[i - 1], l[i])]
              = [i \in 0 .. Len(l) |-> IF i = 0 THEN base ELSE
                  IF f[i - 1].error = "none"
                  THEN ConvertToQuant(f[i - 1], read.leftQuant[l[i]], RightQuant(read, l[i]))
                  ELSE f[i - 1]]
    BY <1>6
  <2> QED BY <2>1, Zenon DEF Loops!Loop, UQRuleOf, Each, Folded
<1>12. Visited(c, n) = Q BY <1>5, AllVisited, Zenon
<1>13. SplitSoFar(read, Q, uq) BY <1>1, <1>7, <1>10, <1>11, <1>12
<1> QED BY <1>1, <1>13 DEF SplitSoFar

\* Its main rule, unless the map leads out of it.
LEMMA MainRuleFacts ==
  ASSUME NEW read, IsConsistent(read), NEW uq, Made(read, DOMAIN read.leftQuant, uq), ~ IsDangling(uq)
  PROVE  IsInstance(uq.main) /\ uq.main.left.vertices = Staying(read)
<1>1. PICK Q, l, r, main : /\ Q = DOMAIN read.leftQuant /\ l = read.rule.left /\ r = read.rule.right
                           /\ main = uq.main
  OBVIOUS
<1>2. PICK ml, mr, map : ml = main.left /\ mr = main.right /\ map = main.map OBVIOUS
<1>3. PICK goneL, goneR : goneL = GoneLeft(read, Q) /\ goneR = GoneRight(read, Q) OBVIOUS
<1>4. /\ {"left", "right", "map"} \subseteq DOMAIN main
      /\ IsRest(l, goneL, ml) /\ IsRest(r, goneR, mr)
      /\ DOMAIN map = DOMAIN read.rule.map \ goneL
  BY <1>1, <1>2, <1>3 DEF Made
<1>5. Preserves(l, r, map) BY <1>1, <1>2, MadeMapFacts
<1>6. \A x \in DOMAIN map : map[x] \in mr.vertices \/ map[x] \in DOMAIN mr.edges
  BY <1>1, <1>2 DEF IsDangling, Elements, Range
<1>7. IsGraph(r) /\ IsGraph(l) BY <1>1 DEF IsConsistent, IsAccepted, IsInstance
<1>8. ASSUME NEW x \in DOMAIN map PROVE PreservesElement(ml, mr, map, x)
  <2>1. PreservesElement(l, r, map, x) /\ x \notin goneL BY <1>4, <1>5 DEF Preserves
  <2>2. CASE x \in l.vertices /\ map[x] \in r.vertices
    <3>1. map[x] \notin DOMAIN r.edges BY <1>7, <2>2 DEF IsGraph
    <3>2. map[x] \in mr.vertices BY <1>4, <1>6, <3>1 DEF IsRest
    <3>3. x \in ml.vertices BY <1>4, <2>1, <2>2 DEF IsRest
    <3> QED BY <3>2, <3>3 DEF PreservesElement
  <2>3. CASE ~ (x \in l.vertices /\ map[x] \in r.vertices)
    <3>1. /\ x \in DOMAIN l.edges /\ map[x] \in DOMAIN r.edges
          /\ Range(l.edges[x].vertices) \subseteq DOMAIN map
          /\ r.edges[map[x]] = Carried(l.edges[x], map)
      BY <2>1, <2>3 DEF PreservesElement
    <3>2. x \in DOMAIN ml.edges /\ ml.edges[x] = l.edges[x] BY <1>4, <2>1, <3>1 DEF IsRest
    <3>3. map[x] \notin r.vertices BY <1>7, <3>1 DEF IsGraph
    <3>4. map[x] \in DOMAIN mr.edges BY <1>4, <1>6, <3>3 DEF IsRest
    <3>5. mr.edges[map[x]] = r.edges[map[x]] BY <1>4, <3>4 DEF IsRest
    <3> QED BY <3>1, <3>2, <3>4, <3>5 DEF PreservesElement
  <2> QED BY <2>2, <2>3
<1>9. IsGraph(ml) /\ IsGraph(mr) BY <1>4 DEF IsRest
<1>10. ml.vertices = l.vertices \ goneL BY <1>4 DEF IsRest
<1>11. Preserves(ml, mr, map) BY <1>8 DEF Preserves
<1>12. IsInstance(main) BY <1>2, <1>4, <1>9, <1>11 DEF IsInstance
<1>13. ml.vertices = Staying(read) BY <1>1, <1>3, <1>10 DEF Staying
<1> QED BY <1>1, <1>2, <1>12, <1>13

-----------------------------------------------------------------------------
(* Instances of quantified rules                                           *)

\* An edge has its ends among what has a place.
HasEnds(from, place, x) == x \in DOMAIN from.edges => Range(from.edges[x].vertices) \subseteq DOMAIN place

\* One more element comes to a graph, in its place.
LEMMA AddElementFacts ==
  ASSUME NEW from, IsGraph(from), NEW h, IsGraph(h), NEW place, Preserves(from, h, place),
         NEW x, x \in Elements(from), x \notin DOMAIN place, HasEnds(from, place, x),
         NEW more, more = AddElement(h, from, x, place),
         NEW wider, wider = Entered(place, x, NewID(h))
  PROVE  /\ IsGraph(more) /\ Includes(more, h) /\ Preserves(from, more, wider)
         /\ x \in from.vertices => NewID(h) \in more.vertices
<1>1. PICK new : new = NewID(h) OBVIOUS
<1>2. /\ DOMAIN wider = DOMAIN place \cup {x} /\ wider[x] = new
      /\ \A z \in DOMAIN place : z # x => wider[z] = place[z]
  BY <1>1 DEF Entered
<1>3. from.vertices \cap DOMAIN from.edges = {} BY DEF IsGraph
<1>4. IsGraph(more) /\ Includes(more, h) /\ PreservesElement(from, more, wider, x)
  <2>1. CASE x \in from.vertices
    <3>1. more = AddVertex(h) BY <2>1 DEF AddElement
    <3>2. IsGraph(more) /\ more.vertices = h.vertices \cup {new} /\ more.edges = h.edges
      BY <1>1, <3>1, AddVertexFacts
    <3> QED BY <1>2, <2>1, <3>2 DEF Includes, PreservesElement
  <2>2. CASE x \notin from.vertices
    <3>1. PICK edge, stored : edge = from.edges[x] /\ stored = Carried(edge, place) OBVIOUS
    <3>2. x \in DOMAIN from.edges /\ IsEdge(edge, from.vertices) BY <2>2, <3>1 DEF Elements, IsGraph
    <3>3. PICK label, images : label = edge.label /\ images = stored.vertices OBVIOUS
    <3>4. more = AddEdge(h, label, images) BY <2>2, <3>1, <3>3 DEF AddElement, Carried
    <3>5. Range(edge.vertices) \subseteq DOMAIN place /\ Range(edge.vertices) \subseteq from.vertices
      <4>1. PICK ends : ends = edge.vertices OBVIOUS
      <4>2. ends \in Seq(from.vertices) BY <3>2, <4>1 DEF IsEdge
      <4>3. Range(ends) \subseteq from.vertices BY <4>2, SeqPositions DEF Range
      <4> QED BY <3>1, <3>2, <4>1, <4>3 DEF HasEnds
    <3>6. \A v \in Range(edge.vertices) : place[v] \in h.vertices
      <4> SUFFICES ASSUME NEW v \in Range(edge.vertices) PROVE place[v] \in h.vertices
        OBVIOUS
      <4>1. v \in DOMAIN place /\ v \notin DOMAIN from.edges BY <1>3, <3>5
      <4>2. PreservesElement(from, h, place, v) BY <4>1 DEF Preserves
      <4> QED BY <4>1, <4>2 DEF PreservesElement
    <3>7. IsEdge(stored, h.vertices) BY <3>1, <3>2, <3>6, CarriedFacts
    <3>8. images \in Seq(h.vertices) /\ stored = [label |-> label, vertices |-> images]
      BY <3>1, <3>3, <3>7 DEF IsEdge, Carried
    <3>9. IsGraph(more) /\ more.vertices = h.vertices /\ more.edges = Entered(h.edges, new, stored)
      BY <1>1, <3>4, <3>8, AddEdgeFacts
    <3>10. /\ DOMAIN more.edges = DOMAIN h.edges \cup {new} /\ more.edges[new] = stored
           /\ \A f \in DOMAIN h.edges : f # new => more.edges[f] = h.edges[f]
      BY <3>9 DEF Entered
    <3>11. Includes(more, h)
      <4>1. new \notin Elements(h) BY <1>1, GraphIsFinite
      <4> QED BY <3>9, <3>10, <4>1 DEF Includes, Elements
    <3>12. stored = Carried(edge, wider)
      <4>1. \A i \in DOMAIN edge.vertices : edge.vertices[i] \in DOMAIN place BY <3>5 DEF Range
      <4>2. \A i \in DOMAIN edge.vertices : wider[edge.vertices[i]] = place[edge.vertices[i]]
        BY <1>2, <4>1
      <4> QED BY <3>1, <4>2 DEF Carried
    <3>13. Range(edge.vertices) \subseteq DOMAIN wider BY <1>2, <3>5
    <3>14. PreservesElement(from, more, wider, x)
      BY <1>2, <3>1, <3>2, <3>10, <3>12, <3>13 DEF PreservesElement
    <3> QED BY <3>9, <3>11, <3>14
  <2> QED BY <2>1, <2>2
<1>5. ASSUME NEW z \in DOMAIN wider PROVE PreservesElement(from, more, wider, z)
  <2>1. CASE z = x BY <1>4, <2>1
  <2>2. CASE z # x
    <3>1. z \in DOMAIN place /\ PreservesElement(from, h, place, z) BY <1>2, <2>2 DEF Preserves
    <3>2. DOMAIN place \subseteq DOMAIN wider /\ \A y \in DOMAIN place : wider[y] = place[y] BY <1>2
    <3> QED BY <1>4, <3>1, <3>2, PreservesGrows DEF Includes
  <2> QED BY <2>1, <2>2
<1>6. x \in from.vertices => new \in more.vertices BY <1>2, <1>3, <1>4 DEF PreservesElement
<1> QED BY <1>1, <1>4, <1>5, <1>6 DEF Preserves

\* The right side of a rule grows.
LEMMA RightGrows ==
  ASSUME NEW left, NEW right, NEW map, Preserves(left, right, map), NEW more, Includes(more, right)
  PROVE  Preserves(left, more, map)
<1> SUFFICES ASSUME NEW x \in DOMAIN map PROVE PreservesElement(left, more, map, x)
  BY DEF Preserves
<1>1. PreservesElement(left, right, map, x) BY DEF Preserves
<1> QED BY <1>1 DEF PreservesElement, Includes

\* The only preimage of an element, if it is shared.
LEMMA SharedPreimageFacts ==
  ASSUME NEW quant, NEW V, IsQuantification(quant, V), NEW y, NEW x \in SharedPreimages(quant, y)
  PROVE  /\ SharedPreimages(quant, y) = {x} /\ x \in DOMAIN quant.match
         /\ quant.match[x] \in V /\ y \in quant.rule.right.vertices
<1>1. PICK left, right, qmap : left = quant.rule.left /\ right = quant.rule.right /\ qmap = quant.rule.map
  OBVIOUS
<1>2. IsGraph(left) /\ Preserves(left, right, qmap) BY <1>1 DEF IsQuantification, IsInstance
<1>3. PICK P : P = Preimage(qmap, y) OBVIOUS
<1>4. P \subseteq DOMAIN qmap /\ \A z \in P : qmap[z] = y BY <1>3 DEF Preimage
<1>5. IsFiniteSet(P)
  <2>1. \A z \in DOMAIN qmap : z \in Elements(left) BY <1>2, PreservesIntoElements
  <2>2. P \subseteq Elements(left) BY <1>4, <2>1
  <2> QED BY <1>2, <2>2, GraphIsFinite, FS_Subset
<1>6. Cardinality(P) = 1 /\ SharedPreimages(quant, y) = P \cap DOMAIN quant.match
  BY <1>1, <1>3 DEF SharedPreimages
<1>7. PICK z : P = {z} BY <1>5, <1>6, FS_Singleton
<1>8. x = z /\ x \in P /\ x \in DOMAIN quant.match BY <1>6, <1>7
<1>9. x \in left.vertices /\ x \notin DOMAIN left.edges
  BY <1>1, <1>2, <1>8 DEF IsQuantification, IsGraph
<1>10. PreservesElement(left, right, qmap, x) BY <1>2, <1>4, <1>8 DEF Preserves
<1>11. y \in right.vertices BY <1>4, <1>8, <1>9, <1>10 DEF PreservesElement
<1>12. quant.match[x] \in V BY <1>8 DEF IsQuantification
<1> QED BY <1>1, <1>6, <1>7, <1>8, <1>11, <1>12

\* One more element of the right side
LEMMA ExtendRightFacts ==
  ASSUME NEW rule, NEW quant, IsQuantification(quant, rule.left.vertices),
         NEW done, NEW a, RightExtended(rule, quant, done, a),
         NEW y, y \in Elements(quant.rule.right), y \notin done
  PROVE  RightExtended(rule, quant, done \cup {y}, ExtendRight(a, quant, y))
<1>1. PICK qRight, right, map, r2r : /\ qRight = quant.rule.right /\ right = a.rule.right
                                     /\ map = a.rule.map /\ r2r = a.r2r
  OBVIOUS
<1>2. PICK shared, kept : /\ shared = {quant.match[x] : x \in SharedPreimages(quant, y)}
                          /\ kept = shared \cap DOMAIN map
  BY Zenon
<1>3. /\ IsExtension(a) /\ a.rule.left = rule.left /\ map = rule.map /\ a.l2l = quant.match
      /\ DOMAIN r2r \subseteq done /\ Preserves(qRight, right, r2r) /\ SharedGoesAlong(rule, quant, r2r)
  BY <1>1 DEF RightExtended
<1>4. IsGraph(qRight) BY <1>1 DEF IsQuantification, IsInstance
<1>5. IsGraph(a.rule.left) /\ IsGraph(right) /\ Preserves(a.rule.left, right, map)
      /\ {"left", "right", "map"} \subseteq DOMAIN a.rule
  BY <1>1, <1>3 DEF IsExtension, IsInstance
<1>6. y \notin DOMAIN r2r BY <1>3
<1>7. CASE shared # {} /\ kept = {}
  <2>1. ExtendRight(a, quant, y) = a BY <1>1, <1>2, <1>7 DEF ExtendRight
  <2>2. DOMAIN r2r \subseteq done \cup {y} BY <1>3
  <2>3. RightExtended(rule, quant, done \cup {y}, a) BY <1>1, <1>3, <2>2 DEF RightExtended
  <2> QED BY <2>1, <2>3
<1>8. CASE shared # {} /\ kept # {}
  <2>1. PICK x \in SharedPreimages(quant, y) : quant.match[x] \in shared BY <1>2, <1>8
  <2>2. /\ SharedPreimages(quant, y) = {x} /\ quant.match[x] \in rule.left.vertices
        /\ y \in qRight.vertices
    BY <1>1, <2>1, SharedPreimageFacts
  <2>3. PICK z : z = quant.match[x] OBVIOUS
  <2>4. shared = {z} /\ kept = {z} /\ z \in DOMAIN map BY <1>2, <1>8, <2>2, <2>3
  <2>5. (CHOOSE k \in kept : TRUE) = z BY <2>4
  <2>6. PICK wider : wider = Entered(r2r, y, map[z]) OBVIOUS
  <2>7. PICK next : next = [a EXCEPT !.r2r = wider] BY Zenon
  <2>8. ExtendRight(a, quant, y) = next
    <3>1. ExtendRight(a, quant, y)
            = [a EXCEPT !.r2r = Entered(@, y, a.rule.map[CHOOSE k \in kept : TRUE])]
      BY <1>1, <1>2, <1>8 DEF ExtendRight
    <3> QED BY <1>1, <1>3, <2>5, <2>6, <2>7, <3>1, Zenon DEF IsExtension
  <2>9. /\ DOMAIN next = DOMAIN a /\ next.r2r = wider /\ next.rule = a.rule /\ next.l2l = a.l2l
    BY <1>3, <2>7 DEF IsExtension
  <2>10. /\ DOMAIN wider = DOMAIN r2r \cup {y} /\ wider[y] = map[z]
         /\ \A w \in DOMAIN r2r : wider[w] = r2r[w]
    BY <1>6, <2>6 DEF Entered
  <2>11. map[z] \in right.vertices
    <3>1. z \in a.rule.left.vertices /\ z \notin DOMAIN a.rule.left.edges
      BY <1>3, <1>5, <2>2, <2>3 DEF IsGraph
    <3>2. PreservesElement(a.rule.left, right, map, z) BY <1>5, <2>4 DEF Preserves
    <3> QED BY <3>1, <3>2 DEF PreservesElement
  <2>12. ASSUME NEW w \in DOMAIN wider PROVE PreservesElement(qRight, right, wider, w)
    <3>1. CASE w = y BY <2>2, <2>10, <2>11, <3>1 DEF PreservesElement
    <3>2. CASE w # y
      <4>1. w \in DOMAIN r2r /\ PreservesElement(qRight, right, r2r, w)
        BY <1>3, <2>10, <3>2 DEF Preserves
      <4>2. DOMAIN r2r \subseteq DOMAIN wider BY <2>10
      <4>3. /\ right.vertices \subseteq right.vertices
            /\ \A e \in DOMAIN right.edges : e \in DOMAIN right.edges /\ right.edges[e] = right.edges[e]
        OBVIOUS
      <4> QED BY <2>10, <4>1, <4>2, <4>3, PreservesGrows
    <3> QED BY <3>1, <3>2
  <2>13. SharedGoesAlong(rule, quant, wider)
    <3> SUFFICES ASSUME NEW w \in DOMAIN wider, NEW u \in SharedPreimages(quant, w)
                 PROVE  quant.match[u] \in DOMAIN rule.map /\ wider[w] = rule.map[quant.match[u]]
      BY DEF SharedGoesAlong
    <3>1. CASE w = y
      <4>1. u = x BY <2>2, <3>1
      <4> QED BY <1>3, <2>3, <2>4, <2>10, <3>1, <4>1
    <3>2. CASE w # y BY <1>3, <2>10, <3>2 DEF SharedGoesAlong
    <3> QED BY <3>1, <3>2
  <2>14. IsExtension(next) BY <1>3, <2>9 DEF IsExtension
  <2>15. DOMAIN wider \subseteq done \cup {y} BY <1>3, <2>10
  <2>16. Preserves(qRight, right, wider) BY <2>12 DEF Preserves
  <2>17. RightExtended(rule, quant, done \cup {y}, next)
    BY <1>1, <1>3, <2>9, <2>13, <2>14, <2>15, <2>16 DEF RightExtended
  <2> QED BY <2>8, <2>17
<1>9. CASE shared = {} /\ ~ HasEnds(qRight, r2r, y)
  <2>1. ExtendRight(a, quant, y) = a BY <1>1, <1>2, <1>9 DEF ExtendRight, HasEnds
  <2>2. DOMAIN r2r \subseteq done \cup {y} BY <1>3
  <2>3. RightExtended(rule, quant, done \cup {y}, a) BY <1>1, <1>3, <2>2 DEF RightExtended
  <2> QED BY <2>1, <2>3
<1>10. CASE shared = {} /\ HasEnds(qRight, r2r, y)
  <2>1. PICK new, more, gen : /\ new = NewID(right) /\ more = AddElement(right, qRight, y, r2r)
                              /\ gen = a.genRight \cup {new}
    BY Zenon
  <2>2. PICK wider, wholeRule : /\ wider = Entered(r2r, y, new)
                                /\ wholeRule = [a.rule EXCEPT !.right = more]
    BY Zenon
  <2>3. PICK next : next = [a EXCEPT !.rule = wholeRule, !.r2r = wider, !.genRight = gen] OBVIOUS
  <2>4. ExtendRight(a, quant, y) = next
    <3>1. ExtendRight(a, quant, y)
            = [a EXCEPT !.rule.right = AddElement(@, qRight, y, r2r),
                        !.r2r = Entered(@, y, new), !.genRight = @ \cup {new}]
      BY <1>1, <1>2, <1>10, <2>1 DEF ExtendRight, HasEnds
    <3> QED BY <1>1, <1>3, <1>5, <2>1, <2>2, <2>3, <3>1 DEF IsExtension
  <2>5. /\ DOMAIN next = DOMAIN a /\ next.r2r = wider /\ next.rule = wholeRule /\ next.l2l = a.l2l
    BY <1>3, <2>3 DEF IsExtension
  <2>6. /\ DOMAIN wholeRule = DOMAIN a.rule /\ wholeRule.right = more
        /\ wholeRule.left = a.rule.left /\ wholeRule.map = map
    BY <1>1, <1>5, <2>2
  <2>7. IsGraph(more) /\ Includes(more, right) /\ Preserves(qRight, more, wider)
    BY <1>1, <1>3, <1>4, <1>5, <1>6, <1>10, <2>1, <2>2, AddElementFacts
  <2>8. Preserves(a.rule.left, more, map)
    <3>1. PICK left : left = a.rule.left OBVIOUS
    <3>2. Preserves(left, more, map) BY <1>5, <2>7, <3>1, RightGrows
    <3> QED BY <3>1, <3>2
  <2>9. IsInstance(wholeRule) BY <1>5, <2>6, <2>7, <2>8 DEF IsInstance
  <2>10. IsExtension(next) BY <1>3, <2>5, <2>9 DEF IsExtension
  <2>11. /\ DOMAIN wider = DOMAIN r2r \cup {y} /\ \A w \in DOMAIN r2r : wider[w] = r2r[w]
    BY <1>6, <2>2 DEF Entered
  <2>12. SharedGoesAlong(rule, quant, wider)
    <3> SUFFICES ASSUME NEW w \in DOMAIN wider, NEW u \in SharedPreimages(quant, w)
                 PROVE  quant.match[u] \in DOMAIN rule.map /\ wider[w] = rule.map[quant.match[u]]
      BY DEF SharedGoesAlong
    <3>1. w # y BY <1>2, <1>10
    <3> QED BY <1>3, <2>11, <3>1 DEF SharedGoesAlong
  <2>13. DOMAIN wider \subseteq done \cup {y} BY <1>3, <2>11
  <2>14. RightExtended(rule, quant, done \cup {y}, next)
    BY <1>1, <1>3, <2>5, <2>6, <2>7, <2>10, <2>12, <2>13 DEF RightExtended
  <2> QED BY <2>4, <2>14
<1> QED BY <1>7, <1>8, <1>9, <1>10

\* One more element of the left side, and its image
LEMMA ExtendLeftFacts ==
  ASSUME NEW rule, NEW quant, IsQuantification(quant, rule.left.vertices),
         NEW r2r, Preserves(quant.rule.right, rule.right, r2r),
         NEW done, NEW a, LeftExtended(rule, quant, r2r, done, a),
         NEW x, x \in Elements(quant.rule.left), x \notin DOMAIN a.l2l, HasEnds(quant.rule.left, a.l2l, x)
  PROVE  LeftExtended(rule, quant, r2r, done \cup {x}, ExtendLeft(a, quant, x))
<1>1. PICK qLeft, qRight, qmap : /\ qLeft = quant.rule.left /\ qRight = quant.rule.right
                                 /\ qmap = quant.rule.map
  OBVIOUS
<1>2. PICK left, right, map, l2l : /\ left = a.rule.left /\ right = a.rule.right
                                   /\ map = a.rule.map /\ l2l = a.l2l
  OBVIOUS
<1>3. PICK new, more : new = NewID(left) /\ more = AddElement(left, qLeft, x, l2l) OBVIOUS
<1>4. PICK image : image = {qmap[z] : z \in {x} \cap DOMAIN qmap} \cap DOMAIN r2r BY Zenon
<1>5. PICK newMap : newMap = IF image = {} THEN map
                             ELSE Entered(map, new, r2r[CHOOSE y \in image : TRUE])
  BY Zenon
<1>6. PICK wider, wholeRule, gen : /\ wider = Entered(l2l, x, new) /\ gen = a.genLeft \cup {new}
                                   /\ wholeRule = [a.rule EXCEPT !.left = more, !.map = newMap]
  BY Zenon
<1>7. PICK next : next = [a EXCEPT !.rule = wholeRule, !.l2l = wider, !.genLeft = gen] OBVIOUS
<1>8. /\ IsExtension(a) /\ right = rule.right /\ a.r2r = r2r /\ rule.left.vertices \subseteq left.vertices
      /\ DOMAIN l2l = DOMAIN quant.match \cup done /\ Preserves(qLeft, left, l2l)
      /\ \A z \in DOMAIN l2l : GoesAlong(qmap, map, l2l, r2r, z)
  BY <1>1, <1>2 DEF LeftExtended
<1>9. /\ IsGraph(left) /\ IsGraph(right) /\ Preserves(left, right, map)
      /\ {"left", "right", "map"} \subseteq DOMAIN a.rule
  BY <1>2, <1>8 DEF IsExtension, IsInstance
<1>10. IsGraph(qLeft) /\ IsGraph(qRight) /\ Preserves(qLeft, qRight, qmap)
  BY <1>1 DEF IsQuantification, IsInstance
<1>11. ExtendLeft(a, quant, x) = next
  <2>1. ExtendLeft(a, quant, x)
          = [a EXCEPT !.rule.left = AddElement(@, qLeft, x, l2l),
                      !.rule.map = IF image = {} THEN @
                                   ELSE Entered(@, new, r2r[CHOOSE y \in image : TRUE]),
                      !.l2l = Entered(@, x, new), !.genLeft = @ \cup {new}]
    BY <1>1, <1>2, <1>3, <1>4, <1>8 DEF ExtendLeft
  <2> QED BY <1>2, <1>3, <1>5, <1>6, <1>7, <1>8, <1>9, <2>1, Zenon DEF IsExtension
<1>12. /\ DOMAIN next = DOMAIN a /\ next.rule = wholeRule /\ next.l2l = wider /\ next.r2r = r2r
  BY <1>7, <1>8 DEF IsExtension
<1>13. /\ DOMAIN wholeRule = DOMAIN a.rule /\ wholeRule.left = more
       /\ wholeRule.right = right /\ wholeRule.map = newMap
  BY <1>2, <1>6, <1>9
<1>14. /\ IsGraph(more) /\ Includes(more, left) /\ Preserves(qLeft, more, wider)
       /\ x \in qLeft.vertices => new \in more.vertices
  <2>1. /\ x \in Elements(qLeft) /\ x \notin DOMAIN l2l /\ HasEnds(qLeft, l2l, x)
        /\ wider = Entered(l2l, x, NewID(left))
    BY <1>1, <1>2, <1>3, <1>6
  <2> QED BY <1>3, <1>8, <1>9, <1>10, <2>1, AddElementFacts
<1>15. /\ DOMAIN wider = DOMAIN l2l \cup {x} /\ wider[x] = new
       /\ \A z \in DOMAIN l2l : wider[z] = l2l[z]
  <2>1. x \notin DOMAIN l2l BY <1>2
  <2> QED BY <1>6, <2>1 DEF Entered
<1>16. new \notin DOMAIN map
  <2>1. new \notin Elements(left) BY <1>3, <1>9, GraphIsFinite
  <2> QED BY <1>9, <2>1, PreservesIntoElements
<1>17. /\ DOMAIN map \subseteq DOMAIN newMap
       /\ \A z \in DOMAIN map : newMap[z] = map[z]
       /\ \A z \in DOMAIN newMap : z \in DOMAIN map \/ z = new
  <2>1. CASE image = {} BY <1>5, <2>1
  <2>2. CASE image # {}
    <3>1. newMap = Entered(map, new, r2r[CHOOSE y \in image : TRUE]) BY <1>5, <2>2
    <3> QED BY <1>16, <3>1 DEF Entered
  <2> QED BY <2>1, <2>2
<1>18. ASSUME NEW z \in DOMAIN map PROVE PreservesElement(more, right, newMap, z)
  <2>1. PreservesElement(left, right, map, z) BY <1>9 DEF Preserves
  <2>2. CASE z \in left.vertices /\ map[z] \in right.vertices
    BY <1>14, <1>17, <2>2 DEF Includes, PreservesElement
  <2>3. CASE ~ (z \in left.vertices /\ map[z] \in right.vertices)
    <3>1. PICK edge : edge = left.edges[z] OBVIOUS
    <3>2. /\ z \in DOMAIN left.edges /\ map[z] \in DOMAIN right.edges
          /\ Range(edge.vertices) \subseteq DOMAIN map /\ right.edges[map[z]] = Carried(edge, map)
      BY <2>1, <2>3, <3>1 DEF PreservesElement
    <3>3. z \in DOMAIN more.edges /\ more.edges[z] = edge BY <1>14, <3>1, <3>2 DEF Includes
    <3>4. \A i \in DOMAIN edge.vertices : newMap[edge.vertices[i]] = map[edge.vertices[i]]
      BY <1>17, <3>2 DEF Range
    <3>5. Carried(edge, newMap) = Carried(edge, map) BY <3>4 DEF Carried
    <3>6. Range(edge.vertices) \subseteq DOMAIN newMap /\ newMap[z] = map[z] BY <1>17, <3>2
    <3> QED BY <3>2, <3>3, <3>5, <3>6 DEF PreservesElement
  <2> QED BY <2>2, <2>3
<1>19. ASSUME NEW z \in DOMAIN l2l PROVE GoesAlong(qmap, newMap, wider, r2r, z)
  <2>1. GoesAlong(qmap, map, l2l, r2r, z) /\ wider[z] = l2l[z] BY <1>8, <1>15
  <2> QED BY <1>17, <2>1 DEF GoesAlong
<1>20. ASSUME image = {}
       PROVE  GoesAlong(qmap, newMap, wider, r2r, x) /\ Preserves(more, right, newMap)
  <2>1. newMap = map BY <1>5, <1>20
  <2>2. ~ (x \in DOMAIN qmap /\ qmap[x] \in DOMAIN r2r) BY <1>4, <1>20
  <2>3. GoesAlong(qmap, newMap, wider, r2r, x) BY <2>2 DEF GoesAlong
  <2>4. Preserves(more, right, newMap) BY <1>18, <2>1 DEF Preserves
  <2> QED BY <2>3, <2>4
<1>21. ASSUME image # {}
       PROVE  GoesAlong(qmap, newMap, wider, r2r, x) /\ Preserves(more, right, newMap)
  <2>1. PICK y : y = qmap[x] OBVIOUS
  <2>2. x \in DOMAIN qmap /\ y \in DOMAIN r2r /\ image = {y} BY <1>4, <1>21, <2>1
  <2>3. newMap = Entered(map, new, r2r[y])
    <3>1. (CHOOSE z \in image : TRUE) = y BY <2>2
    <3> QED BY <1>5, <1>21, <3>1, Zenon
  <2>4. new \in DOMAIN newMap /\ newMap[new] = r2r[y] BY <2>3 DEF Entered
  <2>5. GoesAlong(qmap, newMap, wider, r2r, x) BY <1>15, <2>1, <2>4 DEF GoesAlong
  <2>6. /\ PreservesElement(qLeft, qRight, qmap, x) /\ PreservesElement(qRight, right, r2r, y)
        /\ PreservesElement(qLeft, more, wider, x)
    BY <1>1, <1>8, <1>10, <1>14, <1>15, <2>2 DEF Preserves
  <2>7. qRight.vertices \cap DOMAIN qRight.edges = {} /\ qLeft.vertices \cap DOMAIN qLeft.edges = {}
    BY <1>10 DEF IsGraph
  <2>8. PreservesElement(more, right, newMap, new)
    <3>1. CASE x \in qLeft.vertices
      <4>1. y \in qRight.vertices BY <2>1, <2>6, <2>7, <3>1 DEF PreservesElement
      <4>2. r2r[y] \in right.vertices BY <2>6, <2>7, <4>1 DEF PreservesElement
      <4> QED BY <1>14, <2>4, <3>1, <4>2 DEF PreservesElement
    <3>2. CASE x \notin qLeft.vertices
      <4>1. PICK e, f, copy : e = qLeft.edges[x] /\ f = qRight.edges[y] /\ copy = more.edges[new]
        OBVIOUS
      <4>2. /\ x \in DOMAIN qLeft.edges /\ y \in DOMAIN qRight.edges /\ f = Carried(e, qmap)
            /\ Range(e.vertices) \subseteq DOMAIN qmap
        BY <2>1, <2>6, <3>2, <4>1 DEF PreservesElement
      <4>3. /\ r2r[y] \in DOMAIN right.edges /\ right.edges[r2r[y]] = Carried(f, r2r)
            /\ Range(f.vertices) \subseteq DOMAIN r2r
        BY <2>6, <2>7, <4>1, <4>2 DEF PreservesElement
      <4>4. new \in DOMAIN more.edges /\ copy = Carried(e, wider)
        BY <1>15, <2>6, <3>2, <4>1 DEF PreservesElement
      <4>5. /\ DOMAIN copy.vertices = DOMAIN e.vertices /\ copy.label = e.label
            /\ \A i \in DOMAIN e.vertices : copy.vertices[i] = wider[e.vertices[i]]
        BY <4>4 DEF Carried
      <4>6. /\ DOMAIN f.vertices = DOMAIN e.vertices /\ f.label = e.label
            /\ \A i \in DOMAIN e.vertices : f.vertices[i] = qmap[e.vertices[i]]
        BY <4>2 DEF Carried
      <4>7. \A i \in DOMAIN e.vertices : e.vertices[i] \in DOMAIN qmap /\ e.vertices[i] \in DOMAIN l2l
        <5>1. Range(e.vertices) \subseteq DOMAIN l2l BY <1>1, <1>2, <4>1, <4>2 DEF HasEnds
        <5> QED BY <4>2, <5>1 DEF Range
      <4>8. \A i \in DOMAIN e.vertices : qmap[e.vertices[i]] \in DOMAIN r2r
        <5>1. \A i \in DOMAIN e.vertices : f.vertices[i] \in DOMAIN r2r BY <4>3, <4>6 DEF Range
        <5> QED BY <4>6, <5>1
      <4>9. \A i \in DOMAIN e.vertices :
              /\ wider[e.vertices[i]] \in DOMAIN newMap
              /\ newMap[wider[e.vertices[i]]] = r2r[qmap[e.vertices[i]]]
        <5> SUFFICES ASSUME NEW i \in DOMAIN e.vertices
                     PROVE  /\ wider[e.vertices[i]] \in DOMAIN newMap
                            /\ newMap[wider[e.vertices[i]]] = r2r[qmap[e.vertices[i]]]
          OBVIOUS
        <5>1. PICK v : v = e.vertices[i] OBVIOUS
        <5>2. v \in DOMAIN qmap /\ v \in DOMAIN l2l /\ qmap[v] \in DOMAIN r2r BY <4>7, <4>8, <5>1
        <5>3. GoesAlong(qmap, newMap, wider, r2r, v) BY <1>19, <5>2
        <5> QED BY <5>1, <5>2, <5>3 DEF GoesAlong
      <4>10. Range(copy.vertices) \subseteq DOMAIN newMap BY <4>5, <4>9 DEF Range
      <4>11. Carried(f, r2r) = Carried(copy, newMap) BY <4>5, <4>6, <4>9 DEF Carried
      <4> QED BY <2>4, <4>1, <4>3, <4>4, <4>10, <4>11 DEF PreservesElement
    <3> QED BY <3>1, <3>2
  <2>9. Preserves(more, right, newMap) BY <1>17, <1>18, <2>8 DEF Preserves
  <2> QED BY <2>5, <2>9
<1>22. GoesAlong(qmap, newMap, wider, r2r, x) /\ Preserves(more, right, newMap) BY <1>20, <1>21
<1>23. IsInstance(wholeRule) BY <1>9, <1>13, <1>14, <1>22 DEF IsInstance
<1>24. IsExtension(next) BY <1>8, <1>12, <1>23 DEF IsExtension
<1>25. rule.left.vertices \subseteq more.vertices BY <1>8, <1>14 DEF Includes
<1>26. DOMAIN wider = DOMAIN quant.match \cup (done \cup {x}) BY <1>8, <1>15
<1>27. \A z \in DOMAIN wider : GoesAlong(qmap, newMap, wider, r2r, z) BY <1>15, <1>19, <1>22
<1>28. LeftExtended(rule, quant, r2r, done \cup {x}, next)
  BY <1>1, <1>8, <1>12, <1>13, <1>14, <1>24, <1>25, <1>26, <1>27 DEF LeftExtended
<1> QED BY <1>11, <1>28

\* All elements of the right side
LEMMA ExtendAllRightFacts ==
  ASSUME NEW rule, NEW quant, IsQuantification(quant, rule.left.vertices),
         NEW a, RightExtended(rule, quant, {}, a)
  PROVE  \E done : RightExtended(rule, quant, done, ExtendAllRight(a, quant))
<1>1. PICK right, T, list : /\ right = quant.rule.right /\ T = Elements(right)
                            /\ list = InOrder(right, Elements(right))
  OBVIOUS
<1>2. PICK n : IsListOf(list, n, T)
  <2>1. IsGraph(right) BY <1>1 DEF IsQuantification, IsInstance
  <2>2. PICK n : IsListOf(InOrder(right, T), n, Elements(right) \cap T) BY <2>1, InOrderFacts
  <2>3. Elements(right) \cap T = T BY <1>1
  <2> QED BY <1>1, <2>2, <2>3, Zenon
<1>3. PICK c : c = [loop |-> "extend right", rule |-> rule, quant |-> quant, seq |-> list] BY Zenon
<1>4. /\ c.seq = list /\ c.rule = rule /\ c.quant = quant
      /\ Len(list) = n /\ n \in Nat /\ IsListOf(c.seq, n, T)
  BY <1>2, <1>3, Zenon DEF IsListOf
<1>5. \A b, y : LoopStep(c, b, y) = ExtendRight(b, quant, y) BY <1>3, Zenon DEF LoopStep
<1>6. \A i, b : LoopState(c, i, b) <=> RightExtended(rule, quant, Visited(c, i), b)
  BY <1>3, <1>4, Zenon DEF LoopState
<1>7. LoopState(c, 0, a)
  <2>1. Visited(c, 0) = {} BY <1>4, AllVisited, Zenon
  <2> QED BY <1>6, <2>1
<1>8. ASSUME NEW i \in 1 .. n, NEW b, LoopState(c, i - 1, b)
      PROVE  LoopState(c, i, LoopStep(c, b, list[i]))
  <2>1. PICK y, done : y = list[i] /\ done = Visited(c, i - 1) OBVIOUS
  <2>2. Visited(c, i) = done \cup {y} /\ y \in T /\ y \notin done BY <1>4, <2>1, OneMoreVisited, Zenon
  <2>3. RightExtended(rule, quant, done, b) BY <1>6, <1>8, <2>1
  <2>4. y \in Elements(quant.rule.right) BY <1>1, <2>2
  <2>5. RightExtended(rule, quant, done \cup {y}, ExtendRight(b, quant, y))
    BY <2>2, <2>3, <2>4, ExtendRightFacts
  <2> QED BY <1>5, <1>6, <2>1, <2>2, <2>5, Zenon
<1>9. LoopState(c, n, Loops!Loop(c, a, list)) BY <1>4, <1>7, <1>8, Loops!LoopKeepsInvariant
<1>10. Loops!Loop(c, a, InOrder(quant.rule.right, Elements(quant.rule.right))) = ExtendAllRight(a, quant)
  <2> DEFINE l == InOrder(quant.rule.right, Elements(quant.rule.right))
  <2>1. \A f : [i \in 0 .. Len(l) |-> IF i = 0 THEN a ELSE LoopStep(c, f[i - 1], l[i])]
              = [i \in 0 .. Len(l) |-> IF i = 0 THEN a ELSE ExtendRight(f[i - 1], quant, l[i])]
    BY <1>5
  <2> QED BY <2>1, Zenon DEF Loops!Loop, ExtendAllRight, Folded
<1> QED BY <1>1, <1>6, <1>9, <1>10

\* All elements of the left side that are not shared: an edge comes after its ends.
LEMMA ExtendAllLeftFacts ==
  ASSUME NEW rule, NEW quant, IsQuantification(quant, rule.left.vertices),
         NEW r2r, Preserves(quant.rule.right, rule.right, r2r),
         NEW a, LeftExtended(rule, quant, r2r, {}, a)
  PROVE  \E done : LeftExtended(rule, quant, r2r, done, ExtendAllLeft(a, quant))
<1>1. PICK left, T, list : /\ left = quant.rule.left /\ T = Elements(left) \ DOMAIN quant.match
                           /\ list = InOrder(left, Elements(left) \ DOMAIN quant.match)
  OBVIOUS
<1>2. IsGraph(left) BY <1>1 DEF IsQuantification, IsInstance
<1>3. PICK n : IsListOf(list, n, T) /\ VerticesComeFirst(left, list)
  <2>1. PICK n : /\ IsListOf(InOrder(left, T), n, Elements(left) \cap T)
                 /\ VerticesComeFirst(left, InOrder(left, T))
    BY <1>2, InOrderFacts
  <2>2. Elements(left) \cap T = T BY <1>1
  <2> QED BY <1>1, <2>1, <2>2
<1>4. PICK c : c = [loop |-> "extend left", rule |-> rule, quant |-> quant, r2r |-> r2r, seq |-> list]
  BY Zenon
<1>5. /\ c.seq = list /\ c.rule = rule /\ c.quant = quant /\ c.r2r = r2r
      /\ Len(list) = n /\ n \in Nat /\ IsListOf(c.seq, n, T) /\ DOMAIN list = 1 .. n
  BY <1>3, <1>4, ListIsSequence, Zenon DEF IsListOf
<1>6. \A b, x : LoopStep(c, b, x) = ExtendLeft(b, quant, x) BY <1>4, Zenon DEF LoopStep
<1>7. \A i, b : LoopState(c, i, b) <=> LeftExtended(rule, quant, r2r, Visited(c, i), b)
  BY <1>4, <1>5, Zenon DEF LoopState
<1>8. LoopState(c, 0, a)
  <2>1. Visited(c, 0) = {} BY <1>5, AllVisited, Zenon
  <2> QED BY <1>7, <2>1
<1>9. ASSUME NEW i \in 1 .. n, NEW b, LoopState(c, i - 1, b)
      PROVE  LoopState(c, i, LoopStep(c, b, list[i]))
  <2>1. PICK x, done : x = list[i] /\ done = Visited(c, i - 1) OBVIOUS
  <2>2. Visited(c, i) = done \cup {x} /\ x \in T /\ x \notin done BY <1>5, <2>1, OneMoreVisited, Zenon
  <2>3. LeftExtended(rule, quant, r2r, done, b) BY <1>7, <1>9, <2>1
  <2>4. DOMAIN b.l2l = DOMAIN quant.match \cup done BY <2>3 DEF LeftExtended
  <2>5. x \in Elements(quant.rule.left) /\ x \notin DOMAIN b.l2l BY <1>1, <2>2, <2>4
  <2>6. ASSUME x \in DOMAIN left.edges, NEW v \in Range(left.edges[x].vertices)
        PROVE  v \in DOMAIN b.l2l
    <3>1. v \in left.vertices
      <4>1. PICK ends : ends = left.edges[x].vertices OBVIOUS
      <4>2. ends \in Seq(left.vertices) BY <1>2, <2>6, <4>1 DEF IsGraph, IsEdge
      <4> QED BY <2>6, <4>1, <4>2, SeqPositions DEF Range
    <3>2. CASE v \in DOMAIN quant.match BY <2>4, <3>2
    <3>3. CASE v \notin DOMAIN quant.match
      <4>1. v \in T BY <1>1, <3>1, <3>3 DEF Elements
      <4>2. PICK j \in 1 .. n : list[j] = v BY <1>3, <4>1 DEF IsListOf
      <4>3. j < i BY <1>3, <1>5, <2>1, <2>6, <3>1, <4>2 DEF VerticesComeFirst
      <4>4. j \in 1 .. (i - 1) BY <1>5, <4>3
      <4>5. v \in done BY <1>5, <2>1, <4>2, <4>4 DEF Visited
      <4> QED BY <2>4, <4>5
    <3> QED BY <3>2, <3>3
  <2>7. HasEnds(quant.rule.left, b.l2l, x) BY <1>1, <2>6 DEF HasEnds
  <2>8. LeftExtended(rule, quant, r2r, done \cup {x}, ExtendLeft(b, quant, x))
    BY <2>3, <2>5, <2>7, ExtendLeftFacts
  <2> QED BY <1>6, <1>7, <2>1, <2>2, <2>8
<1>10. LoopState(c, n, Loops!Loop(c, a, list)) BY <1>5, <1>8, <1>9, Loops!LoopKeepsInvariant
<1>11. Loops!Loop(c, a, InOrder(quant.rule.left, Elements(quant.rule.left) \ DOMAIN quant.match))
         = ExtendAllLeft(a, quant)
  <2> DEFINE l == InOrder(quant.rule.left, Elements(quant.rule.left) \ DOMAIN quant.match)
  <2>1. \A f : [i \in 0 .. Len(l) |-> IF i = 0 THEN a ELSE LoopStep(c, f[i - 1], l[i])]
              = [i \in 0 .. Len(l) |-> IF i = 0 THEN a ELSE ExtendLeft(f[i - 1], quant, l[i])]
    BY <1>6
  <2> QED BY <2>1, Zenon DEF Loops!Loop, ExtendAllLeft, Folded
<1> QED BY <1>1, <1>7, <1>10, <1>11

\* The rule grows by one copy of a quantification that merges nothing shared.
LEMMA ExtendRuleFacts ==
  ASSUME NEW rule, IsInstance(rule), NEW quant, IsQuantification(quant, rule.left.vertices),
         MergesNothingShared(quant)
  PROVE  /\ IsInstance(ExtendRuleByUQ(rule, quant).rule)
         /\ rule.left.vertices \subseteq ExtendRuleByUQ(rule, quant).rule.left.vertices
<1>1. PICK start : start = [rule |-> rule, r2r |-> <<>>, l2l |-> quant.match,
                            genLeft |-> {}, genRight |-> {}]
  BY Zenon
<1>2. PICK a, b : a = ExtendAllRight(start, quant) /\ b = ExtendAllLeft(a, quant) OBVIOUS
<1>3. ExtendRuleByUQ(rule, quant) = b BY <1>1, <1>2 DEF ExtendRuleByUQ
<1>4. RightExtended(rule, quant, {}, start)
  <2>1. /\ DOMAIN start = {"rule", "r2r", "l2l", "genLeft", "genRight"} /\ start.rule = rule
        /\ start.r2r = <<>> /\ start.l2l = quant.match
    BY <1>1
  <2>2. DOMAIN <<>> = {} OBVIOUS
  <2> QED BY <2>1, <2>2 DEF RightExtended, IsExtension, Preserves, SharedGoesAlong
<1>5. PICK done : RightExtended(rule, quant, done, a) BY <1>2, <1>4, ExtendAllRightFacts
<1>6. PICK r2r, grown, qmap : r2r = a.r2r /\ grown = a.rule /\ qmap = quant.rule.map OBVIOUS
<1>7. /\ IsExtension(a) /\ grown.left = rule.left /\ grown.map = rule.map /\ a.l2l = quant.match
      /\ Preserves(quant.rule.right, grown.right, r2r) /\ SharedGoesAlong(rule, quant, r2r)
  BY <1>5, <1>6 DEF RightExtended
<1>8. LeftExtended(grown, quant, r2r, {}, a)
  <2>1. \A x \in DOMAIN quant.match : GoesAlong(qmap, grown.map, a.l2l, r2r, x)
    <3> SUFFICES ASSUME NEW x \in DOMAIN quant.match, x \in DOMAIN qmap, qmap[x] \in DOMAIN r2r
                 PROVE  /\ quant.match[x] \in DOMAIN rule.map
                        /\ rule.map[quant.match[x]] = r2r[qmap[x]]
      BY <1>7 DEF GoesAlong
    <3>1. Preimage(qmap, qmap[x]) = {x} BY <1>6 DEF MergesNothingShared
    <3>2. Cardinality({x}) = 1 BY FS_Singleton, Zenon
    <3>3. SharedPreimages(quant, qmap[x]) = {x} BY <1>6, <3>1, <3>2 DEF SharedPreimages
    <3> QED BY <1>7, <3>3 DEF SharedGoesAlong
  <2>2. /\ \A x \in DOMAIN quant.match : x \in quant.rule.left.vertices
        /\ \A x \in DOMAIN quant.match : quant.match[x] \in grown.left.vertices
    BY <1>7 DEF IsQuantification
  <2>3. Preserves(quant.rule.left, grown.left, quant.match) BY <2>2 DEF Preserves, PreservesElement
  <2> QED BY <1>6, <1>7, <2>1, <2>3 DEF LeftExtended
<1>9. IsQuantification(quant, grown.left.vertices) BY <1>7
<1>10. PICK more : LeftExtended(grown, quant, r2r, more, b) BY <1>2, <1>7, <1>8, <1>9, ExtendAllLeftFacts
<1>11. IsInstance(b.rule) /\ grown.left.vertices \subseteq b.rule.left.vertices
  BY <1>10 DEF LeftExtended, IsExtension
<1> QED BY <1>3, <1>7, <1>11

\* A quantification fits to a rule that has more vertices.
LEMMA QuantificationFits ==
  ASSUME NEW quant, NEW V, IsQuantification(quant, V), NEW W, V \subseteq W
  PROVE  IsQuantification(quant, W)
BY DEF IsQuantification

\* The instance that uses each quantification once
LEMMA OneInstanceFacts ==
  ASSUME NEW uq, IsInstance(uq.main), NEW S, uq.quants \in Seq(S),
         \A quant \in S : IsQuantification(quant, uq.main.left.vertices),
         \A q \in Range(uq.quants) : MergesNothingShared(q)
  PROVE  IsInstance(CreateOneInstance(uq).rule)
<1>1. PICK V, list, n : V = uq.main.left.vertices /\ list = uq.quants /\ n = Len(list) OBVIOUS
<1>2. n \in Nat /\ DOMAIN list = 1 .. n /\ \A i \in 1 .. n : list[i] \in S BY <1>1, SeqPositions
<1>3. PICK zero : zero = ZeroInstance(uq) OBVIOUS
<1>4. IsInstance(zero) /\ zero.left.vertices = V
  <2>1. PICK one, lv, rv : /\ lv = LeftUQVertices(uq) /\ rv = RightUQVertices(uq)
                           /\ one = Entered(uq.main, "leftUQ", lv)
    OBVIOUS
  <2>2. zero = Entered(one, "rightUQ", rv) BY <1>3, <2>1 DEF ZeroInstance
  <2>3. {"left", "right", "map"} \subseteq DOMAIN uq.main BY DEF IsInstance
  <2>4. /\ DOMAIN uq.main \subseteq DOMAIN one
        /\ \A z \in DOMAIN uq.main : z # "leftUQ" => one[z] = uq.main[z]
    BY <2>1 DEF Entered
  <2>5. /\ DOMAIN one \subseteq DOMAIN zero
        /\ \A z \in DOMAIN one : z # "rightUQ" => zero[z] = one[z]
    BY <2>2 DEF Entered
  <2>6. /\ {"left", "right", "map"} \subseteq DOMAIN zero
        /\ zero["left"] = uq.main["left"] /\ zero["right"] = uq.main["right"]
        /\ zero["map"] = uq.main["map"]
    <3>1. \A z \in {"left", "right", "map"} : z # "leftUQ" /\ z # "rightUQ" OBVIOUS
    <3>2. \A z \in {"left", "right", "map"} : z \in DOMAIN one /\ one[z] = uq.main[z] BY <2>3, <2>4, <3>1
    <3>3. \A z \in {"left", "right", "map"} : z \in DOMAIN zero /\ zero[z] = one[z] BY <2>5, <3>1, <3>2
    <3> QED BY <3>2, <3>3
  <2>7. zero.left = uq.main.left /\ zero.right = uq.main.right /\ zero.map = uq.main.map BY <2>6
  <2> QED BY <1>1, <2>6, <2>7 DEF IsInstance
<1> DEFINE base == [rule |-> ZeroInstance(uq), leftUQids |-> <<>>, rightUQids |-> <<>>]
<1>5. PICK c : c = [loop |-> "instance", V |-> V] BY Zenon
<1>6. \A a, quant : LoopStep(c, a, quant) = WithOne(a, ExtendRuleByUQ(a.rule, quant))
  BY <1>5 DEF LoopStep, ExtendOnce
<1>7. \A i, a : LoopState(c, i, a) <=> IsInstance(a.rule) /\ V \subseteq a.rule.left.vertices
  BY <1>5 DEF LoopState
<1>8. LoopState(c, 0, base)
  <2>1. base.rule = zero BY <1>3
  <2> QED BY <1>4, <1>7, <2>1
<1>9. ASSUME NEW i \in 1 .. n, NEW a, LoopState(c, i - 1, a)
      PROVE  LoopState(c, i, LoopStep(c, a, list[i]))
  <2>1. PICK quant, rule : quant = list[i] /\ rule = a.rule OBVIOUS
  <2>2. IsInstance(rule) /\ V \subseteq rule.left.vertices BY <1>7, <1>9, <2>1
  <2>3. IsQuantification(quant, V) BY <1>1, <1>2, <2>1
  <2>4. IsQuantification(quant, rule.left.vertices) BY <2>2, <2>3, QuantificationFits
  <2>5. MergesNothingShared(quant)
    <3>1. quant \in Range(uq.quants) BY <1>1, <1>2, <2>1 DEF Range
    <3> QED BY <3>1
  <2>6. PICK extended : extended = ExtendRuleByUQ(rule, quant) OBVIOUS
  <2>7. IsInstance(extended.rule) /\ rule.left.vertices \subseteq extended.rule.left.vertices
    BY <2>2, <2>4, <2>5, <2>6, ExtendRuleFacts
  <2>8. PICK next : next = WithOne(a, extended) OBVIOUS
  <2>9. next.rule = extended.rule BY <2>8 DEF WithOne
  <2>10. IsInstance(next.rule) /\ V \subseteq next.rule.left.vertices BY <2>2, <2>7, <2>9
  <2>11. LoopState(c, i, next) BY <1>7, <2>10
  <2> QED BY <1>6, <2>1, <2>6, <2>8, <2>11
<1>10. LoopState(c, n, Loops!Loop(c, base, list)) BY <1>1, <1>2, <1>8, <1>9, Loops!LoopKeepsInvariant
<1>11. Loops!Loop(c, base, uq.quants) = CreateOneInstance(uq)
  <2> DEFINE l == uq.quants
  <2>1. \A f : [i \in 0 .. Len(l) |-> IF i = 0 THEN base ELSE LoopStep(c, f[i - 1], l[i])]
              = [i \in 0 .. Len(l) |-> IF i = 0 THEN base ELSE
                  WithOne(f[i - 1], ExtendRuleByUQ(f[i - 1].rule, l[i]))]
    BY <1>6
  <2> QED BY <2>1, Zenon DEF Loops!Loop, CreateOneInstance, Folded
<1> QED BY <1>1, <1>7, <1>10, <1>11

\* The quantified rule of a consistent reading is one of morphisms.
LEMMA UQRuleIsMorphism ==
  ASSUME NEW read, IsConsistent(read), NEW made, made = UQRuleOf(read), made.error = "none",
         NEW uq, uq.main = made.main, uq.quants = made.quants
  PROVE  IsUQMorphism(uq)
<1>1. SUFFICES ASSUME ~ IsDangling(uq)
               PROVE  /\ IsMorphism(uq.main)
                      /\ \A q \in Range(uq.quants) : IsMorphism(q.rule)
                      /\ (\A q \in Range(uq.quants) : MergesNothingShared(q))
                           => IsMorphism(CreateOneInstance(uq).rule)
  BY DEF IsUQMorphism
<1>2. Made(read, DOMAIN read.leftQuant, made) BY UQRuleFacts
<1>3. ~ IsDangling(made) BY <1>1 DEF IsDangling
<1>4. IsInstance(made.main) /\ made.main.left.vertices = Staying(read) BY <1>2, <1>3, MainRuleFacts
<1>5. PICK S : uq.quants \in Seq(S) /\ \A quant \in S : IsQuantification(quant, Staying(read))
  BY <1>2 DEF Made, AreQuantifications
<1>6. IsInstance(uq.main) /\ \A quant \in S : IsQuantification(quant, uq.main.left.vertices)
  BY <1>4, <1>5
<1>7. IsMorphism(uq.main) BY <1>6, PreservingIsMorphism
<1>8. ASSUME NEW q \in Range(uq.quants) PROVE IsMorphism(q.rule)
  <2>1. PICK list, one : list = uq.quants /\ one = q.rule OBVIOUS
  <2>2. q \in S BY <1>5, <1>8, <2>1, SeqPositions DEF Range
  <2>3. IsInstance(one) BY <1>6, <2>1, <2>2 DEF IsQuantification
  <2> QED BY <2>1, <2>3, PreservingIsMorphism
<1>9. ASSUME \A q \in Range(uq.quants) : MergesNothingShared(q) PROVE IsMorphism(CreateOneInstance(uq).rule)
  <2>1. PICK one : one = CreateOneInstance(uq).rule OBVIOUS
  <2>2. IsInstance(CreateOneInstance(uq).rule) BY <1>5, <1>6, <1>9, OneInstanceFacts
  <2>3. IsInstance(one) BY <2>1, <2>2
  <2> QED BY <2>1, <2>3, PreservingIsMorphism
<1> QED BY <1>7, <1>8, <1>9

-----------------------------------------------------------------------------
(* Transformation systems                                                  *)

\* A list of morphisms with one more.
LEMMA MoreMorphisms ==
  ASSUME NEW rules, NEW rule
  PROVE  /\ AreMorphisms(rules) /\ IsMorphism(rule) => AreMorphisms(Append(rules, rule))
         /\ AreUQMorphisms(rules) /\ IsUQMorphism(rule) => AreUQMorphisms(Append(rules, rule))
<1>1. \A S : rules \in Seq(S) => Append(rules, rule) \in Seq(S \cup {rule})
  <2> SUFFICES ASSUME NEW S, rules \in Seq(S) PROVE Append(rules, rule) \in Seq(S \cup {rule})
    OBVIOUS
  <2>1. rules \in Seq(S \cup {rule}) /\ rule \in S \cup {rule} BY SeqGrows
  <2> QED BY <2>1, AppendProperties
<1>2. ASSUME AreMorphisms(rules), IsMorphism(rule) PROVE AreMorphisms(Append(rules, rule))
  <2>1. PICK S : rules \in Seq(S) /\ \A one \in S : IsMorphism(one) BY <1>2 DEF AreMorphisms
  <2>2. PICK T : T = S \cup {rule} BY Zenon
  <2>3. Append(rules, rule) \in Seq(T) /\ \A one \in T : IsMorphism(one) BY <1>1, <1>2, <2>1, <2>2
  <2> QED BY <2>3 DEF AreMorphisms
<1>3. ASSUME AreUQMorphisms(rules), IsUQMorphism(rule) PROVE AreUQMorphisms(Append(rules, rule))
  <2>1. PICK S : rules \in Seq(S) /\ \A one \in S : IsUQMorphism(one) BY <1>3 DEF AreUQMorphisms
  <2>2. PICK T : T = S \cup {rule} BY Zenon
  <2>3. Append(rules, rule) \in Seq(T) /\ \A one \in T : IsUQMorphism(one) BY <1>1, <1>3, <2>1, <2>2
  <2> QED BY <2>3 DEF AreUQMorphisms
<1> QED BY <1>2, <1>3

\* What may be added to which list of a GTS.
MayBeAdded(field, x) ==
  CASE field = "initialGraphs" -> TRUE
    [] field = "stdRules" -> IsMorphism(x)
    [] field = "uqRules" -> IsUQMorphism(x)

\* A rule that may be added leaves the lists of a GTS with morphisms only.
LEMMA AddedToFacts ==
  ASSUME NEW r, IsGTSReading(r), NEW field \in {"initialGraphs", "stdRules", "uqRules"},
         NEW x, MayBeAdded(field, x)
  PROVE  IsGTSReading(AddedTo(r, field, x))
<1>1. CASE ~ r.isSet BY <1>1, FailFacts DEF AddedTo
<1>2. CASE r.isSet
  <2>1. PICK gts, list, more : gts = r.gts /\ list = gts[field] /\ more = Append(list, x) BY Zenon
  <2>2. PICK newGTS : newGTS = [gts EXCEPT ![field] = more] BY Zenon
  <2>3. PICK next : next = [r EXCEPT !.gts = newGTS] BY Zenon
  <2>4. {"name", "initialGraphs", "stdRules", "uqRules"} \subseteq DOMAIN gts
        /\ AreMorphisms(gts.stdRules) /\ AreUQMorphisms(gts.uqRules) /\ "gts" \in DOMAIN r
    BY <2>1 DEF IsGTSReading
  <2>5. AddedTo(r, field, x) = next
    <3>1. AddedTo(r, field, x) = [r EXCEPT !.gts[field] = Append(@, x)] BY <1>2 DEF AddedTo
    <3> QED BY <2>1, <2>2, <2>3, <2>4, <3>1
  <2>6. DOMAIN newGTS = DOMAIN gts /\ newGTS[field] = more
        /\ \A f \in DOMAIN gts : f # field => newGTS[f] = gts[f]
    BY <2>2, <2>4
  <2>7. AreMorphisms(newGTS.stdRules)
    <3>1. CASE field = "stdRules"
      <4>1. AreMorphisms(list) /\ IsMorphism(x) BY <2>1, <2>4, <3>1 DEF MayBeAdded
      <4>2. AreMorphisms(Append(list, x)) BY <4>1, MoreMorphisms
      <4> QED BY <2>1, <2>6, <3>1, <4>2, Zenon
    <3>2. CASE field # "stdRules"
      <4>1. newGTS["stdRules"] = gts["stdRules"] BY <2>4, <2>6, <3>2
      <4> QED BY <2>4, <4>1
    <3> QED BY <3>1, <3>2
  <2>8. AreUQMorphisms(newGTS.uqRules)
    <3>1. CASE field = "uqRules"
      <4>1. AreUQMorphisms(list) /\ IsUQMorphism(x) BY <2>1, <2>4, <3>1 DEF MayBeAdded
      <4>2. AreUQMorphisms(Append(list, x)) BY <4>1, MoreMorphisms
      <4> QED BY <2>1, <2>6, <3>1, <4>2, Zenon
    <3>2. CASE field # "uqRules"
      <4>1. newGTS["uqRules"] = gts["uqRules"] BY <2>4, <2>6, <3>2
      <4> QED BY <2>4, <4>1
    <3> QED BY <3>1, <3>2
  <2>9. DOMAIN next = DOMAIN r /\ next.gts = newGTS BY <2>3, <2>4
  <2>10. IsGTSReading(next) BY <2>4, <2>6, <2>7, <2>8, <2>9 DEF IsGTSReading
  <2> QED BY <2>5, <2>10
<1> QED BY <1>1, <1>2

\* A reading with the same GTS
LEMMA SameGTS ==
  ASSUME NEW r, IsGTSReading(r), NEW next, DOMAIN next = DOMAIN r, next.gts = r.gts
  PROVE  IsGTSReading(next)
BY DEF IsGTSReading

\* A rule, with or without quantifications
LEMMA AddRuleFacts ==
  ASSUME NEW r, IsGTSReading(r), NEW S, AreElements(S), NEW root \in S
  PROVE  IsGTSReading(AddRule(r, ReadRule(root)))
<1>1. PICK read : read = ReadRule(root) OBVIOUS
<1>2. PICK id, counted : id = r.nextRuleID /\ counted = CountRule(r, read) OBVIOUS
<1>3. IsGTSReading(counted)
  <2>1. PICK newID, oldIDs : /\ newID = IF IsQuantified(read) THEN r.nextRuleID + 2 ELSE r.nextRuleID + 1
                             /\ oldIDs = IF read.oldID = 0 THEN r.oldRuleIDs
                                         ELSE (r.nextRuleID :> read.oldID) @@ r.oldRuleIDs
    OBVIOUS
  <2>2. {"nextRuleID", "oldRuleIDs", "gts"} \subseteq DOMAIN r BY DEF IsGTSReading
  <2>3. PICK next : next = [r EXCEPT !.nextRuleID = newID, !.oldRuleIDs = oldIDs] OBVIOUS
  <2>4. counted = next BY <1>2, <2>1, <2>2, <2>3 DEF CountRule
  <2>5. DOMAIN next = DOMAIN r /\ next.gts = r.gts BY <2>2, <2>3
  <2> QED BY <2>4, <2>5, SameGTS
<1>4. CASE read.error # "none"
  <2>1. AddRule(r, read) = Fail(r, read.error) BY <1>4 DEF AddRule
  <2> QED BY <1>1, <2>1, FailFacts
<1>5. CASE read.error = "none" /\ ~ IsQuantified(read)
  <2>1. IsAccepted(read) BY <1>1, <1>5, ReadRuleFacts
  <2>2. PICK rule, numbered : rule = read.rule /\ numbered = Entered(rule, "id", id) OBVIOUS
  <2>3. AddRule(r, read) = AddedTo(counted, "stdRules", numbered) BY <1>2, <1>5, <2>2 DEF AddRule
  <2>4. IsInstance(rule) BY <2>1, <2>2 DEF IsAccepted
  <2>5. {"left", "right", "map"} \subseteq DOMAIN rule BY <2>4 DEF IsInstance
  <2>6. /\ {"left", "right", "map"} \subseteq DOMAIN numbered
        /\ numbered["left"] = rule["left"] /\ numbered["right"] = rule["right"]
        /\ numbered["map"] = rule["map"]
    <3>1. \A z \in {"left", "right", "map"} : z # "id" OBVIOUS
    <3>2. \A z \in {"left", "right", "map"} : z \in DOMAIN numbered /\ numbered[z] = rule[z]
      BY <2>2, <2>5, <3>1 DEF Entered
    <3> QED BY <3>2
  <2>7. numbered.left = rule.left /\ numbered.right = rule.right /\ numbered.map = rule.map BY <2>6
  <2>8. IsInstance(numbered) BY <2>4, <2>6, <2>7 DEF IsInstance
  <2>9. IsMorphism(numbered) BY <2>8, PreservingIsMorphism
  <2>10. MayBeAdded("stdRules", numbered) BY <2>9 DEF MayBeAdded
  <2>11. IsGTSReading(AddedTo(counted, "stdRules", numbered)) BY <1>3, <2>10, AddedToFacts
  <2> QED BY <1>1, <2>3, <2>11
<1>6. CASE read.error = "none" /\ IsQuantified(read) /\ ~ UQIsConsistent(read)
  <2>1. AddRule(r, read) = XMLioException(r) BY <1>6 DEF AddRule
  <2> QED BY <1>1, <2>1, FailFacts DEF XMLioException
<1>7. CASE read.error = "none" /\ IsQuantified(read) /\ UQIsConsistent(read)
  <2>1. PICK made, n : made = UQRuleOf(read) /\ n = id + 1 OBVIOUS
  <2>2. AddRule(r, read) = AddUQRule(counted, made, n) BY <1>2, <1>7, <2>1 DEF AddRule
  <2>3. CASE made.error # "none"
    <3>1. AddUQRule(counted, made, n) = Fail(counted, made.error) BY <2>3 DEF AddUQRule
    <3> QED BY <1>1, <1>3, <2>2, <3>1, FailFacts
  <2>4. CASE made.error = "none"
    <3>1. PICK uq : uq = [main |-> made.main, quants |-> made.quants, id |-> n] BY Zenon
    <3>2. AddUQRule(counted, made, n) = AddedTo(counted, "uqRules", uq) BY <2>4, <3>1 DEF AddUQRule
    <3>3. IsConsistent(read) BY <1>1, <1>7, ReadRuleFacts DEF IsConsistent
    <3>4. uq.main = made.main /\ uq.quants = made.quants BY <3>1
    <3>5. IsUQMorphism(uq) BY <2>1, <2>4, <3>3, <3>4, UQRuleIsMorphism
    <3>6. MayBeAdded("uqRules", uq) BY <3>5 DEF MayBeAdded
    <3>7. IsGTSReading(AddedTo(counted, "uqRules", uq)) BY <1>3, <3>6, AddedToFacts
    <3> QED BY <1>1, <2>2, <3>2, <3>7
  <2> QED BY <2>3, <2>4
<1> QED BY <1>4, <1>5, <1>6, <1>7

\* An initial graph
LEMMA ReadInitialGraphFacts ==
  ASSUME NEW r, IsGTSReading(r), NEW root
  PROVE  IsGTSReading(ReadInitialGraph(r, root))
<1>1. PICK read : read = ReadHypergraph([NoGraphs(r.nextID) EXCEPT !.oldIDs = r.oldGraphIDs], root) OBVIOUS
<1>2. ReadInitialGraph(r, root) = AddInitialGraph(r, read) BY <1>1 DEF ReadInitialGraph
<1>3. CASE read.error # "none"
  <2>1. AddInitialGraph(r, read) = Fail(r, read.error) BY <1>3 DEF AddInitialGraph
  <2> QED BY <1>2, <2>1, FailFacts
<1>4. CASE read.error = "none"
  <2>1. PICK nextID, oldIDs, graph : nextID = read.nextID /\ oldIDs = read.oldIDs /\ graph = read.graphs[1]
    OBVIOUS
  <2>2. PICK next : next = [r EXCEPT !.nextID = nextID, !.oldGraphIDs = oldIDs] OBVIOUS
  <2>3. AddInitialGraph(r, read) = AddedTo(next, "initialGraphs", graph)
    BY <1>4, <2>1, <2>2 DEF AddInitialGraph
  <2>4. DOMAIN next = DOMAIN r /\ next.gts = r.gts BY <2>2 DEF IsGTSReading
  <2>5. IsGTSReading(next) BY <2>4, SameGTS
  <2>6. MayBeAdded("initialGraphs", graph) BY DEF MayBeAdded
  <2>7. IsGTSReading(AddedTo(next, "initialGraphs", graph)) BY <2>5, <2>6, AddedToFacts
  <2> QED BY <1>2, <2>3, <2>7
<1> QED BY <1>3, <1>4

\* Initial graphs or a rule.
LEMMA ReadPartOfGTSFacts ==
  ASSUME NEW r, IsGTSReading(r), NEW S, AreElements(S), NEW part \in S
  PROVE  IsGTSReading(ReadPartOfGTS(r, part))
<1>1. CASE part.name = "initial"
  <2>1. PICK c : c = [loop |-> "initial"] BY Zenon
  <2>2. PICK list : list = Children(part, "graph") OBVIOUS
  <2>3. Len(list) \in Nat BY <2>2, ChildrenFacts, SeqPositions DEF AreElements
  <2>4. \A a, x : LoopStep(c, a, x) = IF a.error = "none" THEN ReadInitialGraph(a, x) ELSE a
    BY <2>1 DEF LoopStep
  <2>5. \A i, a : LoopState(c, i, a) <=> IsGTSReading(a) BY <2>1 DEF LoopState
  <2>6. LoopState(c, 0, r) BY <2>5
  <2>7. \A i \in 1 .. Len(list) : \A a : LoopState(c, i - 1, a) => LoopState(c, i, LoopStep(c, a, list[i]))
    BY <2>4, <2>5, ReadInitialGraphFacts
  <2>8. LoopState(c, Len(list), Loops!Loop(c, r, list)) BY <2>3, <2>6, <2>7, Loops!LoopKeepsInvariant
  <2>9. Loops!Loop(c, r, Children(part, "graph")) = ReadInitial(r, part)
    <3> DEFINE l == Children(part, "graph")
    <3>1. \A f : [i \in 0 .. Len(l) |-> IF i = 0 THEN r ELSE LoopStep(c, f[i - 1], l[i])]
                = [i \in 0 .. Len(l) |-> IF i = 0 THEN r ELSE
                    IF f[i - 1].error = "none" THEN ReadInitialGraph(f[i - 1], l[i]) ELSE f[i - 1]]
      BY <2>4
    <3> QED BY <3>1, Zenon DEF Loops!Loop, ReadInitial, Each, Folded
  <2>10. IsGTSReading(ReadInitial(r, part)) BY <2>2, <2>5, <2>8, <2>9
  <2> QED BY <1>1, <2>10 DEF ReadPartOfGTS
<1>2. CASE part.name = "rule"
  <2>1. IsGTSReading(AddRule(r, ReadRule(part))) BY AddRuleFacts
  <2> QED BY <1>2, <2>1 DEF ReadPartOfGTS
<1>3. CASE part.name \notin {"initial", "rule"} BY <1>3 DEF ReadPartOfGTS
<1> QED BY <1>1, <1>2, <1>3

\* A whole GTS
LEMMA ReadGTSFacts ==
  ASSUME NEW r, IsGTSReading(r), NEW root, IsDocument(root)
  PROVE  IsGTSReading(ReadGTS(r, root))
<1>1. PICK S : AreElements(S) /\ root \in S BY DEF IsDocument
<1>2. PICK c : c = [loop |-> "gts"] BY Zenon
<1>3. PICK list : list = root.children OBVIOUS
<1>4. Len(list) \in Nat /\ \A i \in 1 .. Len(list) : list[i] \in S
  BY <1>1, <1>3, SeqPositions DEF AreElements
<1>5. \A a, x : LoopStep(c, a, x) = IF a.error = "none" THEN ReadPartOfGTS(a, x) ELSE a
  BY <1>2 DEF LoopStep
<1>6. \A i, a : LoopState(c, i, a) <=> IsGTSReading(a) BY <1>2 DEF LoopState
<1>7. LoopState(c, 0, r) BY <1>6
<1>8. \A i \in 1 .. Len(list) : \A a : LoopState(c, i - 1, a) => LoopState(c, i, LoopStep(c, a, list[i]))
  BY <1>1, <1>4, <1>5, <1>6, ReadPartOfGTSFacts
<1>9. LoopState(c, Len(list), Loops!Loop(c, r, list)) BY <1>4, <1>7, <1>8, Loops!LoopKeepsInvariant
<1>10. Loops!Loop(c, r, root.children) = ReadGTS(r, root)
  <2> DEFINE l == root.children
  <2>1. \A f : [i \in 0 .. Len(l) |-> IF i = 0 THEN r ELSE LoopStep(c, f[i - 1], l[i])]
              = [i \in 0 .. Len(l) |-> IF i = 0 THEN r ELSE
                  IF f[i - 1].error = "none" THEN ReadPartOfGTS(f[i - 1], l[i]) ELSE f[i - 1]]
    BY <1>5
  <2> QED BY <2>1, Zenon DEF Loops!Loop, ReadGTS, Each, Folded
<1> QED BY <1>3, <1>6, <1>9, <1>10

\* Whatever the file is, if there is one.
LEMMA ReadGTXLFacts ==
  ASSUME NEW disk, \A f \in DOMAIN disk : IsDocument(disk[f]), NEW filename, NEW nextID
  PROVE  IsGTSReading(ReadGTXL(disk, filename, nextID))
<1>1. PICK root : root = disk[filename] OBVIOUS
<1>2. PICK noGTS : noGTS = [name |-> "", initialGraphs |-> <<>>, stdRules |-> <<>>, uqRules |-> <<>>] BY Zenon
<1>3. PICK empty : empty = [gts |-> noGTS, isSet |-> FALSE, nextID |-> nextID, nextRuleID |-> 1,
                            oldGraphIDs |-> <<>>, oldRuleIDs |-> <<>>, error |-> "none"]
  BY Zenon
<1>4. PICK gts : gts = [noGTS EXCEPT !.name = root.attributes.id] BY Zenon
<1>5. PICK named : named = IF HasAttribute(root, "id") THEN [empty EXCEPT !.isSet = TRUE, !.gts = gts]
                           ELSE empty
  OBVIOUS
<1>6. /\ DOMAIN noGTS = {"name", "initialGraphs", "stdRules", "uqRules"}
      /\ noGTS.stdRules = <<>> /\ noGTS.uqRules = <<>>
  BY <1>2, Zenon
<1>7. AreMorphisms(<<>>) /\ AreUQMorphisms(<<>>)
  <2>1. PICK S : S = {} BY Zenon
  <2>2. <<>> \in Seq(S) BY EmptySeq
  <2>3. \A rule \in S : IsMorphism(rule) /\ IsUQMorphism(rule) BY <2>1
  <2> QED BY <2>2, <2>3 DEF AreMorphisms, AreUQMorphisms
<1>8. IsGTSReading(empty)
  <2>1. /\ DOMAIN empty = {"gts", "isSet", "nextID", "nextRuleID", "oldGraphIDs", "oldRuleIDs", "error"}
        /\ empty.gts = noGTS
    BY <1>3
  <2> QED BY <1>6, <1>7, <2>1 DEF IsGTSReading
<1>9. IsGTSReading(named)
  <2>1. CASE HasAttribute(root, "id")
    <3>1. PICK next : next = [empty EXCEPT !.isSet = TRUE, !.gts = gts] OBVIOUS
    <3>2. DOMAIN next = DOMAIN empty /\ next.gts = gts BY <1>3, <3>1
    <3>3. DOMAIN gts = DOMAIN noGTS /\ gts.stdRules = <<>> /\ gts.uqRules = <<>> BY <1>4, <1>6
    <3>4. IsGTSReading(next) BY <1>3, <1>6, <1>7, <3>2, <3>3 DEF IsGTSReading
    <3> QED BY <1>5, <2>1, <3>1, <3>4
  <2>2. CASE ~ HasAttribute(root, "id") BY <1>5, <1>8, <2>2
  <2> QED BY <2>1, <2>2
<1>10. ReadGTXL(disk, filename, nextID)
         = IF filename \notin DOMAIN disk \/ root.name # "gts" THEN XMLioException(empty)
           ELSE ReadGTS(named, root)
  <2>1. [empty EXCEPT !.isSet = TRUE, !.gts.name = root.attributes.id]
          = [empty EXCEPT !.isSet = TRUE, !.gts = gts]
    BY <1>3, <1>4
  <2> QED BY <1>1, <1>2, <1>3, <1>5, <2>1, Zenon DEF ReadGTXL
<1>11. IsGTSReading(XMLioException(empty)) BY <1>8, FailFacts DEF XMLioException
<1>12. CASE filename \notin DOMAIN disk \/ root.name # "gts" BY <1>10, <1>11, <1>12
<1>13. CASE filename \in DOMAIN disk /\ root.name = "gts"
  <2>1. IsDocument(root) BY <1>1, <1>13
  <2>2. IsGTSReading(ReadGTS(named, root)) BY <1>9, <2>1, ReadGTSFacts
  <2> QED BY <1>10, <1>13, <2>2
<1> QED BY <1>12, <1>13

-----------------------------------------------------------------------------
(* Scenarios                                                               *)

\* A disk of documents.
AreDocuments(disk) == \A f \in DOMAIN disk : IsDocument(disk[f])

\* The file of the GTS, of which there is at most one.
LEMMA LoadedGTSFacts ==
  ASSUME NEW disk, AreDocuments(disk), NEW p, Len(TheScenario.gtsFile) \in {0, 1}
  PROVE  /\ DOMAIN LoadedGTS(disk, p) = DOMAIN Nothing
         /\ Len(TheScenario.gtsFile) = 1 => IsGTSReading(LoadedGTS(disk, p).gts[1])
<1>1. PICK list : list = TheScenario.gtsFile OBVIOUS
<1>2. PICK c : c = [loop |-> "load gts", disk |-> disk, p |-> p] OBVIOUS
<1>3. Len(list) \in Nat /\ \A i \in 1 .. Len(list) : i = 1 BY <1>1
<1>4. \A l, key : LoopStep(c, l, key) = IF l.error = "none" THEN LoadGTS(l, disk, p[key]) ELSE l
  BY <1>2, Zenon DEF LoopStep
<1>5. \A i, l : LoopState(c, i, l) <=> GTSLoaded(i, l) BY <1>2, Zenon DEF LoopState
<1>6. LoopState(c, 0, Nothing) BY <1>5 DEF GTSLoaded
<1>7. ASSUME NEW i \in 1 .. Len(list), NEW l, LoopState(c, i - 1, l)
      PROVE  LoopState(c, i, LoopStep(c, l, list[i]))
  <2>1. i = 1 /\ i - 1 = 0 BY <1>3
  <2>2. l = Nothing BY <1>5, <1>7, <2>1 DEF GTSLoaded
  <2>3. PICK name, next : name = p[list[i]] /\ next = LoadGTS(Nothing, disk, name) OBVIOUS
  <2>4. LoopStep(c, l, list[i]) = next BY <1>4, <2>2, <2>3 DEF Nothing
  <2>5. PICK read : read = ReadGTXL(disk, name, Nothing.nextID) OBVIOUS
  <2>6. IsGTSReading(read) BY <2>5, ReadGTXLFacts DEF AreDocuments
  <2>7. PICK gts, nextID, error : gts = Append(<<>>, read) /\ nextID = read.nextID /\ error = read.error
    BY Zenon
  <2>8. next = [Nothing EXCEPT !["gts"] = gts, !.nextID = nextID, !.error = error]
    BY <2>3, <2>5, <2>7, Zenon DEF LoadGTS, WithRead, Nothing
  <2>9. DOMAIN next = DOMAIN Nothing /\ next.gts = gts BY <2>8, Zenon DEF Nothing
  <2>10. gts[1] = read
    <3>1. <<>> \in Seq({read}) /\ Len(<<>>) = 0 BY EmptySeq
    <3> QED BY <2>7, <3>1, AppendProperties
  <2>11. GTSLoaded(1, next) BY <2>6, <2>9, <2>10 DEF GTSLoaded
  <2> QED BY <1>5, <2>1, <2>4, <2>11
<1>8. LoopState(c, Len(list), Loops!Loop(c, Nothing, list)) BY <1>3, <1>6, <1>7, Loops!LoopKeepsInvariant
<1>9. Loops!Loop(c, Nothing, TheScenario.gtsFile) = LoadedGTS(disk, p)
  <2> DEFINE s == TheScenario.gtsFile
  <2>1. \A f : [i \in 0 .. Len(s) |-> IF i = 0 THEN Nothing ELSE LoopStep(c, f[i - 1], s[i])]
              = [i \in 0 .. Len(s) |-> IF i = 0 THEN Nothing ELSE
                  IF f[i - 1].error = "none" THEN LoadGTS(f[i - 1], disk, p[s[i]]) ELSE f[i - 1]]
    BY <1>4
  <2> QED BY <2>1, Zenon DEF Loops!Loop, LoadedGTS, Each, Folded
<1>10. GTSLoaded(Len(list), LoadedGTS(disk, p)) BY <1>1, <1>5, <1>8, <1>9
<1> QED BY <1>1, <1>10 DEF GTSLoaded

\* The files of graphs leave the GTS as it is.
LEMMA LoadedFromFacts ==
  ASSUME NEW disk, AreDocuments(disk), NEW p, Len(TheScenario.gtsFile) \in {0, 1},
         Len(TheScenario.graphFiles) \in Nat
  PROVE  Len(TheScenario.gtsFile) = 1 => IsGTSReading(LoadedFrom(disk, p).gts[1])
<1>1. PICK list, base : list = TheScenario.graphFiles /\ base = LoadedGTS(disk, p) OBVIOUS
<1>2. PICK c : c = [loop |-> "load graphs", disk |-> disk, p |-> p, gts |-> base.gts] BY Zenon
<1>3. \A l, key : LoopStep(c, l, key) = IF l.error = "none" THEN LoadGraphs(l, disk, p[key]) ELSE l
  BY <1>2, Zenon DEF LoopStep
<1>4. \A i, l : LoopState(c, i, l) <=> DOMAIN l = DOMAIN Nothing /\ l.gts = base.gts
  BY <1>2, Zenon DEF LoopState
<1>5. LoopState(c, 0, base) BY <1>1, <1>4, LoadedGTSFacts
<1>6. ASSUME NEW i \in 1 .. Len(list), NEW l, LoopState(c, i - 1, l)
      PROVE  LoopState(c, i, LoopStep(c, l, list[i]))
  <2>1. DOMAIN l = DOMAIN Nothing /\ l.gts = base.gts BY <1>4, <1>6
  <2>2. PICK name, next : name = p[list[i]] /\ next = LoadGraphs(l, disk, name) OBVIOUS
  <2>3. PICK read : read = ReadGXL(disk, name, l.nextID) OBVIOUS
  <2>4. PICK graphs, nextID, error : /\ graphs = Append(l["graphs"], read)
                                     /\ nextID = read.nextID /\ error = read.error
    BY Zenon
  <2>5. next = [l EXCEPT !["graphs"] = graphs, !.nextID = nextID, !.error = error]
    BY <2>2, <2>3, <2>4, Zenon DEF LoadGraphs, WithRead
  <2>6. DOMAIN next = DOMAIN l /\ next.gts = l.gts BY <2>1, <2>5, Zenon DEF Nothing
  <2>7. LoopState(c, i, next) BY <1>4, <2>1, <2>6
  <2> QED BY <1>3, <1>6, <1>4, <2>1, <2>2, <2>7
<1>7. LoopState(c, Len(list), Loops!Loop(c, base, list)) BY <1>1, <1>5, <1>6, Loops!LoopKeepsInvariant
<1>8. Loops!Loop(c, LoadedGTS(disk, p), TheScenario.graphFiles) = LoadedFrom(disk, p)
  <2> DEFINE s == TheScenario.graphFiles
             b == LoadedGTS(disk, p)
  <2>1. \A f : [i \in 0 .. Len(s) |-> IF i = 0 THEN b ELSE LoopStep(c, f[i - 1], s[i])]
              = [i \in 0 .. Len(s) |-> IF i = 0 THEN b ELSE
                  IF f[i - 1].error = "none" THEN LoadGraphs(f[i - 1], disk, p[s[i]]) ELSE f[i - 1]]
    BY <1>3
  <2> QED BY <2>1, Zenon DEF Loops!Loop, LoadedFrom, Each, Folded
<1>9. LoadedFrom(disk, p).gts = base.gts BY <1>1, <1>4, <1>7, <1>8
<1> QED BY <1>1, <1>9, LoadedGTSFacts

\* A scenario reads one GTS or none, and some files of graphs.
LEMMA ScenariosReadAtMostOneGTS ==
  \A s \in Scenarios : /\ s.gtsFile = <<>> \/ Len(s.gtsFile) = 1
                       /\ Len(s.gtsFile) \in {0, 1} /\ Len(s.graphFiles) \in Nat
<1>1. Len(<<>>) = 0 /\ \A x : Len(<<x>>) = 1 OBVIOUS
<1>2. \A x, y : Len(<<x, y>>) = 2 OBVIOUS
<1> QED
  BY <1>1, <1>2 DEF Scenarios, BackwardAnalysisScenario, LEQCheckScenario, LeaderElectionScenario,
       GXLtoPicConverter, GTXLtoLatexConverter, XMLTestScenario, RulePreparerTest, BackwardStepTest,
       MatcherScenario

\* What is on the disk when a scenario reads it comes from a parser: trees of elements.
FilesAreDocuments == AreDocuments(FileSystem)

\* A scenario is known from when it is initialized, and when it runs, its rules are morphisms.
RulesAreLoaded ==
  /\ scenario \subseteq Scenarios
  /\ phase = "initializing" => scenario # {}
  /\ phase = "running" /\ TheScenario.gtsFile # <<>> => IsGTSReading(loaded.gts[1])

\* The scenario that is known is one of the program's.
LEMMA KnownScenario ==
  ASSUME scenario \subseteq Scenarios, scenario # {}
  PROVE  TheScenario \in Scenarios
<1>1. TheScenario \in scenario BY DEF TheScenario
<1> QED BY <1>1

\* Initialize: only if it ends without an error, the scenario runs.
LEMMA InitializeLoadsRules ==
  ASSUME RulesAreLoaded, FilesAreDocuments, Initialize
  PROVE  RulesAreLoaded'
<1>1. phase = "initializing" /\ scenario' = scenario BY DEF Initialize
<1>2. TheScenario \in Scenarios BY <1>1, KnownScenario DEF RulesAreLoaded
<1>3. PICK gtsFile, graphFiles : gtsFile = TheScenario.gtsFile /\ graphFiles = TheScenario.graphFiles
  OBVIOUS
<1>4. /\ gtsFile = <<>> \/ Len(gtsFile) = 1
      /\ Len(gtsFile) \in {0, 1} /\ Len(graphFiles) \in Nat
  BY <1>2, <1>3, ScenariosReadAtMostOneGTS
<1>5. phase' # "initializing" BY DEF Initialize, InitializationEnds, End
<1>6. ASSUME phase' = "running", TheScenario'.gtsFile # <<>> PROVE IsGTSReading(loaded'.gts[1])
  <2>1. TheScenario' = TheScenario BY <1>1 DEF TheScenario
  <2>2. Len(gtsFile) = 1 BY <1>3, <1>4, <1>6, <2>1
  <2>3. loaded' = LoadedFrom(FileSystem, parameters') BY <1>6 DEF Initialize, End
  <2>4. PICK disk, p : disk = FileSystem /\ p = parameters' OBVIOUS
  <2>5. AreDocuments(disk) BY <2>4 DEF FilesAreDocuments
  <2>6. IsGTSReading(LoadedFrom(disk, p).gts[1]) BY <1>3, <1>4, <2>2, <2>5, LoadedFromFacts
  <2> QED BY <2>3, <2>4, <2>6
<1> QED BY <1>1, <1>5, <1>6 DEF RulesAreLoaded

\* Every other step either ends the call or goes on to a phase before the scenario runs.
LEMMA RulesStayLoaded ==
  ASSUME RulesAreLoaded, FilesAreDocuments, [Next]_vars
  PROVE  RulesAreLoaded'
<1>1. CASE Initialize BY <1>1, InitializeLoadsRules
<1>2. ASSUME scenario' = scenario, phase' \notin {"initializing", "running"} PROVE RulesAreLoaded'
  BY <1>2 DEF RulesAreLoaded
<1>3. CASE Call
  <2>1. scenario' = {} /\ phase' = "parsing" BY <1>3 DEF Call
  <2> QED BY <2>1 DEF RulesAreLoaded
<1>4. CASE RefuseOptions \/ PrintInformation \/ TakeInput
  BY <1>2, <1>4, Zenon DEF RefuseOptions, PrintInformation, TakeInput, End
<1>5. CASE LoadScenario
  <2>1. /\ scenario' \subseteq Scenarios /\ phase' # "running"
        /\ phase' = "initializing" => scenario' # {}
    BY <1>5, Zenon DEF LoadScenario, FoundScenarios, End
  <2> QED BY <2>1 DEF RulesAreLoaded
<1>6. CASE RunThrows \/ RunFails BY <1>2, <1>6 DEF RunThrows, RunExceptionEnds, RunFails, End
<1>7. ASSUME NEW disk, RunEnds(disk) PROVE RulesAreLoaded' BY <1>2, <1>7 DEF RunEnds, End
<1>8. CASE RunBackwardAnalysis BY <1>7, <1>8 DEF RunBackwardAnalysis
<1>9. CASE RunBackwardStepTest BY <1>7, <1>9, Zenon DEF RunBackwardStepTest
<1>10. CASE RunRulePreparerTest BY <1>7, <1>10, Zenon DEF RunRulePreparerTest
<1>11. CASE RunMatcher
  <2>1. PICK searches : MatcherEnds(searches) BY <1>11 DEF RunMatcher
  <2>2. RunExceptionEnds => RulesAreLoaded' BY <1>2 DEF RunExceptionEnds, End
  <2>3. RunExceptionEnds \/ \E disk : RunEnds(disk) BY <2>1, Zenon DEF MatcherEnds
  <2> QED BY <1>7, <2>2, <2>3
<1>12. CASE RunLeaderElection BY <1>7, <1>12 DEF RunLeaderElection
<1>13. CASE RunGTXLtoLatexConverter BY <1>7, <1>13 DEF RunGTXLtoLatexConverter
<1>14. CASE RunGXLtoPicConverter BY <1>7, <1>14 DEF RunGXLtoPicConverter
<1>15. CASE RunXMLTest BY <1>7, <1>15 DEF RunXMLTest
<1>16. CASE RunLEQCheck BY <1>7, <1>16 DEF RunLEQCheck
<1>17. CASE UNCHANGED vars BY <1>17 DEF vars, RulesAreLoaded, TheScenario
<1> QED
  BY <1>1, <1>3, <1>4, <1>5, <1>6, <1>8, <1>9, <1>10, <1>11, <1>12, <1>13, <1>14, <1>15, <1>16, <1>17
  DEF Next

\* What is loaded is a list of rules with their members.
LEMMA LoadedRulesAreMorphisms ==
  ASSUME RulesAreLoaded
  PROVE  AcceptedRulesAreMorphisms
<1> SUFFICES ASSUME phase = "running", TheScenario.gtsFile # <<>>
             PROVE  /\ \A rule \in Range(GTSOf(loaded).stdRules) : IsMorphism(rule)
                    /\ \A uq \in Range(GTSOf(loaded).uqRules) : IsUQMorphism(uq)
  BY DEF AcceptedRulesAreMorphisms
<1>1. PICK rules, uqRules : rules = GTSOf(loaded).stdRules /\ uqRules = GTSOf(loaded).uqRules OBVIOUS
<1>2. AreMorphisms(rules) /\ AreUQMorphisms(uqRules) BY <1>1 DEF RulesAreLoaded, IsGTSReading, GTSOf
<1>3. \A rule \in Range(rules) : IsMorphism(rule) BY <1>2, SeqPositions DEF AreMorphisms, Range
<1>4. \A uq \in Range(uqRules) : IsUQMorphism(uq) BY <1>2, SeqPositions DEF AreUQMorphisms, Range
<1> QED BY <1>1, <1>3, <1>4

\* Whatever documents are on the disk, with whatever rules in them, and whatever the calls before
\* have written over them: the rules that a scenario goes on with keep labels and ends of edges.
THEOREM AcceptedRulesAreMorphismsAlways == Spec /\ []FilesAreDocuments => []AcceptedRulesAreMorphisms
<1>1. Init => RulesAreLoaded BY DEF Init, RulesAreLoaded
<1>2. RulesAreLoaded /\ FilesAreDocuments /\ [Next]_vars => RulesAreLoaded' BY RulesStayLoaded
<1>3. RulesAreLoaded => AcceptedRulesAreMorphisms BY LoadedRulesAreMorphisms
<1> QED BY <1>1, <1>2, <1>3, PTL DEF Spec

=============================================================================
