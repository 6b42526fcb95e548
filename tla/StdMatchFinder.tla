----------------------------- MODULE StdMatchFinder -----------------------------
(***************************************************************************)
(* rule_engine/StdMatchFinder: the flood search for the matches of one     *)
(* graph in another.  mapEdges is recursive and works on three structures  *)
(* that all calls share: the mapping built so far, its reverse, and the    *)
(* edges next to what is mapped.  Each call notes what it adds for a       *)
(* target and takes it back before the next.  A frame of the stack is one  *)
(* running call; an action is one step of its loop.                        *)
(***************************************************************************)
EXTENDS Integers, SequencesExt, FiniteSetsExt

CONSTANT Inputs   \* the searches explored

(***************************************************************************)
(* A graph is [vertices, edges] with edges : id -> [label, vertices], as   *)
(* in AnonHypergraph, which gives out an id once, to a vertex or an edge.  *)
(***************************************************************************)
IsGraph(g) ==
  /\ IsFiniteSet(g.vertices) /\ g.vertices \subseteq Nat
  /\ IsFiniteSet(DOMAIN g.edges) /\ DOMAIN g.edges \subseteq Nat
  /\ g.vertices \cap DOMAIN g.edges = {}
  /\ \A e \in DOMAIN g.edges : g.edges[e].vertices \in Seq(g.vertices)

ASSUME InputsAreGraphs ==
  \A in \in Inputs :
    /\ IsGraph(in.source) /\ IsGraph(in.target)
    /\ in.injective \in BOOLEAN /\ in.stopFast \in BOOLEAN

(***************************************************************************)
(* A label goes with one arity, in both graphs.  With two of them the      *)
(* search reports "An edge label is used for two different arities!" and   *)
(* maps the edges all the same, whose vertices it then reads past the end  *)
(* of the shorter vector.  A non-injective search that stops at the first  *)
(* match in a graph without vertices is left out too: it dereferences an   *)
(* end iterator, and nobody asks for it.                                   *)
(***************************************************************************)
ASSUME InputsAreReadable ==
  \A in \in Inputs :
    /\ \A e \in DOMAIN in.source.edges, t \in DOMAIN in.target.edges :
         in.source.edges[e].label = in.target.edges[t].label =>
           Len(in.source.edges[e].vertices) = Len(in.target.edges[t].vertices)
    /\ in.stopFast /\ ~ in.injective => in.target.vertices # {}

VARIABLES
  input,
  phase,              \* "start", "call", "loop", "return", "isolated", "done"
  stack,              \* the running calls of mapEdges, the innermost last
  currentMapping,
  revCurrentMapping,  \* used in the injective case only
  mappableEdges,
  foundMappings

vars == <<input, phase, stack, currentMapping, revCurrentMapping, mappableEdges,
          foundMappings>>

shared == <<currentMapping, revCurrentMapping, mappableEdges>>

source == input.source
target == input.target

VerticesOf(g, e) == g.edges[e].vertices

ConnectedEdges(g, v) == {e \in DOMAIN g.edges : v \in Range(VerticesOf(g, e))}

Without(map, ids) == Restrict(map, DOMAIN map \ ids)

\* map with the entries of more, which win.
With(map, more) ==
  [x \in DOMAIN more \cup DOMAIN map |-> IF x \in DOMAIN more THEN more[x] ELSE map[x]]

Init ==
  /\ input \in Inputs
  /\ phase = "start" /\ stack = <<>>
  /\ currentMapping = <<>> /\ revCurrentMapping = <<>> /\ mappableEdges = {}
  /\ foundMappings = <<>>

-----------------------------------------------------------------------------
(* findMatches: nothing fits into a smaller graph, and a graph without     *)
(* edges goes straight to the isolated vertices.                           *)

TooLarge ==
  /\ input.injective
  /\ \/ Cardinality(source.vertices) > Cardinality(target.vertices)
     \/ Cardinality(DOMAIN source.edges) > Cardinality(DOMAIN target.edges)

FindMatches ==
  /\ phase = "start"
  /\ CASE TooLarge -> phase' = "done" /\ UNCHANGED foundMappings
       [] ~ TooLarge /\ DOMAIN source.edges = {} ->
            phase' = "isolated" /\ foundMappings' = <<<<>>>>
       [] OTHER -> phase' = "call" /\ UNCHANGED foundMappings
  /\ UNCHANGED <<input, stack, shared>>

-----------------------------------------------------------------------------
(* mapEdges *)

IsMapPossibleIgnoringRepeats(e, t) ==
  LET src == VerticesOf(source, e)
      tar == VerticesOf(target, t)
  IN /\ ~ (input.injective /\ t \in DOMAIN revCurrentMapping)
     /\ source.edges[e].label = target.edges[t].label
     /\ \A i \in DOMAIN src :
          src[i] \in DOMAIN currentMapping => currentMapping[src[i]] = tar[i]
IsMapPossibleIgnoringTaken(e, t) ==
  LET src == VerticesOf(source, e)
      tar == VerticesOf(target, t)
  IN /\ ~ (input.injective /\ t \in DOMAIN revCurrentMapping)
     /\ source.edges[e].label = target.edges[t].label
     /\ Len(src) = Len(tar) => \A i \in DOMAIN src :
          /\ src[i] \in DOMAIN currentMapping => currentMapping[src[i]] = tar[i]
          /\ \A j \in 1 .. i - 1 : src[j] = src[i] => tar[j] = tar[i]
IsMapPossible(e, t) ==
  LET src == VerticesOf(source, e)
      tar == VerticesOf(target, t)
  IN /\ ~ (input.injective /\ t \in DOMAIN revCurrentMapping)
     /\ source.edges[e].label = target.edges[t].label
     /\ Len(src) = Len(tar) => \A i \in DOMAIN src :
          /\ src[i] \in DOMAIN currentMapping => currentMapping[src[i]] = tar[i]
          /\ input.injective /\ tar[i] \in DOMAIN revCurrentMapping =>
               revCurrentMapping[tar[i]] = src[i]
          /\ \A j \in 1 .. i - 1 : src[j] = src[i] => tar[j] = tar[i]

\* The unmapped edge of greatest arity, the first of them in the edge map.
EntryPoint ==
  LET arity(e) == Len(VerticesOf(source, e))
      unmapped == DOMAIN source.edges \ DOMAIN currentMapping
  IN Min({e \in unmapped : \A f \in unmapped : arity(f) <= arity(e)})

\* Where an edge next to the mapped part can go: edges at the image of its
\* first mapped vertex.
Candidates(e) ==
  LET src == VerticesOf(source, e)
      i == Min({k \in DOMAIN src : src[k] \in DOMAIN currentMapping})
  IN ConnectedEdges(target, currentMapping[src[i]])

EdgesToGo == Cardinality(DOMAIN source.edges) - Len(stack)

CallOn(e, candidates) ==
  /\ stack' = Append(stack,
       [edge |-> e, possibleTargets |-> {t \in candidates : IsMapPossible(e, t)},
        mappableEdgeDeleted |-> e \in mappableEdges,
        mappingDiff |-> {}, revDiff |-> {}, mappableDiff |-> {}])
  /\ mappableEdges' = mappableEdges \ {e}
  /\ phase' = "loop"
  /\ UNCHANGED <<input, currentMapping, revCurrentMapping, foundMappings>>

\* *mappableEdges.begin(): whichever edge the hash set has first.
ChooseEdge ==
  /\ phase = "call" /\ EdgesToGo > 0
  /\ IF mappableEdges = {}
     THEN CallOn(EntryPoint, DOMAIN target.edges)
     ELSE \E e \in mappableEdges : CallOn(e, Candidates(e))

FoundMatch ==
  /\ phase = "call" /\ EdgesToGo = 0
  /\ foundMappings' = Append(foundMappings, currentMapping)
  /\ phase' = "return"
  /\ UNCHANGED <<input, stack, shared>>

Frame == Last(stack)

\* The image of a vertex that edge e maps when it goes to t.
ImageAt(e, t, v) ==
  VerticesOf(target, t)[Min({i \in DOMAIN VerticesOf(source, e) : VerticesOf(source, e)[i] = v})]

\* The first place of each of the vertices of an edge.
FirstPlaces(src) == {i \in DOMAIN src : \A j \in 1 .. i - 1 : src[j] # src[i]}

MapTo(t, rest) ==
  LET e == Frame.edge
      src == VerticesOf(source, e)
      new == Range(src) \ DOMAIN currentMapping
      image == [x \in new \cup {e} |-> IF x = e THEN t ELSE ImageAt(e, t, x)]
      \* the last source entered for a target stays
      reverse == [y \in Range(image) |->
        IF y = t THEN e
        ELSE src[Max({i \in FirstPlaces(src) : src[i] \in new /\ image[src[i]] = y})]]
      nextTo == (UNION {ConnectedEdges(source, v) : v \in new})
                  \ (DOMAIN currentMapping \cup {e} \cup mappableEdges)
  IN /\ currentMapping' = With(currentMapping, image)
     /\ revCurrentMapping' =
          IF input.injective THEN With(revCurrentMapping, reverse) ELSE revCurrentMapping
     /\ mappableEdges' = mappableEdges \cup nextTo
     /\ stack' = [stack EXCEPT ![Len(stack)] =
          [@ EXCEPT !.possibleTargets = rest, !.mappingDiff = DOMAIN image,
                    !.revDiff = IF input.injective THEN Range(image) ELSE {},
                    !.mappableDiff = nextTo]]
     /\ phase' = "call"
     /\ UNCHANGED <<input, foundMappings>>

\* The targets of an entry point are in the order of the edge map, candidates
\* next to the mapped part in that of a hash set.
IsNext(t) ==
  /\ t \in Frame.possibleTargets
  /\ Frame.mappableEdgeDeleted \/ \A u \in Frame.possibleTargets : t <= u

MapEdgeAgain ==
  /\ phase = "loop"
  /\ \E t \in Frame.possibleTargets : IsNext(t) /\ MapTo(t, Frame.possibleTargets)
MapEdge ==
  /\ phase = "loop"
  /\ \E t \in Frame.possibleTargets : IsNext(t) /\ MapTo(t, Frame.possibleTargets \ {t})

UndoKeepsReverse ==
  /\ phase = "return" /\ ~ (input.stopFast /\ foundMappings # <<>>)
  /\ currentMapping' = Without(currentMapping, Frame.mappingDiff)
  /\ mappableEdges' = mappableEdges \ Frame.mappableDiff
  /\ phase' = "loop"
  /\ UNCHANGED <<input, stack, revCurrentMapping, foundMappings>>
\* Back from the recursive call: take back what was mapped for this target.
Undo ==
  /\ phase = "return" /\ ~ (input.stopFast /\ foundMappings # <<>>)
  /\ currentMapping' = Without(currentMapping, Frame.mappingDiff)
  /\ revCurrentMapping' = Without(revCurrentMapping, Frame.revDiff)
  /\ mappableEdges' = mappableEdges \ Frame.mappableDiff
  /\ phase' = "loop"
  /\ UNCHANGED <<input, stack, foundMappings>>

\* One match is enough: every call returns at once and leaves things as they are.
StopOnFirstFind ==
  /\ phase = "return" /\ input.stopFast /\ foundMappings # <<>>
  /\ stack' = <<>> /\ phase' = "isolated"
  /\ UNCHANGED <<input, shared, foundMappings>>

EndLoopKeepsEdgeOut ==
  /\ phase = "loop" /\ Frame.possibleTargets = {}
  /\ stack' = Front(stack)
  /\ phase' = IF Len(stack) = 1 THEN "isolated" ELSE "return"
  /\ UNCHANGED <<input, shared, foundMappings>>
EndLoop ==
  /\ phase = "loop" /\ Frame.possibleTargets = {}
  /\ mappableEdges' = IF Frame.mappableEdgeDeleted
                      THEN mappableEdges \cup {Frame.edge} ELSE mappableEdges
  /\ stack' = Front(stack)
  /\ phase' = IF Len(stack) = 1 THEN "isolated" ELSE "return"
  /\ UNCHANGED <<input, currentMapping, revCurrentMapping, foundMappings>>

-----------------------------------------------------------------------------
(* mapIsolatedNodes: vertices no edge has mapped, the same for every match *)

IsolatedNodes == source.vertices \ DOMAIN Head(foundMappings)

Ascending(S) ==
  CHOOSE s \in [1 .. Cardinality(S) -> S] : \A i, j \in 1 .. Cardinality(S) : i < j => s[i] < s[j]

\* In the order of the vertex map, each to the next free vertex of the target.
FirstFit(m) ==
  LET nodes == Ascending(IsolatedNodes)
      free == Ascending(target.vertices \ Range(m))
  IN IF Len(free) < Len(nodes) THEN <<>>
     ELSE <<With(m, [v \in IsolatedNodes |-> free[CHOOSE i \in DOMAIN nodes : nodes[i] = v]])>>

AllTo(m, v) == <<With(m, [x \in IsolatedNodes |-> v])>>

\* enumAllIsoNodesInj; in which order does not matter, nor is one found twice.
InjectiveExtensions(m) ==
  FoldSet(LAMBDA f, acc : Append(acc, With(m, f)), <<>>,
          {f \in [IsolatedNodes -> target.vertices \ Range(m)] : IsInjective(f)})

(* ExpEnumerator: all vectors of digits up to a last one, the first place  *)
(* counts fastest.                                                         *)

CanCountUp(data, last) == \E i \in DOMAIN data : data[i] < last

CountUp(data, last) ==
  LET place == Min({i \in DOMAIN data : data[i] < last})
  IN [i \in DOMAIN data |->
        IF i < place THEN 0 ELSE IF i = place THEN data[i] + 1 ELSE data[i]]

Vectors(last, size) ==
  LET from[data \in [1..size -> 0..last]] ==
        <<data>> \o (IF CanCountUp(data, last) THEN from[CountUp(data, last)] ELSE <<>>)
  IN from[[i \in 1..size |-> 0]]

\* enumAllIsoNodesNonInj
NonInjectiveExtensions(m) ==
  LET nodes == Ascending(IsolatedNodes)
      targets == Ascending(target.vertices)
      Images(data) == [v \in IsolatedNodes |->
                         targets[data[CHOOSE i \in DOMAIN nodes : nodes[i] = v] + 1]]
      vectors == Vectors(Len(targets) - 1, Len(nodes))
  IN IF targets = <<>> THEN <<>> ELSE [i \in DOMAIN vectors |-> With(m, Images(vectors[i]))]

Extensions(m) ==
  IF input.injective THEN InjectiveExtensions(m) ELSE NonInjectiveExtensions(m)

MapIsolatedNodes ==
  /\ phase = "isolated" /\ phase' = "done"
  /\ foundMappings' =
       IF foundMappings = <<>> \/ IsolatedNodes = {} THEN foundMappings
       ELSE IF input.stopFast
            THEN IF input.injective THEN FirstFit(Head(foundMappings))
                                    ELSE AllTo(Head(foundMappings), Min(target.vertices))
            ELSE FlattenSeq([i \in DOMAIN foundMappings |-> Extensions(foundMappings[i])])
  /\ UNCHANGED <<input, stack, shared>>

Next ==
  \/ FindMatches \/ ChooseEdge \/ FoundMatch \/ MapEdge \/ Undo \/ StopOnFirstFind
  \/ EndLoop \/ MapIsolatedNodes

\* One call of findMatches: it never waits.
Spec == Init /\ [][Next]_vars /\ WF_vars(Next)

-----------------------------------------------------------------------------
(* Properties *)

Elements(g) == g.vertices \cup DOMAIN g.edges

\* What a match is: vertices to vertices, edges to edges of the same label that
\* are attached to the images of their vertices.
Matches ==
  {With(h, f) : f \in [source.vertices -> target.vertices],
            h \in [DOMAIN source.edges -> DOMAIN target.edges]}
IsMatch(m) ==
  \A e \in DOMAIN source.edges :
    /\ source.edges[e].label = target.edges[m[e]].label
    /\ VerticesOf(target, m[e]) = [i \in DOMAIN VerticesOf(source, e) |-> m[VerticesOf(source, e)[i]]]

AllMatches == {m \in Matches : IsMatch(m)}
InjectiveMatches == {m \in AllMatches : IsInjective(m)}

\* "Calculates all matches from the source to the target graph": without
\* stopFast every match is in the result, and none of them twice.
AllMatchesFound ==
  phase = "done" /\ ~ input.stopFast =>
    /\ IsInjective(foundMappings)
    /\ Range(foundMappings) \subseteq AllMatches
    /\ (IF input.injective THEN InjectiveMatches ELSE AllMatches) \subseteq Range(foundMappings)

\* A search that stops early finds a match exactly if there is one; this is how
\* SubgraphOrder::isLessOrEq decides.
FirstMatchDecides ==
  phase = "done" /\ input.stopFast =>
    /\ Len(foundMappings) <= 1
    /\ Range(foundMappings) \subseteq AllMatches
    /\ (IF input.injective THEN InjectiveMatches ELSE AllMatches) # {} => foundMappings # <<>>

\* Whenever mapEdges is entered, whatever was tried and taken back before, the
\* shared structures are what the running calls have mapped: their edges and
\* the vertices of these, the reverse of that, and the edges next to it.
SharedStateIsUndone ==
  phase = "call" =>
    LET mapped == {stack[i].edge : i \in DOMAIN stack}
        nodes == UNION {Range(VerticesOf(source, e)) : e \in mapped}
    IN /\ DOMAIN currentMapping = mapped \cup nodes
       /\ input.injective => DOMAIN revCurrentMapping = Range(currentMapping)
       /\ mappableEdges = (UNION {ConnectedEdges(source, v) : v \in nodes}) \ mapped

\* The search comes to an end.
Ends == <>(phase = "done")

\* "set to true, if only injective matches should be returned"
OnlyInjectiveMatches ==
  phase = "done" /\ input.injective => \A i \in DOMAIN foundMappings : IsInjective(foundMappings[i])

=============================================================================
