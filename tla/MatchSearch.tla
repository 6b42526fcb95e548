------------------------------ MODULE MatchSearch ------------------------------
(***************************************************************************)
(* What rule_engine/StdMatchFinder returns, as a value, for the modules    *)
(* that call it.  StdMatchFinder has the recursion with its shared         *)
(* structures; as each call takes back what it has added, a call depends   *)
(* on the targets of the edges before it only, and the calls can be looked *)
(* at one level of the recursion after the other.  A search is             *)
(* [source, target, injective, beyond], where beyond is what is read past  *)
(* the end of the vertices of an edge; what a call works on is             *)
(* [map, rev, mappable].                                                   *)
(***************************************************************************)
EXTENDS PlainHypergraph

Ends(g, e) == g.edges[e].vertices

AttachedTo(g, v) == {e \in DOMAIN g.edges : v \in Range(Ends(g, e))}

FirstCall == [map |-> <<>>, rev |-> <<>>, mappable |-> {}]

-----------------------------------------------------------------------------
(* mapEdges: the edge that a call maps, and where it can go                *)

\* The unmapped edge of greatest arity, the first of them in the edge map.
NewEntryPoint(g, map) ==
  LET unmapped == DOMAIN g.edges \ DOMAIN map
  IN Min({e \in unmapped : \A f \in unmapped : Len(Ends(g, f)) <= Len(Ends(g, e))})

\* *mappableEdges.begin() is whichever edge the hash set has first.
CurrentEdge(s, c) ==
  IF c.mappable = {} THEN NewEntryPoint(s.source, c.map) ELSE CHOOSE e \in c.mappable : TRUE

\* The image of the first vertex of an edge that is mapped.
CommonNode(s, c, e) ==
  c.map[Ends(s.source, e)[Min({i \in DOMAIN Ends(s.source, e) : Ends(s.source, e)[i] \in DOMAIN c.map})]]

\* A new entry point can go anywhere, an edge next to the mapped part to an edge next to its image.
EdgeCandidates(s, c, e) ==
  IF c.mappable = {} THEN DOMAIN s.target.edges ELSE AttachedTo(s.target, CommonNode(s, c, e))

\* No edge of an injective search goes to a target that is taken.  Vertices are looked at if
\* there are as many on both sides, and a target vertex is tested against the vertices of the
\* edges before this one.
VerticesFit(s, c, src, tar) ==
  \A i \in DOMAIN src :
    /\ src[i] \in DOMAIN c.map => c.map[src[i]] = tar[i]
    /\ s.injective /\ tar[i] \in DOMAIN c.rev => c.rev[tar[i]] = src[i]
    /\ \A j \in 1 .. i - 1 : src[j] = src[i] => tar[j] = tar[i]

IsMapPossible(s, c, e, t) ==
  /\ s.injective => t \notin DOMAIN c.rev
  /\ s.source.edges[e].label = s.target.edges[t].label
  /\ Len(Ends(s.source, e)) = Len(Ends(s.target, t)) =>
       VerticesFit(s, c, Ends(s.source, e), Ends(s.target, t))

PossibleTargets(s, c, e) == {t \in EdgeCandidates(s, c, e) : IsMapPossible(s, c, e, t)}

-----------------------------------------------------------------------------
(* mapEdges: what the recursive call gets                                  *)

\* The places of an edge at which a vertex is mapped.
NewPlaces(c, src) ==
  {i \in DOMAIN src : src[i] \notin DOMAIN c.map /\ \A j \in 1 .. i - 1 : src[j] # src[i]}

\* A longer edge goes on behind the end of the vertices of a shorter one.
ReadAt(s, tar, i) == IF i <= Len(tar) THEN tar[i] ELSE s.beyond

WithImages(s, c, e, t) ==
  LET src == Ends(s.source, e)
      new == NewPlaces(c, src)
      place(x) == CHOOSE i \in new : src[i] = x
  IN [x \in DOMAIN c.map \cup {e} \cup {src[i] : i \in new} |->
        IF x = e THEN t ELSE IF x \in DOMAIN c.map THEN c.map[x] ELSE ReadAt(s, Ends(s.target, t), place(x))]

\* The last vertex that is entered for an image stays.
WithReverse(s, c, e, t) ==
  LET src == Ends(s.source, e)
      new == NewPlaces(c, src)
      to(i) == ReadAt(s, Ends(s.target, t), i)
  IN [y \in DOMAIN c.rev \cup {t} \cup {to(i) : i \in new} |->
        IF \E i \in new : to(i) = y THEN src[Max({i \in new : to(i) = y})]
        ELSE IF y = t THEN e ELSE c.rev[y]]

MapTo(s, c, e, t) ==
  [map |-> WithImages(s, c, e, t),
   rev |-> IF s.injective THEN WithReverse(s, c, e, t) ELSE c.rev,
   mappable |-> (c.mappable
                   \cup UNION {AttachedTo(s.source, v) : v \in Range(Ends(s.source, e)) \ DOMAIN c.map})
                  \ (DOMAIN c.map \cup {e})]

\* All calls that one call makes.
CallsFrom(s, c, e) == {MapTo(s, c, e, t) : t \in PossibleTargets(s, c, e)}

NextLevel(s, calls) == UNION {CallsFrom(s, c, CurrentEdge(s, c)) : c \in calls}

\* The calls when some edges are mapped.
Level(s, edges) == Folded(LAMBDA calls, i : NextLevel(s, calls), {FirstCall}, [i \in 1..edges |-> i])

\* The calls that have nothing left to map.
Found(s) == Level(s, Cardinality(DOMAIN s.source.edges))

-----------------------------------------------------------------------------
(* findMatches *)

\* Nothing fits injectively into a smaller graph.
TooLarge(s) ==
  /\ s.injective
  /\ \/ Cardinality(s.source.vertices) > Cardinality(s.target.vertices)
     \/ Cardinality(DOMAIN s.source.edges) > Cardinality(DOMAIN s.target.edges)

\* mapIsolatedNodes: the vertices that no edge has mapped, and where they may go.
IsolatedNodes(s, c) == s.source.vertices \ DOMAIN c.map

FreeNodes(s, c) == IF s.injective THEN s.target.vertices \ Range(c.map) ELSE s.target.vertices

\* An injective search that stops at its first find: there has to be room for the vertices.
FindsInjectiveMatch(s) ==
  LET first == CHOOSE c \in Found(s) : TRUE
  IN /\ ~ TooLarge(s)
     /\ Found(s) # {}
     /\ Cardinality(IsolatedNodes(s, first)) <= Cardinality(FreeNodes(s, first))

Extensions(s, c) ==
  {f \in [IsolatedNodes(s, c) -> FreeNodes(s, c)] : s.injective => IsInjective(f)}

\* A search that goes on.
FoundMatches(s) ==
  IF TooLarge(s) THEN {} ELSE UNION {{c.map @@ f : f \in Extensions(s, c)} : c \in Found(s)}

\* The first mapped vertex of an edge went to what is no vertex, so that there are no edges next
\* to it, which is taken for an error.
FloodSearchFails(s, c) ==
  c.mappable # {} /\ CommonNode(s, c, CurrentEdge(s, c)) \notin s.target.vertices

SearchThrows(s) ==
  /\ ~ TooLarge(s)
  /\ \E n \in 0 .. Cardinality(DOMAIN s.source.edges) - 1 : \E c \in Level(s, n) : FloodSearchFails(s, c)

=============================================================================
