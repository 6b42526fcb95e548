-------------------------- MODULE StdMatchFinderProofs --------------------------
(***************************************************************************)
(* What holds of every search, for all graphs: the recursion takes back    *)
(* exactly what it did, so the structures that all calls share belong to   *)
(* the running calls, a search that stops at the first match is right      *)
(* about whether there is one, and a search that goes on finds every match *)
(* once.                                                                   *)
(***************************************************************************)
EXTENDS StdMatchFinder, SequenceLemmas

-----------------------------------------------------------------------------
(* Levels: what the first k running calls have mapped *)

Mapped(k) == {stack[i].edge : i \in 1 .. k}

Nodes(k) == UNION {Range(VerticesOf(source, e)) : e \in Mapped(k)}

Level(k) == Mapped(k) \cup Nodes(k)

NextTo(k) == (UNION {ConnectedEdges(source, v) : v \in Nodes(k)}) \ Mapped(k)

\* The innermost call has mapped nothing while it looks for its next target.
Depth == IF phase = "loop" THEN Len(stack) - 1 ELSE Len(stack)

Running == phase \in {"call", "loop", "return"}

Frames ==
  [edge : DOMAIN source.edges, possibleTargets : SUBSET DOMAIN target.edges,
   mappableEdgeDeleted : BOOLEAN, mappingDiff : SUBSET Elements(source),
   revDiff : SUBSET Elements(target), mappableDiff : SUBSET DOMAIN source.edges]

SearchTypeOK ==
  /\ input \in Inputs
  /\ phase \in {"start", "call", "loop", "return", "isolated", "done"}
  /\ stack \in Seq(Frames)
  /\ currentMapping \in [DOMAIN currentMapping -> Elements(target)]
  /\ DOMAIN currentMapping \subseteq Elements(source)
  /\ Running => DOMAIN source.edges # {}
  /\ phase \in {"loop", "return"} => stack # <<>>
  /\ phase = "start" =>
       /\ stack = <<>> /\ currentMapping = <<>> /\ revCurrentMapping = <<>>
       /\ mappableEdges = {} /\ foundMappings = <<>>

\* Edge e goes to t next to what the first k calls have mapped.
Fits(k, e, t) ==
  LET src == VerticesOf(source, e)
      tar == VerticesOf(target, t)
  IN /\ source.edges[e].label = target.edges[t].label
     /\ \A i \in DOMAIN src : src[i] \in Level(k) => currentMapping[src[i]] = tar[i]
     /\ \A i, j \in DOMAIN src : src[i] = src[j] => tar[i] = tar[j]
     /\ input.injective => \A x \in Level(k) :
          /\ currentMapping[x] # t
          /\ \A i \in DOMAIN src : src[i] \notin Level(k) => currentMapping[x] # tar[i]

\* What call k has done is right, and it has noted what it has done.
CallIsRight(k) ==
  LET e == stack[k].edge
      t == currentMapping[e]
  IN /\ t \in DOMAIN target.edges
     /\ source.edges[e].label = target.edges[t].label
     /\ \A i \in DOMAIN VerticesOf(source, e) :
          currentMapping[VerticesOf(source, e)[i]] = VerticesOf(target, t)[i]
     /\ stack[k].mappingDiff = Level(k) \ Level(k - 1)
     /\ input.injective =>
          stack[k].revDiff = {currentMapping[x] : x \in Level(k) \ Level(k - 1)}
     /\ stack[k].mappableDiff = NextTo(k) \ NextTo(k - 1)

\* What call k is about to do is possible.
CallIsOpen(k) ==
  /\ stack[k].edge \notin Mapped(k - 1)
  /\ stack[k].mappableEdgeDeleted <=> stack[k].edge \in NextTo(k - 1)
  /\ \A t \in stack[k].possibleTargets : Fits(k - 1, stack[k].edge, t)

ReverseIsRight ==
  /\ DOMAIN revCurrentMapping = Range(currentMapping)
  /\ \A y \in DOMAIN revCurrentMapping :
       revCurrentMapping[y] \in DOMAIN currentMapping /\ currentMapping[revCurrentMapping[y]] = y

\* Two elements with one image were mapped by the same call.
ImagesAreOfOneCall ==
  \A x, z \in DOMAIN currentMapping :
    currentMapping[x] = currentMapping[z] =>
      \A k \in 1 .. Depth : x \in Level(k) => z \in Level(k)

SearchInv ==
  /\ SearchTypeOK
  /\ Running =>
       /\ DOMAIN currentMapping = Level(Depth)
       /\ mappableEdges = NextTo(Depth) \ Mapped(Len(stack))
       /\ input.injective => ReverseIsRight /\ ImagesAreOfOneCall
       /\ \A k \in 1 .. Len(stack) : CallIsOpen(k)
       /\ \A k \in 1 .. Depth : CallIsRight(k)

-----------------------------------------------------------------------------
(* Lemmas about levels *)

\* The calls below k do not change unless their edges do.
LEMMA LevelsAreKept ==
  ASSUME NEW m \in Nat, input' = input, \A i \in 1 .. m : stack'[i].edge = stack[i].edge,
         NEW k \in Int, k <= m
  PROVE  /\ Mapped(k)' = Mapped(k) /\ Nodes(k)' = Nodes(k)
         /\ Level(k)' = Level(k) /\ NextTo(k)' = NextTo(k)
<1>1. \A i \in 1 .. k : i \in 1 .. m OBVIOUS
<1>2. \A i \in 1 .. k : stack'[i].edge = stack[i].edge BY <1>1
<1>3. Mapped(k)' = Mapped(k) BY <1>2 DEF Mapped
<1>4. Nodes(k)' = Nodes(k) BY <1>3 DEF Nodes, VerticesOf, source
<1>5. NextTo(k)' = NextTo(k) BY <1>3, <1>4 DEF NextTo, ConnectedEdges, VerticesOf, source
<1> QED BY <1>3, <1>4, <1>5 DEF Level

\* One call more: its edge, the vertices of that, and the edges at these.
LEMMA NextLevel ==
  ASSUME NEW k \in Nat \ {0}
  PROVE  LET e == stack[k].edge
             src == Range(VerticesOf(source, e))
         IN /\ Mapped(k) = Mapped(k - 1) \cup {e}
            /\ Nodes(k) = Nodes(k - 1) \cup src
            /\ Level(k) = Level(k - 1) \cup src \cup {e}
            /\ NextTo(k) = (NextTo(k - 1) \cup UNION {ConnectedEdges(source, v) : v \in src})
                             \ Mapped(k)
<1> DEFINE e == stack[k].edge
           src == Range(VerticesOf(source, e))
<1>1. 1 .. k = (1 .. k - 1) \cup {k} OBVIOUS
<1>2. Mapped(k) = Mapped(k - 1) \cup {e} BY <1>1 DEF Mapped
<1>3. Nodes(k) = Nodes(k - 1) \cup src BY <1>2 DEF Nodes
<1>4. Level(k) = Level(k - 1) \cup src \cup {e} BY <1>2, <1>3 DEF Level
<1>5. NextTo(k) = (NextTo(k - 1) \cup UNION {ConnectedEdges(source, v) : v \in src})
                    \ Mapped(k)
  BY <1>2, <1>3 DEF NextTo
<1> QED BY <1>2, <1>3, <1>4, <1>5

\* A graph keeps its vertices and its edges apart.
LEMMA InputFacts ==
  ASSUME input \in Inputs
  PROVE  /\ IsGraph(source) /\ IsGraph(target)
         /\ input.injective \in BOOLEAN /\ input.stopFast \in BOOLEAN
         /\ \A e \in DOMAIN source.edges : 
              /\ VerticesOf(source, e) \in Seq(source.vertices)
              /\ Range(VerticesOf(source, e)) \subseteq source.vertices
              /\ e \notin source.vertices
         /\ \A t \in DOMAIN target.edges :
              /\ VerticesOf(target, t) \in Seq(target.vertices)
              /\ Range(VerticesOf(target, t)) \subseteq target.vertices
              /\ t \notin target.vertices
         /\ \A e \in DOMAIN source.edges, t \in DOMAIN target.edges :
              source.edges[e].label = target.edges[t].label =>
                Len(VerticesOf(source, e)) = Len(VerticesOf(target, t))
<1>1. IsGraph(source) /\ IsGraph(target) /\ input.injective \in BOOLEAN /\ input.stopFast \in BOOLEAN
  BY InputsAreGraphs DEF source, target
<1>2. \A e \in DOMAIN source.edges : VerticesOf(source, e) \in Seq(source.vertices)
                                     /\ e \notin source.vertices
  BY <1>1 DEF IsGraph, VerticesOf
<1>3. \A t \in DOMAIN target.edges : VerticesOf(target, t) \in Seq(target.vertices)
                                     /\ t \notin target.vertices
  BY <1>1 DEF IsGraph, VerticesOf
<1>4. \A e \in DOMAIN source.edges, t \in DOMAIN target.edges :
              source.edges[e].label = target.edges[t].label =>
                Len(VerticesOf(source, e)) = Len(VerticesOf(target, t))
  BY InputsAreReadable DEF source, target, VerticesOf
<1>5. \A e \in DOMAIN source.edges : Range(VerticesOf(source, e)) \subseteq source.vertices
  BY <1>2, RangeIsSubset
<1>6. \A t \in DOMAIN target.edges : Range(VerticesOf(target, t)) \subseteq target.vertices
  BY <1>3, RangeIsSubset
<1> QED BY <1>1, <1>2, <1>3, <1>4, <1>5, <1>6

\* Levels consist of edges and their vertices, and grow.
LEMMA LevelFacts ==
  ASSUME SearchTypeOK, NEW k \in 0 .. Len(stack)
  PROVE  /\ Mapped(k) \subseteq DOMAIN source.edges
         /\ Nodes(k) \subseteq source.vertices
         /\ NextTo(k) \subseteq DOMAIN source.edges
         /\ \A j \in 0 .. k : Level(j) \subseteq Level(k)
<1>1. \A i \in 1 .. Len(stack) : stack[i] \in Frames BY ElementOfSeq DEF SearchTypeOK
<1>2. Len(stack) \in Nat BY LenProperties DEF SearchTypeOK
<1>3. \A i \in 1 .. k : stack[i].edge \in DOMAIN source.edges BY <1>1, <1>2 DEF Frames
<1>4. Mapped(k) \subseteq DOMAIN source.edges BY <1>3 DEF Mapped
<1>5. Nodes(k) \subseteq source.vertices BY <1>4, InputFacts DEF Nodes, SearchTypeOK
<1>6. NextTo(k) \subseteq DOMAIN source.edges BY DEF NextTo, ConnectedEdges
<1>7. ASSUME NEW j \in 0 .. k PROVE Level(j) \subseteq Level(k)
  <2>1. \A i \in 1 .. j : i \in 1 .. k BY <1>2
  <2>2. Mapped(j) \subseteq Mapped(k) BY <2>1 DEF Mapped
  <2> QED BY <2>2 DEF Level, Nodes
<1> QED BY <1>4, <1>5, <1>6, <1>7

\* With adds entries and wins.
LEMMA WithFacts ==
  ASSUME NEW map, NEW more
  PROVE  /\ DOMAIN With(map, more) = DOMAIN more \cup DOMAIN map
         /\ \A x \in DOMAIN more : With(map, more)[x] = more[x]
         /\ \A x \in DOMAIN map \ DOMAIN more : With(map, more)[x] = map[x]
BY DEF With

\* Without takes entries away.
LEMMA WithoutFacts ==
  ASSUME NEW map, NEW ids
  PROVE  /\ DOMAIN Without(map, ids) = DOMAIN map \ ids
         /\ \A x \in DOMAIN map \ ids : Without(map, ids)[x] = map[x]
BY DEF Without, Restrict

\* std::min_element and its like: the least element is one of them.
LEMMA MinIsElement ==
  ASSUME NEW T, T \subseteq Nat, T # {}
  PROVE  Min(T) \in T /\ \A x \in T : Min(T) <= x
BY LeastNatural DEF Min

LEMMA MaxIsElement ==
  ASSUME NEW n \in Nat, NEW T, T \subseteq 1 .. n, T # {}
  PROVE  Max(T) \in T /\ \A x \in T : Max(T) >= x
<1> DEFINE D == {n - x : x \in T}
<1>0. \A x \in T : n - x \in Nat OBVIOUS
<1>1. D \subseteq Nat /\ D # {} BY <1>0
<1>2. PICK d \in D : \A m \in D : d <= m
  <2> HIDE DEF D
  <2> QED BY <1>1, LeastNatural
<1>3. PICK x \in T : d = n - x BY <1>2
<1>4. \A y \in T : x >= y
  <2> SUFFICES ASSUME NEW y \in T PROVE x >= y
    OBVIOUS
  <2>1. n - y \in D OBVIOUS
  <2>2. n - x <= n - y BY <1>2, <1>3, <2>1
  <2>3. x \in Nat /\ y \in Nat OBVIOUS
  <2> QED BY <2>2, <2>3
<1> QED BY <1>4 DEF Max

-----------------------------------------------------------------------------
(* What a step leaves as it was *)

\* What fits next to the first calls depends on what these have mapped only.
LEMMA FitsIsKept ==
  ASSUME SearchTypeOK, NEW k \in 0 .. Len(stack), input' = input, Level(k)' = Level(k),
         \A x \in Level(k) : currentMapping'[x] = currentMapping[x],
         NEW e, NEW t
  PROVE  Fits(k, e, t)' <=> Fits(k, e, t)
<1>1. /\ VerticesOf(source, e)' = VerticesOf(source, e)
      /\ VerticesOf(target, t)' = VerticesOf(target, t)
      /\ source' = source /\ target' = target
  BY DEF VerticesOf, source, target
<1> QED BY <1>1 DEF Fits

\* So does what these calls themselves have done and are about to do.
LEMMA CallsAreKept ==
  ASSUME SearchTypeOK, NEW m \in 0 .. Len(stack), input' = input,
         \A i \in 1 .. m : stack'[i] = stack[i],
         \A x \in Level(m) : currentMapping'[x] = currentMapping[x],
         NEW k \in 1 .. m
  PROVE  /\ CallIsOpen(k) => CallIsOpen(k)'
         /\ CallIsRight(k) => CallIsRight(k)'
<1>1. Len(stack) \in Nat BY LenProperties DEF SearchTypeOK
<1>2. /\ m \in Nat /\ k \in Int /\ k - 1 \in Int /\ k <= m /\ k - 1 <= m
      /\ \A i \in 1 .. m : stack'[i].edge = stack[i].edge
      /\ k \in 0 .. m /\ k - 1 \in 0 .. m /\ k \in 0 .. Len(stack) /\ k - 1 \in 0 .. Len(stack)
  BY <1>1
<1>3. /\ Mapped(k - 1)' = Mapped(k - 1) /\ Level(k - 1)' = Level(k - 1)
      /\ NextTo(k - 1)' = NextTo(k - 1)
      /\ Level(k)' = Level(k) /\ NextTo(k)' = NextTo(k) /\ Mapped(k)' = Mapped(k)
  BY <1>2, LevelsAreKept
<1>4. Level(k - 1) \subseteq Level(m) /\ Level(k) \subseteq Level(m) BY <1>2, LevelFacts
<1>5. stack'[k] = stack[k] OBVIOUS
<1>6. source' = source /\ target' = target BY DEF source, target
<1>7. CallIsOpen(k) => CallIsOpen(k)'
  <2>1. \A x \in Level(k - 1) : currentMapping'[x] = currentMapping[x] BY <1>4
  <2>2. ASSUME NEW t PROVE Fits(k - 1, stack[k].edge, t) => Fits(k - 1, stack[k].edge, t)'
    <3> DEFINE e == stack[k].edge
    <3>1. Fits(k - 1, stack[k].edge, t) <=> Fits(k - 1, e, t) OBVIOUS
    <3>2. /\ VerticesOf(source, e)' = VerticesOf(source, e)
          /\ VerticesOf(target, t)' = VerticesOf(target, t)
      BY <1>5, <1>6 DEF VerticesOf
    <3> QED BY <1>3, <1>5, <1>6, <2>1, <3>2 DEF Fits
  <2> QED BY <1>3, <1>5, <2>2 DEF CallIsOpen
<1>8. CallIsRight(k) => CallIsRight(k)'
  <2> DEFINE e == stack[k].edge
  <2>1. k >= 1 BY <1>1
  <2>2. Level(k) = Level(k - 1) \cup Range(VerticesOf(source, e)) \cup {e}
    BY <1>2, <2>1, NextLevel
  <2>3. e \in Level(m) /\ Range(VerticesOf(source, e)) \subseteq Level(m) BY <1>4, <2>2
  <2>4. currentMapping'[e] = currentMapping[e] BY <2>3
  <2>5. \A i \in DOMAIN VerticesOf(source, e) :
          currentMapping'[VerticesOf(source, e)[i]] = currentMapping[VerticesOf(source, e)[i]]
    BY <2>3 DEF Range
  <2>6. {currentMapping'[x] : x \in Level(k) \ Level(k - 1)} =
        {currentMapping[x] : x \in Level(k) \ Level(k - 1)}
    BY <1>4
  <2>7. VerticesOf(source', e) = VerticesOf(source, e)
        /\ VerticesOf(target', currentMapping[e]) = VerticesOf(target, currentMapping[e])
    BY <1>6
  <2>8. stack'[k].edge = e BY <1>5
  <2> DEFINE Right(t, cur, src, tar, up) ==
        /\ t \in DOMAIN target.edges
        /\ source.edges[e].label = target.edges[t].label
        /\ \A i \in DOMAIN src : cur[src[i]] = tar[i]
        /\ stack[k].mappingDiff = Level(k) \ Level(k - 1)
        /\ input.injective => stack[k].revDiff = up
        /\ stack[k].mappableDiff = NextTo(k) \ NextTo(k - 1)
  <2>9. CallIsRight(k) <=>
          Right(currentMapping[e], currentMapping, VerticesOf(source, e),
                VerticesOf(target, currentMapping[e]),
                {currentMapping[x] : x \in Level(k) \ Level(k - 1)})
    BY DEF CallIsRight
  <2>10. CallIsRight(k)' <=>
          Right(currentMapping'[e], currentMapping', VerticesOf(source, e),
                VerticesOf(target, currentMapping'[e]),
                {currentMapping'[x] : x \in Level(k) \ Level(k - 1)})
    BY <1>3, <1>5, <1>6, <2>8 DEF CallIsRight
  <2> QED BY <2>4, <2>5, <2>6, <2>9, <2>10
<1> QED BY <1>7, <1>8

-----------------------------------------------------------------------------
(* Calls *)

\* No two calls are for one edge, so the calls count the mapped edges.
LEMMA CallsCountEdges ==
  ASSUME SearchTypeOK, \A k \in 1 .. Len(stack) : CallIsOpen(k)
  PROVE  /\ Mapped(Len(stack)) \subseteq DOMAIN source.edges
         /\ Cardinality(Mapped(Len(stack))) = Len(stack)
         /\ EdgesToGo > 0 => Mapped(Len(stack)) # DOMAIN source.edges
         /\ EdgesToGo = 0 => Mapped(Len(stack)) = DOMAIN source.edges
<1> DEFINE n == Len(stack)
           edgeOf == [i \in 1 .. n |-> stack[i].edge]
<1>1. n \in Nat BY LenProperties DEF SearchTypeOK
<1>2. n \in 0 .. Len(stack) BY <1>1
<1>3. Mapped(n) \subseteq DOMAIN source.edges BY <1>2, LevelFacts
<1>4. \A i, j \in 1 .. n : i < j => edgeOf[i] # edgeOf[j]
  <2> SUFFICES ASSUME NEW i \in 1 .. n, NEW j \in 1 .. n, i < j PROVE edgeOf[i] # edgeOf[j]
    OBVIOUS
  <2>1. i \in 1 .. j - 1 BY <1>1
  <2>2. stack[i].edge \in Mapped(j - 1) BY <2>1 DEF Mapped
  <2>3. stack[j].edge \notin Mapped(j - 1) BY DEF CallIsOpen
  <2> QED BY <2>2, <2>3
<1>5. \A i, j \in 1 .. n : edgeOf[i] = edgeOf[j] => i = j
  <2> SUFFICES ASSUME NEW i \in 1 .. n, NEW j \in 1 .. n, i # j PROVE edgeOf[i] # edgeOf[j]
    OBVIOUS
  <2> HIDE DEF edgeOf
  <2>1. i < j \/ j < i BY <1>1
  <2> QED BY <1>4, <2>1
<1>6. edgeOf \in [1 .. n -> Mapped(n)] /\ \A e \in Mapped(n) : \E i \in 1 .. n : edgeOf[i] = e
  BY DEF Mapped
<1>7. edgeOf \in Bijection(1 .. n, Mapped(n))
  BY <1>5, <1>6 DEF Bijection, Injection, Surjection, IsInjective
<1>8. Cardinality(Mapped(n)) = n BY <1>1, <1>7, FS_CountingElements DEF ExistsBijection
<1>9. IsFiniteSet(DOMAIN source.edges) /\ Cardinality(DOMAIN source.edges) \in Nat
  BY InputFacts, FS_CardinalityType DEF SearchTypeOK, IsGraph
<1>10. Cardinality(DOMAIN source.edges) = Cardinality(Mapped(n)) => Mapped(n) = DOMAIN source.edges
  BY <1>3, <1>9, FS_Subset
<1> QED BY <1>1, <1>3, <1>8, <1>9, <1>10 DEF EdgesToGo

\* An entry point is an unmapped edge.
LEMMA EntryPointIsUnmapped ==
  ASSUME SearchTypeOK, DOMAIN source.edges \ DOMAIN currentMapping # {}
  PROVE  EntryPoint \in DOMAIN source.edges \ DOMAIN currentMapping
<1> DEFINE unmapped == DOMAIN source.edges \ DOMAIN currentMapping
           arity == [e \in unmapped |-> Len(VerticesOf(source, e))]
           widest == {e \in unmapped : \A f \in unmapped :
                        Len(VerticesOf(source, f)) <= Len(VerticesOf(source, e))}
<1>1. /\ IsFiniteSet(DOMAIN source.edges) /\ DOMAIN source.edges \subseteq Nat
      /\ \A e \in DOMAIN source.edges : Len(VerticesOf(source, e)) \in Nat
  BY InputFacts, LenProperties DEF SearchTypeOK, IsGraph
<1>2. IsFiniteSet(unmapped) BY <1>1, FS_Subset
<1>3. arity \in [unmapped -> Nat] BY <1>1
<1>4. PICK x \in unmapped : \A y \in unmapped : arity[y] <= arity[x]
  <2> HIDE DEF unmapped, arity
  <2> SUFFICES unmapped # {}
    BY <1>2, <1>3, GreatestValue
  <2> QED BY DEF unmapped
<1>5. x \in widest BY <1>4
<1>6. widest \subseteq Nat /\ widest # {} BY <1>1, <1>5
<1>7. Min(widest) \in widest
  <2> HIDE DEF widest
  <2> QED BY <1>6, MinIsElement
<1> QED BY <1>7 DEF EntryPoint

\* What isMapPossible accepts fits, next to everything that is mapped.
LEMMA PossibleFits ==
  ASSUME SearchInv, phase = "call", NEW e \in DOMAIN source.edges, NEW t \in DOMAIN target.edges,
         IsMapPossible(e, t)
  PROVE  Fits(Len(stack), e, t)
<1> DEFINE src == VerticesOf(source, e)
           tar == VerticesOf(target, t)
           n == Len(stack)
<1>1. /\ DOMAIN currentMapping = Level(n)
      /\ input.injective => ReverseIsRight
  BY DEF SearchInv, Running, Depth
<1>2. /\ source.edges[e].label = target.edges[t].label /\ Len(src) = Len(tar)
      /\ src \in Seq(source.vertices) /\ DOMAIN src = 1 .. Len(src) /\ Len(src) \in Nat
  BY InputFacts, LenProperties DEF IsMapPossible, SearchInv, SearchTypeOK
<1>3. \A i \in DOMAIN src :
        /\ src[i] \in DOMAIN currentMapping => currentMapping[src[i]] = tar[i]
        /\ input.injective /\ tar[i] \in DOMAIN revCurrentMapping =>
             revCurrentMapping[tar[i]] = src[i]
        /\ \A j \in 1 .. i - 1 : src[j] = src[i] => tar[j] = tar[i]
  BY <1>2 DEF IsMapPossible
<1>4. \A i, j \in DOMAIN src : src[i] = src[j] => tar[i] = tar[j]
  <2> SUFFICES ASSUME NEW i \in DOMAIN src, NEW j \in DOMAIN src, src[i] = src[j]
               PROVE  tar[i] = tar[j]
    OBVIOUS
  <2> HIDE DEF src, tar
  <2>1. i \in 1 .. j - 1 \/ i = j \/ j \in 1 .. i - 1 BY <1>2
  <2> QED BY <1>3, <2>1
<1>5. ASSUME input.injective, NEW x \in Level(n)
      PROVE  /\ currentMapping[x] # t
             /\ \A i \in DOMAIN src : src[i] \notin Level(n) => currentMapping[x] # tar[i]
  <2>1. currentMapping[x] \in DOMAIN revCurrentMapping
    BY <1>1, <1>5 DEF ReverseIsRight, Range
  <2>2. t \notin DOMAIN revCurrentMapping BY <1>5 DEF IsMapPossible
  <2>3. \A i \in DOMAIN src : tar[i] \in DOMAIN revCurrentMapping => src[i] \in Level(n)
    BY <1>1, <1>3, <1>5 DEF ReverseIsRight
  <2> QED BY <2>1, <2>2, <2>3
<1> QED BY <1>1, <1>2, <1>3, <1>4, <1>5 DEF Fits

\* A new call goes on top.
LEMMA CallOnKeeps ==
  ASSUME SearchInv, phase = "call", NEW e \in DOMAIN source.edges \ Mapped(Len(stack)),
         NEW candidates \in SUBSET DOMAIN target.edges, CallOn(e, candidates)
  PROVE  SearchInv'
<1>0. PICK n : n = Len(stack) OBVIOUS
<1> DEFINE fr == [edge |-> e, possibleTargets |-> {t \in candidates : IsMapPossible(e, t)},
                  mappableEdgeDeleted |-> e \in mappableEdges,
                  mappingDiff |-> {}, revDiff |-> {}, mappableDiff |-> {}]
<1>1. /\ stack' = Append(stack, fr) /\ mappableEdges' = mappableEdges \ {e} /\ phase' = "loop"
      /\ UNCHANGED <<input, currentMapping, revCurrentMapping, foundMappings>>
  BY DEF CallOn
<1>2. /\ SearchTypeOK /\ stack \in Seq(Frames) /\ n \in Nat
      /\ DOMAIN currentMapping = Level(n) /\ mappableEdges = NextTo(n)
      /\ input.injective => ReverseIsRight /\ ImagesAreOfOneCall
      /\ \A k \in 1 .. n : CallIsOpen(k) /\ CallIsRight(k)
  BY <1>0, LenProperties DEF SearchInv, SearchTypeOK, Running, Depth, NextTo
<1>3. fr \in Frames BY DEF Frames
<1> HIDE DEF fr
<1>4. /\ stack' \in Seq(Frames) /\ Len(stack') = n + 1 /\ stack'[n + 1] = fr
      /\ \A i \in 1 .. n : stack'[i] = stack[i]
  BY <1>0, <1>1, <1>2, <1>3, AppendProperties
<1>5. Depth' = n BY <1>1, <1>2, <1>4 DEF Depth
<1>6. \A k \in 0 .. n : Mapped(k)' = Mapped(k) /\ Level(k)' = Level(k) /\ NextTo(k)' = NextTo(k)
  BY <1>1, <1>2, <1>4, LevelsAreKept
<1>7. \A k \in 1 .. n : CallIsOpen(k)' /\ CallIsRight(k)'
  <2>1. n \in 0 .. Len(stack) BY <1>0, <1>2
  <2> QED BY <1>1, <1>2, <1>4, <2>1, CallsAreKept
<1>8. CallIsOpen(n + 1)'
  <2>1. (n + 1) - 1 = n /\ n \in 0 .. n /\ n \in 0 .. Len(stack) BY <1>0, <1>2
  <2>2. stack'[n + 1].edge = e /\ e \notin Mapped(n)' BY <1>0, <1>4, <1>6, <2>1 DEF fr
  <2>3. stack'[n + 1].mappableEdgeDeleted <=> e \in NextTo(n)'
    <3>1. fr.mappableEdgeDeleted = (e \in mappableEdges) BY DEF fr
    <3>2. NextTo(n)' = mappableEdges BY <1>2, <1>6, <2>1
    <3> QED BY <1>4, <3>1, <3>2
  <2>4. ASSUME NEW t \in stack'[n + 1].possibleTargets PROVE Fits(n, e, t)'
    <3>1. t \in DOMAIN target.edges /\ IsMapPossible(e, t) BY <1>4, <2>4 DEF fr
    <3>2. Fits(n, e, t) BY <1>0, <3>1, PossibleFits
    <3> QED BY <1>1, <1>2, <1>6, <2>1, <3>2, FitsIsKept
  <2> QED BY <2>1, <2>2, <2>3, <2>4 DEF CallIsOpen
<1>9. SearchTypeOK'
  <2>1. stack' # <<>> BY <1>4, <1>2, EmptySeq
  <2>2. Frames' = Frames /\ source' = source /\ target' = target
        /\ Elements(source)' = Elements(source) /\ Elements(target)' = Elements(target)
    BY <1>1 DEF Frames, source, target, Elements
  <2> QED BY <1>1, <1>2, <1>4, <2>1, <2>2 DEF SearchTypeOK, Running
<1>10. mappableEdges' = NextTo(n)' \ Mapped(n + 1)'
  <2>1. Mapped(n + 1)' = Mapped(n)' \cup {e}
    <3>1. 1 .. n + 1 = (1 .. n) \cup {n + 1} BY <1>2
    <3>2. stack'[n + 1].edge = e BY <1>4 DEF fr
    <3> QED BY <3>1, <3>2 DEF Mapped
  <2>2. NextTo(n)' = NextTo(n) /\ Mapped(n)' = Mapped(n) /\ n \in 0 .. n BY <1>2, <1>6
  <2> QED BY <1>1, <1>2, <2>1, <2>2 DEF NextTo
<1>11. \A k \in 1 .. n + 1 : CallIsOpen(k)'
  <2>1. \A k \in 1 .. n + 1 : k \in 1 .. n \/ k = n + 1 BY <1>2
  <2> QED BY <1>7, <1>8, <2>1
<1>12. input.injective' => ReverseIsRight' /\ ImagesAreOfOneCall'
  <2>1. Depth = n /\ \A k \in 1 .. n : k \in 0 .. n BY <1>0, <1>2 DEF Depth
  <2> QED BY <1>1, <1>2, <1>5, <1>6, <2>1 DEF ReverseIsRight, ImagesAreOfOneCall
<1>13. DOMAIN currentMapping' = Level(n)'
  <2>1. n \in 0 .. n BY <1>2
  <2> QED BY <1>1, <1>2, <1>6, <2>1
<1> QED BY <1>4, <1>5, <1>7, <1>9, <1>10, <1>11, <1>12, <1>13 DEF SearchInv

\* There is an edge to call on as long as there are edges to go.
LEMMA ChooseEdgeKeeps == ASSUME SearchInv, ChooseEdge PROVE SearchInv'
<1> DEFINE n == Len(stack)
<1>1. phase = "call" /\ EdgesToGo > 0 BY DEF ChooseEdge
<1>2. /\ SearchTypeOK /\ n \in 0 .. n
      /\ DOMAIN currentMapping = Level(n) /\ mappableEdges = NextTo(n)
      /\ \A k \in 1 .. n : CallIsOpen(k)
  BY <1>1, LenProperties DEF SearchInv, SearchTypeOK, Running, Depth, NextTo
<1>3. CASE mappableEdges = {}
  <2>1. Mapped(n) \subseteq DOMAIN source.edges /\ Mapped(n) # DOMAIN source.edges
    BY <1>1, <1>2, CallsCountEdges
  <2>2. DOMAIN source.edges \ DOMAIN currentMapping # {}
    BY <1>2, <2>1, LevelFacts, InputFacts DEF Level, SearchTypeOK
  <2>3. EntryPoint \in DOMAIN source.edges \ Mapped(n)
    BY <1>2, <2>2, EntryPointIsUnmapped DEF Level
  <2>4. CallOn(EntryPoint, DOMAIN target.edges) BY <1>3 DEF ChooseEdge
  <2> QED BY <1>1, <2>3, <2>4, CallOnKeeps
<1>4. CASE mappableEdges # {}
  <2>1. PICK e \in mappableEdges : CallOn(e, Candidates(e)) BY <1>4 DEF ChooseEdge
  <2>2. e \in DOMAIN source.edges \ Mapped(n) BY <1>2, <2>1, LevelFacts DEF NextTo
  <2>3. Candidates(e) \in SUBSET DOMAIN target.edges BY DEF Candidates, ConnectedEdges
  <2> QED BY <1>1, <2>1, <2>2, <2>3, CallOnKeeps
<1> QED BY <1>3, <1>4

\* Where a fitting edge sends each of its vertices.
LEMMA ImageFacts ==
  ASSUME SearchTypeOK, NEW e \in DOMAIN source.edges, NEW t \in DOMAIN target.edges,
         source.edges[e].label = target.edges[t].label,
         \A i, j \in DOMAIN VerticesOf(source, e) :
           VerticesOf(source, e)[i] = VerticesOf(source, e)[j] =>
             VerticesOf(target, t)[i] = VerticesOf(target, t)[j],
         NEW i \in DOMAIN VerticesOf(source, e)
  PROVE  /\ ImageAt(e, t, VerticesOf(source, e)[i]) = VerticesOf(target, t)[i]
         /\ VerticesOf(target, t)[i] \in target.vertices
         /\ VerticesOf(source, e)[i] \in source.vertices
<1> DEFINE src == VerticesOf(source, e)
           tar == VerticesOf(target, t)
           places == {j \in DOMAIN src : src[j] = src[i]}
<1>1. /\ src \in Seq(source.vertices) /\ tar \in Seq(target.vertices)
      /\ Len(src) = Len(tar) /\ Len(src) \in Nat
      /\ DOMAIN src = 1 .. Len(src) /\ DOMAIN tar = 1 .. Len(tar)
  BY InputFacts, LenProperties DEF SearchTypeOK
<1>2. places \subseteq Nat /\ places # {} BY <1>1
<1>3. Min(places) \in places
  <2> HIDE DEF places
  <2> QED BY <1>2, MinIsElement
<1>4. tar[Min(places)] = tar[i] BY <1>3
<1>5. tar[i] \in target.vertices /\ src[i] \in source.vertices BY <1>1, ElementOfSeq
<1> QED BY <1>4, <1>5 DEF ImageAt

\* Every vertex of an edge has a first place.
LEMMA FirstPlacesFacts ==
  ASSUME NEW src, Len(src) \in Nat, DOMAIN src = 1 .. Len(src)
  PROVE  /\ FirstPlaces(src) \subseteq DOMAIN src
         /\ \A x \in Range(src) : \E i \in FirstPlaces(src) : src[i] = x
<1>1. FirstPlaces(src) \subseteq DOMAIN src BY DEF FirstPlaces
<1>2. ASSUME NEW k \in DOMAIN src PROVE \E i \in FirstPlaces(src) : src[i] = src[k]
  <2>1. PICK places : places = {i \in DOMAIN src : src[i] = src[k]} OBVIOUS
  <2>2. PICK i \in places : \A j \in places : i <= j BY <2>1, LeastNatural
  <2>3. \A j \in 1 .. i - 1 : j \in DOMAIN src /\ j \notin places BY <2>1, <2>2
  <2> QED BY <2>1, <2>2, <2>3 DEF FirstPlaces
<1> QED BY <1>1, <1>2 DEF Range

\* The innermost call maps its edge and notes what it adds.
LEMMA MapToKeeps ==
  ASSUME SearchInv, phase = "loop", NEW t \in Frame.possibleTargets,
         NEW rest \in SUBSET Frame.possibleTargets, MapTo(t, rest)
  PROVE  SearchInv'
<1>1. PICK n, e : n = Len(stack) /\ e = Frame.edge OBVIOUS
<1> DEFINE src == VerticesOf(source, e)
           tar == VerticesOf(target, t)
           new == Range(src) \ DOMAIN currentMapping
           image == [x \in new \cup {e} |-> IF x = e THEN t ELSE ImageAt(e, t, x)]
           reverse == [y \in Range(image) |->
             IF y = t THEN e
             ELSE src[Max({i \in FirstPlaces(src) : src[i] \in new /\ image[src[i]] = y})]]
           nextTo == (UNION {ConnectedEdges(source, v) : v \in new})
                       \ (DOMAIN currentMapping \cup {e} \cup mappableEdges)
<1>2. /\ currentMapping' = With(currentMapping, image)
      /\ revCurrentMapping' =
           IF input.injective THEN With(revCurrentMapping, reverse) ELSE revCurrentMapping
      /\ mappableEdges' = mappableEdges \cup nextTo
      /\ stack' = [stack EXCEPT ![Len(stack)] =
           [@ EXCEPT !.possibleTargets = rest, !.mappingDiff = DOMAIN image,
                     !.revDiff = IF input.injective THEN Range(image) ELSE {},
                     !.mappableDiff = nextTo]]
      /\ phase' = "call" /\ UNCHANGED <<input, foundMappings>>
  BY <1>1 DEF MapTo
<1>3. /\ SearchTypeOK /\ stack \in Seq(Frames) /\ stack # <<>> /\ n \in Nat \ {0}
      /\ DOMAIN stack = 1 .. n
      /\ DOMAIN currentMapping = Level(n - 1) /\ mappableEdges = NextTo(n - 1) \ Mapped(n)
      /\ input.injective => ReverseIsRight /\ ImagesAreOfOneCall
      /\ \A k \in 1 .. n : CallIsOpen(k)
      /\ \A k \in 1 .. n - 1 : CallIsRight(k)
  <2>1. SearchTypeOK /\ stack \in Seq(Frames) /\ stack # <<>> BY DEF SearchInv, SearchTypeOK
  <2>2. n \in Nat \ {0} /\ DOMAIN stack = 1 .. n BY <1>1, <2>1, LenProperties, EmptySeq
  <2>3. Depth = n - 1 /\ Running BY <1>1 DEF Depth, Running
  <2> QED BY <1>1, <2>1, <2>2, <2>3 DEF SearchInv
<1>4. /\ Frame = stack[n] /\ stack[n] \in Frames /\ e \in DOMAIN source.edges
      /\ e = stack[n].edge /\ t \in DOMAIN target.edges /\ Fits(n - 1, e, t)
      /\ rest \subseteq stack[n].possibleTargets
      /\ e \notin Mapped(n - 1)
  <2>1. Frame = stack[n] BY <1>1 DEF Frame, Last
  <2>2. stack[n] \in Frames /\ n \in 1 .. n BY <1>1, <1>3, ElementOfSeq
  <2>3. CallIsOpen(n) BY <1>3, <2>2
  <2> QED BY <1>1, <2>1, <2>2, <2>3 DEF CallIsOpen, Frames
<1>5. \A i \in DOMAIN src : /\ ImageAt(e, t, src[i]) = tar[i]
                            /\ tar[i] \in target.vertices /\ src[i] \in source.vertices
  <2> HIDE DEF new, image, reverse, nextTo
  <2> SUFFICES ASSUME NEW i \in DOMAIN VerticesOf(source, e)
               PROVE  /\ ImageAt(e, t, VerticesOf(source, e)[i]) = VerticesOf(target, t)[i]
                      /\ VerticesOf(target, t)[i] \in target.vertices
                      /\ VerticesOf(source, e)[i] \in source.vertices
    OBVIOUS
  <2>1. /\ source.edges[e].label = target.edges[t].label
        /\ \A k, j \in DOMAIN VerticesOf(source, e) :
             VerticesOf(source, e)[k] = VerticesOf(source, e)[j] =>
               VerticesOf(target, t)[k] = VerticesOf(target, t)[j]
    BY <1>4 DEF Fits
  <2> HIDE DEF src, tar
  <2> QED BY <1>3, <1>4, <2>1, ImageFacts
<1>6. /\ e \notin source.vertices /\ t \notin target.vertices
      /\ Mapped(n - 1) \subseteq DOMAIN source.edges /\ Nodes(n - 1) \subseteq source.vertices
      /\ \A f \in DOMAIN source.edges : f \notin source.vertices
      /\ e \notin Level(n - 1)
  <2>1. n - 1 \in 0 .. Len(stack) BY <1>1, <1>3
  <2>2. /\ e \notin source.vertices /\ t \notin target.vertices
        /\ \A f \in DOMAIN source.edges : f \notin source.vertices
    BY <1>3, <1>4, InputFacts DEF SearchTypeOK
  <2>3. Mapped(n - 1) \subseteq DOMAIN source.edges /\ Nodes(n - 1) \subseteq source.vertices
    BY <1>3, <2>1, LevelFacts
  <2> QED BY <1>4, <2>2, <2>3 DEF Level
<1>7. /\ DOMAIN image = new \cup {e} /\ image[e] = t
      /\ \A i \in DOMAIN src : src[i] \in new => image[src[i]] = tar[i]
      /\ \A x \in new : \E i \in DOMAIN src : src[i] = x /\ image[x] = tar[i]
  <2>1. \A i \in DOMAIN src : src[i] # e BY <1>5, <1>6
  <2> HIDE DEF src, tar
  <2>2. \A i \in DOMAIN src : src[i] \in new => image[src[i]] = tar[i] BY <1>5, <2>1
  <2>3. \A x \in new : \E i \in DOMAIN src : src[i] = x BY DEF Range
  <2> QED BY <2>2, <2>3
<1>8. /\ DOMAIN reverse = Range(image)
      /\ \A y \in Range(image) : reverse[y] \in new \cup {e} /\ image[reverse[y]] = y
  <2>1. DOMAIN reverse = Range(image) OBVIOUS
  <2>2. ASSUME NEW y \in Range(image) PROVE reverse[y] \in new \cup {e} /\ image[reverse[y]] = y
    <3> DEFINE places == {i \in FirstPlaces(src) : src[i] \in new /\ image[src[i]] = y}
    <3>1. CASE y = t BY <1>7, <3>1
    <3>2. CASE y # t
      <4>1. Len(src) \in Nat /\ DOMAIN src = 1 .. Len(src)
        BY <1>3, <1>4, InputFacts, LenProperties DEF SearchTypeOK
      <4>2. PICK x \in new : image[x] = y BY <1>7, <3>2 DEF Range
      <4>3. FirstPlaces(src) \subseteq DOMAIN src /\ \E i \in FirstPlaces(src) : src[i] = x
        BY <4>1, FirstPlacesFacts
      <4>4. places \subseteq 1 .. Len(src) /\ places # {} BY <4>1, <4>2, <4>3
      <4>5. Max(places) \in places
        <5> HIDE DEF places
        <5> QED BY <4>1, <4>4, MaxIsElement
      <4>6. reverse[y] = src[Max(places)] BY <3>2
      <4> HIDE DEF reverse
      <4> QED BY <4>5, <4>6
    <3> QED BY <3>1, <3>2
  <2> QED BY <2>1, <2>2
<1>9. /\ \A k \in 0 .. n : Mapped(k)' = Mapped(k) /\ Level(k)' = Level(k) /\ NextTo(k)' = NextTo(k)
      /\ Mapped(n) = Mapped(n - 1) \cup {e}
      /\ Level(n) = Level(n - 1) \cup Range(src) \cup {e}
      /\ NextTo(n) = (NextTo(n - 1) \cup UNION {ConnectedEdges(source, v) : v \in Range(src)})
                       \ Mapped(n)
  <2>1. \A i \in 1 .. n : stack'[i].edge = stack[i].edge
    <3>1. \A i \in 1 .. n : i # n => stack'[i] = stack[i] BY <1>1, <1>2, <1>3
    <3>2. stack'[n].edge = stack[n].edge BY <1>1, <1>2, <1>3, <1>4 DEF Frames
    <3> QED BY <3>1, <3>2
  <2>2. \A k \in 0 .. n : k \in Int /\ k <= n BY <1>3
  <2>3. \A k \in 0 .. n : Mapped(k)' = Mapped(k) /\ Level(k)' = Level(k) /\ NextTo(k)' = NextTo(k)
    BY <1>2, <1>3, <2>1, <2>2, LevelsAreKept
  <2> QED BY <1>3, <1>4, <2>3, NextLevel
<1>10. /\ DOMAIN currentMapping' = Level(n)
       /\ Level(n) \ Level(n - 1) = DOMAIN image
       /\ \A x \in Level(n - 1) : currentMapping'[x] = currentMapping[x]
       /\ \A x \in DOMAIN image : currentMapping'[x] = image[x]
       /\ \A i \in DOMAIN src : currentMapping'[src[i]] = tar[i]
  <2> HIDE DEF image, src, tar, new, reverse, nextTo
  <2>1. DOMAIN currentMapping' = DOMAIN image \cup DOMAIN currentMapping BY <1>2, WithFacts
  <2>2. DOMAIN image \cap DOMAIN currentMapping = {} BY <1>3, <1>6, <1>7 DEF new
  <2>3. DOMAIN image \cup DOMAIN currentMapping = Level(n) BY <1>3, <1>7, <1>9 DEF new
  <2>4. \A x \in DOMAIN image : currentMapping'[x] = image[x] BY <1>2 DEF With
  <2>5. \A x \in DOMAIN currentMapping : currentMapping'[x] = currentMapping[x]
    BY <1>2, <2>2, WithFacts
  <2>6. ASSUME NEW i \in DOMAIN src PROVE currentMapping'[src[i]] = tar[i]
    <3>1. src[i] \in Range(src) BY DEF Range
    <3>2. CASE src[i] \in new BY <1>7, <2>4, <3>2
    <3>3. CASE src[i] \in Level(n - 1)
      <4>1. currentMapping[src[i]] = tar[i] BY <1>4, <3>3 DEF Fits, src, tar
      <4> QED BY <1>3, <2>5, <3>3, <4>1
    <3> QED BY <1>3, <3>1, <3>2, <3>3 DEF new
  <2>7. Level(n) \ Level(n - 1) = DOMAIN image BY <1>3, <1>6, <1>7, <1>9 DEF new
  <2> QED BY <1>3, <2>1, <2>3, <2>4, <2>5, <2>6, <2>7
<1>11. nextTo \subseteq DOMAIN source.edges BY DEF ConnectedEdges
<1>12. /\ DOMAIN image \subseteq Elements(source) /\ Range(image) \subseteq Elements(target)
       /\ \A x \in DOMAIN image : image[x] \in Elements(target)
  <2>1. \A i \in DOMAIN src : src[i] \in Elements(source) /\ tar[i] \in Elements(target)
    BY <1>5 DEF Elements
  <2>2. e \in Elements(source) /\ t \in Elements(target) BY <1>4 DEF Elements
  <2> HIDE DEF image, src, tar
  <2>3. \A x \in DOMAIN image : x \in Elements(source) /\ image[x] \in Elements(target)
    BY <1>7, <2>1, <2>2
  <2> QED BY <2>3 DEF Range
<1>13. /\ stack' \in Seq(Frames) /\ Len(stack') = n /\ stack' # <<>>
       /\ \A i \in 1 .. n - 1 : stack'[i] = stack[i]
       /\ stack'[n] = [stack[n] EXCEPT !.possibleTargets = rest, !.mappingDiff = DOMAIN image,
                     !.revDiff = IF input.injective THEN Range(image) ELSE {},
                     !.mappableDiff = nextTo]
  <2> HIDE DEF image, nextTo, src, tar, new
  <2> DEFINE fr == [stack[n] EXCEPT !.possibleTargets = rest, !.mappingDiff = DOMAIN image,
                     !.revDiff = IF input.injective THEN Range(image) ELSE {},
                     !.mappableDiff = nextTo]
  <2>1. fr \in Frames BY <1>4, <1>11, <1>12 DEF Frames
  <2>2. stack' = [stack EXCEPT ![n] = fr] BY <1>1, <1>2
  <2> HIDE DEF fr
  <2>3. stack' \in Seq(Frames) /\ Len(stack') = n BY <1>1, <1>3, <2>1, <2>2, ExceptSeq
  <2>4. stack'[n] = fr /\ \A i \in 1 .. n - 1 : stack'[i] = stack[i] BY <1>3, <2>2
  <2>5. stack' # <<>> BY <1>3, <2>3, EmptySeq
  <2> QED BY <2>3, <2>4, <2>5 DEF fr
<1> HIDE DEF image, reverse, nextTo, new
<1>14. \A k \in 1 .. n - 1 : CallIsOpen(k)' /\ CallIsRight(k)'
  <2>1. n - 1 \in 0 .. Len(stack) /\ \A k \in 1 .. n - 1 : k \in 1 .. n BY <1>1, <1>3
  <2> QED BY <1>2, <1>3, <1>10, <1>13, <2>1, CallsAreKept
<1>15. CallIsOpen(n)'
  <2>1. n \in 1 .. n /\ n - 1 \in 0 .. n /\ n - 1 \in 0 .. Len(stack) BY <1>1, <1>3
  <2>2. CallIsOpen(n) BY <1>3, <2>1
  <2>3. /\ stack'[n].edge = stack[n].edge /\ stack'[n].possibleTargets = rest
        /\ stack'[n].mappableEdgeDeleted = stack[n].mappableEdgeDeleted
    BY <1>4, <1>13 DEF Frames
  <2>4. ASSUME NEW u \in rest PROVE Fits(n - 1, e, u)'
    <3>1. Fits(n - 1, e, u) BY <1>4, <2>2, <2>4 DEF CallIsOpen
    <3> QED BY <1>2, <1>3, <1>9, <1>10, <2>1, <3>1, FitsIsKept
  <2> QED BY <1>4, <1>9, <2>1, <2>2, <2>3, <2>4 DEF CallIsOpen
<1>16. /\ mappableEdges' = NextTo(n) \ Mapped(n)
       /\ nextTo = NextTo(n) \ NextTo(n - 1)
  <2>1. ASSUME NEW f \in UNION {ConnectedEdges(source, v) : v \in Range(src)}, f \notin Mapped(n)
        PROVE  f \in NextTo(n - 1) \/ f \in UNION {ConnectedEdges(source, v) : v \in new}
    <3>1. PICK v \in Range(src) : f \in ConnectedEdges(source, v) BY <2>1
    <3>2. CASE v \in new BY <3>1, <3>2
    <3>3. CASE v \in DOMAIN currentMapping
      <4>1. v \in source.vertices BY <1>5 DEF Range
      <4>2. v \in Nodes(n - 1) BY <1>3, <1>6, <3>3, <4>1 DEF Level
      <4> QED BY <1>9, <2>1, <3>1, <4>2 DEF NextTo
    <3> QED BY <3>2, <3>3 DEF new
  <2>2. \A f \in UNION {ConnectedEdges(source, v) : v \in new} :
          f \in UNION {ConnectedEdges(source, v) : v \in Range(src)} /\ f \in DOMAIN source.edges
    BY DEF new, ConnectedEdges
  <2>3. \A f \in DOMAIN source.edges : f \in DOMAIN currentMapping <=> f \in Mapped(n - 1)
    BY <1>3, <1>6 DEF Level
  <2>4. NextTo(n - 1) \cap Mapped(n - 1) = {} BY DEF NextTo
  <2>5. nextTo = (UNION {ConnectedEdges(source, v) : v \in new}) \ (Mapped(n) \cup mappableEdges)
    BY <1>9, <2>2, <2>3 DEF nextTo
  <2>6. mappableEdges \cup nextTo = NextTo(n) \ Mapped(n) BY <1>3, <1>9, <2>1, <2>2, <2>5
  <2>7. nextTo = NextTo(n) \ NextTo(n - 1) BY <1>3, <1>9, <2>1, <2>2, <2>4, <2>5
  <2> QED BY <1>2, <2>6, <2>7
<1>17. CallIsRight(n)'
  <2>1. n \in 0 .. n /\ n - 1 \in 0 .. n BY <1>3
  <2>2. /\ stack'[n].edge = e /\ stack'[n].mappingDiff = DOMAIN image
        /\ input.injective => stack'[n].revDiff = Range(image)
        /\ stack'[n].mappableDiff = nextTo
    BY <1>4, <1>13 DEF Frames
  <2>3. Range(image) = {currentMapping'[x] : x \in Level(n) \ Level(n - 1)} BY <1>10 DEF Range
  <2>4. currentMapping'[e] = t /\ source.edges[e].label = target.edges[t].label
    BY <1>4, <1>7, <1>10 DEF Fits
  <2>5. source' = source /\ target' = target /\ VerticesOf(source', e) = src
        /\ VerticesOf(target', t) = tar
    BY <1>2 DEF source, target
  <2> HIDE DEF src, tar
  <2>6. \A i \in DOMAIN src : currentMapping'[src[i]] = tar[i] BY <1>10
  <2> QED BY <1>2, <1>4, <1>9, <1>10, <1>16, <2>1, <2>2, <2>3, <2>4, <2>5, <2>6 DEF CallIsRight
<1>18. input.injective => ReverseIsRight' /\ ImagesAreOfOneCall'
  <2> SUFFICES ASSUME input.injective PROVE ReverseIsRight' /\ ImagesAreOfOneCall'
    OBVIOUS
  <2>1. /\ DOMAIN revCurrentMapping' = Range(image) \cup DOMAIN revCurrentMapping
        /\ \A y \in Range(image) : revCurrentMapping'[y] = reverse[y]
        /\ \A y \in DOMAIN revCurrentMapping \ Range(image) :
             revCurrentMapping'[y] = revCurrentMapping[y]
    <3>1. revCurrentMapping' = With(revCurrentMapping, reverse) BY <1>2
    <3> QED BY <1>8, <3>1 DEF With
  <2>2. Level(n) = DOMAIN image \cup Level(n - 1)  BY <1>3, <1>7, <1>9 DEF new
  <2>3. Range(currentMapping') = Range(image) \cup Range(currentMapping)
    BY <1>3, <1>10, <2>2 DEF Range
  <2>4. \A y \in DOMAIN revCurrentMapping' :
          revCurrentMapping'[y] \in DOMAIN currentMapping' /\ currentMapping'[revCurrentMapping'[y]] = y
    <3> SUFFICES ASSUME NEW y \in DOMAIN revCurrentMapping'
                 PROVE  /\ revCurrentMapping'[y] \in DOMAIN currentMapping'
                        /\ currentMapping'[revCurrentMapping'[y]] = y
      OBVIOUS
    <3>1. CASE y \in Range(image) BY <1>7, <1>8, <1>10, <2>1, <2>2, <3>1
    <3>2. CASE y \in DOMAIN revCurrentMapping \ Range(image)
      <4>1. revCurrentMapping[y] \in Level(n - 1) /\ currentMapping[revCurrentMapping[y]] = y
        BY <1>3, <3>2 DEF ReverseIsRight
      <4> QED BY <1>10, <2>1, <2>2, <3>2, <4>1
    <3> QED BY <2>1, <3>1, <3>2
  <2>5. ASSUME NEW x \in DOMAIN image, NEW z \in Level(n - 1) PROVE image[x] # currentMapping[z]
    <3>1. CASE x = e BY <1>4, <1>7, <3>1 DEF Fits
    <3>2. CASE x # e
      <4>1. PICK i \in DOMAIN src : src[i] = x /\ image[x] = tar[i] BY <1>7, <3>2
      <4>2. src[i] \notin Level(n - 1) BY <1>10, <4>1
      <4> QED BY <1>4, <4>1, <4>2 DEF Fits
    <3> QED BY <3>1, <3>2
  <2>6. ASSUME NEW x \in Level(n), NEW z \in Level(n), currentMapping'[x] = currentMapping'[z],
               NEW k \in 1 .. n, x \in Level(k)
        PROVE  z \in Level(k)
    <3>1. CASE k = n BY <3>1
    <3>2. CASE k # n
      <4>1. k \in 1 .. n - 1 /\ k \in 0 .. n - 1 BY <1>3, <3>2
      <4>2. Level(k) \subseteq Level(n - 1)
        <5>1. n - 1 \in 0 .. Len(stack) BY <1>1, <1>3
        <5> QED BY <1>3, <4>1, <5>1, LevelFacts
      <4>3. z \in Level(n - 1) BY <1>10, <2>2, <2>5, <2>6, <4>2
      <4>4. Depth = n - 1 BY <1>1 DEF Depth
      <4> QED BY <1>3, <1>10, <2>6, <4>1, <4>2, <4>3, <4>4 DEF ImagesAreOfOneCall
    <3> QED BY <3>1, <3>2
  <2>7. Depth' = n /\ \A k \in 1 .. n : k \in 0 .. n BY <1>2, <1>13 DEF Depth
  <2>8. ImagesAreOfOneCall' BY <1>9, <1>10, <2>6, <2>7 DEF ImagesAreOfOneCall
  <2>9. ReverseIsRight' BY <1>3, <2>1, <2>3, <2>4 DEF ReverseIsRight
  <2> QED BY <2>8, <2>9
<1>19. SearchTypeOK'
  <2>1. Frames' = Frames /\ source' = source /\ target' = target
        /\ Elements(source)' = Elements(source) /\ Elements(target)' = Elements(target)
    BY <1>2 DEF Frames, source, target, Elements
  <2>2. currentMapping' \in [DOMAIN currentMapping' -> Elements(target)]
        /\ DOMAIN currentMapping' \subseteq Elements(source)
    <3>1. currentMapping' = [x \in DOMAIN image \cup DOMAIN currentMapping |->
             IF x \in DOMAIN image THEN image[x] ELSE currentMapping[x]]
      BY <1>2 DEF With
    <3>2. \A x \in DOMAIN currentMapping : currentMapping[x] \in Elements(target)
                                            /\ x \in Elements(source)
      BY <1>3 DEF SearchTypeOK
    <3> QED BY <1>12, <3>1, <3>2
  <2> QED BY <1>2, <1>3, <1>13, <2>1, <2>2 DEF SearchTypeOK, Running
<1>20. Depth' = n /\ n \in 0 .. n /\ \A k \in 1 .. n : k \in 1 .. n - 1 \/ k = n
  BY <1>2, <1>3, <1>13 DEF Depth
<1>21. /\ DOMAIN currentMapping' = Level(n)' /\ mappableEdges' = NextTo(n)' \ Mapped(n)'
       /\ \A k \in 1 .. n : CallIsOpen(k)' /\ CallIsRight(k)'
       /\ input.injective' = input.injective
  BY <1>2, <1>9, <1>10, <1>14, <1>15, <1>16, <1>17, <1>20
<1> QED BY <1>13, <1>18, <1>19, <1>20, <1>21 DEF SearchInv

\* What a call has noted is what it takes back.
LEMMA UndoKeeps == ASSUME SearchInv, Undo PROVE SearchInv'
<1>1. PICK n : n = Len(stack) OBVIOUS
<1>2. /\ phase = "return" /\ phase' = "loop"
      /\ currentMapping' = Without(currentMapping, Frame.mappingDiff)
      /\ revCurrentMapping' = Without(revCurrentMapping, Frame.revDiff)
      /\ mappableEdges' = mappableEdges \ Frame.mappableDiff
      /\ UNCHANGED <<input, stack, foundMappings>>
  BY DEF Undo
<1>3. /\ SearchTypeOK /\ stack \in Seq(Frames) /\ stack # <<>> /\ n \in Nat \ {0}
      /\ DOMAIN currentMapping = Level(n) /\ mappableEdges = NextTo(n)
      /\ input.injective => ReverseIsRight /\ ImagesAreOfOneCall
      /\ \A k \in 1 .. n : CallIsOpen(k) /\ CallIsRight(k)
  <2>1. SearchTypeOK /\ stack \in Seq(Frames) /\ stack # <<>>
    BY <1>2 DEF SearchInv, SearchTypeOK
  <2>2. n \in Nat \ {0} BY <1>1, <2>1, LenProperties, EmptySeq
  <2>3. Depth = n /\ Running BY <1>1, <1>2 DEF Depth, Running
  <2>4. NextTo(n) \ Mapped(n) = NextTo(n) BY DEF NextTo
  <2> QED BY <1>1, <2>1, <2>2, <2>3, <2>4 DEF SearchInv
<1>4. Frame = stack[n] /\ n \in 1 .. n /\ n \in 0 .. Len(stack) /\ n - 1 \in 0 .. n
      /\ n - 1 \in 0 .. Len(stack)
  BY <1>1, <1>3 DEF Frame, Last
<1>5. /\ Frame.mappingDiff = Level(n) \ Level(n - 1)
      /\ input.injective =>
           Frame.revDiff = {currentMapping[x] : x \in Level(n) \ Level(n - 1)}
      /\ Frame.mappableDiff = NextTo(n) \ NextTo(n - 1)
  BY <1>3, <1>4 DEF CallIsRight
<1>6. /\ Level(n - 1) \subseteq Level(n)
      /\ \A k \in 1 .. n - 1 : Level(k) \subseteq Level(n - 1)
  <2>1. \A k \in 1 .. n - 1 : k \in 0 .. n - 1 BY <1>3
  <2> QED BY <1>3, <1>4, <2>1, LevelFacts
<1>7. /\ DOMAIN currentMapping' = Level(n - 1)
      /\ \A x \in Level(n - 1) : currentMapping'[x] = currentMapping[x]
  BY <1>2, <1>3, <1>5, <1>6 DEF Without, Restrict
<1>8. \A k \in 0 .. n : Mapped(k)' = Mapped(k) /\ Level(k)' = Level(k) /\ NextTo(k)' = NextTo(k)
  <2>1. \A k \in 0 .. n : k \in Int /\ k <= n BY <1>3
  <2> QED BY <1>2, <1>3, <2>1, LevelsAreKept
<1>9. mappableEdges' = NextTo(n - 1) \ Mapped(n)
  <2>1. NextTo(n) \cap NextTo(n - 1) = NextTo(n - 1) \ Mapped(n) BY <1>3, NextLevel
  <2> QED BY <1>2, <1>3, <1>5, <2>1
<1>10. \A k \in 1 .. n - 1 : CallIsOpen(k)' /\ CallIsRight(k)'
  <2>1. \A k \in 1 .. n - 1 : k \in 1 .. n BY <1>3
  <2> QED BY <1>2, <1>3, <1>4, <1>7, <2>1, CallsAreKept
<1>11. CallIsOpen(n)'
  <2>1. CallIsOpen(n) BY <1>3, <1>4
  <2>2. PICK e : e = stack[n].edge OBVIOUS
  <2>3. ASSUME NEW u \in stack[n].possibleTargets PROVE Fits(n - 1, e, u)'
    <3>1. Fits(n - 1, e, u) BY <2>1, <2>2, <2>3 DEF CallIsOpen
    <3> QED BY <1>2, <1>3, <1>4, <1>7, <1>8, <3>1, FitsIsKept
  <2> QED BY <1>2, <1>4, <1>8, <2>1, <2>2, <2>3 DEF CallIsOpen
<1>12. Depth' = n - 1 BY <1>1, <1>2 DEF Depth
<1>13. input.injective => ReverseIsRight' /\ ImagesAreOfOneCall'
  <2> SUFFICES ASSUME input.injective PROVE ReverseIsRight' /\ ImagesAreOfOneCall'
    OBVIOUS
  <2>1. Depth = n BY <1>1, <1>2 DEF Depth
  <2>2. \A x \in Level(n) \ Level(n - 1), z \in Level(n - 1) : currentMapping[x] # currentMapping[z]
    <3> SUFFICES ASSUME NEW x \in Level(n) \ Level(n - 1), NEW z \in Level(n - 1),
                        currentMapping[x] = currentMapping[z]
                 PROVE  FALSE
      OBVIOUS
    <3>1. CASE n - 1 = 0
      <4>1. Mapped(0) = {} BY DEF Mapped
      <4> QED BY <3>1, <4>1 DEF Level, Nodes
    <3>2. CASE n - 1 # 0
      <4>1. n - 1 \in 1 .. n BY <1>3, <3>2
      <4> QED BY <1>3, <1>6, <2>1, <4>1 DEF ImagesAreOfOneCall
    <3> QED BY <3>1, <3>2
  <2>3. Range(currentMapping') = {currentMapping[x] : x \in Level(n - 1)} BY <1>7 DEF Range
  <2>4. DOMAIN revCurrentMapping = {currentMapping[x] : x \in Level(n)}
    BY <1>3 DEF ReverseIsRight, Range
  <2>5. DOMAIN revCurrentMapping' = Range(currentMapping')
    <3>1. DOMAIN revCurrentMapping' =
            {currentMapping[x] : x \in Level(n)} \ {currentMapping[x] : x \in Level(n) \ Level(n - 1)}
      BY <1>2, <1>5, <2>4 DEF Without, Restrict
    <3> QED BY <1>6, <2>2, <2>3, <3>1
  <2>6. ASSUME NEW y \in DOMAIN revCurrentMapping'
        PROVE  /\ revCurrentMapping'[y] \in DOMAIN currentMapping'
               /\ currentMapping'[revCurrentMapping'[y]] = y
    <3>1. y \in DOMAIN revCurrentMapping /\ y \notin Frame.revDiff
          /\ revCurrentMapping'[y] = revCurrentMapping[y]
      BY <1>2, <2>6 DEF Without, Restrict
    <3>2. revCurrentMapping[y] \in Level(n) /\ currentMapping[revCurrentMapping[y]] = y
      BY <1>3, <3>1 DEF ReverseIsRight
    <3>3. revCurrentMapping[y] \in Level(n - 1) BY <1>5, <3>1, <3>2
    <3> QED BY <1>7, <3>1, <3>2, <3>3
  <2>7. \A k \in 1 .. n - 1 : k \in 1 .. n /\ k \in 0 .. n BY <1>3
  <2>8. ImagesAreOfOneCall' BY <1>3, <1>6, <1>7, <1>8, <1>12, <2>1, <2>7 DEF ImagesAreOfOneCall
  <2> QED BY <2>5, <2>6, <2>8 DEF ReverseIsRight
<1>14. SearchTypeOK'
  <2>1. Frames' = Frames /\ source' = source /\ target' = target
        /\ Elements(source)' = Elements(source) /\ Elements(target)' = Elements(target)
    BY <1>2 DEF Frames, source, target, Elements
  <2>2. currentMapping' \in [DOMAIN currentMapping' -> Elements(target)]
        /\ DOMAIN currentMapping' \subseteq Elements(source)
    BY <1>2, <1>3 DEF SearchTypeOK, Without, Restrict
  <2> QED BY <1>2, <1>3, <2>1, <2>2 DEF SearchTypeOK, Running
<1>15. /\ DOMAIN currentMapping' = Level(n - 1)' /\ mappableEdges' = NextTo(n - 1)' \ Mapped(n)'
       /\ \A k \in 1 .. n : CallIsOpen(k)'
       /\ input.injective' = input.injective /\ Len(stack') = n
  <2>1. \A k \in 1 .. n : k \in 1 .. n - 1 \/ k = n BY <1>3
  <2>2. n \in 0 .. n BY <1>3
  <2> QED BY <1>1, <1>2, <1>4, <1>7, <1>8, <1>9, <1>10, <1>11, <2>1, <2>2
<1> QED BY <1>10, <1>12, <1>13, <1>14, <1>15 DEF SearchInv

\* A call that has tried everything puts its edge back and is gone.
LEMMA EndLoopKeeps == ASSUME SearchInv, EndLoop PROVE SearchInv'
<1>1. PICK n, e : n = Len(stack) /\ e = Frame.edge OBVIOUS
<1>2. /\ phase = "loop" /\ stack' = Front(stack)
      /\ mappableEdges' = IF Frame.mappableEdgeDeleted
                          THEN mappableEdges \cup {e} ELSE mappableEdges
      /\ phase' = IF n = 1 THEN "isolated" ELSE "return"
      /\ UNCHANGED <<input, currentMapping, revCurrentMapping, foundMappings>>
  BY <1>1 DEF EndLoop
<1>3. /\ SearchTypeOK /\ stack \in Seq(Frames) /\ stack # <<>> /\ n \in Nat \ {0}
      /\ DOMAIN currentMapping = Level(n - 1) /\ mappableEdges = NextTo(n - 1) \ Mapped(n)
      /\ input.injective => ReverseIsRight /\ ImagesAreOfOneCall
      /\ \A k \in 1 .. n : CallIsOpen(k)
      /\ \A k \in 1 .. n - 1 : CallIsRight(k)
  <2>1. SearchTypeOK /\ stack \in Seq(Frames) /\ stack # <<>>
    BY <1>2 DEF SearchInv, SearchTypeOK
  <2>2. n \in Nat \ {0} BY <1>1, <2>1, LenProperties, EmptySeq
  <2>3. Depth = n - 1 /\ Running BY <1>1, <1>2 DEF Depth, Running
  <2> QED BY <1>1, <2>1, <2>2, <2>3 DEF SearchInv
<1>4. /\ Frame = stack[n] /\ n \in 1 .. n /\ n - 1 \in 0 .. Len(stack) /\ n - 1 \in Nat
      /\ n - 1 \in 0 .. n - 1 /\ \A k \in 1 .. n - 1 : k \in 1 .. n /\ k \in 0 .. n - 1
  BY <1>1, <1>3 DEF Frame, Last
<1>5. /\ stack' \in Seq(Frames) /\ Len(stack') = n - 1
      /\ \A i \in 1 .. n - 1 : stack'[i] = stack[i]
  BY <1>1, <1>2, <1>3, FrontElements
<1>6. \A k \in 0 .. n - 1 : Mapped(k)' = Mapped(k) /\ Level(k)' = Level(k) /\ NextTo(k)' = NextTo(k)
  <2>1. \A k \in 0 .. n - 1 : k \in Int /\ k <= n - 1 BY <1>3
  <2> QED BY <1>2, <1>4, <1>5, <2>1, LevelsAreKept
<1>7. \A k \in 1 .. n - 1 : CallIsOpen(k)' /\ CallIsRight(k)'
  BY <1>2, <1>3, <1>4, <1>5, CallsAreKept
<1>8. mappableEdges' = NextTo(n - 1) \ Mapped(n - 1)
  <2>1. /\ e \notin Mapped(n - 1) /\ Mapped(n) = Mapped(n - 1) \cup {e}
        /\ Frame.mappableEdgeDeleted <=> e \in NextTo(n - 1)
    BY <1>1, <1>3, <1>4, NextLevel DEF CallIsOpen
  <2> QED BY <1>2, <1>3, <2>1
<1>9. SearchTypeOK'
  <2>1. Frames' = Frames /\ source' = source /\ target' = target
        /\ Elements(source)' = Elements(source) /\ Elements(target)' = Elements(target)
    BY <1>2 DEF Frames, source, target, Elements
  <2>2. phase' = "return" => stack' # <<>> BY <1>2, <1>3, <1>5, EmptySeq
  <2> QED BY <1>2, <1>3, <1>5, <2>1, <2>2 DEF SearchTypeOK, Running
<1> SUFFICES ASSUME Running' PROVE SearchInv'
  BY <1>9 DEF SearchInv
<1>10. Depth' = n - 1 /\ Depth = n - 1 BY <1>1, <1>2, <1>5 DEF Depth, Running
<1>11. input.injective' => ReverseIsRight' /\ ImagesAreOfOneCall'
  BY <1>2, <1>3, <1>4, <1>6, <1>10 DEF ReverseIsRight, ImagesAreOfOneCall
<1>12. DOMAIN currentMapping' = Level(n - 1)' /\ mappableEdges' = NextTo(n - 1)' \ Mapped(n - 1)'
  BY <1>2, <1>3, <1>4, <1>6, <1>8
<1> QED BY <1>5, <1>7, <1>9, <1>10, <1>11, <1>12 DEF SearchInv

\* The other steps change no mapping.
LEMMA OtherSearchStepsKeep ==
  ASSUME SearchInv, FindMatches \/ FoundMatch \/ StopOnFirstFind \/ MapIsolatedNodes \/ UNCHANGED vars
  PROVE  SearchInv'
<1>1. UNCHANGED <<input, currentMapping, revCurrentMapping, mappableEdges>>
  BY DEF FindMatches, FoundMatch, StopOnFirstFind, MapIsolatedNodes, vars, shared
<1>2. /\ Frames' = Frames /\ source' = source /\ target' = target
      /\ Elements(source)' = Elements(source) /\ Elements(target)' = Elements(target)
  BY <1>1 DEF Frames, source, target, Elements
<1>3. SearchTypeOK BY DEF SearchInv
<1>4. CASE FindMatches
  <2>1. /\ phase = "start" /\ phase' \in {"call", "isolated", "done"} /\ stack' = stack
        /\ phase' = "call" => DOMAIN source.edges # {}
    BY <1>4 DEF FindMatches
  <2>2. SearchTypeOK' BY <1>1, <1>2, <1>3, <2>1 DEF SearchTypeOK, Running
  <2> SUFFICES ASSUME phase' = "call" PROVE SearchInv'
    BY <2>1, <2>2 DEF SearchInv, Running
  <2>3. /\ stack' = <<>> /\ currentMapping' = <<>> /\ revCurrentMapping' = <<>>
        /\ mappableEdges' = {}
    BY <1>1, <1>3, <2>1 DEF SearchTypeOK
  <2>4. Len(stack') = 0 /\ DOMAIN currentMapping' = {} /\ DOMAIN revCurrentMapping' = {}
    BY <2>3, EmptySeq
  <2>5. Mapped(0)' = {} /\ Level(0)' = {} /\ NextTo(0)' = {} /\ Depth' = 0
    BY <2>4 DEF Mapped, Level, Nodes, NextTo, Depth
  <2>6. ReverseIsRight' /\ ImagesAreOfOneCall'
    BY <2>4 DEF ReverseIsRight, ImagesAreOfOneCall, Range
  <2> QED BY <2>2, <2>3, <2>4, <2>5, <2>6 DEF SearchInv
<1>5. CASE FoundMatch
  <2>1. phase = "call" /\ phase' = "return" /\ stack' = stack /\ EdgesToGo = 0
    BY <1>5 DEF FoundMatch
  <2>2. /\ \A k \in 1 .. Len(stack) : CallIsOpen(k) /\ CallIsRight(k)
        /\ DOMAIN currentMapping = Level(Len(stack))
        /\ mappableEdges = NextTo(Len(stack)) \ Mapped(Len(stack))
        /\ input.injective => ReverseIsRight /\ ImagesAreOfOneCall
        /\ DOMAIN source.edges # {}
    BY <2>1 DEF SearchInv, SearchTypeOK, Running, Depth
  <2>3. stack # <<>>
    <3>1. Mapped(Len(stack)) = DOMAIN source.edges BY <1>3, <2>1, <2>2, CallsCountEdges
    <3>2. Len(stack) # 0 BY <2>2, <3>1 DEF Mapped
    <3> QED BY <3>2
  <2>4. SearchTypeOK' BY <1>1, <1>2, <1>3, <2>1, <2>2, <2>3 DEF SearchTypeOK, Running
  <2>5. Depth' = Len(stack) /\ Depth = Len(stack) BY <2>1 DEF Depth
  <2>6. \A k : /\ Mapped(k)' = Mapped(k) /\ Level(k)' = Level(k) /\ NextTo(k)' = NextTo(k)
               /\ CallIsOpen(k)' = CallIsOpen(k) /\ CallIsRight(k)' = CallIsRight(k)
    BY <1>1, <2>1 DEF Mapped, Level, Nodes, NextTo, CallIsOpen, CallIsRight, Fits, VerticesOf,
                      ConnectedEdges, source, target
  <2>7. input.injective' => ReverseIsRight' /\ ImagesAreOfOneCall'
    BY <1>1, <2>2, <2>5, <2>6 DEF ReverseIsRight, ImagesAreOfOneCall
  <2> QED BY <1>1, <2>1, <2>2, <2>4, <2>5, <2>6, <2>7 DEF SearchInv
<1>6. CASE StopOnFirstFind \/ MapIsolatedNodes
  <2>1. /\ phase' \in {"isolated", "done"} /\ (stack' = stack \/ stack' = <<>>)
    BY <1>6 DEF StopOnFirstFind, MapIsolatedNodes
  <2>2. SearchTypeOK' BY <1>1, <1>2, <1>3, <2>1, EmptySeq DEF SearchTypeOK, Running
  <2> QED BY <2>1, <2>2 DEF SearchInv, Running
<1>7. CASE UNCHANGED vars
  <2>1. phase' = phase /\ stack' = stack /\ foundMappings' = foundMappings
    BY <1>7 DEF vars
  <2>2. \A k : /\ Mapped(k)' = Mapped(k) /\ Level(k)' = Level(k) /\ NextTo(k)' = NextTo(k)
               /\ CallIsOpen(k)' = CallIsOpen(k) /\ CallIsRight(k)' = CallIsRight(k)
    BY <1>1, <2>1 DEF Mapped, Level, Nodes, NextTo, CallIsOpen, CallIsRight, Fits, VerticesOf,
                      ConnectedEdges, source, target
  <2>3. Depth' = Depth /\ Running' = Running /\ SearchTypeOK' = SearchTypeOK
    BY <1>1, <1>2, <2>1 DEF Depth, Running, SearchTypeOK
  <2>4. ReverseIsRight' = ReverseIsRight /\ ImagesAreOfOneCall' = ImagesAreOfOneCall
    BY <1>1, <2>2, <2>3 DEF ReverseIsRight, ImagesAreOfOneCall
  <2> QED BY <1>1, <2>1, <2>2, <2>3, <2>4 DEF SearchInv
<1> QED BY <1>4, <1>5, <1>6, <1>7

\* Before the search nothing is mapped.
LEMMA SearchInit == Init => SearchInv
<1> SUFFICES ASSUME Init PROVE SearchInv
  OBVIOUS
<1>1. /\ input \in Inputs /\ phase = "start" /\ stack = <<>> /\ currentMapping = <<>>
      /\ revCurrentMapping = <<>> /\ mappableEdges = {} /\ foundMappings = <<>>
  BY DEF Init
<1>2. <<>> \in Seq(Frames) /\ DOMAIN <<>> = {} /\ <<>> \in [{} -> Elements(target)]
  BY EmptySeq
<1> QED BY <1>1, <1>2 DEF SearchInv, SearchTypeOK, Running

\* Every reachable state of every search satisfies the invariant.
LEMMA SearchInvariant == Spec => []SearchInv
<1>1. SearchInv /\ [Next]_vars => SearchInv'
  <2> SUFFICES ASSUME SearchInv, [Next]_vars PROVE SearchInv'
    OBVIOUS
  <2>1. CASE MapEdge
    <3>1. PICK t \in Frame.possibleTargets : MapTo(t, Frame.possibleTargets \ {t})
      BY <2>1 DEF MapEdge
    <3>2. phase = "loop" BY <2>1 DEF MapEdge
    <3> QED BY <3>1, <3>2, MapToKeeps
  <2> QED BY <2>1, ChooseEdgeKeeps, UndoKeeps, EndLoopKeeps, OtherSearchStepsKeep DEF Next
<1> QED BY <1>1, SearchInit, PTL DEF Spec

\* For all graphs: whenever mapEdges is entered, the mapping, its reverse and the edges
\* next to it are those of the running calls, whatever was tried before.
THEOREM SharedStateBelongsToCalls == Spec => []SharedStateIsUndone
<1>1. SearchInv => SharedStateIsUndone
  <2> SUFFICES ASSUME SearchInv, phase = "call" PROVE SharedStateIsUndone
    BY DEF SharedStateIsUndone
  <2> DEFINE n == Len(stack)
  <2>1. /\ DOMAIN currentMapping = Level(n) /\ mappableEdges = NextTo(n)
        /\ input.injective => ReverseIsRight
    BY DEF SearchInv, Running, Depth, NextTo
  <2>2. DOMAIN stack = 1 .. n BY LenProperties DEF SearchInv, SearchTypeOK
  <2> QED BY <2>1, <2>2 DEF SharedStateIsUndone, Level, Nodes, Mapped, NextTo, ReverseIsRight
<1> QED BY <1>1, SearchInvariant, PTL

-----------------------------------------------------------------------------
(* What has been found, and what is still to come *)

PartialMaps == UNION {[S -> Elements(target)] : S \in SUBSET Elements(source)}

Attached == UNION {Range(VerticesOf(source, e)) : e \in DOMAIN source.edges}

\* A match of everything but the isolated vertices.
IsMatchOfEdges(m) ==
  /\ DOMAIN m = DOMAIN source.edges \cup Attached
  /\ \A e \in DOMAIN source.edges : m[e] \in DOMAIN target.edges
  /\ \A v \in Attached : m[v] \in target.vertices
  /\ IsMatch(m)

\* What the search is for.
Wanted == IF input.injective THEN InjectiveMatches ELSE AllMatches

IsFound(g) ==
  \E i \in 1 .. Len(foundMappings) : \A e \in DOMAIN source.edges : foundMappings[i][e] = g[e]

AgreesUpTo(g, k) == \A j \in 1 .. k : g[stack[j].edge] = currentMapping[stack[j].edge]

\* The next call has all of g to go, or a running one has the target g has for its edge.
IsPending(g) ==
  \/ phase = "call" /\ AgreesUpTo(g, Len(stack))
  \/ \E k \in 1 .. Len(stack) :
       AgreesUpTo(g, k - 1) /\ g[stack[k].edge] \in stack[k].possibleTargets

\* Nothing is lost: what is not found yet is still to come.
NothingIsLost == Running => \A g \in Wanted : IsFound(g) \/ IsPending(g)

FoundInv ==
  /\ phase # "done" => foundMappings \in Seq(PartialMaps)
  /\ phase # "done" => \A i \in 1 .. Len(foundMappings) : IsMatchOfEdges(foundMappings[i])
  /\ phase \in {"call", "loop", "return", "isolated"} => ~ TooLarge
  /\ input.stopFast => /\ Len(foundMappings) <= 1
                       /\ phase \in {"call", "loop"} => foundMappings = <<>>
  /\ NothingIsLost
  /\ phase = "isolated" =>
       \A g \in Wanted : IsFound(g) \/ (input.stopFast /\ foundMappings # <<>>)
  /\ FirstMatchDecides

-----------------------------------------------------------------------------
(* What a step does to what is still to come *)

\* What a match does with vertices and edges.
LEMMA MatchFacts ==
  ASSUME input \in Inputs, NEW g \in AllMatches
  PROVE  /\ DOMAIN g = Elements(source)
         /\ \A v \in source.vertices : g[v] \in target.vertices
         /\ \A e \in DOMAIN source.edges :
              /\ g[e] \in DOMAIN target.edges
              /\ source.edges[e].label = target.edges[g[e]].label
              /\ DOMAIN VerticesOf(target, g[e]) = DOMAIN VerticesOf(source, e)
              /\ \A i \in DOMAIN VerticesOf(source, e) :
                   g[VerticesOf(source, e)[i]] = VerticesOf(target, g[e])[i]
<1>1. PICK f \in [source.vertices -> target.vertices], h \in [DOMAIN source.edges -> DOMAIN target.edges] :
        g = With(h, f)
  BY DEF AllMatches, Matches
<1>2. \A e \in DOMAIN source.edges : e \notin source.vertices BY InputFacts
<1>3. DOMAIN g = Elements(source) BY <1>1 DEF With, Elements
<1>4. \A v \in source.vertices : g[v] \in target.vertices BY <1>1 DEF With
<1>5. \A e \in DOMAIN source.edges : g[e] \in DOMAIN target.edges BY <1>1, <1>2 DEF With
<1>6. IsMatch(g) BY DEF AllMatches
<1>7. ASSUME NEW e \in DOMAIN source.edges
      PROVE  /\ source.edges[e].label = target.edges[g[e]].label
             /\ DOMAIN VerticesOf(target, g[e]) = DOMAIN VerticesOf(source, e)
             /\ \A i \in DOMAIN VerticesOf(source, e) :
                   g[VerticesOf(source, e)[i]] = VerticesOf(target, g[e])[i]
  BY <1>6 DEF IsMatch
<1> QED BY <1>3, <1>4, <1>5, <1>7

\* A match that agrees with the edges of some calls agrees with all they have mapped.
LEMMA AgreementFacts ==
  ASSUME SearchTypeOK, NEW g \in AllMatches, NEW k \in 0 .. Len(stack), AgreesUpTo(g, k),
         \A j \in 1 .. k : CallIsRight(j)
  PROVE  \A x \in Level(k) : g[x] = currentMapping[x]
<1> SUFFICES ASSUME NEW x \in Level(k) PROVE g[x] = currentMapping[x]
  OBVIOUS
<1>1. CASE x \in Mapped(k) BY <1>1 DEF Mapped, AgreesUpTo
<1>2. CASE x \in Nodes(k)
  <2>1. PICK j \in 1 .. k : x \in Range(VerticesOf(source, stack[j].edge))
    BY <1>2 DEF Nodes, Mapped
  <2>2. PICK e : e = stack[j].edge OBVIOUS
  <2>3. PICK i \in DOMAIN VerticesOf(source, e) : x = VerticesOf(source, e)[i]
    BY <2>1, <2>2 DEF Range
  <2>4. g[e] = currentMapping[e] BY <2>2 DEF AgreesUpTo
  <2>5. e \in DOMAIN source.edges
    <3>1. j \in 1 .. Len(stack) BY LenProperties DEF SearchTypeOK
    <3>2. stack[j] \in Frames BY <3>1, ElementOfSeq DEF SearchTypeOK
    <3> QED BY <2>2, <3>2 DEF Frames
  <2>6. g[x] = VerticesOf(target, g[e])[i] BY <2>3, <2>5, MatchFacts DEF SearchTypeOK
  <2>7. currentMapping[x] = VerticesOf(target, currentMapping[e])[i]
    BY <2>2, <2>3 DEF CallIsRight
  <2> QED BY <2>4, <2>6, <2>7
<1> QED BY <1>1, <1>2 DEF Level

\* isMapPossible never turns down what a wanted match does with the edge.
LEMMA MatchIsPossible ==
  ASSUME SearchInv, phase = "call", NEW g \in Wanted, AgreesUpTo(g, Len(stack)),
         NEW e \in DOMAIN source.edges \ Mapped(Len(stack))
  PROVE  IsMapPossible(e, g[e])
<1> DEFINE n == Len(stack)
           src == VerticesOf(source, e)
           tar == VerticesOf(target, g[e])
<1>1. /\ SearchTypeOK /\ DOMAIN currentMapping = Level(n) /\ n \in 0 .. Len(stack)
      /\ input.injective => ReverseIsRight
      /\ \A k \in 1 .. n : CallIsRight(k)
  BY LenProperties DEF SearchInv, SearchTypeOK, Running, Depth
<1>2. g \in AllMatches /\ (input.injective => IsInjective(g)) BY DEF Wanted, InjectiveMatches
<1>3. \A x \in Level(n) : g[x] = currentMapping[x] BY <1>1, <1>2, AgreementFacts
<1>4. /\ DOMAIN g = Elements(source) /\ e \in Elements(source)
      /\ Level(n) \subseteq Elements(source) /\ e \notin Level(n)
      /\ source.edges[e].label = target.edges[g[e]].label
      /\ \A i \in DOMAIN src : src[i] \in Elements(source) /\ g[src[i]] = tar[i]
  <2>1. e \notin Level(n) /\ Level(n) \subseteq Elements(source) /\ e \in Elements(source)
    BY <1>1, InputFacts, LevelFacts DEF Level, SearchTypeOK, Elements
  <2>2. \A i \in DOMAIN src : src[i] \in Elements(source)
    BY <1>1, InputFacts DEF SearchTypeOK, Elements, Range
  <2> QED BY <1>1, <1>2, <2>1, <2>2, MatchFacts DEF SearchTypeOK
<1>5. ASSUME input.injective, NEW y \in DOMAIN revCurrentMapping
      PROVE  /\ revCurrentMapping[y] \in Level(n) /\ g[revCurrentMapping[y]] = y
             /\ \A x \in Elements(source) : g[x] = y => x = revCurrentMapping[y]
  <2>1. revCurrentMapping[y] \in Level(n) /\ currentMapping[revCurrentMapping[y]] = y
    BY <1>1, <1>5 DEF ReverseIsRight
  <2>2. g[revCurrentMapping[y]] = y BY <1>3, <2>1
  <2> QED BY <1>2, <1>4, <1>5, <2>1, <2>2 DEF IsInjective
<1>6. ~ (input.injective /\ g[e] \in DOMAIN revCurrentMapping) BY <1>4, <1>5
<1>7. \A i \in DOMAIN src : /\ src[i] \in DOMAIN currentMapping => currentMapping[src[i]] = tar[i]
                            /\ \A j \in 1 .. i - 1 : src[j] = src[i] => tar[j] = tar[i]
  <2>1. DOMAIN src = 1 .. Len(src) /\ Len(src) \in Nat
    BY <1>1, InputFacts, LenProperties DEF SearchTypeOK
  <2>2. \A i \in DOMAIN src : \A j \in 1 .. i - 1 : j \in DOMAIN src
    <3> HIDE DEF src
    <3> QED BY <2>1
  <2> QED BY <1>1, <1>3, <1>4, <2>2
<1>8. \A i \in DOMAIN src : input.injective /\ tar[i] \in DOMAIN revCurrentMapping =>
                              revCurrentMapping[tar[i]] = src[i]
  BY <1>4, <1>5
<1> QED BY <1>4, <1>6, <1>7, <1>8 DEF IsMapPossible

\* Nor is it left out of the candidates.
LEMMA MatchIsCandidate ==
  ASSUME SearchInv, phase = "call", NEW g \in Wanted, AgreesUpTo(g, Len(stack)),
         NEW e \in mappableEdges
  PROVE  g[e] \in Candidates(e)
<1> DEFINE n == Len(stack)
           src == VerticesOf(source, e)
           tar == VerticesOf(target, g[e])
           places == {k \in DOMAIN src : src[k] \in DOMAIN currentMapping}
<1>1. /\ SearchTypeOK /\ DOMAIN currentMapping = Level(n) /\ n \in 0 .. Len(stack)
      /\ mappableEdges = NextTo(n)
      /\ \A k \in 1 .. n : CallIsRight(k)
  BY LenProperties DEF SearchInv, SearchTypeOK, Running, Depth, NextTo
<1>2. g \in AllMatches BY DEF Wanted, InjectiveMatches
<1>3. \A x \in Level(n) : g[x] = currentMapping[x] BY <1>1, <1>2, AgreementFacts
<1>4. e \in DOMAIN source.edges BY <1>1, LevelFacts
<1>5. PICK v \in Nodes(n) : v \in Range(src) BY <1>1 DEF NextTo, ConnectedEdges
<1>6. Min(places) \in places
  <2>1. DOMAIN src = 1 .. Len(src) BY <1>1, <1>4, InputFacts, LenProperties DEF SearchTypeOK
  <2>2. \A k \in 1 .. Len(src) : k \in Nat OBVIOUS
  <2>3. places \subseteq Nat BY <2>1, <2>2
  <2>4. places # {} BY <1>1, <1>5 DEF Level, Range
  <2> HIDE DEF places
  <2> QED BY <2>3, <2>4, MinIsElement
<1>7. PICK i \in DOMAIN src : i = Min(places) /\ src[i] \in Level(n) BY <1>1, <1>6
<1>8. /\ g[e] \in DOMAIN target.edges /\ DOMAIN tar = DOMAIN src /\ g[src[i]] = tar[i]
  BY <1>1, <1>2, <1>4, <1>7, MatchFacts DEF SearchTypeOK
<1>9. currentMapping[src[i]] = tar[i] BY <1>3, <1>7, <1>8
<1>10. g[e] \in ConnectedEdges(target, currentMapping[src[i]])
  BY <1>7, <1>8, <1>9 DEF ConnectedEdges, Range
<1> QED BY <1>7, <1>10 DEF Candidates

\* A new call has the rest of what agrees with the calls below it.
LEMMA CallOnKeepsPending ==
  ASSUME SearchInv, phase = "call", NEW e \in DOMAIN source.edges \ Mapped(Len(stack)),
         NEW candidates \in SUBSET DOMAIN target.edges, CallOn(e, candidates), NEW g
  PROVE  /\ IsPending(g)' => IsPending(g)
         /\ IsPending(g) /\ g \in Wanted /\ g[e] \in DOMAIN target.edges
              /\ (AgreesUpTo(g, Len(stack)) => g[e] \in candidates) => IsPending(g)'
<1>1. PICK n : n = Len(stack) OBVIOUS
<1> DEFINE targets == {t \in candidates : IsMapPossible(e, t)}
           fr == [edge |-> e, possibleTargets |-> targets,
                  mappableEdgeDeleted |-> e \in mappableEdges,
                  mappingDiff |-> {}, revDiff |-> {}, mappableDiff |-> {}]
<1>2. stack' = Append(stack, fr) /\ phase' = "loop" /\ currentMapping' = currentMapping
  BY DEF CallOn
<1>3. /\ n \in Nat /\ Len(stack') = n + 1 /\ \A i \in 1 .. n : stack'[i] = stack[i]
      /\ stack'[n + 1].edge = e /\ stack'[n + 1].possibleTargets = targets
  <2>1. stack \in Seq(Frames) BY DEF SearchInv, SearchTypeOK
  <2>2. fr \in Frames BY DEF Frames
  <2>3. fr.edge = e /\ fr.possibleTargets = targets OBVIOUS
  <2> HIDE DEF fr
  <2> QED BY <1>1, <1>2, <2>1, <2>2, <2>3, AppendProperties, LenProperties
<1>4. \A k \in 0 .. n : AgreesUpTo(g, k)' <=> AgreesUpTo(g, k)
  <2> SUFFICES ASSUME NEW k \in 0 .. n PROVE AgreesUpTo(g, k)' <=> AgreesUpTo(g, k)
    OBVIOUS
  <2>1. \A j \in 1 .. k : j \in 1 .. n BY <1>3
  <2> QED BY <1>2, <1>3, <2>1 DEF AgreesUpTo
<1> HIDE DEF fr
<1>5. ASSUME IsPending(g)' PROVE IsPending(g)
  <2>1. PICK k \in 1 .. n + 1 : AgreesUpTo(g, k - 1)' /\ g[stack'[k].edge] \in stack'[k].possibleTargets
    BY <1>2, <1>3, <1>5 DEF IsPending
  <2>2. k - 1 \in 0 .. n /\ (k \in 1 .. n \/ k - 1 = n) BY <1>3
  <2> QED BY <1>1, <1>3, <1>4, <2>1, <2>2 DEF IsPending
<1>6. ASSUME IsPending(g), g \in Wanted, g[e] \in DOMAIN target.edges,
             AgreesUpTo(g, Len(stack)) => g[e] \in candidates
      PROVE  IsPending(g)'
  <2>1. CASE AgreesUpTo(g, n)
    <3>1. IsMapPossible(e, g[e]) BY <1>1, <1>6, <2>1, MatchIsPossible
    <3>2. g[e] \in targets BY <1>1, <1>6, <2>1, <3>1
    <3>3. n + 1 \in 1 .. n + 1 /\ (n + 1) - 1 = n /\ n \in 0 .. n BY <1>3
    <3> HIDE DEF targets
    <3>4. AgreesUpTo(g, n)' BY <1>4, <2>1, <3>3
    <3> QED BY <1>3, <3>2, <3>3, <3>4 DEF IsPending
  <2>2. CASE \E k \in 1 .. n : AgreesUpTo(g, k - 1) /\ g[stack[k].edge] \in stack[k].possibleTargets
    <3>1. PICK k \in 1 .. n : AgreesUpTo(g, k - 1) /\ g[stack[k].edge] \in stack[k].possibleTargets
      BY <2>2
    <3>2. k \in 1 .. n + 1 /\ k - 1 \in 0 .. n BY <1>3
    <3>3. AgreesUpTo(g, k - 1)' BY <1>4, <3>1, <3>2
    <3> QED BY <1>3, <3>1, <3>2, <3>3 DEF IsPending
  <2> QED BY <1>1, <1>6, <2>1, <2>2 DEF IsPending
<1> QED BY <1>5, <1>6

\* Whichever edge comes next: every wanted match stays pending, and no other comes in.
LEMMA ChooseEdgeKeepsPending ==
  ASSUME SearchInv, ChooseEdge, NEW g
  PROVE  /\ IsPending(g)' => IsPending(g)
         /\ g \in Wanted /\ IsPending(g) => IsPending(g)'
<1> DEFINE n == Len(stack)
<1>1. phase = "call" /\ EdgesToGo > 0 BY DEF ChooseEdge
<1>2. /\ SearchTypeOK /\ n \in 0 .. n
      /\ DOMAIN currentMapping = Level(n) /\ mappableEdges = NextTo(n)
      /\ \A k \in 1 .. n : CallIsOpen(k)
  BY <1>1, LenProperties DEF SearchInv, SearchTypeOK, Running, Depth, NextTo
<1>3. \A e \in DOMAIN source.edges : g \in Wanted => g[e] \in DOMAIN target.edges
  BY <1>2, MatchFacts DEF Wanted, InjectiveMatches, SearchTypeOK
<1>4. CASE mappableEdges = {}
  <2>1. Mapped(n) \subseteq DOMAIN source.edges /\ Mapped(n) # DOMAIN source.edges
    BY <1>1, <1>2, CallsCountEdges
  <2>2. DOMAIN source.edges \ DOMAIN currentMapping # {}
    BY <1>2, <2>1, LevelFacts, InputFacts DEF Level, SearchTypeOK
  <2>3. EntryPoint \in DOMAIN source.edges \ Mapped(n)
    BY <1>2, <2>2, EntryPointIsUnmapped DEF Level
  <2>4. CallOn(EntryPoint, DOMAIN target.edges) BY <1>4 DEF ChooseEdge
  <2>5. PICK e : e = EntryPoint OBVIOUS
  <2> QED BY <1>1, <1>3, <2>3, <2>4, <2>5, CallOnKeepsPending
<1>5. CASE mappableEdges # {}
  <2>1. PICK e \in mappableEdges : CallOn(e, Candidates(e)) BY <1>5 DEF ChooseEdge
  <2>2. e \in DOMAIN source.edges \ Mapped(n) BY <1>2, <2>1, LevelFacts DEF NextTo
  <2>3. Candidates(e) \in SUBSET DOMAIN target.edges BY DEF Candidates, ConnectedEdges
  <2>4. g \in Wanted /\ AgreesUpTo(g, Len(stack)) => g[e] \in Candidates(e)
    BY <1>1, MatchIsCandidate
  <2> QED BY <1>1, <1>3, <2>1, <2>2, <2>3, <2>4, CallOnKeepsPending
<1> QED BY <1>4, <1>5

\* What the calls below the innermost have mapped is right.
LEMMA CallsBelow ==
  ASSUME SearchInv, phase \in {"loop", "return"}
  PROVE  /\ SearchTypeOK /\ stack \in Seq(Frames) /\ Len(stack) \in Nat \ {0}
         /\ Frame = stack[Len(stack)] /\ Frame \in Frames
         /\ DOMAIN stack = 1 .. Len(stack)
         /\ Frame.edge \notin Mapped(Len(stack) - 1)
         /\ \A j \in 1 .. Len(stack) - 1 : stack[j].edge \in DOMAIN source.edges
         /\ Mapped(Len(stack) - 1) \subseteq Level(Len(stack) - 1)
<1>1. SearchTypeOK /\ stack \in Seq(Frames) /\ stack # <<>> BY DEF SearchInv, SearchTypeOK
<1>2. Len(stack) \in Nat \ {0} /\ DOMAIN stack = 1 .. Len(stack) BY <1>1, LenProperties, EmptySeq
<1>3. Frame = stack[Len(stack)] BY DEF Frame, Last
<1>4. \A j \in 1 .. Len(stack) : stack[j] \in Frames /\ stack[j].edge \in DOMAIN source.edges
  <2>1. \A j \in 1 .. Len(stack) : stack[j] \in Frames BY <1>1, ElementOfSeq
  <2> QED BY <2>1 DEF Frames
<1>5. CallIsOpen(Len(stack)) BY <1>2 DEF SearchInv, Running
<1> QED BY <1>1, <1>2, <1>3, <1>4, <1>5 DEF CallIsOpen, Level

\* Mapping the edge to one target splits what is pending at it: the rest of that target
\* is for the next call, the others stay.
LEMMA MapEdgeKeepsPending ==
  ASSUME SearchInv, MapEdge, NEW g
  PROVE  IsPending(g)' <=> IsPending(g)
<1>1. PICK n, e : n = Len(stack) /\ e = Frame.edge OBVIOUS
<1>2. phase = "loop" BY DEF MapEdge
<1>3. PICK t \in Frame.possibleTargets : MapTo(t, Frame.possibleTargets \ {t}) BY DEF MapEdge
<1> DEFINE new == Range(VerticesOf(source, e)) \ DOMAIN currentMapping
           image == [x \in new \cup {e} |-> IF x = e THEN t ELSE ImageAt(e, t, x)]
           diff == DOMAIN image
<1>4. /\ SearchTypeOK /\ n \in Nat \ {0} /\ DOMAIN stack = 1 .. n
      /\ Frame = stack[n] /\ stack[n] \in Frames /\ e \notin Mapped(n - 1)
      /\ Mapped(n - 1) \subseteq Level(n - 1)
      /\ DOMAIN currentMapping = Level(n - 1)
  <2>1. Depth = n - 1 /\ Running BY <1>1, <1>2 DEF Depth, Running
  <2>2. DOMAIN currentMapping = Level(n - 1) BY <2>1 DEF SearchInv
  <2> QED BY <1>1, <1>2, <2>2, CallsBelow
<1>5. phase' = "call" /\ currentMapping' = With(currentMapping, image) BY <1>1, <1>3 DEF MapTo
<1>6. /\ Len(stack') = n /\ \A i \in 1 .. n : stack'[i].edge = stack[i].edge
      /\ \A i \in 1 .. n - 1 : stack'[i].possibleTargets = stack[i].possibleTargets
      /\ stack'[n].possibleTargets = stack[n].possibleTargets \ {t}
  <2>1. PICK rev, next :
          stack' = [stack EXCEPT ![Len(stack)] =
             [@ EXCEPT !.possibleTargets = Frame.possibleTargets \ {t},
                       !.mappingDiff = diff, !.revDiff = rev, !.mappableDiff = next]]
    BY <1>1, <1>3 DEF MapTo
  <2> HIDE DEF diff
  <2>2. PICK fr : fr = [stack[n] EXCEPT !.possibleTargets = Frame.possibleTargets \ {t},
                       !.mappingDiff = diff, !.revDiff = rev, !.mappableDiff = next]
    OBVIOUS
  <2>3. stack' = [stack EXCEPT ![n] = fr] BY <1>1, <2>1, <2>2
  <2>4. fr.edge = stack[n].edge /\ fr.possibleTargets = stack[n].possibleTargets \ {t}
    BY <1>4, <2>2 DEF Frames
  <2>5. stack'[n] = fr /\ \A i \in 1 .. n - 1 : stack'[i] = stack[i] BY <1>4, <2>3
  <2>6. Len(stack') = n
    <3>1. DOMAIN stack' = 1 .. n /\ n \in Nat BY <1>4, <2>3
    <3> QED BY <3>1, <2>3, <1>4, <1>1, ExceptSeq
  <2>7. \A i \in 1 .. n : i = n \/ i \in 1 .. n - 1 BY <1>4
  <2> QED BY <2>4, <2>5, <2>6, <2>7
<1>7. /\ currentMapping'[e] = t
      /\ \A j \in 1 .. n - 1 : currentMapping'[stack[j].edge] = currentMapping[stack[j].edge]
  <2>1. e \in DOMAIN image /\ image[e] = t OBVIOUS
  <2>2. \A j \in 1 .. n - 1 : stack[j].edge \in Mapped(n - 1) BY DEF Mapped
  <2>3. \A j \in 1 .. n - 1 : stack[j].edge \in DOMAIN currentMapping \ DOMAIN image
    BY <1>4, <2>2
  <2> HIDE DEF image
  <2> QED BY <1>5, <2>1, <2>3 DEF With
<1>8. \A k \in 0 .. n - 1 : AgreesUpTo(g, k)' <=> AgreesUpTo(g, k)
  <2> SUFFICES ASSUME NEW k \in 0 .. n - 1 PROVE AgreesUpTo(g, k)' <=> AgreesUpTo(g, k)
    OBVIOUS
  <2>1. \A j \in 1 .. k : j \in 1 .. n - 1 /\ j \in 1 .. n BY <1>4
  <2> QED BY <1>6, <1>7, <2>1 DEF AgreesUpTo
<1>9. AgreesUpTo(g, n)' <=> AgreesUpTo(g, n - 1) /\ g[e] = t
  <2>1. 1 .. n = (1 .. n - 1) \cup {n} /\ n - 1 \in 0 .. n - 1 BY <1>4
  <2>2. stack'[n].edge = e BY <1>1, <1>4, <1>6
  <2>3. AgreesUpTo(g, n)' <=> AgreesUpTo(g, n - 1)' /\ g[e] = currentMapping'[e]
    BY <2>1, <2>2 DEF AgreesUpTo
  <2> QED BY <1>7, <1>8, <2>1, <2>3
<1>10. IsPending(g) <=>
         \E k \in 1 .. n : AgreesUpTo(g, k - 1) /\ g[stack[k].edge] \in stack[k].possibleTargets
  BY <1>1, <1>2 DEF IsPending
<1>11. IsPending(g)' <=>
         \/ AgreesUpTo(g, n)'
         \/ \E k \in 1 .. n : AgreesUpTo(g, k - 1)' /\ g[stack'[k].edge] \in stack'[k].possibleTargets
  BY <1>5, <1>6 DEF IsPending
<1>12. \A k \in 1 .. n : k - 1 \in 0 .. n - 1 /\ (k = n \/ k \in 1 .. n - 1) BY <1>4
<1>13. ASSUME IsPending(g) PROVE IsPending(g)'
  <2>1. PICK k \in 1 .. n : AgreesUpTo(g, k - 1) /\ g[stack[k].edge] \in stack[k].possibleTargets
    BY <1>10, <1>13
  <2>2. CASE k = n BY <1>1, <1>4, <1>6, <1>8, <1>9, <1>11, <1>12, <2>1, <2>2
  <2>3. CASE k # n BY <1>6, <1>8, <1>11, <1>12, <2>1, <2>3
  <2> QED BY <2>2, <2>3
<1>14. ASSUME IsPending(g)' PROVE IsPending(g)
  <2>1. CASE AgreesUpTo(g, n)'
    <3>1. n \in 1 .. n BY <1>4
    <3> QED BY <1>1, <1>3, <1>4, <1>9, <1>10, <2>1, <3>1
  <2>2. CASE \E k \in 1 .. n : AgreesUpTo(g, k - 1)' /\ g[stack'[k].edge] \in stack'[k].possibleTargets
    BY <1>6, <1>8, <1>10, <1>12, <2>2
  <2> QED BY <1>11, <1>14, <2>1, <2>2
<1> QED BY <1>13, <1>14

\* Taking back what was mapped leaves the calls below as they were.
LEMMA UndoKeepsPending ==
  ASSUME SearchInv, Undo, NEW g
  PROVE  IsPending(g)' <=> IsPending(g)
<1>1. PICK n : n = Len(stack) OBVIOUS
<1>2. /\ phase = "return" /\ phase' = "loop" /\ stack' = stack
      /\ currentMapping' = Without(currentMapping, Frame.mappingDiff)
  BY DEF Undo
<1>3. /\ n \in Nat \ {0} /\ Frame = stack[n] /\ Mapped(n - 1) \subseteq Level(n - 1)
      /\ n \in 0 .. Len(stack) /\ n - 1 \in 0 .. n /\ SearchTypeOK
  BY <1>1, <1>2, CallsBelow
<1>4. DOMAIN currentMapping = Level(n) /\ Frame.mappingDiff = Level(n) \ Level(n - 1)
  <2>1. Depth = n /\ Running /\ n \in 1 .. Depth BY <1>1, <1>2, <1>3 DEF Depth, Running
  <2> QED BY <1>3, <2>1 DEF SearchInv, CallIsRight
<1>5. Level(n - 1) \subseteq Level(n) BY <1>3, LevelFacts
<1>6. \A x \in Level(n - 1) : currentMapping'[x] = currentMapping[x]
  BY <1>2, <1>4, <1>5 DEF Without, Restrict
<1>7. \A j \in 1 .. n - 1 : currentMapping'[stack[j].edge] = currentMapping[stack[j].edge]
  BY <1>3, <1>6 DEF Mapped
<1>8. \A k \in 1 .. n : AgreesUpTo(g, k - 1)' <=> AgreesUpTo(g, k - 1)
  <2> SUFFICES ASSUME NEW k \in 1 .. n PROVE AgreesUpTo(g, k - 1)' <=> AgreesUpTo(g, k - 1)
    OBVIOUS
  <2>1. \A j \in 1 .. k - 1 : j \in 1 .. n - 1 BY <1>3
  <2> QED BY <1>2, <1>7, <2>1 DEF AgreesUpTo
<1> QED BY <1>1, <1>2, <1>8 DEF IsPending

\* A call that has tried everything has nothing pending.
LEMMA EndLoopKeepsPending ==
  ASSUME SearchInv, EndLoop, NEW g
  PROVE  /\ IsPending(g)' <=> IsPending(g)
         /\ IsPending(g) => Len(stack) # 1
<1>1. PICK n : n = Len(stack) OBVIOUS
<1>2. /\ phase = "loop" /\ phase' # "call" /\ stack' = Front(stack)
      /\ currentMapping' = currentMapping /\ Frame.possibleTargets = {}
  BY DEF EndLoop
<1>3. /\ n \in Nat \ {0} /\ Frame = stack[n] /\ stack \in Seq(Frames)
  BY <1>1, <1>2, CallsBelow
<1>4. Len(stack') = n - 1 /\ \A i \in 1 .. n - 1 : stack'[i] = stack[i]
  <2>1. stack # <<>> BY <1>1, <1>3, EmptySeq
  <2> QED BY <1>1, <1>2, <1>3, <2>1, FrontElements
<1>5. \A k \in 1 .. n - 1 : AgreesUpTo(g, k - 1)' <=> AgreesUpTo(g, k - 1)
  <2> SUFFICES ASSUME NEW k \in 1 .. n - 1 PROVE AgreesUpTo(g, k - 1)' <=> AgreesUpTo(g, k - 1)
    OBVIOUS
  <2>1. \A j \in 1 .. k - 1 : j \in 1 .. n - 1 BY <1>3
  <2> QED BY <1>2, <1>4, <2>1 DEF AgreesUpTo
<1>6. \A k : k \in 1 .. n <=> k \in 1 .. n - 1 \/ k = n BY <1>3
<1>7. IsPending(g) <=>
        \E k \in 1 .. n - 1 : AgreesUpTo(g, k - 1) /\ g[stack[k].edge] \in stack[k].possibleTargets
  BY <1>1, <1>2, <1>3, <1>6 DEF IsPending
<1>8. IsPending(g) <=> IsPending(g)' BY <1>2, <1>4, <1>5, <1>7 DEF IsPending
<1>9. IsPending(g) => n # 1 BY <1>3, <1>7
<1> QED BY <1>1, <1>8, <1>9

-----------------------------------------------------------------------------
(* Isolated vertices *)

\* A finite set of ids has an ascending enumeration, which has every id once.
LEMMA AscendingFacts ==
  ASSUME NEW S, IsFiniteSet(S), S \subseteq Nat
  PROVE  GoesUpThrough(Ascending(S), S)
<1>1. PICK n \in Nat : n = Cardinality(S) BY FS_CardinalityType
<1>2. \E s \in [1 .. n -> S] : \A i, j \in 1 .. n : i < j => s[i] < s[j]
  BY <1>1, AscendingListExists DEF GoesUpThrough
<1>3. PICK s : s = Ascending(S) OBVIOUS
<1>4. s \in [1 .. n -> S] /\ \A i, j \in 1 .. n : i < j => s[i] < s[j]
  BY <1>1, <1>2, <1>3 DEF Ascending
<1> QED BY <1>1, <1>3, <1>4, AscendingListExists

\* The vertices edges are attached to are vertices, and no edges.
LEMMA AttachedFacts ==
  ASSUME input \in Inputs
  PROVE  /\ Attached \subseteq source.vertices
         /\ \A e \in DOMAIN source.edges : \A i \in DOMAIN VerticesOf(source, e) :
              VerticesOf(source, e)[i] \in Attached
         /\ \A e \in DOMAIN source.edges : e \notin source.vertices
BY InputFacts DEF Attached, Range

\* A match of the edges that also sends the isolated vertices somewhere is a match.
LEMMA ExtensionIsMatch ==
  ASSUME input \in Inputs, NEW m, IsMatchOfEdges(m),
         NEW f \in [source.vertices \ DOMAIN m -> target.vertices]
  PROVE  With(m, f) \in AllMatches
<1> DEFINE g == With(m, f)
           h == [e \in DOMAIN source.edges |-> m[e]]
           k == [v \in source.vertices |-> IF v \in DOMAIN m THEN m[v] ELSE f[v]]
<1>1. /\ DOMAIN m = DOMAIN source.edges \cup Attached
      /\ \A e \in DOMAIN source.edges : m[e] \in DOMAIN target.edges
      /\ \A v \in Attached : m[v] \in target.vertices
      /\ IsMatch(m)
  BY DEF IsMatchOfEdges
<1>2. h \in [DOMAIN source.edges -> DOMAIN target.edges] BY <1>1
<1>3. k \in [source.vertices -> target.vertices]
  <2>1. \A v \in source.vertices : v \in DOMAIN m => v \in Attached BY <1>1, AttachedFacts
  <2> QED BY <1>1, <2>1
<1>4. g = With(h, k)
  <2>1. DOMAIN f \cup DOMAIN m = source.vertices \cup DOMAIN source.edges BY <1>1, AttachedFacts
  <2>2. DOMAIN g = DOMAIN k \cup DOMAIN h BY <2>1 DEF With
  <2>3. ASSUME NEW x \in source.vertices \cup DOMAIN source.edges PROVE g[x] = With(h, k)[x]
    <3>1. CASE x \in source.vertices BY <2>1, <3>1 DEF With
    <3>2. CASE x \notin source.vertices BY <2>1, <2>3, <3>2 DEF With
    <3> QED BY <3>1, <3>2
  <2> QED BY <2>1, <2>2, <2>3 DEF With
<1>5. \A x \in DOMAIN m : g[x] = m[x] BY DEF With
<1>6. IsMatch(g)
  <2> SUFFICES ASSUME NEW e \in DOMAIN source.edges
               PROVE  /\ source.edges[e].label = target.edges[g[e]].label
                      /\ VerticesOf(target, g[e]) =
                           [i \in DOMAIN VerticesOf(source, e) |-> g[VerticesOf(source, e)[i]]]
    BY DEF IsMatch
  <2>1. g[e] = m[e] BY <1>1, <1>5
  <2>2. \A i \in DOMAIN VerticesOf(source, e) : g[VerticesOf(source, e)[i]] = m[VerticesOf(source, e)[i]]
    BY <1>1, <1>5, AttachedFacts
  <2>3. /\ source.edges[e].label = target.edges[m[e]].label
        /\ VerticesOf(target, m[e]) =
             [i \in DOMAIN VerticesOf(source, e) |-> m[VerticesOf(source, e)[i]]]
    BY <1>1 DEF IsMatch
  <2> HIDE DEF g
  <2> QED BY <2>1, <2>2, <2>3
<1> HIDE DEF g, h, k
<1>7. g \in Matches BY <1>2, <1>3, <1>4 DEF Matches
<1> QED BY <1>6, <1>7 DEF AllMatches, g

\* In a target that is not too small there is a vertex of its own for each isolated one.
LEMMA EnoughFreeVertices ==
  ASSUME input \in Inputs, NEW m, IsMatchOfEdges(m), input.injective, ~ TooLarge
  PROVE  Cardinality(source.vertices \ DOMAIN m) <= Cardinality(target.vertices \ Range(m))
<1> DEFINE V == source.vertices
           W == target.vertices
           used == {m[v] : v \in Attached}
<1>1. /\ IsFiniteSet(V) /\ IsFiniteSet(W) /\ Cardinality(V) \in Nat /\ Cardinality(W) \in Nat
  BY InputFacts, FS_CardinalityType DEF IsGraph
<1>2. Cardinality(V) <= Cardinality(W) BY <1>1 DEF TooLarge
<1>3. Attached \subseteq V /\ V \cap DOMAIN m = Attached
  BY AttachedFacts DEF IsMatchOfEdges
<1>4. used \subseteq W /\ W \cap Range(m) = used
  <2>1. used \subseteq W BY DEF IsMatchOfEdges
  <2>2. \A t \in DOMAIN target.edges : t \notin W BY InputFacts
  <2>3. used \subseteq Range(m) BY DEF IsMatchOfEdges, Range
  <2>4. W \cap Range(m) \subseteq used BY <2>2 DEF IsMatchOfEdges, Range
  <2> QED BY <2>1, <2>3, <2>4
<1>5. IsFiniteSet(Attached) /\ Cardinality(Attached) \in Nat
  BY <1>1, <1>3, FS_Subset, FS_CardinalityType
<1>6. IsFiniteSet(used) /\ Cardinality(used) <= Cardinality(Attached) /\ Cardinality(used) \in Nat
  <2> DEFINE f == [v \in Attached |-> m[v]]
  <2>1. f \in Surjection(Attached, used) BY DEF Surjection
  <2> HIDE DEF f, used
  <2> QED BY <1>5, <2>1, FS_Surjection, FS_CardinalityType
<1>7. Cardinality(V \ DOMAIN m) = Cardinality(V) - Cardinality(Attached)
  BY <1>1, <1>3, FS_Difference
<1>8. Cardinality(W \ Range(m)) = Cardinality(W) - Cardinality(used)
  <2> HIDE DEF used
  <2> QED BY <1>1, <1>4, FS_Difference
<1> HIDE DEF V, W, used
<1>9. Cardinality(V \ DOMAIN m) <= Cardinality(W \ Range(m))
  BY <1>1, <1>2, <1>5, <1>6, <1>7, <1>8
<1> QED BY <1>9 DEF V, W

-----------------------------------------------------------------------------
(* The matches found *)

\* What a search is for depends on its input only.
LEMMA InputDecides ==
  ASSUME input' = input
  PROVE  /\ Wanted' = Wanted /\ AllMatches' = AllMatches /\ PartialMaps' = PartialMaps
         /\ TooLarge' = TooLarge /\ source' = source /\ target' = target
         /\ \A m : IsMatchOfEdges(m)' <=> IsMatchOfEdges(m)
<1>1. source' = source /\ target' = target BY DEF source, target
<1>2. Matches' = Matches BY <1>1 DEF Matches
<1>3. \A m : IsMatch(m)' <=> IsMatch(m) BY <1>1 DEF IsMatch, VerticesOf
<1>4. AllMatches' = AllMatches BY <1>2, <1>3 DEF AllMatches
<1>5. Wanted' = Wanted BY <1>4 DEF Wanted, InjectiveMatches
<1>6. PartialMaps' = PartialMaps BY <1>1 DEF PartialMaps, Elements
<1>7. TooLarge' = TooLarge BY <1>1 DEF TooLarge
<1>8. Attached' = Attached BY <1>1 DEF Attached, VerticesOf
<1>9. \A m : IsMatchOfEdges(m)' <=> IsMatchOfEdges(m) BY <1>1, <1>3, <1>8 DEF IsMatchOfEdges
<1> QED BY <1>1, <1>4, <1>5, <1>6, <1>7, <1>9

\* With no edge to go the current mapping is a match of the edges.
LEMMA CurrentIsMatch ==
  ASSUME SearchInv, phase = "call", EdgesToGo = 0
  PROVE  /\ IsMatchOfEdges(currentMapping) /\ currentMapping \in PartialMaps
         /\ Mapped(Len(stack)) = DOMAIN source.edges
<1> DEFINE n == Len(stack)
<1>1. /\ SearchTypeOK /\ DOMAIN currentMapping = Level(n) /\ n \in Nat
      /\ \A k \in 1 .. n : CallIsOpen(k) /\ CallIsRight(k)
  BY LenProperties DEF SearchInv, SearchTypeOK, Running, Depth
<1>2. Mapped(n) = DOMAIN source.edges BY <1>1, CallsCountEdges
<1>3. DOMAIN currentMapping = DOMAIN source.edges \cup Attached
  BY <1>1, <1>2 DEF Level, Nodes, Attached
<1>4. ASSUME NEW e \in DOMAIN source.edges
      PROVE  /\ currentMapping[e] \in DOMAIN target.edges
             /\ source.edges[e].label = target.edges[currentMapping[e]].label
             /\ DOMAIN VerticesOf(target, currentMapping[e]) = DOMAIN VerticesOf(source, e)
             /\ \A i \in DOMAIN VerticesOf(source, e) :
                  /\ currentMapping[VerticesOf(source, e)[i]] = VerticesOf(target, currentMapping[e])[i]
                  /\ VerticesOf(target, currentMapping[e])[i] \in target.vertices
  <2>1. PICK k \in 1 .. n : e = stack[k].edge BY <1>2 DEF Mapped
  <2>2. PICK t : t = currentMapping[e] OBVIOUS
  <2>3. /\ t \in DOMAIN target.edges /\ source.edges[e].label = target.edges[t].label
        /\ \A i \in DOMAIN VerticesOf(source, e) :
             currentMapping[VerticesOf(source, e)[i]] = VerticesOf(target, t)[i]
    BY <1>1, <2>1, <2>2 DEF CallIsRight
  <2>4. /\ VerticesOf(source, e) \in Seq(source.vertices)
        /\ VerticesOf(target, t) \in Seq(target.vertices)
        /\ Len(VerticesOf(source, e)) = Len(VerticesOf(target, t))
    BY <1>1, <2>3, InputFacts DEF SearchTypeOK
  <2>5. /\ DOMAIN VerticesOf(target, t) = DOMAIN VerticesOf(source, e)
        /\ \A i \in DOMAIN VerticesOf(source, e) : VerticesOf(target, t)[i] \in target.vertices
    BY <2>4, LenProperties
  <2> QED BY <2>2, <2>3, <2>5
<1>5. \A v \in Attached : currentMapping[v] \in target.vertices
  <2> SUFFICES ASSUME NEW v \in Attached PROVE currentMapping[v] \in target.vertices
    OBVIOUS
  <2>1. PICK e \in DOMAIN source.edges :
          \E i \in DOMAIN VerticesOf(source, e) : v = VerticesOf(source, e)[i]
    BY DEF Attached, Range
  <2> QED BY <1>4, <2>1
<1>6. IsMatch(currentMapping)
  <2> SUFFICES ASSUME NEW e \in DOMAIN source.edges
               PROVE  /\ source.edges[e].label = target.edges[currentMapping[e]].label
                      /\ VerticesOf(target, currentMapping[e]) =
                           [i \in DOMAIN VerticesOf(source, e) |->
                              currentMapping[VerticesOf(source, e)[i]]]
    BY DEF IsMatch
  <2>1. PICK tar : tar = VerticesOf(target, currentMapping[e]) OBVIOUS
  <2>2. tar \in Seq(target.vertices) BY <1>1, <1>4, <2>1, InputFacts DEF SearchTypeOK
  <2>3. tar \in [DOMAIN tar -> target.vertices] BY <2>2, LenProperties
  <2>4. DOMAIN tar = DOMAIN VerticesOf(source, e)
        /\ \A i \in DOMAIN VerticesOf(source, e) : tar[i] = currentMapping[VerticesOf(source, e)[i]]
    BY <1>4, <2>1
  <2>5. tar = [i \in DOMAIN VerticesOf(source, e) |-> currentMapping[VerticesOf(source, e)[i]]]
    BY <2>3, <2>4
  <2> QED BY <1>4, <2>1, <2>5
<1>7. currentMapping \in PartialMaps BY <1>1 DEF PartialMaps, SearchTypeOK
<1> QED BY <1>2, <1>3, <1>4, <1>5, <1>6, <1>7 DEF IsMatchOfEdges

\* A step inside mapEdges that loses nothing and finds nothing.
LEMMA InnerStepKeepsFound ==
  ASSUME FoundInv, Running, Running', UNCHANGED <<input, foundMappings>>,
         \A g \in Wanted : IsPending(g) => IsPending(g)',
         input.stopFast /\ phase' \in {"call", "loop"} => foundMappings = <<>>
  PROVE  FoundInv'
<1>1. /\ Wanted' = Wanted /\ PartialMaps' = PartialMaps /\ TooLarge' = TooLarge
      /\ \A m : IsMatchOfEdges(m)' <=> IsMatchOfEdges(m)
      /\ source' = source
  BY InputDecides
<1>2. phase \notin {"start", "isolated", "done"} /\ phase' \notin {"isolated", "done"}
  BY DEF Running
<1>3. \A g \in Wanted : IsFound(g)' <=> IsFound(g) BY <1>1 DEF IsFound
<1>4. NothingIsLost' BY <1>1, <1>3 DEF FoundInv, NothingIsLost
<1>6. FirstMatchDecides' BY <1>2 DEF FirstMatchDecides
<1>7. foundMappings' \in Seq(PartialMaps') /\ ~ TooLarge' BY <1>1, <1>2 DEF FoundInv, Running
<1>8. input'.stopFast => /\ Len(foundMappings') <= 1
                         /\ phase' \in {"call", "loop"} => foundMappings' = <<>>
  BY DEF FoundInv
<1>9. (\A i \in 1 .. Len(foundMappings) : IsMatchOfEdges(foundMappings[i]))'
  BY <1>1, <1>2 DEF FoundInv
<1> QED BY <1>2, <1>4, <1>6, <1>7, <1>8, <1>9 DEF FoundInv

\* A graph that does not fit has no injective match.
LEMMA TooLargeHasNone == ASSUME input \in Inputs, TooLarge PROVE Wanted = {}
<1> SUFFICES ASSUME NEW g \in Wanted PROVE FALSE
  OBVIOUS
<1>1. input.injective BY DEF TooLarge
<1>2. g \in AllMatches /\ IsInjective(g) BY <1>1 DEF Wanted, InjectiveMatches
<1>3. /\ DOMAIN g = Elements(source)
      /\ \A v \in source.vertices : g[v] \in target.vertices
      /\ \A e \in DOMAIN source.edges : g[e] \in DOMAIN target.edges
  BY <1>2, MatchFacts
<1>4. /\ IsFiniteSet(target.vertices) /\ IsFiniteSet(DOMAIN target.edges)
      /\ IsFiniteSet(source.vertices) /\ IsFiniteSet(DOMAIN source.edges)
  BY InputFacts DEF IsGraph
<1>5. Cardinality(source.vertices) <= Cardinality(target.vertices)
  <2> DEFINE f == [v \in source.vertices |-> g[v]]
  <2>1. \A v, w \in source.vertices : g[v] = g[w] => v = w
    BY <1>2, <1>3 DEF IsInjective, Elements
  <2>2. f \in Injection(source.vertices, target.vertices)
    BY <1>3, <2>1 DEF Injection, IsInjective
  <2> HIDE DEF f
  <2> QED BY <1>4, <2>2, FS_Injection
<1>6. Cardinality(DOMAIN source.edges) <= Cardinality(DOMAIN target.edges)
  <2> DEFINE f == [e \in DOMAIN source.edges |-> g[e]]
  <2>1. \A v, w \in DOMAIN source.edges : g[v] = g[w] => v = w
    BY <1>2, <1>3 DEF IsInjective, Elements
  <2>2. f \in Injection(DOMAIN source.edges, DOMAIN target.edges)
    BY <1>3, <2>1 DEF Injection, IsInjective
  <2> HIDE DEF f
  <2> QED BY <1>4, <2>2, FS_Injection
<1>7. /\ Cardinality(source.vertices) \in Nat /\ Cardinality(target.vertices) \in Nat
      /\ Cardinality(DOMAIN source.edges) \in Nat /\ Cardinality(DOMAIN target.edges) \in Nat
  BY <1>4, FS_CardinalityType
<1> QED BY <1>5, <1>6, <1>7 DEF TooLarge

\* The search starts with everything to come, or with one mapping of no edges.
LEMMA FindMatchesKeepsFound == ASSUME SearchInv, FoundInv, FindMatches PROVE FoundInv'
<1>1. /\ phase = "start" /\ UNCHANGED <<input, stack, currentMapping>>
      /\ input \in Inputs /\ stack = <<>> /\ foundMappings = <<>>
  BY DEF FindMatches, SearchInv, SearchTypeOK, shared
<1>2. /\ Wanted' = Wanted /\ PartialMaps' = PartialMaps /\ TooLarge' = TooLarge
      /\ \A m : IsMatchOfEdges(m)' <=> IsMatchOfEdges(m)
      /\ source' = source
  BY <1>1, InputDecides
<1>3. <<>> \in Seq(PartialMaps) /\ Len(<<>>) = 0 BY EmptySeq
<1>4. CASE TooLarge
  <2>1. phase' = "done" /\ foundMappings' = <<>> BY <1>1, <1>4 DEF FindMatches
  <2>2. Wanted = {} BY <1>1, <1>4, TooLargeHasNone
  <2>3. Range(foundMappings') = {} BY <2>1, RangeOfEmpty
  <2>4. FirstMatchDecides'
    <3>1. Wanted' = (IF input.injective THEN InjectiveMatches ELSE AllMatches)' BY DEF Wanted
    <3> QED BY <1>2, <1>3, <2>1, <2>2, <2>3, <3>1 DEF FirstMatchDecides
  <2> QED BY <1>3, <2>1, <2>4 DEF FoundInv, NothingIsLost, Running
<1>5. CASE ~ TooLarge /\ DOMAIN source.edges = {}
  <2>1. phase' = "isolated" /\ foundMappings' = <<<<>>>> BY <1>1, <1>5 DEF FindMatches
  <2>2. IsMatchOfEdges(<<>>)
    <3>1. Attached = {} BY <1>5 DEF Attached
    <3> QED BY <1>5, <3>1 DEF IsMatchOfEdges, IsMatch
  <2>3. <<>> \in PartialMaps
    <3>1. <<>> \in [{} -> Elements(target)] OBVIOUS
    <3> QED BY <3>1 DEF PartialMaps
  <2>4. foundMappings' \in Seq(PartialMaps) /\ Len(foundMappings') = 1 /\ foundMappings'[1] = <<>>
    <3>1. Append(<<>>, <<>>) \in Seq(PartialMaps) /\ Len(Append(<<>>, <<>>)) = 1
          /\ Append(<<>>, <<>>)[1] = <<>>
      BY <1>3, <2>3, AppendProperties
    <3> QED BY <2>1, <3>1
  <2>5. (\A i \in 1 .. Len(foundMappings) : IsMatchOfEdges(foundMappings[i]))'
    BY <1>2, <2>2, <2>4
  <2>6. \A g \in Wanted : IsFound(g)' BY <1>2, <1>5, <2>4 DEF IsFound
  <2>7. FirstMatchDecides' /\ NothingIsLost'
    BY <2>1 DEF FirstMatchDecides, NothingIsLost, Running
  <2> QED BY <1>2, <1>5, <2>1, <2>4, <2>5, <2>6, <2>7 DEF FoundInv
<1>6. CASE ~ TooLarge /\ DOMAIN source.edges # {}
  <2>1. phase' = "call" /\ foundMappings' = <<>> BY <1>1, <1>6 DEF FindMatches
  <2>2. \A g \in Wanted : IsPending(g)' BY <1>1, <1>3, <2>1 DEF IsPending, AgreesUpTo
  <2>3. NothingIsLost' BY <1>2, <2>2 DEF NothingIsLost
  <2>4. FirstMatchDecides' BY <2>1 DEF FirstMatchDecides
  <2> QED BY <1>2, <1>3, <1>6, <2>1, <2>3, <2>4 DEF FoundInv
<1> QED BY <1>4, <1>5, <1>6

\* What is found was the rest of the innermost call.
LEMMA FoundMatchKeepsFound == ASSUME SearchInv, FoundInv, FoundMatch PROVE FoundInv'
<1>1. /\ phase = "call" /\ phase' = "return" /\ EdgesToGo = 0
      /\ foundMappings' = Append(foundMappings, currentMapping)
      /\ UNCHANGED <<input, stack, currentMapping>>
  BY DEF FoundMatch, shared
<1>2. /\ Wanted' = Wanted /\ PartialMaps' = PartialMaps /\ TooLarge' = TooLarge
      /\ \A m : IsMatchOfEdges(m)' <=> IsMatchOfEdges(m)
      /\ source' = source
  BY <1>1, InputDecides
<1>3. /\ IsMatchOfEdges(currentMapping) /\ currentMapping \in PartialMaps
      /\ Mapped(Len(stack)) = DOMAIN source.edges
  BY <1>1, CurrentIsMatch
<1>4. PICK n : n = Len(foundMappings) OBVIOUS
<1>5. foundMappings \in Seq(PartialMaps) /\ n \in Nat BY <1>1, <1>4, LenProperties DEF FoundInv
<1>6. /\ foundMappings' \in Seq(PartialMaps) /\ Len(foundMappings') = n + 1
      /\ \A i \in 1 .. n : foundMappings'[i] = foundMappings[i]
      /\ foundMappings'[n + 1] = currentMapping
  BY <1>1, <1>3, <1>4, <1>5, AppendProperties
<1>7. 1 .. n + 1 = (1 .. n) \cup {n + 1} BY <1>5
<1>8. (\A i \in 1 .. Len(foundMappings) : IsMatchOfEdges(foundMappings[i]))'
  <2>1. PICK f : f = foundMappings' OBVIOUS
  <2>2. \A i \in 1 .. n : IsMatchOfEdges(foundMappings[i]) BY <1>1, <1>4 DEF FoundInv
  <2>3. \A i \in 1 .. n + 1 : IsMatchOfEdges(f[i]) BY <1>3, <1>6, <1>7, <2>1, <2>2
  <2> QED BY <1>2, <1>6, <2>1, <2>3
<1>9. ASSUME NEW g \in Wanted PROVE (IsFound(g) \/ IsPending(g))'
  <2>1. CASE IsFound(g)
    <3>1. PICK i \in 1 .. n : \A e \in DOMAIN source.edges : foundMappings[i][e] = g[e]
      BY <1>4, <2>1 DEF IsFound
    <3> QED BY <1>2, <1>6, <1>7, <3>1 DEF IsFound
  <2>2. CASE AgreesUpTo(g, Len(stack))
    <3>1. \A e \in DOMAIN source.edges : currentMapping[e] = g[e]
      BY <1>3, <2>2 DEF AgreesUpTo, Mapped
    <3>2. IsFound(g)' BY <1>2, <1>6, <1>7, <3>1 DEF IsFound
    <3> QED BY <3>2
  <2>3. CASE IsPending(g) /\ ~ AgreesUpTo(g, Len(stack))
    <3>1. IsPending(g)' BY <1>1, <2>3 DEF IsPending, AgreesUpTo
    <3> QED BY <3>1
  <2>4. IsFound(g) \/ IsPending(g) BY <1>1 DEF FoundInv, NothingIsLost, Running
  <2> QED BY <2>1, <2>2, <2>3, <2>4
<1>10. NothingIsLost' BY <1>2, <1>9 DEF NothingIsLost
<1>11. input.stopFast => Len(foundMappings') <= 1
  <2>1. input.stopFast => n = 0 BY <1>1, <1>4, EmptySeq DEF FoundInv
  <2> QED BY <1>6, <2>1
<1>12. FirstMatchDecides' BY <1>1 DEF FirstMatchDecides
<1>13. ~ TooLarge' BY <1>1, <1>2 DEF FoundInv
<1> QED BY <1>1, <1>2, <1>6, <1>8, <1>10, <1>11, <1>12, <1>13 DEF FoundInv

\* The last call ends, or a match is enough.
LEMMA LastStepKeepsFound ==
  ASSUME SearchInv, FoundInv, EndLoop \/ StopOnFirstFind
  PROVE  FoundInv'
<1>1. /\ Running /\ phase # "done" /\ UNCHANGED <<input, foundMappings>>
      /\ phase' \in {"return", "isolated"}
  BY DEF Running, EndLoop, StopOnFirstFind
<1>2. CASE phase' = "return"
  <2>1. EndLoop BY <1>2 DEF StopOnFirstFind
  <2>2. \A g \in Wanted : IsPending(g) => IsPending(g)' BY <2>1, EndLoopKeepsPending
  <2> QED BY <1>1, <1>2, <2>2, InnerStepKeepsFound DEF Running
<1>3. CASE phase' = "isolated"
  <2>1. /\ Wanted' = Wanted /\ PartialMaps' = PartialMaps /\ TooLarge' = TooLarge
        /\ \A m : IsMatchOfEdges(m)' <=> IsMatchOfEdges(m)
        /\ source' = source
    BY <1>1, InputDecides
  <2>2. \A g \in Wanted : IsFound(g) \/ (input.stopFast /\ foundMappings # <<>>)
    <3>1. CASE EndLoop
      <4>1. Len(stack) = 1 BY <1>3, <3>1 DEF EndLoop
      <4>2. \A g \in Wanted : ~ IsPending(g) BY <3>1, <4>1, EndLoopKeepsPending
      <4> QED BY <1>1, <4>2 DEF FoundInv, NothingIsLost
    <3>2. CASE StopOnFirstFind BY <3>2 DEF StopOnFirstFind
    <3> QED BY <3>1, <3>2
  <2>3. \A g \in Wanted : IsFound(g)' <=> IsFound(g) BY <1>1, <2>1 DEF IsFound
  <2>4. (\A i \in 1 .. Len(foundMappings) : IsMatchOfEdges(foundMappings[i]))'
    BY <1>1, <2>1 DEF FoundInv
  <2>5. NothingIsLost' /\ FirstMatchDecides'
    BY <1>3 DEF NothingIsLost, Running, FirstMatchDecides
  <2>6. foundMappings' \in Seq(PartialMaps') /\ ~ TooLarge'
    BY <1>1, <2>1 DEF FoundInv, Running
  <2>7. input'.stopFast => Len(foundMappings') <= 1 BY <1>1 DEF FoundInv
  <2> QED BY <1>1, <1>3, <2>1, <2>2, <2>3, <2>4, <2>5, <2>6, <2>7 DEF FoundInv
<1> QED BY <1>1, <1>2, <1>3

\* What the first match and the isolated vertices make together.
LEMMA MapIsolatedNodesKeepsFound == ASSUME SearchInv, FoundInv, MapIsolatedNodes PROVE FoundInv'
<1>1. /\ phase = "isolated" /\ phase' = "done" /\ input' = input /\ input \in Inputs
  BY DEF MapIsolatedNodes, SearchInv, SearchTypeOK
<1>2. /\ Wanted' = Wanted /\ AllMatches' = AllMatches
  BY <1>1, InputDecides
<1> SUFFICES ASSUME input.stopFast
             PROVE  /\ Len(foundMappings') <= 1
                    /\ Range(foundMappings') \subseteq AllMatches
                    /\ Wanted # {} => foundMappings' # <<>>
  <2>1. FirstMatchDecides' <=> (input.stopFast =>
          /\ Len(foundMappings') <= 1
          /\ Range(foundMappings') \subseteq AllMatches
          /\ Wanted # {} => foundMappings' # <<>>)
    <3>1. Wanted' = (IF input.injective THEN InjectiveMatches ELSE AllMatches)' BY DEF Wanted
    <3> QED BY <1>1, <1>2, <3>1 DEF FirstMatchDecides
  <2>2. input'.stopFast => Len(foundMappings') <= 1 BY <1>1, <2>1
  <2> QED BY <1>1, <2>1, <2>2 DEF FoundInv, NothingIsLost, Running
<1>3. CASE foundMappings = <<>>
  <2>1. foundMappings' = <<>> /\ Len(<<>>) = 0 BY <1>3, EmptySeq DEF MapIsolatedNodes
  <2>2. \A g \in Wanted : FALSE
    <3>1. \A g \in Wanted : IsFound(g) BY <1>1, <1>3 DEF FoundInv
    <3> QED BY <1>3, <2>1, <3>1 DEF IsFound
  <2> QED BY <2>1, <2>2, RangeOfEmpty
<1>4. CASE foundMappings # <<>>
  <2>1. PICK m : m = Head(foundMappings) OBVIOUS
  <2>2. /\ foundMappings \in Seq(PartialMaps) /\ Len(foundMappings) = 1 /\ foundMappings[1] = m
        /\ IsMatchOfEdges(m) /\ ~ TooLarge
    <3>1. foundMappings \in Seq(PartialMaps) /\ Len(foundMappings) <= 1 /\ ~ TooLarge
      BY <1>1 DEF FoundInv
    <3>2. Len(foundMappings) \in Nat \ {0} BY <1>4, <3>1, EmptySeq
    <3>3. Len(foundMappings) = 1 /\ 1 \in 1 .. Len(foundMappings)
      <4>1. PICK l : l = Len(foundMappings) OBVIOUS
      <4>2. l \in Nat \ {0} /\ l <= 1 BY <3>1, <3>2, <4>1
      <4>3. l = 1 /\ 1 \in 1 .. l BY <4>2
      <4> QED BY <4>1, <4>3
    <3>4. foundMappings[1] = m BY <1>4, <2>1, <3>1
    <3>5. IsMatchOfEdges(foundMappings[1]) BY <1>1, <3>3 DEF FoundInv
    <3> QED BY <3>1, <3>3, <3>4, <3>5
  <2>3. PICK nodes : nodes = source.vertices \ DOMAIN m OBVIOUS
  <2>4. IsolatedNodes = nodes BY <2>1, <2>3 DEF IsolatedNodes
  <2> SUFFICES \E f \in [nodes -> target.vertices] : foundMappings' = <<With(m, f)>>
    <3>1. PICK f \in [nodes -> target.vertices] : foundMappings' = <<With(m, f)>> OBVIOUS
    <3>2. With(m, f) \in AllMatches BY <1>1, <2>2, <2>3, <3>1, ExtensionIsMatch
    <3>3. /\ Len(<<With(m, f)>>) = 1 /\ <<With(m, f)>> # <<>>
          /\ Range(<<With(m, f)>>) = {With(m, f)}
      BY DEF Range
    <3> QED BY <3>1, <3>2, <3>3
  <2>5. CASE nodes = {}
    <3>1. foundMappings' = foundMappings BY <2>4, <2>5 DEF MapIsolatedNodes
    <3>2. PICK f \in [nodes -> target.vertices] : DOMAIN f = {}
      <4>1. [x \in nodes |-> x] \in [nodes -> target.vertices] BY <2>5
      <4>2. DOMAIN [x \in nodes |-> x] = {} BY <2>5
      <4> QED BY <4>1, <4>2
    <3>3. m \in [DOMAIN m -> Elements(target)]
      <4>1. 1 \in 1 .. Len(foundMappings) BY <2>2
      <4>2. m \in PartialMaps BY <2>2, <4>1, ElementOfSeq
      <4> QED BY <4>2 DEF PartialMaps
    <3>4. With(m, f) = m BY <3>2, <3>3 DEF With
    <3>5. foundMappings = <<m>> BY <2>2
    <3> QED BY <3>1, <3>4, <3>5
  <2>6. CASE nodes # {} /\ input.injective
    <3>1. foundMappings' = FirstFit(m) BY <1>4, <2>1, <2>4, <2>6 DEF MapIsolatedNodes
    <3>2. PICK free : free = target.vertices \ Range(m) OBVIOUS
    <3>3. /\ IsFiniteSet(nodes) /\ nodes \subseteq Nat /\ IsFiniteSet(free) /\ free \subseteq Nat
      BY <1>1, <2>3, <3>2, InputFacts, FS_Subset DEF IsGraph
    <3>4. Cardinality(nodes) <= Cardinality(free)
      BY <1>1, <2>2, <2>3, <2>6, <3>2, EnoughFreeVertices
    <3>5. PICK from, to : from = Ascending(nodes) /\ to = Ascending(free) OBVIOUS
    <3>6. PICK k \in Nat, l \in Nat :
            /\ k = Cardinality(nodes) /\ l = Cardinality(free) /\ k <= l
            /\ from \in [1 .. k -> nodes] /\ to \in [1 .. l -> free]
            /\ Len(from) = k /\ Len(to) = l
            /\ \A v \in nodes : \E i \in 1 .. k : from[i] = v
      <4>1. /\ Cardinality(nodes) \in Nat /\ Len(from) = Cardinality(nodes)
            /\ from \in [1 .. Cardinality(nodes) -> nodes]
            /\ \A v \in nodes : \E i \in 1 .. Cardinality(nodes) : from[i] = v
        BY <3>3, <3>5, AscendingFacts DEF GoesUpThrough
      <4>2. /\ Cardinality(free) \in Nat /\ Len(to) = Cardinality(free)
            /\ to \in [1 .. Cardinality(free) -> free]
        BY <3>3, <3>5, AscendingFacts DEF GoesUpThrough
      <4> QED BY <3>4, <4>1, <4>2
    <3> DEFINE f == [v \in nodes |-> to[CHOOSE i \in DOMAIN from : from[i] = v]]
    <3>7. f \in [nodes -> target.vertices]
      <4> SUFFICES ASSUME NEW v \in nodes
                   PROVE  to[CHOOSE i \in DOMAIN from : from[i] = v] \in target.vertices
        OBVIOUS
      <4>1. (CHOOSE i \in DOMAIN from : from[i] = v) \in 1 .. k BY <3>6
      <4>2. (CHOOSE i \in DOMAIN from : from[i] = v) \in 1 .. l BY <3>6, <4>1
      <4> QED BY <3>2, <3>6, <4>2
    <3>8. FirstFit(m) = <<With(m, f)>> BY <2>4, <3>2, <3>5, <3>6 DEF FirstFit
    <3> HIDE DEF f
    <3> QED BY <3>1, <3>7, <3>8
  <2>7. CASE nodes # {} /\ ~ input.injective
    <3>1. foundMappings' = AllTo(m, Min(target.vertices))
      BY <1>1, <1>4, <2>1, <2>4, <2>7 DEF MapIsolatedNodes
    <3>2. target.vertices # {} /\ target.vertices \subseteq Nat
      BY <1>1, <2>7, InputsAreReadable, InputFacts DEF IsGraph, target
    <3>3. PICK w : w = Min(target.vertices) OBVIOUS
    <3>4. w \in target.vertices BY <3>2, <3>3, MinIsElement
    <3>5. [x \in nodes |-> w] \in [nodes -> target.vertices] BY <3>4
    <3>6. AllTo(m, w) = <<With(m, [x \in nodes |-> w])>> BY <2>4 DEF AllTo
    <3> QED BY <3>1, <3>3, <3>5, <3>6
  <2> QED BY <2>5, <2>6, <2>7
<1> QED BY <1>3, <1>4

\* Every reachable state of every search satisfies this invariant, too.
LEMMA FoundInvariant == Spec => []FoundInv
<1>1. Init => FoundInv
  <2> SUFFICES ASSUME Init PROVE FoundInv
    OBVIOUS
  <2>1. phase = "start" /\ foundMappings = <<>> BY DEF Init
  <2>2. <<>> \in Seq(PartialMaps) /\ Len(<<>>) = 0 BY EmptySeq
  <2> QED BY <2>1, <2>2 DEF FoundInv, NothingIsLost, Running, FirstMatchDecides
<1>2. FoundInv /\ SearchInv /\ [Next]_vars => FoundInv'
  <2> SUFFICES ASSUME FoundInv, SearchInv, [Next]_vars PROVE FoundInv'
    OBVIOUS
  <2>1. CASE ChooseEdge
    <3>1. /\ phase = "call" /\ phase' = "loop" /\ UNCHANGED <<input, foundMappings>>
      BY <2>1 DEF ChooseEdge, CallOn
    <3>2. input.stopFast => foundMappings = <<>> BY <3>1 DEF FoundInv
    <3>3. \A g \in Wanted : IsPending(g) => IsPending(g)' BY <2>1, ChooseEdgeKeepsPending
    <3> QED BY <3>1, <3>2, <3>3, InnerStepKeepsFound DEF Running
  <2>2. CASE MapEdge
    <3>1. /\ phase = "loop" /\ phase' = "call" /\ UNCHANGED <<input, foundMappings>>
      BY <2>2 DEF MapEdge, MapTo
    <3>2. input.stopFast => foundMappings = <<>> BY <3>1 DEF FoundInv
    <3>3. \A g \in Wanted : IsPending(g) => IsPending(g)' BY <2>2, MapEdgeKeepsPending
    <3> QED BY <3>1, <3>2, <3>3, InnerStepKeepsFound DEF Running
  <2>3. CASE Undo
    <3>1. /\ phase = "return" /\ phase' = "loop" /\ UNCHANGED <<input, foundMappings>>
          /\ input.stopFast => foundMappings = <<>>
      BY <2>3 DEF Undo
    <3>2. \A g \in Wanted : IsPending(g) => IsPending(g)' BY <2>3, UndoKeepsPending
    <3> QED BY <3>1, <3>2, InnerStepKeepsFound DEF Running
  <2>4. CASE UNCHANGED vars
    <3>1. UNCHANGED <<input, phase, stack, currentMapping, foundMappings>> BY <2>4 DEF vars
    <3>2. /\ Wanted' = Wanted /\ PartialMaps' = PartialMaps /\ TooLarge' = TooLarge
          /\ AllMatches' = AllMatches
          /\ \A m : IsMatchOfEdges(m)' <=> IsMatchOfEdges(m)
          /\ source' = source
      BY <3>1, InputDecides
    <3>3. \A g : (IsPending(g)' <=> IsPending(g)) /\ (IsFound(g)' <=> IsFound(g))
      BY <3>1, <3>2 DEF IsPending, AgreesUpTo, IsFound
    <3>4. NothingIsLost' <=> NothingIsLost BY <3>1, <3>2, <3>3 DEF NothingIsLost, Running
    <3>5. FirstMatchDecides' <=> FirstMatchDecides
      <4>1. InjectiveMatches' = InjectiveMatches BY <3>2 DEF InjectiveMatches
      <4> QED BY <3>1, <3>2, <4>1 DEF FirstMatchDecides
    <3>6. (phase # "done" => \A i \in 1 .. Len(foundMappings) : IsMatchOfEdges(foundMappings[i]))'
      BY <3>1, <3>2 DEF FoundInv
    <3>7. (phase = "isolated" =>
             \A g \in Wanted : IsFound(g) \/ (input.stopFast /\ foundMappings # <<>>))'
      BY <3>1, <3>2, <3>3 DEF FoundInv
    <3> QED BY <3>1, <3>2, <3>4, <3>5, <3>6, <3>7 DEF FoundInv
  <2> QED
    BY <2>1, <2>2, <2>3, <2>4, FindMatchesKeepsFound, FoundMatchKeepsFound, LastStepKeepsFound,
       MapIsolatedNodesKeepsFound DEF Next
<1> QED BY <1>1, <1>2, SearchInvariant, PTL DEF Spec

\* For all graphs: a search that stops at the first match returns at most one mapping, a
\* morphism, and it returns one if there is a match of the kind asked for.
THEOREM FirstMatchIsDecisive == Spec => []FirstMatchDecides
<1>1. FoundInv => FirstMatchDecides BY DEF FoundInv
<1> QED BY <1>1, FoundInvariant, PTL

-----------------------------------------------------------------------------
(* Nothing is found twice *)

\* Two of the mappings found send an edge to different places.
FoundApart ==
  \A i, j \in 1 .. Len(foundMappings) :
    i # j => \E e \in DOMAIN source.edges : foundMappings[i][e] # foundMappings[j][e]

\* What is found is not still to come, and no call has its current target again.
FoundIsPast ==
  /\ \A i \in 1 .. Len(foundMappings) : ~ IsPending(foundMappings[i])
  /\ \A k \in 1 .. Depth : currentMapping[stack[k].edge] \notin stack[k].possibleTargets

NothingComesTwice ==
  /\ phase # "done" => FoundApart
  /\ Running => FoundIsPast

\* A step that finds nothing brings nothing back that is past.
LEMMA InnerStepKeepsApart ==
  ASSUME NothingComesTwice, phase # "done", UNCHANGED <<input, foundMappings>>,
         Running' => /\ Running
                     /\ \A g : IsPending(g)' => IsPending(g)
                     /\ \A k \in 1 .. Depth' :
                          currentMapping'[stack'[k].edge] \notin stack'[k].possibleTargets
  PROVE  NothingComesTwice'
<1>1. FoundApart' BY DEF NothingComesTwice, FoundApart, source
<1>2. ASSUME Running' PROVE FoundIsPast'
  <2>1. FoundIsPast BY <1>2 DEF NothingComesTwice
  <2>2. \A i \in 1 .. Len(foundMappings) : ~ IsPending(foundMappings[i]) BY <2>1 DEF FoundIsPast
  <2>3. (\A i \in 1 .. Len(foundMappings) : ~ IsPending(foundMappings[i]))'
    <3>1. PICK f : f = foundMappings OBVIOUS
    <3>2. \A i \in 1 .. Len(f) : ~ IsPending(f[i])' BY <1>2, <2>2, <3>1
    <3> QED BY <3>1, <3>2
  <2> QED BY <1>2, <2>3 DEF FoundIsPast
<1> QED BY <1>1, <1>2 DEF NothingComesTwice

\* What is found differs from all that was found before: that is past, and this was still to come.
LEMMA FoundMatchKeepsApart ==
  ASSUME SearchInv, FoundInv, NothingComesTwice, FoundMatch
  PROVE  NothingComesTwice'
<1>1. /\ phase = "call" /\ phase' = "return" /\ EdgesToGo = 0
      /\ foundMappings' = Append(foundMappings, currentMapping)
      /\ UNCHANGED <<input, stack, currentMapping>>
  BY DEF FoundMatch, shared
<1>2. currentMapping \in PartialMaps /\ Mapped(Len(stack)) = DOMAIN source.edges
  BY <1>1, CurrentIsMatch
<1>3. PICK n : n = Len(foundMappings) OBVIOUS
<1>4. foundMappings \in Seq(PartialMaps) /\ n \in Nat BY <1>1, <1>3, LenProperties DEF FoundInv
<1>5. /\ Len(foundMappings') = n + 1
      /\ \A i \in 1 .. n : foundMappings'[i] = foundMappings[i]
      /\ foundMappings'[n + 1] = currentMapping
  BY <1>1, <1>2, <1>3, <1>4, AppendProperties
<1>6. \A i : i \in 1 .. n + 1 <=> i \in 1 .. n \/ i = n + 1 BY <1>4
<1>7. FoundApart /\ FoundIsPast BY <1>1 DEF NothingComesTwice, Running
<1>8. \A i \in 1 .. n : \E e \in DOMAIN source.edges : foundMappings[i][e] # currentMapping[e]
  <2> SUFFICES ASSUME NEW i \in 1 .. n,
                      \A e \in DOMAIN source.edges : foundMappings[i][e] = currentMapping[e]
               PROVE  FALSE
    OBVIOUS
  <2>1. \A j \in 1 .. Len(stack) : stack[j].edge \in DOMAIN source.edges BY <1>2 DEF Mapped
  <2>2. AgreesUpTo(foundMappings[i], Len(stack)) BY <2>1 DEF AgreesUpTo
  <2> QED BY <1>1, <1>3, <1>7, <2>2 DEF FoundIsPast, IsPending
<1>9. FoundApart'
  <2>1. source' = source BY <1>1 DEF source
  <2> SUFFICES ASSUME NEW i \in 1 .. n + 1, NEW j \in 1 .. n + 1, i # j
               PROVE  \E e \in DOMAIN source.edges : foundMappings'[i][e] # foundMappings'[j][e]
    BY <1>5, <2>1 DEF FoundApart
  <2>2. CASE i \in 1 .. n /\ j \in 1 .. n BY <1>3, <1>5, <1>7, <2>2 DEF FoundApart
  <2>3. CASE i \in 1 .. n /\ j = n + 1 BY <1>5, <1>8, <2>3
  <2>4. CASE i = n + 1 /\ j \in 1 .. n
    <3>1. PICK e \in DOMAIN source.edges : foundMappings[j][e] # currentMapping[e] BY <1>8, <2>4
    <3> QED BY <1>5, <2>4, <3>1
  <2> QED BY <1>6, <2>2, <2>3, <2>4
<1>10. Depth' = Depth /\ Depth = Len(stack) BY <1>1 DEF Depth
<1>11. \A k \in 1 .. Len(stack) : currentMapping[stack[k].edge] \notin stack[k].possibleTargets
  BY <1>7, <1>10 DEF FoundIsPast
<1>12. \A g : IsPending(g)' =>
         /\ IsPending(g)
         /\ \E k \in 1 .. Len(stack) : g[stack[k].edge] \in stack[k].possibleTargets
  BY <1>1 DEF IsPending, AgreesUpTo
<1>13. PICK f : f = foundMappings' OBVIOUS
<1>14. ASSUME NEW i \in 1 .. n + 1 PROVE ~ IsPending(f[i])'
  <2>1. CASE i \in 1 .. n
    <3>1. ~ IsPending(foundMappings[i]) BY <1>3, <1>7, <2>1 DEF FoundIsPast
    <3>2. ~ IsPending(f[i]) BY <1>5, <1>13, <2>1, <3>1
    <3> QED BY <1>12, <3>2
  <2>2. CASE i = n + 1
    <3>1. f[i] = currentMapping BY <1>5, <1>13, <2>2
    <3>2. ~ \E k \in 1 .. Len(stack) : f[i][stack[k].edge] \in stack[k].possibleTargets
      BY <1>11, <3>1
    <3> QED BY <1>12, <3>2
  <2> QED BY <1>6, <2>1, <2>2
<1>15. FoundIsPast'
  <2>1. (\A i \in 1 .. Len(foundMappings) : ~ IsPending(foundMappings[i]))'
    <3>1. \A i \in 1 .. n + 1 : ~ IsPending(f[i])' BY <1>14
    <3> QED BY <1>5, <1>13, <3>1
  <2> QED BY <1>1, <1>10, <1>11, <2>1 DEF FoundIsPast
<1> QED BY <1>9, <1>15 DEF NothingComesTwice

\* Each step of a call leaves past what is past.
LEMMA CallStepKeepsApart ==
  ASSUME SearchInv, NothingComesTwice, ChooseEdge \/ MapEdge \/ Undo \/ EndLoop
  PROVE  NothingComesTwice'
<1>n. PICK n : n = Len(stack) OBVIOUS
<1>1. CASE ChooseEdge
  <2>1. PICK e, targets : stack' = Append(stack,
          [edge |-> e, possibleTargets |-> targets, mappableEdgeDeleted |-> e \in mappableEdges,
           mappingDiff |-> {}, revDiff |-> {}, mappableDiff |-> {}])
    BY <1>1 DEF ChooseEdge, CallOn
  <2>2. /\ phase = "call" /\ phase' = "loop" /\ UNCHANGED <<input, currentMapping, foundMappings>>
    BY <1>1 DEF ChooseEdge, CallOn
  <2>3. stack \in Seq(Frames) /\ n \in Nat BY <1>n, LenProperties DEF SearchInv, SearchTypeOK
  <2>4. Len(stack') = n + 1 /\ \A k \in 1 .. n : stack'[k] = stack[k]
    BY <1>n, <2>1, <2>3, AppendProperties
  <2>5. Depth' = n /\ Depth = n BY <1>n, <2>2, <2>3, <2>4 DEF Depth
  <2>6. FoundIsPast BY <2>2 DEF NothingComesTwice, Running
  <2>7. \A k \in 1 .. Depth' : currentMapping'[stack'[k].edge] \notin stack'[k].possibleTargets
    BY <2>2, <2>4, <2>5, <2>6 DEF FoundIsPast
  <2>8. \A g : IsPending(g)' => IsPending(g) BY <1>1, ChooseEdgeKeepsPending
  <2> QED BY <2>2, <2>7, <2>8, InnerStepKeepsApart DEF Running
<1>2. CASE MapEdge
  <2>1. phase = "loop" /\ phase' = "call" /\ UNCHANGED <<input, foundMappings>>
    BY <1>2 DEF MapEdge, MapTo
  <2>2. PICK t \in Frame.possibleTargets : MapTo(t, Frame.possibleTargets \ {t})
    BY <1>2 DEF MapEdge
  <2>3. /\ stack \in Seq(Frames) /\ n \in Nat \ {0} /\ Frame = stack[n] /\ Frame \in Frames
        /\ DOMAIN stack = 1 .. n /\ Frame.edge \notin Mapped(n - 1)
        /\ Mapped(n - 1) \subseteq Level(n - 1)
    BY <1>n, <2>1, CallsBelow
  <2>4. PICK image :
          /\ currentMapping' = With(currentMapping, image)
          /\ Frame.edge \in DOMAIN image /\ image[Frame.edge] = t
          /\ DOMAIN image \subseteq {Frame.edge}
               \cup (Range(VerticesOf(source, Frame.edge)) \ DOMAIN currentMapping)
          /\ \E rev, next : stack' = [stack EXCEPT ![n] =
               [@ EXCEPT !.possibleTargets = Frame.possibleTargets \ {t},
                         !.mappingDiff = DOMAIN image, !.revDiff = rev, !.mappableDiff = next]]
    <3> DEFINE new == Range(VerticesOf(source, Frame.edge)) \ DOMAIN currentMapping
               image == [x \in new \cup {Frame.edge} |->
                           IF x = Frame.edge THEN t ELSE ImageAt(Frame.edge, t, x)]
               next == (UNION {ConnectedEdges(source, v) : v \in new})
                         \ (DOMAIN currentMapping \cup {Frame.edge} \cup mappableEdges)
    <3>1. currentMapping' = With(currentMapping, image) BY <2>2 DEF MapTo
    <3>2. stack' = [stack EXCEPT ![n] =
               [@ EXCEPT !.possibleTargets = Frame.possibleTargets \ {t},
                         !.mappingDiff = DOMAIN image,
                         !.revDiff = IF input.injective THEN Range(image) ELSE {},
                         !.mappableDiff = next]]
      BY <1>n, <2>2 DEF MapTo
    <3>3. DOMAIN image = new \cup {Frame.edge} /\ image[Frame.edge] = t OBVIOUS
    <3> QED BY <3>1, <3>2, <3>3
  <2>5. PICK fr : stack' = [stack EXCEPT ![n] = fr] /\ fr.edge = Frame.edge
                  /\ fr.possibleTargets = Frame.possibleTargets \ {t}
    <3>1. PICK rev, next : stack' = [stack EXCEPT ![n] =
               [@ EXCEPT !.possibleTargets = Frame.possibleTargets \ {t},
                         !.mappingDiff = DOMAIN image, !.revDiff = rev, !.mappableDiff = next]]
      BY <2>4
    <3>2. PICK fr : fr = [stack[n] EXCEPT !.possibleTargets = Frame.possibleTargets \ {t},
                         !.mappingDiff = DOMAIN image, !.revDiff = rev, !.mappableDiff = next]
      OBVIOUS
    <3>3. stack' = [stack EXCEPT ![n] = fr] BY <2>3, <3>1, <3>2
    <3>4. fr.edge = Frame.edge /\ fr.possibleTargets = Frame.possibleTargets \ {t}
      BY <2>3, <3>2 DEF Frames
    <3> QED BY <3>3, <3>4
  <2>6. stack'[n] = fr /\ \A k \in 1 .. n - 1 : stack'[k] = stack[k]
    <3>1. n \in DOMAIN stack /\ \A k \in 1 .. n - 1 : k \in DOMAIN stack /\ k # n BY <2>3
    <3> QED BY <2>5, <3>1
  <2>7. Len(stack') = n BY <1>n, <2>3, <2>5, ExceptSeq
  <2>8. Depth' = n /\ Depth = n - 1 BY <1>n, <2>1, <2>3, <2>7 DEF Depth
  <2>9. FoundIsPast /\ DOMAIN currentMapping = Level(n - 1)
    BY <2>1, <2>8 DEF NothingComesTwice, SearchInv, Running
  <2>10. ASSUME NEW k \in 1 .. n
         PROVE  currentMapping'[stack'[k].edge] \notin stack'[k].possibleTargets
    <3>1. CASE k = n BY <2>4, <2>5, <2>6, <3>1 DEF With
    <3>2. CASE k # n
      <4>1. k \in 1 .. n - 1 BY <2>3, <3>2
      <4>2. stack[k].edge \in Mapped(n - 1) BY <4>1 DEF Mapped
      <4>3. stack[k].edge \in DOMAIN currentMapping \ DOMAIN image BY <2>3, <2>4, <2>9, <4>2
      <4>4. currentMapping'[stack[k].edge] = currentMapping[stack[k].edge]
        BY <2>4, <4>3 DEF With
      <4> QED BY <2>6, <2>8, <2>9, <4>1, <4>4 DEF FoundIsPast
    <3> QED BY <3>1, <3>2
  <2>11. \A g : IsPending(g)' => IsPending(g) BY <1>2, MapEdgeKeepsPending
  <2> QED BY <2>1, <2>8, <2>10, <2>11, InnerStepKeepsApart DEF Running
<1>3. CASE Undo
  <2>1. /\ phase = "return" /\ phase' = "loop" /\ stack' = stack /\ UNCHANGED <<input, foundMappings>>
        /\ currentMapping' = Without(currentMapping, Frame.mappingDiff)
    BY <1>3 DEF Undo
  <2>2. /\ n \in Nat \ {0} /\ Frame = stack[n] /\ Mapped(n - 1) \subseteq Level(n - 1)
        /\ n - 1 \in 0 .. n /\ n \in 0 .. Len(stack) /\ SearchTypeOK
    BY <1>n, <2>1, CallsBelow
  <2>3. Depth = n /\ Depth' = n - 1 /\ Running BY <1>n, <2>1, <2>2 DEF Depth, Running
  <2>4. DOMAIN currentMapping = Level(n) /\ Frame.mappingDiff = Level(n) \ Level(n - 1)
    <3>1. n \in 1 .. Depth BY <2>2, <2>3
    <3> QED BY <2>2, <2>3, <3>1 DEF SearchInv, CallIsRight
  <2>5. Level(n - 1) \subseteq Level(n) BY <2>2, LevelFacts
  <2>6. FoundIsPast BY <2>3 DEF NothingComesTwice
  <2>7. ASSUME NEW k \in 1 .. n - 1
        PROVE  currentMapping'[stack'[k].edge] \notin stack'[k].possibleTargets
    <3>1. stack[k].edge \in Level(n - 1) BY <2>2 DEF Mapped
    <3>2. currentMapping'[stack[k].edge] = currentMapping[stack[k].edge]
      BY <2>1, <2>4, <2>5, <3>1 DEF Without, Restrict
    <3>3. k \in 1 .. n BY <2>2
    <3> QED BY <2>1, <2>3, <2>6, <3>2, <3>3 DEF FoundIsPast
  <2>8. \A g : IsPending(g)' => IsPending(g) BY <1>3, UndoKeepsPending
  <2> QED BY <2>1, <2>3, <2>7, <2>8, InnerStepKeepsApart DEF Running
<1>4. CASE EndLoop
  <2>1. /\ phase = "loop" /\ stack' = Front(stack)
        /\ UNCHANGED <<input, currentMapping, foundMappings>> /\ phase' \in {"isolated", "return"}
    BY <1>4 DEF EndLoop
  <2>2. stack \in Seq(Frames) /\ n \in Nat \ {0} BY <1>n, <2>1, CallsBelow
  <2>3. Len(stack') = n - 1 /\ \A k \in 1 .. n - 1 : stack'[k] = stack[k]
    <3>1. stack # <<>> BY <1>n, <2>2, EmptySeq
    <3> QED BY <1>n, <2>1, <2>2, <3>1, FrontElements
  <2>4. Depth = n - 1 /\ Depth' = n - 1 /\ Running BY <1>n, <2>1, <2>2, <2>3 DEF Depth, Running
  <2>5. FoundIsPast BY <2>4 DEF NothingComesTwice
  <2>6. \A k \in 1 .. Depth' : currentMapping'[stack'[k].edge] \notin stack'[k].possibleTargets
    BY <2>1, <2>3, <2>4, <2>5 DEF FoundIsPast
  <2>7. \A g : IsPending(g)' => IsPending(g) BY <1>4, EndLoopKeepsPending
  <2> QED BY <2>1, <2>4, <2>6, <2>7, InnerStepKeepsApart DEF Running
<1> QED BY <1>1, <1>2, <1>3, <1>4

-----------------------------------------------------------------------------
(* The odometer that sends isolated vertices everywhere *)

Digits(k, last) == [1 .. k -> 0 .. last]

\* The last place in which two vectors differ decides.
Before(d, e, k) == \E p \in 1 .. k : d[p] < e[p] /\ \A q \in 1 .. k : p < q => d[q] = e[q]

\* Of two vectors only one is before the other.
LEMMA BeforeIsAsymmetric ==
  ASSUME NEW k \in Nat, NEW last \in Nat, NEW d \in Digits(k, last), NEW e \in Digits(k, last),
         Before(d, e, k)
  PROVE  ~ Before(e, d, k) /\ d # e
<1>1. PICK p \in 1 .. k : d[p] < e[p] /\ \A q \in 1 .. k : p < q => d[q] = e[q] BY DEF Before
<1>2. \A i \in 1 .. k : d[i] \in Nat /\ e[i] \in Nat BY DEF Digits
<1>3. d # e BY <1>1, <1>2
<1> SUFFICES ASSUME Before(e, d, k) PROVE FALSE
  BY <1>3
<1>4. PICK r \in 1 .. k : e[r] < d[r] /\ \A q \in 1 .. k : r < q => e[q] = d[q] BY DEF Before
<1>5. CASE p < r
  <2>1. d[r] = e[r] BY <1>1, <1>5
  <2> QED BY <1>2, <1>4, <2>1
<1>6. CASE r < p
  <2>1. e[p] = d[p] BY <1>4, <1>6
  <2> QED BY <1>1, <1>2, <2>1
<1>7. CASE r = p BY <1>1, <1>2, <1>4, <1>7
<1> QED BY <1>5, <1>6, <1>7

\* Before all others is the vector of zeros.
LEMMA ZerosComeFirst ==
  ASSUME NEW k \in Nat, NEW last \in Nat, NEW e \in Digits(k, last), NEW d \in Digits(k, last),
         NEW p \in 0 .. k, \A q \in 1 .. p : d[q] = 0, \A q \in 1 .. k : p < q => d[q] = e[q]
  PROVE  e = d \/ Before(d, e, k)
<1> DEFINE s == {i \in 1 .. p : e[i] # 0}
<1>1. \A i \in 1 .. k : d[i] \in Nat /\ e[i] \in Nat BY DEF Digits
<1>2. \A i \in 1 .. k : i \in 1 .. p \/ p < i OBVIOUS
<1>3. CASE s = {}
  <2>1. \A i \in 1 .. k : e[i] = d[i] BY <1>2, <1>3
  <2> QED BY <2>1 DEF Digits
<1>4. CASE s # {}
  <2>1. s \in SUBSET (1 .. p) /\ p \in Nat OBVIOUS
  <2> HIDE DEF s
  <2>2. PICK i : i = Max(s) /\ i \in s /\ \A j \in s : j <= i BY <1>4, <2>1, GreatestIndex
  <2>3. i \in 1 .. p /\ e[i] # 0 /\ i \in 1 .. k BY <2>2 DEF s
  <2>4. d[i] < e[i]
    <3>1. d[i] = 0 BY <2>3
    <3> QED BY <1>1, <2>3, <3>1
  <2>5. ASSUME NEW q \in 1 .. k, i < q PROVE d[q] = e[q]
    <3>1. CASE q \in 1 .. p
      <4>1. ~ (q <= i) BY <2>3, <2>5
      <4>2. q \notin s BY <2>2, <4>1
      <4>3. e[q] = 0 BY <3>1, <4>2 DEF s
      <4> QED BY <3>1, <4>3
    <3>2. CASE p < q BY <3>2
    <3> QED BY <1>2, <3>1, <3>2
  <2> QED BY <2>3, <2>4, <2>5 DEF Before
<1> QED BY <1>3, <1>4

\* Counting leads to the next vector.
LEMMA CountUpIsNext ==
  ASSUME NEW k \in Nat, NEW last \in Nat, NEW d \in Digits(k, last), CanCountUp(d, last)
  PROVE  /\ CountUp(d, last) \in Digits(k, last) /\ Before(d, CountUp(d, last), k)
         /\ \A e \in Digits(k, last) :
              Before(d, e, k) <=> e = CountUp(d, last) \/ Before(CountUp(d, last), e, k)
<1>1. \A i \in 1 .. k : d[i] \in 0 .. last /\ d[i] \in Nat BY DEF Digits
<1>2. DOMAIN d = 1 .. k BY DEF Digits
<1> DEFINE free == {i \in DOMAIN d : d[i] < last}
<1>3. PICK p \in 1 .. k : p = Min(free) /\ d[p] < last /\ \A i \in free : p <= i
  <2>1. free \subseteq Nat /\ free # {} BY <1>2 DEF CanCountUp
  <2>2. \E n \in free : \A i \in free : n <= i
    <3> HIDE DEF free
    <3> QED BY <2>1, LeastNatural
  <2>3. Min(free) \in free /\ \A i \in free : Min(free) <= i BY <2>2 DEF Min
  <2> QED BY <1>2, <2>3
<1>4. \A i \in 1 .. k : i < p => d[i] = last
  <2>1. \A i \in 1 .. k : i < p => i \notin free BY <1>3
  <2> QED BY <1>1, <1>2, <2>1
<1>5. PICK c : c = CountUp(d, last) OBVIOUS
<1>6. c = [i \in 1 .. k |-> IF i < p THEN 0 ELSE IF i = p THEN d[i] + 1 ELSE d[i]]
  BY <1>2, <1>3, <1>5 DEF CountUp
<1> HIDE DEF free
<1>7. /\ \A i \in 1 .. k : i < p => c[i] = 0
      /\ c[p] = d[p] + 1
      /\ \A i \in 1 .. k : p < i => c[i] = d[i]
  BY <1>6
<1>8. c \in Digits(k, last)
  <2>1. \A i \in 1 .. k : (IF i < p THEN 0 ELSE IF i = p THEN d[i] + 1 ELSE d[i]) \in 0 .. last
    BY <1>1, <1>3
  <2> QED BY <1>6, <2>1 DEF Digits
<1>9. Before(d, c, k)
  <2>1. d[p] < c[p] BY <1>1, <1>7
  <2>2. \A q \in 1 .. k : p < q => d[q] = c[q] BY <1>7
  <2> QED BY <2>1, <2>2 DEF Before
<1>10. \A i \in 1 .. k : c[i] \in Nat BY <1>8 DEF Digits
<1>11. ASSUME NEW e \in Digits(k, last), Before(c, e, k) PROVE Before(d, e, k)
  <2>1. PICK r \in 1 .. k : c[r] < e[r] /\ \A q \in 1 .. k : r < q => c[q] = e[q]
    BY <1>11 DEF Before
  <2>2. \A i \in 1 .. k : e[i] \in Nat BY DEF Digits
  <2>3. CASE p < r
    <3>1. d[r] < e[r] BY <1>7, <2>1, <2>3
    <3>2. \A q \in 1 .. k : r < q => p < q BY <2>3
    <3>3. \A q \in 1 .. k : r < q => d[q] = e[q] BY <1>7, <2>1, <3>2
    <3> QED BY <3>1, <3>3 DEF Before
  <2>4. CASE ~ (p < r)
    <3>1. d[p] < e[p]
      <4>1. CASE p = r BY <1>1, <1>7, <2>1, <2>2, <4>1
      <4>2. CASE p # r
        <5>1. r < p BY <2>4, <4>2
        <5> QED BY <1>1, <1>7, <2>1, <5>1
      <4> QED BY <4>1, <4>2
    <3>2. \A q \in 1 .. k : p < q => r < q BY <2>4
    <3>3. \A q \in 1 .. k : p < q => d[q] = e[q] BY <1>7, <2>1, <3>2
    <3> QED BY <3>1, <3>3 DEF Before
  <2> QED BY <2>3, <2>4
<1>12. ASSUME NEW e \in Digits(k, last), Before(d, e, k) PROVE e = c \/ Before(c, e, k)
  <2>1. PICK r \in 1 .. k : d[r] < e[r] /\ \A q \in 1 .. k : r < q => d[q] = e[q]
    BY <1>12 DEF Before
  <2>2. \A i \in 1 .. k : e[i] \in 0 .. last /\ e[i] \in Nat BY DEF Digits
  <2>3. ~ (r < p) BY <1>4, <2>1, <2>2
  <2>4. CASE p < r
    <3>1. c[r] < e[r] BY <1>7, <2>1, <2>4
    <3>2. \A q \in 1 .. k : r < q => p < q BY <2>4
    <3>3. \A q \in 1 .. k : r < q => c[q] = e[q] BY <1>7, <2>1, <3>2
    <3> QED BY <3>1, <3>3 DEF Before
  <2>5. CASE p = r
    <3>1. \A q \in 1 .. k : p < q => c[q] = e[q] BY <1>7, <2>1, <2>5
    <3>2. CASE c[p] < e[p] BY <3>1, <3>2 DEF Before
    <3>3. CASE c[p] = e[p]
      <4>1. p - 1 \in 0 .. k /\ \A q \in 1 .. p - 1 : q \in 1 .. k /\ q < p BY <1>3
      <4>2. \A q \in 1 .. p - 1 : c[q] = 0 BY <1>7, <4>1
      <4>3. \A q \in 1 .. k : p - 1 < q => q = p \/ p < q BY <1>3
      <4>4. \A q \in 1 .. k : p - 1 < q => c[q] = e[q] BY <3>1, <3>3, <4>3
      <4> QED BY <1>8, <4>1, <4>2, <4>4, ZerosComeFirst
    <3>4. c[p] < e[p] \/ c[p] = e[p] BY <1>1, <1>7, <2>1, <2>2, <2>5
    <3> QED BY <3>2, <3>3, <3>4
  <2> QED BY <2>3, <2>4, <2>5
<1> QED BY <1>5, <1>8, <1>9, <1>11, <1>12

\* At the end nothing is left.
LEMMA LastVectorIsLast ==
  ASSUME NEW k \in Nat, NEW last \in Nat, NEW d \in Digits(k, last), ~ CanCountUp(d, last),
         NEW e \in Digits(k, last)
  PROVE  ~ Before(d, e, k)
<1>1. \A i \in 1 .. k : ~ (d[i] < last) /\ d[i] \in 0 .. last /\ e[i] \in 0 .. last
  BY DEF Digits, CanCountUp
<1>2. \A i \in 1 .. k : ~ (d[i] < e[i]) BY <1>1
<1> QED BY <1>2 DEF Before

\* A vector of one element.
LEMMA SingletonFacts ==
  ASSUME NEW S, NEW x \in S
  PROVE  <<x>> \in Seq(S) /\ Range(<<x>>) = {x} /\ IsInjective(<<x>>)
BY DEF Range, IsInjective

UpFrom(d, k, last) == {e \in Digits(k, last) : e = d \/ Before(d, e, k)}

\* The enumerator returns every vector once.
LEMMA VectorsFacts ==
  ASSUME NEW k \in Nat, NEW last \in Nat
  PROVE  /\ Vectors(last, k) \in Seq(Digits(k, last))
         /\ Range(Vectors(last, k)) = Digits(k, last)
         /\ IsInjective(Vectors(last, k))
<1> DEFINE D == Digits(k, last)
           Up(d) == UpFrom(d, k, last)
           zero == [i \in 1 .. k |-> 0]
           ch == [s \in SUBSET D |-> IF \E d \in D : Up(d) = s THEN CHOOSE d \in D : Up(d) = s
                                                               ELSE CHOOSE x \in s : TRUE]
           F == [p \in D \X Seq(D) |-> <<p[1]>> \o p[2]]
           Step(f) == [data \in D |->
             <<data>> \o (IF CanCountUp(data, last) THEN f[CountUp(data, last)] ELSE <<>>)]
           h == CHOOSE f : f = Step(f)
<1>1. IsFiniteSet(D)
  <2>1. IsFiniteSet(1 .. k) /\ IsFiniteSet(0 .. last) BY FS_Interval
  <2> QED BY <2>1, FunctionsAreFinite DEF Digits
<1>2. \A d \in D : d \in Up(d) /\ Up(d) \in SUBSET D BY DEF UpFrom
<1>3. \A d, e \in D : Up(d) = Up(e) => d = e
  <2> SUFFICES ASSUME NEW d \in D, NEW e \in D, Up(d) = Up(e), d # e PROVE FALSE
    OBVIOUS
  <2>1. Before(d, e, k) /\ Before(e, d, k) BY DEF UpFrom
  <2> QED BY <2>1, BeforeIsAsymmetric
<1>4. ASSUME NEW d \in D
      PROVE  /\ CanCountUp(d, last) => /\ CountUp(d, last) \in D
                                       /\ Up(d) \ {d} = Up(CountUp(d, last))
             /\ ~ CanCountUp(d, last) => Up(d) \ {d} = {}
  <2>1. CASE CanCountUp(d, last)
    <3>1. PICK c : c = CountUp(d, last) OBVIOUS
    <3>2. /\ c \in D /\ Before(d, c, k)
          /\ \A e \in D : Before(d, e, k) <=> e = c \/ Before(c, e, k)
      BY <2>1, <3>1, CountUpIsNext
    <3>3. \A e \in D : Before(d, e, k) => e # d BY BeforeIsAsymmetric
    <3>4. Up(d) \ {d} = Up(c) BY <3>2, <3>3 DEF UpFrom
    <3> QED BY <2>1, <3>1, <3>2, <3>4
  <2>2. CASE ~ CanCountUp(d, last) BY <2>2, LastVectorIsLast DEF UpFrom
  <2> QED BY <2>1, <2>2
<1>5. zero \in D /\ Up(zero) = D
  <2>1. zero \in D BY DEF Digits
  <2>2. ASSUME NEW e \in D PROVE e = zero \/ Before(zero, e, k)
    <3>1. k \in 0 .. k /\ (\A q \in 1 .. k : zero[q] = 0) /\ \A q \in 1 .. k : ~ (k < q) OBVIOUS
    <3> HIDE DEF zero
    <3> QED BY <2>1, <3>1, ZerosComeFirst
  <2> QED BY <2>1, <2>2 DEF UpFrom
<1>6. \A d \in D : ch[Up(d)] = d
  <2> SUFFICES ASSUME NEW d \in D PROVE ch[Up(d)] = d
    OBVIOUS
  <2>1. ch[Up(d)] = CHOOSE e \in D : Up(e) = Up(d) BY <1>2
  <2> QED BY <1>3, <2>1
<1>7. \A s \in SUBSET D : s # {} => ch[s] \in s
  <2> SUFFICES ASSUME NEW s \in SUBSET D, s # {} PROVE ch[s] \in s
    OBVIOUS
  <2>1. CASE \E d \in D : Up(d) = s BY <1>2, <1>6, <2>1
  <2>2. CASE ~ \E d \in D : Up(d) = s
    <3>1. ch[s] = CHOOSE x \in s : TRUE BY <2>2
    <3> QED BY <3>1
  <2> QED BY <2>1, <2>2
<1>8. \A x \in D, t \in Seq(D) : F[<<x, t>>] = <<x>> \o t OBVIOUS
<1>9. F \in [D \X Seq(D) -> Seq(D)]
  <2>1. \A x \in D, t \in Seq(D) : <<x>> \o t \in Seq(D) BY SingletonFacts, RangeOfConcat
  <2> QED BY <2>1
<1>10. <<>> \in Seq(D) BY EmptySeq
<1>11. h = Step(h)
  <2> HIDE DEF ch, F, D, Up, zero
  <2>1. PICK g \in [SUBSET D -> Seq(D)] : IsFold(g, D, <<>>, F, ch)
    BY <1>1, <1>7, <1>9, <1>10, RecursionOnSubsets
  <2> DEFINE f == [d \in D |-> g[Up(d)]]
  <2>2. ASSUME NEW d \in D PROVE f[d] = Step(f)[d]
    <3>1. g[Up(d)] = F[<<d, g[Up(d) \ {d}]>>]
      <4>1. Up(d) \in SUBSET D /\ Up(d) # {} /\ ch[Up(d)] = d BY <1>2, <1>6
      <4> QED BY <2>1, <4>1 DEF IsFold
    <3>2. g[Up(d) \ {d}] \in Seq(D)
      <4>1. Up(d) \ {d} \in SUBSET D BY <1>2
      <4> QED BY <2>1, <4>1
    <3>3. f[d] = <<d>> \o g[Up(d) \ {d}] BY <1>8, <3>1, <3>2
    <3>4. CASE CanCountUp(d, last)
      <4>1. g[Up(d) \ {d}] = f[CountUp(d, last)] BY <1>4, <3>4
      <4> QED BY <3>3, <3>4, <4>1
    <3>5. CASE ~ CanCountUp(d, last)
      <4>1. {} \in SUBSET D OBVIOUS
      <4>2. g[Up(d) \ {d}] = <<>> BY <1>4, <2>1, <3>5, <4>1 DEF IsFold
      <4> QED BY <3>3, <3>5, <4>2
    <3> QED BY <3>4, <3>5
  <2>3. f = Step(f)
    <3>1. DOMAIN f = D /\ f = [d \in D |-> f[d]] OBVIOUS
    <3> HIDE DEF f
    <3>2. Step(f) = [d \in D |-> Step(f)[d]] OBVIOUS
    <3> HIDE DEF Step
    <3> QED BY <2>2, <3>1, <3>2
  <2> HIDE DEF f, Step
  <2> QED BY <2>3
<1>12. Vectors(last, k) = h[zero] BY DEF Vectors, Digits
<1>13. \A d \in D :
         h[d] = <<d>> \o (IF CanCountUp(d, last) THEN h[CountUp(d, last)] ELSE <<>>)
  <2> HIDE DEF h, D
  <2> QED BY <1>11
<1> DEFINE IsRight(d) == h[d] \in Seq(D) /\ Range(h[d]) = Up(d) /\ IsInjective(h[d])
           Good == {s \in SUBSET D : \A d \in D : Up(d) = s => IsRight(d)}
<1> HIDE DEF h, ch, F, D, Up, zero
<1>14. {} \in Good BY <1>2
<1>15. \A s \in SUBSET D : s # {} => \E x \in s : s \ {x} \in Good => s \in Good
  <2> SUFFICES ASSUME NEW s \in SUBSET D, s # {}
               PROVE  \E x \in s : s \ {x} \in Good => s \in Good
    OBVIOUS
  <2>1. CASE \A d \in D : Up(d) # s BY <2>1
  <2>2. ASSUME NEW d \in D, Up(d) = s, s \ {d} \in Good PROVE IsRight(d)
    <3>1. <<d>> \in Seq(D) /\ Range(<<d>>) = {d} /\ IsInjective(<<d>>) BY SingletonFacts
    <3>2. CASE CanCountUp(d, last)
      <4>1. PICK c \in D : c = CountUp(d, last) /\ Up(d) \ {d} = Up(c) BY <1>4, <3>2
      <4>2. IsRight(c) BY <2>2, <4>1
      <4>3. PICK t \in Seq(D) : t = h[c] /\ Range(t) = Up(c) /\ IsInjective(t) BY <4>2
      <4>4. PICK u \in Seq(D) : u = <<d>> /\ Range(u) = {d} /\ IsInjective(u) BY <3>1
      <4>5. h[d] = u \o t BY <1>13, <3>2, <4>1, <4>3, <4>4
      <4>6. u \o t \in Seq(D) /\ Range(u \o t) = {d} \cup Up(c)
        <5>1. u \o t \in Seq(D) /\ Range(u \o t) = Range(u) \cup Range(t) BY RangeOfConcat
        <5> QED BY <4>3, <4>4, <5>1
      <4>7. IsInjective(u \o t)
        <5>1. Range(u) \cap Range(t) = {} BY <4>1, <4>3, <4>4
        <5> QED BY <4>3, <4>4, <5>1, ConcatIsInjective
      <4> QED BY <1>2, <4>1, <4>5, <4>6, <4>7
    <3>3. CASE ~ CanCountUp(d, last)
      <4>1. h[d] = <<d>> BY <1>13, <3>1, <3>3, ConcatEmptySeq
      <4>2. Up(d) = {d} BY <1>2, <1>4, <3>3
      <4> QED BY <3>1, <4>1, <4>2
    <3> QED BY <3>2, <3>3
  <2>3. ASSUME NEW d \in D, Up(d) = s PROVE s \ {d} \in Good => s \in Good
    <3> SUFFICES ASSUME s \ {d} \in Good, NEW e \in D, Up(e) = s PROVE IsRight(e)
      OBVIOUS
    <3>1. e = d BY <1>3, <2>3
    <3>2. IsRight(d) BY <2>2, <2>3
    <3> QED BY <3>1, <3>2
  <2>4. \A d \in D : Up(d) = s => d \in s BY <1>2
  <2> QED BY <2>1, <2>3, <2>4
<1>16. D \in Good
  <2> HIDE DEF Good
  <2> QED BY <1>1, <1>14, <1>15, SubsetInduction
<1>17. IsRight(zero) BY <1>5, <1>16
<1> QED BY <1>5, <1>12, <1>17 DEF D

-----------------------------------------------------------------------------
(* All places for the isolated vertices *)

Placements(m) ==
  IF input.injective THEN {f \in [IsolatedNodes -> target.vertices \ Range(m)] : IsInjective(f)}
                     ELSE [IsolatedNodes -> target.vertices]

Extended(m) == {With(m, f) : f \in Placements(m)}

\* A mapping extended in two ways gives two mappings.
LEMMA ExtensionsDiffer ==
  ASSUME NEW m, NEW N, NEW T, NEW f \in [N -> T], NEW g \in [N -> T], With(m, f) = With(m, g)
  PROVE  f = g
<1>1. \A x \in N : With(m, f)[x] = f[x] /\ With(m, g)[x] = g[x] BY DEF With
<1> QED BY <1>1

OneByOne(m, C) == FoldSet(LAMBDA f, acc : Append(acc, With(m, f)), <<>>, C)

\* The extensions of a set of ways, one chosen way after the other.
LEMMA FoldFacts ==
  ASSUME NEW m, NEW N, NEW T, NEW C \in SUBSET [N -> T], IsFiniteSet(C),
         NEW X, X = {With(m, f) : f \in C}
  PROVE  /\ OneByOne(m, C) \in Seq(X) /\ Range(OneByOne(m, C)) = X
         /\ IsInjective(OneByOne(m, C))
<1> DEFINE ch == [s \in SUBSET C |-> PickOne(s)]
           F == [p \in C \X Seq(X) |-> Append(p[2], With(m, p[1]))]
           Step(g) == [s \in SUBSET C |->
             IF s = {} THEN <<>> ELSE Append(g[s \ {PickOne(s)}], With(m, PickOne(s)))]
           iter == CHOOSE h : h = Step(h)
<1>1. \A s \in SUBSET C : s # {} => PickOne(s) \in s /\ ch[s] = PickOne(s) BY DEF PickOne
<1>2. \A s \in SUBSET C : s # {} => ch[s] \in s BY <1>1
<1>3. \A f \in C : With(m, f) \in X OBVIOUS
<1>4. <<>> \in Seq(X) BY EmptySeq
<1>5. F \in [C \X Seq(X) -> Seq(X)]
  <2>1. \A f \in C, t \in Seq(X) : Append(t, With(m, f)) \in Seq(X) BY <1>3, RangeOfAppend
  <2> QED BY <2>1
<1>6. \A f \in C, t \in Seq(X) : F[<<f, t>>] = Append(t, With(m, f)) OBVIOUS
<1>7. iter = Step(iter)
  <2> HIDE DEF ch, F
  <2>1. PICK g \in [SUBSET C -> Seq(X)] : IsFold(g, C, <<>>, F, ch)
    BY <1>2, <1>4, <1>5, RecursionOnSubsets
  <2>2. ASSUME NEW s \in SUBSET C PROVE g[s] = Step(g)[s]
    <3>1. CASE s = {} BY <2>1, <3>1 DEF IsFold
    <3>2. CASE s # {}
      <4>1. PickOne(s) \in C /\ g[s \ {PickOne(s)}] \in Seq(X) /\ ch[s] = PickOne(s)
        BY <1>1, <2>1, <3>2
      <4>2. g[s] = F[<<PickOne(s), g[s \ {PickOne(s)}]>>] BY <2>1, <3>2, <4>1 DEF IsFold
      <4> QED BY <1>6, <3>2, <4>1, <4>2
    <3> QED BY <3>1, <3>2
  <2>3. g = Step(g)
    <3>1. g = [s \in SUBSET C |-> g[s]] BY <2>1
    <3>2. Step(g) = [s \in SUBSET C |-> Step(g)[s]] OBVIOUS
    <3> HIDE DEF Step
    <3> QED BY <2>2, <3>1, <3>2
  <2> HIDE DEF Step
  <2> QED BY <2>3
<1>8. OneByOne(m, C) = iter[C] BY DEF OneByOne, FoldSet, MapThenFoldSet, PickOne
<1>9. \A s \in SUBSET C :
        iter[s] = IF s = {} THEN <<>> ELSE Append(iter[s \ {PickOne(s)}], With(m, PickOne(s)))
  <2> HIDE DEF iter
  <2> QED BY <1>7
<1> HIDE DEF iter
<1> DEFINE IsRight(s) == /\ iter[s] \in Seq(X) /\ IsInjective(iter[s])
                         /\ Range(iter[s]) = {With(m, f) : f \in s}
           Good == {s \in SUBSET C : IsRight(s)}
<1>10. {} \in Good
  <2>1. iter[{}] = <<>> BY <1>9
  <2>2. IsInjective(<<>>)
    <3>1. DOMAIN <<>> = {} OBVIOUS
    <3> QED BY <3>1 DEF IsInjective
  <2> QED BY <1>4, <2>1, <2>2, RangeOfEmpty
<1>11. \A s \in SUBSET C : s # {} => \E x \in s : s \ {x} \in Good => s \in Good
  <2> SUFFICES ASSUME NEW s \in SUBSET C, s # {}, s \ {PickOne(s)} \in Good PROVE IsRight(s)
    BY <1>1
  <2>1. PICK x \in s : x = PickOne(s) BY <1>1
  <2>2. PICK t \in Seq(X) : t = iter[s \ {x}] BY <2>1
  <2>3. IsInjective(t) /\ Range(t) = {With(m, f) : f \in s \ {x}} BY <2>1, <2>2
  <2>4. PICK e \in X : e = With(m, x) BY <1>3
  <2>5. iter[s] = Append(t, e) BY <1>9, <2>1, <2>2, <2>4
  <2> HIDE DEF Good
  <2>6. e \notin Range(t)
    <3> SUFFICES ASSUME NEW f \in s \ {x}, With(m, f) = With(m, x) PROVE FALSE
      BY <2>3, <2>4
    <3>1. f \in [N -> T] /\ x \in [N -> T] OBVIOUS
    <3> QED BY <3>1, ExtensionsDiffer
  <2>7. /\ Append(t, e) \in Seq(X) /\ Range(Append(t, e)) = Range(t) \cup {e}
        /\ IsInjective(Append(t, e))
    <3>1. PICK Y : Y = X OBVIOUS
    <3>2. t \in Seq(Y) /\ e \in Y BY <3>1
    <3>3. Append(t, e) \in Seq(Y) /\ Range(Append(t, e)) = Range(t) \cup {e}
      BY <3>2, RangeOfAppend
    <3>4. IsInjective(Append(t, e)) BY <2>3, <2>6, <3>2, AppendIsInjective
    <3> QED BY <3>1, <3>3, <3>4
  <2>8. Range(t) \cup {e} = {With(m, f) : f \in s} BY <2>3, <2>4
  <2> QED BY <2>5, <2>7, <2>8
<1>12. C \in Good
  <2> HIDE DEF Good
  <2> QED BY <1>10, <1>11, SubsetInduction
<1> QED BY <1>8, <1>12

PlacesOf(s, S) == [v \in S |-> CHOOSE i \in DOMAIN s : s[i] = v]

\* s lists S without repeats, and at says where.
Lists(s, S, n, at) ==
  /\ s \in [1 .. n -> S] /\ Len(s) = n /\ at \in [S -> 1 .. n]
  /\ \A v \in S : s[at[v]] = v
  /\ \A i \in 1 .. n : at[s[i]] = i

\* An ascending enumeration has every id at one place.
LEMMA PlacesInAscending ==
  ASSUME NEW S, IsFiniteSet(S), S \subseteq Nat, NEW s, s = Ascending(S),
         NEW at, at = PlacesOf(s, S)
  PROVE  \E n \in Nat : Lists(s, S, n, at)
<1>1. PICK n \in Nat : /\ s \in [1 .. n -> S] /\ Len(s) = n
                       /\ \A x \in S : \E i \in 1 .. n : s[i] = x
                       /\ \A i, j \in 1 .. n : i < j => s[i] < s[j]
  BY AscendingFacts DEF GoesUpThrough
<1>2. \A v \in S : at[v] \in 1 .. n /\ s[at[v]] = v
  <2> SUFFICES ASSUME NEW v \in S PROVE at[v] \in 1 .. n /\ s[at[v]] = v
    OBVIOUS
  <2>1. at[v] = CHOOSE i \in 1 .. n : s[i] = v BY <1>1 DEF PlacesOf
  <2> QED BY <1>1, <2>1
<1>3. at = [v \in S |-> at[v]] BY DEF PlacesOf
<1>4. at \in [S -> 1 .. n] BY <1>2, <1>3
<1>5. ASSUME NEW i \in 1 .. n PROVE at[s[i]] = i
  <2>1. s[i] \in S /\ at[s[i]] \in 1 .. n /\ s[at[s[i]]] = s[i] BY <1>1, <1>2
  <2>2. PICK j \in 1 .. n : j = at[s[i]] BY <2>1
  <2>3. s[j] = s[i] /\ s[i] \in Nat BY <2>1, <2>2
  <2>4. ~ (i < j) /\ ~ (j < i)
    <3>1. ~ (s[i] < s[j]) /\ ~ (s[j] < s[i]) BY <2>3
    <3> QED BY <1>1, <3>1
  <2> QED BY <2>2, <2>4
<1> QED BY <1>1, <1>2, <1>4, <1>5 DEF Lists

Sent(targets, at, N, data) == [v \in N |-> targets[data[at[v]] + 1]]

SendsEachWay(targets, at, N, T, D) ==
  /\ \A data \in D : Sent(targets, at, N, data) \in [N -> T]
  /\ \A a, b \in D : Sent(targets, at, N, a) = Sent(targets, at, N, b) => a = b
  /\ \A f \in [N -> T] : \E data \in D : Sent(targets, at, N, data) = f

\* The digits of a vector are the places to which the isolated vertices go.
LEMMA DigitsAreChoices ==
  ASSUME NEW k \in Nat, NEW l \in Nat \ {0}, NEW N, NEW T,
         NEW nodes, NEW at, Lists(nodes, N, k, at),
         NEW targets, NEW place, Lists(targets, T, l, place)
  PROVE  SendsEachWay(targets, at, N, T, Digits(k, l - 1))
<1> USE DEF Lists
<1>1. PICK D : D = Digits(k, l - 1) OBVIOUS
<1>2. \A data \in D, i \in 1 .. k : data[i] \in Nat /\ data[i] + 1 \in 1 .. l BY <1>1 DEF Digits
<1>3. ASSUME NEW data \in D
      PROVE  /\ Sent(targets, at, N, data) \in [N -> T]
             /\ \A v \in N : Sent(targets, at, N, data)[v] = targets[data[at[v]] + 1]
  <2>1. \A v \in N : targets[data[at[v]] + 1] \in T BY <1>2
  <2> QED BY <2>1 DEF Sent
<1>4. ASSUME NEW a \in D, NEW b \in D, Sent(targets, at, N, a) = Sent(targets, at, N, b)
      PROVE  a = b
  <2>1. ASSUME NEW i \in 1 .. k PROVE a[i] = b[i]
    <3>1. nodes[i] \in N /\ at[nodes[i]] = i OBVIOUS
    <3>2. targets[a[i] + 1] = targets[b[i] + 1] BY <1>3, <1>4, <3>1
    <3>3. place[targets[a[i] + 1]] = a[i] + 1 /\ place[targets[b[i] + 1]] = b[i] + 1 BY <1>2
    <3>4. a[i] + 1 = b[i] + 1 BY <3>2, <3>3
    <3> QED BY <1>2, <3>4
  <2> QED BY <1>1, <2>1 DEF Digits
<1>5. ASSUME NEW f \in [N -> T] PROVE \E data \in D : Sent(targets, at, N, data) = f
  <2> DEFINE data == [i \in 1 .. k |-> place[f[nodes[i]]] - 1]
  <2>1. \A i \in 1 .. k : place[f[nodes[i]]] - 1 \in 0 .. l - 1
    <3>1. \A i \in 1 .. k : place[f[nodes[i]]] \in 1 .. l OBVIOUS
    <3> QED BY <3>1
  <2>2. data \in D BY <1>1, <2>1 DEF Digits
  <2>3. ASSUME NEW v \in N PROVE Sent(targets, at, N, data)[v] = f[v]
    <3>1. at[v] \in 1 .. k /\ nodes[at[v]] = v /\ place[f[v]] \in 1 .. l OBVIOUS
    <3>2. data[at[v]] = place[f[v]] - 1 BY <3>1
    <3> HIDE DEF data
    <3>3. data[at[v]] + 1 = place[f[v]] BY <3>1, <3>2
    <3>4. Sent(targets, at, N, data)[v] = targets[place[f[v]]] BY <1>3, <2>2, <3>3
    <3> QED BY <3>4
  <2> HIDE DEF data
  <2>4. Sent(targets, at, N, data) = f BY <1>3, <2>2, <2>3
  <2> QED BY <2>2, <2>4
<1> QED BY <1>1, <1>3, <1>4, <1>5 DEF SendsEachWay

SentAnywhere(m) == {With(m, f) : f \in [IsolatedNodes -> target.vertices]}

\* Without injectivity, every way to send the isolated vertices to vertices comes once.
LEMMA NonInjectiveFacts ==
  ASSUME input \in Inputs, IsolatedNodes # {}, NEW m, NEW X, X = SentAnywhere(m)
  PROVE  /\ NonInjectiveExtensions(m) \in Seq(X) /\ Range(NonInjectiveExtensions(m)) = X
         /\ IsInjective(NonInjectiveExtensions(m))
<1>1. PICK N, T : N = IsolatedNodes /\ T = target.vertices OBVIOUS
<1>2. /\ N \subseteq source.vertices /\ IsFiniteSet(source.vertices) /\ source.vertices \subseteq Nat
      /\ IsFiniteSet(T) /\ T \subseteq Nat /\ N # {}
  BY <1>1, InputFacts DEF IsolatedNodes, IsGraph
<1>3. IsFiniteSet(N) /\ N \subseteq Nat BY <1>2, FS_Subset
<1>4. PICK nodes, targets : nodes = Ascending(N) /\ targets = Ascending(T) OBVIOUS
<1>5. PICK at, place : at = PlacesOf(nodes, N) /\ place = PlacesOf(targets, T) OBVIOUS
<1>6. PICK k \in Nat : Lists(nodes, N, k, at) BY <1>3, <1>4, <1>5, PlacesInAscending
<1>7. PICK l \in Nat : Lists(targets, T, l, place) BY <1>2, <1>4, <1>5, PlacesInAscending
<1>8. PICK vectors : vectors = Vectors(l - 1, k) OBVIOUS
<1>9. NonInjectiveExtensions(m) =
        IF targets = <<>> THEN <<>>
        ELSE [i \in DOMAIN vectors |-> With(m, Sent(targets, at, N, vectors[i]))]
  <2> DEFINE place1(v) == CHOOSE i \in DOMAIN nodes : nodes[i] = v
             chosen(data) == [v \in N |-> targets[data[place1(v)] + 1]]
  <2>1. NonInjectiveExtensions(m) =
          IF targets = <<>> THEN <<>> ELSE [i \in DOMAIN vectors |-> With(m, chosen(vectors[i]))]
    BY <1>1, <1>4, <1>6, <1>7, <1>8 DEF NonInjectiveExtensions, Lists
  <2>2. \A data : chosen(data) = Sent(targets, at, N, data)
    <3>1. \A v \in N : at[v] = place1(v) BY <1>5 DEF PlacesOf
    <3> HIDE DEF place1
    <3> QED BY <3>1 DEF Sent
  <2> HIDE DEF chosen, place1
  <2> QED BY <2>1, <2>2
<1>10. CASE l = 0
  <2>1. T = {} BY <1>7, <1>10 DEF Lists
  <2>2. X = {} BY <1>1, <1>2, <2>1 DEF SentAnywhere
  <2>3. targets = <<>> BY <1>7, <1>10 DEF Lists
  <2>4. NonInjectiveExtensions(m) = <<>> BY <1>9, <2>3
  <2>5. DOMAIN <<>> = {} OBVIOUS
  <2>6. IsInjective(<<>>) BY <2>5 DEF IsInjective
  <2> QED BY <2>2, <2>4, <2>6, EmptySeq, RangeOfEmpty
<1>11. CASE l # 0
  <2>1. l \in Nat \ {0} /\ l - 1 \in Nat BY <1>11
  <2>2. targets # <<>>
    <3>1. DOMAIN targets # {} BY <1>7, <2>1 DEF Lists
    <3> QED BY <3>1
  <2>3. PICK D : D = Digits(k, l - 1) OBVIOUS
  <2>4. /\ \A data \in D : Sent(targets, at, N, data) \in [N -> T]
        /\ \A a, b \in D : Sent(targets, at, N, a) = Sent(targets, at, N, b) => a = b
        /\ \A f \in [N -> T] : \E data \in D : Sent(targets, at, N, data) = f
    <3>1. SendsEachWay(targets, at, N, T, D) BY <1>6, <1>7, <2>1, <2>3, DigitsAreChoices
    <3> QED BY <3>1 DEF SendsEachWay
  <2>5. vectors \in Seq(D) /\ Range(vectors) = D /\ IsInjective(vectors)
    BY <1>8, <2>1, <2>3, VectorsFacts
  <2>6. PICK n \in Nat : n = Len(vectors) /\ DOMAIN vectors = 1 .. n BY <2>5, LenProperties
  <2>7. \A i \in 1 .. n : vectors[i] \in D BY <2>5, <2>6, ElementOfSeq
  <2>8. PICK s : s = NonInjectiveExtensions(m) OBVIOUS
  <2>9. s = [i \in 1 .. n |-> With(m, Sent(targets, at, N, vectors[i]))]
    BY <1>9, <2>2, <2>6, <2>8
  <2>10. \A i \in 1 .. n : s[i] = With(m, Sent(targets, at, N, vectors[i])) BY <2>9
  <2>11. DOMAIN s = 1 .. n /\ s = [i \in 1 .. n |-> s[i]] BY <2>9
  <2>12. \A f \in [N -> T] : With(m, f) \in X BY <1>1 DEF SentAnywhere
  <2>13. s \in Seq(X)
    <3>1. \A i \in 1 .. n : s[i] \in X BY <2>4, <2>7, <2>10, <2>12
    <3>2. s \in [1 .. n -> X] BY <2>11, <3>1
    <3> QED BY <3>2, LenOfFunction
  <2>14. IsInjective(s)
    <3> SUFFICES ASSUME NEW i \in 1 .. n, NEW j \in 1 .. n, s[i] = s[j] PROVE i = j
      BY <2>11 DEF IsInjective
    <3>1. PICK a \in D, b \in D : a = vectors[i] /\ b = vectors[j] BY <2>7
    <3>2. With(m, Sent(targets, at, N, a)) = With(m, Sent(targets, at, N, b))
      BY <2>10, <3>1
    <3>3. Sent(targets, at, N, a) \in [N -> T] /\ Sent(targets, at, N, b) \in [N -> T] BY <2>4
    <3>4. Sent(targets, at, N, a) = Sent(targets, at, N, b) BY <3>2, <3>3, ExtensionsDiffer
    <3>5. a = b BY <2>4, <3>4
    <3> QED BY <2>5, <2>6, <3>1, <3>5 DEF IsInjective
  <2>15. X \subseteq Range(s)
    <3> SUFFICES ASSUME NEW f \in [N -> T] PROVE With(m, f) \in Range(s)
      BY <1>1 DEF SentAnywhere
    <3>1. PICK data \in D : Sent(targets, at, N, data) = f BY <2>4
    <3>2. PICK i \in 1 .. n : vectors[i] = data BY <2>5, <2>6 DEF Range
    <3>3. s[i] = With(m, f) BY <2>10, <3>1, <3>2
    <3> QED BY <2>11, <3>3 DEF Range
  <2>16. Range(s) \subseteq X BY <2>13, RangeIsSubset
  <2> QED BY <2>8, <2>13, <2>14, <2>15, <2>16
<1> QED BY <1>10, <1>11

\* Each mapping gets each of its extensions once.
LEMMA ExtensionsFacts ==
  ASSUME input \in Inputs, IsolatedNodes # {}, NEW m
  PROVE  /\ Extensions(m) \in Seq(Extended(m)) /\ Range(Extensions(m)) = Extended(m)
         /\ IsInjective(Extensions(m))
<1>1. CASE input.injective
  <2>1. PICK N, T, C : /\ N = IsolatedNodes /\ T = target.vertices \ Range(m)
                       /\ C = {f \in [N -> T] : IsInjective(f)}
    OBVIOUS
  <2>2. /\ N \subseteq source.vertices /\ IsFiniteSet(source.vertices)
        /\ T \subseteq target.vertices /\ IsFiniteSet(target.vertices)
    BY <2>1, InputFacts DEF IsolatedNodes, IsGraph
  <2>3. IsFiniteSet(N) /\ IsFiniteSet(T) BY <2>2, FS_Subset
  <2>4. C \in SUBSET [N -> T] /\ IsFiniteSet(C)
    <3>1. IsFiniteSet([N -> T]) BY <2>3, FunctionsAreFinite
    <3> QED BY <2>1, <3>1, FS_Subset
  <2>5. Placements(m) = C BY <1>1, <2>1 DEF Placements
  <2>6. PICK X : X = {With(m, f) : f \in C} OBVIOUS
  <2>7. X = Extended(m) BY <2>5, <2>6 DEF Extended
  <2>8. /\ OneByOne(m, C) \in Seq(X) /\ Range(OneByOne(m, C)) = X
        /\ IsInjective(OneByOne(m, C))
    BY <2>4, <2>6, FoldFacts
  <2>9. Extensions(m) = OneByOne(m, C)
    BY <1>1, <2>1 DEF Extensions, InjectiveExtensions, OneByOne
  <2> QED BY <2>7, <2>8, <2>9
<1>2. CASE ~ input.injective
  <2>1. Extended(m) = SentAnywhere(m) BY <1>2 DEF Extended, Placements, SentAnywhere
  <2>2. Extensions(m) = NonInjectiveExtensions(m) BY <1>2 DEF Extensions
  <2> QED BY <2>1, <2>2, NonInjectiveFacts
<1> QED BY <1>1, <1>2

\* The edges decide where a match sends the vertices they are attached to.
LEMMA EdgesDecide ==
  ASSUME input \in Inputs, NEW m, IsMatchOfEdges(m), NEW g \in AllMatches,
         \A e \in DOMAIN source.edges : m[e] = g[e]
  PROVE  \A x \in DOMAIN m : g[x] = m[x]
<1>1. DOMAIN m = DOMAIN source.edges \cup Attached /\ IsMatch(m) BY DEF IsMatchOfEdges
<1>2. ASSUME NEW v \in Attached PROVE g[v] = m[v]
  <2>1. PICK e \in DOMAIN source.edges :
          \E i \in DOMAIN VerticesOf(source, e) : v = VerticesOf(source, e)[i]
    BY DEF Attached, Range
  <2>2. PICK i \in DOMAIN VerticesOf(source, e) : v = VerticesOf(source, e)[i] BY <2>1
  <2>3. VerticesOf(target, m[e]) =
          [j \in DOMAIN VerticesOf(source, e) |-> m[VerticesOf(source, e)[j]]]
    BY <1>1 DEF IsMatch
  <2>4. VerticesOf(target, m[e])[i] = m[v] BY <2>2, <2>3
  <2>5. g[v] = VerticesOf(target, g[e])[i] BY <2>2, MatchFacts
  <2> QED BY <2>4, <2>5
<1> QED BY <1>1, <1>2

\* The extensions of a match of the edges are the wanted matches that agree with it there.
LEMMA ExtendedFacts ==
  ASSUME input \in Inputs, NEW m, IsMatchOfEdges(m), IsolatedNodes = source.vertices \ DOMAIN m
  PROVE  /\ Extended(m) \subseteq AllMatches
         /\ \A g \in Extended(m) : \A e \in DOMAIN source.edges : g[e] = m[e]
         /\ \A g \in Wanted : (\A e \in DOMAIN source.edges : m[e] = g[e]) => g \in Extended(m)
<1>1. PICK N : N = IsolatedNodes OBVIOUS
<1>2. DOMAIN m = DOMAIN source.edges \cup Attached BY DEF IsMatchOfEdges
<1>3. N \cap DOMAIN m = {} BY <1>1
<1>4. \A f \in Placements(m) : f \in [N -> target.vertices] BY <1>1 DEF Placements
<1>5. \A f \in Placements(m) : With(m, f) \in AllMatches BY <1>1, <1>4, ExtensionIsMatch
<1>6. ASSUME NEW f \in Placements(m), NEW e \in DOMAIN source.edges PROVE With(m, f)[e] = m[e]
  <2>1. DOMAIN f = N BY <1>4
  <2>2. e \in DOMAIN m /\ e \notin N BY <1>2, <1>3
  <2> QED BY <2>1, <2>2 DEF With
<1>7. ASSUME NEW g \in Wanted, \A e \in DOMAIN source.edges : m[e] = g[e]
      PROVE  \E f \in Placements(m) : With(m, f) = g
  <2>1. g \in AllMatches BY DEF Wanted, InjectiveMatches
  <2>2. \A x \in DOMAIN m : g[x] = m[x] BY <1>7, <2>1, EdgesDecide
  <2>3. /\ DOMAIN g = source.vertices \cup DOMAIN source.edges
        /\ \A v \in source.vertices : g[v] \in target.vertices
    BY <2>1, MatchFacts DEF Elements
  <2>4. g = [x \in DOMAIN g |-> g[x]]
    <3>1. PICK h, k : g = With(h, k) BY <2>1 DEF AllMatches, Matches
    <3> QED BY <3>1 DEF With
  <2>5. PICK f : f = [v \in N |-> g[v]] OBVIOUS
  <2>6. f \in [N -> target.vertices] /\ \A v \in N : f[v] = g[v] BY <1>1, <2>3, <2>5
  <2>7. With(m, f) = g
    <3>1. DOMAIN f \cup DOMAIN m = DOMAIN g BY <1>1, <1>2, <2>3, <2>6, AttachedFacts
    <3>2. With(m, f) = [x \in DOMAIN g |-> IF x \in DOMAIN f THEN f[x] ELSE m[x]]
      BY <3>1 DEF With
    <3>3. \A x \in DOMAIN g : (IF x \in DOMAIN f THEN f[x] ELSE m[x]) = g[x]
      BY <2>2, <2>6, <3>1
    <3> QED BY <2>4, <3>2, <3>3
  <2>8. f \in Placements(m)
    <3>1. CASE ~ input.injective BY <1>1, <2>6, <3>1 DEF Placements
    <3>2. CASE input.injective
      <4>1. \A x, y \in DOMAIN g : g[x] = g[y] => x = y
        BY <3>2 DEF Wanted, InjectiveMatches, IsInjective
      <4>2. N \subseteq DOMAIN g /\ DOMAIN m \subseteq DOMAIN g
        BY <1>1, <1>2, <2>3, AttachedFacts
      <4>3. DOMAIN f = N /\ \A x, y \in N : f[x] = f[y] => x = y BY <2>6, <4>1, <4>2
      <4>4. \A v \in N : f[v] \notin Range(m)
        <5> SUFFICES ASSUME NEW v \in N, NEW x \in DOMAIN m, f[v] = m[x] PROVE FALSE
          BY DEF Range
        <5>1. g[v] = g[x] BY <2>2, <2>6
        <5>2. v = x BY <4>1, <4>2, <5>1
        <5> QED BY <1>3, <5>2
      <4>5. f \in [N -> target.vertices \ Range(m)] BY <2>6, <4>4
      <4>6. IsInjective(f) BY <4>3 DEF IsInjective
      <4> QED BY <1>1, <3>2, <4>5, <4>6 DEF Placements
    <3> QED BY <3>1, <3>2
  <2> QED BY <2>7, <2>8
<1>8. \A g : g \in Extended(m) <=> \E f \in Placements(m) : With(m, f) = g BY DEF Extended
<1> QED BY <1>5, <1>6, <1>7, <1>8

\* Without isolated vertices a match of the edges is all there is.
LEMMA NothingToExtend ==
  ASSUME IsolatedNodes = {}, NEW m \in PartialMaps
  PROVE  Extended(m) = {m}
<1>1. \A f : f \in Placements(m) => f \in [{} -> target.vertices] BY DEF Placements
<1>2. PICK S : m \in [S -> Elements(target)] BY DEF PartialMaps
<1>3. ASSUME NEW f \in Placements(m) PROVE With(m, f) = m
  <2>1. DOMAIN f = {} BY <1>1
  <2> QED BY <1>2, <2>1 DEF With
<1>4. \E f : f \in Placements(m)
  <2> DEFINE f == [x \in {} |-> x]
  <2>1. \A T : f \in [{} -> T] OBVIOUS
  <2>2. IsInjective(f) BY DEF IsInjective
  <2> HIDE DEF f
  <2> QED BY <2>1, <2>2 DEF Placements
<1> QED BY <1>3, <1>4 DEF Extended

\* What all the matches of the edges and the isolated vertices make together.
LEMMA LastStepFindsAll ==
  ASSUME SearchInv, FoundInv, FoundApart, MapIsolatedNodes
  PROVE  AllMatchesFound'
<1>1. /\ phase = "isolated" /\ phase' = "done" /\ input' = input /\ input \in Inputs
  BY DEF MapIsolatedNodes, SearchInv, SearchTypeOK
<1>2. Wanted' = Wanted /\ AllMatches' = AllMatches BY <1>1, InputDecides
<1> SUFFICES ASSUME ~ input.stopFast
             PROVE  /\ IsInjective(foundMappings')
                    /\ Range(foundMappings') \subseteq AllMatches
                    /\ Wanted \subseteq Range(foundMappings')
  <2>1. Wanted' = (IF input.injective THEN InjectiveMatches ELSE AllMatches)' BY DEF Wanted
  <2> QED BY <1>1, <1>2, <2>1 DEF AllMatchesFound
<1>3. PICK found, n : found = foundMappings /\ n = Len(found) OBVIOUS
<1>4. /\ found \in Seq(PartialMaps) /\ n \in Nat /\ DOMAIN found = 1 .. n
      /\ \A i \in 1 .. n : found[i] \in PartialMaps /\ IsMatchOfEdges(found[i])
  <2>1. found \in Seq(PartialMaps) BY <1>1, <1>3 DEF FoundInv
  <2>2. n \in Nat /\ DOMAIN found = 1 .. n BY <1>3, <2>1, LenProperties
  <2>3. \A i \in 1 .. n : found[i] \in PartialMaps BY <1>3, <2>1, ElementOfSeq
  <2>4. \A i \in 1 .. n : IsMatchOfEdges(found[i]) BY <1>1, <1>3 DEF FoundInv
  <2> QED BY <2>1, <2>2, <2>3, <2>4
<1>5. ASSUME NEW g \in Wanted
      PROVE  \E i \in 1 .. n : \A e \in DOMAIN source.edges : found[i][e] = g[e]
  BY <1>1, <1>3 DEF FoundInv, IsFound
<1>6. ASSUME NEW i \in 1 .. n, NEW j \in 1 .. n, i # j
      PROVE  \E e \in DOMAIN source.edges : found[i][e] # found[j][e]
  BY <1>3, <1>6 DEF FoundApart
<1>7. CASE n = 0
  <2>1. found = <<>> BY <1>3, <1>4, <1>7, EmptySeq
  <2>2. foundMappings' = <<>> BY <1>3, <2>1 DEF MapIsolatedNodes
  <2>3. \A g \in Wanted : FALSE BY <1>5, <1>7
  <2>4. IsInjective(<<>>)
    <3>1. DOMAIN <<>> = {} OBVIOUS
    <3> QED BY <3>1 DEF IsInjective
  <2> QED BY <2>2, <2>3, <2>4, RangeOfEmpty
<1>8. CASE n # 0
  <2>1. found # <<>> BY <1>3, <1>8, EmptySeq
  <2>2. ASSUME NEW i \in 1 .. n PROVE IsolatedNodes = source.vertices \ DOMAIN found[i]
    <3>1. 1 \in 1 .. n BY <1>4, <1>8
    <3>2. IsolatedNodes = source.vertices \ DOMAIN found[1]
      <4>1. Head(found) = found[1] BY <1>4, <2>1
      <4> QED BY <1>3, <4>1 DEF IsolatedNodes
    <3>3. DOMAIN found[i] = DOMAIN found[1] BY <1>4, <3>1 DEF IsMatchOfEdges
    <3> QED BY <3>2, <3>3
  <2>3. ASSUME NEW i \in 1 .. n
        PROVE  /\ Extended(found[i]) \subseteq AllMatches
               /\ \A g \in Extended(found[i]) : \A e \in DOMAIN source.edges : g[e] = found[i][e]
               /\ \A g \in Wanted :
                    (\A e \in DOMAIN source.edges : found[i][e] = g[e]) => g \in Extended(found[i])
    <3>1. PICK m : m = found[i] OBVIOUS
    <3>2. IsMatchOfEdges(m) /\ IsolatedNodes = source.vertices \ DOMAIN m BY <1>4, <2>2, <3>1
    <3> QED BY <1>1, <3>1, <3>2, ExtendedFacts
  <2>4. \A g \in Wanted : \E i \in 1 .. n : g \in Extended(found[i]) BY <1>5, <2>3
  <2>5. ASSUME NEW i \in 1 .. n, NEW j \in 1 .. n, i # j
        PROVE  Extended(found[i]) \cap Extended(found[j]) = {}
    <3>1. PICK e \in DOMAIN source.edges : found[i][e] # found[j][e] BY <1>6, <2>5
    <3> QED BY <2>3, <3>1
  <2>6. CASE IsolatedNodes = {}
    <3>1. foundMappings' = found BY <1>3, <2>6 DEF MapIsolatedNodes
    <3>2. \A i \in 1 .. n : Extended(found[i]) = {found[i]} BY <1>4, <2>6, NothingToExtend
    <3>3. IsInjective(found) BY <1>4, <2>5, <3>2 DEF IsInjective
    <3>4. \A g : g \in Range(found) <=> \E i \in 1 .. n : g = found[i] BY <1>4 DEF Range
    <3> QED BY <2>3, <2>4, <3>1, <3>2, <3>3, <3>4
  <2>7. CASE IsolatedNodes # {}
    <3>1. PICK ss : ss = [i \in 1 .. n |-> Extensions(found[i])] OBVIOUS
    <3>2. foundMappings' = FlattenSeq(ss)
      BY <1>3, <1>4, <2>1, <2>7, <3>1 DEF MapIsolatedNodes
    <3>3. ASSUME NEW i \in 1 .. n
          PROVE  /\ ss[i] \in Seq(AllMatches) /\ Range(ss[i]) = Extended(found[i])
                 /\ IsInjective(ss[i])
      <4>1. PICK m : m = found[i] OBVIOUS
      <4>2. PICK t : t = Extensions(m) OBVIOUS
      <4>3. t \in Seq(Extended(m)) /\ Range(t) = Extended(m) /\ IsInjective(t)
        BY <1>1, <2>7, <4>2, ExtensionsFacts
      <4>4. Extended(m) \subseteq AllMatches BY <2>3, <4>1
      <4>5. t \in Seq(AllMatches)
        <5>1. PICK X, Y : X = Extended(m) /\ Y = AllMatches OBVIOUS
        <5>2. t \in Seq(X) /\ X \subseteq Y BY <4>3, <4>4, <5>1
        <5>3. t \in Seq(Y) BY <5>2
        <5> QED BY <5>1, <5>3
      <4>6. ss[i] = t BY <3>1, <4>1, <4>2
      <4> QED BY <4>1, <4>3, <4>5, <4>6
    <3>4. ss \in [1 .. n -> Seq(AllMatches)]
      <4>1. DOMAIN ss = 1 .. n /\ ss = [i \in 1 .. n |-> ss[i]] BY <3>1
      <4> QED BY <3>3, <4>1
    <3>5. \A i, j \in 1 .. n : i # j => Range(ss[i]) \cap Range(ss[j]) = {} BY <2>5, <3>3
    <3>6. PICK r : r = FlattenSeq(ss) OBVIOUS
    <3>7. /\ r \in Seq(AllMatches) /\ Range(r) = UNION {Range(ss[i]) : i \in 1 .. n}
          /\ IsInjective(r)
      <4>1. PICK Y : Y = AllMatches OBVIOUS
      <4>2. ss \in [1 .. n -> Seq(Y)] BY <3>4, <4>1
      <4>3. \A i \in 1 .. n : IsInjective(ss[i]) BY <3>3
      <4> QED BY <1>4, <1>8, <3>5, <3>6, <4>1, <4>2, <4>3, FlattenFacts
    <3>8. Range(r) \subseteq AllMatches BY <3>7, RangeIsSubset
    <3>9. \A g : g \in Range(r) <=> \E i \in 1 .. n : g \in Extended(found[i])
      BY <3>3, <3>7
    <3> QED BY <2>4, <3>2, <3>6, <3>7, <3>8, <3>9
  <2> QED BY <2>6, <2>7
<1> QED BY <1>7, <1>8

CompleteInv == NothingComesTwice /\ AllMatchesFound

\* The search starts with nothing found, or with one mapping of no edges.
LEMMA FindMatchesKeepsComplete == ASSUME SearchInv, FindMatches PROVE CompleteInv'
<1>1. /\ phase = "start" /\ UNCHANGED <<input, stack, currentMapping>>
      /\ input \in Inputs /\ stack = <<>> /\ foundMappings = <<>>
  BY DEF FindMatches, SearchInv, SearchTypeOK, shared
<1>2. Len(<<>>) = 0 BY EmptySeq
<1>3. CASE TooLarge
  <2>1. phase' = "done" /\ foundMappings' = <<>> BY <1>1, <1>3 DEF FindMatches
  <2>2. NothingComesTwice' BY <2>1 DEF NothingComesTwice, Running
  <2>3. Wanted = {} BY <1>1, <1>3, TooLargeHasNone
  <2>4. Wanted' = {} BY <1>1, <2>3, InputDecides
  <2>5. Wanted' = (IF input.injective THEN InjectiveMatches ELSE AllMatches)' BY DEF Wanted
  <2>6. IsInjective(<<>>)
    <3>1. DOMAIN <<>> = {} OBVIOUS
    <3> QED BY <3>1 DEF IsInjective
  <2>7. AllMatchesFound' BY <2>1, <2>4, <2>5, <2>6, RangeOfEmpty DEF AllMatchesFound
  <2> QED BY <2>2, <2>7 DEF CompleteInv
<1>4. CASE ~ TooLarge /\ DOMAIN source.edges = {}
  <2>1. phase' = "isolated" /\ foundMappings' = <<<<>>>> BY <1>1, <1>4 DEF FindMatches
  <2>2. Len(<<<<>>>>) = 1 OBVIOUS
  <2>3. FoundApart'
    <3>1. \A i, j \in 1 .. 1 : i = j OBVIOUS
    <3> QED BY <2>1, <2>2, <3>1 DEF FoundApart
  <2> QED BY <2>1, <2>3 DEF CompleteInv, NothingComesTwice, Running, AllMatchesFound
<1>5. CASE ~ TooLarge /\ DOMAIN source.edges # {}
  <2>1. phase' = "call" /\ foundMappings' = <<>> BY <1>1, <1>5 DEF FindMatches
  <2>2. \A i : i \notin 1 .. 0 OBVIOUS
  <2>3. FoundApart' BY <1>2, <2>1, <2>2 DEF FoundApart
  <2>4. Depth' = 0 BY <1>1, <1>2, <2>1 DEF Depth
  <2>5. FoundIsPast' BY <1>2, <2>1, <2>2, <2>4 DEF FoundIsPast
  <2> QED BY <2>1, <2>3, <2>5 DEF CompleteInv, NothingComesTwice, AllMatchesFound
<1> QED BY <1>3, <1>4, <1>5

\* Nothing comes twice in any reachable state of any search, and every result is complete.
LEMMA CompleteInvariant == Spec => []CompleteInv
<1>1. Init => CompleteInv
  <2> SUFFICES ASSUME Init PROVE CompleteInv
    OBVIOUS
  <2>1. phase = "start" /\ foundMappings = <<>> /\ Len(<<>>) = 0 BY EmptySeq DEF Init
  <2>2. FoundApart
    <3>1. \A i : i \notin 1 .. 0 OBVIOUS
    <3> QED BY <2>1, <3>1 DEF FoundApart
  <2> QED BY <2>1, <2>2 DEF CompleteInv, NothingComesTwice, Running, AllMatchesFound
<1>2. CompleteInv /\ SearchInv /\ FoundInv /\ [Next]_vars => CompleteInv'
  <2> SUFFICES ASSUME CompleteInv, SearchInv, FoundInv, [Next]_vars PROVE CompleteInv'
    OBVIOUS
  <2>1. NothingComesTwice BY DEF CompleteInv
  <2>2. CASE FoundMatch
    <3>1. phase' = "return" BY <2>2 DEF FoundMatch
    <3>2. NothingComesTwice' BY <2>1, <2>2, FoundMatchKeepsApart
    <3> QED BY <3>1, <3>2 DEF CompleteInv, AllMatchesFound
  <2>3. CASE ChooseEdge \/ MapEdge \/ Undo \/ EndLoop
    <3>1. phase' # "done"
      BY <2>3 DEF ChooseEdge, CallOn, MapEdge, MapTo, Undo, EndLoop
    <3>2. NothingComesTwice' BY <2>1, <2>3, CallStepKeepsApart
    <3> QED BY <3>1, <3>2 DEF CompleteInv, AllMatchesFound
  <2>4. CASE StopOnFirstFind
    <3>1. phase = "return" /\ phase' = "isolated" /\ UNCHANGED <<input, foundMappings>>
      BY <2>4 DEF StopOnFirstFind
    <3>2. NothingComesTwice' BY <2>1, <3>1, InnerStepKeepsApart DEF Running
    <3> QED BY <3>1, <3>2 DEF CompleteInv, AllMatchesFound
  <2>5. CASE MapIsolatedNodes
    <3>1. phase = "isolated" /\ phase' = "done" BY <2>5 DEF MapIsolatedNodes
    <3>2. FoundApart BY <2>1, <3>1 DEF NothingComesTwice
    <3>3. AllMatchesFound' BY <2>5, <3>2, LastStepFindsAll
    <3> QED BY <3>1, <3>3 DEF CompleteInv, NothingComesTwice, Running
  <2>6. CASE UNCHANGED vars
    <3>1. UNCHANGED <<input, phase, stack, currentMapping, foundMappings>> BY <2>6 DEF vars
    <3>2. CASE phase = "done"
      <4>1. AllMatches' = AllMatches BY <3>1, InputDecides
      <4>2. InjectiveMatches' = InjectiveMatches BY <4>1 DEF InjectiveMatches
      <4>3. AllMatchesFound' BY <3>1, <4>1, <4>2 DEF AllMatchesFound, CompleteInv
      <4> QED BY <3>1, <3>2, <4>3 DEF CompleteInv, NothingComesTwice, Running
    <3>3. CASE phase # "done"
      <4>1. \A g : IsPending(g)' => IsPending(g) BY <3>1 DEF IsPending, AgreesUpTo
      <4>2. Depth' = Depth BY <3>1 DEF Depth
      <4>3. Running' <=> Running BY <3>1 DEF Running
      <4>4. ASSUME Running
            PROVE  \A k \in 1 .. Depth' :
                     currentMapping'[stack'[k].edge] \notin stack'[k].possibleTargets
        BY <2>1, <3>1, <4>2, <4>4 DEF NothingComesTwice, FoundIsPast
      <4>5. NothingComesTwice' BY <2>1, <3>1, <3>3, <4>1, <4>3, <4>4, InnerStepKeepsApart
      <4> QED BY <3>1, <3>3, <4>5 DEF CompleteInv, AllMatchesFound
    <3> QED BY <3>2, <3>3
  <2> QED BY <2>2, <2>3, <2>4, <2>5, <2>6, FindMatchesKeepsComplete DEF Next
<1> QED BY <1>1, <1>2, SearchInvariant, FoundInvariant, PTL DEF Spec

\* For all graphs: a search that does not stop early returns every match of the kind asked for,
\* nothing but morphisms, and none of them twice.
THEOREM EveryMatchIsFoundOnce == Spec => []AllMatchesFound
<1>1. CompleteInv => AllMatchesFound BY DEF CompleteInv
<1> QED BY <1>1, CompleteInvariant, PTL

=============================================================================
