--------------------------- MODULE IsomorphismChecker ---------------------------
(***************************************************************************)
(* graphs/SignatureCreater and graphs/IsomorphismChecker: vertices and     *)
(* edges get numbers that isomorphic graphs share, refined from their      *)
(* neighbours until nothing more is told apart; edges are then mapped one  *)
(* after the other to edges with the same number.  A mapping that fails is *)
(* taken back together with every vertex it met, also those that an edge   *)
(* before it had mapped.                                                   *)
(***************************************************************************)
EXTENDS GraphMinors

CONSTANT CharCodes   \* the characters of each label; short, so that no hash passes 2^28

ASSUME CharCodesAssumption ==
  \A label \in DOMAIN CharCodes : CharCodes[label] \in Seq(Nat)

-----------------------------------------------------------------------------
(* SignatureCreater                                                        *)

HashFromString(codes) == Folded(LAMBDA hash, c : hash * 16 + c, 0, codes)

SumOver(ids, sigs) == FoldSet(LAMBDA x, acc : acc + sigs[x], 0, ids)

\* The numbers of an edge's vertices, shifted; the shift never alternates, so that their
\* order is lost.  For numbers below 2^(32 - shift) nothing comes in from the right.
NewCert(old, label, neighborCerts) ==
  LET shift0 == (HashFromString(CharCodes[label]) % 16) + 1
  IN old + 2^shift0 * SumOver(DOMAIN neighborCerts, neighborCerts)

FirstSignature(h) ==
  [x \in Elements(h) |-> IF x \in h.vertices THEN 1 ELSE HashFromString(CharCodes[h.edges[x].label])]

\* A vertex in an edge twice is connected with it twice.
TimesIn(h, v, e) == Cardinality({i \in DOMAIN h.edges[e].vertices : h.edges[e].vertices[i] = v})

Neighbours(h, v, sigs) ==
  SumOver(DOMAIN h.edges, [e \in DOMAIN h.edges |-> sigs[e] * TimesIn(h, v, e)])

RefinedNumber(h, sigs, x) ==
  IF x \in h.vertices THEN sigs[x] + Neighbours(h, x, sigs)
  ELSE NewCert(sigs[x], h.edges[x].label,
               [i \in DOMAIN h.edges[x].vertices |-> sigs[h.edges[x].vertices[i]]])

\* One round: what is counted for an edge is its number before the round.
RefinedSignature(h, signature) ==
  LET old == signature.sigs
      sigs == [x \in Elements(h) |-> RefinedNumber(h, old, x)]
      counted == [x \in Elements(h) |-> IF x \in h.vertices THEN sigs[x] ELSE old[x]]
  IN [sigs |-> sigs, lastSize |-> signature.told, told |-> Cardinality(Range(counted)),
      sum |-> SumOver(Elements(h), counted)]

\* Rounds until nothing more is told apart; each but the last one has told more apart.
CreateHGSignature(h) ==
  LET round[n \in 0 .. Cardinality(Elements(h)) + 1] ==
        IF n = 0 THEN [sigs |-> FirstSignature(h), lastSize |-> 0, told |-> 1, sum |-> 0]
        ELSE LET last == round[n - 1]
             IN IF last.lastSize < last.told THEN RefinedSignature(h, last) ELSE last
  IN round[Cardinality(Elements(h)) + 1]

-----------------------------------------------------------------------------
(* IsomorphismChecker: both directions of the mapping of all elements.  A  *)
(* vertex that two edges have met is taken back with either of them.       *)

\* No id.
NotMapped == -1

MapsOf(h0, h1) ==
  [for : [Elements(h0) -> Elements(h1) \cup {NotMapped}],
   back : [Elements(h1) -> Elements(h0) \cup {NotMapped}],
   new : SUBSET Elements(h0), newRev : SUBSET Elements(h1), success : BOOLEAN]

CanInsert(maps, x, y) == maps.for[x] \in {y, NotMapped} /\ maps.back[y] \in {x, NotMapped}

\* insertIfValid, with what is to be taken back later.
InsertIfValid(maps, x, y) ==
  IF ~ maps.success \/ ~ CanInsert(maps, x, y) THEN [maps EXCEPT !.success = FALSE]
  ELSE [maps EXCEPT !.for[x] = y, !.back[y] = x, !.new = @ \cup {x}, !.newRev = @ \cup {y}]

\* What a failed edge has mapped stays mapped.
TakeBackNothing(tried, failed) == [failed EXCEPT !.success = FALSE]

\* What tried has met, of what is left after the edges that follow.
TakeBack(tried, failed) ==
  [tried EXCEPT
     !.for = [x \in DOMAIN @ |-> IF x \in tried.new THEN NotMapped ELSE failed.for[x]],
     !.back = [y \in DOMAIN @ |-> IF y \in tried.newRev THEN NotMapped ELSE failed.back[y]],
     !.success = FALSE]

\* The vertices of two edges, as long as their signatures agree and they fit.
MapVertex(sigs0, sigs1, maps, v, w) ==
  IF sigs0[v] # sigs1[w] THEN [maps EXCEPT !.success = FALSE] ELSE InsertIfValid(maps, v, w)

MapVertices(s0, s1, from, to, maps) ==
  Folded(LAMBDA acc, i : MapVertex(s0, s1, acc, from[i], to[i]),
         [maps EXCEPT !.success = TRUE, !.new = {}, !.newRev = {}], [i \in DOMAIN from |-> i])

\* Then the edges themselves.
MapEdge(h0, h1, s0, s1, e, f, maps) ==
  InsertIfValid(MapVertices(s0, s1, h0.edges[e].vertices, h1.edges[f].vertices, maps), e, f)

\* mapping: the edges of h0 from one place on, one after the other; rest maps those behind it.
TryEdge(rest, tried) ==
  LET outcome == IF tried.success THEN rest[tried] ELSE tried
  IN IF outcome.success THEN outcome ELSE TakeBack(tried, outcome)

\* Edges with the same number and label; one that is mapped already is passed over.
CandidatesOf(h0, h1, s0, s1, e) ==
  {f \in DOMAIN h1.edges : s1[f] = s0[e] /\ h1.edges[f].label = h0.edges[e].label}

TryCandidate(h0, h1, s0, s1, e, rest, maps, f) ==
  IF maps.success \/ maps.back[f] # NotMapped THEN maps
  ELSE TryEdge(rest, MapEdge(h0, h1, s0, s1, e, f, maps))

TryCandidates(h0, h1, s0, s1, e, rest, maps) ==
  Folded(LAMBDA acc, f : TryCandidate(h0, h1, s0, s1, e, rest, acc, f),
         [maps EXCEPT !.success = FALSE], Ascending(CandidatesOf(h0, h1, s0, s1, e)))

MapAll(h0, h1, s0, s1, maps) ==
  LET edges == Reverse(Ascending(DOMAIN h0.edges))
      map[n \in 0 .. Len(edges)] ==
        [m \in MapsOf(h0, h1) |->
           IF n = 0 THEN [m EXCEPT !.success = TRUE]
           ELSE TryCandidates(h0, h1, s0, s1, edges[n], map[n - 1], m)]
  IN map[Len(edges)][maps]

NoMaps(h0, h1) ==
  [for |-> [x \in Elements(h0) |-> NotMapped], back |-> [y \in Elements(h1) |-> NotMapped],
   new |-> {}, newRev |-> {}, success |-> FALSE]

AreIsomorphic(hg1, hg2) ==
  LET s1 == CreateHGSignature(hg1)
      s2 == CreateHGSignature(hg2)
  IN /\ Cardinality(hg1.vertices) = Cardinality(hg2.vertices)
     /\ Cardinality(DOMAIN hg1.edges) = Cardinality(DOMAIN hg2.edges)
     /\ s1.sum = s2.sum
     /\ MapAll(hg1, hg2, s1.sigs, s2.sigs, NoMaps(hg1, hg2)).success

=============================================================================
