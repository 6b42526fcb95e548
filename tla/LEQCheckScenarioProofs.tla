------------------------ MODULE LEQCheckScenarioProofs ------------------------
(***************************************************************************)
(* Proofs about the comparison of graphs: that the isomorphism check finds *)
(* an isomorphism whenever there is one, although it takes back more than  *)
(* it mapped; that the match finder finds an embedding whenever there is   *)
(* one; and that the loops of the scenario report and count what the order *)
(* holds for.  For every set of files and command lines.                   *)
(***************************************************************************)
EXTENDS LEQCheckScenario, SequenceLemmas

-----------------------------------------------------------------------------
(* Sums over sets *)

\* What FoldSet makes of the subsets of a set, for a sum.
SumsOf(S, w) ==
  CHOOSE g : g = [s \in SUBSET S |->
                    IF s = {} THEN 0 ELSE g[s \ {PickOne(s)}] + w[PickOne(s)]]

AreNumbers(S, w) == \A x \in S : w[x] \in Nat

\* SumOver is the library's fold over the set.
LEMMA SumIsFold == \A S, w : SumOver(S, w) = SumsOf(S, w)[S]
BY DEF SumOver, SumsOf, FoldSet, MapThenFoldSet, PickOne

\* The fold over a finite set adds the number of one element after the other.
LEMMA SumsFacts ==
  ASSUME NEW S, IsFiniteSet(S), NEW w, AreNumbers(S, w)
  PROVE  \A s \in SUBSET S :
           /\ SumsOf(S, w)[s] \in Nat
           /\ SumsOf(S, w)[s] = IF s = {} THEN 0
                                ELSE SumsOf(S, w)[s \ {PickOne(s)}] + w[PickOne(s)]
<1> DEFINE Step(g) == [s \in SUBSET S |->
             IF s = {} THEN 0 ELSE g[s \ {PickOne(s)}] + w[PickOne(s)]]
           ch == [s \in SUBSET S |-> PickOne(s)]
           F == [p \in S \X Nat |-> p[2] + w[p[1]]]
<1>1. \A s \in SUBSET S : s # {} => PickOne(s) \in s /\ ch[s] = PickOne(s) BY DEF PickOne
<1>2. \A s \in SUBSET S : s # {} => ch[s] \in s BY <1>1
<1>3. F \in [S \X Nat -> Nat] BY DEF AreNumbers
<1>4. \A x \in S, k \in Nat : F[<<x, k>>] = k + w[x] OBVIOUS
<1>5. \E g \in [SUBSET S -> Nat] : g = Step(g)
  <2> HIDE DEF ch, F
  <2>1. PICK g \in [SUBSET S -> Nat] : IsFold(g, S, 0, F, ch)
    BY <1>2, <1>3, RecursionOnSubsets
  <2>2. ASSUME NEW s \in SUBSET S PROVE g[s] = Step(g)[s]
    <3>1. CASE s = {} BY <2>1, <3>1 DEF IsFold
    <3>2. CASE s # {}
      <4>1. PickOne(s) \in S /\ g[s \ {PickOne(s)}] \in Nat /\ ch[s] = PickOne(s)
        BY <1>1, <2>1, <3>2
      <4>2. g[s] = F[<<PickOne(s), g[s \ {PickOne(s)}]>>] BY <2>1, <3>2, <4>1 DEF IsFold
      <4> QED BY <1>4, <3>2, <4>1, <4>2
    <3> QED BY <3>1, <3>2
  <2>3. g = Step(g)
    <3>1. g = [s \in SUBSET S |-> g[s]] BY <2>1
    <3>2. Step(g) = [s \in SUBSET S |-> Step(g)[s]] OBVIOUS
    <3> HIDE DEF Step
    <3> QED BY <2>2, <3>1, <3>2
  <2> HIDE DEF Step
  <2> QED BY <2>1, <2>3
<1>6. PICK sums : sums = SumsOf(S, w) OBVIOUS
<1>7. sums = Step(sums) BY <1>5, <1>6 DEF SumsOf
<1>8. \A s \in SUBSET S :
        sums[s] = IF s = {} THEN 0 ELSE sums[s \ {PickOne(s)}] + w[PickOne(s)]
  BY <1>7
<1> DEFINE Good == {s \in SUBSET S : sums[s] \in Nat}
<1>9. {} \in Good BY <1>8
<1>10. \A s \in SUBSET S : s # {} => \E x \in s : s \ {x} \in Good => s \in Good
  <2> SUFFICES ASSUME NEW s \in SUBSET S, s # {}, s \ {PickOne(s)} \in Good PROVE s \in Good
    BY <1>1
  <2>1. PickOne(s) \in s /\ w[PickOne(s)] \in Nat BY <1>1 DEF AreNumbers
  <2>2. sums[s] = sums[s \ {PickOne(s)}] + w[PickOne(s)] BY <1>8
  <2> QED BY <2>1, <2>2
<1>11. SUBSET S \subseteq Good
  <2> HIDE DEF Good
  <2> QED BY <1>9, <1>10, SubsetInduction
<1> QED BY <1>6, <1>8, <1>11

\* A part of a set has the same sum for itself.
LEMMA SumOfPart ==
  ASSUME NEW S, IsFiniteSet(S), NEW w, AreNumbers(S, w), NEW T \in SUBSET S
  PROVE  SumOver(T, w) = SumsOf(S, w)[T]
<1>1. IsFiniteSet(T) /\ AreNumbers(T, w) BY FS_Subset DEF AreNumbers
<1>2. PICK a : a = SumsOf(S, w) OBVIOUS
<1>3. PICK b : b = SumsOf(T, w) OBVIOUS
<1>4. \A s \in SUBSET S : a[s] = IF s = {} THEN 0 ELSE a[s \ {PickOne(s)}] + w[PickOne(s)]
  BY <1>2, SumsFacts
<1>5. \A s \in SUBSET T : b[s] = IF s = {} THEN 0 ELSE b[s \ {PickOne(s)}] + w[PickOne(s)]
  BY <1>1, <1>3, SumsFacts
<1> DEFINE Good == {s \in SUBSET T : a[s] = b[s]}
<1>6. {} \in Good BY <1>4, <1>5
<1>7. \A s \in SUBSET T : s # {} => \E x \in s : s \ {x} \in Good => s \in Good
  <2>0. \A s \in SUBSET T : s # {} => PickOne(s) \in s BY DEF PickOne
  <2> SUFFICES ASSUME NEW s \in SUBSET T, s # {}, s \ {PickOne(s)} \in Good PROVE s \in Good
    BY <2>0
  <2>1. PickOne(s) \in s BY <2>0
  <2>2. a[s] = a[s \ {PickOne(s)}] + w[PickOne(s)] BY <1>4
  <2>3. b[s] = b[s \ {PickOne(s)}] + w[PickOne(s)] BY <1>5
  <2> QED BY <2>1, <2>2, <2>3
<1>8. T \in Good
  <2> HIDE DEF Good
  <2> QED BY <1>1, <1>6, <1>7, SubsetInduction
<1> QED BY <1>2, <1>3, <1>8, SumIsFold

SumIsWithout(s, x, w) == SumOver(s, w) = SumOver(s \ {x}, w) + w[x]

\* A sum does not depend on the order.
LEMMA SumStep ==
  ASSUME NEW S, IsFiniteSet(S), NEW w, AreNumbers(S, w)
  PROVE  /\ SumOver(S, w) \in Nat
         /\ SumOver({}, w) = 0
         /\ \A x \in S : SumOver(S, w) = SumOver(S \ {x}, w) + w[x]
<1>1. PICK a : a = SumsOf(S, w) OBVIOUS
<1>2. \A s \in SUBSET S : SumOver(s, w) = a[s] BY <1>1, SumOfPart
<1>3. \A s \in SUBSET S :
        /\ SumOver(s, w) \in Nat
        /\ SumOver(s, w) = IF s = {} THEN 0 ELSE SumOver(s \ {PickOne(s)}, w) + w[PickOne(s)]
  <2> SUFFICES ASSUME NEW s \in SUBSET S
               PROVE  /\ SumOver(s, w) \in Nat
                      /\ SumOver(s, w) = IF s = {} THEN 0
                                         ELSE SumOver(s \ {PickOne(s)}, w) + w[PickOne(s)]
    OBVIOUS
  <2>1. /\ a[s] \in Nat
        /\ a[s] = IF s = {} THEN 0 ELSE a[s \ {PickOne(s)}] + w[PickOne(s)]
    BY <1>1, SumsFacts
  <2>2. s \ {PickOne(s)} \in SUBSET S OBVIOUS
  <2> QED BY <1>2, <2>1, <2>2
<1>4. PICK N \in Nat : N = Cardinality(S) BY FS_CardinalityType
<1> DEFINE Good == {n \in 0 .. N : \A s \in SUBSET S :
                      Cardinality(s) = n => \A x \in s : SumIsWithout(s, x, w)}
<1>5. \A s \in SUBSET S : IsFiniteSet(s) /\ Cardinality(s) \in 0 .. N
  BY <1>4, FS_Subset, FS_CardinalityType
<1>6. 0 \in Good
  <2>1. \A s \in SUBSET S : Cardinality(s) = 0 => s = {} BY <1>5, FS_EmptySet
  <2> QED BY <1>4, <2>1
<1>7. \A n \in 1 .. N : n - 1 \in Good => n \in Good
  <2> SUFFICES ASSUME NEW n \in 1 .. N, n - 1 \in Good, NEW s \in SUBSET S,
                      Cardinality(s) = n, NEW x \in s
               PROVE  SumIsWithout(s, x, w)
    OBVIOUS
  <2>1. PICK c \in s : c = PickOne(s) BY DEF PickOne
  <2>2. CASE x = c BY <1>3, <2>1, <2>2 DEF SumIsWithout
  <2>3. CASE x # c
    \* Both are left out, in one order or the other.
    <3>1. PICK r \in SUBSET S : r = (s \ {c}) \ {x} OBVIOUS
    <3>2. \A y \in s : s \ {y} \in SUBSET S /\ Cardinality(s \ {y}) = n - 1
      <4>1. \A y \in s : Cardinality(s \ {y}) = Cardinality(s) - 1 BY <1>5, FS_RemoveElement
      <4> QED BY <4>1
    <3>3. SumIsWithout(s \ {c}, x, w) /\ SumIsWithout(s \ {x}, c, w) BY <2>3, <3>2
    <3>4. (s \ {x}) \ {c} = r BY <3>1
    <3>5. SumOver(s \ {c}, w) = SumOver(r, w) + w[x] /\ SumOver(s \ {x}, w) = SumOver(r, w) + w[c]
      BY <3>1, <3>3, <3>4 DEF SumIsWithout
    <3>6. SumOver(s, w) = SumOver(s \ {c}, w) + w[c] BY <1>3, <2>1
    <3>7. SumOver(r, w) \in Nat /\ w[x] \in Nat /\ w[c] \in Nat BY <1>3 DEF AreNumbers
    <3>8. SumOver(s, w) = SumOver(s \ {x}, w) + w[x]
      <4> HIDE DEF Good
      <4> QED BY <3>5, <3>6, <3>7
    <3> QED BY <3>8 DEF SumIsWithout
  <2> QED BY <2>2, <2>3
<1>8. 0 .. N \subseteq Good
  <2> HIDE DEF Good
  <2> QED BY <1>4, <1>6, <1>7, InductionUpTo
<1>9. \A x \in S : SumIsWithout(S, x, w) BY <1>4, <1>8
<1> HIDE DEF Good
<1> QED BY <1>3, <1>9 DEF SumIsWithout

IsBijection(b, S, T) ==
  /\ b \in [S -> T]
  /\ \A x, y \in S : b[x] = b[y] => x = y
  /\ \A z \in T : \E x \in S : b[x] = z

\* Sums of equal numbers, renamed, are equal.
LEMMA SumUnderBijection ==
  ASSUME NEW S, IsFiniteSet(S), NEW T, NEW b, IsBijection(b, S, T),
         NEW w, AreNumbers(S, w), NEW u, \A x \in S : u[b[x]] = w[x]
  PROVE  SumOver(T, u) = SumOver(S, w)
<1> DEFINE Image(s) == {b[x] : x \in s}
           Good == {s \in SUBSET S : SumOver(Image(s), u) = SumOver(s, w)}
<1>1. \A s \in SUBSET S : /\ IsFiniteSet(s) /\ IsFiniteSet(Image(s))
                          /\ AreNumbers(s, w) /\ AreNumbers(Image(s), u)
  <2> SUFFICES ASSUME NEW s \in SUBSET S
               PROVE  /\ IsFiniteSet(s) /\ IsFiniteSet(Image(s))
                      /\ AreNumbers(s, w) /\ AreNumbers(Image(s), u)
    OBVIOUS
  <2>1. IsFiniteSet(s) BY FS_Subset
  <2>2. IsFiniteSet(Image(s))
    <3>1. [x \in s |-> b[x]] \in Surjection(s, Image(s)) BY DEF Surjection
    <3> QED BY <2>1, <3>1, FS_Surjection
  <2> QED BY <2>1, <2>2 DEF AreNumbers
<1>2. {} \in Good
  <2>1. Image({}) = {} OBVIOUS
  <2>2. SumOver({}, u) = 0 /\ SumOver({}, w) = 0
    <3>1. {} \in SUBSET S /\ IsFiniteSet({}) /\ AreNumbers({}, u) /\ AreNumbers({}, w)
      BY <1>1, <2>1
    <3> QED BY <3>1, SumStep
  <2> QED BY <2>1, <2>2
<1>3. \A s \in SUBSET S : s # {} => \E x \in s : s \ {x} \in Good => s \in Good
  <2> SUFFICES ASSUME NEW s \in SUBSET S, NEW x \in s, s \ {x} \in Good PROVE s \in Good
    OBVIOUS
  <2>1. Image(s) \ {b[x]} = Image(s \ {x}) BY DEF IsBijection
  <2>2. b[x] \in Image(s) /\ u[b[x]] = w[x] OBVIOUS
  <2>3. SumOver(Image(s \ {x}), u) = SumOver(s \ {x}, w) OBVIOUS
  <2>4. PICK i : i = Image(s) OBVIOUS
  <2>5. SumOver(i, u) = SumOver(i \ {b[x]}, u) + u[b[x]]
    <3>1. IsFiniteSet(i) /\ AreNumbers(i, u) /\ b[x] \in i BY <1>1, <2>2, <2>4
    <3> QED BY <3>1, SumStep
  <2>6. SumOver(s, w) = SumOver(s \ {x}, w) + w[x]
    <3>1. IsFiniteSet(s) /\ AreNumbers(s, w) /\ x \in s BY <1>1
    <3> QED BY <3>1, SumStep
  <2> QED BY <2>1, <2>2, <2>3, <2>4, <2>5, <2>6
<1>4. S \in Good
  <2> HIDE DEF Good
  <2> QED BY <1>2, <1>3, SubsetInduction
<1>5. Image(S) = T BY DEF IsBijection
<1> QED BY <1>4, <1>5

\* The ids in their order.
LEMMA AscendingFacts ==
  ASSUME NEW S, IsFiniteSet(S), S \subseteq Nat
  PROVE  IsListOf(Ascending(S), Cardinality(S), S)
<1>1. Ascending(S) = RankedList(S) BY DEF Ascending, RankedList, RankIn
<1> QED BY <1>1, RankedFacts

-----------------------------------------------------------------------------
(* Isomorphisms *)

OfKind(S, w, kind) == {x \in S : w[x] = kind}

SameKinds(A, p, B, q) ==
  \A x \in A : Cardinality(OfKind(A, p, p[x])) = Cardinality(OfKind(B, q, p[x]))

KeepsKinds(b, A, p, q) == \A x \in A : q[b[x]] = p[x]

\* Two sets with equal numbers of elements of each kind can be matched kind by kind.
LEMMA EqualKinds ==
  ASSUME NEW A, IsFiniteSet(A), NEW B, IsFiniteSet(B), Cardinality(A) = Cardinality(B),
         NEW p, NEW q, SameKinds(A, p, B, q)
  PROVE  \E b : IsBijection(b, A, B) /\ KeepsKinds(b, A, p, q)
<1> DEFINE kindA(c) == OfKind(A, p, c)
           kindB(c) == OfKind(B, q, c)
           match(c) == CHOOSE k : k \in Bijection(kindA(c), kindB(c))
           b == [x \in A |-> match(p[x])[x]]
<1>1. ASSUME NEW x \in A PROVE match(p[x]) \in Bijection(kindA(p[x]), kindB(p[x]))
  <2>1. PICK S, T : S = kindA(p[x]) /\ T = kindB(p[x]) OBVIOUS
  <2>2. IsFiniteSet(S) /\ IsFiniteSet(T) /\ Cardinality(S) = Cardinality(T)
    BY <2>1, FS_Subset DEF OfKind, SameKinds
  <2>3. ExistsBijection(S, T) BY <2>2, FS_SameCardinalityBij
  <2>4. \E k : k \in Bijection(S, T) BY <2>3 DEF ExistsBijection
  <2> QED BY <2>1, <2>4
<1> HIDE DEF match
<1>2. ASSUME NEW x \in A PROVE b[x] \in B /\ q[b[x]] = p[x]
  <2>1. x \in kindA(p[x]) BY DEF OfKind
  <2>2. match(p[x])[x] \in kindB(p[x]) BY <1>1, <2>1 DEF Bijection, Injection
  <2> QED BY <2>2 DEF OfKind
<1>3. ASSUME NEW x \in A, NEW y \in A, b[x] = b[y] PROVE x = y
  <2>1. p[x] = p[y] BY <1>2, <1>3
  <2>2. x \in kindA(p[x]) /\ y \in kindA(p[x]) BY <2>1 DEF OfKind
  <2>3. match(p[x])[x] = match(p[x])[y] BY <1>3, <2>1
  <2> QED BY <1>1, <2>2, <2>3 DEF Bijection, Injection, IsInjective
<1>4. b \in Injection(A, B) BY <1>2, <1>3 DEF Injection, IsInjective
<1>5. b \in Surjection(A, B)
  <2> HIDE DEF b
  <2> QED BY <1>4, FS_Injection
<1> HIDE DEF b
<1> QED BY <1>2, <1>3, <1>4, <1>5 DEF IsBijection, Injection, Surjection, KeepsKinds

\* m maps g to h element by element.
IsIsomorphism(m, g, h) ==
  /\ IsBijection(m, Elements(g), Elements(h))
  /\ \A v \in g.vertices : m[v] \in h.vertices
  /\ \A e \in DOMAIN g.edges :
       /\ m[e] \in DOMAIN h.edges
       /\ h.edges[m[e]].label = g.edges[e].label
       /\ DOMAIN h.edges[m[e]].vertices = DOMAIN g.edges[e].vertices
       /\ \A i \in DOMAIN g.edges[e].vertices :
            h.edges[m[e]].vertices[i] = m[g.edges[e].vertices[i]]

\* Isomorphic graphs have an isomorphism that maps edges, too.
LEMMA IsomorphismExists ==
  ASSUME NEW g, IsHypergraph(g), NEW h, IsHypergraph(h), IsomorphicGraphs(g, h)
  PROVE  \E m : IsIsomorphism(m, g, h)
<1> DEFINE Moved(f, e) == [g.edges[e] EXCEPT !.vertices = [i \in DOMAIN @ |-> f[@[i]]]]
<1>1. PICK f \in Bijections(g.vertices, h.vertices) :
        \A e \in DOMAIN g.edges :
          Cardinality({d \in DOMAIN g.edges : Moved(f, d) = Moved(f, e)})
            = Cardinality({d \in DOMAIN h.edges : h.edges[d] = Moved(f, e)})
  BY DEF IsomorphicGraphs
<1>2. IsBijection(f, g.vertices, h.vertices) BY DEF Bijections, IsBijection, IsInjective, Range
<1>3. PICK p : p = [e \in DOMAIN g.edges |-> Moved(f, e)] OBVIOUS
<1>4. \A e \in DOMAIN g.edges : p[e] = Moved(f, e) BY <1>3
<1>5. \A e \in DOMAIN g.edges : Cardinality(OfKind(DOMAIN g.edges, p, p[e]))
                                  = Cardinality(OfKind(DOMAIN h.edges, h.edges, p[e]))
  <2> SUFFICES ASSUME NEW e \in DOMAIN g.edges
               PROVE  Cardinality(OfKind(DOMAIN g.edges, p, p[e]))
                        = Cardinality(OfKind(DOMAIN h.edges, h.edges, p[e]))
    OBVIOUS
  <2> HIDE DEF Moved
  <2>1. /\ OfKind(DOMAIN g.edges, p, p[e]) = {d \in DOMAIN g.edges : Moved(f, d) = Moved(f, e)}
        /\ OfKind(DOMAIN h.edges, h.edges, p[e]) = {d \in DOMAIN h.edges : h.edges[d] = Moved(f, e)}
    BY <1>4 DEF OfKind
  <2> QED BY <1>1, <1>4, <2>1
<1>6. /\ IsFiniteSet(DOMAIN g.edges) /\ IsFiniteSet(DOMAIN h.edges)
      /\ Cardinality(DOMAIN g.edges) = Cardinality(DOMAIN h.edges)
  BY DEF IsHypergraph, IsomorphicGraphs
<1>7. PICK b : /\ IsBijection(b, DOMAIN g.edges, DOMAIN h.edges)
               /\ \A e \in DOMAIN g.edges : h.edges[b[e]] = p[e]
  <2>1. PICK A, B, q : A = DOMAIN g.edges /\ B = DOMAIN h.edges /\ q = h.edges OBVIOUS
  <2>2. /\ IsFiniteSet(A) /\ IsFiniteSet(B) /\ Cardinality(A) = Cardinality(B)
        /\ SameKinds(A, p, B, q)
    BY <1>5, <1>6, <2>1 DEF SameKinds
  <2>3. \E b : IsBijection(b, A, B) /\ KeepsKinds(b, A, p, q) BY <2>2, EqualKinds
  <2> QED BY <2>1, <2>3 DEF KeepsKinds
<1>8. PICK m : m = [x \in Elements(g) |-> IF x \in g.vertices THEN f[x] ELSE b[x]] OBVIOUS
<1>9. /\ \A v \in g.vertices : m[v] = f[v]
      /\ \A e \in DOMAIN g.edges : m[e] = b[e]
  BY <1>8 DEF Elements, IsHypergraph
<1>10. IsBijection(m, Elements(g), Elements(h))
  <2>1. m \in [Elements(g) -> Elements(h)] BY <1>2, <1>7, <1>8 DEF IsBijection, Elements
  <2>2. h.vertices \cap DOMAIN h.edges = {} BY DEF IsHypergraph
  <2>3. \A x \in Elements(g) :
          \/ x \in g.vertices /\ m[x] \in h.vertices
          \/ x \in DOMAIN g.edges /\ m[x] \in DOMAIN h.edges
    BY <1>2, <1>7, <1>9 DEF IsBijection, Elements
  <2>4. ASSUME NEW x \in Elements(g), NEW y \in Elements(g), m[x] = m[y] PROVE x = y
    <3>1. CASE x \in g.vertices /\ y \in g.vertices BY <1>2, <1>9, <2>4, <3>1 DEF IsBijection
    <3>2. CASE x \in DOMAIN g.edges /\ y \in DOMAIN g.edges
      BY <1>7, <1>9, <2>4, <3>2 DEF IsBijection
    <3> QED BY <2>2, <2>3, <2>4, <3>1, <3>2
  <2>5. ASSUME NEW z \in Elements(h) PROVE \E x \in Elements(g) : m[x] = z
    BY <1>2, <1>7, <1>9 DEF IsBijection, Elements
  <2> QED BY <2>1, <2>4, <2>5 DEF IsBijection
<1>11. ASSUME NEW e \in DOMAIN g.edges
       PROVE  /\ m[e] \in DOMAIN h.edges
              /\ h.edges[m[e]].label = g.edges[e].label
              /\ DOMAIN h.edges[m[e]].vertices = DOMAIN g.edges[e].vertices
              /\ \A i \in DOMAIN g.edges[e].vertices :
                   h.edges[m[e]].vertices[i] = m[g.edges[e].vertices[i]]
  <2>1. m[e] \in DOMAIN h.edges /\ h.edges[m[e]] = p[e] BY <1>7, <1>9 DEF IsBijection
  <2>2. g.edges[e] \in [label : DOMAIN CharCodes, vertices : Seq(g.vertices)]
    BY DEF IsHypergraph
  <2>3. \A i \in DOMAIN g.edges[e].vertices : g.edges[e].vertices[i] \in g.vertices
    <3>1. PICK s : s = g.edges[e].vertices OBVIOUS
    <3>2. s \in Seq(g.vertices) BY <2>2, <3>1
    <3>3. \A i \in DOMAIN s : s[i] \in g.vertices BY <3>2, LenProperties
    <3> QED BY <3>1, <3>3
  <2>4. /\ p[e].label = g.edges[e].label
        /\ DOMAIN p[e].vertices = DOMAIN g.edges[e].vertices
        /\ \A i \in DOMAIN g.edges[e].vertices : p[e].vertices[i] = f[g.edges[e].vertices[i]]
    <3>1. PICK r \in [label : DOMAIN CharCodes, vertices : Seq(g.vertices)] : r = g.edges[e]
      BY <2>2
    <3>2. p[e] = [r EXCEPT !.vertices = [i \in DOMAIN @ |-> f[@[i]]]] BY <1>4, <3>1
    <3>3. p[e].label = r.label /\ p[e].vertices = [i \in DOMAIN r.vertices |-> f[r.vertices[i]]]
      BY <3>2
    <3> QED BY <3>1, <3>3
  <2> QED BY <1>9, <2>1, <2>3, <2>4
<1>12. \A v \in g.vertices : m[v] \in h.vertices BY <1>2, <1>9 DEF IsBijection
<1>13. IsIsomorphism(m, g, h) BY <1>10, <1>11, <1>12 DEF IsIsomorphism
<1> QED BY <1>13

-----------------------------------------------------------------------------
(* Signatures *)

\* Hashes of labels are numbers.
LEMMA HashesAreNumbers ==
  ASSUME NEW codes \in Seq(Nat)
  PROVE  HashFromString(codes) \in Nat
<1> DEFINE Step(acc) == [i \in 0 .. Len(codes) |-> IF i = 0 THEN 0 ELSE acc[i - 1] * 16 + codes[i]]
<1>1. PICK n \in Nat : n = Len(codes) BY LenProperties
<1>2. \A i \in 1 .. n : codes[i] \in Nat BY <1>1, LenProperties
<1>3. PICK F : F = [p \in (1 .. n) \X Nat |-> p[2] * 16 + codes[p[1]]] OBVIOUS
<1>4. F \in [(1 .. n) \X Nat -> Nat] /\ \A i \in 1 .. n, v \in Nat : F[<<i, v>>] = v * 16 + codes[i]
  <2> DEFINE G(p) == p[2] * 16 + codes[p[1]]
  <2>1. ASSUME NEW i \in 1 .. n, NEW v \in Nat
        PROVE  G(<<i, v>>) = v * 16 + codes[i] /\ G(<<i, v>>) \in Nat
    <3>1. PICK c \in Nat : c = codes[i] BY <1>2
    <3>2. v * 16 + c \in Nat OBVIOUS
    <3>3. G(<<i, v>>) = v * 16 + codes[i] OBVIOUS
    <3> QED BY <3>1, <3>2, <3>3
  <2>2. F = [p \in (1 .. n) \X Nat |-> G(p)] BY <1>3
  <2> HIDE DEF G
  <2>3. \A i \in 1 .. n, v \in Nat : F[<<i, v>>] = v * 16 + codes[i] BY <2>1, <2>2
  <2>4. \A p \in (1 .. n) \X Nat : G(p) \in Nat BY <2>1
  <2> QED BY <2>2, <2>3, <2>4
<1>5. PICK g \in [0 .. n -> Nat] : IsRecursion(g, n, 0, F) BY <1>4, RecursionOnNumbers
<1>6. g = Step(g)
  <2>1. \A i \in 0 .. n : i # 0 => i \in 1 .. n /\ i - 1 \in 0 .. n OBVIOUS
  <2>2. ASSUME NEW i \in 0 .. n PROVE g[i] = Step(g)[i]
    <3>1. CASE i = 0 BY <1>1, <1>5, <3>1 DEF IsRecursion
    <3>2. CASE i # 0
      <4>1. i \in 1 .. n /\ g[i - 1] \in Nat BY <1>5, <2>1, <3>2
      <4>2. g[i] = F[<<i, g[i - 1]>>] BY <1>5, <4>1 DEF IsRecursion
      <4> QED BY <1>1, <1>4, <3>2, <4>1, <4>2
    <3> QED BY <3>1, <3>2
  <2>3. g = [i \in 0 .. n |-> g[i]] BY <1>5
  <2>4. Step(g) = [i \in 0 .. n |-> Step(g)[i]] BY <1>1
  <2> HIDE DEF Step
  <2> QED BY <2>2, <2>3, <2>4
<1>7. PICK acc : acc = CHOOSE f : f = Step(f) OBVIOUS
<1>8. acc = Step(acc)
  <2> HIDE DEF Step
  <2> QED BY <1>6, <1>7
<1>9. \A i \in 0 .. n : acc[i] = IF i = 0 THEN 0 ELSE acc[i - 1] * 16 + codes[i] BY <1>1, <1>8
<1> DEFINE Good == {i \in 0 .. n : acc[i] \in Nat}
<1>10. 0 \in Good BY <1>9
<1>11. \A i \in 1 .. n : i - 1 \in Good => i \in Good
  <2> SUFFICES ASSUME NEW i \in 1 .. n, acc[i - 1] \in Nat PROVE acc[i] \in Nat
    OBVIOUS
  <2>1. acc[i] = acc[i - 1] * 16 + codes[i] /\ codes[i] \in Nat BY <1>2, <1>9
  <2>2. PICK a \in Nat, c \in Nat : a = acc[i - 1] /\ c = codes[i] BY <2>1
  <2>3. a * 16 + c \in Nat OBVIOUS
  <2> QED BY <2>1, <2>2, <2>3
<1>12. 0 .. n \subseteq Good
  <2> HIDE DEF Good
  <2> QED BY <1>10, <1>11, InductionUpTo
<1>13. acc[n] \in Nat BY <1>12
<1>14. HashFromString(codes) = acc[n] BY <1>1, <1>7 DEF HashFromString, Folded
<1> QED BY <1>13, <1>14

\* So are the contributions of edges to a signature.
LEMMA CertsAreNumbers ==
  ASSUME NEW old \in Nat, NEW label \in DOMAIN CharCodes,
         NEW ids, IsFiniteSet(ids), NEW certs \in [ids -> Nat]
  PROVE  NewCert(old, label, certs) \in Nat
<1>1. PICK hash \in Nat : hash = HashFromString(CharCodes[label])
  BY HashesAreNumbers, CharCodesAssumption
<1>2. PICK k : k = (hash % 16) + 1 OBVIOUS
<1>3. k \in 1 .. 16 BY <1>1, <1>2
<1>4. 2^k \in Nat
  <2>1. /\ 2^1 \in Nat /\ 2^2 \in Nat /\ 2^3 \in Nat /\ 2^4 \in Nat
        /\ 2^5 \in Nat /\ 2^6 \in Nat /\ 2^7 \in Nat /\ 2^8 \in Nat
    OBVIOUS
  <2>2. /\ 2^9 \in Nat /\ 2^10 \in Nat /\ 2^11 \in Nat /\ 2^12 \in Nat
        /\ 2^13 \in Nat /\ 2^14 \in Nat /\ 2^15 \in Nat /\ 2^16 \in Nat
    OBVIOUS
  <2>3. \/ k = 1 \/ k = 2 \/ k = 3 \/ k = 4 \/ k = 5 \/ k = 6 \/ k = 7 \/ k = 8
        \/ k = 9 \/ k = 10 \/ k = 11 \/ k = 12 \/ k = 13 \/ k = 14 \/ k = 15 \/ k = 16
    BY <1>3
  <2> QED BY <2>1, <2>2, <2>3
<1>5. PICK sum \in Nat : sum = SumOver(DOMAIN certs, certs)
  <2>1. DOMAIN certs = ids /\ AreNumbers(ids, certs) BY DEF AreNumbers
  <2> QED BY <2>1, SumStep
<1>6. PICK power \in Nat : power = 2^k BY <1>4
<1>7. NewCert(old, label, certs) = old + power * sum BY <1>1, <1>2, <1>5, <1>6 DEF NewCert
<1> QED BY <1>7

SignaturesOf(h) == [sigs : [Elements(h) -> Nat], lastSize : Nat, told : Nat, sum : Nat]

\* What is known about the elements of a graph.
LEMMA ElementFacts ==
  ASSUME NEW h, IsHypergraph(h)
  PROVE  /\ IsFiniteSet(Elements(h)) /\ Elements(h) \subseteq Nat
         /\ IsFiniteSet(h.vertices) /\ IsFiniteSet(DOMAIN h.edges)
         /\ \A e \in DOMAIN h.edges :
              /\ e \in Elements(h) /\ e \notin h.vertices
              /\ h.edges[e].label \in DOMAIN CharCodes
              /\ \E n \in Nat : n = Len(h.edges[e].vertices) /\ DOMAIN h.edges[e].vertices = 1 .. n
              /\ \A i \in DOMAIN h.edges[e].vertices :
                   /\ h.edges[e].vertices[i] \in h.vertices
                   /\ h.edges[e].vertices[i] \in Elements(h)
<1>1. IsFiniteSet(h.vertices) /\ IsFiniteSet(DOMAIN h.edges) BY DEF IsHypergraph
<1>2. IsFiniteSet(Elements(h)) BY <1>1, FS_Union DEF Elements
<1>3. ASSUME NEW e \in DOMAIN h.edges
      PROVE  /\ e \in Elements(h) /\ e \notin h.vertices
             /\ h.edges[e].label \in DOMAIN CharCodes
             /\ \E n \in Nat : n = Len(h.edges[e].vertices) /\ DOMAIN h.edges[e].vertices = 1 .. n
             /\ \A i \in DOMAIN h.edges[e].vertices :
                  /\ h.edges[e].vertices[i] \in h.vertices
                  /\ h.edges[e].vertices[i] \in Elements(h)
  <2>1. e \in Elements(h) /\ e \notin h.vertices BY DEF IsHypergraph, Elements
  <2>2. h.edges[e] \in [label : DOMAIN CharCodes, vertices : Seq(h.vertices)]
    BY DEF IsHypergraph
  <2>3. PICK s \in Seq(h.vertices) : s = h.edges[e].vertices BY <2>2
  <2>4. Len(s) \in Nat /\ DOMAIN s = 1 .. Len(s) /\ \A i \in DOMAIN s : s[i] \in h.vertices
    BY LenProperties
  <2> QED BY <2>1, <2>2, <2>3, <2>4 DEF Elements
<1> QED BY <1>1, <1>2, <1>3 DEF IsHypergraph

\* What the edges at a vertex contribute is a number.
LEMMA NeighboursAreNumbers ==
  ASSUME NEW h, IsHypergraph(h), NEW sigs, AreNumbers(Elements(h), sigs), NEW v \in h.vertices
  PROVE  /\ \A e \in DOMAIN h.edges : TimesIn(h, v, e) \in Nat
         /\ AreNumbers(DOMAIN h.edges, [e \in DOMAIN h.edges |-> sigs[e] * TimesIn(h, v, e)])
         /\ Neighbours(h, v, sigs) \in Nat
<1>1. ASSUME NEW e \in DOMAIN h.edges PROVE TimesIn(h, v, e) \in Nat
  <2>1. PICK n \in Nat : DOMAIN h.edges[e].vertices = 1 .. n BY ElementFacts
  <2>2. IsFiniteSet(1 .. n) BY FS_Interval
  <2>3. IsFiniteSet({i \in DOMAIN h.edges[e].vertices : h.edges[e].vertices[i] = v})
    BY <2>1, <2>2, FS_Subset
  <2> QED BY <2>3, FS_CardinalityType DEF TimesIn
<1>2. PICK w : w = [e \in DOMAIN h.edges |-> sigs[e] * TimesIn(h, v, e)] OBVIOUS
<1>3. AreNumbers(DOMAIN h.edges, w)
  <2> SUFFICES ASSUME NEW e \in DOMAIN h.edges PROVE w[e] \in Nat
    BY DEF AreNumbers
  <2>1. sigs[e] \in Nat /\ TimesIn(h, v, e) \in Nat BY <1>1, ElementFacts DEF AreNumbers
  <2> QED BY <1>2, <2>1
<1>4. SumOver(DOMAIN h.edges, w) \in Nat
  <2>1. IsFiniteSet(DOMAIN h.edges) BY ElementFacts
  <2> QED BY <1>3, <2>1, SumStep
<1> QED BY <1>1, <1>2, <1>3, <1>4 DEF Neighbours

\* What is counted after a round.
CountedIn(h, sigs, old) == [x \in Elements(h) |-> IF x \in h.vertices THEN sigs[x] ELSE old[x]]

RefinedSigs(h, old) == [x \in Elements(h) |-> RefinedNumber(h, old, x)]

\* A round of refinement makes a signature of the graph.
LEMMA RefinedType ==
  ASSUME NEW h, IsHypergraph(h), NEW s \in SignaturesOf(h)
  PROVE  /\ RefinedSigs(h, s.sigs) \in [Elements(h) -> Nat]
         /\ AreNumbers(Elements(h), CountedIn(h, RefinedSigs(h, s.sigs), s.sigs))
         /\ RefinedSignature(h, s) \in SignaturesOf(h)
<1>1. PICK old \in [Elements(h) -> Nat] : old = s.sigs BY DEF SignaturesOf
<1>2. AreNumbers(Elements(h), old) BY DEF AreNumbers
<1>3. ASSUME NEW x \in Elements(h) PROVE RefinedNumber(h, old, x) \in Nat
  <2>1. CASE x \in h.vertices
    <3>1. old[x] \in Nat /\ Neighbours(h, x, old) \in Nat BY <1>2, <2>1, NeighboursAreNumbers
    <3> QED BY <2>1, <3>1 DEF RefinedNumber
  <2>2. CASE x \notin h.vertices
    <3>1. x \in DOMAIN h.edges BY <2>2 DEF Elements
    <3>2. PICK n \in Nat : DOMAIN h.edges[x].vertices = 1 .. n BY <3>1, ElementFacts
    <3>3. IsFiniteSet(1 .. n) BY FS_Interval
    <3>4. PICK certs : certs = [i \in DOMAIN h.edges[x].vertices |-> old[h.edges[x].vertices[i]]]
      OBVIOUS
    <3>5. certs \in [1 .. n -> Nat] BY <3>1, <3>2, <3>4, ElementFacts
    <3>6. old[x] \in Nat /\ h.edges[x].label \in DOMAIN CharCodes BY <3>1, ElementFacts
    <3>7. NewCert(old[x], h.edges[x].label, certs) \in Nat BY <3>3, <3>5, <3>6, CertsAreNumbers
    <3> QED BY <2>2, <3>4, <3>7 DEF RefinedNumber
  <2> QED BY <2>1, <2>2
<1>4. PICK sigs : sigs = RefinedSigs(h, old) OBVIOUS
<1>5. sigs \in [Elements(h) -> Nat] BY <1>3, <1>4 DEF RefinedSigs
<1>6. PICK counted : counted = CountedIn(h, sigs, old) OBVIOUS
<1>7. counted \in [Elements(h) -> Nat] BY <1>5, <1>6 DEF CountedIn
<1>8. AreNumbers(Elements(h), counted) BY <1>7 DEF AreNumbers
<1>9. SumOver(Elements(h), counted) \in Nat BY <1>8, ElementFacts, SumStep
<1>10. Cardinality(Range(counted)) \in Nat
  <2>1. counted \in Surjection(Elements(h), Range(counted)) BY <1>7 DEF Surjection, Range
  <2>2. IsFiniteSet(Range(counted)) BY <2>1, ElementFacts, FS_Surjection
  <2> QED BY <2>2, FS_CardinalityType
<1>11. RefinedSignature(h, s) = [sigs |-> sigs, lastSize |-> s.told,
                                 told |-> Cardinality(Range(counted)),
                                 sum |-> SumOver(Elements(h), counted)]
  BY <1>1, <1>4, <1>6 DEF RefinedSignature, RefinedSigs, CountedIn
<1>12. s.told \in Nat BY DEF SignaturesOf
<1> QED BY <1>1, <1>4, <1>5, <1>6, <1>8, <1>9, <1>10, <1>11, <1>12 DEF SignaturesOf

\* The same numbers for what an isomorphism maps to each other.
Correspond(m, g, s, t) ==
  /\ \A x \in Elements(g) : t.sigs[m[x]] = s.sigs[x]
  /\ t.lastSize = s.lastSize /\ t.told = s.told /\ t.sum = s.sum

SameTimes(m, g, h) ==
  \A v \in g.vertices : \A e \in DOMAIN g.edges : TimesIn(h, m[v], m[e]) = TimesIn(g, v, e)

\* What an isomorphism says of neighbours.
LEMMA IsomorphismFacts ==
  ASSUME NEW g, IsHypergraph(g), NEW h, IsHypergraph(h), NEW m, IsIsomorphism(m, g, h)
  PROVE  /\ IsBijection(m, Elements(g), Elements(h))
         /\ IsBijection([e \in DOMAIN g.edges |-> m[e]], DOMAIN g.edges, DOMAIN h.edges)
         /\ \A x \in Elements(g) : x \in g.vertices <=> m[x] \in h.vertices
         /\ SameTimes(m, g, h)
<1>1. IsBijection(m, Elements(g), Elements(h)) BY DEF IsIsomorphism
<1>2. \A x \in Elements(g) : x \in g.vertices <=> m[x] \in h.vertices
  <2>1. g.vertices \cap DOMAIN g.edges = {} /\ h.vertices \cap DOMAIN h.edges = {}
    BY DEF IsHypergraph
  <2> QED BY <2>1 DEF IsIsomorphism, Elements
<1>3. PICK b : b = [e \in DOMAIN g.edges |-> m[e]] OBVIOUS
<1>4. IsBijection(b, DOMAIN g.edges, DOMAIN h.edges)
  <2>1. b \in [DOMAIN g.edges -> DOMAIN h.edges] BY <1>3 DEF IsIsomorphism
  <2>2. \A x, y \in DOMAIN g.edges : b[x] = b[y] => x = y BY <1>1, <1>3 DEF IsBijection, Elements
  <2>3. ASSUME NEW z \in DOMAIN h.edges PROVE \E x \in DOMAIN g.edges : b[x] = z
    <3>1. z \in Elements(h) /\ z \notin h.vertices BY ElementFacts
    <3>2. PICK x \in Elements(g) : m[x] = z BY <1>1, <3>1 DEF IsBijection
    <3>3. x \in DOMAIN g.edges BY <1>2, <3>1, <3>2 DEF Elements
    <3> QED BY <1>3, <3>2, <3>3
  <2> QED BY <2>1, <2>2, <2>3 DEF IsBijection
<1>5. ASSUME NEW v \in g.vertices, NEW e \in DOMAIN g.edges
      PROVE  TimesIn(h, m[v], m[e]) = TimesIn(g, v, e)
  <2>1. /\ DOMAIN h.edges[m[e]].vertices = DOMAIN g.edges[e].vertices
        /\ \A i \in DOMAIN g.edges[e].vertices :
             h.edges[m[e]].vertices[i] = m[g.edges[e].vertices[i]]
    BY DEF IsIsomorphism
  <2>2. \A i \in DOMAIN g.edges[e].vertices : g.edges[e].vertices[i] \in Elements(g)
    BY ElementFacts
  <2>3. v \in Elements(g) BY DEF Elements
  <2>4. \A i \in DOMAIN g.edges[e].vertices :
          h.edges[m[e]].vertices[i] = m[v] <=> g.edges[e].vertices[i] = v
    BY <1>1, <2>1, <2>2, <2>3 DEF IsBijection
  <2>5. {i \in DOMAIN h.edges[m[e]].vertices : h.edges[m[e]].vertices[i] = m[v]}
          = {i \in DOMAIN g.edges[e].vertices : g.edges[e].vertices[i] = v}
    BY <2>1, <2>4
  <2> QED BY <2>5 DEF TimesIn
<1> QED BY <1>1, <1>2, <1>3, <1>4, <1>5 DEF SameTimes

\* Rounds keep signatures of isomorphic graphs corresponding.
LEMMA RefinedCorrespond ==
  ASSUME NEW g, IsHypergraph(g), NEW h, IsHypergraph(h), NEW m, IsIsomorphism(m, g, h),
         NEW s \in SignaturesOf(g), NEW t \in SignaturesOf(h), Correspond(m, g, s, t)
  PROVE  Correspond(m, g, RefinedSignature(g, s), RefinedSignature(h, t))
<1>1. PICK p, q : p = s.sigs /\ q = t.sigs OBVIOUS
<1>2. p \in [Elements(g) -> Nat] /\ q \in [Elements(h) -> Nat] BY <1>1 DEF SignaturesOf
<1>3. \A x \in Elements(g) : q[m[x]] = p[x] BY <1>1 DEF Correspond
<1>4. AreNumbers(Elements(g), p) /\ AreNumbers(Elements(h), q) BY <1>2 DEF AreNumbers
<1>5. \A x \in Elements(g) : m[x] \in Elements(h) BY DEF IsIsomorphism, IsBijection
<1>0. SameTimes(m, g, h)
  BY IsomorphismFacts
<1>6. ASSUME NEW v \in g.vertices PROVE Neighbours(h, m[v], q) = Neighbours(g, v, p)
  <2>1. PICK w : w = [e \in DOMAIN g.edges |-> p[e] * TimesIn(g, v, e)] OBVIOUS
  <2>2. PICK u : u = [e \in DOMAIN h.edges |-> q[e] * TimesIn(h, m[v], e)] OBVIOUS
  <2>3. AreNumbers(DOMAIN g.edges, w) BY <1>4, <2>1, NeighboursAreNumbers
  <2>4. PICK b : b = [e \in DOMAIN g.edges |-> m[e]] OBVIOUS
  <2>5. PICK S, T : S = DOMAIN g.edges /\ T = DOMAIN h.edges OBVIOUS
  <2>6. IsFiniteSet(S) /\ IsBijection(b, S, T) /\ AreNumbers(S, w)
    BY <2>3, <2>4, <2>5, IsomorphismFacts, ElementFacts
  <2>7. \A e \in S : u[b[e]] = w[e]
    <3> SUFFICES ASSUME NEW e \in DOMAIN g.edges PROVE u[b[e]] = w[e]
      BY <2>5
    <3>1. b[e] = m[e] /\ m[e] \in DOMAIN h.edges BY <2>4 DEF IsIsomorphism
    <3>2. q[m[e]] = p[e] BY <1>3 DEF Elements
    <3>3. TimesIn(h, m[v], m[e]) = TimesIn(g, v, e) BY <1>0 DEF SameTimes
    <3> QED BY <2>1, <2>2, <3>1, <3>2, <3>3
  <2>8. SumOver(T, u) = SumOver(S, w) BY <2>6, <2>7, SumUnderBijection
  <2> QED BY <2>1, <2>2, <2>5, <2>8 DEF Neighbours
<1>7. ASSUME NEW x \in Elements(g) PROVE RefinedNumber(h, q, m[x]) = RefinedNumber(g, p, x)
  <2>1. CASE x \in g.vertices
    <3>1. m[x] \in h.vertices BY <2>1, IsomorphismFacts
    <3> QED BY <1>3, <1>6, <2>1, <3>1 DEF RefinedNumber
  <2>2. CASE x \notin g.vertices
    <3>1. x \in DOMAIN g.edges /\ m[x] \notin h.vertices
      BY <2>2, IsomorphismFacts DEF Elements
    <3>2. /\ h.edges[m[x]].label = g.edges[x].label
          /\ DOMAIN h.edges[m[x]].vertices = DOMAIN g.edges[x].vertices
          /\ \A i \in DOMAIN g.edges[x].vertices :
               h.edges[m[x]].vertices[i] = m[g.edges[x].vertices[i]]
      BY <3>1 DEF IsIsomorphism
    <3>3. \A i \in DOMAIN g.edges[x].vertices :
            q[h.edges[m[x]].vertices[i]] = p[g.edges[x].vertices[i]]
      BY <1>3, <3>1, <3>2, ElementFacts
    <3>4. [i \in DOMAIN h.edges[m[x]].vertices |-> q[h.edges[m[x]].vertices[i]]]
            = [i \in DOMAIN g.edges[x].vertices |-> p[g.edges[x].vertices[i]]]
      BY <3>2, <3>3
    <3> QED BY <1>3, <2>2, <3>1, <3>2, <3>4 DEF RefinedNumber
  <2> QED BY <2>1, <2>2
<1>8. PICK p2, q2 : p2 = RefinedSigs(g, p) /\ q2 = RefinedSigs(h, q) OBVIOUS
<1>9. \A x \in Elements(g) : q2[m[x]] = p2[x] BY <1>5, <1>7, <1>8 DEF RefinedSigs
<1>10. PICK c, d : c = CountedIn(g, p2, p) /\ d = CountedIn(h, q2, q) OBVIOUS
<1>11. \A x \in Elements(g) : d[m[x]] = c[x]
  BY <1>3, <1>5, <1>9, <1>10, IsomorphismFacts DEF CountedIn
<1>12. DOMAIN c = Elements(g) /\ DOMAIN d = Elements(h) BY <1>10 DEF CountedIn
<1>13. \A y \in Elements(h) : \E x \in Elements(g) : m[x] = y
  BY DEF IsIsomorphism, IsBijection
<1>14. Range(d) = Range(c)
  <2>1. \A y \in Elements(h) : \E x \in Elements(g) : d[y] = c[x] BY <1>11, <1>13
  <2> QED BY <1>5, <1>11, <1>12, <2>1 DEF Range
<1>15. SumOver(Elements(h), d) = SumOver(Elements(g), c)
  <2>1. AreNumbers(Elements(g), c) BY <1>1, <1>8, <1>10, RefinedType
  <2>2. IsFiniteSet(Elements(g)) /\ IsBijection(m, Elements(g), Elements(h))
    BY ElementFacts, IsomorphismFacts
  <2>3. PICK S, T : S = Elements(g) /\ T = Elements(h) OBVIOUS
  <2>4. IsFiniteSet(S) /\ IsBijection(m, S, T) /\ AreNumbers(S, c) /\ \A x \in S : d[m[x]] = c[x]
    BY <1>11, <2>1, <2>2, <2>3
  <2>5. SumOver(T, d) = SumOver(S, c) BY <2>4, SumUnderBijection
  <2> QED BY <2>3, <2>5
<1>16. /\ RefinedSignature(g, s) = [sigs |-> p2, lastSize |-> s.told,
                                    told |-> Cardinality(Range(c)), sum |-> SumOver(Elements(g), c)]
       /\ RefinedSignature(h, t) = [sigs |-> q2, lastSize |-> t.told,
                                    told |-> Cardinality(Range(d)), sum |-> SumOver(Elements(h), d)]
  BY <1>1, <1>8, <1>10 DEF RefinedSignature, RefinedSigs, CountedIn
<1>17. t.told = s.told BY DEF Correspond
<1> QED BY <1>9, <1>14, <1>15, <1>16, <1>17 DEF Correspond

FirstRound(h) == [sigs |-> FirstSignature(h), lastSize |-> 0, told |-> 1, sum |-> 0]

NextRound(h, last) == IF last.lastSize < last.told THEN RefinedSignature(h, last) ELSE last

AreRounds(r, h, n) ==
  /\ r \in [0 .. n -> SignaturesOf(h)]
  /\ r[0] = FirstRound(h)
  /\ \A i \in 1 .. n : r[i] = NextRound(h, r[i - 1])

\* The signature is that of the last round.
LEMMA RoundsOfSignature ==
  ASSUME NEW h, IsHypergraph(h), NEW n \in Nat, n = Cardinality(Elements(h)) + 1
  PROVE  \E r : AreRounds(r, h, n) /\ CreateHGSignature(h) = r[n]
<1> DEFINE Step(r) == [i \in 0 .. n |-> IF i = 0 THEN FirstRound(h) ELSE NextRound(h, r[i - 1])]
<1>1. FirstRound(h) \in SignaturesOf(h)
  <2>1. ASSUME NEW x \in Elements(h)
        PROVE  (IF x \in h.vertices THEN 1 ELSE HashFromString(CharCodes[h.edges[x].label])) \in Nat
    <3>1. CASE x \in h.vertices BY <3>1
    <3>2. CASE x \notin h.vertices
      <4>1. x \in DOMAIN h.edges BY <3>2 DEF Elements
      <4>2. CharCodes[h.edges[x].label] \in Seq(Nat) BY <4>1, ElementFacts, CharCodesAssumption
      <4> QED BY <3>2, <4>2, HashesAreNumbers
    <3> QED BY <3>1, <3>2
  <2>2. FirstSignature(h) \in [Elements(h) -> Nat] BY <2>1 DEF FirstSignature
  <2> QED BY <2>2 DEF FirstRound, SignaturesOf
<1>2. \A s \in SignaturesOf(h) : NextRound(h, s) \in SignaturesOf(h) BY RefinedType DEF NextRound
<1>3. PICK F : F = [p \in (1 .. n) \X SignaturesOf(h) |-> NextRound(h, p[2])] OBVIOUS
<1>4. /\ F \in [(1 .. n) \X SignaturesOf(h) -> SignaturesOf(h)]
      /\ \A i \in 1 .. n, s \in SignaturesOf(h) : F[<<i, s>>] = NextRound(h, s)
  BY <1>2, <1>3
<1>5. PICK g \in [0 .. n -> SignaturesOf(h)] : IsRecursion(g, n, FirstRound(h), F)
  BY <1>1, <1>4, RecursionOnNumbers
<1>6. \A i \in 1 .. n : i \in 0 .. n /\ i - 1 \in 0 .. n OBVIOUS
<1>7. AreRounds(g, h, n)
  <2>1. ASSUME NEW i \in 1 .. n PROVE g[i] = NextRound(h, g[i - 1])
    <3>1. g[i - 1] \in SignaturesOf(h) BY <1>5, <1>6
    <3>2. g[i] = F[<<i, g[i - 1]>>] BY <1>5 DEF IsRecursion
    <3> QED BY <1>4, <3>1, <3>2
  <2> QED BY <1>5, <2>1 DEF AreRounds, IsRecursion
<1>8. g = Step(g)
  <2>1. ASSUME NEW i \in 0 .. n PROVE g[i] = Step(g)[i]
    <3>1. CASE i = 0 BY <1>7, <3>1 DEF AreRounds
    <3>2. CASE i # 0 BY <1>7, <3>2 DEF AreRounds
    <3> QED BY <3>1, <3>2
  <2>2. g = [i \in 0 .. n |-> g[i]] BY <1>5
  <2>3. Step(g) = [i \in 0 .. n |-> Step(g)[i]] OBVIOUS
  <2> HIDE DEF Step
  <2> QED BY <2>1, <2>2, <2>3
<1>9. PICK r : r = CHOOSE f : f = Step(f) OBVIOUS
<1>10. r = Step(r)
  <2> HIDE DEF Step
  <2> QED BY <1>8, <1>9
<1>11. CreateHGSignature(h) = r[n] BY <1>9 DEF CreateHGSignature, FirstRound, NextRound
<1>12. r[0] = FirstRound(h) /\ \A i \in 1 .. n : r[i] = NextRound(h, r[i - 1]) BY <1>10
<1> DEFINE Good == {i \in 0 .. n : r[i] \in SignaturesOf(h)}
<1>13. 0 \in Good BY <1>1, <1>12
<1>14. \A i \in 1 .. n : i - 1 \in Good => i \in Good BY <1>2, <1>12
<1>15. 0 .. n \subseteq Good
  <2> HIDE DEF Good
  <2> QED BY <1>13, <1>14, InductionUpTo
<1>16. r \in [0 .. n -> SignaturesOf(h)]
  <2>1. r = [i \in 0 .. n |-> r[i]] BY <1>10
  <2> QED BY <1>15, <2>1
<1> QED BY <1>11, <1>12, <1>16 DEF AreRounds

\* Isomorphic graphs get the same signature, element by element.
LEMMA SignaturesCorrespond ==
  ASSUME NEW g, IsHypergraph(g), NEW h, IsHypergraph(h), NEW m, IsIsomorphism(m, g, h)
  PROVE  /\ CreateHGSignature(g) \in SignaturesOf(g)
         /\ CreateHGSignature(h) \in SignaturesOf(h)
         /\ Correspond(m, g, CreateHGSignature(g), CreateHGSignature(h))
<1>1. Cardinality(Elements(g)) \in Nat /\ Cardinality(Elements(h)) = Cardinality(Elements(g))
  <2>1. m \in Bijection(Elements(g), Elements(h))
    BY DEF IsIsomorphism, IsBijection, Bijection, Injection, Surjection, IsInjective
  <2>2. ExistsBijection(Elements(g), Elements(h)) BY <2>1 DEF ExistsBijection
  <2>3. IsFiniteSet(Elements(g)) BY ElementFacts
  <2> QED BY <2>2, <2>3, FS_Bijection, FS_CardinalityType
<1>2. PICK n \in Nat : n = Cardinality(Elements(g)) + 1 BY <1>1
<1>3. PICK r : AreRounds(r, g, n) /\ CreateHGSignature(g) = r[n] BY <1>2, RoundsOfSignature
<1>4. PICK u : AreRounds(u, h, n) /\ CreateHGSignature(h) = u[n] BY <1>1, <1>2, RoundsOfSignature
<1> DEFINE Good == {i \in 0 .. n : Correspond(m, g, r[i], u[i])}
<1>5. 0 \in Good
  <2>1. r[0] = FirstRound(g) /\ u[0] = FirstRound(h) BY <1>3, <1>4 DEF AreRounds
  <2>2. ASSUME NEW x \in Elements(g) PROVE FirstSignature(h)[m[x]] = FirstSignature(g)[x]
    <3>1. m[x] \in Elements(h) /\ (x \in g.vertices <=> m[x] \in h.vertices)
      BY IsomorphismFacts DEF IsBijection
    <3>2. x \notin g.vertices => x \in DOMAIN g.edges BY DEF Elements
    <3>3. \A e \in DOMAIN g.edges : h.edges[m[e]].label = g.edges[e].label BY DEF IsIsomorphism
    <3> QED BY <3>1, <3>2, <3>3 DEF FirstSignature
  <2> QED BY <2>1, <2>2 DEF Correspond, FirstRound
<1>6. \A i \in 1 .. n : i - 1 \in Good => i \in Good
  <2> SUFFICES ASSUME NEW i \in 1 .. n, Correspond(m, g, r[i - 1], u[i - 1])
               PROVE  Correspond(m, g, r[i], u[i])
    OBVIOUS
  <2>1. PICK s, t : s = r[i - 1] /\ t = u[i - 1] OBVIOUS
  <2>2. i - 1 \in 0 .. n OBVIOUS
  <2>3. s \in SignaturesOf(g) /\ t \in SignaturesOf(h) /\ Correspond(m, g, s, t)
    BY <1>3, <1>4, <2>1, <2>2 DEF AreRounds
  <2>4. r[i] = NextRound(g, s) /\ u[i] = NextRound(h, t) BY <1>3, <1>4, <2>1 DEF AreRounds
  <2>5. Correspond(m, g, RefinedSignature(g, s), RefinedSignature(h, t)) BY <2>3, RefinedCorrespond
  <2>6. s.lastSize = t.lastSize /\ s.told = t.told BY <2>3 DEF Correspond
  <2> QED BY <2>3, <2>4, <2>5, <2>6 DEF NextRound
<1>7. 0 .. n \subseteq Good
  <2> HIDE DEF Good
  <2> QED BY <1>5, <1>6, InductionUpTo
<1> QED BY <1>3, <1>4, <1>7 DEF AreRounds

-----------------------------------------------------------------------------
(* Mapping edge by edge *)

\* Only what is new in r differs from a.
OnlyNewDiffers(h0, h1, a, r) ==
  /\ \A x \in Elements(h0) : x \notin r.new => r.for[x] = a.for[x]
  /\ \A y \in Elements(h1) : y \notin r.newRev => r.back[y] = a.back[y]

\* Mappings have been taken back at most.
Shrinks(h0, h1, a, r) ==
  /\ \A x \in Elements(h0) : r.for[x] \in {a.for[x], NotMapped}
  /\ \A y \in Elements(h1) : r.back[y] \in {a.back[y], NotMapped}

\* What is mapped is mapped as m does.
Fits(h0, m, a) ==
  \A x \in Elements(h0) : a.for[x] \in {m[x], NotMapped} /\ a.back[m[x]] \in {x, NotMapped}

KeepsEdges(h0, h1, a, r) ==
  /\ \A e \in DOMAIN h0.edges : r.for[e] = a.for[e]
  /\ \A f \in DOMAIN h1.edges : r.back[f] = a.back[f]

\* The fields of an attempt.
LEMMA MapsFields ==
  ASSUME NEW h0, NEW h1, NEW a \in MapsOf(h0, h1)
  PROVE  /\ a.for \in [Elements(h0) -> Elements(h1) \cup {NotMapped}]
         /\ a.back \in [Elements(h1) -> Elements(h0) \cup {NotMapped}]
         /\ a.new \in SUBSET Elements(h0) /\ a.newRev \in SUBSET Elements(h1)
         /\ a.success \in BOOLEAN
BY DEF MapsOf

\* What insertIfValid does.
IsInserted(h0, h1, a, x, y, r) ==
  /\ r \in MapsOf(h0, h1)
  /\ r.new \in {a.new, a.new \cup {x}} /\ r.newRev \in {a.newRev, a.newRev \cup {y}}
  /\ ~ r.success => r.for = a.for /\ r.back = a.back
  /\ r.success =>
       /\ r.new = a.new \cup {x} /\ r.newRev = a.newRev \cup {y}
       /\ r.for = [a.for EXCEPT ![x] = y] /\ r.back = [a.back EXCEPT ![y] = x]
  /\ a.success /\ CanInsert(a, x, y) => r.success

\* A step of mapping one element either fails and changes nothing else, or maps it both ways.
LEMMA InsertFacts ==
  ASSUME NEW h0, NEW h1, NEW a \in MapsOf(h0, h1), NEW x \in Elements(h0), NEW y \in Elements(h1)
  PROVE  IsInserted(h0, h1, a, x, y, InsertIfValid(a, x, y))
<1>0. PICK r : r = InsertIfValid(a, x, y) OBVIOUS
<1>1. CASE ~ a.success \/ ~ CanInsert(a, x, y)
  <2>1. r = [a EXCEPT !.success = FALSE] BY <1>0, <1>1 DEF InsertIfValid
  <2>2. /\ r \in MapsOf(h0, h1) /\ r.success = FALSE
        /\ r.for = a.for /\ r.back = a.back /\ r.new = a.new /\ r.newRev = a.newRev
    BY <2>1 DEF MapsOf
  <2> QED BY <1>0, <1>1, <2>2 DEF IsInserted
<1>2. CASE a.success /\ CanInsert(a, x, y)
  <2>1. r = [a EXCEPT !.for[x] = y, !.back[y] = x, !.new = @ \cup {x}, !.newRev = @ \cup {y}]
    BY <1>0, <1>2 DEF InsertIfValid
  <2>2. PICK for, back : for = [a.for EXCEPT ![x] = y] /\ back = [a.back EXCEPT ![y] = x]
    OBVIOUS
  <2>3. /\ r.for = for /\ r.back = back /\ r.new = a.new \cup {x} /\ r.newRev = a.newRev \cup {y}
        /\ r.success = a.success
        /\ r = [for |-> for, back |-> back, new |-> a.new \cup {x}, newRev |-> a.newRev \cup {y},
                success |-> a.success]
    BY <2>1, <2>2 DEF MapsOf
  <2>4. /\ for \in [Elements(h0) -> Elements(h1) \cup {NotMapped}]
        /\ back \in [Elements(h1) -> Elements(h0) \cup {NotMapped}]
    BY <2>2, MapsFields
  <2>5. /\ a.new \cup {x} \in SUBSET Elements(h0) /\ a.newRev \cup {y} \in SUBSET Elements(h1)
        /\ a.success \in BOOLEAN
    BY MapsFields
  <2>6. r \in MapsOf(h0, h1) BY <2>3, <2>4, <2>5 DEF MapsOf
  <2> QED BY <1>0, <1>2, <2>2, <2>3, <2>6 DEF IsInserted
<1> QED BY <1>1, <1>2

\* It changes nothing but what is new in the attempt.
LEMMA InsertDiffersInNew ==
  ASSUME NEW h0, NEW h1, NEW a, NEW b \in MapsOf(h0, h1), OnlyNewDiffers(h0, h1, a, b),
         NEW x \in Elements(h0), NEW y \in Elements(h1)
  PROVE  /\ InsertIfValid(b, x, y) \in MapsOf(h0, h1)
         /\ OnlyNewDiffers(h0, h1, a, InsertIfValid(b, x, y))
<1>1. PICK r : r = InsertIfValid(b, x, y) OBVIOUS
<1>2. /\ r \in MapsOf(h0, h1)
      /\ r.new \in {b.new, b.new \cup {x}} /\ r.newRev \in {b.newRev, b.newRev \cup {y}}
      /\ ~ r.success => r.for = b.for /\ r.back = b.back
      /\ r.success =>
           /\ r.new = b.new \cup {x} /\ r.newRev = b.newRev \cup {y}
           /\ r.for = [b.for EXCEPT ![x] = y] /\ r.back = [b.back EXCEPT ![y] = x]
  BY <1>1, InsertFacts DEF IsInserted
<1>3. r.success \in BOOLEAN BY <1>2, MapsFields
<1>4. /\ b.for \in [Elements(h0) -> Elements(h1) \cup {NotMapped}]
      /\ b.back \in [Elements(h1) -> Elements(h0) \cup {NotMapped}]
  BY MapsFields
<1>5. ASSUME r.success PROVE OnlyNewDiffers(h0, h1, a, r)
  BY <1>2, <1>4, <1>5 DEF OnlyNewDiffers
<1>6. ASSUME ~ r.success PROVE OnlyNewDiffers(h0, h1, a, r)
  BY <1>2, <1>6 DEF OnlyNewDiffers
<1>7. OnlyNewDiffers(h0, h1, a, r) BY <1>5, <1>6
<1> QED BY <1>1, <1>2, <1>7

\* Along an isomorphism it cannot fail.
LEMMA InsertAlongFits ==
  ASSUME NEW h0, NEW h1, NEW m, IsBijection(m, Elements(h0), Elements(h1)),
         NEW b \in MapsOf(h0, h1), b.success, Fits(h0, m, b), NEW x \in Elements(h0)
  PROVE  /\ InsertIfValid(b, x, m[x]).success
         /\ Fits(h0, m, InsertIfValid(b, x, m[x]))
         /\ InsertIfValid(b, x, m[x]).for = [b.for EXCEPT ![x] = m[x]]
         /\ InsertIfValid(b, x, m[x]).back = [b.back EXCEPT ![m[x]] = x]
<1>1. PICK r : r = InsertIfValid(b, x, m[x]) OBVIOUS
<1>2. m[x] \in Elements(h1) BY DEF IsBijection
<1>3. CanInsert(b, x, m[x]) BY DEF Fits, CanInsert
<1>4. r.success /\ r.for = [b.for EXCEPT ![x] = m[x]] /\ r.back = [b.back EXCEPT ![m[x]] = x]
  <2>1. PICK y \in Elements(h1) : y = m[x] BY <1>2
  <2>2. r = InsertIfValid(b, x, y) /\ CanInsert(b, x, y) BY <1>1, <1>3, <2>1
  <2>3. IsInserted(h0, h1, b, x, y, r) BY <2>2, InsertFacts
  <2>4. r.success BY <2>2, <2>3 DEF IsInserted
  <2> QED BY <2>1, <2>3, <2>4 DEF IsInserted
<1>5. /\ b.for \in [Elements(h0) -> Elements(h1) \cup {NotMapped}]
      /\ b.back \in [Elements(h1) -> Elements(h0) \cup {NotMapped}]
  BY MapsFields
<1>6. ASSUME NEW z \in Elements(h0)
      PROVE  r.for[z] \in {m[z], NotMapped} /\ r.back[m[z]] \in {z, NotMapped}
  <2>1. m[z] \in Elements(h1) /\ (m[z] = m[x] => z = x) BY DEF IsBijection
  <2> QED BY <1>2, <1>4, <1>5, <2>1 DEF Fits
<1>7. Fits(h0, m, r) BY <1>6 DEF Fits
<1> QED BY <1>1, <1>4, <1>7

\* The vertices of an edge, all of them vertices of the graph.
IsPath(s, n, h) == n \in Nat /\ s \in [1 .. n -> h.vertices]

StartOfEdge(maps) == [maps EXCEPT !.success = TRUE, !.new = {}, !.newRev = {}]

AreVertexSteps(acc, n, h0, h1, s0, s1, from, to, maps) ==
  /\ acc \in [0 .. n -> MapsOf(h0, h1)]
  /\ acc[0] = StartOfEdge(maps)
  /\ \A i \in 1 .. n : acc[i] = MapVertex(s0, s1, acc[i - 1], from[i], to[i])

\* The vertices of an edge are mapped one after the other.
LEMMA VertexStepsExist ==
  ASSUME NEW h0, NEW h1, NEW s0, NEW s1, NEW n, NEW from, IsPath(from, n, h0),
         NEW to, IsPath(to, n, h1), NEW maps \in MapsOf(h0, h1)
  PROVE  \E acc : /\ AreVertexSteps(acc, n, h0, h1, s0, s1, from, to, maps)
                  /\ MapVertices(s0, s1, from, to, maps) = acc[n]
<1> DEFINE Step(acc) == [i \in 0 .. n |-> IF i = 0 THEN StartOfEdge(maps)
                                          ELSE MapVertex(s0, s1, acc[i - 1], from[i], to[i])]
<1>1. n \in Nat /\ from \in [1 .. n -> h0.vertices] /\ to \in [1 .. n -> h1.vertices]
  BY DEF IsPath
<1>2. StartOfEdge(maps) \in MapsOf(h0, h1) BY DEF MapsOf, StartOfEdge
<1>3. \A a \in MapsOf(h0, h1) : \A i \in 1 .. n :
        MapVertex(s0, s1, a, from[i], to[i]) \in MapsOf(h0, h1)
  <2> SUFFICES ASSUME NEW a \in MapsOf(h0, h1), NEW i \in 1 .. n
               PROVE  MapVertex(s0, s1, a, from[i], to[i]) \in MapsOf(h0, h1)
    OBVIOUS
  <2>1. PICK v, w : v = from[i] /\ w = to[i] OBVIOUS
  <2>2. v \in Elements(h0) /\ w \in Elements(h1) BY <1>1, <2>1 DEF Elements
  <2>3. InsertIfValid(a, v, w) \in MapsOf(h0, h1) BY <2>2, InsertFacts DEF IsInserted
  <2>4. [a EXCEPT !.success = FALSE] \in MapsOf(h0, h1) BY DEF MapsOf
  <2> QED BY <2>1, <2>3, <2>4 DEF MapVertex
<1>4. PICK F : F = [p \in (1 .. n) \X MapsOf(h0, h1) |->
                      MapVertex(s0, s1, p[2], from[p[1]], to[p[1]])]
  OBVIOUS
<1>5. /\ F \in [(1 .. n) \X MapsOf(h0, h1) -> MapsOf(h0, h1)]
      /\ \A i \in 1 .. n, a \in MapsOf(h0, h1) :
           F[<<i, a>>] = MapVertex(s0, s1, a, from[i], to[i])
  BY <1>3, <1>4
<1>6. PICK g \in [0 .. n -> MapsOf(h0, h1)] : IsRecursion(g, n, StartOfEdge(maps), F)
  BY <1>1, <1>2, <1>5, RecursionOnNumbers
<1>7. \A i \in 1 .. n : i \in 0 .. n /\ i - 1 \in 0 .. n BY <1>1
<1>8. ASSUME NEW i \in 1 .. n PROVE g[i] = MapVertex(s0, s1, g[i - 1], from[i], to[i])
  <2>1. g[i - 1] \in MapsOf(h0, h1) BY <1>6, <1>7
  <2>2. g[i] = F[<<i, g[i - 1]>>] BY <1>6 DEF IsRecursion
  <2> QED BY <1>5, <2>1, <2>2
<1>9. g = Step(g)
  <2>1. ASSUME NEW i \in 0 .. n PROVE g[i] = Step(g)[i]
    <3>1. CASE i = 0 BY <1>6, <3>1 DEF IsRecursion
    <3>2. CASE i # 0 BY <1>1, <1>8, <3>2
    <3> QED BY <3>1, <3>2
  <2>2. g = [i \in 0 .. n |-> g[i]] BY <1>6
  <2>3. Step(g) = [i \in 0 .. n |-> Step(g)[i]] OBVIOUS
  <2> HIDE DEF Step
  <2> QED BY <2>1, <2>2, <2>3
<1>10. PICK r : r = CHOOSE f : f = Step(f) OBVIOUS
<1>11. r = Step(r)
  <2> HIDE DEF Step
  <2> QED BY <1>9, <1>10
<1>12. MapVertices(s0, s1, from, to, maps) = r[n]
  <2>1. PICK seq : seq = [i \in DOMAIN from |-> i] OBVIOUS
  <2>2. seq \in [1 .. n -> 1 .. n] BY <1>1, <2>1
  <2>3. Len(seq) = n BY <1>1, <2>2, LenOfFunction
  <2>4. \A f, i : i \in 0 .. n => (IF i = 0 THEN StartOfEdge(maps)
                     ELSE MapVertex(s0, s1, f[i - 1], from[i], to[i]))
              = (IF i = 0 THEN StartOfEdge(maps)
                     ELSE MapVertex(s0, s1, f[i - 1], from[seq[i]], to[seq[i]]))
    BY <1>1, <2>1
  <2>5. \A f : Step(f) = [i \in 0 .. n |-> IF i = 0 THEN StartOfEdge(maps)
                           ELSE MapVertex(s0, s1, f[i - 1], from[seq[i]], to[seq[i]])]
    BY <2>4
  <2>6. r = CHOOSE f : f = [i \in 0 .. n |-> IF i = 0 THEN StartOfEdge(maps)
                           ELSE MapVertex(s0, s1, f[i - 1], from[seq[i]], to[seq[i]])]
    BY <1>10, <2>5
  <2> QED BY <2>1, <2>3, <2>6 DEF MapVertices, Folded, StartOfEdge
<1>13. r[0] = StartOfEdge(maps)
       /\ \A i \in 1 .. n : r[i] = MapVertex(s0, s1, r[i - 1], from[i], to[i])
  BY <1>1, <1>11
<1> DEFINE Good == {i \in 0 .. n : r[i] \in MapsOf(h0, h1)}
<1>14. 0 \in Good BY <1>1, <1>2, <1>13
<1>15. \A i \in 1 .. n : i - 1 \in Good => i \in Good BY <1>3, <1>13
<1>16. 0 .. n \subseteq Good
  <2> HIDE DEF Good
  <2> QED BY <1>1, <1>14, <1>15, InductionUpTo
<1>17. r \in [0 .. n -> MapsOf(h0, h1)]
  <2>1. r = [i \in 0 .. n |-> r[i]] BY <1>11
  <2> QED BY <1>16, <2>1
<1> QED BY <1>12, <1>13, <1>17 DEF AreVertexSteps

PathOf(g, e) == g.edges[e].vertices

\* The vertices of an edge form a path of the graph.
LEMMA PathFacts ==
  ASSUME NEW h, IsHypergraph(h), NEW e \in DOMAIN h.edges
  PROVE  IsPath(PathOf(h, e), Len(PathOf(h, e)), h)
<1>1. PICK s : s = PathOf(h, e) OBVIOUS
<1>2. h.edges[e] \in [label : DOMAIN CharCodes, vertices : Seq(h.vertices)] BY DEF IsHypergraph
<1>3. s \in Seq(h.vertices) BY <1>1, <1>2 DEF PathOf
<1>4. s \in [1 .. Len(s) -> h.vertices] /\ Len(s) \in Nat BY <1>3
<1> QED BY <1>1, <1>4 DEF IsPath

\* Mapping an edge changes nothing but what is new in the attempt.
LEMMA MapEdgeDiffersInNew ==
  ASSUME NEW h0, IsHypergraph(h0), NEW h1, IsHypergraph(h1), NEW s0, NEW s1,
         NEW e \in DOMAIN h0.edges, NEW f \in DOMAIN h1.edges,
         Len(PathOf(h0, e)) = Len(PathOf(h1, f)), NEW maps \in MapsOf(h0, h1)
  PROVE  /\ MapEdge(h0, h1, s0, s1, e, f, maps) \in MapsOf(h0, h1)
         /\ OnlyNewDiffers(h0, h1, maps, MapEdge(h0, h1, s0, s1, e, f, maps))
<1>1. PICK from, to, n : from = PathOf(h0, e) /\ to = PathOf(h1, f) /\ n = Len(from) OBVIOUS
<1>2. IsPath(from, n, h0) /\ IsPath(to, n, h1) BY <1>1, PathFacts
<1>3. PICK acc : /\ AreVertexSteps(acc, n, h0, h1, s0, s1, from, to, maps)
                 /\ MapVertices(s0, s1, from, to, maps) = acc[n]
  BY <1>2, VertexStepsExist
<1>4. n \in Nat /\ from \in [1 .. n -> h0.vertices] /\ to \in [1 .. n -> h1.vertices]
  BY <1>2 DEF IsPath
<1>5. acc \in [0 .. n -> MapsOf(h0, h1)] BY <1>3 DEF AreVertexSteps
<1> DEFINE Good == {i \in 0 .. n : OnlyNewDiffers(h0, h1, maps, acc[i])}
<1>6. 0 \in Good
  <2>1. acc[0] = StartOfEdge(maps) BY <1>3 DEF AreVertexSteps
  <2>2. StartOfEdge(maps).for = maps.for /\ StartOfEdge(maps).back = maps.back
    BY DEF StartOfEdge, MapsOf
  <2> QED BY <1>4, <2>1, <2>2 DEF OnlyNewDiffers
<1>7. \A i \in 1 .. n : i - 1 \in Good => i \in Good
  <2> SUFFICES ASSUME NEW i \in 1 .. n, OnlyNewDiffers(h0, h1, maps, acc[i - 1])
               PROVE  OnlyNewDiffers(h0, h1, maps, acc[i])
    OBVIOUS
  <2>1. PICK a, v, w : a = acc[i - 1] /\ v = from[i] /\ w = to[i] OBVIOUS
  <2>2. i - 1 \in 0 .. n BY <1>4
  <2>3. a \in MapsOf(h0, h1) /\ OnlyNewDiffers(h0, h1, maps, a) BY <1>5, <2>1, <2>2
  <2>4. v \in Elements(h0) /\ w \in Elements(h1) BY <1>4, <2>1 DEF Elements
  <2>5. acc[i] = MapVertex(s0, s1, a, v, w) BY <1>3, <2>1 DEF AreVertexSteps
  <2>6. OnlyNewDiffers(h0, h1, maps, InsertIfValid(a, v, w)) BY <2>3, <2>4, InsertDiffersInNew
  <2>7. OnlyNewDiffers(h0, h1, maps, [a EXCEPT !.success = FALSE])
    <3>1. PICK b : b = [a EXCEPT !.success = FALSE] OBVIOUS
    <3>2. b.for = a.for /\ b.back = a.back /\ b.new = a.new /\ b.newRev = a.newRev
      BY <2>3, <3>1 DEF MapsOf
    <3> QED BY <2>3, <3>1, <3>2 DEF OnlyNewDiffers
  <2> QED BY <2>5, <2>6, <2>7 DEF MapVertex
<1>8. 0 .. n \subseteq Good
  <2> HIDE DEF Good
  <2> QED BY <1>4, <1>6, <1>7, InductionUpTo
<1>9. PICK last : last = acc[n] OBVIOUS
<1>10. last \in MapsOf(h0, h1) /\ OnlyNewDiffers(h0, h1, maps, last) BY <1>4, <1>5, <1>8, <1>9
<1>11. e \in Elements(h0) /\ f \in Elements(h1) BY DEF Elements
<1>12. MapEdge(h0, h1, s0, s1, e, f, maps) = InsertIfValid(last, e, f)
  BY <1>1, <1>3, <1>9 DEF MapEdge, PathOf
<1> QED BY <1>10, <1>11, <1>12, InsertDiffersInNew

\* The mappings of all other edges are the same.
OthersKept(h0, m, e, a, r) ==
  \A d \in DOMAIN h0.edges \ {e} : r.for[d] = a.for[d] /\ r.back[m[d]] = a.back[m[d]]

EqualAlong(m, h0, s0, s1) == \A x \in Elements(h0) : s1[m[x]] = s0[x]

\* Along an isomorphism mapping an edge succeeds.
LEMMA MapEdgeAlong ==
  ASSUME NEW h0, IsHypergraph(h0), NEW h1, IsHypergraph(h1), NEW m, IsIsomorphism(m, h0, h1),
         NEW s0, NEW s1, EqualAlong(m, h0, s0, s1),
         NEW e \in DOMAIN h0.edges, NEW maps \in MapsOf(h0, h1), Fits(h0, m, maps)
  PROVE  /\ MapEdge(h0, h1, s0, s1, e, m[e], maps).success
         /\ Fits(h0, m, MapEdge(h0, h1, s0, s1, e, m[e], maps))
         /\ OthersKept(h0, m, e, maps, MapEdge(h0, h1, s0, s1, e, m[e], maps))
<1>0. m[e] \in DOMAIN h1.edges BY DEF IsIsomorphism
<1>1. PICK from, to, n : from = PathOf(h0, e) /\ to = PathOf(h1, m[e]) /\ n = Len(from) OBVIOUS
<1>2. IsPath(from, n, h0) /\ IsPath(to, n, h1) /\ \A i \in 1 .. n : to[i] = m[from[i]]
  <2>1. IsPath(from, n, h0) BY <1>1, PathFacts
  <2>2. IsPath(to, Len(to), h1) BY <1>0, <1>1, PathFacts
  <2>3. DOMAIN from = 1 .. n /\ DOMAIN to = 1 .. Len(to) /\ n \in Nat /\ Len(to) \in Nat
    BY <2>1, <2>2 DEF IsPath
  <2>4. DOMAIN to = DOMAIN from /\ \A i \in DOMAIN from : to[i] = m[from[i]]
    BY <1>1 DEF IsIsomorphism, PathOf
  <2>5. Len(to) = n
    <3>1. to \in [1 .. n -> h1.vertices] BY <2>2, <2>3, <2>4 DEF IsPath
    <3> QED BY <2>3, <3>1, LenOfFunction
  <2> QED BY <2>1, <2>2, <2>3, <2>4, <2>5
<1>3. PICK acc : /\ AreVertexSteps(acc, n, h0, h1, s0, s1, from, to, maps)
                 /\ MapVertices(s0, s1, from, to, maps) = acc[n]
  BY <1>2, VertexStepsExist
<1>4. n \in Nat /\ from \in [1 .. n -> h0.vertices] BY <1>2 DEF IsPath
<1>5. acc \in [0 .. n -> MapsOf(h0, h1)] BY <1>3 DEF AreVertexSteps
<1>6. IsBijection(m, Elements(h0), Elements(h1)) BY DEF IsIsomorphism
<1>7. \A d \in DOMAIN h0.edges : /\ d \in Elements(h0) /\ d \notin h0.vertices
                                 /\ m[d] \in DOMAIN h1.edges /\ m[d] \in Elements(h1)
  BY ElementFacts DEF IsIsomorphism, Elements
<1> DEFINE Fine(a) == /\ a.success /\ Fits(h0, m, a)
                      /\ \A d \in DOMAIN h0.edges : /\ a.for[d] = maps.for[d]
                                                    /\ a.back[m[d]] = maps.back[m[d]]
           Good == {i \in 0 .. n : Fine(acc[i])}
<1>8. 0 \in Good
  <2>1. acc[0] = StartOfEdge(maps) BY <1>3 DEF AreVertexSteps
  <2>2. /\ StartOfEdge(maps).for = maps.for /\ StartOfEdge(maps).back = maps.back
        /\ StartOfEdge(maps).success
    BY DEF StartOfEdge, MapsOf
  <2> QED BY <1>4, <2>1, <2>2 DEF Fits
<1>9. \A i \in 1 .. n : i - 1 \in Good => i \in Good
  <2> SUFFICES ASSUME NEW i \in 1 .. n, Fine(acc[i - 1]) PROVE Fine(acc[i])
    OBVIOUS
  <2>1. PICK a, v : a = acc[i - 1] /\ v = from[i] OBVIOUS
  <2>2. i - 1 \in 0 .. n BY <1>4
  <2>3. a \in MapsOf(h0, h1) /\ Fine(a) BY <1>5, <2>1, <2>2
  <2>4. v \in h0.vertices /\ v \in Elements(h0) BY <1>4, <2>1 DEF Elements
  <2>5. acc[i] = MapVertex(s0, s1, a, v, m[v]) BY <1>2, <1>3, <2>1 DEF AreVertexSteps
  <2>6. PICK r : r = InsertIfValid(a, v, m[v]) OBVIOUS
  <2>7. acc[i] = r BY <2>4, <2>5, <2>6 DEF MapVertex, EqualAlong
  <2>8. /\ r.success /\ Fits(h0, m, r)
        /\ r.for = [a.for EXCEPT ![v] = m[v]] /\ r.back = [a.back EXCEPT ![m[v]] = v]
    BY <1>6, <2>3, <2>4, <2>6, InsertAlongFits
  <2>9. ASSUME NEW d \in DOMAIN h0.edges PROVE r.for[d] = maps.for[d] /\ r.back[m[d]] = maps.back[m[d]]
    <3>1. d # v /\ m[d] # m[v] BY <1>6, <1>7, <2>4 DEF IsBijection
    <3>2. /\ a.for \in [Elements(h0) -> Elements(h1) \cup {NotMapped}]
          /\ a.back \in [Elements(h1) -> Elements(h0) \cup {NotMapped}]
      BY <2>3, MapsFields
    <3>3. r.for[d] = a.for[d] /\ r.back[m[d]] = a.back[m[d]] BY <1>7, <2>8, <3>1, <3>2
    <3> QED BY <2>3, <3>3
  <2> QED BY <2>7, <2>8, <2>9
<1>10. 0 .. n \subseteq Good
  <2> HIDE DEF Good
  <2> QED BY <1>4, <1>8, <1>9, InductionUpTo
<1>11. PICK last : last = acc[n] OBVIOUS
<1>12. last \in MapsOf(h0, h1) /\ Fine(last) BY <1>4, <1>5, <1>10, <1>11
<1>13. PICK r : r = InsertIfValid(last, e, m[e]) OBVIOUS
<1>14. MapEdge(h0, h1, s0, s1, e, m[e], maps) = r
  BY <1>1, <1>3, <1>11, <1>13 DEF MapEdge, PathOf
<1>15. /\ r.success /\ Fits(h0, m, r)
       /\ r.for = [last.for EXCEPT ![e] = m[e]] /\ r.back = [last.back EXCEPT ![m[e]] = e]
  BY <1>6, <1>7, <1>12, <1>13, InsertAlongFits
<1>16. ASSUME NEW d \in DOMAIN h0.edges \ {e}
       PROVE  r.for[d] = maps.for[d] /\ r.back[m[d]] = maps.back[m[d]]
  <2>1. m[d] # m[e] BY <1>6, <1>7 DEF IsBijection
  <2>2. /\ last.for \in [Elements(h0) -> Elements(h1) \cup {NotMapped}]
        /\ last.back \in [Elements(h1) -> Elements(h0) \cup {NotMapped}]
    BY <1>12, MapsFields
  <2>3. r.for[d] = last.for[d] /\ r.back[m[d]] = last.back[m[d]] BY <1>7, <1>15, <2>1, <2>2
  <2> QED BY <1>12, <2>3
<1> QED BY <1>14, <1>15, <1>16 DEF OthersKept

\* What the edges that follow do to the mapping when they fail.
OnlyTakesBack(h0, h1, rest) ==
  /\ rest \in [MapsOf(h0, h1) -> MapsOf(h0, h1)]
  /\ \A a \in MapsOf(h0, h1) : ~ rest[a].success => Shrinks(h0, h1, a, rest[a])

\* A failed attempt leaves nothing new, and takes back more than it has made.
LEMMA TryEdgeFacts ==
  ASSUME NEW h0, NEW h1, NEW rest, OnlyTakesBack(h0, h1, rest),
         NEW a \in MapsOf(h0, h1), NEW tried \in MapsOf(h0, h1), OnlyNewDiffers(h0, h1, a, tried)
  PROVE  /\ TryEdge(rest, tried) \in MapsOf(h0, h1)
         /\ ~ TryEdge(rest, tried).success => Shrinks(h0, h1, a, TryEdge(rest, tried))
         /\ tried.success /\ rest[tried].success => TryEdge(rest, tried).success
<1>1. PICK o : o = IF tried.success THEN rest[tried] ELSE tried OBVIOUS
<1>2. o \in MapsOf(h0, h1) BY <1>1 DEF OnlyTakesBack
<1>3. TryEdge(rest, tried) = IF o.success THEN o ELSE TakeBack(tried, o) BY <1>1 DEF TryEdge
<1>4. PICK r : r = TakeBack(tried, o) OBVIOUS
<1>5. PICK for, back :
        /\ for = [x \in DOMAIN tried.for |-> IF x \in tried.new THEN NotMapped ELSE o.for[x]]
        /\ back = [y \in DOMAIN tried.back |-> IF y \in tried.newRev THEN NotMapped ELSE o.back[y]]
  OBVIOUS
<1>6. /\ tried.for \in [Elements(h0) -> Elements(h1) \cup {NotMapped}]
      /\ tried.back \in [Elements(h1) -> Elements(h0) \cup {NotMapped}]
      /\ o.for \in [Elements(h0) -> Elements(h1) \cup {NotMapped}]
      /\ o.back \in [Elements(h1) -> Elements(h0) \cup {NotMapped}]
  BY <1>2, MapsFields
<1>7. /\ for \in [Elements(h0) -> Elements(h1) \cup {NotMapped}]
      /\ back \in [Elements(h1) -> Elements(h0) \cup {NotMapped}]
  BY <1>5, <1>6
<1>8. r = [tried EXCEPT !.for = for, !.back = back, !.success = FALSE] BY <1>4, <1>5 DEF TakeBack
<1>9. r \in MapsOf(h0, h1) /\ r.for = for /\ r.back = back /\ r.success = FALSE
  BY <1>7, <1>8 DEF MapsOf
<1>10. ASSUME ~ o.success PROVE Shrinks(h0, h1, a, r)
  <2>1. Shrinks(h0, h1, tried, o)
    <3>1. CASE tried.success BY <1>1, <1>10, <3>1 DEF OnlyTakesBack
    <3>2. CASE ~ tried.success BY <1>1, <3>2 DEF Shrinks
    <3> QED BY <3>1, <3>2
  <2>2. ASSUME NEW x \in Elements(h0) PROVE r.for[x] \in {a.for[x], NotMapped}
    BY <1>5, <1>6, <1>9, <2>1 DEF Shrinks, OnlyNewDiffers
  <2>3. ASSUME NEW y \in Elements(h1) PROVE r.back[y] \in {a.back[y], NotMapped}
    BY <1>5, <1>6, <1>9, <2>1 DEF Shrinks, OnlyNewDiffers
  <2> QED BY <2>2, <2>3 DEF Shrinks
<1>11. CASE o.success
  <2>1. TryEdge(rest, tried) = o BY <1>3, <1>11
  <2> QED BY <1>2, <1>11, <2>1
<1>12. CASE ~ o.success
  <2>1. TryEdge(rest, tried) = r BY <1>3, <1>4, <1>12
  <2>2. ~ (tried.success /\ rest[tried].success) BY <1>1, <1>12
  <2> QED BY <1>9, <1>10, <1>12, <2>1, <2>2
<1> QED BY <1>11, <1>12

\* Edges with one label have equally many vertices.
SameArities(h0, h1) ==
  \A e \in DOMAIN h0.edges : \A f \in DOMAIN h1.edges :
    h0.edges[e].label = h1.edges[f].label => Len(PathOf(h0, e)) = Len(PathOf(h1, f))

\* A candidate is tried unless one was found; when it fails, it leaves no more than before.
LEMMA TryCandidateFacts ==
  ASSUME NEW h0, IsHypergraph(h0), NEW h1, IsHypergraph(h1), SameArities(h0, h1),
         NEW rest, OnlyTakesBack(h0, h1, rest), NEW s0, NEW s1, NEW e \in DOMAIN h0.edges,
         NEW a \in MapsOf(h0, h1), NEW f \in CandidatesOf(h0, h1, s0, s1, e)
  PROVE  /\ TryCandidate(h0, h1, s0, s1, e, rest, a, f) \in MapsOf(h0, h1)
         /\ a.success => TryCandidate(h0, h1, s0, s1, e, rest, a, f) = a
         /\ ~ TryCandidate(h0, h1, s0, s1, e, rest, a, f).success
              => Shrinks(h0, h1, a, TryCandidate(h0, h1, s0, s1, e, rest, a, f))
<1>1. PICK r : r = TryCandidate(h0, h1, s0, s1, e, rest, a, f) OBVIOUS
<1>2. Shrinks(h0, h1, a, a) BY DEF Shrinks
<1>3. PICK tried : tried = MapEdge(h0, h1, s0, s1, e, f, a) OBVIOUS
<1>4. f \in DOMAIN h1.edges /\ Len(PathOf(h0, e)) = Len(PathOf(h1, f))
  BY DEF CandidatesOf, SameArities
<1>5. tried \in MapsOf(h0, h1) /\ OnlyNewDiffers(h0, h1, a, tried) BY <1>3, <1>4, MapEdgeDiffersInNew
<1>6. /\ TryEdge(rest, tried) \in MapsOf(h0, h1)
      /\ ~ TryEdge(rest, tried).success => Shrinks(h0, h1, a, TryEdge(rest, tried))
  BY <1>5, TryEdgeFacts
<1>7. r = a \/ (r = TryEdge(rest, tried) /\ ~ a.success) BY <1>1, <1>3 DEF TryCandidate
<1> QED BY <1>1, <1>2, <1>6, <1>7

AreCandidateSteps(acc, n, h0, h1, s0, s1, e, rest, maps, list) ==
  /\ acc \in [0 .. n -> MapsOf(h0, h1)]
  /\ acc[0] = [maps EXCEPT !.success = FALSE]
  /\ \A i \in 1 .. n : acc[i] = TryCandidate(h0, h1, s0, s1, e, rest, acc[i - 1], list[i])
  /\ IsListOf(list, n, CandidatesOf(h0, h1, s0, s1, e))
  /\ TryCandidates(h0, h1, s0, s1, e, rest, maps) = acc[n]

\* The candidates are tried one after the other.
LEMMA CandidateStepsExist ==
  ASSUME NEW h0, IsHypergraph(h0), NEW h1, IsHypergraph(h1), SameArities(h0, h1),
         NEW rest, OnlyTakesBack(h0, h1, rest), NEW s0, NEW s1, NEW e \in DOMAIN h0.edges,
         NEW maps \in MapsOf(h0, h1)
  PROVE  \E acc, n, list : AreCandidateSteps(acc, n, h0, h1, s0, s1, e, rest, maps, list)
<1>1. PICK C : C = CandidatesOf(h0, h1, s0, s1, e) OBVIOUS
<1>2. IsFiniteSet(C) /\ C \subseteq Nat
  <2>1. C \subseteq DOMAIN h1.edges BY <1>1 DEF CandidatesOf
  <2>2. IsFiniteSet(DOMAIN h1.edges) /\ DOMAIN h1.edges \subseteq Nat
    BY DEF IsHypergraph, Elements
  <2> QED BY <2>1, <2>2, FS_Subset
<1>3. PICK list, n : list = Ascending(C) /\ n = Cardinality(C) OBVIOUS
<1>4. IsListOf(list, n, C) BY <1>2, <1>3, AscendingFacts
<1>5. n \in Nat /\ list \in [1 .. n -> C] /\ Len(list) = n BY <1>4 DEF IsListOf
<1>6. PICK first : first = [maps EXCEPT !.success = FALSE] OBVIOUS
<1>7. first \in MapsOf(h0, h1) BY <1>6 DEF MapsOf
<1> DEFINE Try(a, f) == TryCandidate(h0, h1, s0, s1, e, rest, a, f)
           Step(acc) == [i \in 0 .. n |-> IF i = 0 THEN first ELSE Try(acc[i - 1], list[i])]
<1>8. \A a \in MapsOf(h0, h1) : \A i \in 1 .. n : Try(a, list[i]) \in MapsOf(h0, h1)
  BY <1>1, <1>5, TryCandidateFacts
<1> HIDE DEF Try
<1>9. PICK F : F = [p \in (1 .. n) \X MapsOf(h0, h1) |-> Try(p[2], list[p[1]])] OBVIOUS
<1>10. /\ F \in [(1 .. n) \X MapsOf(h0, h1) -> MapsOf(h0, h1)]
       /\ \A i \in 1 .. n, a \in MapsOf(h0, h1) : F[<<i, a>>] = Try(a, list[i])
  BY <1>8, <1>9
<1>11. PICK g \in [0 .. n -> MapsOf(h0, h1)] : IsRecursion(g, n, first, F)
  BY <1>5, <1>7, <1>10, RecursionOnNumbers
<1>12. \A i \in 1 .. n : i \in 0 .. n /\ i - 1 \in 0 .. n BY <1>5
<1>13. ASSUME NEW i \in 1 .. n PROVE g[i] = Try(g[i - 1], list[i])
  <2>1. g[i - 1] \in MapsOf(h0, h1) BY <1>11, <1>12
  <2>2. g[i] = F[<<i, g[i - 1]>>] BY <1>11 DEF IsRecursion
  <2> QED BY <1>10, <2>1, <2>2
<1>14. g = Step(g)
  <2>1. ASSUME NEW i \in 0 .. n PROVE g[i] = Step(g)[i]
    <3>1. CASE i = 0 BY <1>11, <3>1 DEF IsRecursion
    <3>2. CASE i # 0 BY <1>5, <1>13, <3>2
    <3> QED BY <3>1, <3>2
  <2>2. g = [i \in 0 .. n |-> g[i]] BY <1>11
  <2>3. Step(g) = [i \in 0 .. n |-> Step(g)[i]] OBVIOUS
  <2> HIDE DEF Step
  <2> QED BY <2>1, <2>2, <2>3
<1>15. PICK r : r = CHOOSE f : f = Step(f) OBVIOUS
<1>16. r = Step(r)
  <2> HIDE DEF Step
  <2> QED BY <1>14, <1>15
<1>17. TryCandidates(h0, h1, s0, s1, e, rest, maps) = r[n]
  BY <1>1, <1>3, <1>5, <1>6, <1>15
  DEF TryCandidates, Folded, Try
<1>18. r[0] = first /\ \A i \in 1 .. n : r[i] = Try(r[i - 1], list[i]) BY <1>5, <1>16
<1> DEFINE Good == {i \in 0 .. n : r[i] \in MapsOf(h0, h1)}
<1>19. 0 \in Good BY <1>5, <1>7, <1>18
<1>20. \A i \in 1 .. n : i - 1 \in Good => i \in Good BY <1>8, <1>18
<1>21. 0 .. n \subseteq Good
  <2> HIDE DEF Good
  <2> QED BY <1>5, <1>19, <1>20, InductionUpTo
<1>22. r \in [0 .. n -> MapsOf(h0, h1)]
  <2>1. r = [i \in 0 .. n |-> r[i]] BY <1>16
  <2> QED BY <1>21, <2>1
<1>23. AreCandidateSteps(r, n, h0, h1, s0, s1, e, rest, maps, list)
  BY <1>1, <1>4, <1>6, <1>17, <1>18, <1>22 DEF AreCandidateSteps, Try
<1> QED BY <1>23

\* Taking back is transitive.
LEMMA ShrinksTwice ==
  ASSUME NEW h0, NEW h1, NEW a, NEW b, NEW c, Shrinks(h0, h1, a, b), Shrinks(h0, h1, b, c)
  PROVE  Shrinks(h0, h1, a, c)
BY DEF Shrinks

\* What an attempt leaves fits as well.
LEMMA ShrunkFits ==
  ASSUME NEW h0, NEW h1, NEW m, IsBijection(m, Elements(h0), Elements(h1)), NEW a, NEW b,
         Fits(h0, m, a), Shrinks(h0, h1, a, b)
  PROVE  Fits(h0, m, b)
<1> SUFFICES ASSUME NEW x \in Elements(h0)
             PROVE  b.for[x] \in {m[x], NotMapped} /\ b.back[m[x]] \in {x, NotMapped}
  BY DEF Fits
<1>1. m[x] \in Elements(h1) BY DEF IsBijection
<1>2. b.for[x] \in {a.for[x], NotMapped} /\ b.back[m[x]] \in {a.back[m[x]], NotMapped}
  BY <1>1 DEF Shrinks
<1> QED BY <1>2 DEF Fits

\* When no candidate works, no more is left than before.
LEMMA TryCandidatesFacts ==
  ASSUME NEW h0, IsHypergraph(h0), NEW h1, IsHypergraph(h1), SameArities(h0, h1),
         NEW rest, OnlyTakesBack(h0, h1, rest), NEW s0, NEW s1, NEW e \in DOMAIN h0.edges,
         NEW maps \in MapsOf(h0, h1)
  PROVE  /\ TryCandidates(h0, h1, s0, s1, e, rest, maps) \in MapsOf(h0, h1)
         /\ ~ TryCandidates(h0, h1, s0, s1, e, rest, maps).success
              => Shrinks(h0, h1, maps, TryCandidates(h0, h1, s0, s1, e, rest, maps))
<1>0. PICK acc, n, list : AreCandidateSteps(acc, n, h0, h1, s0, s1, e, rest, maps, list)
  BY CandidateStepsExist
<1>1. /\ IsListOf(list, n, CandidatesOf(h0, h1, s0, s1, e))
      /\ TryCandidates(h0, h1, s0, s1, e, rest, maps) = acc[n]
  BY <1>0 DEF AreCandidateSteps
<1>2. n \in Nat /\ list \in [1 .. n -> CandidatesOf(h0, h1, s0, s1, e)] BY <1>1 DEF IsListOf
<1>3. /\ acc \in [0 .. n -> MapsOf(h0, h1)]
      /\ acc[0] = [maps EXCEPT !.success = FALSE]
      /\ \A i \in 1 .. n : acc[i] = TryCandidate(h0, h1, s0, s1, e, rest, acc[i - 1], list[i])
  BY <1>0 DEF AreCandidateSteps
<1> DEFINE Good == {i \in 0 .. n : ~ acc[i].success => Shrinks(h0, h1, maps, acc[i])}
<1>4. 0 \in Good
  <2>1. acc[0].for = maps.for /\ acc[0].back = maps.back BY <1>3 DEF MapsOf
  <2> QED BY <1>2, <2>1 DEF Shrinks
<1>5. \A i \in 1 .. n : i - 1 \in Good => i \in Good
  <2> SUFFICES ASSUME NEW i \in 1 .. n, ~ acc[i - 1].success => Shrinks(h0, h1, maps, acc[i - 1]),
                      ~ acc[i].success
               PROVE  Shrinks(h0, h1, maps, acc[i])
    OBVIOUS
  <2>1. PICK a, f : a = acc[i - 1] /\ f = list[i] OBVIOUS
  <2>2. i - 1 \in 0 .. n BY <1>2
  <2>3. a \in MapsOf(h0, h1) /\ f \in CandidatesOf(h0, h1, s0, s1, e) BY <1>2, <1>3, <2>1, <2>2
  <2>4. PICK r : r = TryCandidate(h0, h1, s0, s1, e, rest, a, f) OBVIOUS
  <2>5. acc[i] = r BY <1>3, <2>1, <2>4
  <2>6. (a.success => r = a) /\ (~ r.success => Shrinks(h0, h1, a, r)) BY <2>3, <2>4, TryCandidateFacts
  <2>7. ~ a.success /\ Shrinks(h0, h1, maps, a) BY <2>1, <2>5, <2>6
  <2> QED BY <2>5, <2>6, <2>7, ShrinksTwice
<1>6. 0 .. n \subseteq Good
  <2> HIDE DEF Good
  <2> QED BY <1>2, <1>4, <1>5, InductionUpTo
<1>7. n \in 0 .. n BY <1>2
<1> QED BY <1>1, <1>3, <1>6, <1>7

\* Whatever fits and has none of these edges mapped yet can be completed.
Completes(h0, h1, m, later, rest) ==
  \A a \in MapsOf(h0, h1) :
    Fits(h0, m, a) /\ (\A d \in later : a.back[m[d]] = NotMapped) => rest[a].success

\* One of the candidates is the edge that the isomorphism has.
LEMMA TryCandidatesFinds ==
  ASSUME NEW h0, IsHypergraph(h0), NEW h1, IsHypergraph(h1), SameArities(h0, h1),
         NEW m, IsIsomorphism(m, h0, h1), NEW s0, NEW s1, EqualAlong(m, h0, s0, s1),
         NEW e \in DOMAIN h0.edges, NEW later \in SUBSET (DOMAIN h0.edges), e \notin later,
         NEW rest, OnlyTakesBack(h0, h1, rest), Completes(h0, h1, m, later, rest),
         NEW maps \in MapsOf(h0, h1), Fits(h0, m, maps),
         \A d \in later \cup {e} : maps.back[m[d]] = NotMapped
  PROVE  TryCandidates(h0, h1, s0, s1, e, rest, maps).success
<1>0. PICK acc, n, list : AreCandidateSteps(acc, n, h0, h1, s0, s1, e, rest, maps, list)
  BY CandidateStepsExist
<1>1. /\ IsListOf(list, n, CandidatesOf(h0, h1, s0, s1, e))
      /\ TryCandidates(h0, h1, s0, s1, e, rest, maps) = acc[n]
  BY <1>0 DEF AreCandidateSteps
<1>2. n \in Nat /\ list \in [1 .. n -> CandidatesOf(h0, h1, s0, s1, e)] BY <1>1 DEF IsListOf
<1>3. /\ acc \in [0 .. n -> MapsOf(h0, h1)]
      /\ acc[0] = [maps EXCEPT !.success = FALSE]
      /\ \A i \in 1 .. n : acc[i] = TryCandidate(h0, h1, s0, s1, e, rest, acc[i - 1], list[i])
  BY <1>0 DEF AreCandidateSteps
<1>4. IsBijection(m, Elements(h0), Elements(h1)) BY DEF IsIsomorphism
<1>5. \A d \in DOMAIN h0.edges : d \in Elements(h0) /\ m[d] \in Elements(h1)
  BY <1>4 DEF Elements, IsBijection
<1>6. PICK k \in 1 .. n : list[k] = m[e]
  <2>1. s1[m[e]] = s0[e] BY <1>5 DEF EqualAlong
  <2>2. m[e] \in DOMAIN h1.edges /\ h1.edges[m[e]].label = h0.edges[e].label BY DEF IsIsomorphism
  <2>3. m[e] \in CandidatesOf(h0, h1, s0, s1, e) BY <2>1, <2>2 DEF CandidatesOf
  <2> QED BY <1>1, <2>3 DEF IsListOf
<1> DEFINE Good == {i \in 0 .. n : \/ acc[i].success
                                   \/ i < k /\ Shrinks(h0, h1, maps, acc[i])}
<1>7. 0 \in Good
  <2>1. acc[0].for = maps.for /\ acc[0].back = maps.back BY <1>3 DEF MapsOf
  <2>2. Shrinks(h0, h1, maps, acc[0]) BY <2>1 DEF Shrinks
  <2> QED BY <1>2, <2>2
<1>8. \A i \in 1 .. n : i - 1 \in Good => i \in Good
  <2> SUFFICES ASSUME NEW i \in 1 .. n, i - 1 \in Good PROVE i \in Good
    OBVIOUS
  <2>1. PICK a, f : a = acc[i - 1] /\ f = list[i] OBVIOUS
  <2>2. i - 1 \in 0 .. n BY <1>2
  <2>3. a \in MapsOf(h0, h1) /\ f \in CandidatesOf(h0, h1, s0, s1, e) BY <1>2, <1>3, <2>1, <2>2
  <2>4. PICK r : r = TryCandidate(h0, h1, s0, s1, e, rest, a, f) OBVIOUS
  <2>5. acc[i] = r BY <1>3, <2>1, <2>4
  <2>6. (a.success => r = a) /\ (~ r.success => Shrinks(h0, h1, a, r)) BY <2>3, <2>4, TryCandidateFacts
  <2>7. CASE a.success BY <2>5, <2>6, <2>7
  <2>8. CASE ~ a.success
    <3>1. i - 1 < k /\ Shrinks(h0, h1, maps, a) BY <2>1, <2>8
    <3>2. CASE i = k
      <4>1. f = m[e] BY <1>6, <2>1, <3>2
      <4>2. \A d \in later \cup {e} : a.back[m[d]] = NotMapped
        <5>1. \A d \in later \cup {e} : m[d] \in Elements(h1) BY <1>5
        <5> QED BY <3>1, <5>1 DEF Shrinks
      <4>3. Fits(h0, m, a) BY <1>4, <3>1, ShrunkFits
      <4>4. PICK tried : tried = MapEdge(h0, h1, s0, s1, e, m[e], a) OBVIOUS
      <4>5. tried.success /\ Fits(h0, m, tried) /\ OthersKept(h0, m, e, a, tried)
        BY <2>3, <4>3, <4>4, MapEdgeAlong
      <4>6. \A d \in later : tried.back[m[d]] = NotMapped BY <4>2, <4>5 DEF OthersKept
      <4>7. tried \in MapsOf(h0, h1) /\ OnlyNewDiffers(h0, h1, a, tried)
        <5>1. f \in DOMAIN h1.edges /\ Len(PathOf(h0, e)) = Len(PathOf(h1, f))
          BY <2>3 DEF CandidatesOf, SameArities
        <5> QED BY <2>3, <4>1, <4>4, <5>1, MapEdgeDiffersInNew
      <4>8. rest[tried].success BY <4>5, <4>6, <4>7 DEF Completes
      <4>9. TryEdge(rest, tried).success BY <2>3, <4>5, <4>7, <4>8, TryEdgeFacts
      <4>10. r = TryEdge(rest, tried) BY <2>4, <2>8, <4>1, <4>2, <4>4 DEF TryCandidate
      <4> QED BY <2>5, <4>9, <4>10
    <3>3. CASE i # k
      <4>1. i < k BY <1>2, <3>1, <3>3
      <4>2. r.success \/ Shrinks(h0, h1, maps, r) BY <2>6, <3>1, ShrinksTwice
      <4> QED BY <2>5, <4>1, <4>2
    <3> QED BY <3>2, <3>3
  <2> QED BY <2>7, <2>8
<1>9. 0 .. n \subseteq Good
  <2> HIDE DEF Good
  <2> QED BY <1>2, <1>7, <1>8, InductionUpTo
<1>10. n \in 0 .. n /\ ~ (n < k) BY <1>2
<1> QED BY <1>1, <1>9, <1>10

\* Isomorphic graphs are never told apart: the search for a mapping finds one, however much of
\* an edge's mapping is taken back with another edge.
LEMMA MapAllFinds ==
  ASSUME NEW h0, IsHypergraph(h0), NEW h1, IsHypergraph(h1), SameArities(h0, h1),
         NEW m, IsIsomorphism(m, h0, h1), NEW s0, NEW s1, EqualAlong(m, h0, s0, s1)
  PROVE  MapAll(h0, h1, s0, s1, NoMaps(h0, h1)).success
<1>1. PICK E : E = DOMAIN h0.edges OBVIOUS
<1>2. PICK up, n : up = Ascending(E) /\ n = Cardinality(E) OBVIOUS
<1>3. IsListOf(up, n, E)
  <2>1. IsFiniteSet(E) /\ E \subseteq Nat BY <1>1 DEF IsHypergraph, Elements
  <2> QED BY <1>2, <2>1, AscendingFacts
<1>4. /\ n \in Nat /\ up \in [1 .. n -> E] /\ Len(up) = n
      /\ \A i, j \in 1 .. n : up[i] = up[j] => i = j
      /\ \A x \in E : \E i \in 1 .. n : up[i] = x
  BY <1>3 DEF IsListOf
<1>5. PICK edges : edges = Reverse(up) OBVIOUS
<1>6. edges = [i \in 1 .. n |-> up[(n - i) + 1]] BY <1>4, <1>5 DEF Reverse
<1>7. \A i \in 1 .. n : (n - i) + 1 \in 1 .. n BY <1>4
<1>8. edges \in [1 .. n -> E] /\ Len(edges) = n
  <2>1. edges \in [1 .. n -> E] BY <1>4, <1>6, <1>7
  <2> QED BY <1>4, <2>1, LenOfFunction
<1>9. \A i, j \in 1 .. n : edges[i] = edges[j] => i = j
  <2> SUFFICES ASSUME NEW i \in 1 .. n, NEW j \in 1 .. n, edges[i] = edges[j] PROVE i = j
    OBVIOUS
  <2>1. (n - i) + 1 = (n - j) + 1 BY <1>4, <1>6, <1>7
  <2> QED BY <1>4, <2>1
<1> DEFINE M == MapsOf(h0, h1)
           Rests == {rest \in [M -> M] : OnlyTakesBack(h0, h1, rest)}
           last == [a \in M |-> [a EXCEPT !.success = TRUE]]
           Try(e, rest) == [a \in M |-> TryCandidates(h0, h1, s0, s1, e, rest, a)]
           Step(map) == [i \in 0 .. n |-> [a \in M |->
                           IF i = 0 THEN [a EXCEPT !.success = TRUE]
                           ELSE TryCandidates(h0, h1, s0, s1, edges[i], map[i - 1], a)]]
<1>10. last \in Rests /\ \A a \in M : last[a].success
  <2>1. ASSUME NEW a \in M PROVE [a EXCEPT !.success = TRUE] \in M /\ [a EXCEPT !.success = TRUE].success
    BY DEF MapsOf
  <2> HIDE DEF M
  <2>2. last \in [M -> M] /\ \A a \in M : last[a].success BY <2>1
  <2> HIDE DEF last
  <2> QED BY <2>2 DEF OnlyTakesBack, M
<1>11. ASSUME NEW e \in E, NEW rest \in Rests PROVE Try(e, rest) \in Rests
  <2>1. \A a \in M : /\ TryCandidates(h0, h1, s0, s1, e, rest, a) \in M
                     /\ ~ TryCandidates(h0, h1, s0, s1, e, rest, a).success
                          => Shrinks(h0, h1, a, TryCandidates(h0, h1, s0, s1, e, rest, a))
    BY <1>1, TryCandidatesFacts
  <2>2. Try(e, rest) \in [M -> M] BY <2>1
  <2>3. \A a \in M : Try(e, rest)[a] = TryCandidates(h0, h1, s0, s1, e, rest, a) OBVIOUS
  <2> HIDE DEF Try
  <2> QED BY <2>1, <2>2, <2>3 DEF OnlyTakesBack
<1> HIDE DEF Rests, last, Try, M
<1>12. PICK F : F = [p \in (1 .. n) \X Rests |-> Try(edges[p[1]], p[2])] OBVIOUS
<1>13. /\ F \in [(1 .. n) \X Rests -> Rests]
       /\ \A i \in 1 .. n, rest \in Rests : F[<<i, rest>>] = Try(edges[i], rest)
  BY <1>8, <1>11, <1>12
<1>14. PICK g \in [0 .. n -> Rests] : IsRecursion(g, n, last, F)
  BY <1>4, <1>10, <1>13, RecursionOnNumbers
<1>15. \A i \in 1 .. n : i \in 0 .. n /\ i - 1 \in 0 .. n BY <1>4
<1>16. g = Step(g)
  <2>1. ASSUME NEW i \in 0 .. n PROVE g[i] = Step(g)[i]
    <3>1. CASE i = 0
      <4>1. g[i] = last BY <1>14, <3>1 DEF IsRecursion
      <4> QED BY <3>1, <4>1 DEF last
    <3>2. CASE i # 0
      <4>1. i \in 1 .. n BY <1>4, <3>2
      <4>2. g[i - 1] \in Rests BY <1>14, <1>15, <4>1
      <4>3. g[i] = F[<<i, g[i - 1]>>] BY <1>14, <4>1 DEF IsRecursion
      <4>4. g[i] = Try(edges[i], g[i - 1]) BY <1>13, <4>1, <4>2, <4>3
      <4> QED BY <3>2, <4>4 DEF Try
    <3> QED BY <3>1, <3>2
  <2>2. g = [i \in 0 .. n |-> g[i]] BY <1>14
  <2>3. Step(g) = [i \in 0 .. n |-> Step(g)[i]] OBVIOUS
  <2> HIDE DEF Step
  <2> QED BY <2>1, <2>2, <2>3
<1>17. PICK map : map = CHOOSE f : f = Step(f) OBVIOUS
<1>18. map = Step(map)
  <2> HIDE DEF Step
  <2> QED BY <1>16, <1>17
<1>19. /\ map[0] = last
       /\ \A i \in 1 .. n : map[i] = Try(edges[i], map[i - 1])
  <2>1. \A i \in 0 .. n : map[i] = Step(map)[i] BY <1>18
  <2>2. map[0] = last
    <3>1. map[0] = Step(map)[0] BY <1>4, <2>1
    <3> QED BY <1>4, <3>1 DEF last
  <2>3. ASSUME NEW i \in 1 .. n PROVE map[i] = Try(edges[i], map[i - 1])
    <3>1. i \in 0 .. n /\ i # 0 BY <1>4
    <3>2. map[i] = Step(map)[i] BY <2>1, <3>1
    <3> QED BY <3>1, <3>2 DEF Try
  <2> QED BY <2>2, <2>3
<1>20. MapAll(h0, h1, s0, s1, NoMaps(h0, h1)) = map[n][NoMaps(h0, h1)]
  BY <1>1, <1>2, <1>5, <1>8, <1>17 DEF MapAll, M
<1> DEFINE Later(i) == {edges[k] : k \in 1 .. i}
           Good == {i \in 0 .. n : map[i] \in Rests /\ Completes(h0, h1, m, Later(i), map[i])}
<1> HIDE DEF Later, Step
<1>21. 0 \in Good
  <2>1. Completes(h0, h1, m, Later(0), last) BY <1>10 DEF Completes, M
  <2> QED BY <1>4, <1>10, <1>19, <2>1
<1>22. ASSUME NEW i \in 1 .. n, i - 1 \in Good PROVE i \in Good
  <2>1. PICK e, rest, later : e = edges[i] /\ rest = map[i - 1] /\ later = Later(i - 1) OBVIOUS
  <2>2. \A k \in 1 .. i - 1 : k \in 1 .. n /\ k # i BY <1>4
  <2>3. e \in E /\ later \in SUBSET E /\ e \notin later BY <1>8, <1>9, <2>1, <2>2 DEF Later
  <2>4. Later(i) = later \cup {e}
    <3>1. \A k : k \in 1 .. i <=> k \in 1 .. i - 1 \/ k = i BY <1>4
    <3> QED BY <2>1, <3>1 DEF Later
  <2>5. rest \in Rests /\ Completes(h0, h1, m, later, rest) /\ map[i] = Try(e, rest)
    BY <1>19, <1>22, <2>1
  <2>6. OnlyTakesBack(h0, h1, rest) BY <2>5 DEF Rests
  <2>7. ASSUME NEW a \in MapsOf(h0, h1), Fits(h0, m, a),
               \A d \in later \cup {e} : a.back[m[d]] = NotMapped
        PROVE  map[i][a].success
    <3>1. TryCandidates(h0, h1, s0, s1, e, rest, a).success
      BY <1>1, <2>3, <2>5, <2>6, <2>7, TryCandidatesFinds
    <3> QED BY <2>5, <3>1 DEF Try, M
  <2>8. map[i] \in Rests BY <1>11, <2>3, <2>5
  <2>9. Completes(h0, h1, m, Later(i), map[i]) BY <2>4, <2>7 DEF Completes
  <2>10. i \in 0 .. n BY <1>15
  <2> QED BY <2>8, <2>9, <2>10
<1>23. 0 .. n \subseteq Good
  <2> HIDE DEF Good
  <2> QED BY <1>4, <1>21, <1>22, InductionUpTo
<1>24. PICK none : none = NoMaps(h0, h1) OBVIOUS
<1>25. /\ none \in MapsOf(h0, h1)
       /\ \A x \in Elements(h0) : none.for[x] = NotMapped
       /\ \A y \in Elements(h1) : none.back[y] = NotMapped
  BY <1>24 DEF NoMaps, MapsOf
<1>26. \A x \in Elements(h0) : m[x] \in Elements(h1) BY DEF IsIsomorphism, IsBijection
<1>27. Fits(h0, m, none) BY <1>25, <1>26 DEF Fits
<1>28. \A d \in Later(n) : none.back[m[d]] = NotMapped
  <2>1. \A d \in Later(n) : d \in Elements(h0) BY <1>1, <1>8 DEF Elements, Later
  <2> QED BY <1>25, <1>26, <2>1
<1>29. Completes(h0, h1, m, Later(n), map[n])
  <2>1. n \in 0 .. n BY <1>4
  <2> QED BY <1>23, <2>1
<1> QED BY <1>20, <1>24, <1>25, <1>27, <1>28, <1>29 DEF Completes

\* The isomorphism check says yes for isomorphic graphs.
THEOREM IsomorphismCheckIsComplete ==
  ASSUME NEW g, IsHypergraph(g), NEW h, IsHypergraph(h), SameArities(g, h),
         IsomorphicGraphs(g, h)
  PROVE  AreIsomorphic(g, h)
<1>1. PICK m : IsIsomorphism(m, g, h) BY IsomorphismExists
<1>2. PICK s, t : s = CreateHGSignature(g) /\ t = CreateHGSignature(h) OBVIOUS
<1>3. Correspond(m, g, s, t) BY <1>1, <1>2, SignaturesCorrespond
<1>4. PICK s0, s1 : s0 = s.sigs /\ s1 = t.sigs OBVIOUS
<1>5. EqualAlong(m, g, s0, s1) BY <1>3, <1>4 DEF EqualAlong, Correspond
<1>6. MapAll(g, h, s0, s1, NoMaps(g, h)).success BY <1>1, <1>5, MapAllFinds
<1>7. s.sum = t.sum BY <1>3 DEF Correspond
<1> QED BY <1>2, <1>4, <1>6, <1>7 DEF AreIsomorphic, IsomorphicGraphs

-----------------------------------------------------------------------------
(* The scenario *)

\* What the files gave, and places in it.
Loaded ==
  /\ parameters \in CommandLines
  /\ status \in {"created", "failed", "initialized", "finished"}
  /\ faststop \in BOOLEAN
  /\ minimalGraphs \in Seq(AllGraphs) /\ checkGraphs \in Seq(AllGraphs)
  /\ graphToCheck \in Nat \ {0} /\ miniGraph \in Nat \ {0}

\* It holds at first,
LEMMA LoadedInitially == Init => Loaded
<1> SUFFICES ASSUME Init PROVE Loaded
  OBVIOUS
<1>1. PICK none : none = <<>> /\ none \in Seq(AllGraphs) BY EmptySeq
<1>2. minimalGraphs = none /\ checkGraphs = none BY <1>1 DEF Init
<1>3. minimalGraphs \in Seq(AllGraphs) /\ checkGraphs \in Seq(AllGraphs) BY <1>1, <1>2
<1>4. graphToCheck \in Nat \ {0} /\ miniGraph \in Nat \ {0} BY DEF Init
<1> QED BY <1>3, <1>4 DEF Init, Loaded

\* and every step keeps it.
LEMMA LoadedStep == Loaded /\ [Next]_vars => Loaded'
<1> SUFFICES ASSUME Loaded, [Next]_vars PROVE Loaded'
  OBVIOUS
<1>1. CASE Initialize
  <2>1. CASE InitialisationFails BY <1>1, <2>1 DEF Loaded, Initialize
  <2>2. CASE ~ InitialisationFails
    <3>1. GraphFiles[parameters.upclosedset] \in Seq(AllGraphs)
          /\ GraphFiles[parameters.checkset] \in Seq(AllGraphs)
      BY <2>2, GraphFilesAssumption DEF InitialisationFails
    <3> QED BY <1>1, <2>2, <3>1 DEF Loaded, Initialize
  <2> QED BY <2>1, <2>2
<1>2. CASE ComparePair
  <2>1. CASE IsLessOrEq(Smaller, Bigger) BY <1>2, <2>1 DEF Loaded, ComparePair
  <2>2. CASE ~ IsLessOrEq(Smaller, Bigger) BY <1>2, <2>2 DEF Loaded, ComparePair
  <2> QED BY <2>1, <2>2
<1>3. CASE NextGraphToCheck BY <1>3 DEF Loaded, NextGraphToCheck
<1>4. CASE PrintTotals BY <1>4 DEF Loaded, PrintTotals
<1>5. CASE UNCHANGED vars BY <1>5 DEF Loaded, vars
<1> QED BY <1>1, <1>2, <1>3, <1>4, <1>5 DEF Next

\* The graphs a scenario compares come from its files, and the places are numbers
\* (LEQCheckScenario::initialize).
THEOREM LoadedAlways == Spec => []Loaded
BY LoadedInitially, LoadedStep, PTL DEF Spec

\* Graphs of the files agree on the arities of their labels.
LEMMA LoadedGraphs ==
  ASSUME NEW g \in AllGraphs, NEW h \in AllGraphs
  PROVE  IsHypergraph(g) /\ IsHypergraph(h) /\ SameArities(g, h)
<1>1. IsHypergraph(g) /\ IsHypergraph(h) BY GraphFilesAssumption
<1>2. ASSUME NEW e \in DOMAIN g.edges, NEW f \in DOMAIN h.edges,
             g.edges[e].label = h.edges[f].label
      PROVE  Len(PathOf(g, e)) = Len(PathOf(h, f))
  <2>1. g.edges[e] \in Range(g.edges) /\ h.edges[f] \in Range(h.edges) BY DEF Range
  <2>2. PICK p, q : /\ p = <<g.edges[e].label, Len(PathOf(g, e))>>
                    /\ q = <<h.edges[f].label, Len(PathOf(h, f))>>
    OBVIOUS
  <2>3. p \in Arities /\ q \in Arities BY <2>1, <2>2 DEF Arities, PathOf
  <2>4. p[1] = q[1] BY <1>2, <2>2
  <2>5. p = q BY <2>3, <2>4, GraphFilesAssumption
  <2> QED BY <2>2, <2>5
<1> QED BY <1>1, <1>2 DEF SameArities

\* The isomorphism check never tells isomorphic graphs of the files apart
\* (IsomorphismChecker::areIsomorphic).
THEOREM IsomorphicGraphsAreRecognisedAlways == Spec => []IsomorphicGraphsAreRecognised
<1>1. Loaded => IsomorphicGraphsAreRecognised
  <2> SUFFICES ASSUME Loaded, HasPair, IsomorphicGraphs(Smaller, Bigger)
               PROVE  AreIsomorphic(Smaller, Bigger)
    BY DEF IsomorphicGraphsAreRecognised
  <2>1. Smaller \in AllGraphs /\ Bigger \in AllGraphs
    <3>1. miniGraph \in 1 .. Len(minimalGraphs) /\ graphToCheck \in 1 .. Len(checkGraphs)
      BY DEF Loaded, HasPair
    <3> QED BY <3>1 DEF Loaded, Smaller, Bigger
  <2>2. IsHypergraph(Smaller) /\ IsHypergraph(Bigger) /\ SameArities(Smaller, Bigger)
    BY <2>1, LoadedGraphs
  <2> QED BY <2>2, IsomorphismCheckIsComplete
<1> QED BY <1>1, LoadedAlways, PTL

-----------------------------------------------------------------------------
(* The subgraph order *)

\* What SubgraphOrder::isLessOrEq asks the match finder.
SearchIn(g, h) == [source |-> g, target |-> h, injective |-> TRUE, beyond |-> 0]

MappedEdges(g, c) == DOMAIN c.map \cap DOMAIN g.edges

\* Edge t of h is where the mapping has the ends of edge e of g.
IsImage(g, h, map, e, t) ==
  /\ t \in DOMAIN h.edges
  /\ g.edges[e].label = h.edges[t].label
  /\ \A i \in DOMAIN Ends(g, e) : Ends(h, t)[i] = map[Ends(g, e)[i]]

Foldable(g, h) == \E e \in Range(g.edges), f \in Range(h.edges) : IsFolding(e, f)

\* What a call gets: the edges mapped so far with their vertices, and for each image one of what
\* was mapped to it.  An edge is that one, and so is a vertex if no edge can be folded.
MapIsRight(g, h, c) ==
  /\ \A e \in MappedEdges(g, c) : Range(Ends(g, e)) \subseteq DOMAIN c.map
  /\ DOMAIN c.map \subseteq Elements(g)
  /\ \A v \in DOMAIN c.map \cap g.vertices : c.map[v] \in h.vertices
  /\ \A e \in MappedEdges(g, c) : IsImage(g, h, c.map, e, c.map[e])

ReverseFits(g, h, c) ==
  /\ \A x \in DOMAIN c.map : c.map[x] \in DOMAIN c.rev
  /\ \A y \in DOMAIN c.rev : c.rev[y] \in DOMAIN c.map /\ c.map[c.rev[y]] = y
  /\ \A e \in MappedEdges(g, c) : c.rev[c.map[e]] = e
  /\ ~ Foldable(g, h) => \A x \in DOMAIN c.map : c.rev[c.map[x]] = x

MappableIsRight(g, c) ==
  \A e \in c.mappable : e \in DOMAIN g.edges \ DOMAIN c.map /\ Range(Ends(g, e)) \cap DOMAIN c.map # {}

IsCall(g, h, c) == MapIsRight(g, h, c) /\ ReverseFits(g, h, c) /\ MappableIsRight(g, c)

\* A mapping with one more edge and its ends; and a reverse mapping with them.
IsExtended(map, old, e, t, src, tar) ==
  /\ DOMAIN map = DOMAIN old \cup {e} \cup Range(src)
  /\ map[e] = t
  /\ \A x \in DOMAIN old : map[x] = old[x]
  /\ \A i \in DOMAIN src : map[src[i]] = tar[i]

IsReversed(rev, old, e, t, new, src, tar) ==
  /\ DOMAIN rev = DOMAIN old \cup {t} \cup {tar[i] : i \in new}
  /\ \A y \in DOMAIN rev :
       IF \E i \in new : tar[i] = y THEN \E i \in new : tar[i] = y /\ rev[y] = src[i]
       ELSE rev[y] = IF y = t THEN e ELSE old[y]

\* What is known of an edge.
LEMMA EndsFacts ==
  ASSUME NEW g, IsHypergraph(g), NEW e \in DOMAIN g.edges
  PROVE  /\ Ends(g, e) \in Seq(g.vertices) /\ Len(Ends(g, e)) \in Nat
         /\ DOMAIN Ends(g, e) = 1 .. Len(Ends(g, e))
         /\ \A i \in DOMAIN Ends(g, e) : Ends(g, e)[i] \in g.vertices
         /\ Range(Ends(g, e)) \subseteq g.vertices
         /\ e \notin g.vertices /\ e \in Nat
<1>1. g.edges[e] \in [label : DOMAIN CharCodes, vertices : Seq(g.vertices)] BY DEF IsHypergraph
<1>2. PICK s : s = Ends(g, e) OBVIOUS
<1>3. s \in Seq(g.vertices) BY <1>1, <1>2 DEF Ends
<1>4. Len(s) \in Nat /\ DOMAIN s = 1 .. Len(s) /\ \A i \in DOMAIN s : s[i] \in g.vertices
  BY <1>3, LenProperties, ElementOfSeq
<1>5. e \notin g.vertices /\ e \in Nat BY DEF IsHypergraph, Elements
<1> QED BY <1>2, <1>3, <1>4, <1>5 DEF Range

\* Each vertex that is not mapped yet has a first occurrence.
LEMMA NewPlacesFacts ==
  ASSUME NEW g, IsHypergraph(g), NEW e \in DOMAIN g.edges, NEW c
  PROVE  /\ NewPlaces(c, Ends(g, e)) \subseteq DOMAIN Ends(g, e)
         /\ \A i \in NewPlaces(c, Ends(g, e)) : Ends(g, e)[i] \notin DOMAIN c.map
         /\ \A x \in Range(Ends(g, e)) \ DOMAIN c.map :
              \E i \in NewPlaces(c, Ends(g, e)) : Ends(g, e)[i] = x
<1>1. PICK src, n : src = Ends(g, e) /\ n = Len(src) OBVIOUS
<1>2. n \in Nat /\ DOMAIN src = 1 .. n BY <1>1, EndsFacts
<1>3. NewPlaces(c, src)
        = {i \in 1 .. n : src[i] \notin DOMAIN c.map /\ \A j \in 1 .. i - 1 : src[j] # src[i]}
  BY <1>2 DEF NewPlaces
<1>4. ASSUME NEW i \in 1 .. n, src[i] \notin DOMAIN c.map
      PROVE  \E j \in NewPlaces(c, src) : src[j] = src[i]
  <2>1. PICK T : T = {j \in 1 .. n : src[j] = src[i]} OBVIOUS
  <2>2. i \in T /\ T \subseteq Nat BY <2>1
  <2>3. PICK j \in T : \A k \in T : j <= k BY <2>2, LeastNatural
  <2>4. \A k \in 1 .. j - 1 : k \in 1 .. n /\ ~ (j <= k) BY <1>2, <2>1
  <2>5. \A k \in 1 .. j - 1 : src[k] # src[j] BY <2>1, <2>3, <2>4
  <2> QED BY <1>3, <1>4, <2>1, <2>5
<1>5. \A x \in Range(src) \ DOMAIN c.map : \E i \in NewPlaces(c, src) : src[i] = x
  BY <1>2, <1>4 DEF Range
<1> QED BY <1>1, <1>2, <1>3, <1>5

\* The mapping of the next call has the edge with its ends.
LEMMA WithImagesFacts ==
  ASSUME NEW g, IsHypergraph(g), NEW h, IsHypergraph(h), NEW c,
         NEW e \in DOMAIN g.edges \ DOMAIN c.map, NEW t \in DOMAIN h.edges,
         Len(Ends(g, e)) = Len(Ends(h, t)),
         VerticesFit(SearchIn(g, h), c, Ends(g, e), Ends(h, t)),
         NEW map, map = WithImages(SearchIn(g, h), c, e, t)
  PROVE  IsExtended(map, c.map, e, t, Ends(g, e), Ends(h, t))
<1>1. PICK s : s = SearchIn(g, h) OBVIOUS
<1>2. s.source = g /\ s.target = h /\ s.injective BY <1>1 DEF SearchIn
<1> DEFINE src == Ends(s.source, e)
           tar == Ends(s.target, t)
           new == NewPlaces(c, src)
           place(x) == CHOOSE i \in new : src[i] = x
<1>3. map = [x \in DOMAIN c.map \cup {e} \cup {src[i] : i \in new} |->
               IF x = e THEN t ELSE IF x \in DOMAIN c.map THEN c.map[x] ELSE ReadAt(s, tar, place(x))]
  BY <1>1 DEF WithImages
<1>4. PICK n \in Nat : /\ n = Len(src) /\ n = Len(tar) /\ DOMAIN src = 1 .. n
                       /\ \A i \in 1 .. n : src[i] \in g.vertices
  BY <1>2, EndsFacts
<1>5. e \notin g.vertices BY EndsFacts
<1>6. new = {i \in 1 .. n : src[i] \notin DOMAIN c.map /\ \A j \in 1 .. i - 1 : src[j] # src[i]}
  BY <1>4 DEF NewPlaces
<1>7. ASSUME NEW i \in new PROVE place(src[i]) \in new /\ src[place(src[i])] = src[i]
  OBVIOUS
<1>8. /\ DOMAIN map = DOMAIN c.map \cup {e} \cup {src[i] : i \in new}
      /\ map[e] = t
      /\ \A x \in DOMAIN c.map : map[x] = c.map[x]
  <2> HIDE DEF new, place
  <2> QED BY <1>3
<1>9. ASSUME NEW i \in new, src[i] # e, src[i] \notin DOMAIN c.map
      PROVE  map[src[i]] = ReadAt(s, tar, place(src[i]))
  <2> HIDE DEF new, place
  <2> QED BY <1>3, <1>9
<1>0. VerticesFit(s, c, src, tar) BY <1>1, <1>2
<1> HIDE DEF src, tar, new, place
<1>10. \A i \in 1 .. n : ReadAt(s, tar, i) = tar[i] BY <1>4 DEF ReadAt
<1>11. \A i, j \in 1 .. n : src[i] = src[j] => tar[i] = tar[j]
  <2>1. \A i \in 1 .. n : \A j \in 1 .. i - 1 : src[j] = src[i] => tar[j] = tar[i]
    BY <1>0, <1>4 DEF VerticesFit
  <2> SUFFICES ASSUME NEW i \in 1 .. n, NEW j \in 1 .. n, src[i] = src[j] PROVE tar[i] = tar[j]
    OBVIOUS
  <2>2. i \in 1 .. j - 1 \/ i = j \/ j \in 1 .. i - 1 BY <1>4
  <2> QED BY <2>1, <2>2
<1>12. \A i \in 1 .. n : src[i] \in DOMAIN c.map => c.map[src[i]] = tar[i]
  BY <1>0, <1>4 DEF VerticesFit
<1>13. ASSUME NEW i \in 1 .. n, src[i] \notin DOMAIN c.map
       PROVE  \E j \in new : src[j] = src[i]
  <2>1. src[i] \in Range(Ends(g, e)) \ DOMAIN c.map BY <1>2, <1>4, <1>13 DEF Range, src
  <2>2. new = NewPlaces(c, Ends(g, e)) /\ src = Ends(g, e) BY <1>2 DEF new, src
  <2> QED BY <2>1, <2>2, NewPlacesFacts
<1>14. DOMAIN map = DOMAIN c.map \cup {e} \cup Range(src)
  <2>1. Range(src) \subseteq DOMAIN c.map \cup {src[i] : i \in new}
    <3> SUFFICES ASSUME NEW i \in 1 .. n PROVE src[i] \in DOMAIN c.map \cup {src[j] : j \in new}
      BY <1>4 DEF Range
    <3> QED BY <1>13
  <2>2. {src[i] : i \in new} \subseteq Range(src) BY <1>4, <1>6 DEF Range
  <2> QED BY <1>8, <2>1, <2>2
<1>15. ASSUME NEW i \in 1 .. n PROVE map[src[i]] = tar[i]
  <2>1. src[i] # e BY <1>4, <1>5
  <2>2. CASE src[i] \in DOMAIN c.map
    <3>1. map[src[i]] = c.map[src[i]] BY <1>8, <2>2
    <3> QED BY <1>12, <2>2, <3>1
  <2>3. CASE src[i] \notin DOMAIN c.map
    <3>1. PICK j \in new : src[j] = src[i] BY <1>13, <2>3
    <3>2. map[src[j]] = ReadAt(s, tar, place(src[j])) BY <1>9, <2>1, <2>3, <3>1
    <3>3. place(src[j]) \in new /\ src[place(src[j])] = src[j] BY <1>7
    <3>4. place(src[j]) \in 1 .. n BY <1>6, <3>3
    <3> QED BY <1>10, <1>11, <3>1, <3>2, <3>3, <3>4
  <2> QED BY <2>2, <2>3
<1>16. src = Ends(g, e) /\ tar = Ends(h, t) BY <1>2 DEF src, tar
<1>17. IsExtended(map, c.map, e, t, src, tar) BY <1>4, <1>8, <1>14, <1>15 DEF IsExtended
<1> QED BY <1>16, <1>17

\* And for each image the reverse mapping has what was mapped to it: something mapped before, the
\* edge, or a vertex of the edge, of which there may be several.
LEMMA WithReverseFacts ==
  ASSUME NEW g, IsHypergraph(g), NEW h, IsHypergraph(h), NEW c,
         NEW e \in DOMAIN g.edges \ DOMAIN c.map, NEW t \in DOMAIN h.edges,
         Len(Ends(g, e)) = Len(Ends(h, t)),
         NEW rev, rev = WithReverse(SearchIn(g, h), c, e, t)
  PROVE  IsReversed(rev, c.rev, e, t, NewPlaces(c, Ends(g, e)), Ends(g, e), Ends(h, t))
<1>1. PICK s : s = SearchIn(g, h) OBVIOUS
<1>2. s.source = g /\ s.target = h BY <1>1 DEF SearchIn
<1> DEFINE src == Ends(s.source, e)
           tar == Ends(s.target, t)
           new == NewPlaces(c, src)
           to(i) == ReadAt(s, tar, i)
           places(y) == {i \in new : to(i) = y}
<1>3. rev = [y \in DOMAIN c.rev \cup {t} \cup {to(i) : i \in new} |->
               IF \E i \in new : to(i) = y THEN src[Max(places(y))] ELSE IF y = t THEN e ELSE c.rev[y]]
  BY <1>1 DEF WithReverse
<1>4. PICK n \in Nat : n = Len(src) /\ n = Len(tar) /\ DOMAIN src = 1 .. n BY <1>2, EndsFacts
<1>5. new \subseteq 1 .. n BY <1>4 DEF NewPlaces
<1>6. \A i \in new : to(i) = tar[i]
  <2> HIDE DEF src, tar, new
  <2> QED BY <1>4, <1>5 DEF ReadAt
<1>7. DOMAIN rev = DOMAIN c.rev \cup {t} \cup {to(i) : i \in new} BY <1>3
<1>8. ASSUME NEW y \in DOMAIN rev, NEW j \in new, to(j) = y
      PROVE  \E i \in new : to(i) = y /\ rev[y] = src[i]
  <2>1. rev[y] = src[Max(places(y))]
    <3> HIDE DEF src, tar, new, to, places
    <3> QED BY <1>3, <1>7, <1>8
  <2>2. places(y) \in SUBSET (1 .. n) /\ places(y) # {}
    <3> HIDE DEF src, tar, new, to
    <3> QED BY <1>5, <1>8
  <2>3. Max(places(y)) \in places(y)
    <3> HIDE DEF places
    <3> QED BY <2>2, GreatestIndex
  <2> QED BY <2>1, <2>3
<1>9. ASSUME NEW y \in DOMAIN rev, ~ \E i \in new : to(i) = y
      PROVE  rev[y] = IF y = t THEN e ELSE c.rev[y]
  <2> HIDE DEF src, tar, new, to, places
  <2> QED BY <1>3, <1>7, <1>9
<1> HIDE DEF src, tar, new, to, places
<1>10. src = Ends(g, e) /\ tar = Ends(h, t) /\ new = NewPlaces(c, Ends(g, e))
  BY <1>2 DEF src, tar, new
<1>11. DOMAIN rev = DOMAIN c.rev \cup {t} \cup {tar[i] : i \in new} BY <1>6, <1>7
<1>12. ASSUME NEW y \in DOMAIN rev
       PROVE  IF \E i \in new : tar[i] = y THEN \E i \in new : tar[i] = y /\ rev[y] = src[i]
              ELSE rev[y] = IF y = t THEN e ELSE c.rev[y]
  <2>1. CASE \E i \in new : tar[i] = y BY <1>6, <1>8, <2>1
  <2>2. CASE ~ \E i \in new : tar[i] = y BY <1>6, <1>9, <2>2
  <2> QED BY <2>1, <2>2
<1>13. IsReversed(rev, c.rev, e, t, new, src, tar) BY <1>11, <1>12 DEF IsReversed
<1> QED BY <1>10, <1>13

\* An edge that isMapPossible accepts has as many vertices as its target, and they fit.
LEMMA PossibleFits ==
  ASSUME NEW g, IsHypergraph(g), NEW h, IsHypergraph(h), SameArities(g, h), NEW c,
         NEW e \in DOMAIN g.edges, NEW t \in DOMAIN h.edges, IsMapPossible(SearchIn(g, h), c, e, t)
  PROVE  /\ t \notin DOMAIN c.rev
         /\ g.edges[e].label = h.edges[t].label
         /\ Len(Ends(g, e)) = Len(Ends(h, t))
         /\ VerticesFit(SearchIn(g, h), c, Ends(g, e), Ends(h, t))
<1>1. PICK s : s = SearchIn(g, h) OBVIOUS
<1>2. s.source = g /\ s.target = h /\ s.injective BY <1>1 DEF SearchIn
<1>3. t \notin DOMAIN c.rev /\ g.edges[e].label = h.edges[t].label BY <1>1, <1>2 DEF IsMapPossible
<1>4. Len(Ends(g, e)) = Len(Ends(h, t)) BY <1>3 DEF SameArities, PathOf, Ends
<1>5. VerticesFit(s, c, Ends(g, e), Ends(h, t)) BY <1>1, <1>2, <1>4 DEF IsMapPossible
<1> QED BY <1>1, <1>3, <1>4, <1>5

\* The next call has one more edge, and what a call gets is right again.
LEMMA MapToKeepsCall ==
  ASSUME NEW g, IsHypergraph(g), NEW h, IsHypergraph(h), SameArities(g, h),
         NEW c, IsCall(g, h, c), NEW e \in DOMAIN g.edges \ DOMAIN c.map,
         NEW t \in DOMAIN h.edges, IsMapPossible(SearchIn(g, h), c, e, t),
         NEW d, d = MapTo(SearchIn(g, h), c, e, t)
  PROVE  /\ IsCall(g, h, d)
         /\ MappedEdges(g, d) = MappedEdges(g, c) \cup {e}
         /\ IsExtended(d.map, c.map, e, t, Ends(g, e), Ends(h, t))
<1>1. PICK src, tar : src = Ends(g, e) /\ tar = Ends(h, t) OBVIOUS
<1>2. PICK map, rev, mappable :
        /\ map = WithImages(SearchIn(g, h), c, e, t) /\ rev = WithReverse(SearchIn(g, h), c, e, t)
        /\ mappable = (c.mappable \cup UNION {AttachedTo(g, v) : v \in Range(src) \ DOMAIN c.map})
                        \ (DOMAIN c.map \cup {e})
  OBVIOUS
<1>3. d.map = map /\ d.rev = rev /\ d.mappable = mappable
  <2>1. PICK s : s = SearchIn(g, h) OBVIOUS
  <2>2. s.source = g /\ s.injective BY <2>1 DEF SearchIn
  <2>3. mappable = (c.mappable
                      \cup UNION {AttachedTo(s.source, v) : v \in Range(Ends(s.source, e)) \ DOMAIN c.map})
                     \ (DOMAIN c.map \cup {e})
    BY <1>1, <1>2, <2>2
  <2>4. /\ d.map = WithImages(s, c, e, t)
        /\ d.rev = IF s.injective THEN WithReverse(s, c, e, t) ELSE c.rev
        /\ d.mappable = (c.mappable \cup UNION {AttachedTo(s.source, v) :
                                                 v \in Range(Ends(s.source, e)) \ DOMAIN c.map})
                          \ (DOMAIN c.map \cup {e})
    BY <2>1 DEF MapTo
  <2> QED BY <1>2, <2>1, <2>2, <2>3, <2>4, Zenon
<1>4. /\ t \notin DOMAIN c.rev /\ g.edges[e].label = h.edges[t].label /\ Len(src) = Len(tar)
      /\ VerticesFit(SearchIn(g, h), c, src, tar)
  BY <1>1, PossibleFits
<1>5. /\ DOMAIN map = DOMAIN c.map \cup {e} \cup Range(src)
      /\ map[e] = t
      /\ \A x \in DOMAIN c.map : map[x] = c.map[x]
      /\ \A i \in DOMAIN src : map[src[i]] = tar[i]
  <2>1. Len(Ends(g, e)) = Len(Ends(h, t)) /\ VerticesFit(SearchIn(g, h), c, Ends(g, e), Ends(h, t))
    BY <1>1, <1>4
  <2>2. IsExtended(map, c.map, e, t, Ends(g, e), Ends(h, t)) BY <1>2, <2>1, WithImagesFacts
  <2> QED BY <1>1, <2>2 DEF IsExtended
<1>6. PICK new : new = NewPlaces(c, src) OBVIOUS
<1>7. /\ DOMAIN rev = DOMAIN c.rev \cup {t} \cup {tar[i] : i \in new}
      /\ new \subseteq DOMAIN src
      /\ \A y \in DOMAIN rev :
           IF \E i \in new : tar[i] = y THEN \E i \in new : tar[i] = y /\ rev[y] = src[i]
           ELSE rev[y] = IF y = t THEN e ELSE c.rev[y]
  <2>1. Len(Ends(g, e)) = Len(Ends(h, t)) BY <1>1, <1>4
  <2>2. IsReversed(rev, c.rev, e, t, NewPlaces(c, Ends(g, e)), Ends(g, e), Ends(h, t))
    BY <1>2, <2>1, WithReverseFacts
  <2>3. NewPlaces(c, Ends(g, e)) \subseteq DOMAIN Ends(g, e) BY NewPlacesFacts
  <2> QED BY <1>1, <1>6, <2>2, <2>3 DEF IsReversed
<1>8. /\ DOMAIN src = DOMAIN tar /\ e \notin g.vertices /\ t \notin h.vertices
      /\ \A i \in DOMAIN src : src[i] \in g.vertices /\ tar[i] \in h.vertices
      /\ Range(src) \subseteq g.vertices
  BY <1>1, <1>4, EndsFacts
<1>9. g.vertices \cap DOMAIN g.edges = {} /\ h.vertices \cap DOMAIN h.edges = {} BY DEF IsHypergraph
<1>10. MappedEdges(g, d) = MappedEdges(g, c) \cup {e} BY <1>3, <1>5, <1>8, <1>9 DEF MappedEdges
<1>11. MapIsRight(g, h, d)
  <2>1. ASSUME NEW f \in MappedEdges(g, d) PROVE Range(Ends(g, f)) \subseteq DOMAIN d.map
    BY <1>1, <1>3, <1>5, <1>10 DEF IsCall, MapIsRight
  <2>2. DOMAIN d.map \subseteq Elements(g)
    BY <1>3, <1>5, <1>8 DEF IsCall, MapIsRight, Elements
  <2>3. ASSUME NEW v \in DOMAIN d.map \cap g.vertices PROVE d.map[v] \in h.vertices
    <3>1. CASE v \in DOMAIN c.map BY <1>3, <1>5, <3>1 DEF IsCall, MapIsRight
    <3>2. CASE v \in Range(src)
      <4>1. PICK i \in DOMAIN src : v = src[i] BY <3>2 DEF Range
      <4> QED BY <1>3, <1>5, <1>8, <4>1
    <3> QED BY <1>3, <1>5, <1>8, <3>1, <3>2
  <2>4. ASSUME NEW f \in MappedEdges(g, d) PROVE IsImage(g, h, d.map, f, d.map[f])
    <3>1. CASE f = e BY <1>1, <1>3, <1>4, <1>5, <3>1 DEF IsImage
    <3>2. CASE f # e
      <4>1. f \in MappedEdges(g, c) BY <1>10, <3>2
      <4>2. IsImage(g, h, c.map, f, c.map[f]) BY <4>1 DEF IsCall, MapIsRight
      <4>3. d.map[f] = c.map[f] BY <1>3, <1>5, <4>1 DEF MappedEdges
      <4>4. ASSUME NEW i \in DOMAIN Ends(g, f) PROVE d.map[Ends(g, f)[i]] = c.map[Ends(g, f)[i]]
        <5>1. Ends(g, f)[i] \in Range(Ends(g, f)) BY DEF Range
        <5>2. Ends(g, f)[i] \in DOMAIN c.map BY <4>1, <5>1 DEF IsCall, MapIsRight
        <5> QED BY <1>3, <1>5, <5>2
      <4> QED BY <4>2, <4>3, <4>4 DEF IsImage
    <3> QED BY <3>1, <3>2
  <2> QED BY <2>1, <2>2, <2>3, <2>4 DEF MapIsRight
<1>12. ReverseFits(g, h, d)
  <2>1. ASSUME NEW x \in DOMAIN map PROVE map[x] \in DOMAIN rev
    <3>1. CASE x \in DOMAIN c.map BY <1>5, <1>7, <3>1 DEF IsCall, ReverseFits
    <3>2. CASE x = e BY <1>5, <1>7, <3>2
    <3>3. CASE x \in Range(src) /\ x \notin DOMAIN c.map
      <4>1. PICK i \in new : src[i] = x BY <1>1, <1>6, <3>3, NewPlacesFacts
      <4> QED BY <1>5, <1>7, <4>1
    <3> QED BY <1>5, <3>1, <3>2, <3>3
  <2>2. ASSUME NEW y \in DOMAIN rev PROVE rev[y] \in DOMAIN map /\ map[rev[y]] = y
    <3>1. CASE \E i \in new : tar[i] = y
      <4>1. PICK i \in new : tar[i] = y /\ rev[y] = src[i] BY <1>7, <3>1
      <4>2. src[i] \in Range(src) BY <1>7, <4>1 DEF Range
      <4> QED BY <1>5, <1>7, <4>1, <4>2
    <3>2. CASE ~ \E i \in new : tar[i] = y
      <4>1. rev[y] = IF y = t THEN e ELSE c.rev[y] BY <1>7, <3>2
      <4>2. y = t \/ y \in DOMAIN c.rev BY <1>7, <3>2
      <4> QED BY <1>5, <4>1, <4>2 DEF IsCall, ReverseFits
    <3> QED BY <3>1, <3>2
  <2>3. ASSUME NEW f \in MappedEdges(g, c) \cup {e} PROVE rev[map[f]] = f
    <3>1. CASE f = e
      <4>1. ~ \E i \in new : tar[i] = t BY <1>7, <1>8
      <4> QED BY <1>5, <1>7, <3>1, <4>1
    <3>2. CASE f # e
      <4>1. /\ f \in DOMAIN c.map /\ c.map[f] \in DOMAIN h.edges
            /\ c.map[f] \in DOMAIN c.rev /\ c.rev[c.map[f]] = f
        BY <3>2 DEF IsCall, MapIsRight, ReverseFits, MappedEdges, IsImage
      <4>2. c.map[f] # t /\ map[f] = c.map[f] /\ c.map[f] \in DOMAIN rev BY <1>4, <1>5, <1>7, <4>1
      <4>3. ~ \E i \in new : tar[i] = c.map[f] BY <1>7, <1>8, <1>9, <4>1
      <4> QED BY <1>7, <4>1, <4>2, <4>3
    <3> QED BY <3>1, <3>2
  <2>4. ASSUME ~ Foldable(g, h), NEW x \in DOMAIN map PROVE rev[map[x]] = x
    <3>1. CASE x \in DOMAIN c.map
      <4>1. map[x] = c.map[x] /\ c.map[x] \in DOMAIN c.rev /\ c.rev[c.map[x]] = x
        BY <1>5, <2>4, <3>1 DEF IsCall, ReverseFits
      <4>2. ASSUME NEW i \in new, tar[i] = c.map[x] PROVE FALSE
        <5>1. i \in DOMAIN src BY <1>7
        <5>2. c.rev[tar[i]] = src[i]
          <6>1. SearchIn(g, h).injective BY DEF SearchIn
          <6> QED BY <1>4, <4>1, <4>2, <5>1, <6>1 DEF VerticesFit
        <5>3. src[i] \notin DOMAIN c.map BY <1>6 DEF NewPlaces
        <5> QED BY <3>1, <4>1, <4>2, <5>2, <5>3
      <4>3. c.map[x] # t /\ c.map[x] \in DOMAIN rev BY <1>4, <1>7, <4>1
      <4> QED BY <1>7, <4>1, <4>2, <4>3
    <3>2. CASE x = e BY <2>3, <3>2
    <3>3. CASE x \in Range(src) /\ x \notin DOMAIN c.map
      <4>1. PICK i \in new : src[i] = x BY <1>1, <1>6, <3>3, NewPlacesFacts
      <4>2. i \in DOMAIN src /\ map[x] = tar[i] /\ tar[i] \in DOMAIN rev BY <1>5, <1>7, <4>1
      <4>3. PICK k \in new : tar[k] = tar[i] /\ rev[tar[i]] = src[k] BY <1>7, <4>1, <4>2
      <4>4. src[k] = src[i]
        <5> SUFFICES ASSUME src[k] # src[i] PROVE FALSE
          OBVIOUS
        <5>1. k \in DOMAIN src BY <1>7
        <5>2. PICK one, other : one = g.edges[e] /\ other = h.edges[t] OBVIOUS
        <5>3. one \in Range(g.edges) /\ other \in Range(h.edges) BY <5>2 DEF Range
        <5>4. one.vertices = src /\ other.vertices = tar BY <1>1, <5>2 DEF Ends
        <5>5. IsFolding(one, other) BY <1>4, <4>2, <4>3, <5>1, <5>2, <5>4 DEF IsFolding
        <5> QED BY <2>4, <5>3, <5>5 DEF Foldable
      <4> QED BY <4>1, <4>2, <4>3, <4>4
    <3> QED BY <1>5, <3>1, <3>2, <3>3
  <2> QED BY <1>3, <1>10, <2>1, <2>2, <2>3, <2>4 DEF ReverseFits
<1>13. MappableIsRight(g, d)
  <2> SUFFICES ASSUME NEW f \in mappable
               PROVE  f \in DOMAIN g.edges \ DOMAIN map /\ Range(Ends(g, f)) \cap DOMAIN map # {}
    BY <1>3 DEF MappableIsRight
  <2>1. f \notin DOMAIN c.map /\ f # e BY <1>2
  <2>2. CASE f \in c.mappable BY <1>5, <1>8, <1>9, <2>1, <2>2 DEF IsCall, MappableIsRight
  <2>3. CASE f \notin c.mappable
    <3>1. PICK v \in Range(src) : f \in AttachedTo(g, v) BY <1>2, <2>3
    <3>2. f \in DOMAIN g.edges /\ v \in Range(Ends(g, f)) BY <3>1 DEF AttachedTo
    <3> QED BY <1>5, <1>8, <1>9, <2>1, <3>1, <3>2
  <2> QED BY <2>2, <2>3
<1>14. IsExtended(d.map, c.map, e, t, Ends(g, e), Ends(h, t)) BY <1>1, <1>3, <1>5 DEF IsExtended
<1> QED BY <1>10, <1>11, <1>12, <1>13, <1>14 DEF IsCall

\* The edge that a call maps is unmapped.
LEMMA CurrentEdgeIsUnmapped ==
  ASSUME NEW g, IsHypergraph(g), NEW h, NEW c, IsCall(g, h, c),
         DOMAIN g.edges \ DOMAIN c.map # {}
  PROVE  CurrentEdge(SearchIn(g, h), c) \in DOMAIN g.edges \ DOMAIN c.map
<1>1. PICK s : s = SearchIn(g, h) OBVIOUS
<1>2. s.source = g BY <1>1 DEF SearchIn
<1>3. CASE c.mappable = {}
  <2> DEFINE unmapped == DOMAIN s.source.edges \ DOMAIN c.map
             widest == {e \in unmapped : \A f \in unmapped : Len(Ends(s.source, f)) <= Len(Ends(s.source, e))}
             arity == [e \in unmapped |-> Len(Ends(s.source, e))]
  <2>1. CurrentEdge(s, c) = Min(widest) BY <1>3 DEF CurrentEdge, NewEntryPoint
  <2>2. /\ IsFiniteSet(DOMAIN g.edges) /\ DOMAIN g.edges \subseteq Nat
        /\ \A e \in DOMAIN g.edges : Len(Ends(g, e)) \in Nat
    BY EndsFacts DEF IsHypergraph, Elements
  <2>3. IsFiniteSet(unmapped) /\ unmapped \subseteq Nat /\ unmapped # {}
    BY <1>2, <2>2, FS_Subset
  <2>4. arity \in [unmapped -> Nat] BY <1>2, <2>2
  <2>5. PICK x \in unmapped : \A y \in unmapped : arity[y] <= arity[x]
    <3> HIDE DEF unmapped, arity
    <3> QED BY <2>3, <2>4, GreatestValue
  <2>6. x \in widest /\ widest \subseteq Nat BY <2>3, <2>5
  <2>7. PICK least \in widest : \A y \in widest : least <= y
    <3> HIDE DEF widest
    <3> QED BY <2>6, LeastNatural
  <2>8. Min(widest) \in widest
    <3> HIDE DEF widest
    <3> QED BY <2>7 DEF Min
  <2> QED BY <1>1, <1>2, <2>1, <2>8
<1>4. CASE c.mappable # {}
  <2>1. CurrentEdge(s, c) \in c.mappable BY <1>4 DEF CurrentEdge
  <2> QED BY <1>1, <2>1 DEF IsCall, MappableIsRight
<1> QED BY <1>3, <1>4

\* The search starts with nothing mapped.
LEMMA FirstCallIsCall ==
  ASSUME NEW g, NEW h
  PROVE  IsCall(g, h, FirstCall) /\ MappedEdges(g, FirstCall) = {} /\ DOMAIN FirstCall.map = {}
BY DEF IsCall, MapIsRight, ReverseFits, MappableIsRight, FirstCall, MappedEdges

-----------------------------------------------------------------------------
(* Embeddings *)

\* m maps vertices and edges of g to those of h, no two to the same.
IsEmbedding(m, g, h) ==
  /\ \A v \in g.vertices : m[v] \in h.vertices
  /\ \A e \in DOMAIN g.edges : IsImage(g, h, m, e, m[e])
  /\ \A x, y \in Elements(g) : m[x] = m[y] => x = y

\* A call has mapped as m does.
Follows(m, c) == \A x \in DOMAIN c.map : c.map[x] = m[x]

\* Then it can map its edge as m does.
LEMMA FollowsOn ==
  ASSUME NEW g, IsHypergraph(g), NEW h, IsHypergraph(h), SameArities(g, h),
         NEW m, IsEmbedding(m, g, h), NEW c, IsCall(g, h, c), Follows(m, c),
         NEW e \in DOMAIN g.edges \ DOMAIN c.map, e = CurrentEdge(SearchIn(g, h), c)
  PROVE  m[e] \in PossibleTargets(SearchIn(g, h), c, e)
<1>1. PICK s : s = SearchIn(g, h) /\ s.source = g /\ s.target = h BY DEF SearchIn
<1>2. PICK t, src, tar : t = m[e] /\ src = Ends(g, e) /\ tar = Ends(h, t) OBVIOUS
<1>3. /\ t \in DOMAIN h.edges /\ g.edges[e].label = h.edges[t].label
      /\ \A i \in DOMAIN src : tar[i] = m[src[i]]
  BY <1>2 DEF IsEmbedding, IsImage
<1>4. Len(src) = Len(tar) BY <1>2, <1>3 DEF SameArities, PathOf, Ends
<1>5. DOMAIN tar = DOMAIN src /\ DOMAIN src = 1 .. Len(src) /\ Len(src) \in Nat
  BY <1>2, <1>3, <1>4, EndsFacts
<1>6. \A i \in DOMAIN src : src[i] \in Elements(g) BY <1>2, EndsFacts DEF Elements
<1>7. e \in Elements(g) /\ DOMAIN c.map \subseteq Elements(g)
  BY DEF Elements, IsCall, MapIsRight
<1>8. \A y \in DOMAIN c.rev : \A x \in Elements(g) : y = m[x] => c.rev[y] = x /\ x \in DOMAIN c.map
  <2> SUFFICES ASSUME NEW y \in DOMAIN c.rev, NEW x \in Elements(g), y = m[x]
               PROVE  c.rev[y] = x /\ x \in DOMAIN c.map
    OBVIOUS
  <2>1. c.rev[y] \in DOMAIN c.map /\ c.map[c.rev[y]] = y BY DEF IsCall, ReverseFits
  <2>2. m[c.rev[y]] = m[x] BY <2>1 DEF Follows
  <2> QED BY <1>7, <2>1, <2>2 DEF IsEmbedding
<1>9. t \in EdgeCandidates(s, c, e)
  <2>1. CASE c.mappable = {} BY <1>1, <1>3, <2>1 DEF EdgeCandidates
  <2>2. CASE c.mappable # {}
    <3> DEFINE places == {i \in DOMAIN Ends(s.source, e) : Ends(s.source, e)[i] \in DOMAIN c.map}
    <3>1. e \in c.mappable BY <1>1, <2>2 DEF CurrentEdge
    <3>2. PICK x \in Range(src) : x \in DOMAIN c.map BY <1>2, <3>1 DEF IsCall, MappableIsRight
    <3>3. PICK k \in DOMAIN src : src[k] \in DOMAIN c.map BY <3>2 DEF Range
    <3>4. k \in places /\ places \subseteq Nat BY <1>1, <1>2, <1>5, <3>3
    <3>5. PICK j : j = Min(places) OBVIOUS
    <3>6. j \in places
      <4> HIDE DEF places
      <4>1. PICK least \in places : \A y \in places : least <= y BY <3>4, LeastNatural
      <4> QED BY <3>5, <4>1 DEF Min
    <3>7. CommonNode(s, c, e) = c.map[Ends(s.source, e)[j]] BY <3>5 DEF CommonNode
    <3>8. j \in DOMAIN src /\ src[j] \in DOMAIN c.map BY <1>1, <1>2, <3>6
    <3>9. CommonNode(s, c, e) = tar[j] BY <1>1, <1>2, <1>3, <3>7, <3>8 DEF Follows
    <3>10. tar[j] \in Range(tar) BY <1>5, <3>8 DEF Range
    <3> QED BY <1>1, <1>2, <1>3, <2>2, <3>9, <3>10 DEF EdgeCandidates, AttachedTo
  <2> QED BY <2>1, <2>2
<1>10. VerticesFit(s, c, src, tar)
  <2> SUFFICES ASSUME NEW i \in DOMAIN src
               PROVE  /\ src[i] \in DOMAIN c.map => c.map[src[i]] = tar[i]
                      /\ tar[i] \in DOMAIN c.rev => c.rev[tar[i]] = src[i]
                      /\ \A j \in 1 .. i - 1 : src[j] = src[i] => tar[j] = tar[i]
    BY DEF VerticesFit
  <2>1. src[i] \in DOMAIN c.map => c.map[src[i]] = tar[i] BY <1>3 DEF Follows
  <2>2. tar[i] \in DOMAIN c.rev => c.rev[tar[i]] = src[i] BY <1>3, <1>6, <1>8
  <2>3. ASSUME NEW j \in 1 .. i - 1, src[j] = src[i] PROVE tar[j] = tar[i]
    <3>1. j \in DOMAIN src BY <1>5
    <3> QED BY <1>3, <2>3, <3>1
  <2> QED BY <2>1, <2>2, <2>3
<1>11. t \notin DOMAIN c.rev
  <2> SUFFICES ASSUME t \in DOMAIN c.rev PROVE FALSE
    OBVIOUS
  <2> QED BY <1>2, <1>7, <1>8
<1>12. IsMapPossible(s, c, e, t) BY <1>1, <1>2, <1>3, <1>10, <1>11 DEF IsMapPossible
<1> QED BY <1>1, <1>2, <1>9, <1>12 DEF PossibleTargets

\* Calls at one level of the recursion.
AreCalls(p, n, calls) ==
  /\ \A c \in calls : IsCall(p.g, p.h, c) /\ Cardinality(MappedEdges(p.g, c)) = n
  /\ IsEmbedding(p.m, p.g, p.h) => \E c \in calls : Follows(p.m, c)

CallsAfter(p, calls, i) == NextLevel(SearchIn(p.g, p.h), calls)

Levels == INSTANCE SequenceLemmas WITH LoopBody <- CallsAfter, LoopInvariant <- AreCalls

\* The calls of the next level.
LEMMA NextLevelFacts ==
  ASSUME NEW p, IsHypergraph(p.g), IsHypergraph(p.h), SameArities(p.g, p.h),
         NEW n \in Nat, n < Cardinality(DOMAIN p.g.edges), NEW calls, AreCalls(p, n, calls)
  PROVE  AreCalls(p, n + 1, NextLevel(SearchIn(p.g, p.h), calls))
<1>1. PICK g, h, m : g = p.g /\ h = p.h /\ m = p.m OBVIOUS
<1>2. IsHypergraph(g) /\ IsHypergraph(h) /\ SameArities(g, h) BY <1>1
<1>0. PICK s : s = SearchIn(g, h) OBVIOUS
<1>3. s = SearchIn(g, h) /\ s.source = g /\ s.target = h BY <1>0 DEF SearchIn
<1>4. IsFiniteSet(DOMAIN g.edges) BY <1>2 DEF IsHypergraph
<1>5. ASSUME NEW c \in calls
      PROVE  /\ IsCall(g, h, c) /\ Cardinality(MappedEdges(g, c)) = n
             /\ CurrentEdge(s, c) \in DOMAIN g.edges \ DOMAIN c.map
  <2>1. IsCall(g, h, c) /\ Cardinality(MappedEdges(g, c)) = n BY <1>1 DEF AreCalls
  <2>2. DOMAIN g.edges \ DOMAIN c.map # {}
    <3> SUFFICES ASSUME DOMAIN g.edges \ DOMAIN c.map = {} PROVE FALSE
      OBVIOUS
    <3>1. MappedEdges(g, c) = DOMAIN g.edges BY DEF MappedEdges
    <3>2. Cardinality(DOMAIN g.edges) = n BY <2>1, <3>1
    <3> QED BY <1>1, <3>2
  <2> QED BY <1>2, <1>3, <2>1, <2>2, CurrentEdgeIsUnmapped
<1>6. ASSUME NEW c \in calls, NEW e, e = CurrentEdge(s, c), NEW t \in PossibleTargets(s, c, e)
      PROVE  /\ t \in DOMAIN h.edges /\ e \in DOMAIN g.edges \ DOMAIN c.map
             /\ IsCall(g, h, MapTo(s, c, e, t))
             /\ MappedEdges(g, MapTo(s, c, e, t)) = MappedEdges(g, c) \cup {e}
             /\ IsExtended(MapTo(s, c, e, t).map, c.map, e, t, Ends(g, e), Ends(h, t))
  <2>1. t \in DOMAIN h.edges /\ IsMapPossible(s, c, e, t)
    BY <1>3 DEF PossibleTargets, EdgeCandidates, AttachedTo
  <2>2. IsCall(g, h, c) /\ e \in DOMAIN g.edges \ DOMAIN c.map BY <1>5, <1>6
  <2>3. PICK d : d = MapTo(SearchIn(g, h), c, e, t) OBVIOUS
  <2>4. /\ IsCall(g, h, d) /\ MappedEdges(g, d) = MappedEdges(g, c) \cup {e}
        /\ IsExtended(d.map, c.map, e, t, Ends(g, e), Ends(h, t))
    BY <1>2, <1>3, <2>1, <2>2, <2>3, MapToKeepsCall
  <2> QED BY <1>3, <2>1, <2>2, <2>3, <2>4
<1>7. ASSUME NEW d \in NextLevel(s, calls)
      PROVE  IsCall(g, h, d) /\ Cardinality(MappedEdges(g, d)) = n + 1
  <2>1. PICK c \in calls : d \in CallsFrom(s, c, CurrentEdge(s, c)) BY DEF NextLevel
  <2>2. PICK e : e = CurrentEdge(s, c) OBVIOUS
  <2>3. PICK t \in PossibleTargets(s, c, e) : d = MapTo(s, c, e, t) BY <2>1, <2>2 DEF CallsFrom
  <2>4. /\ e \in DOMAIN g.edges \ DOMAIN c.map /\ IsCall(g, h, d)
        /\ MappedEdges(g, d) = MappedEdges(g, c) \cup {e}
    BY <1>6, <2>2, <2>3
  <2>5. IsFiniteSet(MappedEdges(g, c)) /\ e \notin MappedEdges(g, c)
    BY <1>4, <2>4, FS_Subset DEF MappedEdges
  <2>6. Cardinality(MappedEdges(g, c)) = n BY <1>5
  <2>7. Cardinality(MappedEdges(g, d)) = n + 1 BY <2>4, <2>5, <2>6, FS_AddElement
  <2> QED BY <2>4, <2>7
<1>8. ASSUME IsEmbedding(m, g, h) PROVE \E d \in NextLevel(s, calls) : Follows(m, d)
  <2>1. PICK c \in calls : Follows(m, c) BY <1>1, <1>8 DEF AreCalls
  <2>2. PICK e, t, d : e = CurrentEdge(s, c) /\ t = m[e] /\ d = MapTo(s, c, e, t) OBVIOUS
  <2>3. t \in PossibleTargets(s, c, e)
    <3>1. IsCall(g, h, c) /\ e \in DOMAIN g.edges \ DOMAIN c.map BY <1>5, <2>2
    <3> QED BY <1>2, <1>3, <1>8, <2>1, <2>2, <3>1, FollowsOn
  <2>4. d \in NextLevel(s, calls) BY <2>2, <2>3 DEF NextLevel, CallsFrom
  <2>5. /\ IsExtended(d.map, c.map, e, t, Ends(g, e), Ends(h, t)) /\ e \in DOMAIN g.edges
    BY <1>6, <2>2, <2>3
  <2>6. \A i \in DOMAIN Ends(g, e) : Ends(h, t)[i] = m[Ends(g, e)[i]]
    BY <1>8, <2>2, <2>5 DEF IsEmbedding, IsImage
  <2>7. ASSUME NEW x \in DOMAIN d.map PROVE d.map[x] = m[x]
    <3>1. CASE x \in DOMAIN c.map BY <2>1, <2>5, <3>1 DEF IsExtended, Follows
    <3>2. CASE x = e BY <2>2, <2>5, <3>2 DEF IsExtended
    <3>3. CASE x \in Range(Ends(g, e))
      <4>1. PICK i \in DOMAIN Ends(g, e) : x = Ends(g, e)[i] BY <3>3 DEF Range
      <4> QED BY <2>5, <2>6, <4>1 DEF IsExtended
    <3> QED BY <2>5, <3>1, <3>2, <3>3 DEF IsExtended
  <2> QED BY <2>4, <2>7 DEF Follows
<1> QED BY <1>1, <1>3, <1>7, <1>8 DEF AreCalls

\* Whatever is found has all edges mapped, and something is found when there is an embedding.
LEMMA FoundFacts ==
  ASSUME NEW g, IsHypergraph(g), NEW h, IsHypergraph(h), SameArities(g, h)
  PROVE  /\ \A c \in Found(SearchIn(g, h)) : IsCall(g, h, c) /\ DOMAIN g.edges \subseteq DOMAIN c.map
         /\ (\E m : IsEmbedding(m, g, h)) => Found(SearchIn(g, h)) # {}
<1>1. PICK n \in Nat : n = Cardinality(DOMAIN g.edges) /\ IsFiniteSet(DOMAIN g.edges)
  BY FS_CardinalityType DEF IsHypergraph
<1>2. ASSUME NEW m PROVE AreCalls([g |-> g, h |-> h, m |-> m], n, Found(SearchIn(g, h)))
  <2>1. PICK p : p = [g |-> g, h |-> h, m |-> m] OBVIOUS
  <2>2. p.g = g /\ p.h = h /\ p.m = m BY <2>1
  <2>3. PICK list : list = [i \in 1 .. n |-> i] OBVIOUS
  <2>4. Len(list) = n
    <3>1. list \in [1 .. n -> Nat] BY <2>3
    <3> QED BY <3>1, LenOfFunction
  <2>5. AreCalls(p, 0, {FirstCall})
    <3>1. IsCall(g, h, FirstCall) /\ MappedEdges(g, FirstCall) = {} /\ DOMAIN FirstCall.map = {}
      BY FirstCallIsCall
    <3>2. Cardinality({}) = 0 BY FS_EmptySet
    <3> QED BY <2>2, <3>1, <3>2 DEF AreCalls, Follows
  <2>6. ASSUME NEW i \in 1 .. n, NEW calls, AreCalls(p, i - 1, calls)
        PROVE  AreCalls(p, i, CallsAfter(p, calls, list[i]))
    <3>1. i - 1 \in Nat /\ i - 1 < n /\ (i - 1) + 1 = i OBVIOUS
    <3>2. AreCalls(p, (i - 1) + 1, NextLevel(SearchIn(p.g, p.h), calls))
      BY <1>1, <2>2, <2>6, <3>1, NextLevelFacts
    <3> QED BY <3>1, <3>2 DEF CallsAfter
  <2>7. AreCalls(p, n, Levels!Loop(p, {FirstCall}, list))
    <3>1. AreCalls(p, Len(list), Levels!Loop(p, {FirstCall}, list))
      BY <2>4, <2>5, <2>6, Levels!LoopKeepsInvariant
    <3> QED BY <2>4, <3>1
  <2>8. Levels!Loop(p, {FirstCall}, list) = Found(SearchIn(g, h))
    <3> DEFINE s == SearchIn(g, h)
               edges == [i \in 1 .. Cardinality(DOMAIN s.source.edges) |-> i]
    <3>1. edges = list BY <1>1, <2>3 DEF SearchIn
    <3>2. \A f : [i \in 0 .. Len(edges) |-> IF i = 0 THEN {FirstCall} ELSE CallsAfter(p, f[i - 1], edges[i])]
                = [i \in 0 .. Len(edges) |-> IF i = 0 THEN {FirstCall} ELSE NextLevel(s, f[i - 1])]
      BY <2>2 DEF CallsAfter
    <3>3. Levels!Loop(p, {FirstCall}, edges) = Found(s)
      BY <3>2, Zenon DEF Levels!Loop, Found, Level, Folded
    <3> QED BY <3>1, <3>3
  <2> QED BY <2>1, <2>7, <2>8
<1>3. ASSUME NEW c \in Found(SearchIn(g, h))
      PROVE  IsCall(g, h, c) /\ DOMAIN g.edges \subseteq DOMAIN c.map
  <2>1. PICK p : p = [g |-> g, h |-> h, m |-> {}] OBVIOUS
  <2>2. p.g = g /\ p.h = h /\ AreCalls(p, n, Found(SearchIn(g, h))) BY <1>2, <2>1
  <2>3. IsCall(g, h, c) /\ Cardinality(MappedEdges(g, c)) = n BY <2>2 DEF AreCalls
  <2>4. MappedEdges(g, c) \in SUBSET (DOMAIN g.edges) BY DEF MappedEdges
  <2>5. DOMAIN g.edges = MappedEdges(g, c) BY <1>1, <2>3, <2>4, FS_Subset
  <2> QED BY <2>3, <2>5 DEF MappedEdges
<1>4. ASSUME NEW m, IsEmbedding(m, g, h) PROVE Found(SearchIn(g, h)) # {}
  <2>1. PICK p : p = [g |-> g, h |-> h, m |-> m] OBVIOUS
  <2>2. p.g = g /\ p.h = h /\ p.m = m /\ AreCalls(p, n, Found(SearchIn(g, h))) BY <1>2, <2>1
  <2> QED BY <1>4, <2>2 DEF AreCalls
<1> QED BY <1>3, <1>4

\* A set that is no larger than another fits into it.
LEMMA InjectionExists ==
  ASSUME NEW S, IsFiniteSet(S), NEW T, IsFiniteSet(T), Cardinality(S) <= Cardinality(T)
  PROVE  \E f \in [S -> T] : \A x, y \in S : f[x] = f[y] => x = y
<1>1. PICK n \in Nat, k \in Nat : n = Cardinality(S) /\ k = Cardinality(T) /\ n <= k
  BY FS_CardinalityType
<1>2. ExistsBijection(1 .. n, S) /\ ExistsBijection(1 .. k, T) BY <1>1, FS_CardinalityType
<1>3. PICK b, d : b \in Bijection(1 .. n, S) /\ d \in Bijection(1 .. k, T)
  BY <1>2 DEF ExistsBijection
<1>4. /\ \A x \in S : \E i \in 1 .. n : b[i] = x
      /\ \A i \in 1 .. k : d[i] \in T
      /\ \A i, j \in 1 .. k : d[i] = d[j] => i = j
  BY <1>3 DEF Bijection, Injection, Surjection, IsInjective
<1> DEFINE place == [x \in S |-> CHOOSE i \in 1 .. n : b[i] = x]
           f == [x \in S |-> d[place[x]]]
<1>5. \A x \in S : place[x] \in 1 .. n /\ b[place[x]] = x BY <1>4
<1> HIDE DEF place
<1>6. \A x \in S : place[x] \in 1 .. k BY <1>1, <1>5
<1>7. f \in [S -> T] BY <1>4, <1>6
<1>8. \A x, y \in S : f[x] = f[y] => x = y
  <2> SUFFICES ASSUME NEW x \in S, NEW y \in S, d[place[x]] = d[place[y]] PROVE x = y
    OBVIOUS
  <2>1. place[x] = place[y] BY <1>4, <1>6
  <2> QED BY <1>5, <2>1
<1> QED BY <1>7, <1>8

\* With no two elements of g going to the same, there are enough in h.
LEMMA EmbeddingFits ==
  ASSUME NEW S, NEW T, IsFiniteSet(T), NEW m, \A x \in S : m[x] \in T,
         \A x, y \in S : m[x] = m[y] => x = y
  PROVE  IsFiniteSet(S) /\ Cardinality(S) <= Cardinality(T)
<1> DEFINE f == [x \in S |-> m[x]]
<1>1. f \in [S -> T] /\ \A x, y \in S : f[x] = f[y] => x = y OBVIOUS
<1> HIDE DEF f
<1>2. f \in Injection(S, T) BY <1>1 DEF Injection, IsInjective
<1> QED BY <1>2, FS_Injection

\* How many vertices are left on both sides when the edges are mapped.
LEMMA VerticesLeft ==
  ASSUME NEW g, IsHypergraph(g), NEW h, IsHypergraph(h), NEW c, IsCall(g, h, c)
  PROVE  \E touched, taken \in Nat :
           /\ taken <= touched
           /\ Cardinality(IsolatedNodes(SearchIn(g, h), c)) = Cardinality(g.vertices) - touched
           /\ Cardinality(FreeNodes(SearchIn(g, h), c)) = Cardinality(h.vertices) - taken
<1>1. PICK s : s = SearchIn(g, h) OBVIOUS
<1>2. s.source = g /\ s.target = h /\ s.injective BY <1>1 DEF SearchIn
<1>3. PICK S, T : S = g.vertices \cap DOMAIN c.map /\ T = h.vertices \cap Range(c.map) OBVIOUS
<1>4. IsFiniteSet(g.vertices) /\ IsFiniteSet(h.vertices) BY DEF IsHypergraph
<1>5. IsFiniteSet(S) /\ IsFiniteSet(T) BY <1>3, <1>4, FS_Intersection
<1>6. Cardinality(T) <= Cardinality(S)
  <2> DEFINE f == [x \in S |-> c.map[x]]
  <2>1. \A x \in S : c.map[x] \in T BY <1>3 DEF IsCall, MapIsRight, Range
  <2>2. f \in [S -> T] BY <2>1
  <2>3. ASSUME NEW y \in T PROVE \E x \in S : f[x] = y
    <3>1. PICK x \in DOMAIN c.map : c.map[x] = y BY <1>3 DEF Range
    <3>2. x \in g.vertices
      <4> SUFFICES ASSUME x \in DOMAIN g.edges PROVE FALSE
        BY DEF IsCall, MapIsRight, Elements
      <4>1. y \in DOMAIN h.edges BY <3>1 DEF IsCall, MapIsRight, MappedEdges, IsImage
      <4> QED BY <1>3, <4>1 DEF IsHypergraph
    <3> QED BY <1>3, <3>1, <3>2
  <2> HIDE DEF f
  <2>4. f \in Surjection(S, T) BY <2>2, <2>3 DEF Surjection
  <2> QED BY <1>5, <2>4, FS_Surjection
<1>7. IsolatedNodes(s, c) = g.vertices \ DOMAIN c.map BY <1>2 DEF IsolatedNodes
<1>8. FreeNodes(s, c) = h.vertices \ Range(c.map) BY <1>2 DEF FreeNodes
<1>9. Cardinality(g.vertices \ DOMAIN c.map) = Cardinality(g.vertices) - Cardinality(S)
  BY <1>3, <1>4, FS_Difference
<1>10. Cardinality(h.vertices \ Range(c.map)) = Cardinality(h.vertices) - Cardinality(T)
  BY <1>3, <1>4, FS_Difference
<1>11. Cardinality(S) \in Nat /\ Cardinality(T) \in Nat BY <1>5, FS_CardinalityType
<1> QED BY <1>1, <1>6, <1>7, <1>8, <1>9, <1>10, <1>11

\* The subgraph order says yes when there is an embedding,
LEMMA EmbeddingIsFound ==
  ASSUME NEW g, IsHypergraph(g), NEW h, IsHypergraph(h), SameArities(g, h),
         NEW m, IsEmbedding(m, g, h)
  PROVE  FindsInjectiveMatch(SearchIn(g, h))
<1>1. PICK s : s = SearchIn(g, h) OBVIOUS
<1>2. s.source = g /\ s.target = h BY <1>1 DEF SearchIn
<1>3. PICK first : first = CHOOSE c \in Found(s) : TRUE OBVIOUS
<1>4. Found(s) # {} /\ IsCall(g, h, first)
  <2>1. Found(s) # {} /\ \A c \in Found(s) : IsCall(g, h, c) BY <1>1, FoundFacts
  <2> QED BY <1>3, <2>1
<1>5. Cardinality(g.vertices) <= Cardinality(h.vertices)
  <2>1. /\ \A x \in g.vertices : m[x] \in h.vertices
        /\ \A x, y \in g.vertices : m[x] = m[y] => x = y
    BY DEF IsEmbedding, Elements
  <2> QED BY <2>1, EmbeddingFits DEF IsHypergraph
<1>6. Cardinality(DOMAIN g.edges) <= Cardinality(DOMAIN h.edges)
  <2>1. PICK S, T : S = DOMAIN g.edges /\ T = DOMAIN h.edges OBVIOUS
  <2>2. /\ \A x \in S : m[x] \in T
        /\ \A x, y \in S : m[x] = m[y] => x = y
    BY <2>1 DEF IsEmbedding, Elements, IsImage
  <2>3. IsFiniteSet(T) BY <2>1 DEF IsHypergraph
  <2>4. Cardinality(S) <= Cardinality(T) BY <2>2, <2>3, EmbeddingFits
  <2> QED BY <2>1, <2>4
<1>7. /\ Cardinality(g.vertices) \in Nat /\ Cardinality(h.vertices) \in Nat
      /\ Cardinality(DOMAIN g.edges) \in Nat /\ Cardinality(DOMAIN h.edges) \in Nat
  BY FS_CardinalityType DEF IsHypergraph
<1>8. ~ TooLarge(s) BY <1>2, <1>5, <1>6, <1>7 DEF TooLarge
<1>9. Cardinality(IsolatedNodes(s, first)) <= Cardinality(FreeNodes(s, first))
  <2>1. PICK touched, taken \in Nat :
          /\ taken <= touched
          /\ Cardinality(IsolatedNodes(s, first)) = Cardinality(g.vertices) - touched
          /\ Cardinality(FreeNodes(s, first)) = Cardinality(h.vertices) - taken
    BY <1>1, <1>4, VerticesLeft
  <2> QED BY <1>5, <1>7, <2>1
<1> QED BY <1>1, <1>3, <1>4, <1>8, <1>9 DEF FindsInjectiveMatch

\* and when it says yes there is one, unless an edge can be folded onto another.
LEMMA FoundIsEmbedding ==
  ASSUME NEW g, IsHypergraph(g), NEW h, IsHypergraph(h), SameArities(g, h), ~ Foldable(g, h),
         FindsInjectiveMatch(SearchIn(g, h))
  PROVE  \E m : IsEmbedding(m, g, h)
<1>1. PICK s : s = SearchIn(g, h) OBVIOUS
<1>2. s.source = g /\ s.target = h /\ s.injective BY <1>1 DEF SearchIn
<1>3. PICK c : c = CHOOSE d \in Found(s) : TRUE OBVIOUS
<1>4. Found(s) # {} /\ Cardinality(IsolatedNodes(s, c)) <= Cardinality(FreeNodes(s, c))
  BY <1>1, <1>3 DEF FindsInjectiveMatch
<1>5. IsCall(g, h, c) /\ DOMAIN g.edges \subseteq DOMAIN c.map
  <2>1. c \in Found(s) BY <1>3, <1>4
  <2> QED BY <1>1, <2>1, FoundFacts
<1>6. PICK S, T : S = g.vertices \ DOMAIN c.map /\ T = h.vertices \ Range(c.map) OBVIOUS
<1>7. IsFiniteSet(S) /\ IsFiniteSet(T) /\ Cardinality(S) <= Cardinality(T)
  <2>1. IsFiniteSet(S) /\ IsFiniteSet(T) BY <1>6, FS_Difference DEF IsHypergraph
  <2>2. S = IsolatedNodes(s, c) /\ T = FreeNodes(s, c) BY <1>2, <1>6 DEF IsolatedNodes, FreeNodes
  <2> QED BY <1>4, <2>1, <2>2
<1>8. PICK f \in [S -> T] : \A x, y \in S : f[x] = f[y] => x = y BY <1>7, InjectionExists
<1>9. PICK m : m = [x \in Elements(g) |-> IF x \in S THEN f[x] ELSE c.map[x]] OBVIOUS
<1>10. /\ DOMAIN c.map \subseteq Elements(g)
       /\ \A x \in Elements(g) : x \in S \/ x \in DOMAIN c.map
       /\ \A x \in S : x \in g.vertices /\ x \notin DOMAIN c.map /\ m[x] = f[x]
       /\ \A x \in DOMAIN c.map : x \notin S /\ m[x] = c.map[x]
  BY <1>5, <1>6, <1>9 DEF Elements, IsCall, MapIsRight
<1>11. \A x \in S : m[x] \in h.vertices /\ m[x] \notin Range(c.map) BY <1>6, <1>8, <1>10
<1>12. ASSUME NEW v \in g.vertices PROVE m[v] \in h.vertices
  <2>1. CASE v \in S BY <1>11, <2>1
  <2>2. CASE v \notin S BY <1>5, <1>6, <1>10, <2>2 DEF IsCall, MapIsRight
  <2> QED BY <2>1, <2>2
<1>13. ASSUME NEW e \in DOMAIN g.edges PROVE IsImage(g, h, m, e, m[e])
  <2>1. e \in MappedEdges(g, c) /\ m[e] = c.map[e] BY <1>5, <1>10 DEF MappedEdges
  <2>2. IsImage(g, h, c.map, e, c.map[e]) BY <1>5, <2>1 DEF IsCall, MapIsRight
  <2>3. ASSUME NEW i \in DOMAIN Ends(g, e) PROVE m[Ends(g, e)[i]] = c.map[Ends(g, e)[i]]
    <3>1. Ends(g, e)[i] \in Range(Ends(g, e)) BY DEF Range
    <3>2. Ends(g, e)[i] \in DOMAIN c.map BY <1>5, <2>1, <3>1 DEF IsCall, MapIsRight
    <3> QED BY <1>10, <3>2
  <2> QED BY <2>1, <2>2, <2>3 DEF IsImage
<1>14. ASSUME NEW x \in Elements(g), NEW y \in Elements(g), m[x] = m[y] PROVE x = y
  <2>1. ASSUME NEW z \in DOMAIN c.map PROVE m[z] \in Range(c.map) /\ c.rev[m[z]] = z
    BY <1>5, <1>10 DEF Range, IsCall, ReverseFits
  <2>2. CASE x \in S /\ y \in S BY <1>8, <1>10, <1>14, <2>2
  <2>3. CASE x \in DOMAIN c.map /\ y \in DOMAIN c.map
    <3>1. c.rev[m[x]] = x /\ c.rev[m[y]] = y BY <2>1, <2>3
    <3> QED BY <1>14, <3>1
  <2>4. CASE ~ (x \in S /\ y \in S) /\ ~ (x \in DOMAIN c.map /\ y \in DOMAIN c.map)
    BY <1>10, <1>11, <1>14, <2>1, <2>4
  <2> QED BY <2>2, <2>3, <2>4
<1> QED BY <1>12, <1>13, <1>14 DEF IsEmbedding

EnoughOfEach(A, p, B, q) ==
  \A x \in A : Cardinality(OfKind(A, p, p[x])) <= Cardinality(OfKind(B, q, p[x]))

IsKindMatch(b, A, p, B, q) ==
  /\ \A x \in A : b[x] \in B /\ q[b[x]] = p[x]
  /\ \A x, y \in A : b[x] = b[y] => x = y

\* Edges can be mapped kind by kind when there are enough of each kind.
LEMMA KindsFit ==
  ASSUME NEW A, IsFiniteSet(A), NEW B, IsFiniteSet(B), NEW p, NEW q, EnoughOfEach(A, p, B, q)
  PROVE  \E b : IsKindMatch(b, A, p, B, q)
<1> DEFINE IsMatch(k, c) ==
             /\ k \in [OfKind(A, p, c) -> OfKind(B, q, c)]
             /\ \A x, y \in OfKind(A, p, c) : k[x] = k[y] => x = y
           match(c) == CHOOSE k : IsMatch(k, c)
           b == [x \in A |-> match(p[x])[x]]
<1>1. ASSUME NEW x \in A PROVE IsMatch(match(p[x]), p[x])
  <2>1. PICK S, T : S = OfKind(A, p, p[x]) /\ T = OfKind(B, q, p[x]) OBVIOUS
  <2>2. IsFiniteSet(S) /\ IsFiniteSet(T) /\ Cardinality(S) <= Cardinality(T)
    BY <2>1, FS_Subset DEF OfKind, EnoughOfEach
  <2>3. \E k \in [S -> T] : \A y, z \in S : k[y] = k[z] => y = z BY <2>2, InjectionExists
  <2>4. \E k : IsMatch(k, p[x]) BY <2>1, <2>3
  <2> HIDE DEF IsMatch
  <2> QED BY <2>4
<1> HIDE DEF match
<1>2. ASSUME NEW x \in A PROVE b[x] \in B /\ q[b[x]] = p[x]
  <2>1. x \in OfKind(A, p, p[x]) BY DEF OfKind
  <2>2. match(p[x])[x] \in OfKind(B, q, p[x]) BY <1>1, <2>1
  <2> QED BY <2>2 DEF OfKind
<1>3. ASSUME NEW x \in A, NEW y \in A, b[x] = b[y] PROVE x = y
  <2>1. p[x] = p[y] BY <1>2, <1>3
  <2>2. x \in OfKind(A, p, p[x]) /\ y \in OfKind(A, p, p[x]) BY <2>1 DEF OfKind
  <2>3. match(p[x])[x] = match(p[x])[y] BY <1>3, <2>1
  <2> QED BY <1>1, <2>2, <2>3
<1> HIDE DEF b
<1> QED BY <1>2, <1>3 DEF IsKindMatch

\* d is edge e of g as f moves it.
IsMoved(d, f, g, e) ==
  d = [label |-> g.edges[e].label,
       vertices |-> [i \in 1 .. Len(Ends(g, e)) |-> f[Ends(g, e)[i]]]]

\* Moving changes the vertices.
LEMMA MovedFacts ==
  ASSUME NEW g, IsHypergraph(g), NEW f, NEW e \in DOMAIN g.edges
  PROVE  IsMoved(MovedBy(f, g.edges[e]), f, g, e)
<1>1. PICK r \in [label : DOMAIN CharCodes, vertices : Seq(g.vertices)] : r = g.edges[e]
  BY DEF IsHypergraph
<1>2. DOMAIN r.vertices = 1 .. Len(r.vertices) BY LenProperties
<1>3. MovedBy(f, r) = [label |-> r.label, vertices |-> [i \in DOMAIN r.vertices |-> f[r.vertices[i]]]]
  BY DEF MovedBy
<1> QED BY <1>1, <1>2, <1>3 DEF Ends, IsMoved

\* A subgraph has an embedding,
LEMMA SubgraphEmbeds ==
  ASSUME NEW g, IsHypergraph(g), NEW h, IsHypergraph(h), IsSubgraph(g, h)
  PROVE  \E m : IsEmbedding(m, g, h)
<1>1. PICK f \in [g.vertices -> h.vertices] : IsInjective(f) /\ EdgesFit(f, g, h) BY DEF IsSubgraph
<1>2. PICK p : p = [e \in DOMAIN g.edges |-> MovedBy(f, g.edges[e])] OBVIOUS
<1>3. \A e \in DOMAIN g.edges : p[e] = MovedBy(f, g.edges[e]) BY <1>2
<1>4. ASSUME NEW e \in DOMAIN g.edges
      PROVE  Cardinality(OfKind(DOMAIN g.edges, p, p[e]))
               <= Cardinality(OfKind(DOMAIN h.edges, h.edges, p[e]))
  <2>1. /\ OfKind(DOMAIN g.edges, p, p[e])
             = {d \in DOMAIN g.edges : MovedBy(f, g.edges[d]) = MovedBy(f, g.edges[e])}
        /\ OfKind(DOMAIN h.edges, h.edges, p[e])
             = {d \in DOMAIN h.edges : h.edges[d] = MovedBy(f, g.edges[e])}
    BY <1>3 DEF OfKind
  <2> QED BY <1>1, <2>1 DEF EdgesFit
<1>5. PICK b : /\ \A e \in DOMAIN g.edges : b[e] \in DOMAIN h.edges /\ h.edges[b[e]] = p[e]
               /\ \A d, e \in DOMAIN g.edges : b[d] = b[e] => d = e
  <2>1. PICK A, B, q : A = DOMAIN g.edges /\ B = DOMAIN h.edges /\ q = h.edges OBVIOUS
  <2>2. /\ IsFiniteSet(A) /\ IsFiniteSet(B)
        /\ EnoughOfEach(A, p, B, q)
    BY <1>4, <2>1 DEF IsHypergraph, EnoughOfEach
  <2>3. \E b : IsKindMatch(b, A, p, B, q) BY <2>2, KindsFit
  <2> QED BY <2>1, <2>3 DEF IsKindMatch
<1>6. PICK m : m = [x \in Elements(g) |-> IF x \in g.vertices THEN f[x] ELSE b[x]] OBVIOUS
<1>7. /\ \A v \in g.vertices : m[v] = f[v] /\ m[v] \in h.vertices
      /\ \A e \in DOMAIN g.edges : m[e] = b[e] /\ m[e] \in DOMAIN h.edges
  BY <1>5, <1>6 DEF Elements, IsHypergraph
<1>8. ASSUME NEW e \in DOMAIN g.edges PROVE IsImage(g, h, m, e, m[e])
  <2>1. p[e] = [label |-> g.edges[e].label,
                vertices |-> [i \in 1 .. Len(Ends(g, e)) |-> f[Ends(g, e)[i]]]]
    <3>1. IsMoved(MovedBy(f, g.edges[e]), f, g, e) BY MovedFacts
    <3> QED BY <1>3, <3>1 DEF IsMoved
  <2>2. h.edges[m[e]] = p[e] BY <1>5, <1>7
  <2>3. /\ DOMAIN Ends(g, e) = 1 .. Len(Ends(g, e))
        /\ \A i \in DOMAIN Ends(g, e) : Ends(g, e)[i] \in g.vertices
    BY EndsFacts
  <2>4. \A i \in DOMAIN Ends(g, e) : Ends(h, m[e])[i] = f[Ends(g, e)[i]]
    BY <2>1, <2>2, <2>3 DEF Ends
  <2> QED BY <1>7, <2>1, <2>2, <2>3, <2>4 DEF IsImage
<1>9. ASSUME NEW x \in Elements(g), NEW y \in Elements(g), m[x] = m[y] PROVE x = y
  <2>1. h.vertices \cap DOMAIN h.edges = {} BY DEF IsHypergraph
  <2>2. CASE x \in g.vertices /\ y \in g.vertices BY <1>1, <1>7, <1>9, <2>2 DEF IsInjective
  <2>3. CASE x \in DOMAIN g.edges /\ y \in DOMAIN g.edges BY <1>5, <1>7, <1>9, <2>3
  <2> QED BY <1>7, <1>9, <2>1, <2>2, <2>3 DEF Elements
<1> QED BY <1>7, <1>8, <1>9 DEF IsEmbedding

\* and what can be embedded is a subgraph.
LEMMA EmbeddedIsSubgraph ==
  ASSUME NEW g, IsHypergraph(g), NEW h, IsHypergraph(h), SameArities(g, h),
         NEW m, IsEmbedding(m, g, h)
  PROVE  IsSubgraph(g, h)
<1> DEFINE f0 == [v \in g.vertices |-> m[v]]
<1>1. f0 \in [g.vertices -> h.vertices] /\ IsInjective(f0)
  BY DEF IsEmbedding, IsInjective, Elements
<1>2. \A v \in g.vertices : f0[v] = m[v] OBVIOUS
<1> HIDE DEF f0
<1>3. ASSUME NEW d \in DOMAIN g.edges
      PROVE  m[d] \in DOMAIN h.edges /\ h.edges[m[d]] = MovedBy(f0, g.edges[d])
  <2>1. PICK t : t = m[d] OBVIOUS
  <2>2. IsImage(g, h, m, d, t) /\ t \in DOMAIN h.edges BY <2>1 DEF IsEmbedding, IsImage
  <2>3. Len(Ends(g, d)) = Len(Ends(h, t)) BY <2>2 DEF IsImage, SameArities, PathOf, Ends
  <2>4. PICK r \in [label : DOMAIN CharCodes, vertices : Seq(h.vertices)] : r = h.edges[t]
    BY <2>2 DEF IsHypergraph
  <2>5. PICK n : n = Len(Ends(g, d)) OBVIOUS
  <2>6. r.vertices = [i \in 1 .. n |-> r.vertices[i]]
    <3>1. PICK s \in Seq(h.vertices) : s = r.vertices OBVIOUS
    <3>2. Len(s) = n BY <2>3, <2>4, <2>5, <3>1 DEF Ends
    <3>3. s = [i \in 1 .. Len(s) |-> s[i]] BY LenProperties
    <3> QED BY <3>1, <3>2, <3>3
  <2>7. \A i \in 1 .. n : r.vertices[i] = f0[Ends(g, d)[i]]
    <3>1. DOMAIN Ends(g, d) = 1 .. n /\ \A i \in DOMAIN Ends(g, d) : Ends(g, d)[i] \in g.vertices
      BY <2>5, EndsFacts
    <3> QED BY <1>2, <2>2, <2>4, <3>1 DEF IsImage, Ends
  <2>8. r.vertices = [i \in 1 .. n |-> f0[Ends(g, d)[i]]] BY <2>6, <2>7
  <2>9. r = [label |-> r.label, vertices |-> r.vertices] OBVIOUS
  <2>10. r.label = g.edges[d].label BY <2>2, <2>4 DEF IsImage
  <2>11. MovedBy(f0, g.edges[d])
           = [label |-> g.edges[d].label, vertices |-> [i \in 1 .. n |-> f0[Ends(g, d)[i]]]]
    <3>1. IsMoved(MovedBy(f0, g.edges[d]), f0, g, d) BY MovedFacts
    <3> QED BY <2>5, <3>1 DEF IsMoved
  <2>12. r = MovedBy(f0, g.edges[d]) BY <2>8, <2>9, <2>10, <2>11
  <2> QED BY <2>1, <2>2, <2>4, <2>12
<1>4. ASSUME NEW e \in DOMAIN g.edges
      PROVE  Cardinality({d \in DOMAIN g.edges : MovedBy(f0, g.edges[d]) = MovedBy(f0, g.edges[e])})
               <= Cardinality({d \in DOMAIN h.edges : h.edges[d] = MovedBy(f0, g.edges[e])})
  <2>1. PICK S, T : /\ S = {d \in DOMAIN g.edges : MovedBy(f0, g.edges[d]) = MovedBy(f0, g.edges[e])}
                    /\ T = {d \in DOMAIN h.edges : h.edges[d] = MovedBy(f0, g.edges[e])}
    OBVIOUS
  <2>2. IsFiniteSet(T) BY <2>1, FS_Subset DEF IsHypergraph
  <2>3. \A x \in S : m[x] \in T BY <1>3, <2>1
  <2>4. \A x, y \in S : m[x] = m[y] => x = y BY <2>1 DEF IsEmbedding, Elements
  <2>5. Cardinality(S) <= Cardinality(T) BY <2>2, <2>3, <2>4, EmbeddingFits
  <2> QED BY <2>1, <2>5
<1>5. EdgesFit(f0, g, h) BY <1>4 DEF EdgesFit
<1> QED BY <1>1, <1>5 DEF IsSubgraph

\* The subgraph order finds every subgraph, and nothing else as long as no edge can be folded.
LEMMA SubgraphOrderFinds ==
  ASSUME NEW g, IsHypergraph(g), NEW h, IsHypergraph(h), SameArities(g, h)
  PROVE  /\ IsSubgraph(g, h) => IsSubgraphOf(g, h)
         /\ IsSubgraphOf(g, h) => IsSubgraph(g, h) \/ Foldable(g, h)
<1>1. IsSubgraphOf(g, h) <=> FindsInjectiveMatch(SearchIn(g, h)) BY DEF IsSubgraphOf, SearchIn
<1>2. ASSUME IsSubgraph(g, h) PROVE FindsInjectiveMatch(SearchIn(g, h))
  BY <1>2, SubgraphEmbeds, EmbeddingIsFound
<1>3. ASSUME FindsInjectiveMatch(SearchIn(g, h)), ~ Foldable(g, h) PROVE IsSubgraph(g, h)
  BY <1>3, FoundIsEmbedding, EmbeddedIsSubgraph
<1> QED BY <1>1, <1>2, <1>3

-----------------------------------------------------------------------------
(* The loops *)

PairsOf(ms, cs) == (DOMAIN ms) \X (DOMAIN cs)

\* What the inner and the outer loop have been through.
ComparedOf(ms, cs, outer, inner) ==
  {p \in PairsOf(ms, cs) : p[2] < outer \/ (p[2] = outer /\ p[1] < inner)}

HoldsFor(order, ms, cs, p) ==
  IF order = "minor" THEN IsMinorOf(ms[p[1]], cs[p[2]]) ELSE IsSubgraphOf(ms[p[1]], cs[p[2]])

IsRelated(order, ms, cs, p) ==
  IF order = "minor" THEN IsMinor(ms[p[1]], cs[p[2]]) ELSE IsSubgraph(ms[p[1]], cs[p[2]])

Seconds(S) == {p[2] : p \in S}

Compared == ComparedOf(minimalGraphs, checkGraphs, graphToCheck, miniGraph)

Holding == {p \in PairsOf(minimalGraphs, checkGraphs) :
              HoldsFor(parameters.order, minimalGraphs, checkGraphs, p)}

\* Nothing has been counted before the loops.
FreshAtFirst ==
  status \in {"created", "failed"} =>
    /\ represented = {} /\ faststop = FALSE /\ newGraph = TRUE
    /\ graphToCheck = 1 /\ miniGraph = 1
    /\ minimalGraphs = <<>> /\ checkGraphs = <<>>

\* What was reported is what holds among the pairs compared so far.
ReportedSoFar ==
  /\ represented \subseteq Holding
  /\ Holding \cap Compared \subseteq represented
  /\ \/ status = "finished" /\ faststop
     \/ represented \subseteq Compared

CountedSoFar ==
  /\ IsFiniteSet(represented) /\ IsFiniteSet(Seconds(represented))
  /\ count = Cardinality(represented)
  /\ graphCount = Cardinality(Seconds(represented))
  /\ status = "initialized" => (newGraph <=> graphToCheck \notin Seconds(represented))
  /\ newGraph \in BOOLEAN

StopsAtTheFirst ==
  /\ faststop /\ status = "initialized" => represented = {}
  /\ status = "finished" => \/ graphToCheck > Len(checkGraphs)
                            \/ faststop /\ represented # {}

TotalsInv ==
  Loaded /\ FreshAtFirst /\ ReportedSoFar /\ CountedSoFar /\ StopsAtTheFirst

\* The loops start with no pair compared.
LEMMA NothingComparedAtFirst ==
  ASSUME NEW S, NEW ms \in Seq(S), NEW cs \in Seq(S)
  PROVE  ComparedOf(ms, cs, 1, 1) = {}
<1>1. \A p \in PairsOf(ms, cs) : p[1] \in 1 .. Len(ms) /\ p[2] \in 1 .. Len(cs)
  BY LenProperties DEF PairsOf
<1>2. Len(ms) \in Nat /\ Len(cs) \in Nat BY LenProperties
<1>3. \A p \in PairsOf(ms, cs) : ~ (p[2] < 1 \/ (p[2] = 1 /\ p[1] < 1)) BY <1>1, <1>2
<1> QED BY <1>3 DEF ComparedOf

\* A pair holds a place in each list.
LEMMA PairPlaces ==
  ASSUME NEW S, NEW ms \in Seq(S), NEW cs \in Seq(S)
  PROVE  /\ Len(ms) \in Nat /\ Len(cs) \in Nat
         /\ \A p \in PairsOf(ms, cs) : /\ p[1] \in 1 .. Len(ms) /\ p[2] \in 1 .. Len(cs)
                                       /\ p = <<p[1], p[2]>>
<1>1. /\ Len(ms) \in Nat /\ Len(cs) \in Nat
      /\ DOMAIN ms = 1 .. Len(ms) /\ DOMAIN cs = 1 .. Len(cs)
  BY LenProperties
<1> QED BY <1>1 DEF PairsOf

\* The outer loop has not been beyond its graph.
LEMMA ComparedSeconds ==
  ASSUME NEW S, NEW ms \in Seq(S), NEW cs \in Seq(S), NEW outer \in Nat \ {0}, NEW inner
  PROVE  \A p \in ComparedOf(ms, cs, outer, inner) : p[2] <= outer /\ p[2] \in Nat
<1>1. \A p \in PairsOf(ms, cs) : p[2] \in Nat BY PairPlaces
<1> QED BY <1>1 DEF ComparedOf

\* At the end of the outer loop every pair has been compared.
LEMMA AllCompared ==
  ASSUME NEW S, NEW ms \in Seq(S), NEW cs \in Seq(S), NEW outer \in Nat, NEW inner,
         outer > Len(cs)
  PROVE  ComparedOf(ms, cs, outer, inner) = PairsOf(ms, cs)
<1>1. \A p \in PairsOf(ms, cs) : p[2] < outer BY PairPlaces
<1> QED BY <1>1 DEF ComparedOf

\* Going to the next graph compares nothing,
LEMMA NextOuter ==
  ASSUME NEW S, NEW ms \in Seq(S), NEW cs \in Seq(S), NEW outer \in Nat \ {0},
         NEW inner \in Nat \ {0}, inner > Len(ms)
  PROVE  ComparedOf(ms, cs, outer + 1, 1) = ComparedOf(ms, cs, outer, inner)
<1>1. \A p \in PairsOf(ms, cs) :
        (p[2] < outer + 1 \/ (p[2] = outer + 1 /\ p[1] < 1))
          <=> (p[2] < outer \/ (p[2] = outer /\ p[1] < inner))
  BY PairPlaces
<1> QED BY <1>1 DEF ComparedOf

\* and a round of the inner loop compares one pair that was not compared yet.
LEMMA NextInner ==
  ASSUME NEW S, NEW ms \in Seq(S), NEW cs \in Seq(S), NEW outer \in Nat \ {0},
         NEW inner \in Nat \ {0}, outer <= Len(cs), inner <= Len(ms),
         NEW pair, pair = <<inner, outer>>
  PROVE  /\ pair \in PairsOf(ms, cs)
         /\ pair \notin ComparedOf(ms, cs, outer, inner)
         /\ ComparedOf(ms, cs, outer, inner + 1) = ComparedOf(ms, cs, outer, inner) \cup {pair}
<1>1. pair \in PairsOf(ms, cs)
  <2>1. inner \in DOMAIN ms /\ outer \in DOMAIN cs BY LenProperties
  <2> QED BY <2>1 DEF PairsOf
<1>2. pair \notin ComparedOf(ms, cs, outer, inner) BY DEF ComparedOf
<1>3. \A p \in PairsOf(ms, cs) :
        (p[2] < outer \/ (p[2] = outer /\ p[1] < inner + 1))
          <=> ((p[2] < outer \/ (p[2] = outer /\ p[1] < inner)) \/ p = pair)
  <2> SUFFICES ASSUME NEW p \in PairsOf(ms, cs)
               PROVE  (p[2] < outer \/ (p[2] = outer /\ p[1] < inner + 1))
                        <=> ((p[2] < outer \/ (p[2] = outer /\ p[1] < inner)) \/ p = pair)
    OBVIOUS
  <2>1. PICK i, j : i = p[1] /\ j = p[2] OBVIOUS
  <2>2. i \in Nat /\ j \in Nat /\ p = <<i, j>> BY <2>1, PairPlaces
  <2>3. p = pair <=> i = inner /\ j = outer BY <2>2
  <2> QED BY <2>1, <2>2, <2>3
<1>4. ComparedOf(ms, cs, outer, inner + 1) = ComparedOf(ms, cs, outer, inner) \cup {pair}
  BY <1>1, <1>3 DEF ComparedOf
<1> QED BY <1>1, <1>2, <1>4

\* The invariant of the loops holds at first.
LEMMA TotalsInitially == Init => TotalsInv
<1> SUFFICES ASSUME Init PROVE TotalsInv
  OBVIOUS
<1>1. Loaded BY LoadedInitially
<1>2. FreshAtFirst BY DEF Init, FreshAtFirst
<1>3. represented = {} /\ Seconds({}) = {} BY DEF Init, Seconds
<1>4. Compared = {}
  <2>1. PICK ms, cs : ms = minimalGraphs /\ cs = checkGraphs OBVIOUS
  <2>2. ms \in Seq(AllGraphs) /\ cs \in Seq(AllGraphs) BY <1>1, <2>1 DEF Loaded
  <2>3. ComparedOf(ms, cs, 1, 1) = {} BY <2>2, NothingComparedAtFirst
  <2> QED BY <2>1, <2>3 DEF Compared, Init
<1>5. ReportedSoFar BY <1>3, <1>4 DEF ReportedSoFar
<1>6. CountedSoFar BY <1>3, FS_EmptySet DEF CountedSoFar, Init
<1>7. StopsAtTheFirst BY DEF StopsAtTheFirst, Init
<1> QED BY <1>1, <1>2, <1>5, <1>6, <1>7 DEF TotalsInv

\* Initialization keeps it,
LEMMA InitializeKeepsTotals == TotalsInv /\ Loaded' /\ Initialize => TotalsInv'
<1> SUFFICES ASSUME TotalsInv, Loaded', Initialize PROVE TotalsInv'
  OBVIOUS
<1>1. /\ represented = {} /\ faststop = FALSE /\ newGraph = TRUE
      /\ graphToCheck = 1 /\ miniGraph = 1
      /\ minimalGraphs = <<>> /\ checkGraphs = <<>>
  BY DEF TotalsInv, FreshAtFirst, Initialize
<1>2. /\ represented' = {} /\ newGraph' = TRUE /\ graphToCheck' = 1 /\ miniGraph' = 1
      /\ count' = count /\ graphCount' = graphCount /\ status' \in {"failed", "initialized"}
  BY <1>1 DEF Initialize
<1>3. status' = "failed" => /\ faststop' = FALSE /\ minimalGraphs' = <<>> /\ checkGraphs' = <<>>
  BY <1>1 DEF Initialize
<1>4. FreshAtFirst' BY <1>2, <1>3 DEF FreshAtFirst
<1>5. Compared' = {}
  <2>1. PICK ms, cs : ms = minimalGraphs' /\ cs = checkGraphs' OBVIOUS
  <2>2. ms \in Seq(AllGraphs) /\ cs \in Seq(AllGraphs) BY <2>1 DEF Loaded
  <2>3. ComparedOf(ms, cs, 1, 1) = {} BY <2>2, NothingComparedAtFirst
  <2> QED BY <1>2, <2>1, <2>3 DEF Compared
<1>6. ReportedSoFar' BY <1>2, <1>5 DEF ReportedSoFar
<1>7. Seconds({}) = {} BY DEF Seconds
<1>8. CountedSoFar' BY <1>1, <1>2, <1>7 DEF CountedSoFar, TotalsInv
<1>9. StopsAtTheFirst' BY <1>2 DEF StopsAtTheFirst
<1> QED BY <1>4, <1>6, <1>8, <1>9 DEF TotalsInv

\* The pair that is compared is a new one.
LEMMA PairFacts ==
  ASSUME Loaded, HasPair
  PROVE  /\ <<miniGraph, graphToCheck>> \in PairsOf(minimalGraphs, checkGraphs)
         /\ <<miniGraph, graphToCheck>> \notin Compared
         /\ ComparedOf(minimalGraphs, checkGraphs, graphToCheck, miniGraph + 1)
              = Compared \cup {<<miniGraph, graphToCheck>>}
         /\ <<miniGraph, graphToCheck>> \in Holding <=> IsLessOrEq(Smaller, Bigger)
<1>1. PICK ms, cs, outer, inner : /\ ms = minimalGraphs /\ cs = checkGraphs
                                  /\ outer = graphToCheck /\ inner = miniGraph
  OBVIOUS
<1>2. /\ ms \in Seq(AllGraphs) /\ cs \in Seq(AllGraphs)
      /\ outer \in Nat \ {0} /\ inner \in Nat \ {0} /\ outer <= Len(cs) /\ inner <= Len(ms)
  BY <1>1 DEF Loaded, HasPair
<1>3. PICK pair : pair = <<inner, outer>> OBVIOUS
<1>4. /\ pair \in PairsOf(ms, cs) /\ pair \notin ComparedOf(ms, cs, outer, inner)
      /\ ComparedOf(ms, cs, outer, inner + 1) = ComparedOf(ms, cs, outer, inner) \cup {pair}
  BY <1>2, <1>3, NextInner
<1>5. HoldsFor(parameters.order, ms, cs, pair) <=> IsLessOrEq(Smaller, Bigger)
  BY <1>1, <1>3 DEF HoldsFor, IsLessOrEq, Smaller, Bigger
<1> QED BY <1>1, <1>3, <1>4, <1>5 DEF Compared, Holding

\* a round of the inner loop keeps it,
LEMMA ComparePairKeepsTotals == TotalsInv /\ Loaded' /\ ComparePair => TotalsInv'
<1> SUFFICES ASSUME TotalsInv, Loaded', ComparePair PROVE TotalsInv'
  OBVIOUS
<1>1. /\ Loaded /\ HasPair /\ status = "initialized"
      /\ parameters' = parameters /\ faststop' = faststop /\ graphToCheck' = graphToCheck
      /\ minimalGraphs' = minimalGraphs /\ checkGraphs' = checkGraphs
  BY DEF TotalsInv, ComparePair
<1>2. PICK pair : pair = <<miniGraph, graphToCheck>> OBVIOUS
<1>3. /\ pair \notin Compared /\ pair[2] = graphToCheck
      /\ ComparedOf(minimalGraphs, checkGraphs, graphToCheck, miniGraph + 1) = Compared \cup {pair}
      /\ pair \in Holding <=> IsLessOrEq(Smaller, Bigger)
  BY <1>1, <1>2, PairFacts
<1>4. Holding' = Holding BY <1>1 DEF Holding
<1>5. represented \subseteq Holding /\ Holding \cap Compared \subseteq represented
      /\ represented \subseteq Compared
  BY <1>1 DEF TotalsInv, ReportedSoFar
<1>6. /\ IsFiniteSet(represented) /\ IsFiniteSet(Seconds(represented))
      /\ count = Cardinality(represented)
      /\ graphCount = Cardinality(Seconds(represented))
      /\ newGraph <=> graphToCheck \notin Seconds(represented)
      /\ newGraph \in BOOLEAN
  BY <1>1 DEF TotalsInv, CountedSoFar
<1>7. CASE IsLessOrEq(Smaller, Bigger)
  <2>1. /\ count' = count + 1
        /\ graphCount' = IF newGraph THEN graphCount + 1 ELSE graphCount
        /\ newGraph' = FALSE
        /\ represented' = represented \cup {pair}
        /\ IF faststop THEN status' = "finished" /\ miniGraph' = miniGraph
           ELSE miniGraph' = miniGraph + 1 /\ status' = status
    BY <1>2, <1>7 DEF ComparePair
  <2>2. pair \in Holding /\ pair \notin represented BY <1>3, <1>5, <1>7
  <2>3. PICK seconds : seconds = Seconds(represented) OBVIOUS
  <2>4. Seconds(represented') = seconds \cup {graphToCheck} BY <1>3, <2>1, <2>3 DEF Seconds
  <2>5. CountedSoFar'
    <3>1. /\ IsFiniteSet(represented \cup {pair})
          /\ Cardinality(represented \cup {pair}) = Cardinality(represented) + 1
      BY <1>6, <2>2, FS_AddElement
    <3>2. /\ IsFiniteSet(seconds \cup {graphToCheck})
          /\ Cardinality(seconds \cup {graphToCheck})
               = IF graphToCheck \in seconds THEN Cardinality(seconds) ELSE Cardinality(seconds) + 1
      BY <1>6, <2>3, FS_AddElement
    <3>3. graphCount' = Cardinality(seconds \cup {graphToCheck}) BY <1>6, <2>1, <2>3, <3>2
    <3>4. count' = Cardinality(represented') /\ IsFiniteSet(represented') BY <1>6, <2>1, <3>1
    <3>5. graphToCheck' \in Seconds(represented') BY <1>1, <2>4
    <3> QED BY <2>1, <2>4, <3>2, <3>3, <3>4, <3>5 DEF CountedSoFar
  <2>6. ReportedSoFar'
    <3>1. CASE faststop
      <4>1. Compared' = Compared BY <1>1, <2>1, <3>1 DEF Compared
      <4>2. status' = "finished" /\ faststop' BY <1>1, <2>1, <3>1
      <4> QED BY <1>4, <1>5, <2>1, <2>2, <4>1, <4>2 DEF ReportedSoFar
    <3>2. CASE ~ faststop
      <4>1. Compared' = Compared \cup {pair} BY <1>1, <1>3, <2>1, <3>2 DEF Compared
      <4> QED BY <1>4, <1>5, <2>1, <2>2, <4>1 DEF ReportedSoFar
    <3> QED BY <3>1, <3>2
  <2>7. FreshAtFirst' BY <1>1, <2>1 DEF FreshAtFirst
  <2>8. StopsAtTheFirst'
    <3>1. represented' # {} BY <2>1
    <3>2. CASE faststop BY <1>1, <2>1, <3>1, <3>2 DEF StopsAtTheFirst
    <3>3. CASE ~ faststop BY <1>1, <2>1, <3>3 DEF StopsAtTheFirst
    <3> QED BY <3>2, <3>3
  <2> QED BY <2>5, <2>6, <2>7, <2>8 DEF TotalsInv
<1>8. CASE ~ IsLessOrEq(Smaller, Bigger)
  <2>1. /\ miniGraph' = miniGraph + 1 /\ status' = status /\ count' = count
        /\ graphCount' = graphCount /\ newGraph' = newGraph /\ represented' = represented
    BY <1>8 DEF ComparePair
  <2>2. Compared' = Compared \cup {pair} BY <1>1, <1>3, <2>1 DEF Compared
  <2>3. ReportedSoFar' BY <1>3, <1>4, <1>5, <1>8, <2>1, <2>2 DEF ReportedSoFar
  <2>4. CountedSoFar' BY <1>1, <1>6, <2>1 DEF CountedSoFar
  <2>5. FreshAtFirst' BY <1>1, <2>1 DEF FreshAtFirst
  <2>6. StopsAtTheFirst' BY <1>1, <2>1 DEF StopsAtTheFirst, TotalsInv
  <2> QED BY <2>3, <2>4, <2>5, <2>6 DEF TotalsInv
<1> QED BY <1>7, <1>8

\* and so does a round of the outer loop.
LEMMA NextGraphKeepsTotals == TotalsInv /\ Loaded' /\ NextGraphToCheck => TotalsInv'
<1> SUFFICES ASSUME TotalsInv, Loaded', NextGraphToCheck PROVE TotalsInv'
  OBVIOUS
<1>1. /\ Loaded /\ status = "initialized" /\ status' = status /\ miniGraph > Len(minimalGraphs)
      /\ parameters' = parameters /\ faststop' = faststop
      /\ minimalGraphs' = minimalGraphs /\ checkGraphs' = checkGraphs
      /\ graphToCheck' = graphToCheck + 1 /\ miniGraph' = 1 /\ newGraph' = TRUE
      /\ count' = count /\ graphCount' = graphCount /\ represented' = represented
  BY DEF TotalsInv, NextGraphToCheck
<1>2. /\ Compared' = Compared
      /\ \A p \in Compared : p[2] <= graphToCheck /\ p[2] \in Nat
  <2>1. PICK ms, cs, outer, inner : /\ ms = minimalGraphs /\ cs = checkGraphs
                                    /\ outer = graphToCheck /\ inner = miniGraph
    OBVIOUS
  <2>2. /\ ms \in Seq(AllGraphs) /\ cs \in Seq(AllGraphs)
        /\ outer \in Nat \ {0} /\ inner \in Nat \ {0} /\ inner > Len(ms)
    BY <1>1, <2>1 DEF Loaded
  <2>3. ComparedOf(ms, cs, outer + 1, 1) = ComparedOf(ms, cs, outer, inner)
    BY <2>2, NextOuter
  <2>4. \A p \in ComparedOf(ms, cs, outer, inner) : p[2] <= outer /\ p[2] \in Nat
    BY <2>2, ComparedSeconds
  <2> QED BY <1>1, <2>1, <2>3, <2>4 DEF Compared
<1>3. Holding' = Holding BY <1>1 DEF Holding
<1>4. represented \subseteq Compared BY <1>1 DEF TotalsInv, ReportedSoFar
<1>5. ReportedSoFar' BY <1>1, <1>2, <1>3 DEF TotalsInv, ReportedSoFar
<1>6. CountedSoFar'
  <2>1. graphToCheck + 1 \notin Seconds(represented)
    <3> SUFFICES ASSUME NEW p \in represented, p[2] = graphToCheck + 1 PROVE FALSE
      BY DEF Seconds
    <3>1. p[2] <= graphToCheck /\ p[2] \in Nat /\ graphToCheck \in Nat
      BY <1>1, <1>2, <1>4 DEF Loaded
    <3> QED BY <3>1
  <2> QED BY <1>1, <2>1 DEF TotalsInv, CountedSoFar
<1>7. FreshAtFirst' BY <1>1 DEF FreshAtFirst
<1>8. StopsAtTheFirst' BY <1>1 DEF TotalsInv, StopsAtTheFirst
<1> QED BY <1>5, <1>6, <1>7, <1>8 DEF TotalsInv

\* Every step keeps the invariant of the loops.
LEMMA TotalsStep == TotalsInv /\ [Next]_vars => TotalsInv'
<1> SUFFICES ASSUME TotalsInv, [Next]_vars PROVE TotalsInv'
  OBVIOUS
<1>0. Loaded' BY LoadedStep DEF TotalsInv
<1>1. CASE Initialize BY <1>0, <1>1, InitializeKeepsTotals
<1>2. CASE ComparePair BY <1>0, <1>2, ComparePairKeepsTotals
<1>3. CASE NextGraphToCheck BY <1>0, <1>3, NextGraphKeepsTotals
<1>4. CASE PrintTotals
  <2>1. /\ status = "initialized" /\ status' = "finished" /\ graphToCheck > Len(checkGraphs)
        /\ UNCHANGED <<parameters, faststop, minimalGraphs, checkGraphs, graphToCheck, miniGraph,
                       newGraph, count, graphCount, represented>>
    BY <1>4 DEF PrintTotals
  <2>2. Compared' = Compared /\ Holding' = Holding BY <2>1 DEF Compared, Holding
  <2>3. ReportedSoFar' BY <2>1, <2>2 DEF TotalsInv, ReportedSoFar
  <2>4. CountedSoFar' BY <2>1 DEF TotalsInv, CountedSoFar
  <2>5. FreshAtFirst' BY <2>1 DEF FreshAtFirst
  <2>6. StopsAtTheFirst' BY <2>1 DEF StopsAtTheFirst
  <2> QED BY <1>0, <2>3, <2>4, <2>5, <2>6 DEF TotalsInv
<1>5. CASE UNCHANGED vars
  <2>1. Compared' = Compared /\ Holding' = Holding BY <1>5 DEF vars, Compared, Holding
  <2>2. ReportedSoFar' BY <1>5, <2>1 DEF vars, TotalsInv, ReportedSoFar
  <2>3. CountedSoFar' BY <1>5 DEF vars, TotalsInv, CountedSoFar
  <2>4. FreshAtFirst' BY <1>5 DEF vars, TotalsInv, FreshAtFirst
  <2>5. StopsAtTheFirst' BY <1>5 DEF vars, TotalsInv, StopsAtTheFirst
  <2> QED BY <1>0, <2>2, <2>3, <2>4, <2>5 DEF TotalsInv
<1> QED BY <1>1, <1>2, <1>3, <1>4, <1>5 DEF Next

\* The totals of the order that was computed: all pairs it holds for, unless the scenario stops
\* at the first.
ComputedTotals ==
  status = "finished" =>
    IF faststop THEN (Holding = {} <=> represented = {}) /\ represented \subseteq Holding
    ELSE /\ represented = Holding
         /\ count = Cardinality(Holding)
         /\ graphCount = Cardinality(Seconds(Holding))

\* Behind the last graph everything was compared.
LEMMA EverythingComparedAtTheEnd ==
  TotalsInv /\ graphToCheck > Len(checkGraphs) =>
    Compared = PairsOf(minimalGraphs, checkGraphs) /\ represented = Holding
<1> SUFFICES ASSUME TotalsInv, graphToCheck > Len(checkGraphs)
             PROVE  Compared = PairsOf(minimalGraphs, checkGraphs) /\ represented = Holding
  OBVIOUS
<1>1. Compared = PairsOf(minimalGraphs, checkGraphs)
  <2>1. PICK ms, cs, outer, inner : /\ ms = minimalGraphs /\ cs = checkGraphs
                                    /\ outer = graphToCheck /\ inner = miniGraph
    OBVIOUS
  <2>2. /\ ms \in Seq(AllGraphs) /\ cs \in Seq(AllGraphs) /\ outer \in Nat /\ outer > Len(cs)
    BY <2>1 DEF TotalsInv, Loaded
  <2>3. ComparedOf(ms, cs, outer, inner) = PairsOf(ms, cs) BY <2>2, AllCompared
  <2> QED BY <2>1, <2>3 DEF Compared
<1>2. Holding \subseteq Compared BY <1>1 DEF Holding
<1> QED BY <1>1, <1>2 DEF TotalsInv, ReportedSoFar

\* The invariant of the loops gives the totals.
LEMMA TotalsAtTheEnd == TotalsInv => ComputedTotals
<1> SUFFICES ASSUME TotalsInv, status = "finished" PROVE ComputedTotals
  BY DEF ComputedTotals
<1>1. represented \subseteq Holding /\ count = Cardinality(represented)
      /\ graphCount = Cardinality(Seconds(represented))
  BY DEF TotalsInv, ReportedSoFar, CountedSoFar
<1>2. CASE graphToCheck > Len(checkGraphs)
  <2>1. represented = Holding BY <1>2, EverythingComparedAtTheEnd
  <2> QED BY <1>1, <2>1 DEF ComputedTotals
<1>3. CASE ~ (graphToCheck > Len(checkGraphs))
  <2>1. faststop /\ represented # {} BY <1>3 DEF TotalsInv, StopsAtTheFirst
  <2> QED BY <1>1, <2>1 DEF ComputedTotals
<1> QED BY <1>2, <1>3

\* The invariant of the loops: what was reported is what the order holds for among the pairs
\* compared so far, and it was counted once (LEQCheckScenario::run).
THEOREM TotalsInvAlways == Spec => []TotalsInv
BY TotalsInitially, TotalsStep, PTL DEF Spec

\* Whatever the order answers, the two loops report and count every pair it holds for exactly
\* once, and with faststop they stop at the first (LEQCheckScenario::run).
THEOREM TotalsOfTheComputedOrder == Spec => []ComputedTotals
BY TotalsInvAlways, TotalsAtTheEnd, PTL

\* What was accepted when the loops are entered.
Accepted ==
  status \in {"initialized", "finished"} =>
    /\ parameters.order \in {"minor", "subgraph"}
    /\ faststop <=> parameters.faststop \in {"true", "false"}

\* Only initialization decides about it (LEQCheckScenario::initialize).
LEMMA AcceptedAlways == Spec => []Accepted
<1>1. Init => Accepted BY DEF Init, Accepted
<1>2. Accepted /\ [Next]_vars => Accepted'
  <2> SUFFICES ASSUME Accepted, [Next]_vars PROVE Accepted'
    OBVIOUS
  <2>1. CASE Initialize BY <2>1 DEF Accepted, Initialize, InitialisationFails
  <2>2. CASE ComparePair
    <3>1. status = "initialized" /\ parameters' = parameters /\ faststop' = faststop
      BY <2>2 DEF ComparePair
    <3> QED BY <3>1 DEF Accepted
  <2>3. CASE NextGraphToCheck \/ PrintTotals BY <2>3 DEF Accepted, NextGraphToCheck, PrintTotals
  <2>4. CASE UNCHANGED vars BY <2>4 DEF Accepted, vars
  <2> QED BY <2>1, <2>2, <2>3, <2>4 DEF Next
<1> QED BY <1>1, <1>2, PTL DEF Spec

\* The computed order of minors is right, as far as it was evaluated.
ExactSoFar ==
  parameters.order = "minor" =>
    \A p \in Compared \cup represented :
      HoldsFor(parameters.order, minimalGraphs, checkGraphs, p)
        <=> IsRelated(parameters.order, minimalGraphs, checkGraphs, p)

\* The related pairs are found among those the loops go through.
LEMMA RelatedPairs ==
  Related = {p \in PairsOf(minimalGraphs, checkGraphs) :
               IsRelated(parameters.order, minimalGraphs, checkGraphs, p)}
BY DEF Related, PairsSuchThat, PairsOf, IsRelated

\* And so are those that may be folded.
LEMMA FoldedPairs ==
  MayBeFolded = {p \in PairsOf(minimalGraphs, checkGraphs) :
                   MayFold(minimalGraphs[p[1]], checkGraphs[p[2]])}
BY DEF MayBeFolded, PairsSuchThat, PairsOf

\* Exactness so far holds at first,
LEMMA ExactSoFarInitially == Init => ExactSoFar
<1> SUFFICES ASSUME Init PROVE ExactSoFar
  OBVIOUS
<1>1. TotalsInv BY TotalsInitially
<1>2. represented = {} /\ graphToCheck = 1 /\ miniGraph = 1 BY DEF Init
<1>3. Compared = {}
  <2>1. PICK ms, cs : ms = minimalGraphs /\ cs = checkGraphs OBVIOUS
  <2>2. ms \in Seq(AllGraphs) /\ cs \in Seq(AllGraphs) BY <1>1, <2>1 DEF TotalsInv, Loaded
  <2>3. ComparedOf(ms, cs, 1, 1) = {} BY <2>2, NothingComparedAtFirst
  <2> QED BY <1>2, <2>1, <2>3 DEF Compared
<1> QED BY <1>2, <1>3 DEF ExactSoFar

\* and a step keeps it when the minor order is right about the pair it is asked about.
LEMMA ExactSoFarStep ==
  TotalsInv /\ MinorOrderIsExact /\ ExactSoFar /\ [Next]_vars => ExactSoFar'
<1> SUFFICES ASSUME TotalsInv, MinorOrderIsExact, ExactSoFar, [Next]_vars PROVE ExactSoFar'
  OBVIOUS
<1>0. Loaded /\ Loaded' BY LoadedStep DEF TotalsInv
<1>1. CASE Initialize
  <2>1. /\ represented' = {} /\ graphToCheck' = 1 /\ miniGraph' = 1
    BY <1>1 DEF TotalsInv, FreshAtFirst, Initialize
  <2>2. Compared' = {}
    <3>1. PICK ms, cs : ms = minimalGraphs' /\ cs = checkGraphs' OBVIOUS
    <3>2. ms \in Seq(AllGraphs) /\ cs \in Seq(AllGraphs) BY <1>0, <3>1 DEF Loaded
    <3>3. ComparedOf(ms, cs, 1, 1) = {} BY <3>2, NothingComparedAtFirst
    <3> QED BY <2>1, <3>1, <3>3 DEF Compared
  <2> QED BY <2>1, <2>2 DEF ExactSoFar
<1>2. CASE ComparePair
  <2>1. /\ HasPair /\ status = "initialized"
        /\ parameters' = parameters /\ graphToCheck' = graphToCheck
        /\ minimalGraphs' = minimalGraphs /\ checkGraphs' = checkGraphs
    BY <1>2 DEF ComparePair
  <2>2. PICK pair : pair = <<miniGraph, graphToCheck>> OBVIOUS
  <2>3. ComparedOf(minimalGraphs, checkGraphs, graphToCheck, miniGraph + 1) = Compared \cup {pair}
    BY <1>0, <2>1, <2>2, PairFacts
  <2>4. miniGraph' = miniGraph \/ miniGraph' = miniGraph + 1 BY <1>2 DEF ComparePair
  <2>5. Compared' \subseteq Compared \cup {pair} BY <2>1, <2>3, <2>4 DEF Compared
  <2>6. represented' \subseteq represented \cup {pair} BY <1>2, <2>2 DEF ComparePair
  <2>7. SUFFICES ASSUME parameters.order = "minor", NEW p \in Compared' \cup represented'
                 PROVE  HoldsFor(parameters.order, minimalGraphs, checkGraphs, p)
                          <=> IsRelated(parameters.order, minimalGraphs, checkGraphs, p)
    BY <2>1 DEF ExactSoFar
  <2>8. HoldsFor(parameters.order, minimalGraphs, checkGraphs, pair)
          <=> IsRelated(parameters.order, minimalGraphs, checkGraphs, pair)
    BY <2>1, <2>2, <2>7 DEF MinorOrderIsExact, HoldsFor, IsRelated, Smaller, Bigger
  <2>9. p \in Compared \cup represented \/ p = pair BY <2>5, <2>6, <2>7
  <2> QED BY <2>7, <2>8, <2>9 DEF ExactSoFar
<1>3. CASE NextGraphToCheck
  <2>1. /\ miniGraph > Len(minimalGraphs) /\ parameters' = parameters
        /\ minimalGraphs' = minimalGraphs /\ checkGraphs' = checkGraphs
        /\ graphToCheck' = graphToCheck + 1 /\ miniGraph' = 1 /\ represented' = represented
    BY <1>3 DEF NextGraphToCheck
  <2>2. Compared' = Compared
    <3>1. PICK ms, cs, outer, inner : /\ ms = minimalGraphs /\ cs = checkGraphs
                                      /\ outer = graphToCheck /\ inner = miniGraph
      OBVIOUS
    <3>2. /\ ms \in Seq(AllGraphs) /\ cs \in Seq(AllGraphs)
          /\ outer \in Nat \ {0} /\ inner \in Nat \ {0} /\ inner > Len(ms)
      BY <1>0, <2>1, <3>1 DEF Loaded
    <3>3. ComparedOf(ms, cs, outer + 1, 1) = ComparedOf(ms, cs, outer, inner) BY <3>2, NextOuter
    <3> QED BY <2>1, <3>1, <3>3 DEF Compared
  <2> QED BY <2>1, <2>2 DEF ExactSoFar
<1>4. CASE PrintTotals \/ UNCHANGED vars
  <2>1. UNCHANGED <<parameters, minimalGraphs, checkGraphs, graphToCheck, miniGraph, represented>>
    BY <1>4 DEF PrintTotals, vars
  <2>2. Compared' = Compared BY <2>1 DEF Compared
  <2> QED BY <2>1, <2>2 DEF ExactSoFar
<1> QED BY <1>1, <1>2, <1>3, <1>4 DEF Next

\* What is reported is related or may be folded, and what is related and was compared holds.
LEMMA OrderIsRight ==
  ASSUME TotalsInv, Accepted, ExactSoFar, status = "finished"
  PROVE  /\ represented \subseteq Related \cup MayBeFolded
         /\ Related \cap Compared \subseteq Holding
<1>1. PICK ms, cs, order : ms = minimalGraphs /\ cs = checkGraphs /\ order = parameters.order OBVIOUS
<1>2. ms \in Seq(AllGraphs) /\ cs \in Seq(AllGraphs) BY <1>1 DEF TotalsInv, Loaded
<1>3. represented \subseteq Holding BY DEF TotalsInv, ReportedSoFar
<1>4. /\ Holding = {p \in PairsOf(ms, cs) : HoldsFor(order, ms, cs, p)}
      /\ Related = {p \in PairsOf(ms, cs) : IsRelated(order, ms, cs, p)}
      /\ MayBeFolded = {p \in PairsOf(ms, cs) : MayFold(ms[p[1]], cs[p[2]])}
  BY <1>1, RelatedPairs, FoldedPairs DEF Holding
<1>5. CASE order = "minor"
  <2>1. \A p \in Compared \cup represented : HoldsFor(order, ms, cs, p) <=> IsRelated(order, ms, cs, p)
    BY <1>1, <1>5 DEF ExactSoFar
  <2> QED BY <1>3, <1>4, <2>1
<1>6. CASE order # "minor"
  <2>1. order = "subgraph" BY <1>1, <1>6 DEF Accepted
  <2>2. ASSUME NEW p \in PairsOf(ms, cs)
        PROVE  /\ IsRelated(order, ms, cs, p) => HoldsFor(order, ms, cs, p)
               /\ HoldsFor(order, ms, cs, p) => IsRelated(order, ms, cs, p) \/ MayFold(ms[p[1]], cs[p[2]])
    <3>1. PICK g, h : g = ms[p[1]] /\ h = cs[p[2]] OBVIOUS
    <3>2. g \in AllGraphs /\ h \in AllGraphs
      <4>1. p[1] \in 1 .. Len(ms) /\ p[2] \in 1 .. Len(cs) BY <1>2, PairPlaces
      <4> QED BY <1>2, <3>1, <4>1
    <3>3. IsHypergraph(g) /\ IsHypergraph(h) /\ SameArities(g, h) BY <3>2, LoadedGraphs
    <3>4. /\ IsSubgraph(g, h) => IsSubgraphOf(g, h)
          /\ IsSubgraphOf(g, h) => IsSubgraph(g, h) \/ Foldable(g, h)
      BY <3>3, SubgraphOrderFinds
    <3>5. Foldable(g, h) => MayFold(g, h) BY <1>1, <2>1 DEF Foldable, MayFold
    <3> QED BY <2>1, <3>1, <3>4, <3>5 DEF IsRelated, HoldsFor
  <2> QED BY <1>3, <1>4, <2>2
<1> QED BY <1>5, <1>6

\* So the totals are those of the related pairs.
LEMMA ExactTotals == TotalsInv /\ Accepted /\ ExactSoFar => TotalsAreRight
<1> SUFFICES ASSUME TotalsInv, Accepted, ExactSoFar, status = "finished" PROVE TotalsAreRight
  BY DEF TotalsAreRight
<1>1. ComputedTotals BY TotalsAtTheEnd
<1>2. represented \subseteq Related \cup MayBeFolded /\ Related \cap Compared \subseteq Holding
  BY OrderIsRight
<1>3. faststop <=> parameters.faststop = "true" \/ StopsUnasked BY DEF Accepted, StopsUnasked
<1>4. CASE graphToCheck > Len(checkGraphs)
  <2>1. Compared = PairsOf(minimalGraphs, checkGraphs) /\ represented = Holding
    BY <1>4, EverythingComparedAtTheEnd
  <2>2. Related \subseteq represented BY <1>2, <2>1, RelatedPairs
  <2>3. ~ faststop => /\ count = Cardinality(represented)
                      /\ graphCount = Cardinality({p[2] : p \in represented})
    BY <1>1, <2>1 DEF ComputedTotals, Seconds
  <2> QED BY <1>2, <1>3, <2>2, <2>3 DEF TotalsAreRight
<1>5. CASE ~ (graphToCheck > Len(checkGraphs))
  <2>1. faststop /\ represented # {} BY <1>5 DEF TotalsInv, StopsAtTheFirst
  <2> QED BY <1>2, <1>3, <2>1 DEF TotalsAreRight
<1> QED BY <1>4, <1>5

\* When the minor order answers right at every pair it is asked about, the totals of the
\* scenario are those of all related pairs and of the pairs that the match finder folds; the
\* subgraph order needs no such hypothesis (LEQCheckScenario::run).
THEOREM TotalsAreRightAlways == Spec /\ []MinorOrderIsExact => []TotalsAreRight
<1>1. Init => TotalsInv /\ ExactSoFar BY TotalsInitially, ExactSoFarInitially
<1>2. TotalsInv /\ MinorOrderIsExact /\ ExactSoFar /\ [Next]_vars => TotalsInv' /\ ExactSoFar'
  BY TotalsStep, ExactSoFarStep
<1> QED BY <1>1, <1>2, AcceptedAlways, ExactTotals, PTL DEF Spec

\* Whatever the files hold, the subgraph order reports every pair of a graph and a subgraph of
\* it, and a pair that is none only if an edge of it can be folded onto another: the match finder
\* works edge by edge on structures it takes back, and finds an embedding whenever there is one
\* (LEQCheckScenario::run, SubgraphOrder::isLessOrEq, StdMatchFinder::mapEdges).
THEOREM SubgraphTotalsAreRight == Spec => [](parameters.order # "minor" => TotalsAreRight)
<1>1. TotalsInv /\ Accepted => (parameters.order # "minor" => TotalsAreRight)
  <2> SUFFICES ASSUME TotalsInv, Accepted, parameters.order # "minor" PROVE TotalsAreRight
    OBVIOUS
  <2>1. ExactSoFar BY DEF ExactSoFar
  <2> QED BY <2>1, ExactTotals
<1> QED BY <1>1, TotalsInvAlways, AcceptedAlways, PTL

=============================================================================
