----------------------------- MODULE SequenceLemmas -----------------------------
(***************************************************************************)
(* What the vector operations of the code do to the set of elements:       *)
(* push_back, back/pop_back, taking the first element, insert and erase.   *)
(* And what a proof about a sum over a vector or a loop over a set rests   *)
(* on: induction over the subsets of a finite set, and the recursion that  *)
(* the folds of the community modules are.                                 *)
(***************************************************************************)
EXTENDS SequencesExt, SequenceTheorems, FiniteSetTheorems, TLAPS

\* The body of a loop over a vector, in a context c, and what is said of its state before the
\* element i + 1; a module with loops has one instance for each.
CONSTANTS LoopBody(_, _, _), LoopInvariant(_, _, _)

Loop(c, base, seq) ==
  LET acc[i \in 0 .. Len(seq)] == IF i = 0 THEN base ELSE LoopBody(c, acc[i - 1], seq[i])
  IN acc[Len(seq)]

\* push_back adds exactly its argument.
LEMMA RangeOfAppend ==
  ASSUME NEW S, NEW s \in Seq(S), NEW e \in S
  PROVE  /\ Append(s, e) \in Seq(S)
         /\ Range(Append(s, e)) = Range(s) \cup {e}
<1>1. /\ Append(s, e) \in Seq(S) /\ Len(Append(s, e)) = Len(s) + 1
      /\ \A i \in 1 .. Len(s) : Append(s, e)[i] = s[i]
      /\ Append(s, e)[Len(s) + 1] = e
  BY AppendProperties
<1>2. Len(s) \in Nat /\ DOMAIN s = 1 .. Len(s)
      /\ DOMAIN Append(s, e) = 1 .. Len(s) + 1
  BY <1>1, LenProperties
<1>3. Range(Append(s, e)) \subseteq Range(s) \cup {e}
  BY <1>1, <1>2 DEF Range
<1>4. Range(s) \subseteq Range(Append(s, e)) /\ e \in Range(Append(s, e))
  BY <1>1, <1>2 DEF Range
<1> QED BY <1>1, <1>3, <1>4

\* The elements of a sequence are those of the set it ranges over.
LEMMA RangeIsSubset ==
  ASSUME NEW S, NEW s \in Seq(S)
  PROVE  Range(s) \subseteq S
BY LenProperties, ElementOfSeq DEF Range

\* back() and pop_back() split a vector into its last element and the others.
LEMMA RangeOfFront ==
  ASSUME NEW S, NEW s \in Seq(S), s # <<>>
  PROVE  /\ Front(s) \in Seq(S) /\ Last(s) \in S
         /\ Range(s) = Range(Front(s)) \cup {Last(s)}
<1>1. Len(s) \in Nat \ {0} /\ DOMAIN s = 1 .. Len(s)
  BY EmptySeq, LenProperties
<1>2. \A i \in 1 .. Len(s) : s[i] \in S
  BY ElementOfSeq
<1>3. /\ Front(s) \in Seq(S)
      /\ Len(Front(s)) = Len(s) - 1
      /\ \A i \in 1 .. Len(s) - 1 : Front(s)[i] = s[i]
  <2>1. \A i \in 1 .. Len(s) - 1 : s[i] \in S
    BY <1>1, <1>2
  <2>2. /\ SubSeq(s, 1, Len(s) - 1) \in Seq(S)
        /\ Len(SubSeq(s, 1, Len(s) - 1)) = IF 1 <= Len(s) - 1 THEN Len(s) - 1 - 1 + 1 ELSE 0
        /\ \A i \in 1 .. Len(s) - 1 - 1 + 1 : SubSeq(s, 1, Len(s) - 1)[i] = s[1 + i - 1]
    BY <1>1, <2>1, SubSeqProperties
  <2> QED BY <1>1, <2>2 DEF Front
<1>4. DOMAIN Front(s) = 1 .. Len(s) - 1
  BY <1>3, LenProperties
<1>5. Range(Front(s)) \cup {Last(s)} \subseteq Range(s)
  BY <1>1, <1>3, <1>4 DEF Range, Last
<1>6. Range(s) \subseteq Range(Front(s)) \cup {Last(s)}
  <2> SUFFICES ASSUME NEW i \in 1 .. Len(s) PROVE s[i] \in Range(Front(s)) \cup {Last(s)}
    BY <1>1 DEF Range
  <2>1. CASE i = Len(s) BY <2>1 DEF Last
  <2>2. CASE i # Len(s)
    <3>0. Len(s) \in Nat /\ i \in Nat /\ 1 <= i /\ i <= Len(s) BY <1>1
    <3>1. i \in 1 .. Len(s) - 1 BY <2>2, <3>0, SMT
    <3>2. Front(s)[i] = s[i] /\ i \in DOMAIN Front(s) BY <1>3, <1>4, <3>1
    <3> QED BY <3>2 DEF Range
  <2> QED BY <2>1, <2>2
<1> QED BY <1>1, <1>2, <1>3, <1>5, <1>6 DEF Last

\* pop_back() leaves the other elements where they are.
LEMMA FrontElements ==
  ASSUME NEW S, NEW s \in Seq(S), s # <<>>
  PROVE  /\ Front(s) \in Seq(S) /\ Len(Front(s)) = Len(s) - 1 /\ Len(s) \in Nat \ {0}
         /\ \A i \in 1 .. Len(s) - 1 : Front(s)[i] = s[i]
<1>1. Len(s) \in Nat \ {0} BY EmptySeq
<1>2. \A i \in 1 .. Len(s) - 1 : s[i] \in S BY <1>1, ElementOfSeq
<1>3. /\ SubSeq(s, 1, Len(s) - 1) \in Seq(S)
      /\ Len(SubSeq(s, 1, Len(s) - 1)) = IF 1 <= Len(s) - 1 THEN Len(s) - 1 - 1 + 1 ELSE 0
      /\ \A i \in 1 .. Len(s) - 1 - 1 + 1 : SubSeq(s, 1, Len(s) - 1)[i] = s[1 + i - 1]
  BY <1>1, <1>2, SubSeqProperties
<1>4. Front(s) = SubSeq(s, 1, Len(s) - 1) BY DEF Front
<1>5. Len(SubSeq(s, 1, Len(s) - 1)) = Len(s) - 1
  <2> DEFINE n == Len(s)
             t == SubSeq(s, 1, n - 1)
  <2>1. n \in Nat \ {0} /\ Len(t) = IF 1 <= n - 1 THEN n - 1 - 1 + 1 ELSE 0 BY <1>1, <1>3
  <2> HIDE DEF n, t
  <2>2. Len(t) = n - 1 BY <2>1
  <2> QED BY <2>2 DEF n, t
<1>6. \A i \in 1 .. Len(s) - 1 : i \in 1 .. Len(s) - 1 - 1 + 1 /\ 1 + i - 1 = i BY <1>1
<1>7. \A i \in 1 .. Len(s) - 1 : SubSeq(s, 1, Len(s) - 1)[i] = s[i] BY <1>3, <1>6
<1> QED BY <1>1, <1>3, <1>4, <1>5, <1>7

\* A vector built place by place has as many elements as places.
LEMMA LenOfFunction ==
  ASSUME NEW S, NEW n \in Nat, NEW s \in [1 .. n -> S]
  PROVE  s \in Seq(S) /\ Len(s) = n
<1>1. s \in Seq(S) BY SeqDef
<1>2. PICK l \in Nat : l = Len(s) /\ 1 .. l = 1 .. n BY <1>1, LenProperties
<1>3. CASE l < n
  <2>1. n \in 1 .. n /\ n \notin 1 .. l BY <1>3
  <2> QED BY <1>2, <2>1
<1>4. CASE n < l
  <2>1. l \in 1 .. l /\ l \notin 1 .. n BY <1>4
  <2> QED BY <1>2, <2>1
<1> QED BY <1>1, <1>2, <1>3, <1>4

\* Taking the first element leaves the others.
LEMMA RangeOfTail ==
  ASSUME NEW S, NEW s \in Seq(S), s # <<>>
  PROVE  /\ Head(s) \in S /\ Tail(s) \in Seq(S)
         /\ Range(s) = Range(Tail(s)) \cup {Head(s)}
<1>1. Len(s) \in Nat \ {0} /\ DOMAIN s = 1 .. Len(s)
  BY EmptySeq, LenProperties
<1>2. /\ Head(s) \in S /\ Tail(s) \in Seq(S) /\ Len(Tail(s)) = Len(s) - 1
      /\ \A i \in 1 .. Len(Tail(s)) : Tail(s)[i] = s[i + 1]
  BY HeadTailProperties
<1>3. DOMAIN Tail(s) = 1 .. Len(s) - 1
  BY <1>2, LenProperties
<1>4. Head(s) = s[1]
  BY <1>1
<1>5. Range(Tail(s)) \cup {Head(s)} \subseteq Range(s)
  BY <1>1, <1>2, <1>3, <1>4 DEF Range
<1>6. Range(s) \subseteq Range(Tail(s)) \cup {Head(s)}
  <2> SUFFICES ASSUME NEW i \in 1 .. Len(s) PROVE s[i] \in Range(Tail(s)) \cup {Head(s)}
    BY <1>1 DEF Range
  <2>1. CASE i = 1 BY <1>4, <2>1
  <2>2. CASE i # 1
    <3>1. i - 1 \in 1 .. Len(s) - 1 /\ (i - 1) + 1 = i BY <1>1, <2>2
    <3> QED BY <1>2, <1>3, <3>1 DEF Range
  <2> QED BY <2>1, <2>2
<1> QED BY <1>2, <1>5, <1>6

\* erase: the elements before the place stay, those behind it move up by one.
LEMMA ElementsOfRemoveAt ==
  ASSUME NEW S, NEW s \in Seq(S), NEW n \in 1 .. Len(s)
  PROVE  /\ RemoveAt(s, n) \in Seq(S)
         /\ Len(RemoveAt(s, n)) = Len(s) - 1
         /\ \A i \in 1 .. n - 1 : RemoveAt(s, n)[i] = s[i]
         /\ \A i \in n .. Len(s) - 1 : RemoveAt(s, n)[i] = s[i + 1]
<1> DEFINE front == SubSeq(s, 1, n - 1)
           back == SubSeq(s, n + 1, Len(s))
<1>1. Len(s) \in Nat /\ n \in Nat /\ 1 <= n /\ n <= Len(s)
      /\ \A i \in 1 .. Len(s) : s[i] \in S
  BY LenProperties, ElementOfSeq
<1>2. /\ front \in Seq(S) /\ Len(front) = n - 1
      /\ \A i \in 1 .. n - 1 : front[i] = s[i]
  <2>1. \A i \in 1 .. n - 1 : s[i] \in S
    BY <1>1
  <2>2. /\ front \in Seq(S) /\ Len(front) = IF 1 <= n - 1 THEN n - 1 - 1 + 1 ELSE 0
        /\ \A i \in 1 .. n - 1 - 1 + 1 : front[i] = s[1 + i - 1]
    BY <1>1, <2>1, SubSeqProperties
  <2> HIDE DEF front
  <2> QED BY <1>1, <2>2
<1>3. /\ back \in Seq(S) /\ Len(back) = Len(s) - n
      /\ \A i \in 1 .. Len(s) - n : back[i] = s[n + i]
  <2>1. \A i \in n + 1 .. Len(s) : s[i] \in S
    BY <1>1
  <2>2. /\ back \in Seq(S)
        /\ Len(back) = IF n + 1 <= Len(s) THEN Len(s) - (n + 1) + 1 ELSE 0
        /\ \A i \in 1 .. Len(s) - (n + 1) + 1 : back[i] = s[(n + 1) + i - 1]
    BY <1>1, <2>1, SubSeqProperties
  <2> HIDE DEF back
  <2> QED BY <1>1, <2>2
<1>4. /\ front \o back \in Seq(S)
      /\ Len(front \o back) = Len(front) + Len(back)
      /\ \A i \in 1 .. Len(front) + Len(back) :
           (front \o back)[i] = IF i <= Len(front) THEN front[i] ELSE back[i - Len(front)]
  BY <1>2, <1>3, ConcatProperties
<1>5. RemoveAt(s, n) = front \o back
  BY DEF RemoveAt
<1> HIDE DEF front, back
<1>6. \A i \in 1 .. n - 1 : (front \o back)[i] = s[i]
  BY <1>1, <1>2, <1>3, <1>4
<1>7. \A i \in n .. Len(s) - 1 : (front \o back)[i] = s[i + 1]
  <2> SUFFICES ASSUME NEW i \in n .. Len(s) - 1 PROVE (front \o back)[i] = s[i + 1]
    OBVIOUS
  <2>1. /\ i \in 1 .. Len(front) + Len(back) /\ ~ i <= Len(front)
        /\ i - Len(front) \in 1 .. Len(s) - n /\ n + (i - Len(front)) = i + 1
    BY <1>1, <1>2, <1>3
  <2> QED BY <1>3, <1>4, <2>1
<1>8. Len(front \o back) = Len(s) - 1
  BY <1>1, <1>2, <1>3, <1>4
<1> QED BY <1>4, <1>5, <1>6, <1>7, <1>8, Zenon

\* Erasing an element that occurs once leaves all others.
LEMMA RangeOfRemoveAt ==
  ASSUME NEW S, NEW s \in Seq(S), NEW n \in 1 .. Len(s),
         \A i \in DOMAIN s : s[i] = s[n] => i = n
  PROVE  Range(RemoveAt(s, n)) = Range(s) \ {s[n]}
<1> DEFINE r == RemoveAt(s, n)
<1>1. /\ Len(s) \in Nat /\ n \in Nat /\ 1 <= n /\ n <= Len(s)
      /\ DOMAIN s = 1 .. Len(s) /\ DOMAIN r = 1 .. Len(s) - 1
      /\ \A i \in 1 .. n - 1 : r[i] = s[i]
      /\ \A i \in n .. Len(s) - 1 : r[i] = s[i + 1]
  <2>1. /\ r \in Seq(S) /\ Len(r) = Len(s) - 1
        /\ \A i \in 1 .. n - 1 : r[i] = s[i]
        /\ \A i \in n .. Len(s) - 1 : r[i] = s[i + 1]
    BY ElementsOfRemoveAt
  <2> HIDE DEF r
  <2>2. DOMAIN r = 1 .. Len(r) /\ DOMAIN s = 1 .. Len(s) /\ Len(s) \in Nat
    BY <2>1, LenProperties
  <2>3. DOMAIN r = 1 .. Len(s) - 1
    BY <2>1, <2>2
  <2>4. n \in Nat /\ 1 <= n /\ n <= Len(s)
    BY <2>2
  <2> QED BY <2>1, <2>2, <2>3, <2>4
<1> HIDE DEF r
<1>2. Range(r) \subseteq Range(s) \ {s[n]}
  <2> SUFFICES ASSUME NEW i \in DOMAIN r PROVE r[i] \in Range(s) \ {s[n]}
    BY DEF Range
  <2>1. CASE i < n
    <3>1. r[i] = s[i] /\ i \in DOMAIN s /\ i # n BY <1>1, <2>1
    <3> QED BY <3>1 DEF Range
  <2>2. CASE i >= n
    <3>1. r[i] = s[i + 1] /\ i + 1 \in DOMAIN s /\ i + 1 # n BY <1>1, <2>2
    <3> QED BY <3>1 DEF Range
  <2> QED BY <1>1, <2>1, <2>2
<1>3. Range(s) \ {s[n]} \subseteq Range(r)
  <2> SUFFICES ASSUME NEW i \in DOMAIN s, i # n PROVE s[i] \in Range(r)
    BY DEF Range
  <2>1. CASE i < n
    <3>1. r[i] = s[i] /\ i \in DOMAIN r BY <1>1, <2>1
    <3> QED BY <3>1 DEF Range
  <2>2. CASE i > n
    <3>1. i - 1 \in DOMAIN r /\ i - 1 \in n .. Len(s) - 1 /\ (i - 1) + 1 = i BY <1>1, <2>2
    <3>2. r[i - 1] = s[i] BY <1>1, <3>1
    <3> QED BY <3>1, <3>2 DEF Range
  <2> QED BY <1>1, <2>1, <2>2
<1> QED BY <1>2, <1>3 DEF r

\* The empty vector has no elements.
LEMMA RangeOfEmpty == Range(<<>>) = {}
BY DEF Range

\* insert at the end puts two vectors together.
LEMMA RangeOfConcat ==
  ASSUME NEW S, NEW s \in Seq(S), NEW t \in Seq(S)
  PROVE  s \o t \in Seq(S) /\ Range(s \o t) = Range(s) \cup Range(t)
<1> DEFINE m == Len(s)
           n == Len(t)
<1>1. /\ s \o t \in Seq(S) /\ Len(s \o t) = m + n
      /\ \A i \in 1 .. m + n : (s \o t)[i] = IF i <= m THEN s[i] ELSE t[i - m]
  BY ConcatProperties
<1>2. /\ m \in Nat /\ n \in Nat /\ DOMAIN s = 1 .. m /\ DOMAIN t = 1 .. n
      /\ DOMAIN (s \o t) = 1 .. m + n
  BY <1>1, LenProperties
<1> HIDE DEF m, n
<1>3. ASSUME NEW i \in 1 .. m + n PROVE (s \o t)[i] \in Range(s) \cup Range(t)
  <2>1. CASE i <= m
    <3>1. i \in 1 .. m /\ (s \o t)[i] = s[i] BY <1>1, <1>2, <2>1
    <3> QED BY <1>2, <3>1 DEF Range
  <2>2. CASE ~ (i <= m)
    <3>1. i - m \in 1 .. n /\ (s \o t)[i] = t[i - m] BY <1>1, <1>2, <2>2
    <3> QED BY <1>2, <3>1 DEF Range
  <2> QED BY <2>1, <2>2
<1>4. ASSUME NEW i \in 1 .. m PROVE s[i] \in Range(s \o t)
  <2>1. i \in 1 .. m + n /\ (s \o t)[i] = s[i] BY <1>1, <1>2
  <2> QED BY <1>2, <2>1 DEF Range
<1>5. ASSUME NEW i \in 1 .. n PROVE t[i] \in Range(s \o t)
  <2>1. i + m \in 1 .. m + n /\ ~ (i + m <= m) /\ (i + m) - m = i BY <1>2
  <2>2. (s \o t)[i + m] = t[i] BY <1>1, <2>1
  <2> QED BY <1>2, <2>1, <2>2 DEF Range
<1>6. Range(s \o t) \subseteq Range(s) \cup Range(t) BY <1>2, <1>3 DEF Range
<1>7. Range(s) \subseteq Range(s \o t) BY <1>2, <1>4 DEF Range
<1>8. Range(t) \subseteq Range(s \o t) BY <1>2, <1>5 DEF Range
<1> QED BY <1>1, <1>6, <1>7, <1>8

-----------------------------------------------------------------------------
(* Induction, and the recursion that folds are *)

\* A set of numbers that is not empty has a least one.  Induction takes this form, for
\* the provers cannot use a theorem about every predicate.
LEMMA LeastNatural ==
  ASSUME NEW T, T \subseteq Nat, T # {}
  PROVE  \E n \in T : \A m \in T : n <= m
<1> DEFINE R == OpToRel(<, Nat)
<1>1. IsWellFoundedOn(R, Nat) BY NatLessThanWellFounded
<1>2. \A x, y \in Nat : x < y => <<x, y>> \in R BY DEF OpToRel
<1> HIDE DEF R
<1>3. PICK n \in T : \A m \in T : ~ (<<m, n>> \in R) BY <1>1, WFMin
<1>4. \A m \in T : ~ (m < n) BY <1>2, <1>3
<1>5. \A m \in T : m \in Nat /\ n \in Nat OBVIOUS
<1>6. \A m \in T : n <= m BY <1>4, <1>5
<1> QED BY <1>6

\* What holds of the empty set and comes back when some element is put back holds
\* of every subset of a finite set.
LEMMA SubsetInduction ==
  ASSUME NEW S, IsFiniteSet(S), NEW Good, {} \in Good,
         \A s \in SUBSET S : s # {} => \E x \in s : s \ {x} \in Good => s \in Good
  PROVE  SUBSET S \subseteq Good
<1> DEFINE Sizes == {Cardinality(s) : s \in (SUBSET S) \ Good}
<1>1. \A s \in SUBSET S : IsFiniteSet(s) /\ Cardinality(s) \in Nat
  BY FS_Subset, FS_CardinalityType
<1> SUFFICES ASSUME ~ (SUBSET S \subseteq Good) PROVE FALSE
  OBVIOUS
<1>2. Sizes \subseteq Nat /\ Sizes # {} BY <1>1
<1>3. PICK n \in Sizes : \A m \in Sizes : n <= m
  <2> HIDE DEF Sizes
  <2> QED BY <1>2, LeastNatural
<1>4. PICK s \in (SUBSET S) \ Good : Cardinality(s) = n BY <1>3
<1>5. PICK x \in s : s \ {x} \in Good => s \in Good BY <1>4
<1>6. s \ {x} \in (SUBSET S) \ Good BY <1>4, <1>5
<1>7. n <= Cardinality(s \ {x}) BY <1>3, <1>6
<1>8. Cardinality(s \ {x}) = Cardinality(s) - 1 BY <1>1, <1>4, <1>5, FS_RemoveElement
<1>9. n \in Nat BY <1>2
<1> QED BY <1>4, <1>7, <1>8, <1>9

\* A finite set has an element with the greatest value.
LEMMA GreatestValue ==
  ASSUME NEW S, IsFiniteSet(S), S # {}, NEW f \in [S -> Nat]
  PROVE  \E x \in S : \A y \in S : f[y] <= f[x]
<1> DEFINE Good == {s \in SUBSET S : s = {} \/ \E x \in s : \A y \in s : f[y] <= f[x]}
<1>1. {} \in Good OBVIOUS
<1>2. \A s \in SUBSET S : s # {} => \E x \in s : s \ {x} \in Good => s \in Good
  <2> SUFFICES ASSUME NEW s \in SUBSET S, NEW x \in s, s \ {x} \in Good PROVE s \in Good
    OBVIOUS
  <2>1. CASE s \ {x} = {}
    <3>1. \A y \in s : f[y] = f[x] /\ f[x] \in Nat BY <2>1
    <3> QED BY <3>1
  <2>2. ASSUME NEW z \in s \ {x}, \A y \in s \ {x} : f[y] <= f[z] PROVE s \in Good
    <3>1. \A y \in s : f[y] \in Nat OBVIOUS
    <3>2. CASE f[x] <= f[z]
      <4>1. \A y \in s : f[y] <= f[z] BY <2>2, <3>2
      <4> QED BY <4>1
    <3>3. CASE ~ (f[x] <= f[z])
      <4>1. \A y \in s : f[y] <= f[x] BY <2>2, <3>1, <3>3
      <4> QED BY <4>1
    <3> QED BY <3>2, <3>3
  <2> QED BY <2>1, <2>2
<1>3. S \in Good
  <2> HIDE DEF Good
  <2> QED BY <1>1, <1>2, SubsetInduction
<1> QED BY <1>3

\* g combines base with the elements of each subset, one chosen element after the other.
IsFold(g, S, base, F, ch) ==
  \A s \in SUBSET S : g[s] = IF s = {} THEN base ELSE F[<<ch[s], g[s \ {ch[s]}]>>]

\* Such a recursion has a solution.
LEMMA RecursionOnSubsets ==
  ASSUME NEW S, IsFiniteSet(S), NEW V, NEW base \in V, NEW F \in [S \X V -> V],
         NEW ch, \A s \in SUBSET S : s # {} => ch[s] \in s
  PROVE  \E g \in [SUBSET S -> V] : IsFold(g, S, base, F, ch)
<1> DEFINE Smaller(n) == {s \in SUBSET S : Cardinality(s) <= n}
           SolvesUpTo(g, n) ==
             \A s \in Smaller(n) : g[s] = IF s = {} THEN base ELSE F[<<ch[s], g[s \ {ch[s]}]>>]
           Unsolved == {n \in Nat : ~ \E g \in [Smaller(n) -> V] : SolvesUpTo(g, n)}
<1>1. \A s \in SUBSET S : IsFiniteSet(s) /\ Cardinality(s) \in Nat
  BY FS_Subset, FS_CardinalityType
<1>2. \A s \in SUBSET S : s # {} =>
        /\ s \ {ch[s]} \in SUBSET S /\ ch[s] \in S
        /\ Cardinality(s \ {ch[s]}) = Cardinality(s) - 1
  BY <1>1, FS_RemoveElement
<1>3. Unsolved = {}
  <2> SUFFICES ASSUME Unsolved # {} PROVE FALSE
    OBVIOUS
  <2>1. PICK n \in Unsolved : \A m \in Unsolved : n <= m
    <3>1. Unsolved \subseteq Nat OBVIOUS
    <3> HIDE DEF Unsolved
    <3> QED BY <3>1, LeastNatural
  <2>2. n \in Nat /\ ~ \E g \in [Smaller(n) -> V] : SolvesUpTo(g, n) BY <2>1
  <2>3. CASE n = 0
    <3>1. \A s \in Smaller(0) : s = {} BY <1>1, FS_EmptySet
    <3> DEFINE g == [s \in Smaller(0) |-> base]
    <3>2. g \in [Smaller(0) -> V] /\ SolvesUpTo(g, 0) BY <3>1
    <3> QED BY <2>2, <2>3, <3>2
  <2>4. CASE n # 0
    <3>0. n - 1 \in Nat /\ ~ (n <= n - 1) BY <2>2, <2>4
    <3>1. n - 1 \in Nat /\ n - 1 \notin Unsolved
      <4> HIDE DEF Unsolved
      <4> QED BY <2>1, <3>0
    <3>2. PICK g \in [Smaller(n - 1) -> V] : SolvesUpTo(g, n - 1) BY <3>1
    <3> DEFINE h == [s \in Smaller(n) |-> IF s = {} THEN base ELSE F[<<ch[s], g[s \ {ch[s]}]>>]]
    <3>3. \A s \in Smaller(n) : s # {} => s \ {ch[s]} \in Smaller(n - 1) /\ ch[s] \in S
      BY <1>1, <1>2, <2>2
    <3>4. h \in [Smaller(n) -> V] BY <3>3
    <3>5. \A s \in Smaller(n - 1) : s \in Smaller(n) /\ h[s] = g[s]
      BY <1>1, <2>2, <3>1, <3>2
    <3>6. SolvesUpTo(h, n) BY <3>3, <3>5
    <3> HIDE DEF h
    <3> QED BY <2>2, <3>4, <3>6
  <2> QED BY <2>3, <2>4
<1>4. Cardinality(S) \in Nat /\ \A s \in SUBSET S : Cardinality(s) <= Cardinality(S)
  BY FS_Subset, FS_CardinalityType
<1>5. Smaller(Cardinality(S)) = SUBSET S BY <1>4
<1>6. \E g \in [Smaller(Cardinality(S)) -> V] : SolvesUpTo(g, Cardinality(S)) BY <1>3, <1>4
<1> HIDE DEF Smaller
<1> QED BY <1>5, <1>6 DEF IsFold

\* The greatest of some indices, with which a loop over a vector ends.
LEMMA GreatestIndex ==
  ASSUME NEW n \in Nat, NEW s \in SUBSET (1 .. n), s # {}
  PROVE  Max(s) \in s /\ \A y \in s : y <= Max(s)
<1> DEFINE f == [x \in s |-> x]
<1>1. f \in [s -> Nat] OBVIOUS
<1>2. IsFiniteSet(s)
  <2>1. IsFiniteSet(1 .. n) BY FS_Interval
  <2> QED BY <2>1, FS_Subset
<1> HIDE DEF f
<1>3. \E x \in s : \A y \in s : f[y] <= f[x] BY <1>1, <1>2, GreatestValue
<1>4. \E x \in s : \A y \in s : x >= y BY <1>3 DEF f
<1>5. Max(s) \in s /\ \A y \in s : Max(s) >= y BY <1>4 DEF Max
<1>6. \A y \in s : y \in Nat OBVIOUS
<1>7. ASSUME NEW x \in s, \A y \in s : x >= y PROVE \A y \in s : y <= x BY <1>6, <1>7
<1> QED BY <1>5, <1>7

LEMMA FirstIndices ==
  ASSUME NEW n \in Nat, n # 0
  PROVE  Max(1 .. n) = n /\ (1 .. n) \ {n} = 1 .. (n - 1) /\ 1 .. n # {}
<1>1. n \in 1 .. n OBVIOUS
<1>2. 1 .. n # {} BY <1>1
<1>3. Max(1 .. n) \in 1 .. n /\ n <= Max(1 .. n) BY <1>1, <1>2, GreatestIndex
<1>4. (1 .. n) \ {n} = 1 .. (n - 1) OBVIOUS
<1> QED BY <1>2, <1>3, <1>4

\* g goes through the first elements of a vector, the last of them at last.
IsLoop(g, S, base, F) ==
  \A s \in SUBSET S : g[s] = IF s = {} THEN base ELSE F[<<Max(s), g[s \ {Max(s)}]>>]

\* Such a loop over the n elements of a vector has a result.
LEMMA LoopHasResult ==
  ASSUME NEW n \in Nat, NEW V, NEW base \in V, NEW F \in [(1 .. n) \X V -> V]
  PROVE  \E g \in [SUBSET (1 .. n) -> V] : IsLoop(g, 1 .. n, base, F)
<1> DEFINE S == 1 .. n
           ch == [s \in SUBSET S |-> Max(s)]
<1>1. IsFiniteSet(S) BY FS_Interval
<1>2. \A s \in SUBSET S : s # {} => ch[s] \in s BY GreatestIndex
<1>3. \A s \in SUBSET S : ch[s] = Max(s) OBVIOUS
<1> HIDE DEF ch, S
<1>4. F \in [S \X V -> V] BY DEF S
<1>5. PICK g \in [SUBSET S -> V] : IsFold(g, S, base, F, ch)
  BY <1>1, <1>2, <1>4, RecursionOnSubsets
<1>6. IsLoop(g, S, base, F) BY <1>3, <1>5 DEF IsFold, IsLoop
<1> QED BY <1>5, <1>6 DEF S

\* What holds of 0 and goes on from each number to the next holds up to n.
LEMMA InductionUpTo ==
  ASSUME NEW n \in Nat, NEW Good, 0 \in Good,
         \A i \in 1 .. n : i - 1 \in Good => i \in Good
  PROVE  0 .. n \subseteq Good
<1> DEFINE Bad == (0 .. n) \ Good
<1> SUFFICES ASSUME Bad # {} PROVE FALSE
  OBVIOUS
<1>1. Bad \subseteq Nat OBVIOUS
<1>2. PICK k \in Bad : \A m \in Bad : k <= m
  <2> HIDE DEF Bad
  <2> QED BY <1>1, LeastNatural
<1>3. k # 0 /\ k \in 1 .. n /\ k \notin Good OBVIOUS
<1>4. k - 1 \notin Good BY <1>3
<1>5. k - 1 \in Bad /\ ~ (k <= k - 1) BY <1>3, <1>4
<1> QED BY <1>2, <1>5

\* g starts with base and goes on from each number to the next.
IsRecursion(g, n, base, F) == g[0] = base /\ \A i \in 1 .. n : g[i] = F[<<i, g[i - 1]>>]

\* Such a recursion has a solution.
LEMMA RecursionOnNumbers ==
  ASSUME NEW n \in Nat, NEW V, NEW base \in V, NEW F \in [(1 .. n) \X V -> V]
  PROVE  \E g \in [0 .. n -> V] : IsRecursion(g, n, base, F)
<1>1. PICK loop \in [SUBSET (1 .. n) -> V] : IsLoop(loop, 1 .. n, base, F)
  BY LoopHasResult
<1> DEFINE g == [i \in 0 .. n |-> loop[1 .. i]]
<1>2. \A i \in 0 .. n : 1 .. i \in SUBSET (1 .. n) OBVIOUS
<1>3. g \in [0 .. n -> V] BY <1>1, <1>2
<1>4. g[0] = base
  <2>1. 1 .. 0 = {} /\ g[0] = loop[1 .. 0] OBVIOUS
  <2>2. loop[{}] = base BY <1>1 DEF IsLoop
  <2> QED BY <2>1, <2>2
<1>5. ASSUME NEW i \in 1 .. n PROVE g[i] = F[<<i, g[i - 1]>>]
  <2>1. i \in Nat /\ i # 0 OBVIOUS
  <2>2. Max(1 .. i) = i /\ (1 .. i) \ {i} = 1 .. (i - 1) /\ 1 .. i # {} BY <2>1, FirstIndices
  <2>3. loop[1 .. i] = F[<<i, loop[1 .. (i - 1)]>>]
    BY <1>1, <1>2, <2>2 DEF IsLoop
  <2>4. g[i] = loop[1 .. i] /\ g[i - 1] = loop[1 .. (i - 1)] OBVIOUS
  <2> HIDE DEF g
  <2> QED BY <2>3, <2>4
<1> HIDE DEF g
<1> QED BY <1>3, <1>4, <1>5 DEF IsRecursion

\* s goes up through the elements of S and meets each of them.
GoesUpThrough(s, S) ==
  /\ Cardinality(S) \in Nat
  /\ s \in [1 .. Cardinality(S) -> S]
  /\ Len(s) = Cardinality(S)
  /\ \A x \in S : \E i \in 1 .. Cardinality(S) : s[i] = x
  /\ \A i, j \in 1 .. Cardinality(S) : i < j => s[i] < s[j]

\* Such a list that goes up is there for every finite set of numbers, and one that goes up
\* has every number once.
LEMMA AscendingListExists ==
  ASSUME NEW S, IsFiniteSet(S), S \subseteq Nat
  PROVE  /\ \E s : GoesUpThrough(s, S)
         /\ \A s \in [1 .. Cardinality(S) -> S] :
              (\A i, j \in 1 .. Cardinality(S) : i < j => s[i] < s[j]) => GoesUpThrough(s, S)
<1> DEFINE Good == {s \in SUBSET S : \E f \in [1 .. Cardinality(s) -> s] :
                      \A i, j \in 1 .. Cardinality(s) : i < j => f[i] < f[j]}
<1>1. {} \in Good
  <2>1. Cardinality({}) = 0 BY FS_EmptySet
  <2>2. [i \in 1 .. 0 |-> i] \in [1 .. 0 -> {}] OBVIOUS
  <2> QED BY <2>1, <2>2
<1>2. \A s \in SUBSET S : s # {} => \E x \in s : s \ {x} \in Good => s \in Good
  <2> SUFFICES ASSUME NEW s \in SUBSET S, s # {} PROVE \E x \in s : s \ {x} \in Good => s \in Good
    OBVIOUS
  <2>1. IsFiniteSet(s) /\ Cardinality(s) \in Nat BY FS_Subset, FS_CardinalityType
  <2>2. PICK x \in s : \A y \in s : y <= x
    <3>1. [y \in s |-> y] \in [s -> Nat] OBVIOUS
    <3>2. \E x \in s : \A y \in s : [z \in s |-> z][y] <= [z \in s |-> z][x]
      BY <2>1, <3>1, GreatestValue
    <3> QED BY <3>2
  <2>3. ASSUME s \ {x} \in Good PROVE s \in Good
    <3>1. PICK n : n = Cardinality(s) OBVIOUS
    <3>2. n \in Nat \ {0} /\ Cardinality(s \ {x}) = n - 1
      BY <2>1, <3>1, FS_RemoveElement, FS_EmptySet
    <3>3. PICK f \in [1 .. n - 1 -> s \ {x}] : \A i, j \in 1 .. n - 1 : i < j => f[i] < f[j]
      BY <2>3, <3>2
    <3> DEFINE g == [i \in 1 .. n |-> IF i = n THEN x ELSE f[i]]
    <3>4. \A i \in 1 .. n : i # n => i \in 1 .. n - 1 BY <3>2
    <3>5. g \in [1 .. n -> s] BY <3>3, <3>4
    <3>6. \A i, j \in 1 .. n : i < j => g[i] < g[j]
      <4> SUFFICES ASSUME NEW i \in 1 .. n, NEW j \in 1 .. n, i < j PROVE g[i] < g[j]
        OBVIOUS
      <4>1. i # n /\ i \in 1 .. n - 1 /\ g[i] = f[i] BY <3>2, <3>4
      <4>2. CASE j = n
        <5>1. f[i] \in s /\ f[i] # x /\ f[i] <= x BY <2>2, <3>3, <4>1
        <5>2. f[i] \in Nat /\ x \in Nat BY <5>1
        <5> QED BY <4>1, <4>2, <5>1, <5>2
      <4>3. CASE j # n BY <3>3, <3>4, <4>1, <4>3
      <4> QED BY <4>2, <4>3
    <3> HIDE DEF g
    <3> QED BY <3>1, <3>5, <3>6
  <2> QED BY <2>2, <2>3
<1>3. S \in Good
  <2> HIDE DEF Good
  <2> QED BY <1>1, <1>2, SubsetInduction
<1>4. PICK n \in Nat : n = Cardinality(S) BY FS_CardinalityType
<1>5. ASSUME NEW s \in [1 .. n -> S], \A i, j \in 1 .. n : i < j => s[i] < s[j]
      PROVE  GoesUpThrough(s, S)
  <2>1. Len(s) = n BY LenOfFunction
  <2>2. IsInjective(s)
    <3> SUFFICES ASSUME NEW i \in 1 .. n, NEW j \in 1 .. n, s[i] = s[j] PROVE i = j
      BY DEF IsInjective
    <3>1. s[i] \in Nat /\ s[j] \in Nat OBVIOUS
    <3>2. ~ (i < j) /\ ~ (j < i) BY <1>5, <3>1
    <3> QED BY <3>2
  <2>3. s \in Surjection(1 .. n, S)
    <3>1. s \in Injection(1 .. n, S) BY <2>2 DEF Injection
    <3>2. Cardinality(1 .. n) = n BY <1>4, FS_Interval
    <3> QED BY <1>4, <3>1, <3>2, FS_Injection
  <2> QED BY <1>4, <1>5, <2>1, <2>3 DEF GoesUpThrough, Surjection
<1>6. PICK s \in [1 .. n -> S] : \A i, j \in 1 .. n : i < j => s[i] < s[j] BY <1>3, <1>4
<1>7. GoesUpThrough(s, S) BY <1>5, <1>6
<1> QED BY <1>4, <1>5, <1>7

\* push_back of something new repeats nothing.
LEMMA AppendIsInjective ==
  ASSUME NEW S, NEW s \in Seq(S), NEW e \in S, IsInjective(s), e \notin Range(s)
  PROVE  IsInjective(Append(s, e))
<1>1. /\ Append(s, e) \in Seq(S) /\ Len(Append(s, e)) = Len(s) + 1
      /\ \A i \in 1 .. Len(s) : Append(s, e)[i] = s[i]
      /\ Append(s, e)[Len(s) + 1] = e
  BY AppendProperties
<1>2. PICK n : n = Len(s) OBVIOUS
<1>3. n \in Nat /\ DOMAIN s = 1 .. n /\ DOMAIN Append(s, e) = 1 .. n + 1
  BY <1>1, <1>2, LenProperties
<1>4. \A i \in 1 .. n + 1 : i \in 1 .. n \/ i = n + 1 BY <1>3
<1>5. \A i \in 1 .. n : Append(s, e)[i] # e BY <1>1, <1>2, <1>3 DEF Range
<1>6. ASSUME NEW i \in 1 .. n + 1, NEW j \in 1 .. n + 1, Append(s, e)[i] = Append(s, e)[j]
      PROVE  i = j
  <2>1. CASE i \in 1 .. n /\ j \in 1 .. n
    <3>1. s[i] = s[j] BY <1>1, <1>2, <1>6, <2>1
    <3> QED BY <1>3, <2>1, <3>1 DEF IsInjective
  <2>2. CASE i = n + 1 \/ j = n + 1 BY <1>1, <1>2, <1>4, <1>5, <1>6, <2>2
  <2> QED BY <1>4, <2>1, <2>2
<1> QED BY <1>3, <1>6 DEF IsInjective

\* Two vectors without repetitions and without a common element make one without repetitions.
LEMMA ConcatIsInjective ==
  ASSUME NEW S, NEW s \in Seq(S), NEW t \in Seq(S), IsInjective(s), IsInjective(t),
         Range(s) \cap Range(t) = {}
  PROVE  IsInjective(s \o t)
<1>1. PICK m, n : m = Len(s) /\ n = Len(t) OBVIOUS
<1>2. /\ s \o t \in Seq(S) /\ Len(s \o t) = m + n
      /\ \A i \in 1 .. m + n : (s \o t)[i] = IF i <= m THEN s[i] ELSE t[i - m]
  BY <1>1, ConcatProperties
<1>3. /\ m \in Nat /\ n \in Nat /\ DOMAIN s = 1 .. m /\ DOMAIN t = 1 .. n
      /\ DOMAIN (s \o t) = 1 .. m + n
  BY <1>1, <1>2, LenProperties
<1>4. PICK r : r = s \o t OBVIOUS
<1>5. \A i \in 1 .. m + n : i <= m => i \in 1 .. m /\ r[i] = s[i] BY <1>2, <1>3, <1>4
<1>6. \A i \in 1 .. m + n : ~ (i <= m) => i - m \in 1 .. n /\ r[i] = t[i - m]
  BY <1>2, <1>3, <1>4
<1> SUFFICES ASSUME NEW i \in 1 .. m + n, NEW j \in 1 .. m + n, r[i] = r[j] PROVE i = j
  BY <1>3, <1>4 DEF IsInjective
<1>7. CASE i <= m /\ j <= m BY <1>3, <1>5, <1>7 DEF IsInjective
<1>8. CASE ~ (i <= m) /\ ~ (j <= m)
  <2>1. i - m = j - m BY <1>3, <1>6, <1>8 DEF IsInjective
  <2> QED BY <1>3, <2>1
<1>9. ASSUME NEW k \in 1 .. m, NEW l \in 1 .. n PROVE s[k] # t[l]
  <2>1. s[k] \in Range(s) /\ t[l] \in Range(t) BY <1>3 DEF Range
  <2> QED BY <2>1
<1>10. CASE i <= m /\ ~ (j <= m)
  <2>1. i \in 1 .. m /\ j - m \in 1 .. n /\ r[i] = s[i] /\ r[j] = t[j - m] BY <1>5, <1>6, <1>10
  <2> QED BY <1>9, <2>1
<1>11. CASE ~ (i <= m) /\ j <= m
  <2>1. j \in 1 .. m /\ i - m \in 1 .. n /\ r[j] = s[j] /\ r[i] = t[i - m] BY <1>5, <1>6, <1>11
  <2> QED BY <1>9, <2>1
<1> QED BY <1>7, <1>8, <1>10, <1>11

\* A vector of vectors put together.
LEMMA FlattenFacts ==
  ASSUME NEW S, NEW n \in Nat, n # 0, NEW ss \in [1 .. n -> Seq(S)]
  PROVE  /\ FlattenSeq(ss) \in Seq(S)
         /\ Range(FlattenSeq(ss)) = UNION {Range(ss[i]) : i \in 1 .. n}
         /\ (\A i \in 1 .. n : IsInjective(ss[i]))
              /\ (\A i, j \in 1 .. n : i # j => Range(ss[i]) \cap Range(ss[j]) = {})
              => IsInjective(FlattenSeq(ss))
<1> DEFINE F == [p \in (1 .. n) \X Seq(S) |-> p[2] \o ss[p[1]]]
           Step(f) == [i \in 1 .. n |-> IF i = 1 THEN ss[i] ELSE f[i - 1] \o ss[i]]
           h == CHOOSE f : f = Step(f)
<1>1. F \in [(1 .. n) \X Seq(S) -> Seq(S)]
  <2>1. \A i \in 1 .. n, s \in Seq(S) : s \o ss[i] \in Seq(S) BY RangeOfConcat
  <2> QED BY <2>1
<1>2. \A i \in 1 .. n, s \in Seq(S) : F[<<i, s>>] = s \o ss[i] OBVIOUS
<1>3. <<>> \in Seq(S) BY EmptySeq
<1> HIDE DEF F
<1>4. PICK g \in [SUBSET (1 .. n) -> Seq(S)] : IsLoop(g, 1 .. n, <<>>, F)
  BY <1>1, <1>3, LoopHasResult
<1> DEFINE f == [i \in 1 .. n |-> g[1 .. i]]
<1>5. ASSUME NEW i \in 1 .. n PROVE f[i] = IF i = 1 THEN ss[i] ELSE f[i - 1] \o ss[i]
  <2>1. i \in Nat /\ i # 0 /\ 1 .. i \in SUBSET (1 .. n) /\ 1 .. (i - 1) \in SUBSET (1 .. n)
    OBVIOUS
  <2>2. Max(1 .. i) = i /\ (1 .. i) \ {i} = 1 .. (i - 1) /\ 1 .. i # {} BY <2>1, FirstIndices
  <2>3. g[1 .. i] = F[<<i, g[1 .. (i - 1)]>>] BY <1>4, <2>1, <2>2 DEF IsLoop
  <2>4. g[1 .. (i - 1)] \in Seq(S) BY <1>4, <2>1
  <2>5. g[1 .. i] = g[1 .. (i - 1)] \o ss[i] BY <1>2, <2>3, <2>4
  <2>6. CASE i = 1
    <3>1. 1 .. (i - 1) = {} BY <2>6
    <3>2. g[1 .. (i - 1)] = <<>> BY <1>4, <2>1, <3>1 DEF IsLoop
    <3>3. ss[i] \in Seq(S) OBVIOUS
    <3>4. <<>> \o ss[i] = ss[i] BY <3>3, ConcatEmptySeq
    <3> QED BY <2>5, <2>6, <3>2, <3>4
  <2>7. CASE i # 1
    <3>1. i - 1 \in 1 .. n BY <2>7
    <3> QED BY <2>5, <2>7, <3>1
  <2> QED BY <2>6, <2>7
<1>6. f = Step(f)
  <2> HIDE DEF f
  <2>1. \A i \in 1 .. n : f[i] = Step(f)[i] BY <1>5
  <2>2. DOMAIN f = 1 .. n /\ f = [i \in 1 .. n |-> f[i]] BY DEF f
  <2> QED BY <2>1, <2>2
<1>7. h = Step(h)
  <2> HIDE DEF f, Step
  <2> QED BY <1>6
<1>8. FlattenSeq(ss) = h[n]
  <2>1. Len(ss) = n BY LenOfFunction
  <2> QED BY <2>1 DEF FlattenSeq
<1>9. \A i \in 1 .. n : h[i] = IF i = 1 THEN ss[i] ELSE h[i - 1] \o ss[i]
  <2> HIDE DEF h
  <2> QED BY <1>7
<1> HIDE DEF h
<1> DEFINE Apart == /\ \A i \in 1 .. n : IsInjective(ss[i])
                    /\ \A i, j \in 1 .. n : i # j => Range(ss[i]) \cap Range(ss[j]) = {}
           IsRight(i) == /\ h[i] \in Seq(S)
                         /\ Range(h[i]) = UNION {Range(ss[j]) : j \in 1 .. i}
                         /\ Apart => IsInjective(h[i])
           Bad == {i \in 1 .. n : ~ IsRight(i)}
<1>10. Bad = {}
  <2> SUFFICES ASSUME Bad # {} PROVE FALSE OBVIOUS
  <2>1. PICK i \in Bad : \A j \in Bad : i <= j
    <3>1. Bad \subseteq Nat OBVIOUS
    <3> HIDE DEF Bad
    <3> QED BY <3>1, LeastNatural
  <2>2. i \in 1 .. n /\ ~ IsRight(i) BY <2>1
  <2> HIDE DEF Apart
  <2>3. CASE i = 1
    <3>1. h[1] = ss[1] /\ 1 \in 1 .. n /\ 1 .. 1 = {1} BY <1>9, <2>2, <2>3
    <3>2. UNION {Range(ss[j]) : j \in 1 .. 1} = Range(ss[1]) BY <3>1
    <3>3. IsRight(1) BY <3>1, <3>2 DEF Apart
    <3> QED BY <2>2, <2>3, <3>3
  <2>4. CASE i # 1
    <3>1. i - 1 \in 1 .. n /\ ~ (i <= i - 1) /\ 1 .. i = (1 .. (i - 1)) \cup {i}
      BY <2>2, <2>4
    <3>2. IsRight(i - 1) BY <2>1, <3>1
    <3>3. h[i] = h[i - 1] \o ss[i] BY <1>9, <2>2, <2>4
    <3>4. h[i] \in Seq(S) /\ Range(h[i]) = Range(h[i - 1]) \cup Range(ss[i])
      <4>1. h[i - 1] \in Seq(S) /\ ss[i] \in Seq(S) BY <2>2, <3>2
      <4> QED BY <3>3, <4>1, RangeOfConcat
    <3>5. Range(h[i]) = UNION {Range(ss[j]) : j \in 1 .. i} BY <3>1, <3>2, <3>4
    <3>6. Apart => IsInjective(h[i])
      <4> SUFFICES ASSUME Apart PROVE IsInjective(h[i])
        OBVIOUS
      <4>1. \A j \in 1 .. (i - 1) : Range(ss[j]) \cap Range(ss[i]) = {}
        <5>1. \A j \in 1 .. (i - 1) : j \in 1 .. n /\ j # i BY <2>2
        <5> QED BY <2>2, <5>1 DEF Apart
      <4>2. Range(h[i - 1]) \cap Range(ss[i]) = {} BY <3>2, <4>1
      <4>3. h[i - 1] \in Seq(S) /\ ss[i] \in Seq(S) /\ IsInjective(h[i - 1]) /\ IsInjective(ss[i])
        BY <2>2, <3>2 DEF Apart
      <4> QED BY <3>3, <4>2, <4>3, ConcatIsInjective
    <3> QED BY <2>2, <3>4, <3>5, <3>6
  <2> QED BY <2>3, <2>4
<1>11. IsRight(n)
  <2>1. n \in 1 .. n OBVIOUS
  <2> HIDE DEF IsRight
  <2> QED BY <1>10, <2>1
<1> QED BY <1>8, <1>11

\* There are finitely many functions between finite sets.
LEMMA FunctionsAreFinite ==
  ASSUME NEW S, IsFiniteSet(S), NEW T, IsFiniteSet(T)
  PROVE  IsFiniteSet([S -> T])
<1> DEFINE Good == {s \in SUBSET S : IsFiniteSet([s -> T])}
<1>1. {} \in Good
  <2> DEFINE empty == [x \in {} |-> x]
  <2>1. \A f \in [{} -> T] : f = empty OBVIOUS
  <2>2. [{} -> T] \subseteq {empty} BY <2>1
  <2> HIDE DEF empty
  <2>3. IsFiniteSet({empty}) BY FS_Singleton
  <2>4. IsFiniteSet([{} -> T]) BY <2>2, <2>3, FS_Subset
  <2> QED BY <2>4
<1>2. \A s \in SUBSET S : s # {} => \E x \in s : s \ {x} \in Good => s \in Good
  <2> SUFFICES ASSUME NEW s \in SUBSET S, NEW x \in s, IsFiniteSet([s \ {x} -> T])
               PROVE  IsFiniteSet([s -> T])
    OBVIOUS
  <2> DEFINE P == [s \ {x} -> T] \X T
             F == [p \in P |-> [y \in s |-> IF y = x THEN p[2] ELSE p[1][y]]]
  <2>1. IsFiniteSet(P) BY FS_Product
  <2>2. F \in [P -> [s -> T]]
    <3> SUFFICES ASSUME NEW f \in [s \ {x} -> T], NEW t \in T
                 PROVE  [y \in s |-> IF y = x THEN t ELSE f[y]] \in [s -> T]
      OBVIOUS
    <3> QED OBVIOUS
  <2>3. ASSUME NEW f \in [s -> T] PROVE \E p \in P : F[p] = f
    <3> DEFINE r == [y \in s \ {x} |-> f[y]]
    <3>1. r \in [s \ {x} -> T] /\ f[x] \in T /\ <<r, f[x]>> \in P OBVIOUS
    <3>2. \A y \in s : (IF y = x THEN f[x] ELSE r[y]) = f[y] OBVIOUS
    <3>3. F[<<r, f[x]>>] = [y \in s |-> IF y = x THEN f[x] ELSE r[y]] BY <3>1
    <3> HIDE DEF r, F, P
    <3>4. F[<<r, f[x]>>] = f BY <3>2, <3>3
    <3> QED BY <3>1, <3>4
  <2> HIDE DEF F, P
  <2>4. F \in Surjection(P, [s -> T]) BY <2>2, <2>3 DEF Surjection
  <2> QED BY <2>1, <2>4, FS_Surjection
<1>3. S \in Good
  <2> HIDE DEF Good
  <2> QED BY <1>1, <1>2, SubsetInduction
<1> QED BY <1>3

-----------------------------------------------------------------------------
(* Lists of sets *)

PickOne(s) == CHOOSE x \in s : TRUE

ListsOf(S) ==
  CHOOSE g : g = [s \in SUBSET S |->
                    IF s = {} THEN <<>> ELSE Append(g[s \ {PickOne(s)}], PickOne(s))]

\* s has each element of S once.
IsListOf(s, n, S) ==
  /\ n \in Nat /\ s \in [1 .. n -> S] /\ Len(s) = n
  /\ \A x \in S : \E i \in 1 .. n : s[i] = x
  /\ \A i, j \in 1 .. n : s[i] = s[j] => i = j

\* Appending the elements of a finite set one after the other lists it.
LEMMA ListsFacts ==
  ASSUME NEW S, IsFiniteSet(S)
  PROVE  \E n : IsListOf(ListsOf(S)[S], n, S)
<1> DEFINE Step(g) == [s \in SUBSET S |->
             IF s = {} THEN <<>> ELSE Append(g[s \ {PickOne(s)}], PickOne(s))]
           ch == [s \in SUBSET S |-> PickOne(s)]
           F == [p \in S \X Seq(S) |-> Append(p[2], p[1])]
<1>1. \A s \in SUBSET S : s # {} => PickOne(s) \in s /\ ch[s] = PickOne(s) BY DEF PickOne
<1>2. \A s \in SUBSET S : s # {} => ch[s] \in s BY <1>1
<1>3. F \in [S \X Seq(S) -> Seq(S)] OBVIOUS
<1>4. \A x \in S, t \in Seq(S) : F[<<x, t>>] = Append(t, x) OBVIOUS
<1>5. \E g \in [SUBSET S -> Seq(S)] : g = Step(g)
  <2> HIDE DEF ch, F
  <2>0. <<>> \in Seq(S) BY EmptySeq
  <2>1. PICK g \in [SUBSET S -> Seq(S)] : IsFold(g, S, <<>>, F, ch)
    BY <1>2, <1>3, <2>0, RecursionOnSubsets
  <2>2. ASSUME NEW s \in SUBSET S PROVE g[s] = Step(g)[s]
    <3>1. CASE s = {} BY <2>1, <3>1 DEF IsFold
    <3>2. CASE s # {}
      <4>1. PickOne(s) \in S /\ g[s \ {PickOne(s)}] \in Seq(S) /\ ch[s] = PickOne(s)
        BY <1>1, <2>1, <3>2
      <4>2. g[s] = F[<<PickOne(s), g[s \ {PickOne(s)}]>>] BY <2>1, <3>2, <4>1 DEF IsFold
      <4> QED BY <1>4, <3>2, <4>1, <4>2
    <3> QED BY <3>1, <3>2
  <2>3. g = Step(g)
    <3>1. g = [s \in SUBSET S |-> g[s]] BY <2>1
    <3>2. Step(g) = [s \in SUBSET S |-> Step(g)[s]] OBVIOUS
    <3> HIDE DEF Step
    <3> QED BY <2>2, <3>1, <3>2
  <2> HIDE DEF Step
  <2> QED BY <2>1, <2>3
<1>6. PICK lists : lists = ListsOf(S) OBVIOUS
<1>7. lists = Step(lists) BY <1>5, <1>6 DEF ListsOf
<1>8. \A s \in SUBSET S :
        lists[s] = IF s = {} THEN <<>> ELSE Append(lists[s \ {PickOne(s)}], PickOne(s))
  BY <1>7
<1> DEFINE Good == {s \in SUBSET S : /\ lists[s] \in Seq(s) /\ Range(lists[s]) = s
                                     /\ IsInjective(lists[s])}
<1>9. {} \in Good
  <2>1. lists[{}] = <<>> BY <1>8
  <2>2. IsInjective(<<>>)
    <3>1. DOMAIN <<>> = {} OBVIOUS
    <3> QED BY <3>1 DEF IsInjective
  <2>3. <<>> \in Seq({}) BY EmptySeq
  <2> QED BY <2>1, <2>2, <2>3, RangeOfEmpty
<1>10. \A s \in SUBSET S : s # {} => \E x \in s : s \ {x} \in Good => s \in Good
  <2> SUFFICES ASSUME NEW s \in SUBSET S, s # {}, s \ {PickOne(s)} \in Good PROVE s \in Good
    BY <1>1
  <2>1. PICK x \in s : x = PickOne(s) BY <1>1
  <2>2. PICK t : t = lists[s \ {x}] OBVIOUS
  <2>3. t \in Seq(s \ {x}) /\ Range(t) = s \ {x} /\ IsInjective(t) BY <2>1, <2>2
  <2>4. lists[s] = Append(t, x) BY <1>8, <2>1, <2>2
  <2>5. t \in Seq(s) BY <2>3
  <2>6. x \notin Range(t) BY <2>3
  <2>7. /\ Append(t, x) \in Seq(s) /\ Range(Append(t, x)) = Range(t) \cup {x}
        /\ IsInjective(Append(t, x))
    BY <2>3, <2>5, <2>6, RangeOfAppend, AppendIsInjective
  <2> QED BY <2>3, <2>4, <2>7
<1>11. S \in Good
  <2> HIDE DEF Good
  <2> QED BY <1>9, <1>10, SubsetInduction
<1>12. PICK l : l = lists[S] OBVIOUS
<1>13. l \in Seq(S) /\ Range(l) = S /\ IsInjective(l) BY <1>11, <1>12
<1>14. IsListOf(l, Len(l), S) BY <1>13 DEF IsListOf, Range, IsInjective
<1> QED BY <1>6, <1>12, <1>14

\* The library's fold over the set is this list.
LEMMA FoldIsList ==
  \A S : FoldSet(LAMBDA x, acc : Append(acc, x), <<>>, S) = ListsOf(S)[S]
BY DEF ListsOf, FoldSet, MapThenFoldSet, PickOne

\* How many elements are not greater.
RankIn(S, x) == Cardinality({y \in S : y <= x})

RankedList(S) == [i \in 1 .. Cardinality(S) |-> CHOOSE x \in S : RankIn(S, x) = i]

\* It has the numbers of a set, each once.
LEMMA RankedFacts ==
  ASSUME NEW S, IsFiniteSet(S), S \subseteq Nat
  PROVE  IsListOf(RankedList(S), Cardinality(S), S)
<1>1. PICK s : GoesUpThrough(s, S) BY AscendingListExists
<1>2. PICK n \in Nat : n = Cardinality(S) BY <1>1 DEF GoesUpThrough
<1>3. /\ s \in [1 .. n -> S]
      /\ \A x \in S : \E i \in 1 .. n : s[i] = x
      /\ \A i, j \in 1 .. n : i < j => s[i] < s[j]
  BY <1>1, <1>2 DEF GoesUpThrough
<1>4. ASSUME NEW i \in 1 .. n PROVE RankIn(S, s[i]) = i
  <2>1. \A j \in 1 .. n : s[j] <= s[i] <=> j <= i
    <3> SUFFICES ASSUME NEW j \in 1 .. n PROVE s[j] <= s[i] <=> j <= i
      OBVIOUS
    <3>1. s[i] \in Nat /\ s[j] \in Nat BY <1>3
    <3>2. i < j \/ j < i \/ i = j OBVIOUS
    <3> QED BY <1>3, <3>1, <3>2
  <2>2. PICK low : low = {y \in S : y <= s[i]} OBVIOUS
  <2>3. PICK r : r = [j \in 1 .. i |-> s[j]] OBVIOUS
  <2>4. r \in [1 .. i -> low] BY <1>3, <2>1, <2>2, <2>3
  <2>5. \A j, k \in 1 .. i : r[j] = r[k] => j = k
    <3> SUFFICES ASSUME NEW j \in 1 .. i, NEW k \in 1 .. i, s[j] = s[k] PROVE j = k
      BY <2>3
    <3>0. j \in 1 .. n /\ k \in 1 .. n OBVIOUS
    <3>1. s[j] \in Nat /\ s[k] \in Nat BY <1>3, <3>0
    <3>2. ~ (j < k) /\ ~ (k < j) BY <1>3, <3>0, <3>1
    <3> QED BY <3>2
  <2>6. \A y \in low : \E j \in 1 .. i : r[j] = y
    <3> SUFFICES ASSUME NEW y \in low PROVE \E j \in 1 .. i : r[j] = y
      OBVIOUS
    <3>1. PICK j \in 1 .. n : s[j] = y BY <1>3, <2>2
    <3>2. j \in 1 .. i BY <2>1, <2>2, <3>1
    <3> QED BY <2>3, <3>1, <3>2
  <2>7. r \in Bijection(1 .. i, low)
    BY <2>4, <2>5, <2>6 DEF Bijection, Injection, Surjection, IsInjective
  <2>8. IsFiniteSet(1 .. i) /\ Cardinality(1 .. i) = i BY FS_Interval
  <2>9. Cardinality(low) = i
    <3>1. ExistsBijection(1 .. i, low) BY <2>7 DEF ExistsBijection
    <3>2. IsFiniteSet(low) BY <2>2, FS_Subset
    <3> QED BY <2>8, <3>1, <3>2, FS_Bijection
  <2> QED BY <2>2, <2>9 DEF RankIn
<1>5. PICK l : l = RankedList(S) OBVIOUS
<1>6. l = [i \in 1 .. n |-> CHOOSE x \in S : RankIn(S, x) = i] BY <1>2, <1>5 DEF RankedList
<1>7. \A i \in 1 .. n : l[i] \in S /\ RankIn(S, l[i]) = i
  <2> SUFFICES ASSUME NEW i \in 1 .. n PROVE l[i] \in S /\ RankIn(S, l[i]) = i
    OBVIOUS
  <2>1. \E x \in S : RankIn(S, x) = i BY <1>3, <1>4
  <2>2. l[i] = CHOOSE x \in S : RankIn(S, x) = i BY <1>6
  <2> QED BY <2>1, <2>2
<1>8. l \in [1 .. n -> S] BY <1>6, <1>7
<1>9. Len(l) = n BY <1>8, LenOfFunction
<1>10. ASSUME NEW x \in S PROVE \E i \in 1 .. n : l[i] = x
  <2>1. PICK i \in 1 .. n : s[i] = x BY <1>3
  <2>2. PICK j \in 1 .. n : s[j] = l[i] BY <1>3, <1>7
  <2>3. RankIn(S, l[i]) = i /\ RankIn(S, l[i]) = j BY <1>4, <1>7, <2>2
  <2> QED BY <2>1, <2>2, <2>3
<1>11. \A i, j \in 1 .. n : l[i] = l[j] => i = j BY <1>7
<1> QED BY <1>2, <1>5, <1>8, <1>9, <1>10, <1>11 DEF IsListOf

-----------------------------------------------------------------------------
(* Loops over a vector *)

\* g has the states of the first rounds of a loop.
IsRunTo(g, m, c, base, seq) ==
  g = [i \in 0 .. m |-> IF i = 0 THEN base ELSE LoopBody(c, g[i - 1], seq[i])]

\* A loop has its states, one after the other.
LEMMA LoopHasRun ==
  ASSUME NEW n \in Nat, NEW c, NEW base, NEW seq
  PROVE  \E g : IsRunTo(g, n, c, base, seq)
<1> DEFINE Good == {m \in 0 .. n : \E g : IsRunTo(g, m, c, base, seq)}
<1>1. 0 \in Good
  <2>1. IsRunTo([i \in 0 .. 0 |-> base], 0, c, base, seq)
    <3> DEFINE g == [i \in 0 .. 0 |-> base]
    <3>1. g = [i \in 0 .. 0 |-> IF i = 0 THEN base ELSE LoopBody(c, g[i - 1], seq[i])] OBVIOUS
    <3> QED BY <3>1 DEF IsRunTo
  <2> QED BY <2>1
<1>2. ASSUME NEW m \in 1 .. n, m - 1 \in Good PROVE m \in Good
  <2>1. PICK g : g = [i \in 0 .. m - 1 |-> IF i = 0 THEN base ELSE LoopBody(c, g[i - 1], seq[i])]
    BY <1>2 DEF IsRunTo
  <2> DEFINE h == [i \in 0 .. m |-> IF i = 0 THEN base ELSE LoopBody(c, g[i - 1], seq[i])]
  <2>2. \A i \in 0 .. m - 1 : h[i] = g[i] BY <2>1
  <2>3. \A i \in 0 .. m : i # 0 => i - 1 \in 0 .. m - 1 OBVIOUS
  <2>4. h = [i \in 0 .. m |-> IF i = 0 THEN base ELSE LoopBody(c, h[i - 1], seq[i])] BY <2>2, <2>3
  <2>5. IsRunTo(h, m, c, base, seq)
    <3> HIDE DEF h
    <3> QED BY <2>4 DEF IsRunTo
  <2> QED BY <2>5
<1>3. 0 .. n \subseteq Good
  <2> HIDE DEF Good
  <2> QED BY <1>1, <1>2, InductionUpTo
<1> QED BY <1>3

\* What holds before the first round and is kept by each round holds after the last one.
LEMMA LoopKeepsInvariant ==
  ASSUME NEW c, NEW base, NEW seq, Len(seq) \in Nat,
         LoopInvariant(c, 0, base),
         \A i \in 1 .. Len(seq) : \A a :
           LoopInvariant(c, i - 1, a) => LoopInvariant(c, i, LoopBody(c, a, seq[i]))
  PROVE  LoopInvariant(c, Len(seq), Loop(c, base, seq))
<1>1. PICK n \in Nat : n = Len(seq) OBVIOUS
<1>2. \E g : g = [i \in 0 .. n |-> IF i = 0 THEN base ELSE LoopBody(c, g[i - 1], seq[i])]
  <2>1. \E g : IsRunTo(g, n, c, base, seq) BY LoopHasRun
  <2> QED BY <2>1 DEF IsRunTo
<1>3. PICK g : g = CHOOSE f : f = [i \in 0 .. n |-> IF i = 0 THEN base ELSE LoopBody(c, f[i - 1], seq[i])]
  OBVIOUS
<1>4. g = [i \in 0 .. n |-> IF i = 0 THEN base ELSE LoopBody(c, g[i - 1], seq[i])] BY <1>2, <1>3
<1>5. Loop(c, base, seq) = g[n] BY <1>1, <1>3 DEF Loop
<1> DEFINE Good == {i \in 0 .. n : LoopInvariant(c, i, g[i])}
<1>6. 0 \in Good BY <1>4
<1>7. ASSUME NEW i \in 1 .. n, i - 1 \in Good PROVE i \in Good
  <2>1. g[i] = LoopBody(c, g[i - 1], seq[i]) BY <1>4
  <2>2. LoopInvariant(c, i - 1, g[i - 1]) BY <1>7
  <2> QED BY <1>1, <2>1, <2>2
<1>8. 0 .. n \subseteq Good
  <2> HIDE DEF Good
  <2> QED BY <1>6, <1>7, InductionUpTo
<1> QED BY <1>1, <1>5, <1>8

=============================================================================
