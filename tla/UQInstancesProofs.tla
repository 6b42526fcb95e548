---------------------------- MODULE UQInstancesProofs ----------------------------
(***************************************************************************)
(* Proofs about the iterator over rule instances, for every number of      *)
(* quantifications and every bound.                                        *)
(***************************************************************************)
EXTENDS UQInstances, SequenceLemmas

Uses == [Quants -> Nat]
Instances == [uses : Uses, variant : Nat]

IteratorTypeOK ==
  /\ input \in Inputs
  /\ phase \in {"loading", "ready", "ended"} /\ firstTime \in BOOLEAN
  /\ currentQuant \in Uses /\ curIt \in Nat \ {0}
  /\ currentInstances \in Seq(Instances) /\ delivered \in Seq(Instances)

\* q comes before r in the order in which the odometer counts, on the digits from c
\* on: the last digit that differs decides.
Before(q, r, c) ==
  \E i \in Quants : /\ i >= c /\ q[i] < r[i]
                    /\ \A j \in Quants : j > i => q[j] = r[j]

\* No digit from c on says that q is still to come.
UpTo(q, c) ==
  (\A j \in Quants : j >= c => q[j] = currentQuant[j]) \/ Before(q, currentQuant, c)

\* What was prepared is behind the odometer, also while a digit is carried.
BehindOdometer ==
  \A d \in Range(delivered) \cup Range(currentInstances) :
    UpTo(d.uses, IF phase = "ready" THEN 1 ELSE curIt)

NothingAtFirst ==
  firstTime => phase = "loading" /\ curIt = 1 /\ delivered = <<>> /\ currentInstances = <<>>

\* The instances stored: all different, the last one delivered, and all others but
\* the first still to be delivered.
StoredInstances ==
  /\ phase = "ready" => currentInstances # <<>>
  /\ phase = "loading" => Len(currentInstances) <= 1
  /\ currentInstances # <<>> => currentInstances[Len(currentInstances)] \in Range(delivered)
  /\ \A i, j \in DOMAIN currentInstances : currentInstances[i] = currentInstances[j] => i = j
  /\ \A i \in 2 .. Len(currentInstances) - 1 : currentInstances[i] \notin Range(delivered)

\* Only the instance at the bottom of the stack comes again.
RepeatedIsFirst ==
  phase # "ended" => \A x \in Repeated : currentInstances # <<>> /\ x = currentInstances[1]

IteratorInv ==
  /\ IteratorTypeOK /\ BehindOdometer /\ NothingAtFirst /\ StoredInstances
  /\ RepeatedIsFirst /\ OnlyOneIsRepeated

-----------------------------------------------------------------------------
(* Facts about the data *)

\* What the preparer returns for the uses q.
LEMMA PreparedFacts ==
  ASSUME NEW in \in Inputs, NEW q \in Uses
  PROVE  /\ Prepared(in, q) \in Seq(Instances)
         /\ \A i \in 1 .. Len(Prepared(in, q)) :
              Prepared(in, q)[i].uses = q /\ Prepared(in, q)[i].variant = i
<1>1. in.variants \in Nat BY InputsAreTyped DEF InputType
<1>2. CASE IsNoOp(in, q) BY <1>2, EmptySeq DEF Prepared
<1>3. CASE ~ IsNoOp(in, q)
  <2> DEFINE p == [k \in 1 .. in.variants |-> [uses |-> q, variant |-> k]]
  <2>1. p \in [1 .. in.variants -> Instances] BY DEF Instances
  <2>2. p \in Seq(Instances) BY <1>1, <2>1, SeqDef
  <2>3. Len(p) = in.variants
    <3>1. Len(p) \in Nat /\ DOMAIN p = 1 .. Len(p) BY <2>2, LenProperties
    <3>2. DOMAIN p = 1 .. in.variants OBVIOUS
    <3> HIDE DEF p
    <3> QED BY <1>1, <3>1, <3>2
  <2>4. Prepared(in, q) = p BY <1>3 DEF Prepared
  <2>5. \A i \in 1 .. in.variants : p[i].uses = q /\ p[i].variant = i OBVIOUS
  <2> HIDE DEF p
  <2> QED BY <2>2, <2>3, <2>4, <2>5
<1> QED BY <1>2, <1>3

\* What is appended to the deliveries repeats only if it was there.
LEMMA RepeatedOfAppend ==
  ASSUME IteratorTypeOK, NEW x \in Instances, delivered' = Append(delivered, x)
  PROVE  /\ Range(delivered') = Range(delivered) \cup {x}
         /\ Repeated' = IF x \in Range(delivered) THEN Repeated \cup {x} ELSE Repeated
         /\ delivered' \in Seq(Instances)
<1> DEFINE n == Len(delivered)
<1>1. /\ delivered \in Seq(Instances) /\ n \in Nat /\ DOMAIN delivered = 1 .. n
  BY LenProperties DEF IteratorTypeOK
<1>2. /\ delivered' \in Seq(Instances) /\ Len(delivered') = n + 1
      /\ \A i \in 1 .. n : delivered'[i] = delivered[i]
      /\ delivered'[n + 1] = x
  BY <1>1, AppendProperties
<1>3. DOMAIN delivered' = 1 .. n + 1 BY <1>2, LenProperties
<1>4. Range(delivered') = Range(delivered) \cup {x} BY <1>1, RangeOfAppend
<1>5. /\ \A y : y \in Repeated <=>
              \E k \in 1 .. n : y = delivered[k] /\ \E j \in 1 .. k - 1 : delivered[k] = delivered[j]
      /\ \A y : y \in Repeated' <=>
              \E k \in 1 .. n + 1 :
                y = delivered'[k] /\ \E j \in 1 .. k - 1 : delivered'[k] = delivered'[j]
  BY <1>1, <1>3 DEF Repeated
<1>6. x \in Range(delivered) <=> \E j \in 1 .. n : x = delivered[j]
  BY <1>1 DEF Range
<1> HIDE DEF n
<1>7. ASSUME NEW y PROVE y \in Repeated' <=> y \in Repeated \/ (y = x /\ x \in Range(delivered))
  <2>1. ASSUME NEW k \in 1 .. n
        PROVE  (y = delivered'[k] /\ \E j \in 1 .. k - 1 : delivered'[k] = delivered'[j])
               <=> (y = delivered[k] /\ \E j \in 1 .. k - 1 : delivered[k] = delivered[j])
    <3>1. \A j \in 1 .. k - 1 : j \in 1 .. n BY <1>1
    <3> QED BY <1>2, <3>1
  <2>2. (y = delivered'[n + 1] /\ \E j \in 1 .. (n + 1) - 1 : delivered'[n + 1] = delivered'[j])
        <=> (y = x /\ x \in Range(delivered))
    <3>1. 1 .. (n + 1) - 1 = 1 .. n BY <1>1
    <3> QED BY <1>2, <1>6, <3>1
  <2> DEFINE Again(k) == y = delivered'[k] /\ \E j \in 1 .. k - 1 : delivered'[k] = delivered'[j]
  <2>3. y \in Repeated' <=> \E k \in 1 .. n + 1 : Again(k) BY <1>5
  <2>4. /\ \A k \in 1 .. n + 1 : k \in 1 .. n \/ k = n + 1
        /\ n + 1 \in 1 .. n + 1 /\ \A k \in 1 .. n : k \in 1 .. n + 1
    BY <1>1
  <2>5. y \in Repeated' <=> (\E k \in 1 .. n : Again(k)) \/ Again(n + 1)
    <3> HIDE DEF Again
    <3> QED BY <2>3, <2>4
  <2>6. y \in Repeated <=> \E k \in 1 .. n : Again(k)
    BY <1>5, <2>1
  <2> QED BY <2>2, <2>5, <2>6
<1> QED BY <1>2, <1>4, <1>7

-----------------------------------------------------------------------------
(* The odometer *)

\* Counting at the current digit goes past everything delivered.
LEMMA CountedIsNew ==
  ASSUME IteratorTypeOK, BehindOdometer, NothingAtFirst, phase = "loading", curIt \in Quants,
         NEW d \in Range(delivered) \cup Range(currentInstances)
  PROVE  Before(d.uses, Counted, curIt) /\ d.uses # Counted
<1>1. ~ firstTime
  BY RangeOfEmpty DEF NothingAtFirst
<1>2. Counted = [currentQuant EXCEPT ![curIt] = @ + 1] BY <1>1 DEF Counted
<1>3. UpTo(d.uses, curIt) BY DEF BehindOdometer
<1>4. d.uses \in Uses /\ currentQuant \in Uses
  BY RangeIsSubset DEF IteratorTypeOK, Instances
<1>5. /\ Counted[curIt] = currentQuant[curIt] + 1
      /\ \A j \in Quants : j # curIt => Counted[j] = currentQuant[j]
  BY <1>2, <1>4 DEF Uses
<1>6. Quants \subseteq Nat BY DEF Quants
<1>7. Before(d.uses, Counted, curIt)
  <2>1. CASE \A j \in Quants : j >= curIt => d.uses[j] = currentQuant[j]
    <3>1. d.uses[curIt] < Counted[curIt] BY <1>4, <1>5, <1>6, <2>1 DEF Uses
    <3>2. \A j \in Quants : j > curIt => d.uses[j] = Counted[j] BY <1>5, <1>6, <2>1
    <3>3. curIt \in Quants /\ curIt >= curIt BY <1>6
    <3> QED BY <3>1, <3>2, <3>3 DEF Before
  <2>2. ASSUME NEW i \in Quants, i >= curIt, d.uses[i] < currentQuant[i],
               \A j \in Quants : j > i => d.uses[j] = currentQuant[j]
        PROVE  Before(d.uses, Counted, curIt)
    <3>1. d.uses[i] < Counted[i] BY <1>4, <1>5, <1>6, <2>2 DEF Uses
    <3>2. \A j \in Quants : j > i => d.uses[j] = Counted[j] BY <1>5, <1>6, <2>2
    <3> QED BY <2>2, <3>1, <3>2 DEF Before
  <2> QED BY <1>3, <2>1, <2>2 DEF UpTo, Before
<1>8. d.uses # Counted
  <2>1. PICK i \in Quants : d.uses[i] < Counted[i] BY <1>7 DEF Before
  <2>2. d.uses[i] \in Nat BY <1>4 DEF Uses
  <2> QED BY <2>1, <2>2
<1> QED BY <1>7, <1>8

\* What has been tried at least once is a vector of multiplicities.
LEMMA CountedType == ASSUME IteratorTypeOK, curIt \in Quants PROVE Counted \in Uses
BY DEF IteratorTypeOK, Counted, Uses

-----------------------------------------------------------------------------
(* The actions *)

\* The next stored instance is a new one, or the one at the bottom of the stack.
LEMMA NextStoredKeeps == ASSUME IteratorInv, NextStored PROVE IteratorInv'
<1> DEFINE n == Len(currentInstances)
           x == currentInstances[n - 1]
<1>1. /\ phase = "ready" /\ n > 1 /\ currentInstances' = Front(currentInstances)
      /\ delivered' = Append(delivered, Last(currentInstances'))
      /\ UNCHANGED <<input, phase, firstTime, currentQuant, curIt>>
  BY DEF NextStored
<1>2. /\ currentInstances \in Seq(Instances) /\ n \in Nat
      /\ DOMAIN currentInstances = 1 .. n /\ IteratorTypeOK
  BY LenProperties DEF IteratorInv, IteratorTypeOK
<1>3. currentInstances # <<>> BY <1>1, EmptySeq
<1>4. /\ currentInstances' \in Seq(Instances) /\ Len(currentInstances') = n - 1
      /\ \A i \in 1 .. n - 1 : currentInstances'[i] = currentInstances[i]
  BY <1>1, <1>2, <1>3, FrontElements
<1>5. DOMAIN currentInstances' = 1 .. n - 1 BY <1>4, LenProperties
<1>6. n - 1 \in 1 .. n /\ n - 1 \in 1 .. n - 1 BY <1>1, <1>2
<1>7. x \in Instances BY <1>2, <1>6, ElementOfSeq
<1>8. delivered' = Append(delivered, x)
  BY <1>1, <1>4, <1>6 DEF Last
<1> HIDE DEF n, x
<1>9. /\ Range(delivered') = Range(delivered) \cup {x}
      /\ Repeated' = IF x \in Range(delivered) THEN Repeated \cup {x} ELSE Repeated
      /\ delivered' \in Seq(Instances)
  BY <1>2, <1>7, <1>8, RepeatedOfAppend
<1>10. /\ phase' = "ready" /\ currentInstances' # <<>>
       /\ currentInstances'[1] = currentInstances[1]
       /\ currentInstances'[n - 1] = x
  BY <1>1, <1>2, <1>4, <1>6, EmptySeq DEF x
<1>11. x \in Range(currentInstances) /\ Range(currentInstances') \subseteq Range(currentInstances)
  BY <1>2, <1>4, <1>5, <1>6 DEF Range, x
<1>12. x \in Range(delivered) => x = currentInstances[1]
  <2>1. n - 1 \in 2 .. n - 1 => x \notin Range(delivered)
    BY DEF IteratorInv, StoredInstances, n, x
  <2>2. n - 1 \notin 2 .. n - 1 => n - 1 = 1 BY <1>1, <1>2
  <2> QED BY <2>1, <2>2 DEF x
<1>13. IteratorTypeOK' BY <1>1, <1>2, <1>4, <1>9 DEF IteratorTypeOK
<1>14. BehindOdometer'
  BY <1>1, <1>9, <1>11 DEF IteratorInv, BehindOdometer, UpTo, Before
<1>15. NothingAtFirst' BY <1>1 DEF IteratorInv, NothingAtFirst
<1>16. StoredInstances'
  <2>1. \A i, j \in 1 .. n - 1 : currentInstances[i] = currentInstances[j] => i = j
    BY <1>2 DEF IteratorInv, StoredInstances
  <2>2. \A i \in 2 .. (n - 1) - 1 : currentInstances[i] \notin Range(delivered)
    BY <1>2 DEF IteratorInv, StoredInstances, n
  <2>3. \A i \in 2 .. (n - 1) - 1 : i \in 1 .. n - 1 /\ i # n - 1 BY <1>2
  <2>4. \A i \in 2 .. (n - 1) - 1 : currentInstances'[i] \notin Range(delivered')
    BY <1>4, <1>6, <1>9, <2>1, <2>2, <2>3 DEF x
  <2>5. \A i, j \in 1 .. n - 1 : currentInstances'[i] = currentInstances'[j] => i = j
    BY <1>4, <2>1
  <2>6. x \in Range(delivered') BY <1>9
  <2> QED BY <1>4, <1>5, <1>10, <2>4, <2>5, <2>6 DEF StoredInstances
<1>17. \A y \in Repeated' : y = currentInstances'[1]
  BY <1>1, <1>9, <1>10, <1>12 DEF IteratorInv, RepeatedIsFirst
<1>18. RepeatedIsFirst' /\ OnlyOneIsRepeated'
  BY <1>10, <1>17 DEF RepeatedIsFirst, OnlyOneIsRepeated
<1> QED BY <1>13, <1>14, <1>15, <1>16, <1>18 DEF IteratorInv

\* The search for the next instance keeps the one that is left.
LEMMA StartSearchKeeps == ASSUME IteratorInv, StartSearch PROVE IteratorInv'
<1>1. /\ phase = "ready" /\ Len(currentInstances) <= 1 /\ phase' = "loading"
      /\ curIt' = 1 /\ firstTime' = FALSE
      /\ UNCHANGED <<input, currentQuant, currentInstances, delivered>>
  BY DEF StartSearch
<1>2. IteratorTypeOK' /\ NothingAtFirst'
  <2>1. curIt' \in Nat \ {0} BY <1>1
  <2>2. firstTime' \in BOOLEAN /\ ~ firstTime' BY <1>1
  <2>3. phase' \in {"loading", "ready", "ended"} BY <1>1
  <2>4. IteratorTypeOK' BY <1>1, <2>1, <2>2, <2>3 DEF IteratorInv, IteratorTypeOK
  <2>5. NothingAtFirst' BY <2>2 DEF NothingAtFirst
  <2> QED BY <2>4, <2>5
<1>5. StoredInstances' BY <1>1 DEF IteratorInv, StoredInstances
<1>3. BehindOdometer' BY <1>1 DEF IteratorInv, BehindOdometer, UpTo, Before
<1>4. RepeatedIsFirst' /\ OnlyOneIsRepeated'
  <2>1. Repeated' = Repeated BY <1>1 DEF Repeated
  <2> QED BY <1>1, <2>1 DEF IteratorInv, RepeatedIsFirst, OnlyOneIsRepeated
<1> QED BY <1>2, <1>3, <1>4, <1>5 DEF IteratorInv

\* A full digit is reset and the next one counts: nothing behind comes in front.
LEMMA CarryKeeps == ASSUME IteratorInv, Carry PROVE IteratorInv'
<1>1. /\ phase = "loading" /\ curIt \in Quants /\ firstTime' = FALSE /\ curIt' = curIt + 1
      /\ currentQuant' = [currentQuant EXCEPT ![curIt] = 0]
      /\ UNCHANGED <<input, phase, currentInstances, delivered>>
  BY DEF Carry
<1>2. IteratorTypeOK' /\ NothingAtFirst'
  <2>1. currentQuant' \in Uses BY <1>1 DEF IteratorInv, IteratorTypeOK, Uses
  <2>2. curIt' \in Nat \ {0} BY <1>1 DEF IteratorInv, IteratorTypeOK
  <2> QED BY <1>1, <2>1, <2>2 DEF IteratorInv, IteratorTypeOK, NothingAtFirst
<1>5. StoredInstances' BY <1>1 DEF IteratorInv, StoredInstances
<1>3. BehindOdometer'
  <2>1. Quants \subseteq Nat /\ curIt \in Nat /\ currentQuant \in Uses
    BY <1>1 DEF Quants, IteratorInv, IteratorTypeOK
  <2>2. \A j \in Quants : j # curIt => currentQuant'[j] = currentQuant[j]
    BY <1>1, <2>1 DEF Uses
  <2>3. ASSUME NEW d \in Range(delivered) \cup Range(currentInstances)
        PROVE  \/ \A j \in Quants : j >= curIt + 1 => d.uses[j] = currentQuant'[j]
               \/ \E i \in Quants : /\ i >= curIt + 1 /\ d.uses[i] < currentQuant'[i]
                                    /\ \A j \in Quants : j > i => d.uses[j] = currentQuant'[j]
    <3>1. UpTo(d.uses, curIt) BY <1>1 DEF IteratorInv, BehindOdometer
    <3>2. CASE \A j \in Quants : j >= curIt => d.uses[j] = currentQuant[j]
      BY <2>1, <2>2, <3>2
    <3>3. ASSUME NEW i \in Quants, i >= curIt, d.uses[i] < currentQuant[i],
                 \A j \in Quants : j > i => d.uses[j] = currentQuant[j]
          PROVE  \/ \A j \in Quants : j >= curIt + 1 => d.uses[j] = currentQuant'[j]
                 \/ \E k \in Quants : /\ k >= curIt + 1 /\ d.uses[k] < currentQuant'[k]
                                      /\ \A j \in Quants : j > k => d.uses[j] = currentQuant'[j]
      <4>1. \A j \in Quants : j > i => d.uses[j] = currentQuant'[j] BY <2>1, <2>2, <3>3
      <4>2. CASE i = curIt BY <2>1, <4>1, <4>2
      <4>3. CASE i # curIt
        <5>1. i >= curIt + 1 /\ d.uses[i] < currentQuant'[i] BY <2>1, <2>2, <3>3, <4>3
        <5> QED BY <4>1, <5>1
      <4> QED BY <4>2, <4>3
    <3> QED BY <3>1, <3>2, <3>3 DEF UpTo, Before
  <2> QED BY <1>1, <2>3 DEF BehindOdometer, UpTo, Before
<1>4. RepeatedIsFirst' /\ OnlyOneIsRepeated'
  <2>1. Repeated' = Repeated BY <1>1 DEF Repeated
  <2> QED BY <1>1, <2>1 DEF IteratorInv, RepeatedIsFirst, OnlyOneIsRepeated
<1> QED BY <1>2, <1>3, <1>4, <1>5 DEF IteratorInv

\* The end of the count drops what is stored.
LEMMA EndKeeps == ASSUME IteratorInv, End PROVE IteratorInv'
<1>1. /\ phase' = "ended" /\ currentInstances' = <<>> /\ phase = "loading"
      /\ curIt = QuantCount + 1
      /\ UNCHANGED <<input, firstTime, currentQuant, curIt, delivered>>
  BY DEF End
<1>2. Range(currentInstances') = {} /\ Len(currentInstances') = 0 /\ DOMAIN currentInstances' = {}
      /\ currentInstances' \in Seq(Instances)
  BY <1>1, RangeOfEmpty, EmptySeq
<1>3. IteratorTypeOK' BY <1>1, <1>2 DEF IteratorInv, IteratorTypeOK
<1>4. NothingAtFirst'
  BY <1>1, QuantCountIsPositive DEF IteratorInv, NothingAtFirst
<1>5. BehindOdometer'
  <2>1. \A d \in Range(delivered) : UpTo(d.uses, curIt)
    BY <1>1 DEF IteratorInv, BehindOdometer
  <2> QED BY <1>1, <1>2, <2>1 DEF BehindOdometer, UpTo, Before
<1>6. StoredInstances' BY <1>1, <1>2 DEF StoredInstances
<1>7. Repeated' = Repeated BY <1>1 DEF Repeated
<1> QED BY <1>1, <1>3, <1>4, <1>5, <1>6, <1>7 DEF IteratorInv, RepeatedIsFirst, OnlyOneIsRepeated

\* An instance that is tried is new; what it yields goes on top of what is left.
LEMMA TryInstanceKeeps == ASSUME IteratorInv, TryInstance PROVE IteratorInv'
<1> DEFINE m == Len(currentInstances)
           P == Prepared(input, Counted)
           p == Len(P)
<1>1. /\ phase = "loading" /\ curIt \in Quants /\ currentQuant' = Counted /\ firstTime' = FALSE
      /\ currentInstances' = currentInstances \o P
      /\ \/ currentInstances' # <<>> /\ phase' = "ready"
              /\ delivered' = Append(delivered, Last(currentInstances'))
         \/ currentInstances' = <<>> /\ UNCHANGED <<phase, delivered>>
      /\ UNCHANGED <<input, curIt>>
  BY DEF TryInstance
<1>2. /\ currentInstances \in Seq(Instances) /\ m \in Nat /\ m <= 1
      /\ DOMAIN currentInstances = 1 .. m /\ IteratorTypeOK /\ input \in Inputs
      /\ Counted \in Uses
  BY <1>1, LenProperties, CountedType DEF IteratorInv, IteratorTypeOK, StoredInstances
<1>3. /\ P \in Seq(Instances) /\ p \in Nat /\ DOMAIN P = 1 .. p
      /\ \A i \in 1 .. p : P[i].uses = Counted /\ P[i].variant = i
  BY <1>2, PreparedFacts, LenProperties
<1>4. \A d \in Range(delivered) \cup Range(currentInstances) :
        Before(d.uses, Counted, curIt) /\ d.uses # Counted
  BY <1>1, CountedIsNew DEF IteratorInv
<1>5. /\ currentInstances' \in Seq(Instances) /\ Len(currentInstances') = m + p
      /\ \A i \in 1 .. m + p : currentInstances'[i] =
           IF i <= m THEN currentInstances[i] ELSE P[i - m]
  BY <1>1, <1>2, <1>3, ConcatProperties
<1>6. DOMAIN currentInstances' = 1 .. m + p BY <1>5, LenProperties
<1> HIDE DEF m, P, p
<1>7. /\ \A i \in 1 .. m : i \in 1 .. m + p /\ currentInstances'[i] = currentInstances[i]
                           /\ currentInstances[i].uses # Counted
      /\ \A i \in m + 1 .. m + p :
           /\ i - m \in 1 .. p /\ currentInstances'[i] = P[i - m]
           /\ currentInstances'[i].uses = Counted /\ currentInstances'[i].variant = i - m
           /\ currentInstances'[i] \notin Range(delivered)
      /\ \A i \in 1 .. m + p : i \in 1 .. m \/ i \in m + 1 .. m + p
  <2>1. ASSUME NEW i \in 1 .. m
        PROVE  i \in 1 .. m + p /\ currentInstances'[i] = currentInstances[i]
               /\ currentInstances[i].uses # Counted
    <3>1. i \in 1 .. m + p /\ i <= m BY <1>2, <1>3
    <3>2. currentInstances[i] \in Range(currentInstances) BY <1>2 DEF Range
    <3> QED BY <1>4, <1>5, <3>1, <3>2
  <2>2. ASSUME NEW i \in m + 1 .. m + p
        PROVE  /\ i - m \in 1 .. p /\ currentInstances'[i] = P[i - m]
               /\ currentInstances'[i].uses = Counted /\ currentInstances'[i].variant = i - m
               /\ currentInstances'[i] \notin Range(delivered)
    <3>1. i \in 1 .. m + p /\ ~ (i <= m) /\ i - m \in 1 .. p BY <1>2, <1>3
    <3>2. currentInstances'[i] = P[i - m] BY <1>5, <3>1
    <3> QED BY <1>3, <1>4, <3>1, <3>2
  <2>3. \A i \in 1 .. m + p : i \in 1 .. m \/ i \in m + 1 .. m + p BY <1>2, <1>3
  <2> QED BY <2>1, <2>2, <2>3
<1>8. \A d \in Range(currentInstances') :
        d \in Range(currentInstances) \/ d.uses = Counted
  BY <1>2, <1>6, <1>7 DEF Range
<1>9. \A i, j \in 1 .. m + p : currentInstances'[i] = currentInstances'[j] => i = j
  <2> SUFFICES ASSUME NEW i \in 1 .. m + p, NEW j \in 1 .. m + p,
                      currentInstances'[i] = currentInstances'[j]
               PROVE  i = j
    OBVIOUS
  <2>1. CASE i \in 1 .. m /\ j \in 1 .. m
    BY <1>2, <2>1
  <2>2. CASE i \in m + 1 .. m + p /\ j \in m + 1 .. m + p
    <3>1. i - m = j - m BY <1>7, <2>2
    <3> QED BY <1>2, <1>3, <3>1
  <2>3. CASE i \in 1 .. m /\ j \in m + 1 .. m + p BY <1>7, <2>3
  <2>4. CASE i \in m + 1 .. m + p /\ j \in 1 .. m BY <1>7, <2>4
  <2> QED BY <1>7, <2>1, <2>2, <2>3, <2>4
<1>10. ~ firstTime' BY <1>1
<1>11. CASE currentInstances' = <<>>
  <2>1. phase' = phase /\ delivered' = delivered BY <1>1, <1>11
  <2>2. Len(currentInstances') = 0 /\ Range(currentInstances') = {} /\ DOMAIN currentInstances' = {}
    BY <1>11, EmptySeq, RangeOfEmpty
  <2>0. m + p = 0 BY <1>5, <2>2
  <2>3. m = 0 BY <1>2, <1>3, <2>0
  <2>4. currentInstances = <<>> BY <1>2, <2>3, EmptySeq DEF m
  <2>5. IteratorTypeOK' BY <1>1, <1>2, <1>5, <2>1 DEF IteratorTypeOK
  <2>6. BehindOdometer' BY <1>1, <1>4, <2>1, <2>2 DEF BehindOdometer, UpTo, Before
  <2>7. StoredInstances' BY <1>1, <1>11, <2>1, <2>2 DEF StoredInstances
  <2>8. Repeated' = Repeated BY <2>1 DEF Repeated
  <2>9. RepeatedIsFirst' /\ OnlyOneIsRepeated'
    BY <1>1, <2>1, <2>4, <2>8 DEF IteratorInv, RepeatedIsFirst, OnlyOneIsRepeated
  <2> QED BY <1>10, <2>5, <2>6, <2>7, <2>9 DEF IteratorInv, NothingAtFirst
<1>12. CASE currentInstances' # <<>>
  <2> DEFINE x == currentInstances'[m + p]
  <2>1. /\ phase' = "ready" /\ m + p \in 1 .. m + p /\ x \in Instances
        /\ delivered' = Append(delivered, x)
    <3>1. m + p \in Nat \ {0} BY <1>5, <1>12, EmptySeq
    <3>2. m + p \in 1 .. m + p BY <3>1
    <3>3. x \in Instances BY <1>5, <3>2, ElementOfSeq
    <3>4. Last(currentInstances') = x BY <1>5 DEF Last
    <3> QED BY <1>1, <1>12, <3>2, <3>3, <3>4
  <2> HIDE DEF x
  <2>2. /\ Range(delivered') = Range(delivered) \cup {x}
        /\ Repeated' = IF x \in Range(delivered) THEN Repeated \cup {x} ELSE Repeated
        /\ delivered' \in Seq(Instances)
    BY <1>2, <2>1, RepeatedOfAppend
  <2>3. x \in Range(currentInstances') BY <1>6, <2>1 DEF Range, x
  <2>4. x \in Range(delivered) => m = 1 /\ x = currentInstances'[1]
    <3>1. x \in Range(delivered) => m + p \in 1 .. m BY <1>7, <2>1 DEF x
    <3>2. m + p \in 1 .. m => m = 1 /\ m + p = 1 BY <1>2, <1>3
    <3> QED BY <3>1, <3>2 DEF x
  <2>5. IteratorTypeOK' BY <1>1, <1>2, <1>5, <2>1, <2>2 DEF IteratorTypeOK
  <2>6. BehindOdometer'
    <3>1. \A d \in Range(delivered') \cup Range(currentInstances') :
            d \in Range(delivered) \cup Range(currentInstances) \/ d.uses = Counted
      BY <1>8, <2>2, <2>3
    <3>2. curIt >= 1 /\ Quants \subseteq Nat /\ curIt \in Nat BY <1>1 DEF Quants
    <3>3. \A d \in Range(delivered) \cup Range(currentInstances) : Before(d.uses, Counted, 1)
      BY <1>4, <3>2 DEF Before
    <3>4. \A d \in Range(delivered') \cup Range(currentInstances') :
            (\A j \in Quants : j >= 1 => d.uses[j] = Counted[j]) \/ Before(d.uses, Counted, 1)
      BY <3>1, <3>3
    <3> QED BY <1>1, <2>1, <3>4 DEF BehindOdometer, UpTo, Before
  <2>7. StoredInstances'
    <3>1. \A i \in 2 .. (m + p) - 1 : i \in m + 1 .. m + p /\ i \in 1 .. m + p /\ i # m + p
      BY <1>2, <1>3
    <3>2. \A i \in 2 .. (m + p) - 1 : currentInstances'[i] \notin Range(delivered')
      BY <1>7, <1>9, <2>1, <2>2, <3>1 DEF x
    <3> QED BY <1>5, <1>6, <1>9, <1>12, <2>1, <2>2, <3>2 DEF StoredInstances, x
  <2>8. \A y \in Repeated' : y = currentInstances'[1]
    <3>1. \A y \in Repeated : currentInstances # <<>> /\ y = currentInstances[1]
      BY <1>1 DEF IteratorInv, RepeatedIsFirst
    <3>2. currentInstances # <<>> => 1 \in 1 .. m
      BY <1>2, EmptySeq DEF m
    <3>3. \A y \in Repeated : y = currentInstances'[1] BY <1>7, <3>1, <3>2
    <3> QED BY <2>2, <2>4, <3>3
  <2>9. RepeatedIsFirst' /\ OnlyOneIsRepeated'
    BY <1>12, <2>8 DEF RepeatedIsFirst, OnlyOneIsRepeated
  <2> QED BY <1>10, <2>5, <2>6, <2>7, <2>9 DEF IteratorInv, NothingAtFirst
<1> QED BY <1>11, <1>12

-----------------------------------------------------------------------------
(* Theorem *)

\* Before the first instance nothing is stored.
LEMMA IteratorInit == Init => IteratorInv
<1> SUFFICES ASSUME Init PROVE IteratorInv
  OBVIOUS
<1>1. /\ phase = "loading" /\ curIt = 1 /\ currentInstances = <<>> /\ delivered = <<>>
      /\ input \in Inputs /\ currentQuant = [i \in Quants |-> 0] /\ firstTime = TRUE
  BY DEF Init
<1>2. /\ Len(<<>>) = 0 /\ Range(<<>>) = {} /\ DOMAIN <<>> = {} /\ <<>> \in Seq(Instances)
  BY RangeOfEmpty, EmptySeq
<1>3. IteratorTypeOK BY <1>1, <1>2 DEF IteratorTypeOK, Uses
<1>4. Repeated = {} BY <1>1, <1>2 DEF Repeated
<1>5. BehindOdometer /\ NothingAtFirst BY <1>1, <1>2 DEF BehindOdometer, NothingAtFirst
<1>6. StoredInstances BY <1>1, <1>2 DEF StoredInstances
<1> QED BY <1>3, <1>4, <1>5, <1>6 DEF IteratorInv, RepeatedIsFirst, OnlyOneIsRepeated

\* What is stored stays behind the odometer and is new but for its last element.
LEMMA IteratorInvariant == Spec => []IteratorInv
<1>1. IteratorInv /\ [Next]_vars => IteratorInv'
  <2> SUFFICES ASSUME IteratorInv, [Next]_vars PROVE IteratorInv'
    OBVIOUS
  <2>1. CASE UNCHANGED vars
    BY <2>1 DEF vars, IteratorInv, IteratorTypeOK, BehindOdometer, UpTo, Before, NothingAtFirst,
                StoredInstances, RepeatedIsFirst, OnlyOneIsRepeated, Repeated
  <2> QED BY <2>1, NextStoredKeeps, StartSearchKeeps, TryInstanceKeeps, CarryKeeps, EndKeeps
          DEF Next
<1> QED BY <1>1, IteratorInit, PTL DEF Spec

\* However many quantifications a rule has and however large the graph is, at most
\* one of its instances is applied more than once.
THEOREM OneIsRepeated == Spec => []OnlyOneIsRepeated
<1>1. IteratorInv => OnlyOneIsRepeated BY DEF IteratorInv
<1> QED BY <1>1, IteratorInvariant, PTL

-----------------------------------------------------------------------------
(* The sum of a vector *)

Pick(s) == CHOOSE x \in s : TRUE

\* The sum of a vector, one digit after the other.
LEMMA SumRecursion ==
  ASSUME NEW q \in Uses
  PROVE  \E g : /\ SumOf(q) = g[Quants]
                /\ \A s \in SUBSET Quants :
                     g[s] = IF s = {} THEN 0 ELSE q[Pick(s)] + g[s \ {Pick(s)}]
<1> DEFINE ch == [s \in SUBSET Quants |-> Pick(s)]
           F == [p \in Quants \X Nat |-> q[p[1]] + p[2]]
           Step(g) == [s \in SUBSET Quants |->
                         IF s = {} THEN 0 ELSE q[Pick(s)] + g[s \ {Pick(s)}]]
<1>1. IsFiniteSet(Quants) BY FS_Interval, QuantCountIsPositive DEF Quants
<1>2. \A s \in SUBSET Quants : s # {} => Pick(s) \in s /\ ch[s] = Pick(s) BY DEF Pick
<1>3. F \in [Quants \X Nat -> Nat] BY DEF Uses
<1>4. \A x \in Quants, v \in Nat : F[<<x, v>>] = q[x] + v OBVIOUS
<1>c. \A s \in SUBSET Quants : s # {} => ch[s] \in s BY <1>2
<1>z. 0 \in Nat OBVIOUS
<1> HIDE DEF ch, F
<1>5. PICK g \in [SUBSET Quants -> Nat] : IsFold(g, Quants, 0, F, ch)
  BY <1>1, <1>3, <1>c, <1>z, RecursionOnSubsets
<1>6. \A s \in SUBSET Quants : g[s] = Step(g)[s]
  BY <1>2, <1>4, <1>5 DEF IsFold
<1>7. g = Step(g) BY <1>5, <1>6
<1> DEFINE iter == CHOOSE h : h = Step(h)
<1>8. iter = Step(iter) BY <1>7
<1>9. SumOf(q) = iter[Quants]
  <2>1. DOMAIN q = Quants BY DEF Uses
  <2> QED BY <2>1 DEF SumOf, FoldFunction, FoldFunctionOnSet, MapThenFoldSet, Pick
<1> HIDE DEF iter
<1> QED BY <1>8, <1>9

\* More uses, greater sum.
LEMMA SumIsMonotone ==
  ASSUME NEW q \in Uses, NEW r \in Uses, \A i \in Quants : q[i] <= r[i]
  PROVE  SumOf(q) <= SumOf(r) /\ SumOf(q) \in Nat /\ SumOf(r) \in Nat
<1>1. PICK g : /\ SumOf(q) = g[Quants]
               /\ \A s \in SUBSET Quants :
                     g[s] = IF s = {} THEN 0 ELSE q[Pick(s)] + g[s \ {Pick(s)}]
  BY SumRecursion
<1>2. PICK h : /\ SumOf(r) = h[Quants]
               /\ \A s \in SUBSET Quants :
                     h[s] = IF s = {} THEN 0 ELSE r[Pick(s)] + h[s \ {Pick(s)}]
  BY SumRecursion
<1> DEFINE Good == {s \in SUBSET Quants : g[s] \in Nat /\ h[s] \in Nat /\ g[s] <= h[s]}
<1>3. {} \in Good
  <2>1. g[{}] = 0 /\ h[{}] = 0 BY <1>1, <1>2
  <2> QED BY <2>1
<1>4. \A s \in SUBSET Quants : s # {} => \E x \in s : s \ {x} \in Good => s \in Good
  <2> SUFFICES ASSUME NEW s \in SUBSET Quants, s # {}, s \ {Pick(s)} \in Good
               PROVE  s \in Good
    BY DEF Pick
  <2>1. Pick(s) \in s BY DEF Pick
  <2>2. q[Pick(s)] \in Nat /\ r[Pick(s)] \in Nat /\ q[Pick(s)] <= r[Pick(s)] BY <2>1 DEF Uses
  <2>3. g[s] = q[Pick(s)] + g[s \ {Pick(s)}] /\ h[s] = r[Pick(s)] + h[s \ {Pick(s)}]
    BY <1>1, <1>2
  <2> QED BY <2>2, <2>3
<1>5. IsFiniteSet(Quants) BY FS_Interval, QuantCountIsPositive DEF Quants
<1>6. Quants \in Good
  <2> HIDE DEF Good
  <2> QED BY <1>3, <1>4, <1>5, SubsetInduction
<1> QED BY <1>1, <1>2, <1>6

-----------------------------------------------------------------------------
(* Nothing is missed *)

\* What the instance for the uses q gives has been returned or is stored.
Covered(q) == Range(Prepared(input, q)) \subseteq Range(delivered) \cup Range(currentInstances)

\* Below the digit that is counted, all are zero.
LowDigitsAreZero == phase = "loading" => \A j \in Quants : j < curIt => currentQuant[j] = 0

\* Nothing within the bound is missed behind the odometer, with any digits below the
\* one that is counted.
NoneMissed ==
  ~ firstTime =>
    \A q \in Uses :
      InBound(q) /\ UpTo(q, IF phase = "ready" THEN 1 ELSE curIt) => Covered(q)

\* As long as nothing is stored, what was passed over gives no rule.
OnlyNoOpsBefore ==
  phase = "loading" /\ currentInstances = <<>> =>
    /\ \A j \in Quants : j > curIt => currentQuant[j] = 0
    /\ firstTime => \A j \in Quants : currentQuant[j] = 0
    /\ ~ firstTime =>
         /\ \A q \in Uses : InBound(q) /\ (\A j \in Quants : j >= curIt => q[j] = 0) =>
              IsNoOp(input, q)
         /\ curIt \in Quants /\ currentQuant[curIt] > 0 =>
              input.mainIsNoOp /\ curIt \in input.noOps

EndsBehindLastDigit ==
  phase = "ended" => curIt = QuantCount + 1 /\ ~ firstTime /\ currentInstances = <<>>

DeliveryInv == LowDigitsAreZero /\ NoneMissed /\ OnlyNoOpsBefore /\ EndsBehindLastDigit

\* The preparer gives no rule exactly for no-ops.
LEMMA PreparedIsEmpty ==
  ASSUME NEW in \in Inputs, NEW q \in Uses
  PROVE  Prepared(in, q) = <<>> <=> IsNoOp(in, q)
<1>1. in.variants \in Nat \ {0} BY InputsAreTyped DEF InputType
<1>2. ~ IsNoOp(in, q) => DOMAIN Prepared(in, q) = 1 .. in.variants BY DEF Prepared
<1>3. DOMAIN <<>> = {} /\ 1 \in 1 .. in.variants BY <1>1
<1> QED BY <1>2, <1>3 DEF Prepared

\* With a no-op quantification more, a no-op stays one.
LEMMA NoOpsAddUp ==
  ASSUME NEW q \in Uses, NEW c \in Quants, input.mainIsNoOp, c \in input.noOps,
         IsNoOp(input, [q EXCEPT ![c] = 0])
  PROVE  IsNoOp(input, q)
BY DEF IsNoOp, Uses

\* Taking the next stored instance moves one from the stack to the deliveries.
LEMMA NextStoredMissesNone == ASSUME IteratorInv, DeliveryInv, NextStored PROVE DeliveryInv'
<1>1. /\ phase = "ready" /\ phase' = "ready" /\ Len(currentInstances) > 1
      /\ currentInstances' = Front(currentInstances)
      /\ delivered' = Append(delivered, Last(currentInstances'))
      /\ UNCHANGED <<input, firstTime, currentQuant, curIt>>
  BY DEF NextStored
<1>2. /\ currentInstances \in Seq(Instances) /\ currentInstances # <<>>
      /\ delivered \in Seq(Instances)
  BY <1>1, EmptySeq DEF IteratorInv, IteratorTypeOK, StoredInstances
<1>3. /\ Range(currentInstances) = Range(currentInstances') \cup {Last(currentInstances)}
      /\ currentInstances' \in Seq(Instances)
  BY <1>1, <1>2, RangeOfFront
<1>4. Last(currentInstances) \in Range(delivered)
  BY <1>2 DEF IteratorInv, StoredInstances, Last
<1>5. Len(currentInstances') = Len(currentInstances) - 1 /\ Len(currentInstances) \in Nat
  BY <1>1, <1>2, FrontElements
<1>6. currentInstances' # <<>> BY <1>1, <1>5, EmptySeq
<1>7. Last(currentInstances') \in Instances BY <1>3, <1>6, RangeOfFront
<1>8. Range(delivered') = Range(delivered) \cup {Last(currentInstances')}
  BY <1>1, <1>2, <1>7, RangeOfAppend
<1>9. \A q \in Uses : Covered(q) => Covered(q)' BY <1>1, <1>3, <1>4, <1>8 DEF Covered
<1>10. NoneMissed' BY <1>1, <1>9 DEF DeliveryInv, NoneMissed, InBound, UpTo, Before
<1> QED BY <1>1, <1>10 DEF DeliveryInv, LowDigitsAreZero, OnlyNoOpsBefore, EndsBehindLastDigit

\* A new search starts at the first digit, with something stored.
LEMMA StartSearchMissesNone == ASSUME IteratorInv, DeliveryInv, StartSearch PROVE DeliveryInv'
<1>1. /\ phase = "ready" /\ phase' = "loading" /\ curIt' = 1 /\ firstTime' = FALSE
      /\ UNCHANGED <<input, currentQuant, currentInstances, delivered>>
  BY DEF StartSearch
<1>2. ~ firstTime /\ currentInstances # <<>>
  BY <1>1 DEF IteratorInv, NothingAtFirst, StoredInstances
<1>3. NoneMissed'
  BY <1>1, <1>2 DEF DeliveryInv, NoneMissed, InBound, UpTo, Before, Covered
<1>4. LowDigitsAreZero' BY <1>1 DEF LowDigitsAreZero, Quants
<1> QED BY <1>1, <1>2, <1>3, <1>4 DEF DeliveryInv, OnlyNoOpsBefore, EndsBehindLastDigit

\* What the end drops has been returned.
LEMMA EndMissesNone == ASSUME IteratorInv, DeliveryInv, End PROVE DeliveryInv'
<1>1. /\ phase = "loading" /\ phase' = "ended" /\ curIt = QuantCount + 1
      /\ currentInstances' = <<>>
      /\ UNCHANGED <<input, firstTime, currentQuant, curIt, delivered>>
  BY DEF End
<1>2. ~ firstTime BY <1>1, QuantCountIsPositive DEF IteratorInv, NothingAtFirst
<1>3. Range(currentInstances) \subseteq Range(delivered)
  <2>1. /\ currentInstances \in Seq(Instances) /\ Len(currentInstances) <= 1
        /\ currentInstances # <<>> => currentInstances[Len(currentInstances)] \in Range(delivered)
    BY <1>1 DEF IteratorInv, IteratorTypeOK, StoredInstances
  <2>2. /\ Len(currentInstances) \in Nat
        /\ DOMAIN currentInstances = 1 .. Len(currentInstances)
    BY <2>1, LenProperties
  <2>3. \A i \in DOMAIN currentInstances : i = Len(currentInstances) /\ currentInstances # <<>>
    BY <2>1, <2>2, EmptySeq
  <2> QED BY <2>1, <2>3 DEF Range
<1>4. \A q \in Uses : Covered(q) => Covered(q)' BY <1>1, <1>3 DEF Covered
<1>5. NoneMissed'
  BY <1>1, <1>2, <1>4 DEF DeliveryInv, NoneMissed, InBound, UpTo, Before
<1> QED BY <1>1, <1>2, <1>5 DEF DeliveryInv, LowDigitsAreZero, OnlyNoOpsBefore, EndsBehindLastDigit

\* The instance that is tried is stored, or gives no rule.
LEMMA TryInstanceMissesNone == ASSUME IteratorInv, DeliveryInv, TryInstance PROVE DeliveryInv'
<1> DEFINE c == curIt
           P == Prepared(input, Counted)
<1>1. /\ phase = "loading" /\ c \in Quants /\ currentQuant' = Counted /\ firstTime' = FALSE
      /\ currentInstances' = currentInstances \o P
      /\ \/ currentInstances' # <<>> /\ phase' = "ready"
              /\ delivered' = Append(delivered, Last(currentInstances'))
         \/ currentInstances' = <<>> /\ UNCHANGED <<phase, delivered>>
      /\ UNCHANGED <<input, curIt>>
  BY DEF TryInstance
<1>2. /\ currentInstances \in Seq(Instances) /\ delivered \in Seq(Instances) /\ input \in Inputs
      /\ currentQuant \in Uses /\ Counted \in Uses /\ P \in Seq(Instances)
  BY <1>1, CountedType, PreparedFacts DEF IteratorInv, IteratorTypeOK
<1>3. Range(currentInstances') = Range(currentInstances) \cup Range(P)
      /\ currentInstances' \in Seq(Instances)
  BY <1>1, <1>2, RangeOfConcat
<1>4. Range(delivered) \subseteq Range(delivered')
  <2>1. CASE currentInstances' # <<>>
    <3>1. Last(currentInstances') \in Instances BY <1>3, <2>1, RangeOfFront
    <3>2. delivered' = Append(delivered, Last(currentInstances')) BY <1>1, <2>1
    <3>3. Range(Append(delivered, Last(currentInstances'))) =
            Range(delivered) \cup {Last(currentInstances')}
      BY <1>2, <3>1, RangeOfAppend
    <3> QED BY <3>2, <3>3
  <2>2. CASE currentInstances' = <<>> BY <1>1, <2>2
  <2> QED BY <2>1, <2>2
<1>5. \A q \in Uses : Covered(q) => Covered(q)' BY <1>1, <1>3, <1>4 DEF Covered
<1>6. ASSUME NEW q \in Uses, q = Counted PROVE Covered(q)'
  BY <1>1, <1>3, <1>6 DEF Covered
<1>7. Quants \subseteq Nat BY DEF Quants
<1>8. LowDigitsAreZero'
  <2>1. \A j \in Quants : j < c => Counted[j] = 0
    BY <1>1, <1>2, <1>7 DEF Counted, DeliveryInv, LowDigitsAreZero, Uses
  <2> QED BY <1>1, <2>1 DEF LowDigitsAreZero
\* Counting goes on by one at digit c, or starts.
<1>9. ASSUME NEW q \in Uses, InBound(q), ~ firstTime, Before(q, Counted, c)
      PROVE  UpTo(q, c)
  <2>1. Counted[c] = currentQuant[c] + 1 /\ \A j \in Quants : j # c => Counted[j] = currentQuant[j]
    BY <1>1, <1>2, <1>9 DEF Counted, Uses
  <2>2. PICK i \in Quants : /\ i >= c /\ q[i] < Counted[i]
                            /\ \A j \in Quants : j > i => q[j] = Counted[j]
    BY <1>9 DEF Before
  <2>3. CASE i = c
    <3>1. q[c] <= currentQuant[c] /\ q[c] \in Nat /\ currentQuant[c] \in Nat
      BY <1>1, <1>2, <2>1, <2>2, <2>3 DEF Uses
    <3>2. \A j \in Quants : j > c => q[j] = currentQuant[j]
      BY <1>1, <1>7, <2>1, <2>2, <2>3
    <3>3. CASE q[c] = currentQuant[c]
      <4>1. \A j \in Quants : j >= c => q[j] = currentQuant[j] BY <1>1, <1>7, <3>2, <3>3
      <4> QED BY <4>1 DEF UpTo
    <3>4. CASE q[c] < currentQuant[c] BY <1>1, <1>7, <3>2, <3>4 DEF UpTo, Before
    <3> QED BY <3>1, <3>3, <3>4
  <2>4. CASE i # c
    <3>1. q[i] < currentQuant[i] BY <2>1, <2>2, <2>4
    <3>2. \A j \in Quants : j > i => q[j] = currentQuant[j]
      BY <1>1, <1>7, <2>1, <2>2
    <3> QED BY <2>2, <3>1, <3>2 DEF UpTo, Before
  <2> QED BY <2>3, <2>4
<1>10. CASE currentInstances' # <<>>
  <2>1. phase' = "ready" BY <1>1, <1>10
  <2>2. ASSUME NEW q \in Uses, InBound(q), UpTo(q, 1)' PROVE Covered(q)'
    <3>1. q = Counted \/ Before(q, Counted, 1)
      <4>1. (\A j \in Quants : j >= 1 => q[j] = Counted[j]) \/ Before(q, Counted, 1)
        BY <1>1, <2>2 DEF UpTo, Before
      <4>2. \A j \in Quants : j >= 1 BY DEF Quants
      <4>3. (\A j \in Quants : q[j] = Counted[j]) => q = Counted BY <1>2 DEF Uses
      <4> QED BY <4>1, <4>2, <4>3
    <3>2. CASE q = Counted BY <1>6, <3>2
    <3>3. CASE Before(q, Counted, 1)
      <4>1. PICK i \in Quants : /\ q[i] < Counted[i]
                                /\ \A j \in Quants : j > i => q[j] = Counted[j]
        BY <3>3 DEF Before
      <4>2. q[i] \in Nat BY DEF Uses
      <4>3. \A j \in Quants : j < c => Counted[j] = 0
        BY <1>1, <1>2, <1>7 DEF Counted, DeliveryInv, LowDigitsAreZero, Uses
      <4>4. i >= c BY <1>1, <1>7, <4>1, <4>2, <4>3
      <4>5. Before(q, Counted, c) BY <4>1, <4>4 DEF Before
      <4>6. ~ firstTime
        <5>1. firstTime => Counted = currentQuant BY DEF Counted
        <5>2. firstTime => currentInstances = <<>> BY DEF IteratorInv, NothingAtFirst
        <5>3. firstTime => Counted[i] = 0
          BY <1>1, <5>1, <5>2 DEF DeliveryInv, OnlyNoOpsBefore
        <5> QED BY <4>1, <4>2, <5>3
      <4>7. UpTo(q, c) BY <1>9, <2>2, <4>5, <4>6
      <4>8. Covered(q) BY <1>1, <2>2, <4>6, <4>7 DEF DeliveryInv, NoneMissed
      <4> QED BY <1>5, <4>8
    <3> QED BY <3>1, <3>2, <3>3
  <2>3. NoneMissed'
    BY <1>1, <2>1, <2>2 DEF NoneMissed, InBound
  <2> QED BY <1>8, <2>1, <2>3 DEF DeliveryInv, OnlyNoOpsBefore, EndsBehindLastDigit
<1>11. CASE currentInstances' = <<>>
  <2>1. phase' = "loading" BY <1>1, <1>11
  <2>2. P = <<>> /\ currentInstances = <<>>
    <3>1. Len(currentInstances') = Len(currentInstances) + Len(P) BY <1>1, <1>2, ConcatProperties
    <3>2. Len(currentInstances') = 0 BY <1>11, EmptySeq
    <3>3. Len(currentInstances) \in Nat /\ Len(P) \in Nat BY <1>2, LenProperties
    <3>4. Len(currentInstances) = 0 /\ Len(P) = 0 BY <3>1, <3>2, <3>3
    <3> QED BY <1>2, <3>4, EmptySeq
  <2>3. IsNoOp(input, Counted) BY <1>2, <2>2, PreparedIsEmpty
  <2>4. input.mainIsNoOp BY <2>3 DEF IsNoOp
  <2>5. \A j \in Quants : j > c => Counted[j] = 0
    BY <1>1, <1>2, <1>7, <2>2 DEF Counted, DeliveryInv, OnlyNoOpsBefore, Uses
  <2>6. Counted[c] > 0 => c \in input.noOps BY <1>1, <2>3 DEF IsNoOp
  <2>7. ASSUME NEW q \in Uses, InBound(q), \A j \in Quants : j >= c => q[j] = 0
        PROVE  IsNoOp(input, q)
    <3>1. CASE firstTime
      <4>1. c = 1 BY <3>1 DEF IteratorInv, NothingAtFirst
      <4>2. \A j \in Quants : q[j] = 0 BY <2>7, <4>1 DEF Quants
      <4> QED BY <2>4, <4>2 DEF IsNoOp
    <3>2. CASE ~ firstTime
      BY <1>1, <2>2, <2>7, <3>2 DEF DeliveryInv, OnlyNoOpsBefore
    <3> QED BY <3>1, <3>2
  <2>8. OnlyNoOpsBefore'
    BY <1>1, <2>1, <2>4, <2>5, <2>6, <2>7 DEF OnlyNoOpsBefore, InBound
  <2>9. ASSUME NEW q \in Uses, InBound(q), UpTo(q, c)' PROVE Covered(q)'
    <3>1. (\A j \in Quants : j >= c => q[j] = Counted[j]) \/ Before(q, Counted, c)
      BY <1>1, <2>9 DEF UpTo, Before
    <3>2. CASE ~ firstTime /\ Before(q, Counted, c)
      <4>1. Covered(q) BY <1>1, <1>9, <2>9, <3>2 DEF DeliveryInv, NoneMissed
      <4> QED BY <1>5, <4>1
    <3>3. CASE firstTime /\ Before(q, Counted, c)
      <4>1. \A j \in Quants : Counted[j] = 0
        BY <1>1, <2>2, <3>3 DEF Counted, DeliveryInv, OnlyNoOpsBefore
      <4>2. \A j \in Quants : q[j] \in Nat BY DEF Uses
      <4> QED BY <3>3, <4>1, <4>2 DEF Before
    <3>4. CASE \A j \in Quants : j >= c => q[j] = Counted[j]
      <4> DEFINE r == [q EXCEPT ![c] = 0]
      <4>1. r \in Uses /\ r[c] = 0 /\ \A j \in Quants : j # c => r[j] = q[j]
        BY <1>1 DEF Uses
      <4>2. \A i \in Quants : r[i] <= q[i] BY <4>1 DEF Uses
      <4>3. InBound(r)
        <5>1. SumOf(r) <= SumOf(q) /\ SumOf(r) \in Nat /\ SumOf(q) \in Nat
          BY <4>1, <4>2, SumIsMonotone
        <5>2. input.bound \in Nat BY <1>2, InputsAreTyped, MaxBoundIsNatural DEF InputType
        <5> QED BY <2>9, <5>1, <5>2 DEF InBound
      <4>4. \A j \in Quants : j >= c => r[j] = 0 BY <1>1, <1>7, <2>5, <3>4, <4>1
      <4>5. IsNoOp(input, r) BY <2>7, <4>1, <4>3, <4>4
      <4>6. CASE Counted[c] > 0
        BY <1>1, <2>4, <2>6, <4>5, <4>6, NoOpsAddUp, PreparedIsEmpty, <1>2, RangeOfEmpty
           DEF Covered
      <4>7. CASE ~ (Counted[c] > 0)
        <5>1. Counted[c] = 0 BY <1>1, <1>2, <4>7 DEF Uses
        <5>2. \A j \in Quants : j >= c => q[j] = 0 BY <1>1, <1>7, <2>5, <3>4, <5>1
        <5>3. IsNoOp(input, q) BY <2>7, <2>9, <5>2
        <5> QED BY <1>1, <1>2, <5>3, PreparedIsEmpty, RangeOfEmpty DEF Covered
      <4> QED BY <4>6, <4>7
    <3> QED BY <3>1, <3>2, <3>3, <3>4
  <2>10. NoneMissed' BY <1>1, <2>1, <2>9 DEF NoneMissed, InBound
  <2> QED BY <1>8, <2>1, <2>8, <2>10 DEF DeliveryInv, EndsBehindLastDigit
<1> QED BY <1>10, <1>11

\* A digit that is carried has gone through everything within the bound.
LEMMA CarryMissesNone == ASSUME IteratorInv, DeliveryInv, Carry PROVE DeliveryInv'
<1> DEFINE c == curIt
<1>1. /\ phase = "loading" /\ c \in Quants /\ ~ InBound(Counted)
      /\ currentQuant' = [currentQuant EXCEPT ![c] = 0] /\ firstTime' = FALSE
      /\ curIt' = c + 1
      /\ UNCHANGED <<input, phase, currentInstances, delivered>>
  BY DEF Carry
<1>2. currentQuant \in Uses /\ Counted \in Uses /\ input \in Inputs
  BY <1>1, CountedType DEF IteratorInv, IteratorTypeOK
<1>3. Quants \subseteq Nat BY DEF Quants
<1>4. /\ currentQuant'[c] = 0
      /\ \A j \in Quants : j # c => currentQuant'[j] = currentQuant[j]
  BY <1>1, <1>2 DEF Uses
<1>5. \A j \in Quants : j < c => currentQuant[j] = 0 /\ Counted[j] = 0
  BY <1>1, <1>2, <1>3 DEF Counted, DeliveryInv, LowDigitsAreZero, Uses
<1>6. LowDigitsAreZero' BY <1>1, <1>3, <1>4, <1>5 DEF LowDigitsAreZero
\* Whatever has no smaller digit than the one counted is out of bound.
<1>7. ASSUME NEW q \in Uses, InBound(q), \A j \in Quants : j >= c => Counted[j] <= q[j]
      PROVE  FALSE
  <2>1. \A j \in Quants : Counted[j] <= q[j] BY <1>1, <1>3, <1>5, <1>7 DEF Uses
  <2>2. SumOf(Counted) <= SumOf(q) /\ SumOf(Counted) \in Nat /\ SumOf(q) \in Nat
    BY <1>2, <2>1, SumIsMonotone
  <2>3. input.bound \in Nat BY <1>2, InputsAreTyped, MaxBoundIsNatural DEF InputType
  <2> QED BY <1>1, <1>7, <2>2, <2>3 DEF InBound
<1>8. ASSUME NEW q \in Uses, InBound(q), UpTo(q, curIt)' PROVE ~ firstTime /\ UpTo(q, c)
  <2>1. \A j \in Quants : j >= c + 1 => currentQuant'[j] = currentQuant[j] BY <1>1, <1>3, <1>4
  <2>2. \/ \A j \in Quants : j >= c + 1 => q[j] = currentQuant[j]
        \/ Before(q, currentQuant, c + 1)
    BY <1>1, <1>3, <1>8, <2>1 DEF UpTo, Before, Quants
  <2>3. firstTime => FALSE
    <3> SUFFICES ASSUME firstTime PROVE FALSE
      OBVIOUS
    <3>1. currentInstances = <<>> BY DEF IteratorInv, NothingAtFirst
    <3>2. \A j \in Quants : Counted[j] = 0
      BY <1>1, <3>1 DEF Counted, DeliveryInv, OnlyNoOpsBefore
    <3>3. \A j \in Quants : Counted[j] <= q[j] BY <3>2 DEF Uses
    <3> QED BY <1>7, <1>8, <3>3
  <2>4. Counted[c] = currentQuant[c] + 1 /\ \A j \in Quants : j # c => Counted[j] = currentQuant[j]
    BY <1>1, <1>2, <2>3 DEF Counted, Uses
  <2>5. CASE Before(q, currentQuant, c + 1)
    <3>1. Before(q, currentQuant, c)
      <4>1. \A j \in Quants : j >= c + 1 => j >= c BY <1>1, <1>3
      <4> QED BY <2>5, <4>1 DEF Before
    <3> QED BY <2>3, <3>1 DEF UpTo
  <2>6. CASE \A j \in Quants : j >= c + 1 => q[j] = currentQuant[j]
    <3>1. q[c] \in Nat /\ currentQuant[c] \in Nat BY <1>1, <1>2 DEF Uses
    <3>2. CASE q[c] < currentQuant[c]
      <4>1. \A j \in Quants : j > c => q[j] = currentQuant[j] BY <1>1, <1>3, <2>6
      <4>2. c >= c BY <1>1, <1>3
      <4> QED BY <1>1, <2>3, <3>2, <4>1, <4>2 DEF UpTo, Before
    <3>3. CASE q[c] = currentQuant[c]
      <4>1. \A j \in Quants : j >= c => q[j] = currentQuant[j] BY <1>1, <1>3, <2>6, <3>3
      <4> QED BY <2>3, <4>1 DEF UpTo
    <3>4. CASE q[c] > currentQuant[c]
      <4>1. \A j \in Quants : j >= c => Counted[j] <= q[j]
        <5> SUFFICES ASSUME NEW j \in Quants, j >= c PROVE Counted[j] <= q[j]
          OBVIOUS
        <5>1. CASE j = c BY <2>4, <3>1, <3>4, <5>1
        <5>2. CASE j # c
          <6>1. j >= c + 1 BY <1>1, <1>3, <5>2
          <6>2. q[j] = Counted[j] /\ q[j] \in Nat BY <2>4, <2>6, <5>2, <6>1 DEF Uses
          <6> QED BY <6>2
        <5> QED BY <5>1, <5>2
      <4> QED BY <1>7, <1>8, <4>1
    <3> QED BY <3>1, <3>2, <3>3, <3>4
  <2> QED BY <2>2, <2>5, <2>6
<1>9. NoneMissed'
  <2>1. ASSUME NEW q \in Uses, InBound(q), UpTo(q, curIt)' PROVE Covered(q)
    BY <1>1, <1>8, <2>1 DEF DeliveryInv, NoneMissed
  <2>2. \A q \in Uses : Covered(q) => Covered(q)' BY <1>1 DEF Covered
  <2> QED BY <1>1, <2>1, <2>2 DEF NoneMissed, InBound
<1>10. OnlyNoOpsBefore'
  <2> SUFFICES ASSUME currentInstances = <<>> PROVE OnlyNoOpsBefore'
    BY <1>1 DEF OnlyNoOpsBefore
  <2>1. \A j \in Quants : j > c => currentQuant[j] = 0
    BY <1>1 DEF DeliveryInv, OnlyNoOpsBefore
  <2>2. \A j \in Quants : j > c + 1 => currentQuant'[j] = 0 BY <1>1, <1>3, <1>4, <2>1
  <2>3. c + 1 \in Quants => currentQuant'[c + 1] = 0 BY <1>1, <1>3, <1>4, <2>1
  <2>4. ASSUME NEW q \in Uses, InBound(q), \A j \in Quants : j >= c + 1 => q[j] = 0
        PROVE  IsNoOp(input, q)
    <3>1. \A j \in Quants : j > c => q[j] = 0 BY <1>1, <1>3, <2>4
    <3>2. UpTo(q, curIt)'
      <4>1. \A j \in Quants : j >= c + 1 => currentQuant'[j] = 0
        BY <1>1, <1>3, <1>4, <2>1
      <4> QED BY <1>1, <1>3, <2>4, <4>1 DEF UpTo
    <3>3. ~ firstTime BY <1>8, <2>4, <3>2
    <3>4. /\ \A r \in Uses : InBound(r) /\ (\A j \in Quants : j >= c => r[j] = 0) =>
                IsNoOp(input, r)
          /\ currentQuant[c] > 0 => input.mainIsNoOp /\ c \in input.noOps
      BY <1>1, <3>3 DEF DeliveryInv, OnlyNoOpsBefore
    <3>5. q[c] \in Nat /\ currentQuant[c] \in Nat BY <1>1, <1>2 DEF Uses
    <3>6. CASE q[c] = 0
      <4>1. \A j \in Quants : j >= c => q[j] = 0 BY <1>1, <1>3, <3>1, <3>6
      <4> QED BY <2>4, <3>4, <4>1
    <3>7. CASE q[c] > 0 /\ currentQuant[c] > 0
      <4> DEFINE r == [q EXCEPT ![c] = 0]
      <4>1. r \in Uses /\ r[c] = 0 /\ \A j \in Quants : j # c => r[j] = q[j]
        BY <1>1 DEF Uses
      <4>2. \A i \in Quants : r[i] <= q[i] BY <4>1 DEF Uses
      <4>3. InBound(r)
        <5>1. SumOf(r) <= SumOf(q) /\ SumOf(r) \in Nat /\ SumOf(q) \in Nat
          BY <4>1, <4>2, SumIsMonotone
        <5>2. input.bound \in Nat BY <1>2, InputsAreTyped, MaxBoundIsNatural DEF InputType
        <5> QED BY <2>4, <5>1, <5>2 DEF InBound
      <4>4. \A j \in Quants : j >= c => r[j] = 0 BY <1>1, <1>3, <3>1, <4>1
      <4>5. IsNoOp(input, r) BY <3>4, <4>1, <4>3, <4>4
      <4> QED BY <1>1, <3>4, <3>7, <4>5, NoOpsAddUp
    <3>8. CASE q[c] > 0 /\ currentQuant[c] = 0
      <4>1. Counted[c] = 1 /\ \A j \in Quants : j # c => Counted[j] = currentQuant[j]
        BY <1>1, <1>2, <3>3, <3>8 DEF Counted, Uses
      <4>2. \A j \in Quants : j >= c => Counted[j] <= q[j]
        <5> SUFFICES ASSUME NEW j \in Quants, j >= c PROVE Counted[j] <= q[j]
          OBVIOUS
        <5>1. CASE j = c BY <3>5, <3>8, <4>1, <5>1
        <5>2. CASE j # c
          <6>1. j > c BY <1>1, <1>3, <5>2
          <6>2. Counted[j] = 0 /\ q[j] = 0 BY <2>1, <3>1, <4>1, <5>2, <6>1
          <6> QED BY <6>2
        <5> QED BY <5>1, <5>2
      <4> QED BY <1>7, <2>4, <4>2
    <3> QED BY <3>5, <3>6, <3>7, <3>8
  <2> QED BY <1>1, <2>2, <2>3, <2>4 DEF OnlyNoOpsBefore, InBound
<1> QED BY <1>1, <1>6, <1>9, <1>10 DEF DeliveryInv, EndsBehindLastDigit

\* Every instance within the bound is applied, for every rule and every graph: no way
\* to use the quantifications is passed over but those that give no rule.
THEOREM AllAreDelivered == Spec => []AllInstancesDelivered
<1>1. Init => DeliveryInv
  BY DEF Init, DeliveryInv, LowDigitsAreZero, NoneMissed, OnlyNoOpsBefore, EndsBehindLastDigit, Quants
<1>2. IteratorInv /\ DeliveryInv /\ [Next]_vars => DeliveryInv'
  <2> SUFFICES ASSUME IteratorInv, DeliveryInv, [Next]_vars PROVE DeliveryInv'
    OBVIOUS
  <2>1. CASE UNCHANGED vars
    BY <2>1 DEF vars, DeliveryInv, LowDigitsAreZero, NoneMissed, OnlyNoOpsBefore,
                EndsBehindLastDigit, InBound, UpTo, Before, Covered
  <2> QED BY <2>1, NextStoredMissesNone, StartSearchMissesNone, TryInstanceMissesNone,
             CarryMissesNone, EndMissesNone DEF Next
<1>3. IteratorInv /\ DeliveryInv => AllInstancesDelivered
  <2> SUFFICES ASSUME IteratorInv, DeliveryInv, phase = "ended",
                      NEW q \in [Quants -> 0 .. input.bound], SumOf(q) <= input.bound
               PROVE  Range(Prepared(input, q)) \subseteq Range(delivered)
    BY DEF AllInstancesDelivered
  <2>1. q \in Uses
    <3>1. input.bound \in Nat
      BY InputsAreTyped, MaxBoundIsNatural DEF InputType, IteratorInv, IteratorTypeOK
    <3> QED BY <3>1 DEF Uses
  <2>2. curIt = QuantCount + 1 /\ ~ firstTime /\ currentInstances = <<>>
    BY DEF DeliveryInv, EndsBehindLastDigit
  <2>3. \A j \in Quants : ~ (j >= curIt) BY <2>2, QuantCountIsPositive DEF Quants
  <2>4. Covered(q) BY <2>1, <2>2, <2>3 DEF DeliveryInv, NoneMissed, InBound, UpTo
  <2>5. Range(currentInstances) = {} BY <2>2, RangeOfEmpty
  <2> QED BY <2>4, <2>5 DEF Covered
<1> QED BY <1>1, <1>2, <1>3, IteratorInvariant, PTL DEF Spec

=============================================================================
