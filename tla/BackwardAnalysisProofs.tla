------------------------- MODULE BackwardAnalysisProofs -------------------------
(***************************************************************************)
(* Proofs about the backward search, for every order, every set of inputs  *)
(* and every number of ids, and in the second half that the files of its   *)
(* result handler are a complete and correct account of it.                *)
(***************************************************************************)
EXTENDS LoggedAnalysis, SequenceLemmas

\* What an input is known to look like.
LEMMA InputFacts ==
  ASSUME NEW in \in Inputs
  PROVE  /\ in.errors \in Seq(Shapes) /\ in.initial \in SUBSET Shapes
         /\ in.checkInitial \in BOOLEAN /\ in.timer \in BOOLEAN
         /\ in.valid \in SUBSET Shapes /\ in.firstID \in 1 .. IDType_MAX
         /\ in.std \in [StdRules -> [Shapes -> Seq(Shapes)]]
         /\ in.uq \in [UQRules -> [Shapes -> Seq(Seq(Shapes))]]
BY InputsAreCompatible DEF InputType

\* Storing a graph keeps the list a set of graphs.
LEMMA MinimizedType ==
  ASSUME NEW S \in SUBSET Hypergraph, NEW g \in Hypergraph
  PROVE  Minimized(S, g) \in SUBSET Hypergraph
BY DEF Minimized

-----------------------------------------------------------------------------
(* Type correctness *)

\* A graph just taken from the enumerator is a graph.
LEMMA EnumeratedType ==
  ASSUME TypeOK, pocs # <<>>, nextID \in IDType
  PROVE  /\ Enumerated \in Hypergraph
         /\ Enumerated.id = nextID /\ Enumerated.shape = Head(pocs)
         /\ Head(pocs) \in Shapes /\ Tail(pocs) \in Seq(Shapes)
         /\ nextID + 1 \in 1 .. IDType_MAX
<1>1. Head(pocs) \in Shapes /\ Tail(pocs) \in Seq(Shapes)
  BY RangeOfTail DEF TypeOK
<1>2. nextID + 1 \in 1 .. IDType_MAX
  BY IDTypeMaxIsPositive DEF IDType
<1> QED BY <1>1, <1>2 DEF Enumerated, Hypergraph

\* The error graph that is added next is one of the input's.
LEMMA NextErrorIndex ==
  ASSUME TypeOK, AddErrorGraph
  PROVE  /\ input.errors \in Seq(Shapes)
         /\ Len(todoGraphs) + 1 \in DOMAIN input.errors
         /\ Len(todoGraphs) + 1 \in 1 .. Len(input.errors)
<1>1. input.errors \in Seq(Shapes)
  BY InputFacts DEF TypeOK
<1>2. /\ Len(todoGraphs) \in Nat /\ Len(input.errors) \in Nat
      /\ DOMAIN input.errors = 1 .. Len(input.errors)
  BY <1>1, LenProperties DEF TypeOK
<1> QED BY <1>1, <1>2 DEF AddErrorGraph

\* The next error graph to be added is a graph.
LEMMA NextErrorType ==
  ASSUME TypeOK, AddErrorGraph
  PROVE  [id |-> nextID, shape |-> input.errors[Len(todoGraphs) + 1]] \in Hypergraph
BY NextErrorIndex, ElementOfSeq DEF AddErrorGraph, Hypergraph

\* The initial states are well-typed.
LEMMA TypeInit == Init => TypeOK
<1> SUFFICES ASSUME Init PROVE TypeOK
  OBVIOUS
<1>1. <<>> \in Seq(Hypergraph) /\ <<>> \in Seq(Shapes) /\ <<>> \in Seq(Seq(Shapes))
  BY EmptySeq
<1>2. input.firstID \in 1 .. IDType_MAX
  BY InputFacts DEF Init
<1> QED BY <1>1, <1>2 DEF Init, TypeOK

\* Every step of the search preserves the types.
LEMMA TypeStep == TypeOK /\ [Next]_vars => TypeOK'
<1> SUFFICES ASSUME TypeOK, [Next]_vars PROVE TypeOK'
  OBVIOUS
<1> USE DEF search
<1>1. CASE AddErrorGraph
  <2> DEFINE g == [id |-> nextID, shape |-> input.errors[Len(todoGraphs) + 1]]
  <2>4. g \in Hypergraph
    BY <1>1, NextErrorType
  <2>5. Append(todoGraphs, g) \in Seq(Hypergraph)
    BY <2>4, RangeOfAppend DEF TypeOK
  <2>6. minimalGraphs' \in SUBSET Hypergraph
    BY <1>1, <2>4, MinimizedType DEF AddErrorGraph, TypeOK
  <2>7. nextID' \in 1 .. IDType_MAX
    BY <1>1, IDTypeMaxIsPositive DEF AddErrorGraph, IDType
  <2> QED BY <1>1, <2>5, <2>6, <2>7 DEF AddErrorGraph, TypeOK
<1>2. CASE ErrorGraphsAdded
  BY <1>2 DEF ErrorGraphsAdded, Return, TypeOK
<1>3. CASE StartBackwardStep
  BY <1>3 DEF StartBackwardStep, TypeOK
<1>4. CASE Terminate
  BY <1>4 DEF Terminate, Return, TypeOK
<1>5. CASE SkipGraph
  BY <1>5, RangeOfFront DEF SkipGraph, TypeOK
<1>6. CASE ProcessGraph
  BY <1>6, RangeOfFront DEF ProcessGraph, TypeOK
<1>7. CASE FinishBackwardStep
  BY <1>7, EmptySeq DEF FinishBackwardStep, TypeOK
<1>8. ASSUME NEW r \in StdRules, ApplyStdRule(r) PROVE TypeOK'
  <2>1. currentGraph[1].shape \in Shapes
    BY <1>8 DEF ApplyStdRule, TypeOK, Hypergraph
  <2>2. input.std[r][currentGraph[1].shape] \in Seq(Shapes)
    BY <2>1, InputFacts DEF TypeOK
  <2> QED BY <1>8, <2>2 DEF ApplyStdRule, TypeOK
<1>9. ASSUME NEW u \in UQRules, BeginUQRule(u) PROVE TypeOK'
  <2>1. currentGraph[1].shape \in Shapes
    BY <1>9 DEF BeginUQRule, TypeOK, Hypergraph
  <2>2. input.uq[u][currentGraph[1].shape] \in Seq(Seq(Shapes))
    BY <2>1, InputFacts DEF TypeOK
  <2> QED BY <1>9, <2>2 DEF BeginUQRule, TypeOK
<1>10. CASE ApplyInstance
  BY <1>10, RangeOfTail DEF ApplyInstance, TypeOK
<1>11. CASE FinishGraph
  BY <1>11 DEF FinishGraph, TypeOK
<1>12. CASE DropInvalidPOC
  BY <1>12, EnumeratedType DEF DropInvalidPOC, TypeOK
<1>13. CASE SubsumedPOC
  BY <1>13, EnumeratedType DEF SubsumedPOC, HasPOC, NextPOC, Return, TypeOK
<1>14. CASE AddPOC
  <2>1. pocs # <<>> /\ nextID \in IDType
    BY <1>14 DEF AddPOC, HasPOC
  <2>2. minimalGraphs' \in SUBSET Hypergraph
    BY <1>14, <2>1, EnumeratedType, MinimizedType DEF AddPOC, TypeOK
  <2>3. newGraphs' \in Seq(Hypergraph)
    BY <1>14, <2>1, EnumeratedType, RangeOfAppend DEF AddPOC, TypeOK
  <2> QED BY <1>14, <2>1, <2>2, <2>3, EnumeratedType DEF AddPOC, NextPOC, Return, TypeOK
<1>15. CASE EndApplyOne
  BY <1>15 DEF EndApplyOne, TypeOK
<1>16. CASE ThrowOutOfIDs
  BY <1>16 DEF ThrowOutOfIDs, Return, TypeOK
<1>17. CASE UNCHANGED vars
  BY <1>17 DEF vars, TypeOK
<1> QED BY <1>1, <1>2, <1>3, <1>4, <1>5, <1>6, <1>7, <1>8, <1>9, <1>10, <1>11, <1>12,
           <1>13, <1>14, <1>15, <1>16, <1>17 DEF Next

\* Every variable of the search always has its type: in particular the id
\* counter never passes IDType_MAX and every stored graph has a legal id.
THEOREM TypeCorrect == Spec => []TypeOK
<1>1. Init => TypeOK BY TypeInit
<1>2. TypeOK /\ [Next]_vars => TypeOK' BY TypeStep
<1> QED BY <1>1, <1>2, PTL DEF Spec

-----------------------------------------------------------------------------
(* The list of minimal graphs *)

\* Replacing larger graphs by a smaller one loses no represented shape.
LEMMA MinimizedRepresents ==
  ASSUME NEW S \in SUBSET Hypergraph, NEW g \in Hypergraph, NEW s \in Shapes
  PROVE  /\ Represents(S, s) => Represents(Minimized(S, g), s)
         /\ Leq(g.shape, s) => Represents(Minimized(S, g), s)
<1>1. Leq(g.shape, s) => Represents(Minimized(S, g), s)
  BY DEF Represents, Minimized
<1>2. ASSUME Represents(S, s) PROVE Represents(Minimized(S, g), s)
  <2>1. PICK h \in S : Leq(h.shape, s)
    BY <1>2 DEF Represents
  <2>2. h.shape \in Shapes /\ g.shape \in Shapes
    BY DEF Hypergraph
  <2>3. CASE IsLessOrEq(g, h)
    BY <1>1, <2>1, <2>2, <2>3, LeqIsQuasiOrder DEF IsLessOrEq
  <2>4. CASE ~ IsLessOrEq(g, h)
    BY <2>1, <2>4 DEF Represents, Minimized
  <2> QED BY <2>3, <2>4
<1> QED BY <1>1, <1>2

\* A graph rejected by addGraph was represented already.
LEMMA SubsumedRepresents ==
  ASSUME NEW S \in SUBSET Hypergraph, NEW g \in Hypergraph
  PROVE  Subsumed(S, g) <=> Represents(S, g.shape)
BY DEF Subsumed, Represents, IsLessOrEq

\* The only thing any step does to the list is one accepted addGraph.
ListStep ==
  \/ UNCHANGED minimalGraphs
  \/ \E g \in Hypergraph :
       /\ ~ Subsumed(minimalGraphs, g)
       /\ minimalGraphs' = Minimized(minimalGraphs, g)

\* Whatever a step does to the minimal graphs, it is either nothing or the
\* addition of one graph as MinGraphList::addGraph does it.
LEMMA StepsOfTheList == TypeOK /\ [Next]_vars => ListStep
<1> SUFFICES ASSUME TypeOK, [Next]_vars PROVE ListStep
  OBVIOUS
<1>1. CASE AddErrorGraph
  <2> DEFINE g == [id |-> nextID, shape |-> input.errors[Len(todoGraphs) + 1]]
  <2>1. g \in Hypergraph
    BY <1>1, NextErrorType
  <2>2. minimalGraphs' = IF Subsumed(minimalGraphs, g) THEN minimalGraphs
                                                        ELSE Minimized(minimalGraphs, g)
    BY <1>1 DEF AddErrorGraph
  <2> QED BY <2>1, <2>2 DEF ListStep
<1>2. CASE AddPOC
  <2>1. Enumerated \in Hypergraph
    BY <1>2, EnumeratedType DEF AddPOC, HasPOC
  <2> QED BY <1>2, <2>1 DEF AddPOC, ListStep
<1>3. CASE ~ AddErrorGraph /\ ~ AddPOC
  <2>1. UNCHANGED minimalGraphs
    BY <1>3 DEF Next, vars, ErrorGraphsAdded, StartBackwardStep, Terminate, SkipGraph,
                ProcessGraph, FinishBackwardStep, ApplyStdRule, BeginUQRule, ApplyInstance,
                FinishGraph, DropInvalidPOC, SubsumedPOC, EndApplyOne, ThrowOutOfIDs
  <2> QED BY <2>1 DEF ListStep
<1> QED BY <1>1, <1>2, <1>3

\* No step makes the search forget a represented shape.
LEMMA RepresentedStays ==
  ASSUME TypeOK, [Next]_vars, NEW s \in Shapes, Represents(minimalGraphs, s)
  PROVE  Represents(minimalGraphs, s)'
<1>1. ListStep BY StepsOfTheList
<1>2. CASE UNCHANGED minimalGraphs
  BY <1>2 DEF Represents
<1>3. ASSUME NEW g \in Hypergraph, minimalGraphs' = Minimized(minimalGraphs, g)
      PROVE  Represents(minimalGraphs, s)'
  <2>1. minimalGraphs \in SUBSET Hypergraph BY DEF TypeOK
  <2>2. Represents(Minimized(minimalGraphs, g), s) BY <2>1, MinimizedRepresents
  <2> QED BY <1>3, <2>2 DEF Represents
<1> QED BY <1>1, <1>2, <1>3 DEF ListStep

\* What is represented stays represented in every step of every search.
THEOREM KnowledgeIsNeverLost == Spec => KnowledgeGrows
<1>1. TypeOK /\ [Next]_vars
        => [UpwardClosure(minimalGraphs) \subseteq UpwardClosure(minimalGraphs')]_vars
  BY RepresentedStays DEF UpwardClosure, Represents
<1> QED BY <1>1, TypeCorrect, PTL DEF Spec, KnowledgeGrows

\* The result never holds two comparable graphs.
THEOREM ResultIsMinimal == Spec => []NoComparableGraphs
<1>1. Init => NoComparableGraphs
  BY DEF Init, NoComparableGraphs, Antichain
<1>2. TypeOK /\ NoComparableGraphs /\ [Next]_vars => NoComparableGraphs'
  <2> SUFFICES ASSUME TypeOK, NoComparableGraphs, [Next]_vars PROVE NoComparableGraphs'
    OBVIOUS
  <2>1. CASE UNCHANGED minimalGraphs
    BY <2>1 DEF NoComparableGraphs, Antichain
  <2>2. ASSUME NEW g \in Hypergraph, ~ Subsumed(minimalGraphs, g),
               minimalGraphs' = Minimized(minimalGraphs, g)
        PROVE  NoComparableGraphs'
    BY <2>2 DEF NoComparableGraphs, Antichain, Minimized, Subsumed
  <2> QED BY <2>1, <2>2, StepsOfTheList DEF ListStep
<1> QED BY <1>1, <1>2, TypeCorrect, PTL DEF Spec

-----------------------------------------------------------------------------
(* The search is exact: no graph of the result is left without its         *)
(* predecessors, everything in the result leads to an error graph, and a   *)
(* regular end means that nothing is missing.                              *)

-----------------------------------------------------------------------------
(* The program counter and the loop variables *)

\* The search starts in a consistent control state.
LEMMA ControlInit == Init => ControlState
BY DEF Init, ControlState

\* Every step of performAnalysis and applyOne keeps the program counter and the
\* variables that only some parts of the loops use in agreement.
LEMMA ControlStep == TypeOK /\ ControlState /\ [Next]_vars => ControlState'
<1> SUFFICES ASSUME TypeOK, ControlState, [Next]_vars PROVE ControlState'
  OBVIOUS
<1> USE DEF search, ControlState
<1>1. CASE AddErrorGraph BY <1>1 DEF AddErrorGraph
<1>2. CASE ErrorGraphsAdded BY <1>2 DEF ErrorGraphsAdded, Return
<1>3. CASE StartBackwardStep BY <1>3 DEF StartBackwardStep
<1>4. CASE Terminate BY <1>4 DEF Terminate, Return
<1>5. CASE SkipGraph BY <1>5 DEF SkipGraph
<1>6. CASE ProcessGraph BY <1>6 DEF ProcessGraph
<1>7. CASE FinishBackwardStep BY <1>7 DEF FinishBackwardStep
<1>8. ASSUME NEW r \in StdRules, ApplyStdRule(r) PROVE ControlState'
  BY <1>8 DEF ApplyStdRule
<1>9. ASSUME NEW u \in UQRules, BeginUQRule(u) PROVE ControlState'
  BY <1>9 DEF BeginUQRule
<1>10. CASE ApplyInstance BY <1>10 DEF ApplyInstance
<1>11. CASE FinishGraph BY <1>11 DEF FinishGraph
<1>12. CASE DropInvalidPOC BY <1>12 DEF DropInvalidPOC
<1>13. CASE SubsumedPOC BY <1>13 DEF SubsumedPOC, HasPOC, NextPOC, Return
<1>14. CASE AddPOC BY <1>14 DEF AddPOC, HasPOC, NextPOC, Return
<1>15. CASE EndApplyOne BY <1>15 DEF EndApplyOne
<1>16. CASE ThrowOutOfIDs BY <1>16 DEF ThrowOutOfIDs, Return
<1>17. CASE UNCHANGED vars BY <1>17 DEF vars
<1> QED BY <1>1, <1>2, <1>3, <1>4, <1>5, <1>6, <1>7, <1>8, <1>9, <1>10, <1>11, <1>12,
           <1>13, <1>14, <1>15, <1>16, <1>17 DEF Next

-----------------------------------------------------------------------------
(* What the rule loops have still to deliver *)

\* The instances left, as the set the loop draws from.
LEMMA RemainingInstances ==
  ASSUME NEW q \in Seq(Seq(Shapes)), NEW p
  PROVE  (\E i \in DOMAIN q : p \in Range(q[i])) <=> (\E c \in Range(q) : p \in Range(c))
BY DEF Range

\* The loops start with every predecessor of the graph to be delivered.
LEMMA RemainingAtStart ==
  ASSUME TypeOK, ControlState, ProcessGraph, NEW s \in Shapes
  PROVE  Remaining(s)' = PredShapes(input, s)
<1>1. /\ stdLeft' = StdRules /\ uqLeft' = UQRules /\ input' = input
      /\ instances' = <<>> /\ pocs' = <<>>
  BY DEF ProcessGraph, ControlState
<1> QED BY <1>1 DEF Remaining, PredShapes, Range

\* While they run nothing is added to what remains, and only what addGraph has
\* been given disappears.
LEMMA RemainingStep ==
  ASSUME TypeOK, ControlState, [Next]_vars, NEW g \in Hypergraph,
         currentGraph = <<g>>, currentGraph' = <<g>>
  PROVE  /\ Remaining(g.shape)' \subseteq Remaining(g.shape)
         /\ \A p \in Remaining(g.shape) :
              p \in Remaining(g.shape)' \/ Represents(minimalGraphs', p)
<1> DEFINE s == g.shape
<1>a. s \in Shapes /\ currentGraph[1].shape = s BY DEF Hypergraph
<1>b. /\ input.std \in [StdRules -> [Shapes -> Seq(Shapes)]]
      /\ input.uq \in [UQRules -> [Shapes -> Seq(Seq(Shapes))]]
      /\ instances \in Seq(Seq(Shapes)) /\ pocs \in Seq(Shapes)
  BY InputFacts DEF TypeOK
<1>n. <<g>> # <<>> OBVIOUS
<1>0. input' = input
  BY DEF Next, vars, AddErrorGraph, ErrorGraphsAdded, StartBackwardStep, Terminate, SkipGraph,
         ProcessGraph, FinishBackwardStep, ApplyStdRule, BeginUQRule, ApplyInstance,
         FinishGraph, DropInvalidPOC, SubsumedPOC, AddPOC, EndApplyOne, ThrowOutOfIDs
<1>1. ASSUME NEW r \in StdRules, ApplyStdRule(r) PROVE Remaining(s)' = Remaining(s)
  <2>1. /\ r \in stdLeft /\ stdLeft' = stdLeft \ {r} /\ pocs = <<>>
        /\ pocs' = input.std[r][s] /\ UNCHANGED <<uqLeft, instances>>
    BY <1>1, <1>a DEF ApplyStdRule, ControlState
  <2> QED BY <1>0, <2>1 DEF Remaining, Range
<1>2. ASSUME NEW u \in UQRules, BeginUQRule(u) PROVE Remaining(s)' = Remaining(s)
  <2>1. /\ u \in uqLeft /\ uqLeft' = uqLeft \ {u} /\ instances = <<>>
        /\ instances' = input.uq[u][s] /\ UNCHANGED <<stdLeft, pocs>>
    BY <1>2, <1>a DEF BeginUQRule
  <2> QED BY <1>0, <2>1 DEF Remaining
<1>3. CASE ApplyInstance
  <2>1. /\ instances # <<>> /\ instances' = Tail(instances) /\ pocs = <<>>
        /\ pocs' = Head(instances) /\ UNCHANGED <<stdLeft, uqLeft>>
    BY <1>3 DEF ApplyInstance, ControlState
  <2>2. instances' \in Seq(Seq(Shapes)) /\ Range(instances) = Range(instances') \cup {pocs'}
    BY <1>b, <2>1, RangeOfTail
  <2>3. ASSUME NEW p
        PROVE  (\E i \in DOMAIN instances : p \in Range(instances[i]))
               <=> (\E i \in DOMAIN instances' : p \in Range(instances'[i])) \/ p \in Range(pocs')
    BY <1>b, <2>2, RemainingInstances
  <2>4. Range(pocs) = {} BY <2>1, RangeOfEmpty
  <2>5. Remaining(s)' = Remaining(s)
    BY <1>0, <2>1, <2>3, <2>4 DEF Remaining
  <2> QED BY <2>5
<1>4. CASE DropInvalidPOC
  <2>1. /\ pocs # <<>> /\ pocs' = Tail(pocs) /\ Head(pocs) \notin input.valid
        /\ UNCHANGED <<stdLeft, uqLeft, instances>>
    BY <1>4 DEF DropInvalidPOC
  <2>2. Range(pocs) = Range(pocs') \cup {Head(pocs)} BY <1>b, <2>1, RangeOfTail
  <2> QED BY <1>0, <2>1, <2>2 DEF Remaining
<1>5. ASSUME pocs # <<>>, pocs' = Tail(pocs), UNCHANGED <<stdLeft, uqLeft, instances>>,
             Represents(minimalGraphs', Head(pocs))
      PROVE  /\ Remaining(s)' \subseteq Remaining(s)
             /\ \A p \in Remaining(s) : p \in Remaining(s)' \/ Represents(minimalGraphs', p)
  <2>1. Range(pocs) = Range(pocs') \cup {Head(pocs)} BY <1>b, <1>5, RangeOfTail
  <2>2. Remaining(s)' \subseteq Remaining(s) BY <1>0, <1>5, <2>1 DEF Remaining
  <2>3. ASSUME NEW p \in Remaining(s) PROVE p \in Remaining(s)' \/ p = Head(pocs)
    BY <1>0, <1>5, <2>1 DEF Remaining
  <2> QED BY <1>5, <2>2, <2>3
<1>6. CASE SubsumedPOC
  <2>1. /\ pocs # <<>> /\ nextID \in IDType /\ Subsumed(minimalGraphs, Enumerated)
        /\ pocs' = Tail(pocs)
        /\ UNCHANGED <<stdLeft, uqLeft, instances, minimalGraphs>>
    BY <1>6 DEF SubsumedPOC, HasPOC, NextPOC
  <2>2. Represents(minimalGraphs, Head(pocs))
    BY <2>1, EnumeratedType, SubsumedRepresents DEF TypeOK
  <2>3. Represents(minimalGraphs', Head(pocs))
    BY <2>1, <2>2 DEF Represents
  <2> QED BY <2>1, <2>3, <1>5
<1>7. CASE AddPOC
  <2>1. /\ pocs # <<>> /\ nextID \in IDType /\ pocs' \in {pocs, Tail(pocs)}
        /\ minimalGraphs' = Minimized(minimalGraphs, Enumerated)
        /\ UNCHANGED <<stdLeft, uqLeft, instances>>
    BY <1>7 DEF AddPOC, HasPOC, NextPOC
  <2>2. CASE pocs' = pocs
    BY <1>0, <2>1, <2>2 DEF Remaining
  <2>3. CASE pocs' = Tail(pocs)
    <3>1. Leq(Enumerated.shape, Head(pocs))
      BY <2>1, EnumeratedType, LeqIsQuasiOrder
    <3>2. Represents(minimalGraphs', Head(pocs))
      BY <2>1, <3>1, EnumeratedType, MinimizedRepresents DEF TypeOK
    <3> QED BY <1>5, <2>1, <2>3, <3>2
  <2> QED BY <2>1, <2>2, <2>3
<1>8. CASE UNCHANGED search
  BY <1>0, <1>8 DEF search, Remaining
<1>9. CASE AddErrorGraph \/ ErrorGraphsAdded \/ StartBackwardStep \/ Terminate \/ SkipGraph
           \/ FinishBackwardStep \/ FinishGraph \/ EndApplyOne \/ ThrowOutOfIDs
           \/ UNCHANGED vars
  <2>1. UNCHANGED search
    BY <1>9 DEF AddErrorGraph, ErrorGraphsAdded, StartBackwardStep, Terminate, SkipGraph,
                FinishBackwardStep, FinishGraph, EndApplyOne, ThrowOutOfIDs, vars, search
  <2> QED BY <1>8, <2>1
<1>10. CASE ProcessGraph
  BY <1>10, <1>n DEF ProcessGraph, ControlState
<1> QED BY <1>1, <1>2, <1>3, <1>4, <1>6, <1>7, <1>9, <1>10 DEF Next

-----------------------------------------------------------------------------
(* No work is lost *)

\* The only steps that change the graph in hand.
LEMMA CurrentGraphStep ==
  ASSUME [Next]_vars
  PROVE  ProcessGraph \/ FinishGraph \/ UNCHANGED currentGraph
BY DEF Next, vars, AddErrorGraph, ErrorGraphsAdded, StartBackwardStep, Terminate, SkipGraph,
       FinishBackwardStep, ApplyStdRule, BeginUQRule, ApplyInstance, DropInvalidPOC,
       SubsumedPOC, AddPOC, EndApplyOne, ThrowOutOfIDs

\* No step changes the graphs, rules and options the search was given.
LEMMA InputStays == ASSUME [Next]_vars PROVE input' = input
BY DEF Next, vars, AddErrorGraph, ErrorGraphsAdded, StartBackwardStep, Terminate, SkipGraph,
       ProcessGraph, FinishBackwardStep, ApplyStdRule, BeginUQRule, ApplyInstance,
       FinishGraph, DropInvalidPOC, SubsumedPOC, AddPOC, EndApplyOne, ThrowOutOfIDs

\* Whatever shape the rules are applied to, they yield shapes of graphs.
LEMMA PredShapesType ==
  ASSUME NEW in \in Inputs, NEW s PROVE PredShapes(in, s) \subseteq Shapes
BY InputFacts DEF PredShapes

\* While rules are applied there is a current graph, and it is well-typed.
LEMMA CurrentGraphIsOne ==
  ASSUME TypeOK PROVE \A g \in Range(currentGraph) : g \in Hypergraph /\ currentGraph = <<g>>
BY DEF TypeOK, Range

\* A rule stays accounted for: no step of applyOne loses a predecessor of the
\* current graph that was already added, or that is still to come.
LEMMA ProgressStep ==
  TypeOK /\ ControlState /\ GraphProgress /\ [Next]_vars => GraphProgress'
<1> SUFFICES ASSUME TypeOK, ControlState, GraphProgress, [Next]_vars PROVE GraphProgress'
  OBVIOUS
<1>0. input' = input /\ input \in Inputs BY InputStays DEF TypeOK
<1>1. CASE ProcessGraph
  <2> SUFFICES ASSUME NEW g \in Range(currentGraph')
               PROVE  Remaining(g.shape)' = PredShapes(input', g.shape)
    BY DEF GraphProgress
  <2>2. g = Last(todoGraphs) BY <1>1 DEF ProcessGraph, Range
  <2>3. todoGraphs \in Seq(Hypergraph) /\ todoGraphs # <<>> BY <1>1 DEF ProcessGraph, TypeOK
  <2>4. Last(todoGraphs) \in Hypergraph BY <2>3, RangeOfFront
  <2>5. g.shape \in Shapes BY <2>2, <2>4 DEF Hypergraph
  <2> QED BY <1>0, <1>1, <2>5, RemainingAtStart
<1>2. CASE FinishGraph
  BY <1>2 DEF FinishGraph, GraphProgress, Range
<1>3. CASE UNCHANGED currentGraph
  <2> SUFFICES ASSUME NEW g \in Range(currentGraph)
               PROVE  /\ Remaining(g.shape)' \subseteq PredShapes(input, g.shape)
                      /\ \A p \in PredShapes(input, g.shape) :
                           Represents(minimalGraphs', p) \/ p \in Remaining(g.shape)'
    BY <1>0, <1>3 DEF GraphProgress
  <2>1. g \in Hypergraph /\ currentGraph = <<g>> /\ currentGraph' = <<g>>
    BY <1>3, CurrentGraphIsOne
  <2>2. /\ Remaining(g.shape)' \subseteq Remaining(g.shape)
        /\ \A p \in Remaining(g.shape) :
             p \in Remaining(g.shape)' \/ Represents(minimalGraphs', p)
    BY <2>1, RemainingStep
  <2>3. \A p \in PredShapes(input, g.shape) :
          Represents(minimalGraphs, p) => Represents(minimalGraphs', p)
    <3> SUFFICES ASSUME NEW p \in PredShapes(input, g.shape), Represents(minimalGraphs, p)
                 PROVE  Represents(minimalGraphs', p)
      OBVIOUS
    <3>1. p \in Shapes BY <1>0, PredShapesType
    <3> QED BY <3>1, RepresentedStays DEF Represents
  <2> QED BY <2>2, <2>3 DEF GraphProgress
<1> QED BY <1>1, <1>2, <1>3, CurrentGraphStep

\* A graph the list already had is waiting after a step if it was before, unless
\* the step was the one that finished it.
LEMMA WaitingStep ==
  ASSUME TypeOK, ControlState, [Next]_vars, NEW g \in minimalGraphs, Waiting(g)
  PROVE  Waiting(g)' \/ (FinishGraph /\ currentGraph = <<g>>)
<1> USE DEF search
<1>0. /\ g \in Hypergraph
      /\ todoGraphs \in Seq(Hypergraph) /\ newGraphs \in Seq(Hypergraph)
  BY DEF TypeOK
<1>e. Range(<<>>) = {} BY RangeOfEmpty
<1>1. CASE AddErrorGraph
  <2> DEFINE e == [id |-> nextID, shape |-> input.errors[Len(todoGraphs) + 1]]
  <2>1. e \in Hypergraph
    BY <1>1, NextErrorType
  <2>2. Range(todoGraphs') = Range(todoGraphs) \cup {e}
    BY <1>0, <1>1, <2>1, RangeOfAppend DEF AddErrorGraph
  <2> QED BY <1>1, <2>2 DEF AddErrorGraph, Waiting
<1>2. CASE SkipGraph
  <2>1. Range(todoGraphs) = Range(todoGraphs') \cup {Last(todoGraphs)}
    BY <1>0, <1>2, RangeOfFront DEF SkipGraph
  <2>2. g # Last(todoGraphs)
    BY <1>2 DEF SkipGraph, StillMinimal
  <2> QED BY <1>2, <2>1, <2>2 DEF SkipGraph, Waiting
<1>3. CASE ProcessGraph
  <2>1. Range(todoGraphs) = Range(todoGraphs') \cup {Last(todoGraphs)}
    BY <1>0, <1>3, RangeOfFront DEF ProcessGraph
  <2>2. Range(currentGraph) = {} /\ Range(currentGraph') = {Last(todoGraphs)}
    BY <1>3, <1>e DEF ProcessGraph, ControlState, Range
  <2> QED BY <1>3, <2>1, <2>2 DEF ProcessGraph, Waiting
<1>4. CASE FinishBackwardStep
  BY <1>4, <1>e DEF FinishBackwardStep, Waiting
<1>5. CASE FinishGraph
  <2>1. CASE g \in Range(currentGraph) BY <1>5, <2>1, CurrentGraphIsOne
  <2>2. CASE g \notin Range(currentGraph) BY <1>5, <2>2 DEF FinishGraph, Waiting
  <2> QED BY <2>1, <2>2
<1>6. CASE AddPOC
  <2>1. Range(newGraphs') = Range(newGraphs) \cup {Enumerated}
    BY <1>0, <1>6, EnumeratedType, RangeOfAppend DEF AddPOC, HasPOC
  <2> QED BY <1>6, <2>1 DEF AddPOC, Waiting
<1>7. CASE UNCHANGED <<todoGraphs, newGraphs, currentGraph>>
  BY <1>7 DEF Waiting
<1> QED BY <1>1, <1>2, <1>3, <1>4, <1>5, <1>6, <1>7
        DEF Next, vars, ErrorGraphsAdded, StartBackwardStep, Terminate, ApplyStdRule,
            BeginUQRule, ApplyInstance, DropInvalidPOC, SubsumedPOC, EndApplyOne, ThrowOutOfIDs

\* A graph that enters the list is waiting.
LEMMA NewGraphsWait ==
  ASSUME TypeOK, [Next]_vars, NEW g \in minimalGraphs', g \notin minimalGraphs
  PROVE  Waiting(g)'
<1>0. todoGraphs \in Seq(Hypergraph) /\ newGraphs \in Seq(Hypergraph)
  BY DEF TypeOK
<1>1. CASE AddErrorGraph
  <2> DEFINE e == [id |-> nextID, shape |-> input.errors[Len(todoGraphs) + 1]]
  <2>1. e \in Hypergraph
    BY <1>1, NextErrorType
  <2>2. Range(todoGraphs') = Range(todoGraphs) \cup {e}
    BY <1>0, <1>1, <2>1, RangeOfAppend DEF AddErrorGraph
  <2>3. g = e
    BY <1>1 DEF AddErrorGraph, Minimized
  <2> QED BY <2>2, <2>3 DEF Waiting
<1>2. CASE AddPOC
  <2>1. Range(newGraphs') = Range(newGraphs) \cup {Enumerated}
    BY <1>0, <1>2, EnumeratedType, RangeOfAppend DEF AddPOC, HasPOC
  <2>2. g = Enumerated
    BY <1>2 DEF AddPOC, Minimized
  <2> QED BY <2>1, <2>2 DEF Waiting
<1>3. CASE ~ AddErrorGraph /\ ~ AddPOC
  BY <1>3 DEF Next, vars, ErrorGraphsAdded, StartBackwardStep, Terminate, SkipGraph,
              ProcessGraph, FinishBackwardStep, ApplyStdRule, BeginUQRule, ApplyInstance,
              FinishGraph, DropInvalidPOC, SubsumedPOC, EndApplyOne, ThrowOutOfIDs
<1> QED BY <1>1, <1>2, <1>3

\* When the rule loops are through with a graph, nothing remains.
LEMMA NothingRemains ==
  ASSUME ControlState, FinishGraph, NEW s PROVE Remaining(s) = {}
BY RangeOfEmpty DEF FinishGraph, ControlState, Remaining

\* Every step keeps the predecessors of all processed graphs covered; the todo
\* and new lists hold the graphs that are not processed yet.
LEMMA ForgottenStep ==
  TypeOK /\ ControlState /\ GraphProgress /\ NothingForgotten /\ [Next]_vars
    => NothingForgotten'
<1> SUFFICES ASSUME TypeOK, ControlState, GraphProgress, NothingForgotten, [Next]_vars,
                    NEW g \in minimalGraphs', ~ Waiting(g)',
                    NEW p \in PredShapes(input', g.shape)
             PROVE  Represents(minimalGraphs', p)
  BY DEF NothingForgotten
<1>0. input' = input /\ input \in Inputs BY InputStays DEF TypeOK
<1>1. p \in Shapes BY <1>0, PredShapesType
<1>2. g \in minimalGraphs BY NewGraphsWait
<1>3. CASE Represents(minimalGraphs, p)
  BY <1>1, <1>3, RepresentedStays DEF Represents
<1>4. CASE ~ Represents(minimalGraphs, p)
  <2>1. Waiting(g) BY <1>0, <1>2, <1>4 DEF NothingForgotten
  <2>2. FinishGraph /\ currentGraph = <<g>> BY <1>2, <2>1, WaitingStep
  <2>3. g \in Range(currentGraph) BY <2>2 DEF Range
  <2>4. p \in Remaining(g.shape) BY <1>0, <1>4, <2>3 DEF GraphProgress
  <2> QED BY <2>2, <2>4, NothingRemains
<1> QED BY <1>3, <1>4

\* Control and progress are invariants of every search.
THEOREM ProgressInvariant == Spec => [](ControlState /\ GraphProgress)
<1>1. Init => ControlState /\ GraphProgress
  BY ControlInit DEF Init, GraphProgress, Range
<1>2. TypeOK /\ ControlState /\ GraphProgress /\ [Next]_vars => (ControlState /\ GraphProgress)'
  BY ControlStep, ProgressStep
<1> QED BY <1>1, <1>2, TypeCorrect, PTL DEF Spec

\* Skipping subsumed graphs, dropping larger ones and swapping the lists between
\* rounds never loses a predecessor of a graph that is kept.
THEOREM NothingIsForgotten == Spec => []NothingForgotten
<1>1. Init => NothingForgotten
  BY DEF Init, NothingForgotten
<1>2. TypeOK /\ ControlState /\ GraphProgress /\ NothingForgotten /\ [Next]_vars
        => NothingForgotten'
  BY ForgottenStep
<1> QED BY <1>1, <1>2, TypeCorrect, ProgressInvariant, PTL DEF Spec

-----------------------------------------------------------------------------
(* The graphs the search holds *)

\* Only the two steps that create a graph make the search hold a new one.
LEMMA HeldStep ==
  ASSUME TypeOK, [Next]_vars
  PROVE  \/ Held' \subseteq Held
         \/ AddErrorGraph /\ Held' \subseteq
              Held \cup {[id |-> nextID, shape |-> input.errors[Len(todoGraphs) + 1]]}
         \/ AddPOC /\ Held' \subseteq Held \cup {Enumerated}
<1>0. todoGraphs \in Seq(Hypergraph) /\ newGraphs \in Seq(Hypergraph)
  BY DEF TypeOK
<1>e. Range(<<>>) = {} BY RangeOfEmpty
<1>1. CASE AddErrorGraph
  <2> DEFINE e == [id |-> nextID, shape |-> input.errors[Len(todoGraphs) + 1]]
  <2>1. e \in Hypergraph
    BY <1>1, NextErrorType
  <2>2. Range(todoGraphs') = Range(todoGraphs) \cup {e}
    BY <1>0, <1>1, <2>1, RangeOfAppend DEF AddErrorGraph
  <2>3. minimalGraphs' \subseteq minimalGraphs \cup {e}
    BY <1>1 DEF AddErrorGraph, Minimized
  <2> QED BY <1>1, <2>2, <2>3 DEF AddErrorGraph, Held
<1>2. CASE AddPOC
  <2>1. Range(newGraphs') = Range(newGraphs) \cup {Enumerated}
    BY <1>0, <1>2, EnumeratedType, RangeOfAppend DEF AddPOC, HasPOC
  <2>2. minimalGraphs' \subseteq minimalGraphs \cup {Enumerated}
    BY <1>2 DEF AddPOC, Minimized
  <2> QED BY <1>2, <2>1, <2>2 DEF AddPOC, Held
<1>3. CASE SkipGraph
  <2>1. Range(todoGraphs') \subseteq Range(todoGraphs)
    BY <1>0, <1>3, RangeOfFront DEF SkipGraph
  <2> QED BY <1>3, <2>1 DEF SkipGraph, Held
<1>4. CASE ProcessGraph
  <2>1. Range(todoGraphs) = Range(todoGraphs') \cup {Last(todoGraphs)}
    BY <1>0, <1>4, RangeOfFront DEF ProcessGraph
  <2>2. Range(currentGraph') = {Last(todoGraphs)}
    BY <1>4 DEF ProcessGraph, Range
  <2> QED BY <1>4, <2>1, <2>2 DEF ProcessGraph, Held
<1>5. CASE FinishBackwardStep
  BY <1>5, <1>e DEF FinishBackwardStep, Held
<1>6. CASE FinishGraph
  BY <1>6, <1>e DEF FinishGraph, Held
<1>7. CASE UNCHANGED <<minimalGraphs, todoGraphs, newGraphs, currentGraph>>
  BY <1>7 DEF Held
<1> QED BY <1>1, <1>2, <1>3, <1>4, <1>5, <1>6, <1>7
        DEF Next, vars, ErrorGraphsAdded, StartBackwardStep, Terminate, ApplyStdRule,
            BeginUQRule, ApplyInstance, DropInvalidPOC, SubsumedPOC, EndApplyOne, ThrowOutOfIDs

\* The graphs the search holds on to, in whatever list, are graphs.
LEMMA HeldType == ASSUME TypeOK PROVE Held \subseteq Hypergraph
<1>1. /\ Range(todoGraphs) \subseteq Hypergraph /\ Range(newGraphs) \subseteq Hypergraph
  BY RangeIsSubset DEF TypeOK
<1>2. Range(currentGraph) \subseteq Hypergraph BY CurrentGraphIsOne
<1> QED BY <1>1, <1>2 DEF TypeOK, Held

\* Before the error graphs are added no graph is held.
LEMMA NothingHeldAtFirst == Init => Held = {}
BY RangeOfEmpty DEF Init, Held

-----------------------------------------------------------------------------
(* Ids *)

\* Every step keeps the ids of the held graphs apart, and the id counter above them.
LEMMA IdsStep == TypeOK /\ IdsBelowNext /\ IdsAreUnique /\ [Next]_vars
                   => (IdsBelowNext /\ IdsAreUnique)'
<1> SUFFICES ASSUME TypeOK, IdsBelowNext, IdsAreUnique, [Next]_vars
             PROVE  (IdsBelowNext /\ IdsAreUnique)'
  OBVIOUS
<1>0. nextID \in Nat /\ Held \subseteq Hypergraph /\ \A g \in Held : g.id \in Nat
  BY HeldType DEF TypeOK, Hypergraph, IDType
<1>1. CASE Held' \subseteq Held
  <2>1. nextID' \in {nextID, nextID + 1}
    BY DEF Next, vars, AddErrorGraph, ErrorGraphsAdded, StartBackwardStep, Terminate, SkipGraph,
           ProcessGraph, FinishBackwardStep, ApplyStdRule, BeginUQRule, ApplyInstance,
           FinishGraph, DropInvalidPOC, SubsumedPOC, AddPOC, EndApplyOne, ThrowOutOfIDs
  <2>2. \A g \in Held' : g.id < nextID'
    BY <1>0, <1>1, <2>1 DEF IdsBelowNext
  <2> QED BY <1>1, <2>2 DEF IdsBelowNext, IdsAreUnique
<1>2. ASSUME NEW e, e.id = nextID, Held' \subseteq Held \cup {e}, nextID' = nextID + 1
      PROVE  (IdsBelowNext /\ IdsAreUnique)'
  <2>1. \A g \in Held' : g.id < nextID'
    BY <1>0, <1>2 DEF IdsBelowNext
  <2>2. \A g, h \in Held' : g.id = h.id => g = h
    BY <1>0, <1>2 DEF IdsBelowNext, IdsAreUnique
  <2> QED BY <2>1, <2>2 DEF IdsBelowNext, IdsAreUnique
<1>3. CASE AddErrorGraph /\ Held' \subseteq
             Held \cup {[id |-> nextID, shape |-> input.errors[Len(todoGraphs) + 1]]}
  BY <1>2, <1>3 DEF AddErrorGraph
<1>4. CASE AddPOC /\ Held' \subseteq Held \cup {Enumerated}
  BY <1>2, <1>4 DEF AddPOC, Enumerated
<1> QED BY <1>1, <1>3, <1>4, HeldStep

\* An id stands for one graph: contains(id) can never mistake a new graph for
\* one that was dropped.
THEOREM UniqueIds == Spec => []IdsAreUnique
<1>1. Init => IdsBelowNext /\ IdsAreUnique
  BY NothingHeldAtFirst DEF IdsBelowNext, IdsAreUnique
<1> QED BY <1>1, IdsStep, TypeCorrect, PTL DEF Spec

-----------------------------------------------------------------------------
(* Everything kept leads to an error graph *)

\* The backward reachable shapes are themselves saturated.
LEMMA ReachableIsSaturated ==
  ASSUME NEW in \in Inputs
  PROVE  Coverable!Saturated(in, Coverable!BackwardReachable(in))
<1>1. ErrorShapes(in) \subseteq Shapes
  BY InputFacts, RangeIsSubset DEF ErrorShapes
<1>2. \A s : PredShapes(in, s) \subseteq Shapes
  BY PredShapesType
<1> QED BY <1>1, <1>2 DEF Coverable!Saturated, Coverable!BackwardReachable

\* What the enumerator delivers is a predecessor of the graph in hand.
LEMMA DeliveredIsPredecessor ==
  ASSUME TypeOK, GraphProgress, HasPOC
  PROVE  \E g \in Range(currentGraph) : Head(pocs) \in PredShapes(input, g.shape)
<1>1. PICK g : currentGraph = <<g>>
  BY DEF TypeOK, HasPOC
<1>2. g \in Range(currentGraph) BY <1>1 DEF Range
<1>3. Head(pocs) \in Range(pocs) BY RangeOfTail DEF TypeOK, HasPOC
<1>4. Head(pocs) \in Remaining(g.shape) BY <1>3 DEF Remaining, HasPOC
<1> QED BY <1>2, <1>4 DEF GraphProgress

\* Every step keeps every held graph traceable to an error graph by the rules.
LEMMA TraceableStep == TypeOK /\ GraphProgress /\ Traceable /\ [Next]_vars => Traceable'
<1> SUFFICES ASSUME TypeOK, GraphProgress, Traceable, [Next]_vars PROVE Traceable'
  OBVIOUS
<1> DEFINE R == Coverable!BackwardReachable(input)
<1>0. input' = input /\ input \in Inputs BY InputStays DEF TypeOK
<1>1. \A g \in Held : g.shape \in R BY DEF Traceable
<1>2. ErrorShapes(input) \subseteq R /\ \A s \in R : PredShapes(input, s) \subseteq R
  BY <1>0, ReachableIsSaturated DEF Coverable!Saturated
<1>r. Coverable!BackwardReachable(input)' = R
  BY <1>0 DEF Coverable!BackwardReachable, Coverable!Saturated, ErrorShapes, PredShapes
<1> HIDE DEF R
<1>s. ASSUME \A g \in Held' : g.shape \in R PROVE Traceable'
  BY <1>s, <1>r DEF Traceable
<1>3. CASE Held' \subseteq Held BY <1>1, <1>3, <1>s
<1>4. CASE AddErrorGraph /\ Held' \subseteq
             Held \cup {[id |-> nextID, shape |-> input.errors[Len(todoGraphs) + 1]]}
  <2>1. input.errors[Len(todoGraphs) + 1] \in ErrorShapes(input)
    BY <1>0, <1>4, NextErrorIndex DEF ErrorShapes, Range
  <2> QED BY <1>1, <1>2, <1>4, <2>1, <1>s
<1>5. CASE AddPOC /\ Held' \subseteq Held \cup {Enumerated}
  <2>1. PICK g \in Range(currentGraph) : Head(pocs) \in PredShapes(input, g.shape)
    BY <1>5, DeliveredIsPredecessor DEF AddPOC
  <2>2. g.shape \in R BY <1>1 DEF Held
  <2>3. Enumerated.shape \in R BY <1>2, <2>1, <2>2 DEF Enumerated
  <2> QED BY <1>1, <1>5, <2>3, <1>s
<1> QED BY <1>3, <1>4, <1>5, HeldStep

-----------------------------------------------------------------------------
(* The error graphs, and everything held, stay represented *)

\* A shape whose graph was just offered to the list is represented.
LEMMA AddedIsRepresented ==
  ASSUME TypeOK,
         NEW g \in Hypergraph,
         minimalGraphs' = IF Subsumed(minimalGraphs, g) THEN minimalGraphs
                                                        ELSE Minimized(minimalGraphs, g)
  PROVE  Represents(minimalGraphs', g.shape)
<1>1. g.shape \in Shapes /\ Leq(g.shape, g.shape) /\ minimalGraphs \in SUBSET Hypergraph
  BY LeqIsQuasiOrder DEF Hypergraph, TypeOK
<1>2. CASE Subsumed(minimalGraphs, g)
  BY <1>1, <1>2, SubsumedRepresents
<1>3. CASE ~ Subsumed(minimalGraphs, g)
  BY <1>1, <1>3, MinimizedRepresents
<1> QED BY <1>2, <1>3

\* A step keeps what is held represented, and represents what it starts to hold.
LEMMA HeldRepresentedStep == TypeOK /\ HeldRepresented /\ [Next]_vars => HeldRepresented'
<1> SUFFICES ASSUME TypeOK, HeldRepresented, [Next]_vars, NEW g \in Held'
             PROVE  Represents(minimalGraphs', g.shape)
  BY DEF HeldRepresented
<1>1. CASE g \in Held
  <2>1. g.shape \in Shapes BY <1>1, HeldType DEF Hypergraph
  <2>2. Represents(minimalGraphs, g.shape) BY <1>1 DEF HeldRepresented
  <2> QED BY <2>1, <2>2, RepresentedStays DEF Represents
<1>2. CASE AddErrorGraph /\ g = [id |-> nextID, shape |-> input.errors[Len(todoGraphs) + 1]]
  <2>1. g \in Hypergraph BY <1>2, NextErrorType
  <2> QED BY <1>2, <2>1, AddedIsRepresented DEF AddErrorGraph
<1>3. CASE AddPOC /\ g = Enumerated
  <2>1. g \in Hypergraph BY <1>3, EnumeratedType DEF AddPOC, HasPOC
  <2> QED BY <1>3, <2>1, AddedIsRepresented DEF AddPOC
<1> QED BY <1>1, <1>2, <1>3, HeldStep

\* The error graphs added so far stay represented by every step.
LEMMA ErrorsRepresentedStep ==
  TypeOK /\ ControlState /\ ErrorsRepresented /\ [Next]_vars => ErrorsRepresented'
<1> SUFFICES ASSUME TypeOK, ControlState, ErrorsRepresented, [Next]_vars
             PROVE  ErrorsRepresented'
  OBVIOUS
<1>0. input' = input /\ input.errors \in Seq(Shapes)
  BY InputStays, InputFacts DEF TypeOK
<1>1. Len(input.errors) \in Nat /\ Len(todoGraphs) \in Nat
      /\ \A i \in 1 .. Len(input.errors) : input.errors[i] \in Shapes
  BY <1>0, LenProperties, ElementOfSeq DEF TypeOK
<1>2. \A i \in 1 .. Len(input.errors) :
        Represents(minimalGraphs, input.errors[i]) => Represents(minimalGraphs', input.errors[i])
  <2> SUFFICES ASSUME NEW i \in 1 .. Len(input.errors), Represents(minimalGraphs, input.errors[i])
               PROVE  Represents(minimalGraphs', input.errors[i])
    OBVIOUS
  <2>1. PICK s \in Shapes : s = input.errors[i] BY <1>1
  <2> QED BY <2>1, RepresentedStays DEF Represents
<1>3. CASE AddErrorGraph
  <2> DEFINE n == Len(todoGraphs) + 1
             g == [id |-> nextID, shape |-> input.errors[n]]
  <2>1. g \in Hypergraph BY <1>3, NextErrorType
  <2>2. Represents(minimalGraphs', input.errors[n])
    BY <1>3, <2>1, AddedIsRepresented DEF AddErrorGraph
  <2>3. Len(todoGraphs') = n /\ n \in 1 .. Len(input.errors)
    BY <1>3, <2>1, NextErrorIndex, AppendProperties DEF AddErrorGraph, TypeOK
  <2>4. pc = "adding" /\ pc' = "adding" /\ outcome' = outcome
    BY <1>3 DEF AddErrorGraph
  <2>5. ASSUME NEW i \in 1 .. Len(input.errors)
        PROVE  Len(todoGraphs') < i \/ outcome' = "outOfIDs" \/ Represents(minimalGraphs', input.errors[i])
    <3>1. CASE Len(todoGraphs) < i
      BY <1>1, <2>2, <2>3, <3>1
    <3>2. CASE ~ (Len(todoGraphs) < i)
      BY <1>2, <2>4, <3>2 DEF ErrorsRepresented
    <3> QED BY <3>1, <3>2
  <2> QED BY <1>0, <1>1, <2>3, <2>4, <2>5 DEF ErrorsRepresented
<1>4. CASE ErrorGraphsAdded
  <2>1. pc' # "adding" /\ Len(todoGraphs) = Len(input.errors) /\ outcome # "outOfIDs"
    BY <1>4 DEF ErrorGraphsAdded, Return, ControlState
  <2>2. \A i \in 1 .. Len(input.errors) : Represents(minimalGraphs, input.errors[i])
    BY <1>1, <2>1 DEF ErrorsRepresented
  <2> QED BY <1>0, <1>2, <2>1, <2>2 DEF ErrorsRepresented
<1>5. CASE ThrowOutOfIDs
  BY <1>5, <1>0 DEF ThrowOutOfIDs, Return, ErrorsRepresented
<1>6. CASE UNCHANGED vars
  BY <1>2, <1>6 DEF vars, ErrorsRepresented
<1>7. CASE ~ AddErrorGraph /\ ~ ErrorGraphsAdded /\ ~ ThrowOutOfIDs /\ ~ UNCHANGED vars
  <2>1. pc # "adding" /\ pc # "done" /\ pc' # "adding"
    BY <1>7 DEF Next, StartBackwardStep, Terminate, SkipGraph, ProcessGraph,
         FinishBackwardStep, ApplyStdRule, BeginUQRule, ApplyInstance, FinishGraph,
         DropInvalidPOC, SubsumedPOC, AddPOC, HasPOC, NextPOC, EndApplyOne, Return
  <2>2. outcome # "outOfIDs" BY <2>1 DEF ControlState
  <2> QED BY <1>0, <1>2, <2>1, <2>2 DEF ErrorsRepresented
<1> QED BY <1>3, <1>4, <1>5, <1>6, <1>7

\* What the search knows about the graphs it holds, in every reachable state.
THEOREM HeldInvariant ==
  Spec => [](Traceable /\ HeldRepresented /\ ErrorsRepresented)
<1>1. Init => Traceable /\ HeldRepresented
  BY NothingHeldAtFirst DEF Traceable, HeldRepresented
<1>2. Init => ErrorsRepresented
  <2> SUFFICES ASSUME Init PROVE ErrorsRepresented
    OBVIOUS
  <2>1. Len(input.errors) \in Nat /\ Len(todoGraphs) = 0 /\ pc = "adding"
    BY InputFacts, LenProperties DEF Init
  <2> QED BY <2>1 DEF ErrorsRepresented
<1>3. TypeOK /\ ControlState /\ GraphProgress /\ Traceable /\ HeldRepresented
        /\ ErrorsRepresented /\ [Next]_vars
      => (Traceable /\ HeldRepresented /\ ErrorsRepresented)'
  BY TraceableStep, HeldRepresentedStep, ErrorsRepresentedStep
<1> QED BY <1>1, <1>2, <1>3, TypeCorrect, ProgressInvariant, PTL DEF Spec

-----------------------------------------------------------------------------
(* The answer *)

\* With nothing waiting and every error graph added, the represented shapes are
\* closed under predecessors.
LEMMA NothingMissing ==
  ASSUME TypeOK, ErrorsRepresented, NothingForgotten,
         todoGraphs = <<>>, newGraphs = <<>>, currentGraph = <<>>,
         pc # "adding", outcome # "outOfIDs"
  PROVE  Coverable!Saturated(input, UpwardClosure(minimalGraphs))
<1>0. input \in Inputs /\ Compatible(input) /\ input.errors \in Seq(Shapes)
  BY InputFacts, InputsAreCompatible DEF TypeOK
<1>1. ErrorShapes(input) \subseteq UpwardClosure(minimalGraphs)
  <2>1. DOMAIN input.errors = 1 .. Len(input.errors)
    BY <1>0, LenProperties
  <2>2. \A i \in DOMAIN input.errors : input.errors[i] \in Shapes
    BY <1>0, <2>1, ElementOfSeq
  <2>3. \A i \in DOMAIN input.errors : Represents(minimalGraphs, input.errors[i])
    BY <2>1 DEF ErrorsRepresented
  <2> QED BY <2>2, <2>3 DEF ErrorShapes, Range, UpwardClosure
<1>2. ASSUME NEW s \in UpwardClosure(minimalGraphs), NEW p \in PredShapes(input, s)
      PROVE  p \in UpwardClosure(minimalGraphs)
  <2>1. PICK g \in minimalGraphs : Leq(g.shape, s)
    BY DEF UpwardClosure, Represents
  <2>2. s \in Shapes /\ p \in Shapes /\ g.shape \in Shapes
    BY <1>0, PredShapesType DEF UpwardClosure, TypeOK, Hypergraph
  <2>3. ~ Waiting(g)
    BY RangeOfEmpty DEF Waiting
  <2>4. \A q \in PredShapes(input, g.shape) : q \in Shapes /\ Represents(minimalGraphs, q)
    BY <1>0, <2>3, PredShapesType DEF NothingForgotten
  <2>5. Leq(g.shape, p) \/ \E q \in PredShapes(input, g.shape) : Leq(q, p)
    BY <1>0, <2>1, <2>2 DEF Compatible
  <2>6. CASE Leq(g.shape, p)
    BY <2>2, <2>6 DEF UpwardClosure, Represents
  <2>7. ASSUME NEW q \in PredShapes(input, g.shape), Leq(q, p) PROVE p \in UpwardClosure(minimalGraphs)
    <3>1. PICK h \in minimalGraphs : Leq(h.shape, q) BY <2>4 DEF Represents
    <3>2. h.shape \in Shapes BY DEF TypeOK, Hypergraph
    <3>3. Leq(h.shape, p) BY <2>2, <2>4, <2>7, <3>1, <3>2, LeqIsQuasiOrder
    <3> QED BY <2>2, <3>3 DEF UpwardClosure, Represents
  <2> QED BY <2>5, <2>6, <2>7
<1> QED BY <1>1, <1>2 DEF Coverable!Saturated

\* The list represents only shapes above a backward reachable one.
LEMMA OnlyReachable ==
  ASSUME TypeOK, Traceable PROVE UpwardClosure(minimalGraphs) \subseteq ReachableUp
<1> SUFFICES ASSUME NEW s \in UpwardClosure(minimalGraphs) PROVE s \in ReachableUp
  OBVIOUS
<1>1. PICK g \in minimalGraphs : Leq(g.shape, s) /\ s \in Shapes
  BY DEF UpwardClosure, Represents
<1>2. g.shape \in Coverable!BackwardReachable(input) BY DEF Traceable, Held
<1> QED BY <1>1, <1>2 DEF ReachableUp

\* A saturated list represents every shape above a backward reachable one.
LEMMA AllReachable ==
  ASSUME TypeOK, Coverable!Saturated(input, UpwardClosure(minimalGraphs))
  PROVE  ReachableUp \subseteq UpwardClosure(minimalGraphs)
<1> SUFFICES ASSUME NEW s \in ReachableUp PROVE s \in UpwardClosure(minimalGraphs)
  OBVIOUS
<1>1. PICK t \in Coverable!BackwardReachable(input) : Leq(t, s) /\ s \in Shapes
  BY DEF ReachableUp
<1>2. UpwardClosure(minimalGraphs) \in SUBSET Shapes BY DEF UpwardClosure
<1>3. t \in Shapes /\ t \in UpwardClosure(minimalGraphs)
  BY <1>1, <1>2 DEF Coverable!BackwardReachable
<1>4. PICK g \in minimalGraphs : Leq(g.shape, t)
  BY <1>3 DEF UpwardClosure, Represents
<1>5. g.shape \in Shapes BY DEF TypeOK, Hypergraph
<1>6. Leq(g.shape, s) BY <1>1, <1>3, <1>4, <1>5, LeqIsQuasiOrder
<1> QED BY <1>1, <1>6 DEF UpwardClosure, Represents

\* Whatever the result holds leads to an error graph, and a regular end has
\* found everything that does.
THEOREM ResultExact == Spec => []ResultIsExact
<1>1. TypeOK /\ ControlState /\ Traceable /\ ErrorsRepresented /\ NothingForgotten
        => ResultIsExact
  <2> SUFFICES ASSUME TypeOK, ControlState, Traceable, ErrorsRepresented, NothingForgotten
               PROVE  ResultIsExact
    OBVIOUS
  <2>1. UpwardClosure(minimalGraphs) \subseteq ReachableUp BY OnlyReachable
  <2>2. ASSUME outcome = "complete" PROVE ReachableUp \subseteq UpwardClosure(minimalGraphs)
    <3>1. /\ todoGraphs = <<>> /\ newGraphs = <<>> /\ currentGraph = <<>>
          /\ pc # "adding" /\ outcome # "outOfIDs"
      BY <2>2 DEF ControlState
    <3> QED BY <3>1, NothingMissing, AllReachable
  <2> QED BY <2>1, <2>2 DEF ResultIsExact
<1> QED BY <1>1, TypeCorrect, ProgressInvariant, HeldInvariant, NothingIsForgotten, PTL

\* What a search has said about the initial graphs stays true in every step.
LEMMA InitialUncoveredStep ==
  TypeOK /\ ControlState /\ InitialUncovered /\ [Next]_vars => InitialUncovered'
<1> SUFFICES ASSUME TypeOK, ControlState, InitialUncovered, [Next]_vars
             PROVE  InitialUncovered'
  OBVIOUS
<1>0. input' = input /\ input \in Inputs BY InputStays DEF TypeOK
<1>1. CASE AddErrorGraph
  <2> DEFINE e == [id |-> nextID, shape |-> input.errors[Len(todoGraphs) + 1]]
  <2>1. e.shape \in ErrorShapes(input)
    BY <1>1, NextErrorIndex DEF ErrorShapes, Range
  <2>2. outcome = "none" /\ outcome' = "none"
    BY <1>1 DEF AddErrorGraph, ControlState
  <2>3. minimalGraphs' \subseteq minimalGraphs \cup {e}
    BY <1>1 DEF AddErrorGraph, Minimized
  <2> QED BY <1>0, <2>1, <2>2, <2>3 DEF InitialUncovered
<1>2. CASE AddPOC
  <2>1. outcome = "none" /\ Enumerated \in Hypergraph
    BY <1>2, EnumeratedType DEF AddPOC, HasPOC, ControlState
  <2>2. minimalGraphs' = Minimized(minimalGraphs, Enumerated)
    BY <1>2 DEF AddPOC
  <2>3. CASE CoversInitial(Enumerated)
    <3>1. outcome' = "initial" BY <1>2, <2>3 DEF AddPOC, Return
    <3>2. PICK i \in input.initial : Leq(Enumerated.shape, i) BY <2>3 DEF CoversInitial
    <3>3. i \in Shapes BY <1>0, InputFacts
    <3>4. Represents(minimalGraphs', i)
      BY <2>1, <2>2, <3>2, <3>3, MinimizedRepresents DEF TypeOK
    <3> QED BY <1>0, <3>1, <3>2, <3>4 DEF InitialUncovered
  <2>4. CASE ~ CoversInitial(Enumerated)
    <3>1. outcome' # "initial"
      BY <1>2, <2>1, <2>4 DEF AddPOC, NextPOC, Return
    <3>2. input.checkInitial => \A i \in input.initial : ~ Leq(Enumerated.shape, i)
      BY <2>4 DEF CoversInitial
    <3>3. minimalGraphs' \subseteq minimalGraphs \cup {Enumerated}
      BY <2>2 DEF Minimized
    <3> QED BY <1>0, <2>1, <3>1, <3>2, <3>3 DEF InitialUncovered
  <2> QED BY <2>3, <2>4
<1>3. CASE ~ AddErrorGraph /\ ~ AddPOC
  <2>1. UNCHANGED minimalGraphs
    BY <1>3 DEF Next, vars, ErrorGraphsAdded, StartBackwardStep, Terminate, SkipGraph,
                ProcessGraph, FinishBackwardStep, ApplyStdRule, BeginUQRule, ApplyInstance,
                FinishGraph, DropInvalidPOC, SubsumedPOC, EndApplyOne, ThrowOutOfIDs
  <2>2. (outcome' = "initial") <=> (outcome = "initial")
    <3>1. \/ outcome' = outcome
          \/ pc # "done" /\ outcome' \in {"timeout", "complete", "outOfIDs"}
      BY <1>3 DEF Next, vars, ErrorGraphsAdded, StartBackwardStep, Terminate, SkipGraph,
           ProcessGraph, FinishBackwardStep, ApplyStdRule, BeginUQRule, ApplyInstance,
           FinishGraph, DropInvalidPOC, SubsumedPOC, HasPOC, NextPOC, EndApplyOne,
           ThrowOutOfIDs, Return
    <3> QED BY <3>1 DEF ControlState
  <2> QED BY <1>0, <2>1, <2>2 DEF InitialUncovered, Represents
<1> QED BY <1>1, <1>2, <1>3

\* The verdict on the initial graphs is right: "initial" is only reported when
\* an error is reachable from one, and a regular end rules out every initial
\* graph that is not above an error graph itself.
THEOREM VerdictCorrect == Spec => []VerdictIsCorrect
<1>1. Init => InitialUncovered
  BY DEF Init, InitialUncovered
<1>2. TypeOK /\ InitialUncovered /\ ResultIsExact => VerdictIsCorrect
  <2> SUFFICES ASSUME TypeOK, InitialUncovered, ResultIsExact PROVE VerdictIsCorrect
    OBVIOUS
  <2>1. input.initial \subseteq Shapes BY InputFacts DEF TypeOK
  <2>2. \A i \in input.initial :
          i \in UpwardClosure(minimalGraphs) <=> Represents(minimalGraphs, i)
    BY <2>1 DEF UpwardClosure
  <2>3. outcome = "initial" => input.initial \cap ReachableUp # {}
    BY <2>2 DEF InitialUncovered, ResultIsExact
  <2>4. ASSUME outcome = "complete", input.checkInitial, NEW i \in input.initial \cap ReachableUp
        PROVE  \E e \in ErrorShapes(input) : Leq(e, i)
    <3>1. Represents(minimalGraphs, i) BY <2>2, <2>4 DEF ResultIsExact
    <3>2. PICK g \in minimalGraphs : Leq(g.shape, i) BY <3>1 DEF Represents
    <3> QED BY <2>4, <3>2 DEF InitialUncovered
  <2> QED BY <2>3, <2>4 DEF VerdictIsCorrect
<1> QED BY <1>1, <1>2, InitialUncoveredStep, TypeCorrect, ProgressInvariant, ResultExact,
           PTL DEF Spec

-----------------------------------------------------------------------------
(* The search implements the abstract saturation *)

\* Storing a graph adds exactly the shapes above it.
LEMMA MinimizedClosure ==
  ASSUME NEW S \in SUBSET Hypergraph, NEW g \in Hypergraph
  PROVE  UpwardClosure(Minimized(S, g)) = UpwardClosure(S) \cup Coverable!UpShape(g.shape)
<1>1. \A s \in Shapes : Represents(S, s) \/ Leq(g.shape, s) => Represents(Minimized(S, g), s)
  BY MinimizedRepresents
<1>2. \A s \in Shapes : Represents(Minimized(S, g), s) => Represents(S, s) \/ Leq(g.shape, s)
  BY DEF Represents, Minimized
<1> QED BY <1>1, <1>2 DEF UpwardClosure, Coverable!UpShape

\* Every step of the search is a step of the saturation, or changes nothing
\* that the saturation can see.
LEMMA RefinementStep ==
  TypeOK /\ ControlState /\ GraphProgress /\ HeldRepresented /\ ErrorsRepresented
    /\ NothingForgotten /\ [Next]_vars => [Coverable!Next]_(Coverable!vars)
<1> SUFFICES ASSUME TypeOK, ControlState, GraphProgress, HeldRepresented, ErrorsRepresented,
                    NothingForgotten, [Next]_vars
             PROVE  Coverable!Next \/ UNCHANGED Coverable!vars
  OBVIOUS
<1> DEFINE known == UpwardClosure(minimalGraphs)
<1>0. input' = input /\ input \in Inputs BY InputStays DEF TypeOK
<1>1. ASSUME UNCHANGED <<minimalGraphs, outcome>> PROVE UNCHANGED Coverable!vars
  BY <1>0, <1>1 DEF Coverable!vars, UpwardClosure, Represents
<1>2. ASSUME UNCHANGED minimalGraphs, outcome = "none", outcome' \in {"timeout", "outOfIDs"}
      PROVE  Coverable!Next
  BY <1>0, <1>2 DEF Coverable!Next, Coverable!Abort, UpwardClosure, Represents
<1>3. ASSUME NEW g \in Hypergraph, minimalGraphs' = Minimized(minimalGraphs, g),
             outcome = "none", outcome' \in {"none", "initial", "timeout"},
             g.shape \in ErrorShapes(input) \cup UNION {PredShapes(input, t) : t \in known}
      PROVE  Coverable!Next
  <2>1. known' = known \cup Coverable!UpShape(g.shape)
    BY <1>3, MinimizedClosure DEF TypeOK, UpwardClosure
  <2>2. g.shape \in Shapes BY DEF Hypergraph
  <2>3. Coverable!Extend(g.shape) BY <1>0, <1>3, <2>1 DEF Coverable!Extend
  <2> QED BY <2>2, <2>3 DEF Coverable!Next
<1>4. CASE AddErrorGraph
  <2> DEFINE g == [id |-> nextID, shape |-> input.errors[Len(todoGraphs) + 1]]
  <2>1. g \in Hypergraph BY <1>4, NextErrorType
  <2>2. g.shape \in ErrorShapes(input)
    BY <1>4, NextErrorIndex DEF ErrorShapes, Range
  <2>3. outcome = "none" /\ outcome' = "none"
    BY <1>4 DEF AddErrorGraph, ControlState
  <2>4. minimalGraphs' = minimalGraphs \/ minimalGraphs' = Minimized(minimalGraphs, g)
    BY <1>4 DEF AddErrorGraph
  <2> HIDE DEF g
  <2> QED BY <1>1, <1>3, <2>1, <2>2, <2>3, <2>4
<1>5. CASE ErrorGraphsAdded
  <2>1. /\ UNCHANGED minimalGraphs /\ outcome = "none"
        /\ outcome' = outcome \/ outcome' = "timeout"
    BY <1>5 DEF ErrorGraphsAdded, Return, ControlState
  <2> QED BY <1>1, <1>2, <2>1
<1>6. CASE Terminate
  <2>1. /\ todoGraphs = <<>> /\ newGraphs = <<>> /\ currentGraph = <<>>
        /\ pc # "adding" /\ outcome = "none" /\ outcome' = "complete"
        /\ UNCHANGED minimalGraphs
    BY <1>6 DEF Terminate, Return, ControlState
  <2>2. Coverable!Saturated(input, known) BY <2>1, NothingMissing
  <2>3. known' = known BY <2>1 DEF UpwardClosure, Represents
  <2>4. Coverable!Complete
    BY <1>0, <2>1, <2>2, <2>3 DEF Coverable!Complete
  <2> QED BY <2>4 DEF Coverable!Next
<1>7. CASE SubsumedPOC
  <2>1. /\ UNCHANGED minimalGraphs /\ outcome = "none"
        /\ outcome' = outcome \/ outcome' = "timeout"
    BY <1>7 DEF SubsumedPOC, HasPOC, NextPOC, Return, ControlState
  <2> QED BY <1>1, <1>2, <2>1
<1>8. CASE AddPOC
  <2>1. /\ minimalGraphs' = Minimized(minimalGraphs, Enumerated) /\ HasPOC
        /\ outcome = "none" /\ outcome' \in {"none", "initial", "timeout"}
    BY <1>8 DEF AddPOC, HasPOC, NextPOC, Return, ControlState
  <2>2. Enumerated \in Hypergraph /\ Enumerated.shape = Head(pocs)
    BY <2>1, EnumeratedType DEF HasPOC
  <2>3. PICK g \in Range(currentGraph) : Head(pocs) \in PredShapes(input, g.shape)
    BY <2>1, DeliveredIsPredecessor
  <2>4. g.shape \in known
    <3>1. g \in Held BY DEF Held
    <3>2. g.shape \in Shapes BY <3>1, HeldType DEF Hypergraph
    <3> QED BY <3>1, <3>2 DEF HeldRepresented, UpwardClosure
  <2>5. Enumerated.shape \in UNION {PredShapes(input, t) : t \in known}
    BY <2>2, <2>3, <2>4
  <2> QED BY <1>3, <2>1, <2>2, <2>5
<1>9. CASE ThrowOutOfIDs
  <2>1. UNCHANGED minimalGraphs /\ outcome = "none" /\ outcome' = "outOfIDs"
    BY <1>9 DEF ThrowOutOfIDs, Return, ControlState
  <2> QED BY <1>2, <2>1
<1>10. CASE \/ StartBackwardStep \/ SkipGraph \/ ProcessGraph \/ FinishBackwardStep
            \/ \E r \in StdRules : ApplyStdRule(r)
            \/ \E u \in UQRules : BeginUQRule(u)
            \/ ApplyInstance \/ FinishGraph \/ DropInvalidPOC \/ EndApplyOne
            \/ UNCHANGED vars
  <2>1. UNCHANGED <<minimalGraphs, outcome>>
    BY <1>10 DEF vars, StartBackwardStep, SkipGraph, ProcessGraph, FinishBackwardStep,
                 ApplyStdRule, BeginUQRule, ApplyInstance, FinishGraph, DropInvalidPOC,
                 EndApplyOne
  <2> QED BY <1>1, <2>1
<1> QED BY <1>4, <1>5, <1>6, <1>7, <1>8, <1>9, <1>10 DEF Next

\* The search implements the abstract saturation: only error shapes and
\* predecessors are ever added, and it ends regularly only on a saturated set.
THEOREM Refinement == Spec => ImplementsCoverability
<1>1. Init => Coverable!Init
  BY DEF Init, Coverable!Init, UpwardClosure, Represents
<1>2. TypeOK /\ ControlState /\ GraphProgress /\ HeldRepresented /\ ErrorsRepresented
        /\ NothingForgotten /\ [Next]_vars => [Coverable!Next]_(Coverable!vars)
  BY RefinementStep
<1> QED BY <1>1, <1>2, TypeCorrect, ProgressInvariant, HeldInvariant, NothingIsForgotten,
           PTL DEF Spec, ImplementsCoverability, Coverable!Spec

-----------------------------------------------------------------------------
(* The result handler                                                      *)

\* What is known of the search when the handler is called.
SearchInv == TypeOK /\ ControlState /\ IdsBelowNext /\ IdsAreUnique

-----------------------------------------------------------------------------
(* The search below the handler *)

\* The handler does not influence the search.
LEMMA LoggedStepIsSearchStep == [LoggedNext]_allVars => [Next]_vars
BY DEF LoggedNext, Next, allVars, LoggedAddErrorGraph, LoggedStartBackwardStep,
       LoggedFinishBackwardStep, LoggedApplyStdRule, LoggedBeginUQRule,
       LoggedApplyInstance, LoggedDropInvalidPOC, LoggedSubsumedPOC, LoggedAddPOC, Unlogged

\* What the proofs of the search establish also holds of a logged search.
LEMMA SearchInvInit == LoggedInit => SearchInv
<1>1. Init => TypeOK /\ ControlState BY TypeInit, ControlInit
<1>2. Init => IdsBelowNext /\ IdsAreUnique
  BY NothingHeldAtFirst DEF IdsBelowNext, IdsAreUnique
<1> QED BY <1>1, <1>2 DEF LoggedInit, SearchInv

\* The same for its steps.
LEMMA SearchInvStep == SearchInv /\ [LoggedNext]_allVars => SearchInv'
BY LoggedStepIsSearchStep, TypeStep, ControlStep, IdsStep DEF SearchInv

\* The types the proofs below need.
LEMMA LoggedTypes ==
  ASSUME TypeOK
  PROVE  /\ nextID \in Nat /\ nextID >= 1 /\ nextID <= IDType_MAX /\ IDType_MAX \in Nat
         /\ input.firstID \in Nat /\ input.firstID >= 1
         /\ Len(input.errors) \in Nat /\ Len(todoGraphs) \in Nat
         /\ todoGraphs \in Seq(Hypergraph) /\ newGraphs \in Seq(Hypergraph)
         /\ minimalGraphs \subseteq Hypergraph
<1>1. input.firstID \in 1 .. IDType_MAX /\ input.errors \in Seq(Shapes)
  BY InputFacts DEF TypeOK
<1>2. Len(input.errors) \in Nat /\ Len(todoGraphs) \in Nat
  BY <1>1, LenProperties DEF TypeOK
<1> QED BY <1>1, <1>2, IDTypeMaxIsPositive DEF TypeOK

-----------------------------------------------------------------------------
(* The ids of the error graphs *)

\* The ids from firstID on go to the error graphs, in order.
LEMMA ErrorsComeFirstStep ==
  SearchInv /\ ErrorsComeFirst /\ [LoggedNext]_allVars => ErrorsComeFirst'
<1> SUFFICES ASSUME SearchInv, ErrorsComeFirst, [LoggedNext]_allVars PROVE ErrorsComeFirst'
  OBVIOUS
<1>0. [Next]_vars /\ TypeOK BY LoggedStepIsSearchStep DEF SearchInv
<1>t. /\ nextID \in Nat /\ input.firstID \in Nat
      /\ Len(input.errors) \in Nat /\ Len(todoGraphs) \in Nat
  BY <1>0, LoggedTypes
<1>1. CASE AddErrorGraph
  <2>1. Len(todoGraphs') = Len(todoGraphs) + 1
    BY <1>0, <1>1, NextErrorType, LoggedTypes, AppendProperties DEF AddErrorGraph
  <2>2. pc = "adding" /\ pc' = pc /\ input' = input /\ nextID' = nextID + 1
        /\ Len(todoGraphs) < Len(input.errors)
    BY <1>1 DEF AddErrorGraph
  <2> QED BY <1>t, <2>1, <2>2 DEF ErrorsComeFirst, InsideStep
<1>2. CASE ErrorGraphsAdded
  BY <1>t, <1>2 DEF ErrorGraphsAdded, ErrorsComeFirst, InsideStep, Return
<1>3. CASE UNCHANGED vars BY <1>3 DEF vars, ErrorsComeFirst, InsideStep
<1>4. ASSUME pc # "adding", pc # "done", pc' # "adding", input' = input, nextID' \in {nextID, nextID + 1}
      PROVE  ErrorsComeFirst'
  <2>1. pc = "rounds" \/ InsideStep BY <1>0, <1>4 DEF InsideStep, TypeOK
  <2>2. nextID' >= input.firstID + Len(input.errors) BY <1>t, <1>4, <2>1 DEF ErrorsComeFirst
  <2> QED BY <1>4, <2>2 DEF ErrorsComeFirst
<1>5. CASE StartBackwardStep \/ Terminate \/ SkipGraph \/ ProcessGraph \/ FinishBackwardStep
  BY <1>4, <1>5 DEF StartBackwardStep, Terminate, SkipGraph, ProcessGraph, FinishBackwardStep, Return
<1>6. CASE (\E r \in StdRules : ApplyStdRule(r)) \/ (\E u \in UQRules : BeginUQRule(u))
           \/ ApplyInstance \/ FinishGraph
  BY <1>4, <1>6 DEF ApplyStdRule, BeginUQRule, ApplyInstance, FinishGraph
<1>7. CASE DropInvalidPOC \/ SubsumedPOC \/ AddPOC \/ EndApplyOne
  BY <1>4, <1>7 DEF DropInvalidPOC, SubsumedPOC, AddPOC, EndApplyOne, HasPOC, NextPOC, Return
<1>8. CASE ThrowOutOfIDs
  BY <1>8 DEF ThrowOutOfIDs, Return, ErrorsComeFirst, InsideStep
<1> QED BY <1>0, <1>1, <1>2, <1>3, <1>5, <1>6, <1>7, <1>8 DEF Next

-----------------------------------------------------------------------------
(* What the enumerator reports *)

\* A step reports exactly the graph the enumerator arrives at, with the step, the
\* rule and the graph the rules are applied to.
GenerationStep ==
  IF AtHand' \cap IDType = {}
  THEN UNCHANGED generation /\ (UNCHANGED currentStepGraphs \/ LoggedFinishBackwardStep)
  ELSE /\ AtHand' = {nextID'} /\ nextID' \in IDType /\ pc' = "applyOne"
       /\ UNCHANGED <<stepnr, stepFiles>>
       /\ \E rule : generation' = generation \cup
            {[step |-> stepnr, id |-> nextID', rule |-> rule, from |-> currentGraph'[1].id]}
       /\ currentStepGraphs' = currentStepGraphs \cup {nextID'}

\* The reports of one step, whichever action it is.
LEMMA GenerationSteps == LoggedNext => GenerationStep
<1> SUFFICES ASSUME LoggedNext PROVE GenerationStep
  OBVIOUS
<1>1. ASSUME UNCHANGED <<stepnr, stepFiles>>, ReportGenerated PROVE GenerationStep
  BY <1>1 DEF GenerationStep, ReportGenerated, wasGeneratedByFrom, AtHand
<1>2. ASSUME pc' # "applyOne", UNCHANGED generation,
             UNCHANGED currentStepGraphs \/ LoggedFinishBackwardStep
      PROVE  GenerationStep
  BY <1>2 DEF GenerationStep, AtHand
<1>3. CASE LoggedAddErrorGraph
  BY <1>2, <1>3 DEF LoggedAddErrorGraph, AddErrorGraph
<1>4. CASE LoggedStartBackwardStep
  BY <1>2, <1>4 DEF LoggedStartBackwardStep, StartBackwardStep, startingNewBackwardStep
<1>5. CASE LoggedFinishBackwardStep
  <2>1. pc' # "applyOne" /\ UNCHANGED generation
    BY <1>5 DEF LoggedFinishBackwardStep, FinishBackwardStep, finishedBackwardStep
  <2> QED BY <1>2, <1>5, <2>1
<1>6. ASSUME NEW r \in StdRules, LoggedApplyStdRule(r) PROVE GenerationStep
  BY <1>1, <1>6 DEF LoggedApplyStdRule
<1>7. ASSUME NEW u \in UQRules, LoggedBeginUQRule(u) PROVE GenerationStep
  BY <1>2, <1>7 DEF LoggedBeginUQRule, BeginUQRule, handler
<1>8. CASE LoggedApplyInstance BY <1>1, <1>8 DEF LoggedApplyInstance
<1>9. CASE LoggedDropInvalidPOC BY <1>1, <1>9 DEF LoggedDropInvalidPOC
<1>10. CASE LoggedSubsumedPOC BY <1>1, <1>10 DEF LoggedSubsumedPOC
<1>11. CASE LoggedAddPOC BY <1>1, <1>11 DEF LoggedAddPOC
<1>12. CASE Unlogged
  <2>1. UNCHANGED <<generation, currentStepGraphs>> BY <1>12 DEF Unlogged, handler
  <2>2. pc' # "applyOne"
    BY <1>12 DEF Unlogged, ErrorGraphsAdded, Terminate, SkipGraph, ProcessGraph, FinishGraph,
                 EndApplyOne, ThrowOutOfIDs, Return
  <2> QED BY <1>2, <2>1, <2>2
<1> QED BY <1>3, <1>4, <1>5, <1>6, <1>7, <1>8, <1>9, <1>10, <1>11, <1>12 DEF LoggedNext

\* A step reports the id of the graph it arrives at and no other.
LEMMA GeneratedIdsStep ==
  ASSUME GenerationStep
  PROVE  GeneratedIds' = GeneratedIds \cup (AtHand' \cap IDType)
<1>1. CASE AtHand' \cap IDType = {}
  BY <1>1 DEF GenerationStep, GeneratedIds
<1>2. CASE AtHand' \cap IDType # {}
  <2>1. PICK rule : generation' = generation \cup
            {[step |-> stepnr, id |-> nextID', rule |-> rule, from |-> currentGraph'[1].id]}
    BY <1>2 DEF GenerationStep
  <2>2. AtHand' \cap IDType = {nextID'} BY <1>2 DEF GenerationStep
  <2> DEFINE new == [step |-> stepnr, id |-> nextID', rule |-> rule, from |-> currentGraph'[1].id]
  <2>3. generation' = generation \cup {new} /\ new.id = nextID' BY <2>1
  <2> HIDE DEF new
  <2>4. {l.id : l \in generation'} = {l.id : l \in generation} \cup {nextID'} BY <2>3
  <2> QED BY <2>2, <2>4 DEF GeneratedIds
<1> QED BY <1>1, <1>2

-----------------------------------------------------------------------------
(* What addGraph and the path bound report *)

\* A step that uses no id: nothing is added to the list, nothing reported deleted.
Quiet ==
  /\ UNCHANGED <<nextID, minimalGraphs, deletion>>
  /\ AtHand \cap IDType = {}
  /\ ErrorIds' = ErrorIds

\* A step that gives nextID to the graph at hand or to an error graph: the graph
\* is now either in the list or deleted, and so is every graph that was.
Consumed ==
  /\ nextID \in IDType /\ nextID' = nextID + 1
  /\ DeletedIds' \cup ResultIds' = DeletedIds \cup ResultIds \cup {nextID}
  /\ DeletedIds \cap ResultIds = {} => DeletedIds' \cap ResultIds' = {}
  /\ deletion \subseteq deletion'
  /\ \A d \in deletion' \ deletion : d.reason \in {NonValid, nextID} \cup ResultIds
  /\ \/ AtHand = {nextID} /\ ErrorIds' = ErrorIds
     \/ AtHand = {} /\ ErrorIds' = ErrorIds \cup {nextID}

\* addGraph reports a graph that it rejects, or every graph it drops, and nothing
\* leaves the list unreported.
LEMMA AddGraphConsumes ==
  ASSUME SearchInv, NEW g \in Hypergraph, g.id = nextID, ReportAddGraph(g),
         minimalGraphs' = IF Subsumed(minimalGraphs, g) THEN minimalGraphs
                                                        ELSE Minimized(minimalGraphs, g),
         \A i \in DeletedIds : i < nextID
  PROVE  /\ DeletedIds' \cup ResultIds' = DeletedIds \cup ResultIds \cup {nextID}
         /\ DeletedIds \cap ResultIds = {} => DeletedIds' \cap ResultIds' = {}
         /\ deletion \subseteq deletion'
         /\ \A d \in deletion' \ deletion : d.reason \in {NonValid, nextID} \cup ResultIds
<1>0. /\ nextID \in Nat
      /\ \A h \in minimalGraphs : h.id < nextID
      /\ \A h, k \in minimalGraphs : h.id = k.id => h = k
  BY LoggedTypes DEF SearchInv, IdsBelowNext, IdsAreUnique, Held
<1>1. PICK pairs \in Reported(minimalGraphs, g) :
        deletion' = deletion \cup
          {[step |-> stepnr, id |-> p[1], reason |-> p[2]] : p \in pairs}
  BY DEF ReportAddGraph, wasDeletedBecauseOf
<1>2. DeletedIds' = DeletedIds \cup {p[1] : p \in pairs}
  <2>1. \A d \in deletion' : d \in deletion \/ \E p \in pairs : d.id = p[1]
    BY <1>1
  <2>2. ASSUME NEW p \in pairs PROVE \E d \in deletion' : d.id = p[1]
    <3>1. [step |-> stepnr, id |-> p[1], reason |-> p[2]] \in deletion' BY <1>1
    <3> QED BY <3>1
  <2>3. deletion \subseteq deletion' BY <1>1
  <2>4. {d.id : d \in deletion'} = {d.id : d \in deletion} \cup {p[1] : p \in pairs}
    BY <2>1, <2>2, <2>3
  <2> QED BY <2>4 DEF DeletedIds
<1>3. \A d \in deletion' \ deletion : \E p \in pairs : d.reason = p[2]
  BY <1>1
<1>4. CASE Subsumed(minimalGraphs, g)
  <2>1. PICK h \in minimalGraphs : pairs = {<<g.id, h.id>>}
    BY <1>1, <1>4 DEF Reported
  <2>2. DeletedIds' = DeletedIds \cup {nextID} BY <1>2, <2>1
  <2>3. ResultIds' = ResultIds BY <1>4 DEF ResultIds
  <2>4. nextID \notin ResultIds BY <1>0 DEF ResultIds
  <2>5. \A d \in deletion' \ deletion : d.reason = h.id BY <1>3, <2>1
  <2>6. h.id \in ResultIds BY DEF ResultIds
  <2> QED BY <1>1, <2>2, <2>3, <2>4, <2>5, <2>6
<1>5. CASE ~ Subsumed(minimalGraphs, g)
  <2> DEFINE dropped == {h \in minimalGraphs : IsLessOrEq(g, h)}
             kept == minimalGraphs \ dropped
  <2>1. pairs = {<<h.id, g.id>> : h \in dropped}
    BY <1>1, <1>5 DEF Reported
  <2>2. minimalGraphs' = kept \cup {g}
    BY <1>5 DEF Minimized
  <2>3. DeletedIds' = DeletedIds \cup {h.id : h \in dropped}
    <3> HIDE DEF dropped
    <3>1. \A p \in pairs : \E h \in dropped : p[1] = h.id BY <2>1
    <3>2. ASSUME NEW h \in dropped PROVE \E p \in pairs : p[1] = h.id
      <4>1. <<h.id, g.id>> \in pairs BY <2>1
      <4> QED BY <4>1
    <3>3. {p[1] : p \in pairs} = {h.id : h \in dropped} BY <3>1, <3>2
    <3> QED BY <1>2, <3>3
  <2>4. ResultIds' = {h.id : h \in kept} \cup {nextID}
    <3> HIDE DEF kept
    <3>1. {h.id : h \in kept \cup {g}} = {h.id : h \in kept} \cup {g.id} OBVIOUS
    <3> QED BY <2>2, <3>1 DEF ResultIds
  <2>5. ResultIds = {h.id : h \in kept} \cup {h.id : h \in dropped}
    <3>1. minimalGraphs = kept \cup dropped OBVIOUS
    <3> HIDE DEF kept, dropped
    <3> QED BY <3>1 DEF ResultIds
  <2>6. {h.id : h \in kept} \cap {h.id : h \in dropped} = {}
    <3>1. ASSUME NEW h \in kept, NEW k \in dropped PROVE h.id # k.id BY <1>0
    <3> HIDE DEF kept, dropped
    <3> QED BY <3>1
  <2>7. nextID \notin DeletedIds BY <1>0
  <2>8. nextID \notin {h.id : h \in dropped} BY <1>0
  <2>9. \A d \in deletion' \ deletion : d.reason = nextID BY <1>3, <2>1
  <2> HIDE DEF kept, dropped
  <2>10. DeletedIds' \cup ResultIds' = DeletedIds \cup ResultIds \cup {nextID}
    BY <2>3, <2>4, <2>5
  <2>11. DeletedIds \cap ResultIds = {} => DeletedIds' \cap ResultIds' = {}
    BY <2>3, <2>4, <2>5, <2>6, <2>7, <2>8
  <2> QED BY <1>1, <2>9, <2>10, <2>11
<1> QED BY <1>4, <1>5

\* Outside the first loop no id of an error graph is handed out.
LEMMA ErrorIdsStay ==
  ASSUME SearchInv, ErrorsComeFirst, pc = "rounds" \/ InsideStep,
         input' = input, nextID' \in {nextID, nextID + 1}
  PROVE  ErrorIds' = ErrorIds
<1>1. /\ nextID \in Nat /\ input.firstID \in Nat /\ Len(input.errors) \in Nat
      /\ nextID >= input.firstID + Len(input.errors)
  BY LoggedTypes DEF SearchInv, ErrorsComeFirst
<1> QED BY <1>1 DEF ErrorIds

\* Every step uses up one id or none.
LEMMA StepsOfTheFiles ==
  ASSUME SearchInv, ErrorsComeFirst, LoggedNext, \A i \in DeletedIds : i < nextID
  PROVE  Quiet \/ Consumed
<1>t. /\ nextID \in Nat /\ input.firstID \in Nat /\ TypeOK
      /\ Len(input.errors) \in Nat /\ Len(todoGraphs) \in Nat
  BY LoggedTypes DEF SearchInv
<1>0. input' = input
  BY <1>t, LoggedStepIsSearchStep, InputStays
<1>1. CASE LoggedAddErrorGraph
  <2> DEFINE g == [id |-> nextID, shape |-> input.errors[Len(todoGraphs) + 1]]
  <2>1. AddErrorGraph /\ ReportAddGraph(g) /\ nextID \in IDType /\ nextID' = nextID + 1
    BY <1>1 DEF LoggedAddErrorGraph, AddErrorGraph
  <2>2. g \in Hypergraph /\ g.id = nextID BY <1>t, <2>1, NextErrorType
  <2>3. minimalGraphs' = IF Subsumed(minimalGraphs, g) THEN minimalGraphs
                                                       ELSE Minimized(minimalGraphs, g)
    BY <2>1 DEF AddErrorGraph
  <2>4. AtHand = {} BY <2>1 DEF AddErrorGraph, AtHand
  <2>5. ErrorIds' = ErrorIds \cup {nextID}
    <3>1. nextID = input.firstID + Len(todoGraphs) /\ Len(todoGraphs) < Len(input.errors)
      BY <2>1 DEF AddErrorGraph, ErrorsComeFirst
    <3> QED BY <1>t, <1>0, <2>1, <3>1 DEF ErrorIds
  <2> HIDE DEF g
  <2> QED BY <2>1, <2>2, <2>3, <2>4, <2>5, AddGraphConsumes DEF Consumed
<1>2. ASSUME pc = "applyOne", pocs # <<>>, nextID \in IDType, nextID' = nextID + 1
      PROVE  AtHand = {nextID} /\ ErrorIds' = ErrorIds
  BY <1>0, <1>2, ErrorIdsStay DEF AtHand, InsideStep
<1>3. CASE LoggedDropInvalidPOC
  <2>1. /\ pc = "applyOne" /\ pocs # <<>> /\ nextID \in IDType /\ nextID' = nextID + 1
        /\ minimalGraphs' = minimalGraphs
        /\ deletion' = deletion \cup
             {[step |-> stepnr, id |-> p[1], reason |-> p[2]] : p \in {<<nextID, NonValid>>}}
    BY <1>3 DEF LoggedDropInvalidPOC, DropInvalidPOC, wasNoValidGraph, wasDeletedBecauseOf
  <2>2. deletion' = deletion \cup {[step |-> stepnr, id |-> nextID, reason |-> NonValid]}
    BY <2>1
  <2>3. DeletedIds' = DeletedIds \cup {nextID}
    <3> DEFINE new == [step |-> stepnr, id |-> nextID, reason |-> NonValid]
    <3>1. deletion' = deletion \cup {new} /\ new.id = nextID BY <2>2
    <3> HIDE DEF new
    <3>2. {d.id : d \in deletion'} = {d.id : d \in deletion} \cup {nextID} BY <3>1
    <3> QED BY <3>2 DEF DeletedIds
  <2>4. ResultIds' = ResultIds BY <2>1 DEF ResultIds
  <2>5. nextID \notin ResultIds
    BY <1>t DEF SearchInv, IdsBelowNext, Held, ResultIds
  <2>6. \A d \in deletion' \ deletion : d.reason = NonValid BY <2>2
  <2> QED BY <1>2, <2>1, <2>2, <2>3, <2>4, <2>5, <2>6 DEF Consumed
<1>4. ASSUME LoggedSubsumedPOC \/ LoggedAddPOC PROVE Consumed
  <2>1. /\ pc = "applyOne" /\ pocs # <<>> /\ nextID \in IDType /\ nextID' = nextID + 1
        /\ ReportAddGraph(Enumerated)
        /\ minimalGraphs' = IF Subsumed(minimalGraphs, Enumerated) THEN minimalGraphs
                                                   ELSE Minimized(minimalGraphs, Enumerated)
    BY <1>4 DEF LoggedSubsumedPOC, LoggedAddPOC, SubsumedPOC, AddPOC, HasPOC
  <2>2. Enumerated \in Hypergraph /\ Enumerated.id = nextID
    BY <1>t, <2>1, EnumeratedType
  <2> HIDE DEF Enumerated
  <2> QED BY <1>2, <2>1, <2>2, AddGraphConsumes DEF Consumed
<1>5. ASSUME UNCHANGED <<nextID, minimalGraphs, deletion>>, AtHand \cap IDType = {},
             pc = "rounds" \/ InsideStep
      PROVE  Quiet
  BY <1>0, <1>5, ErrorIdsStay DEF Quiet
<1>6. CASE LoggedStartBackwardStep
  BY <1>5, <1>6 DEF LoggedStartBackwardStep, StartBackwardStep, startingNewBackwardStep, AtHand
<1>7. CASE LoggedFinishBackwardStep
  BY <1>5, <1>7 DEF LoggedFinishBackwardStep, FinishBackwardStep, finishedBackwardStep, AtHand, InsideStep
<1>8. ASSUME NEW r \in StdRules, LoggedApplyStdRule(r) PROVE Quiet
  BY <1>5, <1>8 DEF LoggedApplyStdRule, ApplyStdRule, AtHand, InsideStep
<1>9. ASSUME NEW u \in UQRules, LoggedBeginUQRule(u) PROVE Quiet
  BY <1>5, <1>9 DEF LoggedBeginUQRule, BeginUQRule, AtHand, InsideStep, handler
<1>10. CASE LoggedApplyInstance
  BY <1>5, <1>10 DEF LoggedApplyInstance, ApplyInstance, AtHand, InsideStep
<1>11. CASE Unlogged
  <2>1. UNCHANGED <<nextID, minimalGraphs, deletion>>
    BY <1>11 DEF Unlogged, handler, ErrorGraphsAdded, Terminate, SkipGraph, ProcessGraph,
                 FinishGraph, EndApplyOne, ThrowOutOfIDs
  <2>2. ErrorIds' = ErrorIds BY <1>0, <2>1 DEF ErrorIds
  <2>3. AtHand \cap IDType = {}
    BY <1>11 DEF Unlogged, AtHand, ErrorGraphsAdded, Terminate, SkipGraph, ProcessGraph,
                 FinishGraph, EndApplyOne, ThrowOutOfIDs
  <2> QED BY <2>1, <2>2, <2>3 DEF Quiet
<1> QED BY <1>1, <1>3, <1>4, <1>6, <1>7, <1>8, <1>9, <1>10, <1>11 DEF LoggedNext

\* Every graph is accounted for: the step moves exactly one id at most.
LEMMA AccountedStep ==
  ASSUME SearchInv, ErrorsComeFirst, GeneratedIdsAreUsed, EveryGraphIsAccountedFor, LoggedNext
  PROVE  (GeneratedIdsAreUsed /\ EveryGraphIsAccountedFor)'
<1>0. nextID \in Nat /\ nextID' \in Nat
  <2>1. TypeOK /\ TypeOK' BY SearchInvStep DEF SearchInv
  <2> QED BY <2>1 DEF TypeOK
<1>1. /\ GeneratedIds' = GeneratedIds \cup (AtHand' \cap IDType)
      /\ GeneratedIds \subseteq IDType
      /\ \A i \in GeneratedIds : i < nextID \/ i \in AtHand
  BY GenerationSteps, GeneratedIdsStep DEF GeneratedIdsAreUsed
<1>2. /\ (GeneratedIds \cup ErrorIds) \ AtHand = DeletedIds \cup ResultIds
      /\ DeletedIds \cap ResultIds = {}
      /\ AtHand \cap IDType \subseteq GeneratedIds
  BY DEF EveryGraphIsAccountedFor
<1>3. /\ AtHand \subseteq {nextID} /\ AtHand' \subseteq {nextID'}
      /\ \A i \in ErrorIds : i < nextID
      /\ \A i \in ErrorIds' : i < nextID'
  BY DEF AtHand, ErrorIds
<1>4. \A i \in DeletedIds : i < nextID
  BY <1>0, <1>1, <1>2, <1>3
<1>5. CASE Quiet
  <2>1. /\ nextID' = nextID /\ ErrorIds' = ErrorIds /\ AtHand \cap IDType = {}
        /\ DeletedIds' = DeletedIds /\ ResultIds' = ResultIds
    BY <1>5 DEF Quiet, DeletedIds, ResultIds
  <2>2. \A i \in GeneratedIds : i < nextID
    BY <1>1, <2>1
  <2>3. GeneratedIdsAreUsed'
    BY <1>0, <1>1, <2>1, <2>2 DEF GeneratedIdsAreUsed, IDType
  <2>4. GeneratedIds \cup ErrorIds = DeletedIds \cup ResultIds
    <3>1. \A i \in GeneratedIds \cup ErrorIds : i # nextID BY <1>0, <1>3, <2>2
    <3> QED BY <1>2, <1>3, <3>1
  <2>5. (GeneratedIds' \cup ErrorIds') \ AtHand' = GeneratedIds \cup ErrorIds
    <3>1. \A i \in GeneratedIds \cup ErrorIds' : i # nextID' BY <1>0, <1>3, <2>1, <2>2
    <3> QED BY <1>1, <1>3, <2>1, <3>1
  <2> QED BY <1>1, <1>2, <2>1, <2>3, <2>4, <2>5 DEF EveryGraphIsAccountedFor, IDType
<1>6. CASE Consumed
  <2>1. /\ nextID \in IDType /\ nextID' = nextID + 1
        /\ DeletedIds' \cup ResultIds' = DeletedIds \cup ResultIds \cup {nextID}
        /\ DeletedIds' \cap ResultIds' = {}
        /\ \/ AtHand = {nextID} /\ ErrorIds' = ErrorIds
           \/ AtHand = {} /\ ErrorIds' = ErrorIds \cup {nextID}
    BY <1>2, <1>6 DEF Consumed
  <2>2. \A i \in GeneratedIds : i < nextID'
    BY <1>0, <1>1, <1>3, <2>1
  <2>3. GeneratedIdsAreUsed'
    BY <1>1, <2>2 DEF GeneratedIdsAreUsed, IDType
  <2>4. (GeneratedIds' \cup ErrorIds') \ AtHand' = GeneratedIds \cup ErrorIds'
    <3>1. \A i \in GeneratedIds \cup ErrorIds' : i # nextID' BY <1>0, <1>3, <2>2
    <3> QED BY <1>1, <1>3, <3>1
  <2>5. GeneratedIds \cup ErrorIds' = DeletedIds \cup ResultIds \cup {nextID}
    <3>1. CASE AtHand = {nextID} /\ ErrorIds' = ErrorIds
      BY <1>0, <1>2, <1>3, <2>1, <3>1
    <3>2. CASE AtHand = {} /\ ErrorIds' = ErrorIds \cup {nextID}
      BY <1>2, <3>2
    <3> QED BY <2>1, <3>1, <3>2
  <2> QED BY <1>1, <2>1, <2>3, <2>4, <2>5 DEF EveryGraphIsAccountedFor, IDType
<1> QED BY <1>4, <1>5, <1>6, StepsOfTheFiles

\* A reason that was there is kept, and a new one is a graph of the list or the
\* one that was just added.
LEMMA ReasonsStep ==
  ASSUME SearchInv, ErrorsComeFirst, LoggedNext, \A i \in DeletedIds : i < nextID,
         ReasonsCanBeFollowed
  PROVE  ReasonsCanBeFollowed'
<1>1. CASE Quiet
  BY <1>1 DEF Quiet, ReasonsCanBeFollowed, DeletedIds, ResultIds
<1>2. CASE Consumed
  <2>1. ASSUME NEW d \in deletion'
        PROVE  d.reason = NonValid \/ d.reason \in ResultIds' \cup DeletedIds'
    <3>1. CASE d \in deletion
      BY <1>2, <3>1 DEF Consumed, ReasonsCanBeFollowed
    <3>2. CASE d \notin deletion
      BY <1>2, <3>2 DEF Consumed
    <3> QED BY <3>1, <3>2
  <2> QED BY <2>1 DEF ReasonsCanBeFollowed
<1> QED BY <1>1, <1>2, StepsOfTheFiles

-----------------------------------------------------------------------------
(* The steps in generation.txt *)

\* The lines of the files stay, and so does what they say.
LEMMA FromStepStays ==
  ASSUME SearchInv, ErrorsComeFirst, LoggedNext, \A i \in DeletedIds : i < nextID
  PROVE  /\ generation \subseteq generation' /\ ErrorIds \subseteq ErrorIds'
         /\ \A i, n : FromStep(i, n) =>
              IF n = 0 THEN i \in ErrorIds' ELSE \E k \in generation' : k.id = i /\ k.step = n
<1>1. generation \subseteq generation' BY GenerationSteps DEF GenerationStep
<1>2. ErrorIds \subseteq ErrorIds' BY StepsOfTheFiles DEF Quiet, Consumed
<1> QED BY <1>1, <1>2 DEF FromStep

\* What HeldByStep says of the graphs held.
LoopGraphsByStep ==
  /\ stepnr \in Nat
  /\ pc = "adding" => stepnr = 0
  /\ InsideStep => stepnr >= 1
  /\ pc # "done" =>
       /\ \A g \in Range(newGraphs) : FromStep(g.id, stepnr)
       /\ \A g \in Range(todoGraphs) : FromStep(g.id, IF InsideStep THEN stepnr - 1 ELSE stepnr)
       /\ \A g \in Range(currentGraph) : FromStep(g.id, stepnr - 1)

\* The loops move graphs from one vector to the next only with the step number.
LEMMA LoopGraphsStep ==
  ASSUME SearchInv, ErrorsComeFirst, LoggedNext, \A i \in DeletedIds : i < nextID, HeldByStep
  PROVE  LoopGraphsByStep'
<1>t. /\ TypeOK /\ ControlState /\ stepnr \in Nat
      /\ todoGraphs \in Seq(Hypergraph) /\ newGraphs \in Seq(Hypergraph)
  BY LoggedTypes DEF SearchInv, HeldByStep
<1> DEFINE From(i, n) ==
             IF n = 0 THEN i \in ErrorIds' ELSE \E k \in generation' : k.id = i /\ k.step = n
<1>0. \A i, n : FromStep(i, n) => From(i, n) BY FromStepStays
<1>1. ASSUME stepnr' \in Nat, pc' = "adding" => stepnr' = 0, InsideStep' => stepnr' >= 1,
             pc' = "done" \/ /\ \A g \in Range(newGraphs') : From(g.id, stepnr')
                             /\ \A g \in Range(todoGraphs') :
                                  From(g.id, IF InsideStep' THEN stepnr' - 1 ELSE stepnr')
                             /\ \A g \in Range(currentGraph') : From(g.id, stepnr' - 1)
      PROVE  LoopGraphsByStep'
  BY <1>1 DEF LoopGraphsByStep, FromStep
<1> HIDE DEF From
<1>2. ASSUME pc # "done", stepnr' = stepnr,
             pc' = "done" \/ (InsideStep' = InsideStep /\ (pc' = "adding" => pc = "adding")),
             Range(newGraphs') \subseteq Range(newGraphs),
             Range(todoGraphs') \subseteq Range(todoGraphs),
             \/ Range(currentGraph') \subseteq Range(currentGraph)
             \/ InsideStep /\ Range(currentGraph') \subseteq Range(todoGraphs)
      PROVE  LoopGraphsByStep'
  <2>1. /\ \A g \in Range(newGraphs') : From(g.id, stepnr')
        /\ \A g \in Range(todoGraphs') : From(g.id, IF InsideStep THEN stepnr' - 1 ELSE stepnr')
        /\ \A g \in Range(currentGraph') : From(g.id, stepnr' - 1)
    BY <1>0, <1>2 DEF HeldByStep
  <2>2. CASE pc' = "done"
    BY <1>t, <1>1, <1>2, <2>2 DEF InsideStep
  <2>3. CASE pc' # "done"
    <3>1. InsideStep' = InsideStep /\ (pc' = "adding" => stepnr' = 0)
          /\ (InsideStep => stepnr' >= 1)
      BY <1>2, <2>3 DEF HeldByStep
    <3> QED BY <1>t, <1>1, <1>2, <2>1, <3>1
  <2> QED BY <2>2, <2>3
<1>3. CASE LoggedAddErrorGraph
  <2> DEFINE g == [id |-> nextID, shape |-> input.errors[Len(todoGraphs) + 1]]
  <2>1. /\ AddErrorGraph /\ pc = "adding" /\ pc' = "adding" /\ stepnr' = stepnr /\ stepnr = 0
        /\ todoGraphs' = Append(todoGraphs, g)
        /\ newGraphs' = newGraphs /\ currentGraph' = currentGraph
    BY <1>3 DEF LoggedAddErrorGraph, AddErrorGraph, HeldByStep
  <2>2. g \in Hypergraph /\ g.id = nextID BY <1>t, <2>1, NextErrorType
  <2>3. Range(todoGraphs') = Range(todoGraphs) \cup {g} BY <1>t, <2>1, <2>2, RangeOfAppend
  <2>4. nextID \in ErrorIds'
    <3>1. AtHand = {} BY <2>1 DEF AtHand
    <3>2. nextID \in Nat /\ nextID' = nextID + 1
      BY <1>t, <2>1, LoggedTypes DEF AddErrorGraph
    <3>3. Consumed BY <3>2, StepsOfTheFiles DEF Quiet
    <3> QED BY <3>1, <3>3 DEF Consumed
  <2>5. From(g.id, 0) BY <2>2, <2>4 DEF From
  <2>6. /\ \A h \in Range(newGraphs') : From(h.id, stepnr')
        /\ \A h \in Range(todoGraphs) : From(h.id, 0)
        /\ \A h \in Range(currentGraph') : From(h.id, stepnr' - 1)
    BY <1>0, <2>1 DEF HeldByStep, InsideStep
  <2> HIDE DEF g
  <2>7. ~ InsideStep' BY <2>1 DEF InsideStep
  <2>8. \A h \in Range(todoGraphs') : From(h.id, stepnr') BY <2>1, <2>3, <2>5, <2>6
  <2> QED BY <1>1, <2>1, <2>6, <2>7, <2>8
<1>4. CASE LoggedStartBackwardStep
  <2>1. /\ pc = "rounds" /\ pc' = "graphs" /\ stepnr' = stepnr + 1
        /\ newGraphs' = <<>> /\ currentGraph' = <<>> /\ todoGraphs' = todoGraphs
    BY <1>t, <1>4
    DEF LoggedStartBackwardStep, StartBackwardStep, startingNewBackwardStep, ControlState
  <2>2. \A g \in Range(todoGraphs') : From(g.id, stepnr' - 1)
    <3>1. stepnr' - 1 = stepnr BY <1>t, <2>1
    <3> QED BY <1>0, <2>1, <3>1 DEF HeldByStep, InsideStep
  <2>3. InsideStep' /\ stepnr' \in Nat /\ stepnr' >= 1 BY <1>t, <2>1 DEF InsideStep
  <2>4. Range(newGraphs') = {} /\ Range(currentGraph') = {} BY <2>1, RangeOfEmpty
  <2> QED BY <1>1, <2>1, <2>2, <2>3, <2>4
<1>5. CASE LoggedFinishBackwardStep
  <2>1. /\ pc = "graphs" /\ pc' = "rounds" /\ stepnr' = stepnr
        /\ newGraphs' = <<>> /\ currentGraph' = <<>> /\ todoGraphs' = newGraphs
    BY <1>t, <1>5
    DEF LoggedFinishBackwardStep, FinishBackwardStep, finishedBackwardStep, ControlState
  <2>2. \A g \in Range(todoGraphs') : From(g.id, stepnr')
    BY <1>0, <2>1 DEF HeldByStep
  <2>3. ~ InsideStep' BY <2>1 DEF InsideStep
  <2>4. Range(newGraphs') = {} /\ Range(currentGraph') = {} BY <2>1, RangeOfEmpty
  <2> QED BY <1>t, <1>1, <2>1, <2>2, <2>3, <2>4
<1>6. ASSUME NEW r \in StdRules, LoggedApplyStdRule(r) PROVE LoopGraphsByStep'
  BY <1>2, <1>6 DEF LoggedApplyStdRule, ApplyStdRule, InsideStep
<1>7. ASSUME NEW u \in UQRules, LoggedBeginUQRule(u) PROVE LoopGraphsByStep'
  BY <1>2, <1>7 DEF LoggedBeginUQRule, BeginUQRule, InsideStep, handler
<1>8. CASE LoggedApplyInstance \/ LoggedDropInvalidPOC \/ LoggedSubsumedPOC
  BY <1>2, <1>8 DEF LoggedApplyInstance, ApplyInstance, LoggedDropInvalidPOC, DropInvalidPOC,
                    LoggedSubsumedPOC, SubsumedPOC, HasPOC, NextPOC, Return, InsideStep
<1>9. CASE LoggedAddPOC
  <2>1. /\ pc = "applyOne" /\ pocs # <<>> /\ nextID \in IDType /\ pc' \in {"applyOne", "done"}
        /\ stepnr' = stepnr /\ newGraphs' = Append(newGraphs, Enumerated)
        /\ UNCHANGED <<todoGraphs, currentGraph>>
    BY <1>9 DEF LoggedAddPOC, AddPOC, HasPOC, NextPOC, Return
  <2>2. Enumerated \in Hypergraph /\ Enumerated.id = nextID BY <1>t, <2>1, EnumeratedType
  <2>3. Range(newGraphs') = Range(newGraphs) \cup {Enumerated}
    BY <1>t, <2>1, <2>2, RangeOfAppend
  <2>4. FromStep(nextID, stepnr) BY <2>1 DEF HeldByStep, AtHand
  <2>5. \A g \in Range(newGraphs) : From(g.id, stepnr') BY <1>0, <2>1 DEF HeldByStep
  <2> HIDE DEF Enumerated
  <2>6. \A g \in Range(newGraphs') : From(g.id, stepnr') BY <1>0, <2>1, <2>2, <2>3, <2>4, <2>5
  <2>7. InsideStep /\ stepnr' >= 1 /\ stepnr' \in Nat BY <1>t, <2>1 DEF InsideStep, HeldByStep
  <2>8. /\ \A g \in Range(todoGraphs') : From(g.id, stepnr' - 1)
        /\ \A g \in Range(currentGraph') : From(g.id, stepnr' - 1)
    BY <1>0, <2>1, <2>7 DEF HeldByStep
  <2>9. pc' # "adding" /\ (pc' = "done" \/ InsideStep') BY <2>1 DEF InsideStep
  <2> QED BY <1>1, <2>6, <2>7, <2>8, <2>9
<1>10. CASE Unlogged
  <2>0. stepnr' = stepnr BY <1>10 DEF Unlogged, handler
  <2>1. CASE ErrorGraphsAdded \/ Terminate \/ EndApplyOne \/ ThrowOutOfIDs
    <3>1. pc # "done"
      BY <2>1 DEF ErrorGraphsAdded, Terminate, EndApplyOne, ThrowOutOfIDs
    <3> QED BY <1>2, <2>0, <2>1, <3>1
            DEF ErrorGraphsAdded, Terminate, EndApplyOne, ThrowOutOfIDs, Return, InsideStep
  <2>2. CASE SkipGraph
    <3>1. Range(todoGraphs') \subseteq Range(todoGraphs)
      BY <1>t, <2>2, RangeOfFront DEF SkipGraph
    <3> QED BY <1>2, <2>0, <2>2, <3>1 DEF SkipGraph, InsideStep
  <2>3. CASE ProcessGraph
    <3>1. todoGraphs' = Front(todoGraphs) /\ currentGraph' = <<Last(todoGraphs)>>
          /\ todoGraphs # <<>>
      BY <2>3 DEF ProcessGraph
    <3>2. Range(todoGraphs) = Range(todoGraphs') \cup {Last(todoGraphs)}
      BY <1>t, <3>1, RangeOfFront
    <3>3. Range(currentGraph') = {Last(todoGraphs)} BY <3>1 DEF Range
    <3> QED BY <1>2, <2>0, <2>3, <3>2, <3>3 DEF ProcessGraph, InsideStep
  <2>4. CASE FinishGraph
    <3>1. Range(currentGraph') = {} BY <2>4, RangeOfEmpty DEF FinishGraph
    <3> QED BY <1>2, <2>0, <2>4, <3>1 DEF FinishGraph, InsideStep
  <2> QED BY <1>10, <2>1, <2>2, <2>3, <2>4 DEF Unlogged
<1> QED BY <1>3, <1>4, <1>5, <1>6, <1>7, <1>8, <1>9, <1>10 DEF LoggedNext

\* The graph at hand is of this step, and its source of the step before.
LEMMA SourcesStep ==
  ASSUME SearchInv, ErrorsComeFirst, LoggedNext, \A i \in DeletedIds : i < nextID, HeldByStep,
         SourcesAreOneStepBack
  PROVE  (HeldByStep /\ SourcesAreOneStepBack)'
<1>0. LoopGraphsByStep' /\ TypeOK' BY LoopGraphsStep, SearchInvStep DEF SearchInv
<1> DEFINE From(i, n) ==
             IF n = 0 THEN i \in ErrorIds' ELSE \E k \in generation' : k.id = i /\ k.step = n
<1>1. \A i, n : FromStep(i, n) => From(i, n) BY FromStepStays
<1>2. ASSUME \A i \in AtHand' \cap IDType : From(i, stepnr'),
             \A l \in generation' : l.step >= 1 /\ From(l.from, l.step - 1)
      PROVE  (HeldByStep /\ SourcesAreOneStepBack)'
  BY <1>0, <1>2 DEF HeldByStep, LoopGraphsByStep, SourcesAreOneStepBack, FromStep
<1>3. \A l \in generation : l.step >= 1 /\ From(l.from, l.step - 1)
  <2> HIDE DEF From
  <2> QED BY <1>1 DEF SourcesAreOneStepBack
<1>4. CASE AtHand' \cap IDType = {}
  <2>1. generation' = generation BY <1>4, GenerationSteps DEF GenerationStep
  <2>2. \A l \in generation' : l.step >= 1 /\ From(l.from, l.step - 1)
    <3> HIDE DEF From
    <3> QED BY <1>3, <2>1
  <2>3. \A i \in AtHand' \cap IDType : From(i, stepnr') BY <1>4
  <2> HIDE DEF From
  <2> QED BY <1>2, <2>2, <2>3
<1>5. CASE AtHand' \cap IDType # {}
  <2>1. AtHand' = {nextID'} /\ pc' = "applyOne" /\ stepnr' = stepnr
    BY <1>5, GenerationSteps DEF GenerationStep
  <2>2. PICK rule : generation' = generation \cup
          {[step |-> stepnr, id |-> nextID', rule |-> rule, from |-> currentGraph'[1].id]}
    BY <1>5, GenerationSteps DEF GenerationStep
  <2> DEFINE new == [step |-> stepnr, id |-> nextID', rule |-> rule, from |-> currentGraph'[1].id]
  <2>3. /\ generation' = generation \cup {new}
        /\ new.step = stepnr /\ new.id = nextID' /\ new.from = currentGraph'[1].id
    BY <2>2
  <2> HIDE DEF new
  <2>4. stepnr \in Nat /\ stepnr >= 1 BY <1>0, <2>1 DEF LoopGraphsByStep, InsideStep
  <2>5. From(nextID', stepnr') BY <2>1, <2>3, <2>4
  <2>6. From(currentGraph'[1].id, stepnr - 1)
    <3>1. currentGraph'[1] \in Range(currentGraph')
      <4>1. PICK g : currentGraph' = <<g>> BY <1>0, <2>1 DEF TypeOK
      <4> QED BY <4>1 DEF Range
    <3> QED BY <1>0, <2>1, <3>1 DEF LoopGraphsByStep, FromStep
  <2> HIDE DEF From
  <2>7. \A l \in generation' : l.step >= 1 /\ From(l.from, l.step - 1)
    BY <1>3, <2>3, <2>4, <2>6
  <2>8. \A i \in AtHand' \cap IDType : From(i, stepnr') BY <2>1, <2>5
  <2> QED BY <1>2, <2>7, <2>8
<1> QED BY <1>4, <1>5

-----------------------------------------------------------------------------
(* The graph files of the steps *)

\* The enumerator arrives at a graph with an id that no line has.
LEMMA FreshId ==
  ASSUME SearchInv, ErrorsComeFirst, LoggedNext, \A i \in DeletedIds : i < nextID,
         GeneratedIdsAreUsed
  PROVE  \A i \in GeneratedIds : i # nextID'
<1>1. nextID \in Nat /\ AtHand \subseteq {nextID} BY LoggedTypes DEF SearchInv, AtHand
<1>2. \A i \in GeneratedIds : i \in Nat /\ i \in IDType /\ (i < nextID \/ i \in AtHand)
  BY DEF GeneratedIdsAreUsed, IDType
<1>3. CASE Quiet BY <1>1, <1>2, <1>3 DEF Quiet
<1>4. CASE Consumed BY <1>1, <1>2, <1>4 DEF Consumed
<1> QED BY <1>3, <1>4, StepsOfTheFiles

\* A file is written once, at the end of its step, and holds what the step reported.
LEMMA StepFilesStep ==
  ASSUME SearchInv, ErrorsComeFirst, LoggedNext, \A i \in DeletedIds : i < nextID,
         GeneratedIdsAreUsed, HeldByStep, StepFilesInOrder, StepFilesMatchGeneration
  PROVE  (StepFilesInOrder /\ StepFilesMatchGeneration)'
<1>t. /\ nextID \in Nat /\ nextID' \in {nextID, nextID + 1} /\ stepnr \in Nat
  <2>1. nextID' \in {nextID, nextID + 1}
    BY LoggedStepIsSearchStep
    DEF Next, vars, AddErrorGraph, ErrorGraphsAdded, StartBackwardStep, Terminate, SkipGraph,
        ProcessGraph, FinishBackwardStep, ApplyStdRule, BeginUQRule, ApplyInstance,
        FinishGraph, DropInvalidPOC, SubsumedPOC, AddPOC, EndApplyOne, ThrowOutOfIDs
  <2> QED BY <2>1, LoggedTypes DEF SearchInv, HeldByStep
<1>0. /\ \A n \in DOMAIN stepFiles : n \in Nat /\ n <= stepnr
      /\ \A n \in DOMAIN stepFiles : \A i \in stepFiles[n] : i \in IDType /\ i < nextID
      /\ InsideStep => stepnr \notin DOMAIN stepFiles
      /\ pc \in {"adding", "rounds"} => currentStepGraphs = {}
      /\ currentStepGraphs \subseteq GeneratedIds
      /\ \A l \in generation : l.id \in currentStepGraphs => l.step = stepnr
  BY DEF StepFilesInOrder
<1>1. /\ \A l \in generation : l.id \in GeneratedIds
      /\ \A i \in GeneratedIds : i \in IDType
      /\ \A i \in GeneratedIds : i < nextID \/ i \in AtHand
  BY DEF GeneratedIdsAreUsed, GeneratedIds
<1>2. CASE LoggedStartBackwardStep
  <2>1. /\ pc = "rounds" /\ stepnr' = stepnr + 1 /\ nextID' = nextID
        /\ UNCHANGED <<generation, currentStepGraphs, stepFiles>>
    BY <1>2 DEF LoggedStartBackwardStep, StartBackwardStep, startingNewBackwardStep
  <2>2. currentStepGraphs = {} BY <1>0, <2>1
  <2>3. GeneratedIds' = GeneratedIds BY <2>1 DEF GeneratedIds
  <2>4. stepnr' \notin DOMAIN stepFiles /\ \A n \in DOMAIN stepFiles : n <= stepnr'
    BY <1>t, <1>0, <2>1
  <2> QED BY <1>0, <2>1, <2>2, <2>3, <2>4 DEF StepFilesInOrder, StepFilesMatchGeneration
<1>3. CASE LoggedFinishBackwardStep
  <2>1. /\ pc = "graphs" /\ pc' = "rounds" /\ UNCHANGED <<generation, stepnr, nextID>>
        /\ currentStepGraphs' = {}
        /\ stepFiles' = [n \in DOMAIN stepFiles \cup {stepnr} |->
                           IF n = stepnr THEN currentStepGraphs ELSE stepFiles[n]]
    BY <1>3 DEF LoggedFinishBackwardStep, FinishBackwardStep, finishedBackwardStep
  <2>2. stepnr \notin DOMAIN stepFiles BY <1>0, <2>1 DEF InsideStep
  <2>3. AtHand = {} BY <2>1 DEF AtHand
  <2>4. StepFilesInOrder'
    <3>1. \A n \in DOMAIN stepFiles' : n \in Nat /\ n <= stepnr BY <1>t, <1>0, <2>1
    <3>2. \A n \in DOMAIN stepFiles' : \A i \in stepFiles'[n] : i \in IDType /\ i < nextID
      BY <1>0, <1>1, <2>1, <2>3
    <3> QED BY <2>1, <3>1, <3>2 DEF StepFilesInOrder, InsideStep
  <2>5. ASSUME NEW l \in generation
        PROVE  /\ \A n \in DOMAIN stepFiles' : l.id \in stepFiles'[n] <=> n = l.step
               /\ l.step \in DOMAIN stepFiles'
    <3>1. /\ \A n \in DOMAIN stepFiles : l.id \in stepFiles[n] <=> n = l.step
          /\ l.step \notin DOMAIN stepFiles => l.id \in currentStepGraphs /\ l.step = stepnr
          /\ l.id \in currentStepGraphs => l.step = stepnr
      BY <1>0 DEF StepFilesMatchGeneration
    <3> QED BY <2>1, <2>2, <3>1
  <2> QED BY <2>1, <2>4, <2>5 DEF StepFilesMatchGeneration
<1>4. ASSUME ~ LoggedFinishBackwardStep, UNCHANGED <<stepnr, stepFiles>>,
             pc' \in {"adding", "rounds"} => pc \in {"adding", "rounds"}, InsideStep' => InsideStep
      PROVE  (StepFilesInOrder /\ StepFilesMatchGeneration)'
  <2>0. \A n \in DOMAIN stepFiles : \A i \in stepFiles[n] : i \in IDType /\ i < nextID'
    BY <1>t, <1>0 DEF IDType
  <2>1. CASE AtHand' \cap IDType = {}
    <3>1. generation' = generation /\ currentStepGraphs' = currentStepGraphs
      BY <1>4, <2>1, GenerationSteps DEF GenerationStep
    <3>2. GeneratedIds' = GeneratedIds BY <3>1 DEF GeneratedIds
    <3>3. StepFilesInOrder' BY <1>0, <1>4, <2>0, <3>1, <3>2 DEF StepFilesInOrder
    <3>4. StepFilesMatchGeneration' BY <1>4, <3>1 DEF StepFilesMatchGeneration
    <3> QED BY <3>3, <3>4
  <2>2. CASE AtHand' \cap IDType # {}
    <3>1. /\ AtHand' = {nextID'} /\ pc' = "applyOne"
          /\ currentStepGraphs' = currentStepGraphs \cup {nextID'}
      BY <2>2, GenerationSteps DEF GenerationStep
    <3>2. PICK rule : generation' = generation \cup
            {[step |-> stepnr, id |-> nextID', rule |-> rule, from |-> currentGraph'[1].id]}
      BY <2>2, GenerationSteps DEF GenerationStep
    <3> DEFINE new == [step |-> stepnr, id |-> nextID', rule |-> rule, from |-> currentGraph'[1].id]
    <3>3. generation' = generation \cup {new} /\ new.step = stepnr /\ new.id = nextID'
      BY <3>2
    <3> HIDE DEF new
    <3>4. InsideStep /\ stepnr \notin DOMAIN stepFiles
      BY <1>0, <1>4, <3>1 DEF InsideStep
    <3>5. GeneratedIds' = GeneratedIds \cup {nextID'}
      BY <2>2, <3>1, GenerationSteps, GeneratedIdsStep
    <3>6. \A i \in GeneratedIds : i # nextID'
      BY FreshId
    <3>7. ASSUME NEW l \in generation', l.id \in currentStepGraphs' PROVE l.step = stepnr
      BY <1>0, <1>1, <3>1, <3>3, <3>6, <3>7
    <3>8. StepFilesInOrder'
      BY <1>0, <1>4, <2>0, <3>1, <3>4, <3>5, <3>7 DEF StepFilesInOrder
    <3>9. ASSUME NEW l \in generation'
          PROVE  /\ \A n \in DOMAIN stepFiles : l.id \in stepFiles[n] <=> n = l.step
                 /\ l.step \notin DOMAIN stepFiles =>
                      l.id \in currentStepGraphs' /\ l.step = stepnr
      <4>1. CASE l \in generation
        BY <3>1, <4>1 DEF StepFilesMatchGeneration
      <4>2. CASE l = new
        <5>1. \A n \in DOMAIN stepFiles : nextID' \notin stepFiles[n]
          BY <1>t, <2>0
        <5> QED BY <3>1, <3>3, <3>4, <4>2, <5>1
      <4> QED BY <3>3, <4>1, <4>2
    <3>10. StepFilesMatchGeneration' BY <1>4, <3>9 DEF StepFilesMatchGeneration
    <3> QED BY <3>8, <3>10
  <2> QED BY <2>1, <2>2
<1>5. ASSUME ~ LoggedFinishBackwardStep, ~ LoggedStartBackwardStep
      PROVE  /\ UNCHANGED <<stepnr, stepFiles>>
             /\ pc' \in {"adding", "rounds"} => pc \in {"adding", "rounds"}
             /\ InsideStep' => InsideStep
  <2>1. CASE LoggedAddErrorGraph
    BY <2>1 DEF LoggedAddErrorGraph, AddErrorGraph, InsideStep
  <2>2. ASSUME NEW r \in StdRules, LoggedApplyStdRule(r)
        PROVE  UNCHANGED <<stepnr, stepFiles>> /\ pc = "rules" /\ pc' = "applyOne"
    BY <2>2 DEF LoggedApplyStdRule, ApplyStdRule
  <2>3. ASSUME NEW u \in UQRules, LoggedBeginUQRule(u)
        PROVE  UNCHANGED <<stepnr, stepFiles>> /\ pc = "rules" /\ pc' = "rules"
    BY <2>3 DEF LoggedBeginUQRule, BeginUQRule, handler
  <2>4. CASE LoggedApplyInstance BY <2>4 DEF LoggedApplyInstance, ApplyInstance, InsideStep
  <2>5. CASE LoggedDropInvalidPOC
    BY <2>5 DEF LoggedDropInvalidPOC, DropInvalidPOC, InsideStep
  <2>6. CASE LoggedSubsumedPOC \/ LoggedAddPOC
    BY <2>6 DEF LoggedSubsumedPOC, LoggedAddPOC, SubsumedPOC, AddPOC, HasPOC, NextPOC, Return,
                InsideStep
  <2>7. CASE Unlogged
    BY <2>7 DEF Unlogged, handler, ErrorGraphsAdded, Terminate, SkipGraph, ProcessGraph,
                FinishGraph, EndApplyOne, ThrowOutOfIDs, Return, InsideStep
  <2> QED BY <1>5, <2>1, <2>2, <2>3, <2>4, <2>5, <2>6, <2>7 DEF LoggedNext, InsideStep
<1> QED BY <1>2, <1>3, <1>4, <1>5

-----------------------------------------------------------------------------
(* Theorems *)

\* The inductive invariant of the files: which ids are used up, which step every
\* graph in hand belongs to, and how far the files have been written.
LogInv ==
  /\ SearchInv /\ ErrorsComeFirst
  /\ GeneratedIdsAreUsed /\ EveryGraphIsAccountedFor /\ ReasonsCanBeFollowed
  /\ HeldByStep /\ SourcesAreOneStepBack
  /\ StepFilesInOrder /\ StepFilesMatchGeneration

\* Before the first graph all files are empty.
LEMMA LogInvInit == LoggedInit => LogInv
<1> SUFFICES ASSUME LoggedInit PROVE LogInv
  OBVIOUS
<1>1. SearchInv BY SearchInvInit
<1>2. /\ generation = {} /\ deletion = {} /\ currentStepGraphs = {} /\ stepnr = 0
      /\ DOMAIN stepFiles = {} /\ minimalGraphs = {} /\ nextID = input.firstID
      /\ pc = "adding" /\ todoGraphs = <<>> /\ newGraphs = <<>> /\ currentGraph = <<>>
  BY DEF LoggedInit, HandlerInit, Init
<1>3. nextID \in Nat /\ input.firstID \in Nat /\ Len(input.errors) \in Nat /\ Len(todoGraphs) = 0
  BY <1>1, <1>2, LoggedTypes, EmptySeq DEF SearchInv
<1>4. AtHand = {} /\ ~ InsideStep BY <1>2 DEF AtHand, InsideStep
<1>5. GeneratedIds = {} /\ DeletedIds = {} /\ ResultIds = {} /\ ErrorIds = {}
  BY <1>2, <1>3 DEF GeneratedIds, DeletedIds, ResultIds, ErrorIds
<1>6. ErrorsComeFirst BY <1>2, <1>3, <1>4 DEF ErrorsComeFirst
<1>7. GeneratedIdsAreUsed /\ EveryGraphIsAccountedFor /\ ReasonsCanBeFollowed
  BY <1>2, <1>4, <1>5 DEF GeneratedIdsAreUsed, EveryGraphIsAccountedFor, ReasonsCanBeFollowed
<1>8. HeldByStep /\ SourcesAreOneStepBack
  <2>1. Range(todoGraphs) = {} /\ Range(newGraphs) = {} /\ Range(currentGraph) = {}
    BY <1>2, RangeOfEmpty
  <2> QED BY <1>2, <1>4, <2>1 DEF HeldByStep, SourcesAreOneStepBack
<1>9. StepFilesInOrder /\ StepFilesMatchGeneration
  BY <1>2, <1>4, <1>5 DEF StepFilesInOrder, StepFilesMatchGeneration
<1> QED BY <1>1, <1>6, <1>7, <1>8, <1>9 DEF LogInv

\* Every step keeps it.
LEMMA LogInvStep == LogInv /\ [LoggedNext]_allVars => LogInv'
<1> SUFFICES ASSUME LogInv, [LoggedNext]_allVars PROVE LogInv'
  OBVIOUS
<1>1. SearchInv' /\ ErrorsComeFirst' BY SearchInvStep, ErrorsComeFirstStep DEF LogInv
<1>2. CASE LoggedNext
  <2>1. nextID \in Nat BY LoggedTypes DEF LogInv, SearchInv
  <2>2. \A i \in DeletedIds : i < nextID
    <3>1. \A i \in DeletedIds : i \in GeneratedIds \cup ErrorIds /\ i \notin AtHand
      BY DEF LogInv, EveryGraphIsAccountedFor
    <3> QED BY <3>1 DEF LogInv, GeneratedIdsAreUsed, ErrorIds
  <2>3. (GeneratedIdsAreUsed /\ EveryGraphIsAccountedFor)' BY <1>2, AccountedStep DEF LogInv
  <2>4. ReasonsCanBeFollowed' BY <1>2, <2>2, ReasonsStep DEF LogInv
  <2>5. (HeldByStep /\ SourcesAreOneStepBack)' BY <1>2, <2>2, SourcesStep DEF LogInv
  <2>6. (StepFilesInOrder /\ StepFilesMatchGeneration)' BY <1>2, <2>2, StepFilesStep DEF LogInv
  <2> QED BY <1>1, <2>3, <2>4, <2>5, <2>6 DEF LogInv
<1>3. CASE UNCHANGED allVars
  <2>1. UNCHANGED vars /\ UNCHANGED handler BY <1>3 DEF allVars
  <2>2. /\ GeneratedIds' = GeneratedIds /\ DeletedIds' = DeletedIds
        /\ ResultIds' = ResultIds /\ ErrorIds' = ErrorIds
        /\ AtHand' = AtHand /\ InsideStep' = InsideStep
    BY <2>1 DEF vars, handler, GeneratedIds, DeletedIds, ResultIds, ErrorIds, AtHand, InsideStep
  <2>3. (GeneratedIdsAreUsed /\ EveryGraphIsAccountedFor /\ ReasonsCanBeFollowed)'
    BY <2>1, <2>2 DEF LogInv, vars, handler, GeneratedIdsAreUsed, EveryGraphIsAccountedFor,
                      ReasonsCanBeFollowed
  <2>4. (HeldByStep /\ SourcesAreOneStepBack)'
    BY <2>1, <2>2 DEF LogInv, vars, handler, HeldByStep, SourcesAreOneStepBack, FromStep
  <2>5. (StepFilesInOrder /\ StepFilesMatchGeneration)'
    BY <2>1, <2>2 DEF LogInv, vars, handler, StepFilesInOrder, StepFilesMatchGeneration
  <2> QED BY <1>1, <2>3, <2>4, <2>5 DEF LogInv
<1> QED BY <1>2, <1>3

\* The invariant of the files holds throughout the search.
THEOREM FilesInvariant == LoggedSpec => []LogInv
BY LogInvInit, LogInvStep, PTL DEF LoggedSpec

\* The files account for every graph, each exactly once, wherever the search stops.
THEOREM FilesAreComplete == LoggedSpec => []EveryGraphIsAccountedFor
<1>1. LogInv => EveryGraphIsAccountedFor BY DEF LogInv
<1> QED BY <1>1, FilesInvariant, PTL

\* A reader of generation.txt gets from any graph back to an error graph, one
\* step at a time.
THEOREM SourcesLeadBack == LoggedSpec => []SourcesAreOneStepBack
<1>1. LogInv => SourcesAreOneStepBack BY DEF LogInv
<1> QED BY <1>1, FilesInvariant, PTL

\* The graph file of a step holds the graphs that were generated in it, no others.
THEOREM StepFilesAreRight == LoggedSpec => []StepFilesMatchGeneration
<1>1. LogInv => StepFilesMatchGeneration BY DEF LogInv
<1> QED BY <1>1, FilesInvariant, PTL

\* The reason of a deletion is a graph that deletion.txt or the result knows.
THEOREM ReasonsAreKnown == LoggedSpec => []ReasonsCanBeFollowed
<1>1. LogInv => ReasonsCanBeFollowed BY DEF LogInv
<1> QED BY <1>1, FilesInvariant, PTL
=============================================================================
