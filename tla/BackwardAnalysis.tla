---------------------------- MODULE BackwardAnalysis ----------------------------
(***************************************************************************)
(* analysis/BackwardAnalysis: performAnalysis and applyOne, one action per *)
(* loop iteration.                                                         *)
(*                                                                         *)
(* The search starts from the error graphs, applies every prepared rule    *)
(* backward to every graph it still considers minimal, keeps the minimal   *)
(* results and ends when a round finds nothing new, an initial graph is    *)
(* covered or the time is up.  MinGraphList::addGraph is the single step   *)
(* that module MinGraphList implements; what the pushout complement        *)
(* enumerator returns for a rule and a graph is part of the input.         *)
(***************************************************************************)
EXTENDS GraphOrder, Sequences, SequencesExt

CONSTANTS
  StdRules,  \* ids of the prepared standard rules
  UQRules,   \* ids of the universally quantified rules
  Inputs     \* the inputs explored; see InputType

(***************************************************************************)
(* An input is what the constructor is given, the enumerator's answers     *)
(* included:                                                               *)
(*   errors       shapes of the error graphs, in order                     *)
(*   initial      shapes of the initial graphs of the GTS                  *)
(*   checkInitial, timer   the two optional ways to stop early             *)
(*   std[r][s]    the complements enumerated for rule r and shape s        *)
(*   uq[u][s]     the same for every instance of u that is tried on s      *)
(*   valid        the shapes within the path bound of the enumerator       *)
(*   firstID      the first id that reading graphs and rules has left      *)
(***************************************************************************)
InputType ==
  [errors : Seq(Shapes), initial : SUBSET Shapes,
   checkInitial : BOOLEAN, timer : BOOLEAN, valid : SUBSET Shapes,
   firstID : 1 .. IDType_MAX,
   std : [StdRules -> [Shapes -> Seq(Shapes)]],
   uq : [UQRules -> [Shapes -> Seq(Seq(Shapes))]]]

\* The shapes of all predecessors the search computes for shape s.
PredShapes(in, s) ==
  {p \in in.valid :
     \/ \E r \in StdRules : p \in Range(in.std[r][s])
     \/ \E u \in UQRules : \E i \in DOMAIN in.uq[u][s] : p \in Range(in.uq[u][s][i])}

ErrorShapes(in) == Range(in.errors)

(***************************************************************************)
(* "The Order, RulePreparer and MinPOCEnumerator have to be compatible":   *)
(* going to a smaller graph loses no predecessor.                          *)
(***************************************************************************)
Compatible(in) ==
  \A s, t \in Shapes : Leq(t, s) =>
    \A p \in PredShapes(in, s) : Leq(t, p) \/ \E q \in PredShapes(in, t) : Leq(q, p)

ASSUME InputsAreCompatible ==
  \A in \in Inputs : in \in InputType /\ Compatible(in)

VARIABLES
  input,          \* chosen at the start, never changed
  pc,             \* where performAnalysis is
  minimalGraphs,  \* the MinGraphList, as a set
  todoGraphs,     \* vector of graphs to process in this round, popped at the back
  newGraphs,      \* vector of graphs found in this round
  currentGraph,   \* <<graph>> while its rules are applied, <<>> otherwise
  stdLeft,        \* standard rules still to be applied to it
  uqLeft,         \* universally quantified rules still to be started on it
  instances,      \* complements of the remaining instances of the current one
  pocs,           \* what the enumerator has still to deliver
  nextID,         \* gl_LastUsedStateID
  outcome         \* why the search has returned

vars == <<input, pc, minimalGraphs, todoGraphs, newGraphs, currentGraph, stdLeft,
          uqLeft, instances, pocs, nextID, outcome>>

search == <<stdLeft, uqLeft, instances, pocs>>

TypeOK ==
  /\ input \in Inputs
  /\ pc \in {"adding", "rounds", "graphs", "rules", "applyOne", "done"}
  /\ minimalGraphs \in SUBSET Hypergraph
  /\ todoGraphs \in Seq(Hypergraph) /\ newGraphs \in Seq(Hypergraph)
  /\ currentGraph \in {<<>>} \cup {<<g>> : g \in Hypergraph}
  /\ pc \in {"rules", "applyOne"} => currentGraph # <<>>
  /\ stdLeft \in SUBSET StdRules /\ uqLeft \in SUBSET UQRules
  /\ instances \in Seq(Seq(Shapes)) /\ pocs \in Seq(Shapes)
  /\ nextID \in 1 .. IDType_MAX
  /\ outcome \in {"none", "complete", "initial", "timeout", "outOfIDs"}

Init ==
  /\ input \in Inputs
  /\ pc = "adding"
  /\ minimalGraphs = {} /\ todoGraphs = <<>> /\ newGraphs = <<>>
  /\ currentGraph = <<>> /\ stdLeft = {} /\ uqLeft = {}
  /\ instances = <<>> /\ pocs = <<>>
  /\ nextID = input.firstID /\ outcome = "none"

-----------------------------------------------------------------------------
(* MinGraphList and Timer as the search uses them *)

Subsumed(S, g)  == \E h \in S : IsLessOrEq(h, g)
MinimizedKeepsLarger(S, g) == S \cup {g}
MinimizedForgetsNew(S, g) ==
  IF \E h \in S : IsLessOrEq(g, h) THEN {h \in S : ~ IsLessOrEq(g, h)} ELSE S \cup {g}
Minimized(S, g) == {h \in S : ~ IsLessOrEq(g, h)} \cup {g}

Return(why) == pc' = "done" /\ outcome' = why

\* timer && timer->outOfTime(): any moment may be too late once a timer is set.
OutOfTime == input.timer

-----------------------------------------------------------------------------
(* performAnalysis *)

\* minimalGraphs.addGraphs(*errorGraphs).  The error graphs exist before the
\* search; each gets its id here.  todoGraphs is their copy, minimal or not.
AddErrorGraph ==
  /\ pc = "adding" /\ Len(todoGraphs) < Len(input.errors)
  /\ nextID \in IDType
  /\ LET g == [id |-> nextID, shape |-> input.errors[Len(todoGraphs) + 1]]
     IN  /\ todoGraphs' = Append(todoGraphs, g)
         /\ minimalGraphs' = IF Subsumed(minimalGraphs, g) THEN minimalGraphs
                                                           ELSE Minimized(minimalGraphs, g)
  /\ nextID' = nextID + 1
  /\ UNCHANGED <<input, pc, newGraphs, currentGraph, search, outcome>>

\* The check before the first backward step.
ErrorGraphsAdded ==
  /\ pc = "adding" /\ Len(todoGraphs) = Len(input.errors)
  /\ \/ pc' = "rounds" /\ UNCHANGED outcome
     \/ OutOfTime /\ Return("timeout")
  /\ UNCHANGED <<input, minimalGraphs, todoGraphs, newGraphs, currentGraph, search, nextID>>

StartBackwardStep ==
  /\ pc = "rounds" /\ todoGraphs # <<>>
  /\ pc' = "graphs"
  /\ UNCHANGED <<input, minimalGraphs, todoGraphs, newGraphs, currentGraph, search,
                 nextID, outcome>>

\* No new graphs: the regular end of the search.
Terminate ==
  /\ pc = "rounds" /\ todoGraphs = <<>>
  /\ Return("complete")
  /\ UNCHANGED <<input, minimalGraphs, todoGraphs, newGraphs, currentGraph, search, nextID>>

StillMinimal(g) == \E h \in minimalGraphs : h.id = g.id   \* contains(g.getID())

SkipGraphKeepsIt ==
  /\ pc = "graphs" /\ todoGraphs # <<>>
  /\ ~ StillMinimal(Last(todoGraphs))
  /\ UNCHANGED vars
\* A smaller graph was found in the meantime.
SkipGraph ==
  /\ pc = "graphs" /\ todoGraphs # <<>>
  /\ ~ StillMinimal(Last(todoGraphs))
  /\ todoGraphs' = Front(todoGraphs)
  /\ UNCHANGED <<input, pc, minimalGraphs, newGraphs, currentGraph, search, nextID, outcome>>

ProcessGraph ==
  /\ pc = "graphs" /\ todoGraphs # <<>>
  /\ StillMinimal(Last(todoGraphs))
  /\ todoGraphs' = Front(todoGraphs)
  /\ currentGraph' = <<Last(todoGraphs)>>
  /\ stdLeft' = StdRules /\ uqLeft' = UQRules
  /\ pc' = "rules"
  /\ UNCHANGED <<input, minimalGraphs, newGraphs, instances, pocs, nextID, outcome>>

FinishBackwardStepDropsNew ==
  /\ pc = "graphs" /\ todoGraphs = <<>>
  /\ newGraphs' = <<>>
  /\ pc' = "rounds"
  /\ UNCHANGED <<input, minimalGraphs, todoGraphs, currentGraph, search, nextID, outcome>>
FinishBackwardStepKeepsNew ==
  /\ pc = "graphs" /\ todoGraphs = <<>>
  /\ todoGraphs' = newGraphs
  /\ pc' = "rounds"
  /\ UNCHANGED <<input, minimalGraphs, newGraphs, currentGraph, search, nextID, outcome>>
FinishBackwardStep ==
  /\ pc = "graphs" /\ todoGraphs = <<>>
  /\ todoGraphs' = newGraphs /\ newGraphs' = <<>>
  /\ pc' = "rounds"
  /\ UNCHANGED <<input, minimalGraphs, currentGraph, search, nextID, outcome>>

-----------------------------------------------------------------------------
(* the rule loops: standard rules in map order, then every instance of every *)
(* universally quantified rule                                               *)

ApplyStdRule(r) ==
  /\ pc = "rules" /\ r \in stdLeft
  /\ stdLeft' = stdLeft \ {r}
  /\ pocs' = input.std[r][currentGraph[1].shape]
  /\ pc' = "applyOne"
  /\ UNCHANGED <<input, minimalGraphs, todoGraphs, newGraphs, currentGraph, uqLeft,
                 instances, nextID, outcome>>

BeginUQRule(u) ==
  /\ pc = "rules" /\ stdLeft = {} /\ instances = <<>> /\ u \in uqLeft
  /\ uqLeft' = uqLeft \ {u}
  /\ instances' = input.uq[u][currentGraph[1].shape]
  /\ UNCHANGED <<input, pc, minimalGraphs, todoGraphs, newGraphs, currentGraph, stdLeft,
                 pocs, nextID, outcome>>

ApplyInstance ==
  /\ pc = "rules" /\ instances # <<>>
  /\ instances' = Tail(instances)
  /\ pocs' = Head(instances)
  /\ pc' = "applyOne"
  /\ UNCHANGED <<input, minimalGraphs, todoGraphs, newGraphs, currentGraph, stdLeft,
                 uqLeft, nextID, outcome>>

FinishGraph ==
  /\ pc = "rules" /\ stdLeft = {} /\ instances = <<>> /\ uqLeft = {}
  /\ currentGraph' = <<>>
  /\ pc' = "graphs"
  /\ UNCHANGED <<input, minimalGraphs, todoGraphs, newGraphs, search, nextID, outcome>>

-----------------------------------------------------------------------------
(* applyOne *)

Enumerated == [id |-> nextID, shape |-> Head(pocs)]

\* ++(*pocEnumerator) and back to the loop test, unless the time is up.
NextPOC ==
  /\ pocs' = Tail(pocs)
  /\ \/ UNCHANGED <<pc, outcome>>
     \/ OutOfTime /\ Return("timeout")

\* The enumerator itself passes over graphs that exceed its path bound.
DropInvalidPOC ==
  /\ pc = "applyOne" /\ pocs # <<>> /\ nextID \in IDType
  /\ Head(pocs) \notin input.valid
  /\ pocs' = Tail(pocs)
  /\ nextID' = nextID + 1
  /\ UNCHANGED <<input, pc, minimalGraphs, todoGraphs, newGraphs, currentGraph, stdLeft,
                 uqLeft, instances, outcome>>

HasPOCUncheckedId == pc = "applyOne" /\ pocs # <<>> /\ Head(pocs) \in input.valid
HasPOCIgnoresBound == pc = "applyOne" /\ pocs # <<>> /\ nextID \in IDType
HasPOC == pc = "applyOne" /\ pocs # <<>> /\ nextID \in IDType /\ Head(pocs) \in input.valid

\* order->isLessOrEq(*newGraph, **initIt) for some initial graph
CoversInitialSwapped(g) == input.checkInitial /\ \E i \in input.initial : Leq(i, g.shape)
CoversInitial(g) == input.checkInitial /\ \E i \in input.initial : Leq(g.shape, i)

SubsumedPOC ==
  /\ HasPOC /\ Subsumed(minimalGraphs, Enumerated)
  /\ nextID' = nextID + 1
  /\ NextPOC
  /\ UNCHANGED <<input, minimalGraphs, todoGraphs, newGraphs, currentGraph, stdLeft,
                 uqLeft, instances>>

AddPOCReusesId ==
  /\ HasPOC /\ ~ Subsumed(minimalGraphs, Enumerated)
  /\ minimalGraphs' = Minimized(minimalGraphs, Enumerated)
  /\ newGraphs' = Append(newGraphs, Enumerated)
  /\ IF CoversInitial(Enumerated) THEN Return("initial") /\ UNCHANGED pocs
                                  ELSE NextPOC
  /\ UNCHANGED <<input, todoGraphs, currentGraph, stdLeft, uqLeft, instances, nextID>>
AddPOC ==
  /\ HasPOC /\ ~ Subsumed(minimalGraphs, Enumerated)
  /\ minimalGraphs' = Minimized(minimalGraphs, Enumerated)
  /\ newGraphs' = Append(newGraphs, Enumerated)
  /\ nextID' = nextID + 1
  /\ IF CoversInitial(Enumerated) THEN Return("initial") /\ UNCHANGED pocs
                                  ELSE NextPOC
  /\ UNCHANGED <<input, todoGraphs, currentGraph, stdLeft, uqLeft, instances>>

EndApplyOneSkipsRules ==
  /\ pc = "applyOne" /\ pocs = <<>>
  /\ pc' = "graphs" /\ currentGraph' = <<>>
  /\ UNCHANGED <<input, minimalGraphs, todoGraphs, newGraphs, search, nextID, outcome>>
\* return false: the enumerator has ended
EndApplyOne ==
  /\ pc = "applyOne" /\ pocs = <<>>
  /\ pc' = "rules"
  /\ UNCHANGED <<input, minimalGraphs, todoGraphs, newGraphs, currentGraph, search,
                 nextID, outcome>>

\* gl_getNewStateID throws while the next graph is constructed; nothing in the
\* search catches it.
ThrowOutOfIDs ==
  /\ nextID \notin IDType
  /\ \/ pc = "adding" /\ Len(todoGraphs) < Len(input.errors)
     \/ pc = "applyOne" /\ pocs # <<>>
  /\ Return("outOfIDs")
  /\ UNCHANGED <<input, minimalGraphs, todoGraphs, newGraphs, currentGraph, search, nextID>>

Next ==
  \/ AddErrorGraph \/ ErrorGraphsAdded \/ StartBackwardStep \/ Terminate
  \/ SkipGraph \/ ProcessGraph \/ FinishBackwardStep
  \/ \E r \in StdRules : ApplyStdRule(r)
  \/ \E u \in UQRules : BeginUQRule(u)
  \/ ApplyInstance \/ FinishGraph
  \/ DropInvalidPOC \/ SubsumedPOC \/ AddPOC \/ EndApplyOne
  \/ ThrowOutOfIDs

\* The search is one thread that never waits: while a step is possible it is
\* taken.  The time being up is a choice inside a step, so it is not forced.
Spec == Init /\ [][Next]_vars /\ WF_vars(Next)

-----------------------------------------------------------------------------
(* Properties *)

Coverable == INSTANCE Coverability WITH known <- UpwardClosure(minimalGraphs)

\* Every step of the search is a step of the abstract saturation: a round adds
\* only error shapes and predecessors, and a regular end means saturation.
ImplementsCoverability == Coverable!Spec

\* The result holds no two comparable graphs.
NoComparableGraphs == Antichain(minimalGraphs)

\* A graph of the result that is not waiting to be processed has every
\* predecessor represented: skipping subsumed graphs and replacing the todo
\* list between rounds loses no work.
Waiting(g) == g \in Range(todoGraphs) \cup Range(newGraphs) \cup Range(currentGraph)

NothingForgotten ==
  \A g \in minimalGraphs :
    Waiting(g) \/ \A p \in PredShapes(input, g.shape) : Represents(minimalGraphs, p)

\* Whatever the search keeps leads to an error graph, and when it ends regularly
\* it has found everything that does: the answer is exact on upward closures.
ReachableUp == {s \in Shapes : \E t \in Coverable!BackwardReachable(input) : Leq(t, s)}

ResultIsExact ==
  /\ UpwardClosure(minimalGraphs) \subseteq ReachableUp
  /\ outcome = "complete" => UpwardClosure(minimalGraphs) = ReachableUp

\* The verdict on the initial graphs.  "Covered" is only reported for a graph
\* from which an error is reachable; a regular end with the check switched on
\* means that no initial graph is coverable, except by the error graphs
\* themselves, which are never compared with the initial graphs.
VerdictIsCorrect ==
  /\ outcome = "initial" => input.initial \cap ReachableUp # {}
  /\ outcome = "complete" /\ input.checkInitial =>
       \A i \in input.initial \cap ReachableUp : \E e \in ErrorShapes(input) : Leq(e, i)

\* Two graphs the search holds never share an id, whatever was dropped before:
\* contains() asks for an id, not for a graph.
Held == minimalGraphs \cup Range(todoGraphs) \cup Range(newGraphs) \cup Range(currentGraph)

IdsAreUnique == \A g, h \in Held : g.id = h.id => g = h

\* What is represented stays represented, also while larger graphs are dropped.
KnowledgeGrows ==
  [][UpwardClosure(minimalGraphs) \subseteq UpwardClosure(minimalGraphs')]_vars

\* With all ids at hand every search ends by itself: on a well-quasi-order only
\* finitely many graphs are ever new.
Terminates == input.firstID = 1 => <>(outcome \in {"complete", "initial", "timeout"})

-----------------------------------------------------------------------------
(* Why these hold: what the loops know at every point *)

\* What the program counter says about the loop variables.
ControlState ==
  /\ pc \in {"adding", "rounds", "graphs"} =>
       currentGraph = <<>> /\ instances = <<>> /\ pocs = <<>>
  /\ pc \in {"adding", "rounds"} => newGraphs = <<>>
  /\ pc = "rules" => pocs = <<>>
  /\ pc = "done" <=> outcome # "none"
  /\ outcome = "complete" => todoGraphs = <<>> /\ newGraphs = <<>> /\ currentGraph = <<>>

\* The predecessors of shape s that the rule loops have still to deliver.
Remaining(s) ==
  {p \in input.valid :
     \/ \E r \in stdLeft : p \in Range(input.std[r][s])
     \/ \E u \in uqLeft : \E i \in DOMAIN input.uq[u][s] : p \in Range(input.uq[u][s][i])
     \/ \E i \in DOMAIN instances : p \in Range(instances[i])
     \/ p \in Range(pocs)}

\* Of the graph in hand, every predecessor is represented or still to come, and
\* nothing else is to come.
GraphProgress ==
  \A g \in Range(currentGraph) :
    /\ Remaining(g.shape) \subseteq PredShapes(input, g.shape)
    /\ \A p \in PredShapes(input, g.shape) : Represents(minimalGraphs, p) \/ p \in Remaining(g.shape)

\* Every error graph added so far is represented.
ErrorsRepresented ==
  /\ pc = "adding" => Len(todoGraphs) <= Len(input.errors)
  /\ \A i \in 1 .. Len(input.errors) :
       \/ pc = "adding" /\ Len(todoGraphs) < i
       \/ outcome = "outOfIDs"
       \/ Represents(minimalGraphs, input.errors[i])

\* Every graph the search holds leads to an error graph.
Traceable == \A g \in Held : g.shape \in Coverable!BackwardReachable(input)

\* Every graph the search holds is represented, also after it was replaced.
HeldRepresented == \A g \in Held : Represents(minimalGraphs, g.shape)

\* Ids are handed out in increasing order.
IdsBelowNext == \A g \in Held : g.id < nextID

\* As long as no initial graph was reported, none is represented except by the
\* error graphs.
InitialUncovered ==
  /\ outcome = "initial" => \E i \in input.initial : Represents(minimalGraphs, i)
  /\ input.checkInitial /\ outcome # "initial" =>
       \A g \in minimalGraphs : \A i \in input.initial :
         Leq(g.shape, i) => \E e \in ErrorShapes(input) : Leq(e, i)

-----------------------------------------------------------------------------
(* A statement of the documentation that the code does not keep *)

\* BackwardAnalysis.h, checkInitial: "if true, the analysis will stop as soon as
\* an initial graph or a smaller graph was reached".  No backward step runs
\* while an initial graph is represented.
StopsOnceInitialIsReached ==
  input.checkInitial /\ pc \in {"graphs", "rules", "applyOne"} =>
    \A i \in input.initial : ~ Represents(minimalGraphs, i)

=============================================================================
