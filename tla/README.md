# UnCoVer in TLA+

UnCoVer decides coverability for graph transformation systems: it starts from a
set of error graphs, applies the rules backward, keeps only graphs that are
minimal in a well-quasi-order (subgraph or minor order), and stops when nothing
new is found. This directory holds a TLA+ model of the tool: modules of its
algorithms and data structures, TLC configurations that check them on small
instances, and TLAPS proofs of the main results for every instance.

Source paths are relative to `src/src/`.

## 1. The system

One process, one thread, one analysis per run. What makes it hard is not
concurrency but long sequences of steps over shared mutable structures: lists
minimised while they are iterated, a cache of ids beside a list, work lists that
hold graphs which may since have been subsumed, recursive searches that undo
their changes, odometers, and four ways for a search to end early.

### Components

| Component | Source | State | Operations | Interacts with |
|---|---|---|---|---|
| Backward analysis | `analysis/BackwardAnalysis` | todo and new lists, current graph, rule loops, timer | `performAnalysis`, `applyOne` | everything below |
| Minimal graph list | `graphs/MinGraphList` | vector of graphs, id cache | `addGraph`, `addGraphs`, `contains` | order (calls), result handler (callbacks) |
| Orders | `basic_types/Order`, `subgraphs/SubgraphOrder`, `minors/MinorOrder` | none | `isLessOrEq` | match finder |
| Complement enumerators | `subgraphs/SubgraphPOCEnumerator`, `minors/MinorPOCEnumerator`, `rule_engine/PartialPOCEnumerator`, `rule_engine/TotalPOCEnumerator` | templates, mapping and odometers of the current complement | `resetWith`, `++`, `*`, `ended` | match finder, hypergraph, partition enumerators, result handler |
| Partition enumerators | `basic_types/IDPartition*`, `rule_engine/IDClosureEnumerator`, `IDtoIDEnumerator`, `ExpEnumerator` | generated partitions, position | `++`, `reset`, `ended` | total complements |
| Prepared rules | `analysis/PreparedGTS`, `subgraphs/SubgraphRulePreparer`, `minors/MinorRulePreparer` | prepared standard rules; iterator over instances of quantified rules | `prepareRule`, `beginUQInstances`, `++` | rules, hypergraph |
| Hypergraph | `graphs/AnonHypergraph`, `graphs/Hypergraph` | vertices, edges, incidence index, last id | add, delete, merge | every other component |
| Match finder | `rule_engine/StdMatchFinder` | mapping, reverse mapping, mappable edges, shared by recursive calls | `findMatches` | hypergraph |
| Result handler | `analysis/InstantWriterResultHandler` | generation and deletion file, graphs of the current step, step number | callbacks | called by analysis, list and enumerators |
| Rules | `graphs/AnonRule`, `Rule`, `UQRule`, `UQRuleInstance`, `GTS` | graphs and a morphism; quantifications | `addQuantification`, `createInstance`, `isConflictFree` | match finder |
| Path checker | `graphs/PathChecker` | marks of a depth-first search | `hasPath` | complement enumerators |
| Isomorphism checker | `graphs/IsomorphismChecker`, `SignatureCreater` | mapping in both directions, numbers of vertices and edges | `areIsomorphic` | hypergraph |
| Scenarios, command line | `scenarios/`, `basic_types/Scenario`, `main.cpp` | parameters, what was read | `initialize`, `run` | build and start the above |
| Input and output | `io/` | maps from XML ids to elements, files | read, write | scenarios |
| Logging | `logging/` | streams | messages | everything |

`PROJECT.json` lists each with its status, and the hazards of the code at their
lines.

### What must be right, and where it could go wrong

* **Backward analysis.** The result is exactly the upward closure of what reaches
  an error backward. At risk: graphs dropped from the todo list because a smaller
  graph was found in the meantime, the current graph itself being dropped while
  its rules are applied, the swap of the lists, the early ends (initial graph
  covered, timeout before and during a step, exhausted ids).
* **Minimal graph list.** No two stored graphs are comparable, nothing
  represented is lost, and the cache of ids is the list's. At risk: erasing while
  iterating and the flag that skips half of the comparisons.
* **Result handler.** Three callers report into one handler; every graph is
  accounted for in the right step.
* **Instances of quantified rules.** Every prepared instance within the bound is
  tried. At risk: an odometer that restarts from where it stopped, and a vector
  that is never emptied.
* **Hypergraph.** Edges and incidence index agree after any history, and merging
  is a quotient. At risk: loops, edges that visit a vertex twice, parallel edges,
  merges that throw half-way.
* **Match finder.** All matches, each once; with early stop, a match if there is
  one. At risk: the structures that all recursive calls share.
* **Complements.** For every match exactly the complements that the definition
  allows, each once: one too few is a predecessor the analysis never sees. At risk:
  five nested enumerators that reset and rebuild one another, partitions generated
  while they are enumerated, and mappings kept through two rounds of merging.
* **Prepared rules.** What the prepared rules of an order lead back to is all that is
  needed, for subgraphs, for minors and for instances of quantified rules up to the
  bound. At risk: rules dropped as no-ops, deletions chosen by position on a copy that
  changes, and neighbourhoods compared by counting edges.
* **Orders.** A graph is below another exactly if the definition says so. At risk: an
  odometer that jumps over contractions it takes for hopeless.
* **Files.** What the tool writes it reads back as the same; a damaged file is refused, and
  what is not refused is a rule. At risk: quantified rules, which are written as one of
  their instances and cut apart again by the reader.

## 2. Modules

```
GraphOrder ── MinimalGraphs            abstract list of minimal graphs
     │   └─── MinGraphList             addGraph iteration by iteration
     │            └── MinGraphListProofs                              (+ SequenceLemmas)
     ├─────── Coverability             abstract saturation
     └─────── BackwardAnalysis         performAnalysis, applyOne
                  └── LoggedAnalysis            with the files of the result handler
                           └── BackwardAnalysisProofs                 (+ SequenceLemmas)
UQInstances                            iterator over rule instances
     └── UQInstancesProofs                                            (+ SequenceLemmas)
HypergraphQuotient ── AnonHypergraph   abstract graph, incidence structure
                           └── AnonHypergraphProofs                   (+ SequenceLemmas)
StdMatchFinder                         the recursive match search
     └── StdMatchFinderProofs                                         (+ SequenceLemmas)
MatchSearch                            what a match search returns, as a value

PartitionEnumerators ── PlainHypergraph              graphs as values
  ├── GraphMinors                                    minors by definition
  │     ├── MinorOrder, OldMinorOrder, IsomorphismChecker
  │     └── LEQCheckScenario  = MinorOrder + IsomorphismChecker + OldMinorOrder + MatchSearch
  │           └── LEQCheckScenarioProofs                              (+ SequenceLemmas)
  └── UQRule                                         quantified rules and instances
        ├── TotalPOCEnumerator ─┐
        ├── PartialPOCEnumerator                     (PushoutComplements: reference)
        ├── RulePreparers                            for the subgraph and the minor order
        ├── BackwardStep  = PartialPOCEnumerator + RulePreparers + MinorOrder
        └── GTXLWriterXerces ── GTXLReaderXerces
              └── LeaderElectionRuleCreater ── Program   (+ Scenario, MatchSearch)
                     └── ProgramProofs                                (+ SequenceLemmas)
```

Each module `M` that is run has one or more configurations and, where these need more
than numbers and model values, a module `MCM` with its small instance; `SmallGraphs` is the notation for graphs that they share.

**GraphOrder** fixes what a graph is to the search: an id and a shape, where shapes
are related by a quasi-order `Leq` (a constant). Isomorphic graphs with different
ids are two objects that are below each other. `IDType_MAX` is `UINT_MAX` in the
code and `gl_getNewStateID` never hands it out.

**MinGraphList** has one action per iteration of the `while` loop in `addGraph`,
with the iterator as an index, `canBeLarger`, the id cache, the collected
`deletedGraphs` and what is reported to the handler. It implements
**MinimalGraphs**, in which adding is one step; `BackwardAnalysis` relies on that
and treats `addGraph` as a step.

**BackwardAnalysis** has one action per iteration of the loops in
`performAnalysis` and `applyOne`; `pc` names the loop. `AddErrorGraph` is
`addGraphs(*errorGraphs)`, `SkipGraph` and `ProcessGraph` the two outcomes of the
`contains` test, `ApplyStdRule`, `BeginUQRule`, `ApplyInstance` the rule loops,
`DropInvalidPOC`, `SubsumedPOC`, `AddPOC`, `EndApplyOne` one round of the loop in
`applyOne`, `FinishBackwardStep` the swap of the lists, `Terminate` the regular
end. `ThrowOutOfIDs` is the exception of `gl_getNewStateID`. Timeouts are choices
inside the steps at which the code reads the clock. What the enumerators return
for a rule and a shape is part of the input, so every rule set on the given
shapes is covered; the model consumes one id per complement, whereas the templates
of the enumerators consume some more (only order and uniqueness of the ids
matter). The documentation requires order, preparer and enumerator to be
compatible; `Compatible` says what that means.

**Coverability** is the abstract search: an upward-closed set grows by error shapes
and predecessors, and may be declared complete only when it is saturated. The
refinement maps it to the upward closure of the minimal graphs.

**LoggedAnalysis** has the calls of `InstantWriterResultHandler` and composes the search with them: each
action of the search is joined with the calls the enumerator, the list and the
search make in it, at their place. The extent of the files is `FULL`, which is
what every scenario uses.

**UQInstances** has one action per round of the loop in `loadNextRule`; `curIt`,
`currentQuant`, `firstTime` and `currentInstances` are those of the code. What the
preparer makes of an instance is a number of variants, none for a no-op.

**UQRule** has the content of an instance: `extendRuleByUQ` glues one copy of a
quantification to a rule and `createInstance` does so as often as a vector of
multiplicities says. `MatchesWholeNeighbourhood` is the test by which an instance refuses
a match that leaves out an edge at a quantified vertex. `InstanceByDefinition` in
`PartialPOCEnumerator` says what an instance is meant to be, for the complements and the backward step to be
compared with: the main rule and all copies beside each other, as one quotient.

**AnonHypergraph** keeps `vertices`, `edges`, the multiset of edges at each vertex
and the last id, as the class does, and one action per public operation. A merge
that throws half-way keeps what it has done so far. It implements
**HypergraphQuotient**, in which deletion takes incident edges along and merging is
the quotient, characterised by its universal property rather than by a loop.

**StdMatchFinder** makes the recursion of `mapEdges` explicit as a stack of frames;
the mapping, its reverse and the mappable edges are shared by all frames, as in
the code. The iteration order of a hash set is left open, that of the ordered
vertex and edge maps is kept. The images of isolated vertices are counted through as
`ExpEnumerator` does.

**MatchSearch** has what `findMatches` returns as a value, for the modules that call it:
`LEQCheckScenario`, where the subgraph order asks for an injective match, and `Program`,
where the matcher writes all matches into a file. Since each call takes back what it has
added, a call depends only on the targets chosen before it, and the recursion can be looked at
one level after the other (`Level`). The test of a target is the code's (`IsMapPossible`):
it lets an injective search fold an edge onto a loop, and it accepts an edge of the same label and
another arity, of which `MapTo` then reads as many vertices as the source edge has, past the end of
the target's if need be. What is read there is `beyond`, any vertex of the target or none, the same
one throughout a run of the matcher. `ReturnsWhatCallsFind` of the run `matches` compares this with
the recursion of `StdMatchFinder`, for each of its inputs.

**PartitionEnumerators**, **PlainHypergraph** and **TotalPOCEnumerator** are functions
on records: an enumerator is a record of its fields, `operator++` a function to the
next one, as the classes behave to their callers. `PlainHypergraph` has the graph
operations without the incidence index (that the index follows from the edges is
`IndexIsExact` of `AnonHypergraph`) and the mappings. `TotalPOCEnumerator` has the three
ways to enumerate: one complement for an injective rule (`ComputePOCInjRule`), targets
of torn-off tentacles for injective matches (`InitTemplatesInj`, `ComputePOCInj`), edge
and then vertex partitions otherwise (`InitEdgeTemplates`, `InitVertexTemplates`,
`ComputePOC`). Ids matter here, so the order in which a hash set is iterated is a
constant, `Before`. **PartialPOCEnumerator** is the state machine on top: `Reset`, and
one action per branch of `getNext` (`NextEdgeMerging`, `NextVertexMerging`, `NextTotal`).
A complement that `operator++` steps over is a step that delivers nothing. An exception
leaves the enumerator with `Thrown`.

**PushoutComplements** knows nothing of the enumeration. It takes the left side beside
the unmatched part of the graph with all tentacles torn off, goes through the
partitions of its vertices and edges, and keeps those that glue back to the graph: the
complements by definition. `RewriteStep` applies a rule forward.

**RulePreparers** makes, for the subgraph order, of a rule all rules whose right side is a subgraph of the
original one: one action per round of the inner loop of `prepareRule`, with the two
counters whose binary digits say what is deleted. For the minor order it adds, for each of
their values, the contractions of the deleted edges: `PrepareContraction` is one round of the loop over
the enumerators of partitions, and `enumedPartitions` keeps it from handing out the same
contraction twice.

**BackwardStep** is one backward step with the real parts. A rule, or each instance of a
quantified rule (`NextInstance`), is prepared (`Prepare`), an enumerator is started for each
prepared rule (`ResetWith`) and run to its end (`Enumerate`), in the subgraph order, with or
without a path bound, or in the minor order. `StepIsSound` and `StepIsComplete`
together are the contract between order, preparer and enumerator, `Compatible`, which
`BackwardAnalysis` assumes: what is delivered are predecessors, and below each graph that
a rule takes above the current graph there is a delivered graph or the current one. With
a path bound this is asked of the graphs within the bound only. An input can
also start at the enumerator directly; those inputs are for the properties of the
enumeration itself.

The path checker is a part of **BackwardStep**, which asks it (`HasPath`, `FindPath`), a
depth-first search: what a call marks it unmarks before it returns, so each call sees the
marks of its own path and the search is a recursive predicate. `IsPath` and `ContainsPath`
are what it is meant to find.

**GraphMinors** defines minors by deletions and contractions, one at a time.
**MinorOrder** is the test that the analysis uses: a counter over injective mappings of the edges, and
for each of them a counter over partitions of what the unmapped edges contract, which
jumps (`IncFrom`). **OldMinorOrder** is the deprecated test by disjoint paths.
**IsomorphismChecker** has the numbers of `SignatureCreater` and the mapping of edges, with
`TakeBack` as in the code. **LEQCheckScenario** is the scenario that compares
each graph of one file with each of another; one action per pair. The subgraph order is the
search of `MatchSearch`; `IsSubgraph`, which only its properties use, says what a subgraph is: an
injective map of the vertices under which each edge has as many images as it has parallels. Beside the pairs it compares
the other two tests as well, so that all three have one instance.

**GTXLWriterXerces** and **GTXLReaderXerces** are functions between graphs,
rules, transformation systems and documents, where a document is a tree of elements. A
reading carries what was read so far and its error, so the order in which the code meets
errors is kept. `UQRuleOf` and what it calls are the reader's hardest parts: a rule with
marked elements is cut into a main rule and its quantifications.
**LeaderElectionRuleCreater** makes a transformation system, **Scenario** has the nine
scenarios with their parameters and synonyms. **Program** is `main.cpp` and each scenario's
`initialize` and `run`: calls of the program follow one another on the same files. What a
scenario computes between reading and writing is a parameter (`Prepared`, `Predecessors`,
`SearchResults`), for the other modules are about it; the matcher is modelled down to the rules it
writes (`MatchRules`). An exception that nobody catches
ends a call with "uncaught".

## 3. Runs

| Run | Question | Instance | Outcome |
|---|---|---|---|
| `mingraphlist` | Does the one-pass `addGraph` implement atomic minimisation? | 6 shapes counting edges of two labels, two of them isomorphic, 5 ids | holds |
| `search` | Is the result exact, is the verdict right, does the search end? | 5 shapes with a chain, an incomparable pair, an isomorphic pair and an unrelated one; all compatible standard rules, six settings of error and initial graphs, bound, quantified rule and ids left | holds |
| `search_initial` | "will stop as soon as an initial graph or a smaller graph was reached" | as `search` | violated |
| `logged` | Do the files account for every graph, in the right step? | 5 shapes, 7 ids | holds |
| `uqinstances` | Is every instance delivered, how often, and does it end? | 3 quantifications, bounds 0 to 4, all choices of no-op parts | holds |
| `hypergraph` | Do index and edges agree, is a merge a quotient? | all histories over 5 ids, 2 labels, arity up to 2 | holds |
| `matches` | All matches, each once; first match decides; undo; end; does `MatchSearch` say what the recursion returns? | all source graphs with 2 vertices and 2 edges and chosen ones with up to 4 vertices, 17 targets, all four modes | holds |
| `matches_injective` | "only injective matches should be returned" | the same | violated |
| `backward_step` | Is the step that the search takes as a parameter right for real rules and graphs, in both orders? Is every complement delivered, each once, and does the enumeration advance? | steps: 8 rules that rewrite, delete, create and glue, 6 graphs, matches injective or conflict-free, path bound none or 1, both orders; 5 quantified rules; completeness against all graphs with up to 3 vertices and 2 or 3 edges. Enumerations: all rules, total or not, between 5 left and 3 right sides, on 2 graphs; rules and graphs of `test/poc_enumeration_tests.cpp`; rules with original rules | holds |
| `leq_check` | Do the three tests that compare graphs decide what they should, are all related pairs reported, which others, and are they counted right? | all graphs with up to 2 vertices and 3 edges and 9 more against 8 bigger ones; cycles and their renumbered copies; every kind of command line | holds |
| `program` | Is what was written read back as the same, is what was not refused a rule, is the created system a leader election? | two calls, 9 scenarios, right and wrong inputs, documents with each possible place damaged; rings of 2 and 3 processes | holds |
| `pocs_mapping` | "Returns the last computed Mapping (from L to the POC)." | one rule that glues two unary edges and three vertices | violated |

**Bounds.** Ids are the only unbounded quantity of the search. In five of the six
settings of `search` there are more than any search on these shapes consumes
(eleven), so `Terminates` is about the loops, not about the bound; in the sixth,
reading graphs has left four, and `ThrowOutOfIDs` fires wherever a graph is
created. Five shapes are the
fewest with a shape below two incomparable ones (one addition removes two), an
isomorphic pair (subsumption without a smaller graph) and an unrelated shape (a
result of several graphs). Two error graphs are enough for an error graph to be
subsumed by another while both are in the todo list. Five ids in `hypergraph`
give two vertices with three edges or three vertices with two edges, which has
parallel edges, loops, paths and the chains of merges that matter. In
`uqinstances` three digits are needed for a digit between the first and the last.
In `backward_step` every enumeration is finite by itself and nothing is bounded but the inputs:
the left sides have two edges or vertices over one of the right side, loose vertices,
and edges that are deleted and parallel or not; the test cases add several classes,
two edges sharing vertices and three deleted vertices. The model delivers on all inputs
of `test/poc_enumeration_tests.cpp` as many complements as the test asks for (up to 847),
those too large for the run included. Two kinds of input are left out of them
because the code is known to fail on them: a glued edge and several vertices over
one (`pocs_mapping`), and edges merged although they share a vertex at different
positions, which would end the enumeration with an exception (see below).
`LoopsApart` in the assumption on the inputs leaves out those of `matches_injective`. The subgraph order
that the two properties of a step are stated in (`IsBelow`) is the true one, not what `SubgraphOrder`
answers for an edge and a loop; no step asks the order.
The rules of the steps have up to three vertices, so three vertices and three edges
are enough for a match beside or over what the current graph needs, and the graphs
include those with a loop and with two tokens on one vertex; the instances of the quantified
rules go up to the bound that the code gives. Minor steps are tried against fewer
graphs, as each needs all its minors.

In `leq_check` two vertices and three edges are the fewest for a contraction that merges
two vertices which further edges then share; the bigger graphs have chains of two
contractible edges (a jump of the odometer past more than one digit), parallel edges, loops, an
edge with three vertices that can be contracted in five ways, and isolated vertices. The
isomorphism check gets cycles of six against two of three, which its numbers cannot
tell apart, so that the mapping itself has to. The graphs for the subgraph order have edges between two vertices
beside loops of the same label, so that the match finder does report a pair that is none.
`PathsFindMinors` is about edges with at most two vertices, as the documentation of the test
says, and leaves out smaller graphs with isolated vertices, which the test by paths does
not look for.

In `program` two calls are enough for each file that one scenario writes to be read by another.
The documents of a quantified rule and of graphs are changed in one place at a time,
every place in turn: an attribute lost, an element lost, an id that another element has. A graph that has lost
the last vertex of an edge is still a graph; the matcher matches it with the undamaged one
in both directions and writes matches that change an arity. Rings of
three processes are the fewest in which a message passes a process of a
smaller number. `MaxSteps` is larger than any run of the protocol on them.

**Deadlock** is not checked where the program ends: a search, an iteration, an
enumeration or a match search that has returned. `AnonHypergraph` never stops.

**Symmetry** is used in `hypergraph` only, on labels, which the code compares for
equality only; that run has no liveness property.

**Fairness.** `WF_vars(Next)` in `BackwardAnalysis`, `UQInstances` and
`StdMatchFinder`: each is one call in one thread that never waits, so it takes a
step whenever it can. Nothing stronger is assumed; the timeout and the order of a
hash set are choices inside a step and are never forced. `PartialPOCEnumerator` has no
fairness: that it ends is stated as an action property instead, `EnumerationAdvances`:
the places of the nested enumerators, taken together, only grow.

### What the runs found

Three statements of the documentation do not hold of the code (`findings` in
`PROJECT.json` has the quotes and lines):

* error graphs are never compared with the initial graphs (`search_initial`);
* an injective search returns non-injective matches of an edge onto a loop
  (`matches_injective`);
* the mapping from the left side into a complement may point to a vertex that is not
  in it (`pocs_mapping`). The graphs delivered are right all the same; if the rule
  deletes an edge at such a vertex, `genTemplates` attaches it to the missing vertex
  and `addEdge` throws.

Remarks, each a place where the code and what is written about it, or what a reader
would expect, differ. The models have all of them as the code does it.

* One prepared instance of a quantified rule is never popped from its
  vector and returned again after every later batch (`PreparedGTS.cpp` 182);
  `OnlyOneIsRepeated` shows it is never more than one, and repeating a rule only costs time.
* A timeout within a backward step keeps what the step has added so far, although the
  message says that the results are discarded (`BackwardAnalysis.cpp` 221), and a search that
  stops early writes no step file for the last step (141 and 153). `KnowledgeGrows` and
  `NoComparableGraphs` hold for both ends.
* `mergeEdges` throws on edges that share a vertex at different positions although
  `AnonHypergraph.h` 354-355 promises exceptions for other reasons only, and then has done half
  of its work; `IndexIsExact` holds also then. `TotalPOCEnumerator` calls it on edges
  matched to one edge, and with non-injective matching a path can be matched to a loop.
* `faststop` given as "false" stops at the first pair, as "true" does
  (`LEQCheckScenario.cpp` 106-107), against the description of the scenario in lines 44-45 and of
  the parameter in lines 59-60. `TotalsAreRight` names the case `StopsUnasked` and then claims
  only that a related pair is reported if there is one.
* The subgraph order of `LEQCheckScenario` takes an edge for a part of a loop, as the match
  finder does. `TotalsAreRight` claims that every related pair is reported, and of the others that one of the
  smaller graph's edges can be folded onto one of the bigger graph's (`MayBeFolded`).
* On two edges with one label and different arities the match finder warns "No Matching possible"
  and accepts the match (`StdMatchFinder.cpp` 233-260). The matcher writes it as a rule, and
  the reader refuses the file with an `XMLioException` (`GTXLReaderXerces.cpp` 881-883):
  `WrittenFilesReadBack` claims that the file is read back unless there is such a
  rule (`ChangesArity`), and that it is refused if there is one.
* The reader takes the mapping of a mapped edge's vertices for granted (comment at
  `GTXLReaderXerces.cpp` 886); where a document does not have it, `out_of_range` leaves the
  program, though `GTXLReader.h` 62 promises `XMLioException`. A transformation
  system without an id, or a rule without one of its sides, gives a null pointer and no exception.
* The loop at `GTXLReaderXerces.cpp` 929 starts at the end of its set. Rules are accepted
  whose main rule still maps into a quantification; the properties on reading name these
  (`IsDangling`) and are about all others.
* The reader accepts a rule with a quantified edge between two vertices that the rule merges,
  though it "checks if a consistent UQRule can be generated" (`GTXLReaderXerces.h` 162) and a
  quantification may not merge what the main rule keeps, which nobody checks (`UQRule.h` 82-83).
  What comes out is a quantified rule whose instances are no rules: their mapping takes an edge
  to one with another end. `AcceptedRulesAreMorphisms` claims nothing of the instances in this case.
* `main` catches the exceptions of `initialize` that are `InitialisationException`: the
  `XMLioException` of the backward step test, the rule preparer test, the matcher and
  the picture converter goes past it.
* Rules with more than 31 vertices or edges on the right end a run with `ERR_SCENARIO_RUN`
  (`RunThrows`).
* `BackwardStepTest` writes `graph<id>.xml` once per rule and keeps the last
  (171), and for an unknown value of `injective` announces the default "false" and
  sets true (109-111). `RulePreparerTest` writes the same rules into its two files, for
  `setOptimization` ignores its argument (`RulePreparer.h` 79). `GTXLtoLatexConverter.cpp` 94
  lacks a negation: "true" is called an invalid value of `compile` and every other one is accepted. Options in a scenario file
  that `main.cpp` 155-159 describes are refused by its parser.

The match finder's flaw bears on the first proofs: with such matches `SubgraphOrder` accepts a
graph as smaller that is not a subgraph, and on graphs with loops it need not be
transitive. The theorems below assume a quasi-order, which `SubgraphOrder` is on
graphs without loops.

## 4. Proofs

`BackwardAnalysisProofs` proves, for every set of
shapes and every quasi-order on them, every rule set and every bound on the ids,
what the run `search` checks (`TypeOK` is checked in `logged`):

| Theorem | Statement |
|---|---|
| `TypeCorrect` | `Spec => []TypeOK` |
| `KnowledgeIsNeverLost` | `Spec => KnowledgeGrows` |
| `ResultIsMinimal` | `Spec => []NoComparableGraphs` |
| `NothingIsForgotten` | `Spec => []NothingForgotten` |
| `UniqueIds` | `Spec => []IdsAreUnique` |
| `ResultExact` | `Spec => []ResultIsExact` |
| `VerdictCorrect` | `Spec => []VerdictIsCorrect` |
| `Refinement` | `Spec => ImplementsCoverability` |

Assumptions: `LeqIsQuasiOrder`, `IDTypeMaxIsPositive` and `InputsAreCompatible`,
each evaluated by TLC in every run of the search. `InputsAreCompatible` is the
contract that the constructor of `BackwardAnalysis` documents; the exactness of
the result would be false without it.

The argument. None of the invariants is inductive alone:

* `ControlState` ties `pc` to the loop variables (an empty enumerator outside
  `applyOne`, no current graph between graphs, `outcome` set exactly at the end).
* `GraphProgress` says of the current graph that each predecessor is represented
  or still to come (`Remaining`), and nothing else is to come. It carries
  `NothingForgotten` through the loops over rules: when the graph is finished,
  nothing remains, so all its predecessors are represented.
* `NothingForgotten` needs that `AddPOC` removes only graphs above the new one,
  which waits in `newGraphs`; represented shapes stay represented
  (`RepresentedStays`, also the heart of `KnowledgeGrows`).
* `IdsBelowNext` makes `IdsAreUnique` inductive, and this makes the `contains` test
  right: a graph skipped by its id really was removed.
* `Traceable`, `HeldRepresented` and `ErrorsRepresented` give both halves of
  exactness: everything held leads to an error, and at a regular end the
  represented shapes are saturated. Compatibility lifts saturation from the minimal
  graphs to their upward closure.
* `InitialUncovered` gives the verdict.
* `Refinement` maps `AddErrorGraph` and `AddPOC` to `Extend`, a subsumed graph and
  the control steps to stuttering, `Terminate` to `Complete`, the early ends to
  `Abort` or to an `Extend` that ends the search.

`MinGraphListProofs` proves what the run of the list checks, for every set of shapes
and quasi-order on them:

| Theorem | Statement |
|---|---|
| `CacheIsExact` | `Spec => []IdsMatchList` |
| `ReasonsLeadToTheList` | `Spec => []DeletionsAreJustified` |
| `PassLosesNothing` | `Spec => NothingLost` |
| `PassIsAtomic` | `Spec => ImplementsMinimalGraphs` |

The inductive invariant is `ListInv`. Besides types, fresh ids and the cache it has
`PassIsRight`: the list is minimal throughout, no graph the iterator has passed is below
or above the new one, and once a graph has been erased none in the whole list is below
it. The last is what the flag `canBeLarger` relies on, and it needs transitivity and that
the list was minimal before (`NothingSmaller`). `MinimalNow` is what the list stands
for during a pass, so that the only step of a pass that is not a stutter is the one that
decides whether the graph is added.

Its second half proves, for every search, that the result files can be trusted
wherever the search stops:

| Theorem | Statement |
|---|---|
| `FilesAreComplete` | `LoggedSpec => []EveryGraphIsAccountedFor` |
| `SourcesLeadBack` | `LoggedSpec => []SourcesAreOneStepBack` |
| `StepFilesAreRight` | `LoggedSpec => []StepFilesMatchGeneration` |
| `ReasonsAreKnown` | `LoggedSpec => []ReasonsCanBeFollowed` |

A logged step is a step of the search, so `TypeOK`, `ControlState` and `IdsAreUnique`
carry over. Every step is either `Quiet` or has `Consumed` one id (`StepsOfTheFiles`): then
the graph with that id is in the list or deleted afterwards, and so is every graph
that was, and no graph is both, because ids are unique. What the enumerator reports is
`GenerationStep`. `ErrorsComeFirst` separates the ids of the error graphs from the
generated ones, `HeldByStep` says of which step the graphs in each vector are, and
`StepFilesInOrder` that a file is written once, at the end of its step.

`UQInstancesProofs` proves, for every number of quantifications and every bound:

| Theorem | Statement |
|---|---|
| `OneIsRepeated` | `Spec => []OnlyOneIsRepeated` |
| `AllAreDelivered` | `Spec => []AllInstancesDelivered` |

Which one it is says `RepeatedIsFirst`: the one at the bottom of the stack, which
`NextStored` never takes off. That all others come once needs two things. Instances that are stored
together differ, and those above the bottom have not been returned (`StoredInstances`). What a new
round prepares differs from everything before: `BehindOdometer` says that all of it comes
before the odometer in the order in which it counts, on the digits from `curIt` on
while a digit is carried, and on all digits else. `CountedIsNew` is the step that this is for.

That none within the bound is left out is `NoneMissed`: what lies before the odometer has
been returned, is stored, or gives no rule. A carry passes over vectors that the size of
the graph rules out, and with them over all greater ones: the size is a sum over the quantifications, which
grows with each of them (`SumIsMonotone`, from `SumRecursion`). `LowDigitsAreZero` makes the
vectors that a carry jumps over exactly those.

`AnonHypergraphProofs` proves, for all labels, arities and numbers of ids:

| Theorem | Statement |
|---|---|
| `IndexStaysExact` | `Spec => []IndexIsExact` |
| `MergesAreQuotients` | `Spec => ImplementsQuotient` |
| `ParallelEdgesMayBeDeleted` | `Spec => []ParallelMergeIsDeletion` |

The inductive invariant `IndexInv` says that the graph is the one its vertices and edges
determine (`Indexed`). Every operation takes such graphs to such graphs, which for
`deleteVertex` and `mergeVertices` is the point: they change only the edges that the
index names. A sequence of merges is followed by a map `r` from the vertices it began with
to those that stand for them now (`QuotientBy`). `JoinLemma` is one merge; `JoinIdentifies`
shows that the new `r` identifies the pair and no more than any map would that
identifies what was asked for; `MergedPositionsLemma`, `EdgeSetLemma` and `VertexSetLemma` carry this
through the loops over positions, edges and vertices, wherever these stop. So a merge that
throws half-way leaves a quotient, too, by fewer pairs (`MergeEdgesPartly`). No run checks
`ParallelMergeIsDeletion`, which the theorem settles.

`StdMatchFinderProofs` proves, for all pairs of graphs:

| Theorem | Statement |
|---|---|
| `SharedStateBelongsToCalls` | `Spec => []SharedStateIsUndone` |
| `FirstMatchIsDecisive` | `Spec => []FirstMatchDecides` |
| `EveryMatchIsFoundOnce` | `Spec => []AllMatchesFound` |

`SearchInv` says of each running call that what it noted to take back is what
it added (`CallIsOpen`) and that its mapping fits (`CallIsRight`), and that the shared
structures are those of the running calls. The reverse mapping is the delicate
one: a call erases what it entered, and that no entry of an earlier call was
overwritten follows from `ImagesAreOfOneCall`. `NothingIsLost` says that each match that has not
been found is still to come: it agrees with the running calls up to some call and has
its target for the next edge among those left (`IsPending`). That needs `MatchIsCandidate`, a match
maps an edge to one of the few edges the search looks at, and `MatchIsPossible`. A
match of all edges extends to the isolated vertices because there are enough others left
(`EnoughFreeVertices`): this is where the comparison of the sizes at the start is needed.

That nothing comes twice is `NothingComesTwice`, the converse of `NothingIsLost`: two
mappings that were found differ on an edge (`FoundApart`), none of them is still to come, and no
call has its current target again (`FoundIsPast`). A step never makes something pending
that was not. The extensions of the mappings to the isolated vertices are then
disjoint, and those of one mapping are exactly the wanted matches that agree with it on the edges
(`ExtendedFacts`). An injective search takes the injective ways one by one from a
set (`FoldFacts`). The other counts with an odometer: its vectors are ordered by the last
digit in which they differ, `CountUp` leads to the next one (`CountUpIsNext`), so each comes
once (`VectorsFacts`), and a vector is a way to send the isolated vertices
(`DigitsAreChoices`). `FlattenFacts` puts the lists together.

`LEQCheckScenarioProofs` proves, for all files of graphs and all command lines:

| Theorem | Statement |
|---|---|
| `IsomorphismCheckIsComplete` | isomorphic graphs whose labels have the same arities pass `AreIsomorphic` |
| `IsomorphicGraphsAreRecognisedAlways` | `Spec => []IsomorphicGraphsAreRecognised` |
| `TotalsOfTheComputedOrder` | `Spec => []ComputedTotals` |
| `TotalsAreRightAlways` | `Spec /\ []MinorOrderIsExact => []TotalsAreRight` |
| `SubgraphTotalsAreRight` | `Spec => [](parameters.order # "minor" => TotalsAreRight)` |

Assumptions: the files hold hypergraphs (ids are numbers, vertices and edges have different
ids, edges end at vertices, both sets are finite) on whose labels all graphs agree about the
arity (`GraphFilesAssumption`), and labels consist of character codes
(`CharCodesAssumption`). On two edges with one label and different arities the isomorphism check only
writes a warning (`IsomorphismChecker.cpp` 120-127), as the match finder does, and reads past
the end of a vector.

The isomorphism check has two halves. An isomorphism carries the numbers over: what a
number is made of are sums over edges and places, and a bijection keeps sums
(`SumUnderBijection`). So both graphs are refined in step for as many rounds
(`SignaturesCorrespond`), and the edge that an isomorphism chooses is among the
candidates. The search is the other half. It takes back with a failed edge
all vertices the edge met, also those that an edge before it had mapped, so its
mapping does not stay what the running calls made of it. The proof shows that this does
no harm: what a failed attempt leaves differs from what it began with only by
vertices that are no longer mapped (`Shrinks`), never by another image and never in an
edge (`KeepsEdges`). A mapping that agrees with an isomorphism as far as it goes
(`Fits`) therefore still does so after a failure (`ShrunkFits`), and the attempt at the isomorphism's edge
succeeds unless an earlier one has (`TryCandidatesFinds`). The induction over the
edges behind the current one is `InductionUpTo`: `MapAll` is a recursive
function on the number of edges left. That the check only accepts isomorphic graphs is
*not* claimed: with vertices taken back too early it need not be so.

`TotalsInv` is the inductive invariant of the two loops: the pairs reported are those the order
holds for among the pairs compared (`ReportedSoFar`), both numbers are their cardinalities, and
`newGraph` is set exactly while the current graph has no pair yet
(`CountedSoFar`). `ComputedTotals` follows for whatever order was computed. What remains is what
the two orders answer. That the minor order is right is `MinorOrderIsExact`, which compares two
computations and is model-checked only: `TotalsAreRightAlways` has it as a hypothesis along the
behaviour, and `ExactSoFar` collects it pair by pair.

Of the subgraph order nothing is assumed. A subgraph gives a mapping of edges and vertices
that sends no two edges to one (`SubgraphEmbeds`): parallel edges are counted off against those of the
bigger graph. A call of the search whose choices agree with such an embedding has
the target of its next edge among those that the search looks at, since the edge is next to a mapped
vertex or new (`FollowsOn`). So there is such a call on every level (`NextLevelFacts`), and in the end
room for the isolated vertices (`EmbeddingIsFound`): the search finds a match whenever there is a
subgraph, in whatever order it takes the edges (`SubgraphOrderFinds`). The other way, a call
keeps labels and ends of all edges it has mapped and takes no target twice
(`NextLevelFacts`), and when no edge of one graph can be folded onto an edge of the other it is injective
on vertices, too (`FoundIsEmbedding`, `EmbeddedIsSubgraph`). So what is reported without being related
is in `MayBeFolded` (`Accepted`, `FoldedPairs`), and `ExactTotals` puts it together.

`ProgramProofs` proves, for all command lines and all scenarios:

| Theorem | Statement |
|---|---|
| `AcceptedRulesAreMorphismsAlways` | `Spec /\ []FilesAreDocuments => []AcceptedRulesAreMorphisms` |

`FilesAreDocuments` says of what is on the disk that it consists of elements whose children
are a vector of such elements. Nothing is said of names, attributes, texts or references: the
rules in it may be damaged in any way, the graphs may lack what an attribute refers to. This
much is what the XML parser hands out, whatever a file has in it, and the writers of `GTXLWriterXerces` put documents together with
`Element` only; it is a hypothesis along the behaviour because what `Predecessors`,
`Prepared` and `SearchResults` hand to the writers are constants. The reader takes these
elements apart with the loops of the code, so the proof follows it inwards:

* *Graphs.* `IsGraph` (ids up to `lastUsedID`, edges end at vertices) holds of whatever
  `ReadAnonHypergraph` returns without an error, since an edge's ends go through
  `nodeIDList`, which has vertices only.
* *Rules.* `ReadMapping` enters anything; what makes the mapping one that keeps labels and ends
  (`Preserves`) is `checkConsistency` alone (`CheckedElementFacts`, `CheckedMappingFacts`).
* *Quantifications.* `ConvertToQuant` takes elements out of both sides. What it took is a copy
  (`IsCopy`), what it left the rest (`IsRest`), and a map between originals is one between copies
  (`BetweenCopiesFacts`). After some quantifications the main rule is the read rule without
  their elements (`Made`); that the rest still maps into the rest is the claim where the code's
  loop at line 929 goes wrong, hence `~ IsDangling`.
* *Instances.* `ExtendRuleByUQ` puts a quantification back: first its right side
  (`RightExtended`), then its left (`LeftExtended`). An edge on the left keeps its ends because
  what the quantification shares with the main rule goes where the rule takes it
  (`SharedGoesAlong`), and that needs `MergesNothingShared`, the condition of `UQRule.h` 82-83.

`RulesAreLoaded` is the inductive invariant of the program: a scenario is known from
`LoadScenario` on, and while it runs what it has loaded as GTS has only such rules. All steps but
`Initialize` end a call or lead to a phase before it. The twenty-three kinds of loops
share one induction: `LoopKeepsInvariant` of `SequenceLemmas`, instantiated with
the bodies (`LoopStep`) and what holds after i rounds (`LoopState`), told apart by a name.

`SequenceLemmas` states the facts about `Range`, `Append`, `Front`, `Last`, `Tail` and
removing an element that these proofs cite, and what takes the place of
induction: a set of numbers has a least one (`LeastNatural`), a set of subsets that
contains the empty one and is closed under putting an element back has them all
(`SubsetInduction`), and the recursive function behind a fold exists and obeys its equation
(`RecursionOnSubsets`, `RecursionOnNumbers`, `LoopHasResult`), what is kept by each round of a
loop holds after it (`LoopKeepsInvariant`), and what holds at zero and is kept by each
step holds up to a number (`InductionUpTo`). From these come the facts about a vector of
vectors (`FlattenFacts`) and the functions between finite sets (`FunctionsAreFinite`).

### Only model-checked

* `Terminates`, and the liveness properties of the other modules: liveness under
  fairness is outside the prover's reach. Termination also needs the order to be
  a well-quasi-order, here a finite set of shapes.
* `MinorOrderIsExact` and `PathsFindMinors`: each compares an odometer over contractions or paths with
  the minors by definition, for every graph; both sides are recursions over
  data, and the odometer jumps.
* The complements (`EveryComplementRewrites`, `AllComplementsFound`, `EnumerationAdvances`), the backward
  step (`StepIsSound`, `StepIsComplete`) and the round trips of the files (`WrittenFilesReadBack`,
  `OneInstanceIsTheReadRule`): they compare two recursive computations for all inputs. `BackwardStep`
  and `RulePreparers` moreover search with `RECURSIVE` operators (`FindPath`,
  `ReachedByContraction`), which the prover's arithmetic does not survive. So the contract that
  the proofs of the search assume is itself checked on small instances only.
* `AtMostOneLeader` is a reachability computation over one rule set.

## 5. Not modelled

* Console logging, and what `LatexExporter` and `GraphDrawer` write: layout, on which nothing
  depends. That they write a file over another one is in `Program`.
* Memory management: moved-from iterators and enumerators, leaked lists and orders,
  pointers thrown as exceptions. It is below the level of the models; the hazards without
  a property name the places.
* Injective searches between graphs in which a label has two arities (`IsUndoExact` in
  `Program`): a search that has read past the end of a vector may enter a vertex twice in the reverse
  mapping, and then takes back what an edge before it had entered, so that what it returns is no longer
  that of `MatchSearch`. Searches that need not be injective have no reverse mapping.
* What lies behind the end of a vector is one value per run of the matcher, not one per read.
* The tests and their generators, which are a reference for the models.

## 6. Plan

Done in this order: the list and the search (the core of the tool), its proofs, the
result files, the quantified rules, the graph structure, the match finder, the
complements, the rule preparation and the backward step for subgraphs; then the orders
and the backward step for minors, path bounds and quantified rules, the
isomorphism check, the files and the scenarios. Left:

1. The search over real graphs: `BackwardAnalysis` with the backward steps and the order
   in place of its constants, on one small system. Its two halves meet in `Compatible`,
   which one assumes and the other checks.
2. Proofs: the path checker and the complements by the induction over loops of
   `SequenceLemmas`; the backward step after `FindPath` and `ReachedByContraction` are
   recursive functions.
