---------------------------- MODULE LoggedAnalysis ----------------------------
(***************************************************************************)
(* analysis/InstantWriterResultHandler at extent FULL: what its calls add  *)
(* to the generation and deletion files and to the graph file of a step.   *)
(* A line of a file is a record with the number of the backward step it    *)
(* was written in; the order of lines inside a step is left out.           *)
(*                                                                         *)
(* And the backward search with it: the enumerator reports every graph it  *)
(* generates and every graph over its path bound, MinGraphList every graph *)
(* it rejects or drops, performAnalysis the steps.  The enumerator creates *)
(* and reports a graph when it moves to it, which is before addGraph sees  *)
(* it: at resetWith for the first one and at ++ for the others.            *)
(***************************************************************************)
EXTENDS BackwardAnalysis

VARIABLES
  generation,         \* generation.txt: [step, id, rule, from]
  deletion,           \* deletion.txt: [step, id, reason]
  currentStepGraphs,  \* ids of the graphs kept for the file of this step
  stepnr,             \* number of the current backward step
  stepFiles           \* graphs-step<n>.xml: the ids in it, for every n written

handler == <<generation, deletion, currentStepGraphs, stepnr, stepFiles>>

NonValid == 0   \* "non-valid" in place of a reason; no graph has this id

HandlerInit ==
  /\ generation = {} /\ deletion = {}
  /\ currentStepGraphs = {} /\ stepnr = 0
  /\ stepFiles = [n \in {} |-> {}]

\* wasDeletedBecauseOf for every pair <<deleted, reason>>
wasDeletedBecauseOf(pairs) ==
  deletion' = deletion \cup {[step |-> stepnr, id |-> p[1], reason |-> p[2]] : p \in pairs}

wasNoValidGraph(id) == wasDeletedBecauseOf({<<id, NonValid>>})

wasGeneratedByFrom(id, rule, from) ==
  /\ generation' = generation \cup {[step |-> stepnr, id |-> id, rule |-> rule, from |-> from]}
  /\ currentStepGraphs' = currentStepGraphs \cup {id}

startingNewBackwardStep ==
  /\ stepnr' = stepnr + 1
  /\ UNCHANGED <<generation, deletion, currentStepGraphs, stepFiles>>

finishedBackwardStepKeepsGraphs ==
  /\ stepFiles' = [n \in DOMAIN stepFiles \cup {stepnr} |->
                     IF n = stepnr THEN currentStepGraphs ELSE stepFiles[n]]
  /\ UNCHANGED <<generation, deletion, currentStepGraphs, stepnr>>
finishedBackwardStep ==
  /\ stepFiles' = [n \in DOMAIN stepFiles \cup {stepnr} |->
                     IF n = stepnr THEN currentStepGraphs ELSE stepFiles[n]]
  /\ currentStepGraphs' = {}
  /\ UNCHANGED <<generation, deletion, stepnr>>

-----------------------------------------------------------------------------
(* The search with the handler                                             *)

VARIABLE ruleID   \* the rule the enumerator was last reset with

allVars == <<vars, handler, ruleID>>

LoggedInit == Init /\ HandlerInit /\ ruleID \in StdRules

\* The sets of pairs addGraph(g) may report when the list holds S: g and the graph that
\* subsumes it (the first in the order of the list, which is left open), or every
\* graph that g replaces.
ReportedSwapped(S, g) ==
  IF Subsumed(S, g)
  THEN {{<<g.id, h.id>>} : h \in {h \in S : IsLessOrEq(h, g)}}
  ELSE {{<<g.id, h.id>> : h \in {h \in S : IsLessOrEq(g, h)}}}
Reported(S, g) ==
  IF Subsumed(S, g)
  THEN {{<<g.id, h.id>>} : h \in {h \in S : IsLessOrEq(h, g)}}
  ELSE {{<<h.id, g.id>> : h \in {h \in S : IsLessOrEq(g, h)}}}

ReportAddGraph(g) == \E pairs \in Reported(minimalGraphs, g) : wasDeletedBecauseOf(pairs)

\* The enumerator has moved to a new graph, if there is one and an id for it.
ReportGenerated ==
  IF pc' = "applyOne" /\ pocs' # <<>> /\ nextID' \in IDType
  THEN wasGeneratedByFrom(nextID', ruleID', currentGraph'[1].id)
  ELSE UNCHANGED <<generation, currentStepGraphs>>

LoggedAddErrorGraph ==
  /\ AddErrorGraph
  /\ ReportAddGraph([id |-> nextID, shape |-> input.errors[Len(todoGraphs) + 1]])
  /\ UNCHANGED <<generation, currentStepGraphs, stepnr, stepFiles, ruleID>>

LoggedStartBackwardStep ==
  StartBackwardStep /\ startingNewBackwardStep /\ UNCHANGED ruleID

LoggedFinishBackwardStep ==
  FinishBackwardStep /\ finishedBackwardStep /\ UNCHANGED ruleID

LoggedApplyStdRule(r) ==
  /\ ApplyStdRule(r) /\ ruleID' = r
  /\ ReportGenerated
  /\ UNCHANGED <<deletion, stepnr, stepFiles>>

LoggedBeginUQRule(u) == BeginUQRule(u) /\ ruleID' = u /\ UNCHANGED handler

LoggedApplyInstance ==
  /\ ApplyInstance
  /\ UNCHANGED <<ruleID, deletion, stepnr, stepFiles>>
  /\ ReportGenerated

LoggedDropInvalidPOCSilently ==
  /\ DropInvalidPOC
  /\ UNCHANGED <<ruleID, deletion, stepnr, stepFiles>>
  /\ ReportGenerated
LoggedDropInvalidPOC ==
  /\ DropInvalidPOC
  /\ wasNoValidGraph(nextID)
  /\ UNCHANGED <<ruleID, stepnr, stepFiles>>
  /\ ReportGenerated

LoggedSubsumedPOC ==
  /\ SubsumedPOC
  /\ ReportAddGraph(Enumerated)
  /\ UNCHANGED <<ruleID, stepnr, stepFiles>>
  /\ ReportGenerated

LoggedAddPOC ==
  /\ AddPOC
  /\ ReportAddGraph(Enumerated)
  /\ UNCHANGED <<ruleID, stepnr, stepFiles>>
  /\ ReportGenerated

Unlogged ==
  /\ \/ ErrorGraphsAdded \/ Terminate \/ SkipGraph \/ ProcessGraph \/ FinishGraph
     \/ EndApplyOne \/ ThrowOutOfIDs
  /\ UNCHANGED <<handler, ruleID>>

LoggedNext ==
  \/ LoggedAddErrorGraph \/ LoggedStartBackwardStep \/ LoggedFinishBackwardStep
  \/ \E r \in StdRules : LoggedApplyStdRule(r)
  \/ \E u \in UQRules : LoggedBeginUQRule(u)
  \/ LoggedApplyInstance
  \/ LoggedDropInvalidPOC \/ LoggedSubsumedPOC \/ LoggedAddPOC
  \/ Unlogged

LoggedSpec == LoggedInit /\ [][LoggedNext]_allVars

-----------------------------------------------------------------------------
(* Properties *)

DeletedIds == {d.id : d \in deletion}
GeneratedIds == {l.id : l \in generation}
ResultIds == {g.id : g \in minimalGraphs}

\* The ids of the error graphs that have been created.
ErrorIds ==
  {i \in input.firstID .. input.firstID + Len(input.errors) - 1 : i < nextID}

\* The graph the enumerator is at, not seen by addGraph yet.
AtHand == IF pc = "applyOne" /\ pocs # <<>> THEN {nextID} ELSE {}

\* The files account for every graph exactly once.  A graph that was generated
\* or given is in the result, or deletion.txt says why not, or it is the one the
\* enumerator is at; never two of these.
EveryGraphIsAccountedFor ==
  /\ (GeneratedIds \cup ErrorIds) \ AtHand = DeletedIds \cup ResultIds
  /\ DeletedIds \cap ResultIds = {}
  /\ AtHand \cap IDType \subseteq GeneratedIds

\* The graph was generated in step n, or was given if n = 0.
FromStep(id, n) ==
  IF n = 0 THEN id \in ErrorIds ELSE \E k \in generation : k.id = id /\ k.step = n

\* generation.txt lets a reader walk from any graph back to an error graph: the
\* source of a graph generated in step n is an error graph if n = 1 and was
\* generated in step n - 1 otherwise.
SourcesAreOneStepBack ==
  \A l \in generation : l.step >= 1 /\ FromStep(l.from, l.step - 1)

\* Each graph is in the file of the step that generated it, and in no other.
StepFilesMatchGeneration ==
  \A l \in generation :
    /\ \A n \in DOMAIN stepFiles : l.id \in stepFiles[n] <=> n = l.step
    /\ l.step \notin DOMAIN stepFiles => l.id \in currentStepGraphs /\ l.step = stepnr

\* A graph deleted for a reason was deleted for one that is in the result or was
\* deleted itself: following the reasons never leaves the files.
ReasonsCanBeFollowed ==
  \A d \in deletion : d.reason = NonValid \/ d.reason \in ResultIds \cup DeletedIds

-----------------------------------------------------------------------------
(* Why these hold *)

InsideStep == pc \in {"graphs", "rules", "applyOne"}

\* The error graphs get the first ids, and nothing else gets one before they have.
ErrorsComeFirst ==
  /\ pc = "adding" => /\ nextID = input.firstID + Len(todoGraphs)
                      /\ Len(todoGraphs) <= Len(input.errors)
  /\ pc = "rounds" \/ InsideStep => nextID >= input.firstID + Len(input.errors)

\* No line of generation.txt is ahead of the graph the enumerator is at.
GeneratedIdsAreUsed ==
  /\ GeneratedIds \subseteq IDType
  /\ \A i \in GeneratedIds : i < nextID \/ i \in AtHand

\* The graphs that wait to be processed are those of the step before, the new
\* ones those of this step.
HeldByStep ==
  /\ stepnr \in Nat
  /\ pc = "adding" => stepnr = 0
  /\ InsideStep => stepnr >= 1
  /\ pc # "done" =>
       /\ \A g \in Range(newGraphs) : FromStep(g.id, stepnr)
       /\ \A g \in Range(todoGraphs) : FromStep(g.id, IF InsideStep THEN stepnr - 1 ELSE stepnr)
       /\ \A g \in Range(currentGraph) : FromStep(g.id, stepnr - 1)
       /\ \A i \in AtHand \cap IDType : FromStep(i, stepnr)

\* Every step has one file, written at its end from the graphs kept until then.
StepFilesInOrder ==
  /\ \A n \in DOMAIN stepFiles :
       n \in Nat /\ n <= stepnr /\ \A i \in stepFiles[n] : i \in IDType /\ i < nextID
  /\ InsideStep => stepnr \notin DOMAIN stepFiles
  /\ pc \in {"adding", "rounds"} => currentStepGraphs = {}
  /\ currentStepGraphs \subseteq GeneratedIds
  /\ \A l \in generation : l.id \in currentStepGraphs => l.step = stepnr

=============================================================================
