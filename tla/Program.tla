-------------------------------- MODULE Program --------------------------------
(***************************************************************************)
(* main.cpp and the scenarios: calls of the program one after another,     *)
(* each with a command line, on files that the calls before it have left.  *)
(* What a scenario reads and writes goes through the reader and the writer *)
(* of documents; what it computes in between is a parameter here and the   *)
(* subject of the other modules.                                           *)
(***************************************************************************)
EXTENDS LeaderElectionRuleCreater, Scenario, MatchSearch

CONSTANTS
  GivenFiles,           \* the documents on the disk before the first call
  Folders,              \* the folders that exist
  ConfigFiles,          \* scenario files: for each its words, or that it has an unknown key
  CommandLines,         \* [options, usage, level, scn, scnFile]
  Numerals,             \* the values that lexical_cast takes for numbers
  MaxCalls,             \* a bound on the number of calls
  MaxSteps,             \* a bound on the steps of a created leader election that are looked at
  Prepared(_, _),       \* the rules that a rule is prepared to, for an order
  Predecessors(_, _),   \* what a prepared rule leads back to from a graph
  SearchResults(_)      \* the graphs that a search from some error graphs may end with

\* An option that is not given.
Absent == "absent"

ASSUME CommandLinesAssumption ==
  \A c \in CommandLines : DOMAIN c = {"options", "usage", "level", "scn", "scnFile"}

VARIABLES
  files,        \* the documents that calls have written, over those that were given
  phase,        \* "idle", "parsing", "loading", "initializing" or "running"
  command,
  scenario,     \* what is known of the scenario; a set with one element or none
  input,        \* what was given to it
  parameters,
  loaded,       \* the GTS and the graphs that it has read, and the next id of a graph
  exit,         \* the exit code of the last call, or that an exception left main
  calls,
  contents      \* for each document that was written, what it was written for

vars == <<files, phase, command, scenario, input, parameters, loaded, exit, calls, contents>>

Nothing == [gts |-> <<>>, graphs |-> <<>>, nextID |-> 1, error |-> "none"]

Init ==
  /\ files = <<>>
  /\ phase = "idle"
  /\ command = Absent
  /\ scenario = {}
  /\ input = <<>>
  /\ parameters = <<>>
  /\ loaded = Nothing
  /\ exit = "none"
  /\ calls = 0
  /\ contents = <<>>

FileSystem == files @@ GivenFiles

End(code) ==
  /\ phase' = "idle"
  /\ exit' = code

-----------------------------------------------------------------------------
(* Parsing of the command line                                             *)

\* tokenizeAndAddNE: the words between spaces that are not empty.
Tokens(words) == SelectSeq(words, LAMBDA w : w.key # "" \/ w.value # "")

ScenarioInput(c) ==
  IF c.scnFile \notin DOMAIN ConfigFiles THEN c.scn
  ELSE Tokens(c.scn \o ConfigFiles[c.scnFile].words)

\* A call after the first reads something that was written.
Reads(c, f) == \E i \in DOMAIN ScenarioInput(c) : ScenarioInput(c)[i].value = f

Call ==
  /\ phase = "idle"
  /\ calls < MaxCalls
  /\ \E c \in CommandLines :
       /\ calls > 0 => \E f \in DOMAIN files : Reads(c, f)
       /\ command' = c
  /\ phase' = "parsing"
  /\ exit' = "none"
  /\ calls' = calls + 1
  /\ scenario' = {}
  /\ input' = <<>>
  /\ parameters' = <<>>
  /\ loaded' = Nothing
  /\ UNCHANGED <<files, contents>>

\* An unknown option, a value that is no number, a list without a value, a configuration that
\* is missing or has another key than an option.
IsMalformed ==
  \/ "unknown" \in command.options
  \/ command.level \notin {Absent} \cup DOMAIN Numerals
  \/ command.scnFile = Absent /\ "scn" \in command.options /\ command.scn = <<>>
  \/ \E f \in {command.scnFile} \ {Absent} : f \in DOMAIN ConfigFiles => ConfigFiles[f].unknownKey

RefuseOptions ==
  /\ phase = "parsing"
  /\ IsMalformed
  /\ End("ERR_UNKNOWN_PARAMETER")
  /\ UNCHANGED <<files, command, scenario, input, parameters, loaded, calls, contents>>

\* Help, version and the list of scenarios go before the usage of one scenario.
PrintInformation ==
  /\ phase = "parsing"
  /\ ~ IsMalformed
  /\ \/ /\ command.options \cap {"help", "version", "scenarios"} # {}
        /\ End("NO_ERROR")
     \/ /\ command.options \cap {"help", "version", "scenarios"} = {}
        /\ command.usage # Absent
        /\ End(IF FoundScenarios(command.usage) = {} THEN "ERR_SCENARIO_UNKNOWN" ELSE "NO_ERROR")
  /\ UNCHANGED <<files, command, scenario, input, parameters, loaded, calls, contents>>

TakeInput ==
  /\ phase = "parsing"
  /\ ~ IsMalformed
  /\ command.options \cap {"help", "version", "scenarios"} = {} /\ command.usage = Absent
  /\ LET words == ScenarioInput(command)
     IN IF words = <<>> \/ Head(words) = [key |-> "", value |-> ""]
        THEN End("ERR_NO_SCENARIO") /\ UNCHANGED input
        ELSE phase' = "loading" /\ input' = words /\ UNCHANGED exit
  /\ UNCHANGED <<files, command, scenario, parameters, loaded, calls, contents>>

LoadScenario ==
  LET name == Head(input)
      found == IF name.key = "" THEN FoundScenarios(name.value) ELSE {}
  IN /\ phase = "loading"
     /\ scenario' = found
     /\ input' = Tail(input)
     /\ IF found = {} THEN End("ERR_SCENARIO_UNKNOWN") ELSE phase' = "initializing" /\ UNCHANGED exit
     /\ UNCHANGED <<files, command, parameters, loaded, calls, contents>>

-----------------------------------------------------------------------------
(* Initialisation of a scenario: first its files, in their order           *)

TheScenario == CHOOSE s \in scenario : TRUE

ScenarioIs(name) == \E s \in scenario : s.name = name

Given(p, key, value) == key \in DOMAIN p /\ p[key] = value

WithRead(l, field, read) ==
  [l EXCEPT ![field] = Append(@, read), !.nextID = read.nextID, !.error = read.error]

LoadGTS(l, disk, filename) == WithRead(l, "gts", ReadGTXL(disk, filename, l.nextID))

LoadGraphs(l, disk, filename) == WithRead(l, "graphs", ReadGXL(disk, filename, l.nextID))

LoadedGTS(disk, p) == Each(LAMBDA l, key : LoadGTS(l, disk, p[key]), Nothing, TheScenario.gtsFile)

LoadedFrom(disk, p) ==
  Each(LAMBDA l, key : LoadGraphs(l, disk, p[key]), LoadedGTS(disk, p), TheScenario.graphFiles)

GTSOf(l) == l.gts[1].gts
IsNullGTS(l) == ~ l.gts[1].isSet

\* 'injective', or its alias; everything else means conflict-free.
InjectiveMatching(p) == Given(p, "matching", "injective") \/ Given(p, "matching", "inj")

\* subgraph[n] and subgraph[-].
IsSubgraphOrder(order) == order \in {"subgraph[3]", "subgraph[-]"}

\* Each scenario's own initialize with its files at hand: the error that it ends with.
InitializeBackwardAnalysis(p, l) ==
  LET order == p["order"]
      looksAtGTS == order = "minor" \/ ~ InjectiveMatching(p)
  IN CASE order # "minor" /\ ~ IsSubgraphOrder(order) -> "InitialisationException"
       [] looksAtGTS /\ IsNullGTS(l) -> "null"
       [] looksAtGTS /\ GTSOf(l).uqRules # <<>> -> "InitialisationException"
       [] OTHER -> "none"

\* This one looks at the GTS before it reads the graphs.
MissesGTS(l) == ScenarioIs("test_backward_step") /\ l.gts[1].error = "none" /\ IsNullGTS(l)

InitializeBackwardStepTest(p) ==
  IF p["order"] \in {"minor", "subgraph"} THEN "none" ELSE "InitialisationException"

InitializeLEQCheck(p) ==
  IF p["order"] \in {"minor", "subgraph"} THEN "none" ELSE "InitialisationException"

InitializeLeaderElection(p) ==
  IF p["count"] \in DOMAIN Numerals /\ Numerals[p["count"]] > 0 THEN "none"
  ELSE "InitialisationException"

\* These turn the reader's own exception into theirs.
CatchesXMLioException ==
  ScenarioIs("backward_analysis") \/ ScenarioIs("leq_check") \/ ScenarioIs("gtxl_latex_converter")

InitializationError(p, l) ==
  CASE MissesGTS(l) -> "InitialisationException"
    [] ~ MissesGTS(l) /\ l.error # "none" ->
         IF l.error = "XMLioException" /\ CatchesXMLioException THEN "InitialisationException" ELSE l.error
    [] ScenarioIs("backward_analysis") -> InitializeBackwardAnalysis(p, l)
    [] ScenarioIs("test_backward_step") -> InitializeBackwardStepTest(p)
    [] ScenarioIs("leq_check") -> InitializeLEQCheck(p)
    [] ScenarioIs("le_rule_creator") -> InitializeLeaderElection(p)
    [] OTHER -> "none"

InitializationEnds(error) ==
  CASE error = "none" -> phase' = "running" /\ UNCHANGED exit
    [] error = "InitialisationException" -> End("ERR_SCENARIO_INIT")
    [] OTHER -> End("uncaught")

Initialize ==
  /\ phase = "initializing"
  /\ IF ~ InputIsLegal(TheScenario, input)
     THEN End("ERR_SCENARIO_INIT") /\ UNCHANGED <<parameters, loaded>>
     ELSE /\ parameters' = ParametersOf(TheScenario, input)
          /\ loaded' = LoadedFrom(FileSystem, parameters')
          /\ InitializationEnds(InitializationError(parameters', loaded'))
  /\ UNCHANGED <<files, command, scenario, input, calls, contents>>

-----------------------------------------------------------------------------
(* Running                                                                 *)

\* The documents as a scenario leaves them, with what they were written for.
Disk == [files |-> files, contents |-> contents, error |-> "none"]

SaveGXL(disk, filename, graphs) ==
  [disk EXCEPT !.files = (filename :> WriteGXL(graphs)) @@ @,
               !.contents = (filename :> [kind |-> "gxl", content |-> graphs]) @@ @]

SaveGTXL(disk, filename, gts) ==
  [disk EXCEPT !.files = (filename :> WriteGTXL(gts)) @@ @,
               !.contents = (filename :> [kind |-> "gtxl", content |-> gts]) @@ @]

\* A LaTeX, dot or picture file.
SavePicture(disk, filename) ==
  [disk EXCEPT !.files = (filename :> Element("picture", <<>>, <<>>)) @@ @,
               !.contents = Restrict(@, DOMAIN @ \ {filename})]

Running(name) == phase = "running" /\ ScenarioIs(name)

\* prepareRule refuses rules with more vertices or edges on the right.
MaxRightSide == 31

IsTooLarge(rule) ==
  Cardinality(rule.right.vertices) > MaxRightSide \/ Cardinality(DOMAIN rule.right.edges) > MaxRightSide

\* The scenarios that prepare the rules do so before they write anything.
PreparationFails ==
  /\ ScenarioIs("backward_analysis") \/ ScenarioIs("test_backward_step") \/ ScenarioIs("test_rule_preparer")
  /\ ~ IsNullGTS(loaded)
  /\ \E rule \in Range(GTSOf(loaded).stdRules) : IsTooLarge(rule)

RunEnds(disk) ==
  /\ ~ PreparationFails
  /\ files' = disk.files
  /\ contents' = disk.contents
  /\ End(IF disk.error = "none" THEN "NO_ERROR" ELSE "uncaught")
  /\ UNCHANGED <<command, scenario, input, parameters, loaded, calls>>

\* main catches a RunException.
RunExceptionEnds ==
  /\ End("ERR_SCENARIO_RUN")
  /\ UNCHANGED <<files, command, scenario, input, parameters, loaded, calls, contents>>

RunThrows ==
  /\ phase = "running"
  /\ PreparationFails
  /\ RunExceptionEnds

\* Another exception of run, or a GTS that is no object.
RunFails ==
  /\ phase = "running"
  /\ \/ scenario # {} /\ TheScenario.gtsFile # <<>> /\ IsNullGTS(loaded)
     \/ /\ ScenarioIs("gxl_pic_converter")
        /\ ReadGXL(FileSystem, parameters["filename"], 1).error # "none"
  /\ End("uncaught")
  /\ UNCHANGED <<files, command, scenario, input, parameters, loaded, calls, contents>>

WithIDs(seq, first) == [i \in DOMAIN seq |-> [id |-> first + i - 1] @@ seq[i]]

\* PreparedGTS: quantified rules are prepared later.
PreparedGTS(gts, order) ==
  [gts EXCEPT !.stdRules =
     WithIDs(Folded(LAMBDA acc, r : acc \o Prepared(r, order), <<>>, @), 1)]

InFolder(p, filename) ==
  IF "result-folder" \in DOMAIN p /\ p["result-folder"] \in Folders
  THEN p["result-folder"] \o "/" \o filename ELSE filename

\* The result handler writes what the search starts from, if it has a folder.
LogStart(disk, gts, order, graphs) ==
  LET oldRules == SaveGTXL(disk, InFolder(parameters, "oldrules"), gts)
  IN SaveGXL(SaveGTXL(oldRules, InFolder(parameters, "newrules"), PreparedGTS(gts, order)),
             InFolder(parameters, "initialgraphs"), graphs)

RunBackwardAnalysis ==
  LET graphs == loaded.graphs[1].graphs
      order == IF parameters["order"] = "minor" THEN "minor" ELSE "subgraph"
      logs == "result-folder" \in DOMAIN parameters /\ parameters["result-folder"] \in Folders
      started == IF logs THEN LogStart(Disk, GTSOf(loaded), order, graphs) ELSE Disk
  IN /\ Running("backward_analysis")
     /\ ~ IsNullGTS(loaded)
     /\ \E result \in SearchResults(graphs) :
          RunEnds(SaveGXL(started, InFolder(parameters, "ErrorGraphs"), result))

\* The file of a graph is written for each rule anew.
RunBackwardStepTest ==
  LET save(disk, rule, g) ==
        SaveGXL(disk, "graph" \o ToString(g.id), WithIDs(Predecessors(rule, g), loaded.nextID))
      step(disk, rule) == Folded(LAMBDA acc, g : save(acc, rule, g), disk, loaded.graphs[1].graphs)
      steps(gts) == Folded(step, SaveGTXL(Disk, parameters["rules"] \o "_new", gts), gts.stdRules)
  IN /\ Running("test_backward_step")
     /\ RunEnds(steps(PreparedGTS(GTSOf(loaded), parameters["order"])))

\* The same rules go to both files: the optimization of the preparer cannot be switched off.
RunRulePreparerTest ==
  LET order == IF Given(parameters, "order", "minor") THEN "minor" ELSE "subgraph"
      saved(gts) == Folded(LAMBDA disk, name : SaveGTXL(disk, parameters["rules"] \o name, gts),
                           Disk, <<"_prep_without_opt", "_prep_with_opt">>)
  IN /\ Running("test_rule_preparer")
     /\ ~ IsNullGTS(loaded)
     /\ RunEnds(saved(PreparedGTS(GTSOf(loaded), order)))

\* All matches, or with "true" those of a search that is to be injective.
SearchFor(source, target, beyond) ==
  [source |-> source, target |-> target, injective |-> Given(parameters, "injective", "true"),
   beyond |-> beyond]

\* In any order of the matches.
MatchRules(search) ==
  LET matches == Listed(FoundMatches(search))
  IN [k \in DOMAIN matches |->
        [left |-> search.source, right |-> search.target, map |-> matches[k],
         name |-> search.source.name \o "-" \o ToString(k - 1) \o "-" \o search.target.name]]

\* From each source graph into each target graph.
CallsOfMatcher(beyond) ==
  LET targets == loaded.graphs[2].graphs
      from(source) == Mapped(LAMBDA target : SearchFor(source, target, beyond), targets)
  IN Folded(LAMBDA acc, source : acc \o from(source), <<>>, loaded.graphs[1].graphs)

\* Behind the vertices of an edge there may be any number: that of a vertex or of none.
NoVertex == 0
BehindVertices == {NoVertex} \cup UNION {g.vertices : g \in Range(loaded.graphs[2].graphs)}

\* Left out are injective searches between graphs in which a label has two arities: when they
\* take back what they have mapped, they also take back what an edge before it has mapped.
IsUndoExact(search) ==
  search.injective =>
    \A e \in Range(search.source.edges), f \in Range(search.target.edges) :
      e.label = f.label => Len(e.vertices) = Len(f.vertices)

SaveMatches(searches) ==
  LET rules == Folded(LAMBDA acc, s : acc \o MatchRules(s), <<>>, searches)
  IN SaveGTXL(Disk, parameters["result"],
       [name |-> "", initialGraphs |-> <<>>, stdRules |-> WithIDs(rules, 1), uqRules |-> <<>>])

MatcherEnds(searches) ==
  /\ \A s \in Range(searches) : IsUndoExact(s)
  /\ IF \E s \in Range(searches) : SearchThrows(s) THEN RunExceptionEnds
     ELSE RunEnds(SaveMatches(searches))

RunMatcher ==
  /\ Running("test_matcher")
  /\ \E beyond \in BehindVertices : MatcherEnds(CallsOfMatcher(beyond))

RunLeaderElection ==
  /\ Running("le_rule_creator")
  /\ RunEnds(SaveGTXL(Disk, parameters["name"], LeaderElection(Numerals[parameters["count"]])))

RunGTXLtoLatexConverter ==
  /\ Running("gtxl_latex_converter")
  /\ ~ IsNullGTS(loaded)
  /\ RunEnds(SavePicture(Disk, IF "target" \in DOMAIN parameters THEN parameters["target"]
                               ELSE parameters["gts"] \o ".tex"))

\* A graph is drawn under the id that it had, or else under a number.
PictureNames(read, stub) ==
  LET isNew(i) == read.graphs[i].id \notin DOMAIN read.oldIDs
      number(i) == Cardinality({j \in 1 .. i - 1 : isNew(j)})
  IN {stub \o IF isNew(i) THEN "-new" \o ToString(number(i))
              ELSE "-id" \o ToString(read.oldIDs[read.graphs[i].id]) : i \in DOMAIN read.graphs}

RunGXLtoPicConverter ==
  LET stub == parameters["filename"]
      format == IF Given(parameters, "format", "ps") THEN ".ps" ELSE ".pdf"
      pictures(read) ==
        IF Given(parameters, "compact", "true") THEN {stub \o ".tex"}
        ELSE UNION {{n \o ".dot", n \o format} : n \in PictureNames(read, stub)}
  IN /\ Running("gxl_pic_converter")
     /\ \E read \in {ReadGXL(FileSystem, stub, 1)} :
          /\ read.error = "none"
          /\ RunEnds(Folded(SavePicture, Disk, Listed(pictures(read))))

\* The numbered files that the test of the reader and writer goes through; a count that is no
\* number, or a stub that is missing, leaves it without files.
TestFiles(stub, count) ==
  LET n == IF count \in DOMAIN parameters /\ parameters[count] \in DOMAIN Numerals
           THEN Numerals[parameters[count]] ELSE 0
  IN IF n <= 0 \/ stub \notin DOMAIN parameters THEN <<>>
     ELSE [i \in 1..n |-> parameters[stub] \o "0" \o ToString(i - 1)]

\* What the reader throws is caught and the next file tried; a null pointer is no exception.
CopyGXL(disk, filename) ==
  LET copy(read) ==
        IF read.error = "none" THEN SaveGXL(disk, filename \o "new", read.graphs) ELSE disk
  IN copy(ReadGXL(disk.files @@ GivenFiles, filename, 1))

CopyGTXL(disk, filename) ==
  LET copy(read) ==
        CASE read.error = "null" -> [disk EXCEPT !.error = "null"]
          [] read.error = "none" /\ read.isSet -> SaveGTXL(disk, filename \o "new", read.gts)
          [] OTHER -> disk
  IN copy(ReadGTXL(disk.files @@ GivenFiles, filename, 1))

RunXMLTest ==
  /\ Running("test_xml")
  /\ RunEnds(Each(CopyGTXL, Each(CopyGXL, Disk, TestFiles("gxl-stub", "gxl-count")),
                  TestFiles("gtxl-stub", "gtxl-count")))

\* LEQCheckScenario has the comparison itself; it writes nothing.
RunLEQCheck == Running("leq_check") /\ RunEnds(Disk)

Next ==
  \/ Call \/ RefuseOptions \/ PrintInformation \/ TakeInput \/ LoadScenario \/ Initialize
  \/ RunThrows \/ RunFails
  \/ RunBackwardAnalysis \/ RunBackwardStepTest \/ RunRulePreparerTest \/ RunMatcher
  \/ RunLeaderElection \/ RunGTXLtoLatexConverter \/ RunGXLtoPicConverter \/ RunXMLTest
  \/ RunLEQCheck

Spec == Init /\ [][Next]_vars

-----------------------------------------------------------------------------
(* Properties                                                              *)

\* What a graph is once it was written and read: its vertices are numbered before its edges.
Renumbered(g) ==
  LET order == InOrder(g, Elements(g))
      place(x) == CHOOSE i \in DOMAIN order : order[i] = x
      n == Cardinality(g.vertices)
  IN [vertices |-> 1..n,
      edges |-> [e \in n + 1 .. Len(order) |->
                   [g.edges[order[e]] EXCEPT !.vertices = [i \in DOMAIN @ |-> place(@[i])]]],
      lastUsedID |-> Len(order), name |-> g.name]

IsGraphReadBack(g, read) == \A field \in DOMAIN Renumbered(g) : read[field] = Renumbered(g)[field]

AreGraphsReadBack(graphs, read, oldIDs) ==
  /\ Len(read) = Len(graphs)
  /\ \A i \in DOMAIN graphs : IsGraphReadBack(graphs[i], read[i]) /\ oldIDs[read[i].id] = graphs[i].id

Isomorphisms(g, h) ==
  IF Cardinality(g.vertices) = Cardinality(h.vertices)
     /\ Cardinality(DOMAIN g.edges) = Cardinality(DOMAIN h.edges)
  THEN {m \in Morphisms(g, h) : IsInjective(m)} ELSE {}

\* The same rule with the same elements in each quantification.
IsSameRule(one, other) ==
  LET quantified(rule, l, r) ==
        {<<{l[x] : x \in rule.leftUQids[i]}, {r[y] : y \in rule.rightUQids[i]}>> :
           i \in DOMAIN rule.leftUQids}
      id(g) == [x \in Elements(g) |-> x]
  IN \E l \in Isomorphisms(one.rule.left, other.rule.left),
        r \in Isomorphisms(one.rule.right, other.rule.right) :
       /\ {<<l[x], r[one.rule.map[x]]>> : x \in DOMAIN one.rule.map}
          = {<<x, other.rule.map[x]>> : x \in DOMAIN other.rule.map}
       /\ quantified(one, l, r) = quantified(other, id(other.rule.left), id(other.rule.right))

Plain(rule) == [rule |-> rule, leftUQids |-> <<>>, rightUQids |-> <<>>]

\* An element of the main rule may still be mapped to one that belongs to a quantification.
IsDangling(uq) == ~ Range(uq.main.map) \subseteq Elements(uq.main.right)

IsGXLReadBack(graphs, read) ==
  read.error = "none" /\ AreGraphsReadBack(graphs, read.graphs, read.oldIDs)

IsGTXLReadBack(content, read) ==
  LET gts == read.gts
  IN /\ read.error = "none"
     /\ gts.name = content.name
     /\ AreGraphsReadBack(content.initialGraphs, gts.initialGraphs, read.oldGraphIDs)
     /\ Len(gts.stdRules) = Len(content.stdRules)
     /\ \A i \in DOMAIN gts.stdRules :
          /\ gts.stdRules[i].name = content.stdRules[i].name
          /\ read.oldRuleIDs[gts.stdRules[i].id] = content.stdRules[i].id
          /\ IsSameRule(Plain(gts.stdRules[i]), Plain(content.stdRules[i]))
     /\ Len(gts.uqRules) = Len(content.uqRules)
     /\ \A i \in DOMAIN gts.uqRules :
          /\ gts.uqRules[i].main.name = content.uqRules[i].main.name
          /\ IsSameRule(CreateOneInstance(gts.uqRules[i]), CreateOneInstance(content.uqRules[i]))

\* A match may take an edge to one with the same label and more or fewer vertices.
ChangesArity(rule) ==
  \E e \in DOMAIN rule.left.edges \cap DOMAIN rule.map :
    Len(rule.left.edges[e].vertices) # Len(rule.right.edges[rule.map[e]].vertices)

\* Rules that dangle are written, but not read; those that change an arity are written, too,
\* and the reader refuses them.
IsReadBack(disk, f) ==
  LET content == contents[f].content
  IN IF contents[f].kind = "gxl" THEN IsGXLReadBack(content, ReadGXL(disk, f, 1))
     ELSE IF \E rule \in Range(content.stdRules) : ChangesArity(rule)
     THEN ReadGTXL(disk, f, 1).error = "XMLioException"
     ELSE \/ \E uq \in Range(content.uqRules) : IsDangling(uq)
          \/ IsGTXLReadBack(content, ReadGTXL(disk, f, 1))

\* Every document that some call has written is read by a later call as what it was written
\* for: the graphs with their ids, names and edges in order, the rules and quantifications.
\* Only a document with a match that changes the arity of an edge is refused as inconsistent.
WrittenFilesReadBack ==
  phase = "idle" => \A f \in DOMAIN contents : IsReadBack(files, f)

\* The rules with quantifications of the document that a scenario has accepted.
AcceptedRules ==
  IF phase # "running" \/ TheScenario.gtsFile = <<>> THEN <<>>
  ELSE SelectSeq(Mapped(ReadRule, Children(FileSystem[parameters[TheScenario.gtsFile[1]]], "rule")),
                 IsQuantified)

\* What is quantified on the right has only such preimages, and a quantified edge that is made
\* at a vertex of the main rule knows it by one quantified edge on the left.
CanBeSplit(read) ==
  \A q \in DOMAIN read.leftQuant :
    LET left == read.rule.left
        right == read.rule.right
        touched == UNION {Range(left.edges[e].vertices) : e \in read.leftQuant[q] \cap DOMAIN left.edges}
        known(v) == Cardinality({x \in touched \cap DOMAIN read.rule.map : read.rule.map[x] = v}) = 1
    IN /\ \A y \in RightQuant(read, q) : Preimage(read.rule.map, y) \subseteq read.leftQuant[q]
       /\ \A e \in RightQuant(read, q) \cap DOMAIN right.edges :
            \A v \in Range(right.edges[e].vertices) \ RightQuant(read, q) : known(v)

\* A rule with quantifications is taken apart into a main rule and quantifications such that,
\* glued together once each, they are the rule of the document.
OneInstanceIsTheReadRule ==
  \A read \in Range(AcceptedRules) :
    LET ids == Iterate(DOMAIN read.leftQuant)
    IN CanBeSplit(read) =>
         IsSameRule(CreateOneInstance(UQRuleOf(read)),
                    [rule |-> read.rule, leftUQids |-> Mapped(LAMBDA q : read.leftQuant[q], ids),
                     rightUQids |-> Mapped(LAMBDA q : RightQuant(read, q), ids)])

IsMorphism(rule) ==
  /\ \A x \in DOMAIN rule.map : x \in rule.left.vertices => rule.map[x] \in rule.right.vertices
  /\ \A e \in DOMAIN rule.map \ rule.left.vertices :
       /\ Range(rule.left.edges[e].vertices) \subseteq DOMAIN rule.map
       /\ rule.right.edges[rule.map[e]] =
            [rule.left.edges[e] EXCEPT !.vertices = [i \in DOMAIN @ |-> rule.map[@[i]]]]

\* What UQRule::addQuantification asks of a quantification: it "may only merge elements which
\* have no preimage in the main rules left-hand side".
MergesNothingShared(quant) ==
  \A x \in DOMAIN quant.match \cap DOMAIN quant.rule.map :
    Preimage(quant.rule.map, quant.rule.map[x]) = {x}

\* A quantified rule keeps labels and ends of edges in its main rule, its quantifications and,
\* unless these merge what they share, its instance.
IsUQMorphism(uq) ==
  ~ IsDangling(uq) =>
    /\ IsMorphism(uq.main)
    /\ \A q \in Range(uq.quants) : IsMorphism(q.rule)
    /\ (\A q \in Range(uq.quants) : MergesNothingShared(q)) => IsMorphism(CreateOneInstance(uq).rule)

\* Whatever is in the document: the rules that a scenario goes on with keep labels and ends of
\* edges, and a quantified one does so in all that it consists of.
AcceptedRulesAreMorphisms ==
  phase = "running" /\ TheScenario.gtsFile # <<>> =>
    /\ \A rule \in Range(GTSOf(loaded).stdRules) : IsMorphism(rule)
    /\ \A uq \in Range(GTSOf(loaded).uqRules) : IsUQMorphism(uq)

\* In the ring that the created rules describe there are never two leaders, the error that
\* testbench/LeaderElection searches from, however processes come to lead or leave.
AtMostOneLeader ==
  phase = "idle" /\ exit = "NO_ERROR" /\ ScenarioIs("le_rule_creator") =>
    \A ring \in ReachableRings(contents[parameters["name"]].content, MaxSteps) :
      Cardinality(Leaders(ring)) <= 1

=============================================================================
