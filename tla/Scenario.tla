------------------------------- MODULE Scenario -------------------------------
(***************************************************************************)
(* basic_types/Scenario and scenarios/ScenarioLoader: the scenarios with   *)
(* their names and parameters, how one is found and how the inputs on the  *)
(* command line become parameters.  An input is a record [key, value],     *)
(* with key "" if there is nothing before its first '='.                   *)
(***************************************************************************)
EXTENDS Sequences, SequencesExt, FiniteSetsExt, Functions

BackwardAnalysisScenario ==
  [name |-> "backward_analysis", short |-> {"backw"}, id |-> "100",
   parameterNames |-> <<"gts", "error-graph", "order", "result-folder", "timeout",
                        "check-initial", "matching">>,
   mandatory |-> {"gts", "error-graph", "order"},
   synonyms |-> [err |-> "error-graph", or |-> "order", res |-> "result-folder",
                 to |-> "timeout", ci |-> "check-initial", m |-> "matching"],
   gtsFile |-> <<"gts">>, graphFiles |-> <<"error-graph">>]

LEQCheckScenario ==
  [name |-> "leq_check", short |-> {"leq"}, id |-> "200",
   parameterNames |-> <<"order", "upclosedset", "checkset", "faststop">>,
   mandatory |-> {"order", "upclosedset", "checkset"},
   synonyms |-> [o |-> "order", u |-> "upclosedset", c |-> "checkset", s |-> "faststop"],
   gtsFile |-> <<>>, graphFiles |-> <<"upclosedset", "checkset">>]

LeaderElectionScenario ==
  [name |-> "le_rule_creator", short |-> {"lerc"}, id |-> "300",
   parameterNames |-> <<"count", "name">>, mandatory |-> {"count", "name"},
   synonyms |-> [c |-> "count", n |-> "name"],
   gtsFile |-> <<>>, graphFiles |-> <<>>]

GXLtoPicConverter ==
  [name |-> "gxl_pic_converter", short |-> {"gxl2pic"}, id |-> "1000",
   parameterNames |-> <<"filename", "format", "compact">>, mandatory |-> {"filename"},
   synonyms |-> [f |-> "filename", o |-> "format", c |-> "compact"],
   gtsFile |-> <<>>, graphFiles |-> <<>>]

GTXLtoLatexConverter ==
  [name |-> "gtxl_latex_converter", short |-> {"gtxl2latex"}, id |-> "1100",
   parameterNames |-> <<"gts", "format", "target", "compile">>, mandatory |-> {"gts"},
   synonyms |-> [f |-> "format", t |-> "target", c |-> "compile"],
   gtsFile |-> <<"gts">>, graphFiles |-> <<>>]

XMLTestScenario ==
  [name |-> "test_xml", short |-> {}, id |-> "10000",
   parameterNames |-> <<"gxl-stub", "gxl-count", "gtxl-stub", "gtxl-count">>, mandatory |-> {},
   synonyms |-> [gxls |-> "gxl-stub", gxl |-> "gxl-count", gtxls |-> "gtxl-stub",
                 gtxl |-> "gtxl-count"],
   gtsFile |-> <<>>, graphFiles |-> <<>>]

RulePreparerTest ==
  [name |-> "test_rule_preparer", short |-> {"testprep"}, id |-> "11000",
   parameterNames |-> <<"rules", "order">>, mandatory |-> {"rules"},
   synonyms |-> [r |-> "rules", o |-> "order"],
   gtsFile |-> <<"rules">>, graphFiles |-> <<>>]

BackwardStepTest ==
  [name |-> "test_backward_step", short |-> {"testbws"}, id |-> "12000",
   parameterNames |-> <<"rules", "graphs", "order", "injective", "optimize">>,
   mandatory |-> {"rules", "graphs", "order"},
   synonyms |-> [r |-> "rules", g |-> "graphs", o |-> "order", inj |-> "injective",
                 opt |-> "optimize"],
   gtsFile |-> <<"rules">>, graphFiles |-> <<"graphs">>]

MatcherScenario ==
  [name |-> "test_matcher", short |-> {}, id |-> "13000",
   parameterNames |-> <<"source", "target", "result", "injective">>,
   mandatory |-> {"source", "target", "result"},
   synonyms |-> [src |-> "source", tar |-> "target", res |-> "result", inj |-> "injective"],
   gtsFile |-> <<>>, graphFiles |-> <<"source", "target">>]

Scenarios ==
  {BackwardAnalysisScenario, LEQCheckScenario, LeaderElectionScenario, GXLtoPicConverter,
   GTXLtoLatexConverter, XMLTestScenario, RulePreparerTest, BackwardStepTest, MatcherScenario}

\* getScenario: by one of its names or by its number.
FoundScenarios(ident) == {s \in Scenarios : ident \in {s.name, s.id} \cup s.short}

-----------------------------------------------------------------------------
(* Scenario::initialize, before the scenario's own                         *)

\* The parameter that an input is for; an input without a key is for the one at its place.
KeyOf(scenario, input, i) ==
  LET key == IF input[i].key = "" THEN scenario.parameterNames[i] ELSE input[i].key
  IN IF key \in DOMAIN scenario.synonyms THEN scenario.synonyms[key] ELSE key

KeysOf(scenario, input) == [i \in DOMAIN input |-> KeyOf(scenario, input, i)]

InputIsLegal(scenario, input) ==
  /\ Len(input) <= Len(scenario.parameterNames)
  /\ Range(KeysOf(scenario, input)) \subseteq Range(scenario.parameterNames)
  /\ IsInjective(KeysOf(scenario, input))
  /\ scenario.mandatory \subseteq Range(KeysOf(scenario, input))

ParametersOf(scenario, input) ==
  LET keys == KeysOf(scenario, input)
  IN [key \in Range(keys) |-> input[CHOOSE i \in DOMAIN input : keys[i] = key].value]

=============================================================================
