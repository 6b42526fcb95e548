--------------------------- MODULE MCBackwardAnalysis ---------------------------
(***************************************************************************)
(* A small order for the search: `low` is below `left` and `right`, which  *)
(* are incomparable; `twin` is isomorphic to `left`; `other` is unrelated. *)
(* A rule may send a shape to nothing, to one shape, or to two.            *)
(***************************************************************************)
EXTENDS BackwardAnalysis

MCShapes == {"low", "left", "twin", "right", "other"}

MCLeq(s, t) ==
  \/ s = t
  \/ s = "low" /\ t \in {"left", "twin", "right"}
  \/ {s, t} = {"left", "twin"}

MCStdRules == {"r1"}
MCUQRules == {"u1"}

\* What the standard rule yields for each shape; isomorphic shapes yield the same.
Complements == {<<>>, <<"low">>, <<"right">>, <<"twin", "other">>}
StdChoices ==
  {f \in [MCStdRules -> [MCShapes -> Complements]] :
     \A r \in MCStdRules : f[r]["left"] = f[r]["twin"] /\ f[r]["other"] \notin {<<>>, <<"low">>}}

\* The instances of the quantified rule: none, or two of which the second finds
\* what the first does not.
UQChoices ==
  [MCUQRules -> {[s \in MCShapes |-> <<>>],
                 [s \in MCShapes |-> IF s = "other" THEN <<<<"right">>, <<"left", "twin">>>>
                                                     ELSE <<<<>>>>]}]

Plain == CHOOSE u \in UQChoices : \A s \in MCShapes : u["u1"][s] = <<>>
Quantified == CHOOSE u \in UQChoices : u # Plain

\* All standard rules under six settings: with and without the check for initial
\* graphs, a bound that rejects `other`, the quantified rule, and few ids left.  With the check off
\* the initial graphs make no difference; a search with a timer can do everything a
\* search without one does.
Setting(errors, initial, check, valid, uq, firstID) ==
  [errors |-> errors, initial |-> initial, checkInitial |-> check, valid |-> valid, uq |-> uq,
   firstID |-> firstID]

Settings ==
  {Setting(<<"right", "low">>, {"low"}, FALSE, MCShapes, Plain, 1),
   Setting(<<"other", "twin">>, {"low"}, TRUE, MCShapes \ {"other"}, Plain, 1),
   Setting(<<"other", "twin">>, {"right"}, TRUE, MCShapes, Plain, 1),
   Setting(<<"right", "low">>, {"right"}, TRUE, MCShapes \ {"other"}, Quantified, 1),
   Setting(<<"other", "twin">>, {"low"}, TRUE, MCShapes, Quantified, 1),
   Setting(<<"right", "low">>, {"right"}, TRUE, MCShapes, Plain, IDType_MAX - 4)}

MCInputs ==
  {in \in {[std |-> f, timer |-> TRUE] @@ s : f \in StdChoices, s \in Settings} : Compatible(in)}

=============================================================================
