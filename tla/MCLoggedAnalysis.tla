--------------------------- MODULE MCLoggedAnalysis ---------------------------
(***************************************************************************)
(* The order of MCBackwardAnalysis with fewer rule sets: enough for graphs *)
(* to be dropped for smaller ones, rejected, and found over the bound, in  *)
(* searches of several rounds.                                             *)
(***************************************************************************)
EXTENDS LoggedAnalysis

MCShapes == {"low", "left", "twin", "right", "other"}

MCLeq(s, t) ==
  \/ s = t
  \/ s = "low" /\ t \in {"left", "twin", "right"}
  \/ {s, t} = {"left", "twin"}

MCStdRules == {"r1"}
MCUQRules == {"u1"}

Complements == {<<>>, <<"low">>, <<"right", "twin">>}
StdChoices ==
  {f \in [MCStdRules -> [MCShapes -> Complements]] :
     \A r \in MCStdRules : f[r]["left"] = f[r]["twin"] /\ f[r]["other"] # <<>>}

UQChoices ==
  [MCUQRules -> {[s \in MCShapes |-> IF s = "right" THEN <<<<"other">>, <<>>, <<"left">>>>
                                                     ELSE <<>>]}]

MCInputs ==
  {in \in [errors : {<<"right", "low">>, <<"other", "twin">>},
           initial : {{"right"}}, checkInitial : BOOLEAN, timer : BOOLEAN, firstID : {1},
           valid : {MCShapes, MCShapes \ {"other"}},
           std : StdChoices, uq : UQChoices] :
     Compatible(in)}

=============================================================================
