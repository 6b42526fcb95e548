------------------------------ MODULE Coverability ------------------------------
(***************************************************************************)
(* What a backward search promises, without lists, rules or loops.         *)
(*                                                                         *)
(* `known` is an upward-closed set of shapes.  It starts empty, takes in   *)
(* the error shapes and the predecessors of what is known, and the search  *)
(* may declare itself complete only when nothing is missing any more.      *)
(***************************************************************************)
EXTENDS GraphOrder

CONSTANTS
  Inputs,          \* the inputs a search can be started with
  ErrorShapes(_),  \* the shapes of the error graphs of an input
  PredShapes(_, _) \* PredShapes(in, s): shapes of the minimal predecessors of s

VARIABLES input, known, outcome

vars == <<input, known, outcome>>

Outcomes == {"none", "complete", "initial", "timeout", "outOfIDs"}

UpShape(s) == {t \in Shapes : Leq(s, t)}

\* S contains every error shape and every predecessor of its elements.
Saturated(in, S) ==
  /\ ErrorShapes(in) \subseteq S
  /\ \A s \in S : PredShapes(in, s) \subseteq S

\* The shapes from which an error shape is backward reachable: the elements of
\* every saturated set.
BackwardReachable(in) ==
  {s \in Shapes : \A S \in SUBSET Shapes : Saturated(in, S) => s \in S}

Init ==
  /\ input \in Inputs
  /\ known = {}
  /\ outcome = "none"

\* One error shape, or one predecessor of a known shape, becomes known.
Extend(s) ==
  /\ outcome = "none"
  /\ s \in ErrorShapes(input) \cup UNION {PredShapes(input, t) : t \in known}
  /\ known' = known \cup UpShape(s)
  /\ outcome' \in {"none", "initial", "timeout"}
  /\ UNCHANGED input

\* Nothing is missing: the answer is exact.
Complete ==
  /\ outcome = "none"
  /\ Saturated(input, known)
  /\ outcome' = "complete"
  /\ UNCHANGED <<input, known>>

\* The search may be cut short between two extensions.
Abort ==
  /\ outcome = "none"
  /\ outcome' \in {"timeout", "outOfIDs"}
  /\ UNCHANGED <<input, known>>

Next == (\E s \in Shapes : Extend(s)) \/ Complete \/ Abort

Spec == Init /\ [][Next]_vars

=============================================================================
