------------------------------ MODULE UQInstances ------------------------------
(***************************************************************************)
(* analysis/PreparedGTS::uqinst_iterator: the instances of one universally *)
(* quantified rule that are applied to one graph.  The iterator counts     *)
(* through all ways to use the quantifications, like an odometer whose     *)
(* digits may add up to the bound, and hands out what the rule preparer    *)
(* makes of each.  One iteration of the loop in loadNextRule per action.   *)
(***************************************************************************)
EXTENDS Naturals, SequencesExt, FiniteSetsExt

CONSTANTS
  QuantCount,  \* number of quantifications of the rule
  MaxBound,    \* bounds (vertices plus edges of the graph) explored
  Inputs       \* the rules explored; see InputType

\* A rule without quantifications is read as a standard rule.
ASSUME QuantCountIsPositive == QuantCount \in Nat \ {0}
ASSUME MaxBoundIsNatural == MaxBound \in Nat

Quants == 1 .. QuantCount

(***************************************************************************)
(* What matters of a rule is how many prepared rules each instance gives.  *)
(* The preparer drops no-op rules.  An instance consists of the main rule  *)
(* and a copy of a quantification per use, each copy with elements of its  *)
(* own, so it is a no-op exactly if all its parts are: then it gives no    *)
(* rule at all, otherwise at least the undiminished one.                   *)
(***************************************************************************)
InputType == [bound : 0 .. MaxBound, mainIsNoOp : BOOLEAN, noOps : SUBSET Quants,
              variants : 1 .. 3]

ASSUME InputsAreTyped == Inputs \subseteq InputType

SumOf(q) == FoldFunction(+, 0, q)

\* createInstance and prepareRule: the prepared instances for the uses q.
IsNoOp(in, q) == in.mainIsNoOp /\ \A i \in Quants : q[i] > 0 => i \in in.noOps
Prepared(in, q) ==
  IF IsNoOp(in, q) THEN <<>>
  ELSE [k \in 1 .. in.variants |-> [uses |-> q, variant |-> k]]

VARIABLES
  input,
  phase,             \* "loading" inside loadNextRule, "ready", "ended"
  firstTime,         \* the parameter of loadNextRule
  currentQuant,      \* how often each quantification is used
  curIt,             \* the digit that is being increased
  currentInstances,  \* prepared instances; the last one is the current one
  delivered          \* what operator* has returned, in order

vars == <<input, phase, firstTime, currentQuant, curIt, currentInstances, delivered>>

Init ==
  /\ input \in Inputs
  /\ phase = "loading" /\ firstTime = TRUE
  /\ currentQuant = [i \in Quants |-> 0] /\ curIt = 1
  /\ currentInstances = <<>> /\ delivered = <<>>

\* "if rules are still stored, take them"
NextStored ==
  /\ phase = "ready" /\ Len(currentInstances) > 1
  /\ currentInstances' = Front(currentInstances)
  /\ delivered' = Append(delivered, Last(currentInstances'))
  /\ UNCHANGED <<input, phase, firstTime, currentQuant, curIt>>

StartSearchAtCurrentDigit ==
  /\ phase = "ready" /\ Len(currentInstances) <= 1
  /\ phase' = "loading" /\ firstTime' = FALSE
  /\ UNCHANGED <<input, currentQuant, curIt, currentInstances, delivered>>
StartSearchAsFirstTime ==
  /\ phase = "ready" /\ Len(currentInstances) <= 1
  /\ phase' = "loading" /\ curIt' = 1 /\ firstTime' = TRUE
  /\ UNCHANGED <<input, currentQuant, currentInstances, delivered>>
StartSearch ==
  /\ phase = "ready" /\ Len(currentInstances) <= 1
  /\ phase' = "loading" /\ curIt' = 1 /\ firstTime' = FALSE
  /\ UNCHANGED <<input, currentQuant, currentInstances, delivered>>

\* The uses to try next.  The check of firstTime "should only block
\* incrementation once".
Counted ==
  IF firstTime THEN currentQuant ELSE [currentQuant EXCEPT ![curIt] = @ + 1]

InBound(q) == SumOf(q) <= input.bound

\* The instance is within the bound: prepare it, and stop if anything is stored.
TryInstance ==
  /\ phase = "loading" /\ curIt \in Quants
  /\ InBound(Counted)
  /\ currentQuant' = Counted /\ firstTime' = FALSE
  /\ currentInstances' = currentInstances \o Prepared(input, Counted)
  /\ IF currentInstances' # <<>>
     THEN phase' = "ready" /\ delivered' = Append(delivered, Last(currentInstances'))
     ELSE UNCHANGED <<phase, delivered>>
  /\ UNCHANGED <<input, curIt>>

CarryKeepsPlace ==
  /\ phase = "loading" /\ curIt \in Quants
  /\ ~ InBound(Counted)
  /\ currentQuant' = [currentQuant EXCEPT ![curIt] = 0] /\ firstTime' = FALSE
  /\ UNCHANGED <<input, phase, curIt, currentInstances, delivered>>
\* The digit is full: reset it and go on with the next one.
Carry ==
  /\ phase = "loading" /\ curIt \in Quants
  /\ ~ InBound(Counted)
  /\ currentQuant' = [currentQuant EXCEPT ![curIt] = 0] /\ firstTime' = FALSE
  /\ curIt' = curIt + 1
  /\ UNCHANGED <<input, phase, currentInstances, delivered>>

\* "there is no next element"
End ==
  /\ phase = "loading" /\ curIt = QuantCount + 1
  /\ phase' = "ended" /\ currentInstances' = <<>>
  /\ UNCHANGED <<input, firstTime, currentQuant, curIt, delivered>>

Next == NextStored \/ StartSearch \/ TryInstance \/ Carry \/ End

\* The loop in the search calls ++ until the iterator has ended.
Spec == Init /\ [][Next]_vars /\ WF_vars(Next)

-----------------------------------------------------------------------------
(* Properties *)

\* "an iterator, enumerating all necessary instances of the UQRule": when it
\* ends, every prepared instance within the bound was returned.  The loop tries
\* fewer instances than the odometer has positions, because it goes on at the
\* digit it has reached when an instance gives no rule; what it passes over gives
\* no rule either.
AllInstancesDelivered ==
  phase = "ended" =>
    \A q \in [Quants -> 0 .. input.bound] :
      SumOf(q) <= input.bound => Range(Prepared(input, q)) \subseteq Range(delivered)

\* At most one instance is returned more than once, whatever the rule and the
\* bound: the one that is never popped.  All others are applied exactly once.
\* (loadNextRule: "Drops the current UQRuleInstance and computes the next one if
\* possible"; the one that is last on the vector is dropped but not removed.)
Repeated ==
  {delivered[i] : i \in {k \in DOMAIN delivered : \E j \in 1 .. k - 1 : delivered[k] = delivered[j]}}

OnlyOneIsRepeated == \A x, y \in Repeated : x = y

\* The count through the quantifications comes to an end.
Ends == <>(phase = "ended")

=============================================================================
