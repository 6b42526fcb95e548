-------------------------- MODULE PartitionEnumerators --------------------------
(***************************************************************************)
(* The enumerators under the enumeration of pushout complements, as        *)
(* functions of their state: basic_types/IDPartitionEnumerator (all        *)
(* partitions of a set, breadth first), rule_engine/IDClosureEnumerator    *)
(* (those whose closure with a given partition is one class),              *)
(* rule_engine/IDtoIDEnumerator (the targets of one source), and the       *)
(* odometer over a vector of them.  A partition is a set of sets; what     *)
(* order a hash set has is left to Listed.                                 *)
(***************************************************************************)
EXTENDS Integers, SequencesExt, FiniteSetsExt

\* The elements of a set one after the other; a fold is much cheaper than SetToSeq.
Listed(S) == FoldSet(LAMBDA x, acc : Append(acc, x), <<>>, S)

Mapped(Op(_), seq) == [i \in DOMAIN seq |-> Op(seq[i])]

\* FoldLeft, by a recursive function: TLC unfolds folds of the community modules that are
\* nested many times over.
Folded(Op(_, _), base, seq) ==
  LET acc[i \in 0 .. Len(seq)] == IF i = 0 THEN base ELSE Op(acc[i - 1], seq[i])
  IN acc[Len(seq)]

\* The elements of a vector that pass a test, and a map with one more entry.  SelectSeq and @@
\* would do, but the proof system has no definitions of them.
Selected(Test(_), seq) ==
  Folded(LAMBDA acc, x : IF Test(x) THEN Append(acc, x) ELSE acc, <<>>, seq)

Entered(map, x, y) == [z \in DOMAIN map \cup {x} |-> IF z = x THEN y ELSE map[z]]

-----------------------------------------------------------------------------
(* IDPartitionEnumerator: the partitions found so far, the place of the    *)
(* enumeration and the first partition that has not been refined yet.      *)

NewPartitions(ids) ==
  [found |-> <<{{i} : i \in ids}>>, current |-> 1, lastNew |-> 1]

\* What recursions over enumerators are defined for.
EnumeratorsOf(ids) == [found : Seq(SUBSET SUBSET ids), current : Nat, lastNew : Nat]

Ended(e) == e.current > Len(e.found)

ResetPartitions(e) == [e EXCEPT !.current = 1]

Partition(e) == IF Ended(e) THEN Last(e.found) ELSE e.found[e.current]

\* All ways to merge two classes of P.
Coarser(P) ==
  UNION {{(P \ {c, d}) \cup {c \cup d} : d \in P \ {c}} : c \in P}

\* Once the partition with one class is found, one with two has nothing to add.
NothingNewTooEarly(e) == Cardinality(Partition(e)) <= 3

NothingNew(e) == Cardinality(Partition(e)) <= 2 /\ Cardinality(Last(e.found)) = 1

NextPartition(e) ==
  IF Ended(e) THEN e
  ELSE IF e.current < e.lastNew THEN [e EXCEPT !.current = @ + 1]
  ELSE [found   |-> IF NothingNew(e) THEN e.found
                    ELSE e.found \o Listed(Coarser(Partition(e)) \ Range(e.found)),
        current |-> e.current + 1,
        lastNew |-> e.lastNew + 1]

-----------------------------------------------------------------------------
(* IDClosureEnumerator *)

\* idpart_transitive_closure: each class of Q swallows the classes of P it meets.
Closure(P, Q) ==
  FoldSet(LAMBDA q, acc :
            {c \in acc : c \cap q = {}} \cup {q \cup UNION {c \in acc : c \cap q # {}}},
          P, Q)

OneClass(e) == Cardinality(Closure(Partition(e.partitions), e.otherPart)) = 1

NextClosure(e) ==
  LET next[partitions \in EnumeratorsOf(UNION Head(e.partitions.found))] ==
        LET following == NextPartition(partitions)
            moved == [e EXCEPT !.partitions = following, !.finished = Ended(following)]
        IN IF moved.finished \/ OneClass(moved) THEN moved ELSE next[following]
  IN IF e.finished THEN e ELSE next[e.partitions]

ResetClosure(e) ==
  LET first == [e EXCEPT !.partitions = ResetPartitions(@), !.finished = FALSE]
  IN IF OneClass(first) THEN first ELSE NextClosure(first)

NewClosures(ids, otherPart) ==
  ResetClosure([partitions |-> NewPartitions(ids), otherPart |-> otherPart, finished |-> FALSE])

-----------------------------------------------------------------------------
(* IDtoIDEnumerator *)

NewTargets(source, ids) == [source |-> source, targets |-> Listed(ids), iter |-> 1]

NextTargetCyclic(e) == [e EXCEPT !.iter = (@ % Len(e.targets)) + 1]

NextTarget(e) == IF e.iter > Len(e.targets) THEN e ELSE [e EXCEPT !.iter = @ + 1]

NoTargetLeft(e) == e.iter > Len(e.targets)

FirstTarget(e) == [e EXCEPT !.iter = 1]

Target(e) == e.targets[e.iter]

-----------------------------------------------------------------------------
(* incEnums: the first enumerator that does not end moves on, those before *)
(* it start again; if all end, all start again and nothing is left.        *)

IncEnums(enums, Inc(_), HasNone(_), Restart(_)) ==
  LET step(acc, e) ==
        LET next == Inc(e)
        IN CASE acc.more      -> [acc EXCEPT !.enums = Append(@, e)]
             [] HasNone(next) -> [acc EXCEPT !.enums = Append(@, Restart(next))]
             [] OTHER         -> [enums |-> Append(acc.enums, next), more |-> TRUE]
  IN FoldLeft(step, [enums |-> <<>>, more |-> FALSE], enums)

IncClosures(enums) ==
  IncEnums(enums, NextClosure, LAMBDA e : e.finished, ResetClosure)

IncTargets(enums) == IncEnums(enums, NextTarget, NoTargetLeft, FirstTarget)

IncPartitions(enums) == IncEnums(enums, NextPartition, Ended, ResetPartitions)

=============================================================================
