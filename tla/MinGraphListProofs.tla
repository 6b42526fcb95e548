--------------------------- MODULE MinGraphListProofs ---------------------------
(***************************************************************************)
(* Proofs about the pass of addGraph, for every order and number of ids.   *)
(***************************************************************************)
EXTENDS MinGraphList, SequenceLemmas

ListTypeOK ==
  /\ graphs \in Seq(Hypergraph)
  /\ adding # <<>> => adding = <<graph>> /\ graph \in Hypergraph
  /\ it \in Nat \ {0}
  /\ canBeLarger \in BOOLEAN
  /\ deleted \in Seq(IDType \X IDType)
  /\ nextID \in Nat

\* The graph that is added is new.
IdsAreFresh ==
  /\ \A i \in DOMAIN graphs : graphs[i].id < nextID
  /\ adding # <<>> => graph.id < nextID /\ \A i \in DOMAIN graphs : graphs[i].id # graph.id

\* What the pass has established in front of the iterator, and, once it has erased a graph, in
\* the whole list; the list is minimal throughout.
PassIsRight ==
  /\ \A i, j \in DOMAIN graphs : IsLessOrEq(graphs[i], graphs[j]) => i = j
  /\ adding # <<>> =>
       /\ it \in 1 .. Len(graphs) + 1
       /\ \A i \in 1 .. it - 1 : ~ IsLessOrEq(graph, graphs[i])
       /\ \A i \in DOMAIN graphs : (canBeLarger /\ i >= it) \/ ~ IsLessOrEq(graphs[i], graph)

ListInv == ListTypeOK /\ IdsMatchList /\ IdsAreFresh /\ PassIsRight /\ DeletionsAreJustified

-----------------------------------------------------------------------------
(* The steps of the pass, in terms of what is in the list                  *)

\* An iteration stands on a graph of the list.
LEMMA GraphAtIterator ==
  ASSUME ListTypeOK, InLoop
  PROVE  /\ it \in 1 .. Len(graphs) /\ it \in DOMAIN graphs
         /\ graphs[it] \in Hypergraph /\ graphs[it] \in Range(graphs)
         /\ graph \in Hypergraph /\ adding = <<graph>>
<1>1. Len(graphs) \in Nat /\ DOMAIN graphs = 1 .. Len(graphs)
  BY LenProperties DEF ListTypeOK
<1>2. it \in 1 .. Len(graphs)
  BY <1>1 DEF ListTypeOK, InLoop
<1>3. graphs[it] \in Hypergraph
  BY <1>2, ElementOfSeq DEF ListTypeOK
<1> QED BY <1>1, <1>2, <1>3 DEF ListTypeOK, InLoop, Range

\* The graph that is added, as a set.
LEMMA RangeOfAdding ==
  ASSUME ListTypeOK
  PROVE  /\ adding = <<>> => Range(adding) = {}
         /\ adding # <<>> => Range(adding) = {graph}
<1>1. ASSUME NEW g PROVE Range(<<g>>) = {g}
  BY DEF Range
<1> QED BY <1>1, RangeOfEmpty DEF ListTypeOK

\* The list without the erased graph: the places before the iterator keep their graphs.
LEMMA Erased ==
  ASSUME ListTypeOK, IdsMatchList, EraseLarger
  PROVE  /\ graphs' \in Seq(Hypergraph) /\ Len(graphs') = Len(graphs) - 1
         /\ DOMAIN graphs = 1 .. Len(graphs) /\ DOMAIN graphs' = 1 .. Len(graphs) - 1
         /\ Len(graphs) \in Nat
         /\ \A i \in 1 .. it - 1 : graphs'[i] = graphs[i]
         /\ \A i \in it .. Len(graphs) - 1 : graphs'[i] = graphs[i + 1]
         /\ Range(graphs') = Range(graphs) \ {graphs[it]}
<1>1. it \in 1 .. Len(graphs) /\ it \in DOMAIN graphs /\ graphs \in Seq(Hypergraph)
  BY GraphAtIterator DEF EraseLarger, ListTypeOK
<1>2. graphs' = RemoveAt(graphs, it)
  BY DEF EraseLarger
<1>3. \A i \in DOMAIN graphs : graphs[i] = graphs[it] => i = it
  BY <1>1 DEF IdsMatchList
<1>4. Range(RemoveAt(graphs, it)) = Range(graphs) \ {graphs[it]}
  BY <1>1, <1>3, RangeOfRemoveAt
<1>5. /\ RemoveAt(graphs, it) \in Seq(Hypergraph)
      /\ Len(RemoveAt(graphs, it)) = Len(graphs) - 1
      /\ \A i \in 1 .. it - 1 : RemoveAt(graphs, it)[i] = graphs[i]
      /\ \A i \in it .. Len(graphs) - 1 : RemoveAt(graphs, it)[i] = graphs[i + 1]
  BY <1>1, ElementsOfRemoveAt
<1>6. /\ Len(graphs) \in Nat /\ DOMAIN graphs = 1 .. Len(graphs)
      /\ DOMAIN RemoveAt(graphs, it) = 1 .. Len(RemoveAt(graphs, it))
  BY <1>1, <1>5, LenProperties
<1> QED BY <1>2, <1>4, <1>5, <1>6

\* The list with the new graph at its end.
LEMMA Pushed ==
  ASSUME ListTypeOK, PushBack
  PROVE  /\ graphs' \in Seq(Hypergraph) /\ Len(graphs') = Len(graphs) + 1
         /\ DOMAIN graphs = 1 .. Len(graphs) /\ DOMAIN graphs' = 1 .. Len(graphs) + 1
         /\ Len(graphs) \in Nat
         /\ \A i \in 1 .. Len(graphs) : graphs'[i] = graphs[i]
         /\ graphs'[Len(graphs) + 1] = graph
         /\ Range(graphs') = Range(graphs) \cup {graph}
<1>1. graphs \in Seq(Hypergraph) /\ graph \in Hypergraph /\ graphs' = Append(graphs, graph)
  BY DEF ListTypeOK, PushBack
<1>2. /\ Append(graphs, graph) \in Seq(Hypergraph)
      /\ Len(Append(graphs, graph)) = Len(graphs) + 1
      /\ \A i \in 1 .. Len(graphs) : Append(graphs, graph)[i] = graphs[i]
      /\ Append(graphs, graph)[Len(graphs) + 1] = graph
  BY <1>1, AppendProperties
<1>3. Range(Append(graphs, graph)) = Range(graphs) \cup {graph}
  BY <1>1, RangeOfAppend
<1>4. /\ Len(graphs) \in Nat /\ DOMAIN graphs = 1 .. Len(graphs)
      /\ DOMAIN Append(graphs, graph) = 1 .. Len(Append(graphs, graph))
  BY <1>1, <1>2, LenProperties
<1> QED BY <1>1, <1>2, <1>3, <1>4

-----------------------------------------------------------------------------
(* Type correctness *)

\* Every step of addGraph keeps the state well-typed.
LEMMA ListTypeStep == ListTypeOK /\ IdsMatchList /\ [Next]_vars => ListTypeOK'
<1> SUFFICES ASSUME ListTypeOK, IdsMatchList, [Next]_vars PROVE ListTypeOK'
  OBVIOUS
<1>1. ASSUME NEW s \in Shapes, CallAddGraph(s) PROVE ListTypeOK'
  <2>1. nextID \in Nat /\ nextID + 1 \in Nat
    BY DEF ListTypeOK
  <2>2. [id |-> nextID, shape |-> s] \in Hypergraph
    BY <1>1 DEF CallAddGraph, Hypergraph
  <2>3. graph' = [id |-> nextID, shape |-> s] /\ adding' = <<graph'>>
    BY <1>1 DEF CallAddGraph, graph
  <2> QED BY <1>1, <2>1, <2>2, <2>3 DEF CallAddGraph, ListTypeOK
<1>2. CASE ReturnSubsumed
  <2>1. graphs[it] \in Hypergraph /\ graph \in Hypergraph
    BY <1>2, GraphAtIterator DEF ReturnSubsumed
  <2>2. <<graph.id, graphs[it].id>> \in IDType \X IDType
    BY <2>1 DEF Hypergraph
  <2>3. deleted' \in Seq(IDType \X IDType)
    BY <1>2, <2>2, RangeOfAppend DEF ReturnSubsumed, ListTypeOK
  <2> QED BY <1>2, <2>3 DEF ReturnSubsumed, ListTypeOK
<1>3. CASE EraseLarger
  <2>1. graphs[it] \in Hypergraph /\ graph \in Hypergraph
    BY <1>3, GraphAtIterator DEF EraseLarger
  <2>2. <<graphs[it].id, graph.id>> \in IDType \X IDType
    BY <2>1 DEF Hypergraph
  <2>3. deleted' \in Seq(IDType \X IDType)
    BY <1>3, <2>2, RangeOfAppend DEF EraseLarger, ListTypeOK
  <2>4. graphs' \in Seq(Hypergraph)
    BY <1>3, Erased
  <2> QED BY <1>3, <2>3, <2>4 DEF EraseLarger, ListTypeOK, graph
<1>4. CASE Advance
  <2>1. it + 1 \in Nat \ {0}
    BY DEF ListTypeOK
  <2> QED BY <1>4, <2>1 DEF Advance, ListTypeOK, graph
<1>5. CASE PushBack
  <2>1. graphs' \in Seq(Hypergraph)
    BY <1>5, Pushed
  <2> QED BY <1>5, <2>1 DEF PushBack, ListTypeOK
<1>6. CASE UNCHANGED vars
  BY <1>6 DEF vars, ListTypeOK, graph
<1> QED BY <1>1, <1>2, <1>3, <1>4, <1>5, <1>6 DEF Next

-----------------------------------------------------------------------------
(* The cache of ids                                                        *)

\* contains answers from the cache; the cache follows the list.
LEMMA IdsStep ==
  ListTypeOK /\ IdsMatchList /\ IdsAreFresh /\ [Next]_vars => IdsMatchList' /\ IdsAreFresh'
<1> SUFFICES ASSUME ListTypeOK, IdsMatchList, IdsAreFresh, [Next]_vars
             PROVE  IdsMatchList' /\ IdsAreFresh'
  OBVIOUS
<1>1. ASSUME NEW s \in Shapes, CallAddGraph(s) PROVE IdsMatchList' /\ IdsAreFresh'
  <2>1. graph'.id = nextID /\ nextID' = nextID + 1 /\ nextID \in Nat
    BY <1>1 DEF CallAddGraph, graph, ListTypeOK
  <2>2. \A i \in DOMAIN graphs : graphs[i].id \in Nat
    <3>1. \A i \in DOMAIN graphs : graphs[i] \in Hypergraph
      BY LenProperties, ElementOfSeq DEF ListTypeOK
    <3> QED BY <3>1, IDTypeMaxIsPositive DEF Hypergraph, IDType
  <2>3. \A i \in DOMAIN graphs : graphs[i].id < nextID'  /\ graphs[i].id # graph'.id
    BY <2>1, <2>2 DEF IdsAreFresh
  <2>4. graphs' = graphs /\ idsInList' = idsInList
    BY <1>1 DEF CallAddGraph
  <2> QED BY <2>1, <2>3, <2>4 DEF IdsMatchList, IdsAreFresh
<1>2. CASE ReturnSubsumed
  BY <1>2 DEF ReturnSubsumed, IdsMatchList, IdsAreFresh
<1>3. CASE EraseLarger
  <2>1. /\ \A i \in DOMAIN graphs' : \E k \in DOMAIN graphs : graphs'[i] = graphs[k]
        /\ \A i, j \in DOMAIN graphs' : graphs'[i].id = graphs'[j].id => i = j
    <3> DEFINE old(i) == IF i < it THEN i ELSE i + 1
    <3>1. it \in 1 .. Len(graphs) /\ Len(graphs) \in Nat
      BY <1>3, GraphAtIterator, Erased DEF EraseLarger
    <3>2. \A i \in DOMAIN graphs' : old(i) \in DOMAIN graphs /\ graphs'[i] = graphs[old(i)]
      BY <1>3, <3>1, Erased
    <3>3. \A i, j \in DOMAIN graphs' : old(i) = old(j) => i = j
      BY <1>3, <3>1, Erased
    <3> HIDE DEF old
    <3> QED BY <3>2, <3>3 DEF IdsMatchList
  <2>2. Range(graphs') = Range(graphs) \ {graphs[it]} /\ it \in DOMAIN graphs
    BY <1>3, Erased, GraphAtIterator DEF EraseLarger
  <2>3. \A g \in Range(graphs) : g.id = graphs[it].id => g = graphs[it]
    BY <2>2 DEF IdsMatchList, Range
  <2>4. idsInList' = Ids(Range(graphs'))
    BY <1>3, <2>2, <2>3 DEF EraseLarger, IdsMatchList, Ids
  <2>5. nextID' = nextID /\ adding' = adding /\ graph' = graph
    BY <1>3 DEF EraseLarger, graph
  <2> QED BY <2>1, <2>4, <2>5 DEF IdsMatchList, IdsAreFresh
<1>4. CASE Advance
  BY <1>4 DEF Advance, IdsMatchList, IdsAreFresh, graph
<1>5. CASE PushBack
  <2>1. adding # <<>> /\ adding' = <<>> /\ nextID' = nextID
        /\ idsInList' = idsInList \cup {graph.id}
    BY <1>5 DEF PushBack
  <2>2. idsInList' = Ids(Range(graphs'))
    BY <1>5, <2>1, Pushed DEF IdsMatchList, Ids
  <2>3. \A i \in DOMAIN graphs' : graphs'[i].id < nextID'
    BY <1>5, <2>1, Pushed DEF IdsAreFresh
  <2>4. \A i, j \in DOMAIN graphs' : graphs'[i].id = graphs'[j].id => i = j
    BY <1>5, <2>1, Pushed DEF IdsAreFresh, IdsMatchList
  <2> QED BY <2>1, <2>2, <2>3, <2>4 DEF IdsMatchList, IdsAreFresh
<1>6. CASE UNCHANGED vars
  BY <1>6 DEF vars, IdsMatchList, IdsAreFresh, graph
<1> QED BY <1>1, <1>2, <1>3, <1>4, <1>5, <1>6 DEF Next

-----------------------------------------------------------------------------
(* The pass                                                                *)

\* Behind an erased graph there is none below the new one: it would be below the erased one.
LEMMA NothingSmaller ==
  ASSUME ListTypeOK, PassIsRight, InLoop, FoundLarger
  PROVE  \A i \in DOMAIN graphs : ~ IsLessOrEq(graphs[i], graph)
<1> SUFFICES ASSUME NEW i \in DOMAIN graphs, IsLessOrEq(graphs[i], graph)
             PROVE  FALSE
  OBVIOUS
<1>1. it \in DOMAIN graphs /\ graphs[it] \in Hypergraph /\ graph \in Hypergraph
  BY GraphAtIterator
<1>2. graphs[i] \in Hypergraph
  BY LenProperties, ElementOfSeq DEF ListTypeOK
<1>3. IsLessOrEq(graphs[i], graphs[it])
  BY <1>1, <1>2, LeqIsQuasiOrder DEF FoundLarger, IsLessOrEq, Hypergraph
<1>4. i = it
  BY <1>1, <1>3 DEF PassIsRight
<1>5. canBeLarger
  BY <1>4 DEF PassIsRight, InLoop
<1> QED BY <1>4, <1>5 DEF FoundLarger, FoundSmaller

\* At the end of the pass the new graph is incomparable to all that is left.
LEMMA IncomparableAtEnd ==
  ASSUME ListTypeOK, PassIsRight, PushBack
  PROVE  \A i \in DOMAIN graphs :
           ~ IsLessOrEq(graph, graphs[i]) /\ ~ IsLessOrEq(graphs[i], graph)
<1>1. DOMAIN graphs = 1 .. Len(graphs) /\ Len(graphs) \in Nat
  BY LenProperties DEF ListTypeOK
<1>2. adding # <<>> /\ it = Len(graphs) + 1
  BY DEF PushBack
<1>3. \A i \in DOMAIN graphs : ~ i >= it /\ i \in 1 .. it - 1
  BY <1>1, <1>2
<1> QED BY <1>2, <1>3 DEF PassIsRight

\* Every iteration keeps what the pass knows: where the flags stand and what has been seen.
LEMMA PassStep ==
  ListTypeOK /\ IdsMatchList /\ PassIsRight /\ [Next]_vars => PassIsRight'
<1> SUFFICES ASSUME ListTypeOK, IdsMatchList, PassIsRight, [Next]_vars
             PROVE  PassIsRight'
  OBVIOUS
<1>0. DOMAIN graphs = 1 .. Len(graphs) /\ Len(graphs) \in Nat
  BY LenProperties DEF ListTypeOK
<1>1. ASSUME NEW s \in Shapes, CallAddGraph(s) PROVE PassIsRight'
  <2>1. graphs' = graphs /\ it' = 1 /\ canBeLarger'
    BY <1>1 DEF CallAddGraph
  <2>2. 1 \in 1 .. Len(graphs) + 1 /\ 1 .. 1 - 1 = {} /\ \A i \in DOMAIN graphs : i >= 1
    BY <1>0
  <2> QED BY <2>1, <2>2 DEF PassIsRight
<1>2. CASE ReturnSubsumed
  BY <1>2 DEF ReturnSubsumed, PassIsRight
<1>3. CASE EraseLarger
  <2> DEFINE old(i) == IF i < it THEN i ELSE i + 1
  <2>1. it \in 1 .. Len(graphs) /\ Len(graphs) \in Nat /\ adding # <<>>
    BY <1>3, GraphAtIterator, Erased DEF EraseLarger, InLoop
  <2>2. \A i \in DOMAIN graphs' : old(i) \in DOMAIN graphs /\ graphs'[i] = graphs[old(i)]
    BY <1>3, <2>1, Erased
  <2>3. \A i, j \in DOMAIN graphs' : old(i) = old(j) => i = j
    BY <1>3, <2>1, Erased
  <2> HIDE DEF old
  <2>4. \A i, j \in DOMAIN graphs' : IsLessOrEq(graphs'[i], graphs'[j]) => i = j
    BY <2>2, <2>3 DEF PassIsRight
  <2>5. /\ it' = it /\ adding' = adding /\ graph' = graph /\ canBeLarger' = FALSE
        /\ it \in 1 .. Len(graphs') + 1
        /\ \A i \in 1 .. it - 1 : graphs'[i] = graphs[i]
    <3>1. it' = it /\ adding' = adding /\ graph' = graph /\ canBeLarger' = FALSE
      BY <1>3 DEF EraseLarger, graph
    <3>2. Len(graphs') = Len(graphs) - 1 /\ \A i \in 1 .. it - 1 : graphs'[i] = graphs[i]
      BY <1>3, Erased
    <3> QED BY <2>1, <3>1, <3>2
  <2>6. \A i \in 1 .. it - 1 : ~ IsLessOrEq(graph, graphs'[i])
    BY <2>1, <2>5 DEF PassIsRight
  <2>7. \A i \in DOMAIN graphs : ~ IsLessOrEq(graphs[i], graph)
    BY <1>3, NothingSmaller DEF EraseLarger
  <2>8. \A i \in DOMAIN graphs' : ~ IsLessOrEq(graphs'[i], graph)
    BY <2>2, <2>7
  <2>9. /\ it' \in 1 .. Len(graphs') + 1
        /\ \A i \in 1 .. it' - 1 : ~ IsLessOrEq(graph', graphs'[i])
        /\ \A i \in DOMAIN graphs' : ~ IsLessOrEq(graphs'[i], graph')
    BY <2>5, <2>6, <2>8
  <2> QED BY <2>4, <2>9 DEF PassIsRight
<1>4. CASE Advance
  <2>1. /\ it' = it + 1 /\ graphs' = graphs /\ adding' = adding /\ graph' = graph
        /\ canBeLarger' = canBeLarger /\ adding # <<>>
        /\ ~ FoundSmaller /\ ~ IsLessOrEq(graph, graphs[it])
    BY <1>4 DEF Advance, FoundLarger, graph, InLoop
  <2>2. it \in 1 .. Len(graphs)
    BY <1>4, GraphAtIterator DEF Advance
  <2>3. it' \in 1 .. Len(graphs') + 1
    BY <1>0, <2>1, <2>2
  <2>4. \A i \in 1 .. it' - 1 : ~ IsLessOrEq(graph, graphs[i])
    <3>1. \A i \in 1 .. it' - 1 : i \in 1 .. it - 1 \/ i = it
      BY <1>0, <2>1, <2>2
    <3> QED BY <2>1, <3>1 DEF PassIsRight
  <2>5. \A i \in DOMAIN graphs : (canBeLarger /\ i >= it') \/ ~ IsLessOrEq(graphs[i], graph)
    <3>1. \A i \in DOMAIN graphs : i >= it => i >= it' \/ i = it
      BY <1>0, <2>1, <2>2
    <3> QED BY <2>1, <3>1 DEF PassIsRight, FoundSmaller
  <2> QED BY <2>1, <2>3, <2>4, <2>5 DEF PassIsRight
<1>5. CASE PushBack
  <2>1. adding' = <<>>
    BY <1>5 DEF PushBack
  <2>2. \A i, j \in DOMAIN graphs' : IsLessOrEq(graphs'[i], graphs'[j]) => i = j
    BY <1>0, <1>5, Pushed, IncomparableAtEnd DEF PassIsRight
  <2> QED BY <2>1, <2>2 DEF PassIsRight
<1>6. CASE UNCHANGED vars
  BY <1>6 DEF vars, PassIsRight, graph
<1> QED BY <1>1, <1>2, <1>3, <1>4, <1>5, <1>6 DEF Next

-----------------------------------------------------------------------------
(* Deletions                                                               *)

\* A reason that is dropped itself is reported with a reason of its own.
LEMMA DeletionsStep ==
  ListTypeOK /\ IdsMatchList /\ DeletionsAreJustified /\ [Next]_vars => DeletionsAreJustified'
<1> SUFFICES ASSUME ListTypeOK, IdsMatchList, DeletionsAreJustified, [Next]_vars
             PROVE  DeletionsAreJustified'
  OBVIOUS
<1> DEFINE alive == idsInList \cup Ids(Range(adding))
           last == Len(deleted) + 1
<1>0. Len(deleted) \in Nat /\ DOMAIN deleted = 1 .. Len(deleted)
  BY LenProperties DEF ListTypeOK
<1>1. ASSUME NEW s \in Shapes, CallAddGraph(s) PROVE DeletionsAreJustified'
  <2>1. Ids(Range(adding)) = {}
    BY <1>1, RangeOfAdding DEF CallAddGraph, Ids
  <2> QED BY <1>1, <2>1 DEF CallAddGraph, DeletionsAreJustified
\* One more deletion, after which everything is alive but what it deletes.
<1>2. ASSUME NEW gone, NEW reason, <<gone, reason>> \in IDType \X IDType,
             deleted' = Append(deleted, <<gone, reason>>),
             reason \in alive', alive \subseteq alive' \cup {gone}
      PROVE  DeletionsAreJustified'
  <2>1. /\ DOMAIN deleted' = 1 .. last /\ Len(deleted') = last
        /\ \A i \in 1 .. Len(deleted) : deleted'[i] = deleted[i]
        /\ deleted'[last] = <<gone, reason>>
    <3>1. /\ Append(deleted, <<gone, reason>>) \in Seq(IDType \X IDType)
          /\ Len(Append(deleted, <<gone, reason>>)) = Len(deleted) + 1
          /\ \A i \in 1 .. Len(deleted) : Append(deleted, <<gone, reason>>)[i] = deleted[i]
          /\ Append(deleted, <<gone, reason>>)[Len(deleted) + 1] = <<gone, reason>>
      BY <1>2, AppendProperties DEF ListTypeOK
    <3> QED BY <1>2, <3>1, LenProperties
  <2> SUFFICES ASSUME NEW i \in 1 .. last
               PROVE  \/ deleted'[i][2] \in alive'
                      \/ \E j \in i + 1 .. last : deleted'[j][1] = deleted'[i][2]
    BY <2>1 DEF DeletionsAreJustified
  <2>2. CASE i = last
    BY <1>2, <2>1, <2>2
  <2>3. CASE i \in 1 .. Len(deleted)
    <3>1. \/ deleted[i][2] \in alive
          \/ \E j \in i + 1 .. Len(deleted) : deleted[j][1] = deleted[i][2]
      BY <1>0, <2>3 DEF DeletionsAreJustified
    <3>2. deleted'[i] = deleted[i]
      BY <2>1, <2>3
    <3>3. ASSUME deleted[i][2] \in alive, deleted[i][2] \notin alive'
          PROVE  last \in i + 1 .. last /\ deleted'[last][1] = deleted'[i][2]
      <4>1. deleted[i][2] = gone
        BY <1>2, <3>3
      <4>2. last \in i + 1 .. last
        BY <1>0, <2>3
      <4> QED BY <2>1, <3>2, <4>1, <4>2
    <3>4. ASSUME NEW j \in i + 1 .. Len(deleted), deleted[j][1] = deleted[i][2]
          PROVE  j \in i + 1 .. last /\ deleted'[j][1] = deleted'[i][2]
      <4>1. j \in i + 1 .. last /\ j \in 1 .. Len(deleted)
        BY <1>0, <2>3
      <4> QED BY <2>1, <3>2, <3>4, <4>1
    <3> QED BY <3>1, <3>2, <3>3, <3>4
  <2> QED BY <1>0, <2>2, <2>3
<1>3. CASE ReturnSubsumed
  <2>1. /\ graphs[it].id \in idsInList /\ adding # <<>>
        /\ <<graph.id, graphs[it].id>> \in IDType \X IDType
    BY <1>3, GraphAtIterator DEF ReturnSubsumed, IdsMatchList, Ids, Hypergraph, InLoop
  <2>2. Ids(Range(adding)) = {graph.id}
    BY <2>1, RangeOfAdding DEF Ids
  <2> QED BY <1>2, <1>3, <2>1, <2>2 DEF ReturnSubsumed
<1>4. CASE EraseLarger
  <2>1. /\ adding # <<>>
        /\ <<graphs[it].id, graph.id>> \in IDType \X IDType
    BY <1>4, GraphAtIterator DEF EraseLarger, Hypergraph, InLoop
  <2>2. Ids(Range(adding)) = {graph.id}
    BY <2>1, RangeOfAdding DEF Ids
  <2> QED BY <1>2, <1>4, <2>1, <2>2 DEF EraseLarger
<1>5. CASE Advance
  BY <1>5 DEF Advance, DeletionsAreJustified
<1>6. CASE PushBack
  <2>1. Ids(Range(adding)) = {graph.id}
    BY <1>6, RangeOfAdding DEF Ids, PushBack
  <2>2. alive \subseteq alive' /\ deleted' = deleted
    BY <1>6, <2>1 DEF PushBack
  <2> QED BY <2>2 DEF DeletionsAreJustified
<1>7. CASE UNCHANGED vars
  BY <1>7 DEF vars, DeletionsAreJustified
<1> QED BY <1>1, <1>3, <1>4, <1>5, <1>6, <1>7 DEF Next

-----------------------------------------------------------------------------
(* What is represented                                                     *)

\* What stands in for a graph that goes represents all that the graph did.
LEMMA StandInRepresents ==
  ASSUME NEW S \in SUBSET Hypergraph, NEW T \in SUBSET Hypergraph,
         \A x \in S : \E y \in T : IsLessOrEq(y, x)
  PROVE  UpwardClosure(S) \subseteq UpwardClosure(T)
<1> SUFFICES ASSUME NEW s \in Shapes, NEW x \in S, Leq(x.shape, s)
             PROVE  Represents(T, s)
  BY DEF UpwardClosure, Represents
<1>1. PICK y \in T : Leq(y.shape, x.shape)
  BY DEF IsLessOrEq
<1>2. y.shape \in Shapes /\ x.shape \in Shapes
  BY DEF Hypergraph
<1> QED BY <1>1, <1>2, LeqIsQuasiOrder DEF Represents

\* What is in the list or in the hands of addGraph are graphs.
LEMMA KeptGraphs ==
  ASSUME NEW list \in Seq(Hypergraph), NEW a,
         a # <<>> => a = <<a[1]>> /\ a[1] \in Hypergraph
  PROVE  Range(list) \cup Range(a) \in SUBSET Hypergraph
<1>1. Range(list) \subseteq Hypergraph
  BY RangeIsSubset
<1>2. Range(a) \subseteq Hypergraph
  BY RangeOfEmpty DEF Range
<1> QED BY <1>1, <1>2

\* No step of a pass loses what a graph represented that it drops.
LEMMA RepresentedStep ==
  ListTypeOK /\ ListTypeOK' /\ IdsMatchList /\ [Next]_vars
    => UpwardClosure(Kept) \subseteq UpwardClosure(Kept')
<1> SUFFICES ASSUME ListTypeOK, ListTypeOK', IdsMatchList, [Next]_vars
             PROVE  UpwardClosure(Kept) \subseteq UpwardClosure(Kept')
  OBVIOUS
<1>types. Kept \in SUBSET Hypergraph /\ Kept' \in SUBSET Hypergraph
  BY KeptGraphs DEF ListTypeOK, Kept, graph
<1> SUFFICES \A x \in Kept : \E y \in Kept' : IsLessOrEq(y, x)
  BY <1>types, StandInRepresents
<1>reflexive. \A x \in Kept : IsLessOrEq(x, x)
  BY <1>types, LeqIsQuasiOrder DEF IsLessOrEq, Hypergraph
<1>1. ASSUME NEW s \in Shapes, CallAddGraph(s) PROVE Kept \subseteq Kept'
  BY <1>1, RangeOfAdding DEF CallAddGraph, Kept
<1>2. ASSUME ReturnSubsumed, NEW x \in Kept PROVE \E y \in Kept' : IsLessOrEq(y, x)
  <2>1. graphs[it] \in Range(graphs) /\ IsLessOrEq(graphs[it], graph)
    BY <1>2, GraphAtIterator DEF ReturnSubsumed, FoundSmaller
  <2>2. Range(graphs) \subseteq Kept'
    BY <1>2 DEF ReturnSubsumed, Kept
  <2>3. x \in Range(graphs) \/ x = graph
    BY <1>2, RangeOfAdding DEF Kept
  <2> QED BY <1>reflexive, <2>1, <2>2, <2>3
<1>3. ASSUME EraseLarger, NEW x \in Kept PROVE \E y \in Kept' : IsLessOrEq(y, x)
  <2>1. IsLessOrEq(graph, graphs[it]) /\ adding' = adding /\ adding # <<>>
    BY <1>3 DEF EraseLarger, FoundLarger, InLoop
  <2>2. Range(graphs') = Range(graphs) \ {graphs[it]}
    BY <1>3, Erased
  <2>3. Range(adding) = {graph}
    BY <2>1, RangeOfAdding
  <2>4. graph \in Kept' /\ (x \in Kept' \/ x = graphs[it])
    BY <2>1, <2>2, <2>3 DEF Kept
  <2> QED BY <1>reflexive, <2>1, <2>4
<1>4. CASE Advance
  BY <1>reflexive, <1>4 DEF Advance, Kept
<1>5. CASE PushBack
  <2>1. Range(graphs') = Range(graphs) \cup {graph} /\ Range(adding) = {graph}
    BY <1>5, Pushed, RangeOfAdding DEF PushBack
  <2>2. Kept \subseteq Kept'
    BY <2>1 DEF Kept
  <2> QED BY <1>reflexive, <2>2
<1>6. CASE UNCHANGED vars
  BY <1>reflexive, <1>6 DEF vars, Kept
<1> QED BY <1>reflexive, <1>1, <1>2, <1>3, <1>4, <1>5, <1>6 DEF Next

-----------------------------------------------------------------------------
(* The refinement                                                          *)

\* The step of MinimalGraphs.
AddsAtomically(before, g, after) ==
  /\ \A h \in before : ~ IsLessOrEq(h, g)
  /\ after = {h \in before : ~ IsLessOrEq(g, h)} \cup {g}

\* Every step of a pass leaves the abstract list alone, or is the one that adds.
LEMMA AbstractStep ==
  ASSUME ListInv, [Next]_vars
  PROVE  \/ MinimalNow' = MinimalNow
         \/ \E g \in Hypergraph : AddsAtomically(MinimalNow, g, MinimalNow')
<1> USE DEF ListInv
<1>0. \A h \in Range(graphs) : \E i \in DOMAIN graphs : h = graphs[i]
  BY DEF Range
<1>1. ASSUME NEW s \in Shapes, CallAddGraph(s) PROVE MinimalNow' = MinimalNow
  BY <1>1 DEF CallAddGraph, MinimalNow
<1>2. CASE ReturnSubsumed
  BY <1>2 DEF ReturnSubsumed, FoundSmaller, MinimalNow
<1>3. CASE EraseLarger
  <2>1. /\ Range(graphs') = Range(graphs) \ {graphs[it]} /\ IsLessOrEq(graph, graphs[it])
        /\ adding' = adding /\ graph' = graph /\ canBeLarger' = FALSE /\ adding # <<>>
        /\ graph \in Hypergraph
    BY <1>3, Erased, GraphAtIterator DEF EraseLarger, FoundLarger, graph, InLoop
  <2>2. MinimalNow' = {h \in Range(graphs) : ~ IsLessOrEq(graph, h)} \cup {graph}
    BY <2>1 DEF MinimalNow
  <2>3. CASE canBeLarger
    <3>1. \A h \in Range(graphs) : ~ IsLessOrEq(h, graph)
      BY <1>0, <1>3, NothingSmaller DEF EraseLarger
    <3>2. MinimalNow = Range(graphs)
      BY <2>3 DEF MinimalNow
    <3> QED BY <2>1, <2>2, <3>1, <3>2 DEF AddsAtomically
  <2>4. CASE ~ canBeLarger
    BY <2>1, <2>2, <2>4 DEF MinimalNow
  <2> QED BY <2>3, <2>4
<1>4. CASE Advance
  BY <1>4 DEF Advance, MinimalNow, graph
<1>5. CASE PushBack
  <2>1. /\ Range(graphs') = Range(graphs) \cup {graph} /\ adding # <<>> /\ adding' = <<>>
        /\ graph \in Hypergraph
    BY <1>5, Pushed DEF PushBack, ListTypeOK
  <2>2. \A h \in Range(graphs) : ~ IsLessOrEq(graph, h) /\ ~ IsLessOrEq(h, graph)
    BY <1>0, <1>5, IncomparableAtEnd
  <2>3. MinimalNow' = {h \in Range(graphs) : ~ IsLessOrEq(graph, h)} \cup {graph}
    BY <2>1, <2>2 DEF MinimalNow
  <2>4. CASE canBeLarger
    BY <2>1, <2>2, <2>3, <2>4 DEF AddsAtomically, MinimalNow
  <2>5. CASE ~ canBeLarger
    BY <2>1, <2>3, <2>5 DEF MinimalNow
  <2> QED BY <2>4, <2>5
<1>6. CASE UNCHANGED vars
  BY <1>6 DEF vars, MinimalNow, graph
<1> QED BY <1>1, <1>2, <1>3, <1>4, <1>5, <1>6 DEF Next

-----------------------------------------------------------------------------
(* Theorems                                                                *)

\* An empty list satisfies the invariant.
LEMMA ListInit == Init => ListInv
<1> SUFFICES ASSUME Init PROVE ListInv
  OBVIOUS
<1>1. <<>> \in Seq(Hypergraph) /\ <<>> \in Seq(IDType \X IDType) /\ DOMAIN <<>> = {}
  BY EmptySeq
<1>2. Range(graphs) = {} /\ Ids({}) = {}
  BY RangeOfEmpty DEF Init, Ids
<1>3. ListTypeOK
  BY <1>1 DEF Init, ListTypeOK
<1>4. IdsMatchList /\ IdsAreFresh
  BY <1>1, <1>2 DEF Init, IdsMatchList, IdsAreFresh
<1>5. PassIsRight /\ DeletionsAreJustified
  BY <1>1 DEF Init, PassIsRight, DeletionsAreJustified
<1> QED BY <1>3, <1>4, <1>5 DEF ListInv

\* The inductive invariant of the pass.
THEOREM ListInvariant == Spec => []ListInv
<1>1. ListInv /\ [Next]_vars => ListInv'
  BY ListTypeStep, IdsStep, PassStep, DeletionsStep DEF ListInv
<1> QED BY ListInit, <1>1, PTL DEF Spec

\* The cache that contains() asks agrees with the list at every point of the pass.
THEOREM CacheIsExact == Spec => []IdsMatchList
<1>1. ListInv => IdsMatchList
  BY DEF ListInv
<1> QED BY ListInvariant, <1>1, PTL

\* Every reported deletion can be followed to a graph that is there.
THEOREM ReasonsLeadToTheList == Spec => []DeletionsAreJustified
<1>1. ListInv => DeletionsAreJustified
  BY DEF ListInv
<1> QED BY ListInvariant, <1>1, PTL

\* No iteration of the pass loses what is represented.
THEOREM PassLosesNothing == Spec => NothingLost
<1>1. ListInv /\ ListInv' /\ [Next]_vars => [UpwardClosure(Kept) \subseteq UpwardClosure(Kept')]_vars
  BY RepresentedStep DEF ListInv
<1> QED BY ListInvariant, <1>1, PTL DEF Spec, NothingLost

\* The pass of addGraph is one atomic minimising add.
THEOREM PassIsAtomic == Spec => ImplementsMinimalGraphs
<1>1. Init => Abstract!Init
  BY RangeOfEmpty DEF Init, Abstract!Init, MinimalNow
<1>2. ListInv /\ [Next]_vars => [Abstract!Next]_MinimalNow
  <2> SUFFICES ASSUME ListInv, [Next]_vars, MinimalNow' # MinimalNow
               PROVE  Abstract!Next
    OBVIOUS
  <2>1. PICK g \in Hypergraph : AddsAtomically(MinimalNow, g, MinimalNow')
    BY AbstractStep
  <2>2. Abstract!AddGraph(g)
    BY <2>1 DEF Abstract!AddGraph, Abstract!Subsumed, Abstract!Minimized, Abstract!IsLessOrEq,
                  IsLessOrEq, AddsAtomically
  <2> QED BY <2>1, <2>2 DEF Abstract!Next, Abstract!Hypergraph, Abstract!IDType, Hypergraph, IDType
<1>3. Spec => [][Abstract!Next]_MinimalNow
  BY ListInvariant, <1>2, PTL DEF Spec
<1> QED BY <1>1, <1>3, PTL DEF Spec, ImplementsMinimalGraphs, Abstract!Spec

=============================================================================
