------------------------------ MODULE MinGraphList ------------------------------
(***************************************************************************)
(* graphs/MinGraphList: the vector of minimal graphs, its id cache and the *)
(* single pass of addGraph over the vector, one loop iteration per action. *)
(* The pass erases while it iterates and stops looking for a smaller graph *)
(* as soon as it has erased one.                                           *)
(***************************************************************************)
EXTENDS GraphOrder, Sequences, SequencesExt

VARIABLES
  graphs,       \* the stored objects, in the order of the vector
  idsInList,    \* the ids contains() looks up
  adding,       \* <<graph>> while addGraph(graph) runs, <<>> otherwise
  it,           \* the iterator of the running addGraph
  canBeLarger,  \* its flag: nothing was erased yet
  deleted,      \* pairs reported to wasDeletedBecauseOf, in order
  nextID        \* the next id of a new Hypergraph

vars == <<graphs, idsInList, adding, it, canBeLarger, deleted, nextID>>

graph == adding[1]

Ids(S) == {g.id : g \in S}

Init ==
  /\ graphs = <<>> /\ idsInList = {}
  /\ adding = <<>> /\ it = 1 /\ canBeLarger = TRUE
  /\ deleted = <<>> /\ nextID = 1

-----------------------------------------------------------------------------
(* addGraph *)

\* The caller hands over a graph it has just constructed.
CallAddGraph(s) ==
  /\ adding = <<>> /\ nextID \in IDType
  /\ adding' = <<[id |-> nextID, shape |-> s]>>
  /\ it' = 1 /\ canBeLarger' = TRUE
  /\ nextID' = nextID + 1
  /\ UNCHANGED <<graphs, idsInList, deleted>>

InLoop == adding # <<>> /\ it <= Len(graphs)

\* The tests of one iteration; the second is reached when the first fails.
FoundSmaller == canBeLarger /\ IsLessOrEq(graphs[it], graph)
FoundLarger  == ~ FoundSmaller /\ IsLessOrEq(graph, graphs[it])

ReturnSubsumedSwapped ==
  /\ InLoop /\ FoundSmaller
  /\ deleted' = Append(deleted, <<graphs[it].id, graph.id>>)
  /\ adding' = <<>> /\ it' = 1
  /\ UNCHANGED <<graphs, idsInList, canBeLarger, nextID>>
ReturnSubsumed ==
  /\ InLoop /\ FoundSmaller
  /\ deleted' = Append(deleted, <<graph.id, graphs[it].id>>)
  /\ adding' = <<>> /\ it' = 1
  /\ UNCHANGED <<graphs, idsInList, canBeLarger, nextID>>

EraseLargerThenAdvance ==
  /\ InLoop /\ FoundLarger
  /\ deleted' = Append(deleted, <<graphs[it].id, graph.id>>)
  /\ idsInList' = idsInList \ {graphs[it].id}
  /\ graphs' = RemoveAt(graphs, it)
  /\ it' = IF it < Len(graphs) THEN it + 1 ELSE it
  /\ canBeLarger' = FALSE
  /\ UNCHANGED <<adding, nextID>>
EraseLargerKeepId ==
  /\ InLoop /\ FoundLarger
  /\ deleted' = Append(deleted, <<graphs[it].id, graph.id>>)
  /\ graphs' = RemoveAt(graphs, it)
  /\ canBeLarger' = FALSE
  /\ UNCHANGED <<idsInList, adding, it, nextID>>
EraseLarger ==
  /\ InLoop /\ FoundLarger
  /\ deleted' = Append(deleted, <<graphs[it].id, graph.id>>)
  /\ idsInList' = idsInList \ {graphs[it].id}
  /\ graphs' = RemoveAt(graphs, it)
  /\ canBeLarger' = FALSE
  /\ UNCHANGED <<adding, it, nextID>>

Advance ==
  /\ InLoop /\ ~ FoundSmaller /\ ~ FoundLarger
  /\ it' = it + 1
  /\ UNCHANGED <<graphs, idsInList, adding, canBeLarger, deleted, nextID>>

PushBackUnlessReplacing ==
  /\ adding # <<>> /\ it = Len(graphs) + 1
  /\ graphs' = IF canBeLarger THEN Append(graphs, graph) ELSE graphs
  /\ idsInList' = IF canBeLarger THEN idsInList \cup {graph.id} ELSE idsInList
  /\ adding' = <<>> /\ it' = 1
  /\ UNCHANGED <<canBeLarger, deleted, nextID>>
PushBack ==
  /\ adding # <<>> /\ it = Len(graphs) + 1
  /\ graphs' = Append(graphs, graph)
  /\ idsInList' = idsInList \cup {graph.id}
  /\ adding' = <<>> /\ it' = 1
  /\ UNCHANGED <<canBeLarger, deleted, nextID>>

Next ==
  \/ \E s \in Shapes : CallAddGraph(s)
  \/ ReturnSubsumed
  \/ EraseLarger
  \/ Advance
  \/ PushBack

Spec == Init /\ [][Next]_vars

-----------------------------------------------------------------------------
(* Properties *)

\* contains(), which decides whether the search skips a graph, answers from a
\* second structure; it agrees with the vector at every point of the pass.
IdsMatchList ==
  /\ idsInList = Ids(Range(graphs))
  /\ \A i, j \in DOMAIN graphs : graphs[i].id = graphs[j].id => i = j

\* Whatever the stored graphs and the graph just being added represent stays
\* represented, although elements are erased before their replacement is stored
\* and the new graph may be rejected.
Kept == Range(graphs) \cup Range(adding)

NothingLost == [][UpwardClosure(Kept) \subseteq UpwardClosure(Kept')]_vars

\* A deletion names a reason that is itself stored, about to be stored, or was
\* deleted later for a smaller reason: the deletion file can always be followed
\* to a graph of the final list.
DeletionsAreJustified ==
  \A i \in DOMAIN deleted :
    \/ deleted[i][2] \in idsInList \cup Ids(Range(adding))
    \/ \E j \in i + 1 .. Len(deleted) : deleted[j][1] = deleted[i][2]

\* The stored objects of MinimalGraphs: what the pass will leave, as soon as that is decided.
MinimalNow ==
  IF adding = <<>> \/ canBeLarger THEN Range(graphs)
  ELSE {h \in Range(graphs) : ~ IsLessOrEq(graph, h)} \cup {graph}

Abstract == INSTANCE MinimalGraphs WITH minimal <- MinimalNow

\* The one pass implements the one atomic step of MinimalGraphs: the step takes
\* effect when the first element is erased, or at the end if none is.
ImplementsMinimalGraphs == Abstract!Spec

=============================================================================
