------------------------------ MODULE SmallGraphs ------------------------------
(***************************************************************************)
(* Notation for the small graphs of the instances.                         *)
(***************************************************************************)
EXTENDS Integers, FiniteSetsExt, SequencesExt

\* Hash sets are iterated from the largest id down, as libstdc++ does for a few ids that
\* were inserted upwards.
MCBefore(x, y) == x > y

Graph(vertices, edges) ==
  [vertices |-> vertices, edges |-> edges, lastUsedID |-> Max(vertices \cup DOMAIN edges \cup {0})]

A(v) == [label |-> "A", vertices |-> <<v>>]
B(v, w) == [label |-> "B", vertices |-> <<v, w>>]
C(v, w) == [label |-> "C", vertices |-> <<v, w>>]
D(u, v, w) == [label |-> "D", vertices |-> <<u, v, w>>]

\* The graph with vertices 1..n and the edges of a set or of a sequence.
GraphWith(n, edges) ==
  Graph(1..n, [e \in n + 1 .. n + Len(edges) |-> edges[e - n]])

\* All graphs with n vertices and up to k different edges.
GraphsOf(n, k) ==
  LET possible == {A(v) : v \in 1..n} \cup {B(v, w) : v, w \in 1..n}
      sets == UNION {kSubset(i, possible) : i \in 0..k}
  IN {GraphWith(n, SetToSeq(E)) : E \in sets}

=============================================================================
