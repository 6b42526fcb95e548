-------------------------- MODULE MCLEQCheckScenario --------------------------
(***************************************************************************)
(* All graphs with up to two vertices and three edges and some more       *)
(* against bigger ones with chains, cycles, parallel edges, loops, an edge *)
(* with three vertices and isolated vertices; and pairs for the            *)
(* isomorphism check.                                                      *)
(***************************************************************************)
EXTENDS LEQCheckScenario, SmallGraphs

MCCharCodes == [A |-> <<65>>, B |-> <<66>>, C |-> <<67>>, D |-> <<68, 49>>]

Smaller1 ==
  Listed(GraphsOf(0, 0) \cup GraphsOf(1, 2) \cup GraphsOf(2, 3)) \o
  << GraphWith(3, <<A(1), A(2)>>),
     GraphWith(3, <<B(1, 2), B(2, 3), B(3, 1)>>),
     GraphWith(2, <<B(1, 2), B(1, 2), A(1)>>),
     GraphWith(3, <<A(1), A(1), A(2)>>),
     GraphWith(2, <<A(1), C(1, 1)>>),
     GraphWith(1, <<A(1), C(1, 1), B(1, 1)>>),
     GraphWith(2, <<A(1), B(1, 2), C(2, 2)>>),
     GraphWith(3, <<D(1, 2, 3)>>),
     GraphWith(2, <<D(1, 2, 1)>>) >>

\* The last two have chains of contractible edges between what may have to become one vertex.
Bigger1 ==
  << GraphWith(3, <<A(1), A(1), A(2), B(2, 3)>>),
     GraphWith(3, <<B(1, 2), B(2, 3), B(3, 1)>>),
     GraphWith(3, <<B(1, 2), B(1, 2), B(2, 3), A(3)>>),
     GraphWith(4, <<A(1), A(2), B(3, 4)>>),
     GraphWith(4, <<D(1, 2, 3), A(1), A(3), B(4, 4)>>),
     GraphWith(3, <<D(1, 2, 1), D(1, 2, 3), A(2)>>),
     GraphWith(4, <<A(1), B(1, 2), B(3, 2), C(3, 4), C(4, 3)>>),
     GraphWith(4, <<A(1), B(1, 2), C(2, 3), A(3)>>) >>

Cycle(first, n) == [i \in 1..n |-> B(first + i - 1, first + (i % n))]

\* The same graphs numbered in other ways, and a cycle of six against two of three.
Renumbered(g) ==
  LET n == Cardinality(g.vertices)
      turned(v) == n + 1 - v
      edges == [e \in DOMAIN g.edges |->
                  [g.edges[e] EXCEPT !.vertices = [i \in DOMAIN @ |-> turned(@[i])]]]
      ids == Ascending(DOMAIN g.edges)
  IN GraphWith(n, Mapped(LAMBDA e : edges[e], Reverse(ids)))

Cycles ==
  << GraphWith(6, Cycle(1, 6)),
     GraphWith(5, Cycle(1, 2) \o Cycle(3, 3)),
     GraphWith(5, Cycle(1, 3) \o <<A(4), A(4)>>),
     GraphWith(3, <<B(1, 2), B(1, 3), A(2), C(3, 3)>>),
     GraphWith(4, <<B(1, 2), B(3, 4), B(1, 4), A(3)>>) >>

MCGraphFiles ==
  [small |-> Smaller1,
   big |-> Bigger1,
   cycles |-> Cycles \o << GraphWith(6, Cycle(1, 3) \o Cycle(4, 3)) >>,
   turned |-> Mapped(Renumbered, Cycles \o Bigger1),
   empty |-> <<>>]

Check(order, upclosedset, checkset, stop) ==
  [order |-> order, upclosedset |-> upclosedset, checkset |-> checkset, faststop |-> stop]

MCCommandLines ==
  {Check(o, "small", "big", s) : o \in {"minor", "subgraph"}, s \in {Absent, "true"}}
  \cup {Check("subgraph", "small", "big", "maybe"),
        Check("minor", "small", "small", Absent),
        Check("subgraph", "cycles", "turned", Absent),
        Check("subgraph", "big", "turned", Absent),
        Check("subgraph", "turned", "turned", Absent),
        Check("tree", "small", "big", Absent),
        Check("minor", "missing", "big", Absent),
        Check("minor", "small", "missing", Absent),
        Check("minor", "empty", "big", "true"),
        Check("minor", "small", "empty", Absent),
        Check("subgraph", "small", "big", "false")}

=============================================================================
