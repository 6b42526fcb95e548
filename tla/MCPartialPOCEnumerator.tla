------------------------ MODULE MCPartialPOCEnumerator ------------------------
(***************************************************************************)
(* Every rule, partial and total, injective or not, between a few left and *)
(* right sides, applied backwards to a few graphs.                         *)
(***************************************************************************)
EXTENDS PartialPOCEnumerator, SmallGraphs

Lefts ==
  {Graph({1, 2}, <<>>),
   Graph({1, 2}, (3 :> A(1)) @@ (4 :> A(2))),
   Graph({1, 2}, (3 :> A(1)) @@ (4 :> A(1))),
   Graph({1, 2}, 3 :> B(1, 2)),
   Graph({1, 2, 3}, 4 :> A(3))}

Rights ==
  {Graph({1}, <<>>),
   Graph({1}, (2 :> A(1)) @@ (3 :> A(1))),
   Graph({1, 2}, 3 :> B(1, 2))}

HostGraphs ==
  {Graph({1, 2}, (3 :> A(1)) @@ (4 :> B(1, 2))),
   Graph({1}, (2 :> A(1)) @@ (3 :> B(1, 1)))}

\* The partial morphisms between two graphs.
Maps(left, right) ==
  LET functions(from, to) == UNION {[defined -> to] : defined \in SUBSET from}
  IN {m \in {v @@ e : <<v, e>> \in functions(left.vertices, right.vertices)
                                   \X functions(DOMAIN left.edges, DOMAIN right.edges)} :
        \A e \in DOMAIN left.edges \cap DOMAIN m :
          /\ Range(left.edges[e].vertices) \subseteq DOMAIN m
          /\ right.edges[m[e]] = [left.edges[e] EXCEPT !.vertices = [i \in DOMAIN @ |-> m[@[i]]]]}

Rules(left, right) == {[left |-> left, right |-> right, map |-> m] : m \in Maps(left, right)}

AllRules == UNION {Rules(p[1], p[2]) : p \in Lefts \X Rights}

Input(rule, graph, injective, originals) ==
  [rule |-> rule, graph |-> graph, injective |-> injective, originals |-> originals]

\* Rules and graphs of test/poc_enumeration_tests.cpp (numbered as in graph_generator.cpp),
\* and a rule that deletes three vertices.
TestCases ==
  LET rule0 == [left |-> Graph({1, 2, 3}, <<>>), right |-> Graph({1}, <<>>), map |-> <<1, 1, 1>>]
      rule1 == [left |-> Graph({1, 2, 3, 4}, <<>>), right |-> Graph({1, 2}, <<>>),
                map |-> <<1, 1, 2, 2>>]
      rule4 == [left |-> Graph({1, 2, 3, 4}, (5 :> B(1, 3)) @@ (6 :> B(2, 4))),
                right |-> Graph({1, 2}, (3 :> B(1, 2)) @@ (4 :> B(1, 2))),
                map |-> <<1, 1, 2, 2, 3, 4>>]
      rule5 == [left |-> Graph({1, 2}, 3 :> B(1, 2)), right |-> Graph({1}, 2 :> B(1, 1)),
                map |-> <<1, 1, 2>>]
      rule6 == [rule5 EXCEPT !.left =
                  Graph({1, 2, 4, 5}, (3 :> B(1, 2)) @@ (6 :> B(4, 5)) @@ (7 :> B(5, 4)) @@ (8 :> C(1, 4)))]
      deleting == [left |-> Graph({1, 2, 3}, (4 :> A(1)) @@ (5 :> A(2))),
                   right |-> Graph({}, <<>>), map |-> <<>>]
      graph0 == Graph({1}, 2 :> A(1))
      graph3 == Graph({1, 2}, 3 :> B(1, 2))
      graph4 == Graph({1, 2}, (3 :> B(1, 1)) @@ (4 :> B(2, 2)) @@ (5 :> C(1, 2)))
  IN {<<rule0, graph0>>, <<rule1, graph0>>, <<rule4, graph3>>, <<rule5, graph4>>,
      <<rule6, graph4>>, <<deleting, graph0>>}

MCInputs ==
  {Input(i[1], i[2], i[3], {}) : i \in AllRules \X HostGraphs \X BOOLEAN}
  \cup {Input(i[1][1], i[1][2], i[2], {}) : i \in TestCases \X BOOLEAN}
  \cup {Input(i[1], i[2], FALSE, i[3]) :
          i \in Rules(Graph({1, 2}, (3 :> A(1)) @@ (4 :> A(1))), Graph({1}, <<>>)) \X HostGraphs
                \X {{{1, 3}}, {{1, 3}, {2}}}}

\* Two unary edges become one, and with them two of three vertices that become one.
GlueRule ==
  [left |-> Graph({1, 2, 3}, (4 :> A(2)) @@ (5 :> A(3))), right |-> Graph({1}, 2 :> A(1)),
   map |-> (1 :> 1) @@ (2 :> 1) @@ (3 :> 1) @@ (4 :> 2) @@ (5 :> 2)]

GlueInputs == {Input(GlueRule, Graph({1}, 2 :> A(1)), FALSE, {})}

=============================================================================
