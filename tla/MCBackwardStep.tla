------------------------ MODULE MCBackwardStep ------------------------
(***************************************************************************)
(* Rules that rewrite, delete, create and glue, taken back from graphs     *)
(* with and without what they create, and tried forward on all graphs with *)
(* up to three vertices and a few edges.                                   *)
(***************************************************************************)
EXTENDS BackwardStep, MCPartialPOCEnumerator

Same(ids) == [x \in ids |-> x]

\* A token passes along an edge; an edge loses its target; a vertex grows an edge; an edge is
\* contracted; two vertices become one with a token; a token jumps from a deleted vertex to a
\* new one; two tokens and their vertices become one; two leaves are cut off and leave a token.
MCRules ==
  {[left |-> Graph({1, 2}, (3 :> A(1)) @@ (4 :> B(1, 2))),
    right |-> Graph({1, 2}, (3 :> A(2)) @@ (4 :> B(1, 2))), map |-> Same({1, 2, 4})],
   [left |-> Graph({1, 2}, 3 :> B(1, 2)), right |-> Graph({1}, <<>>), map |-> Same({1})],
   [left |-> Graph({1}, <<>>), right |-> Graph({1, 2}, 3 :> B(1, 2)), map |-> Same({1})],
   [left |-> Graph({1, 2}, 3 :> B(1, 2)), right |-> Graph({1}, <<>>), map |-> <<1, 1>>],
   [left |-> Graph({1, 2}, <<>>), right |-> Graph({1}, 2 :> A(1)), map |-> <<1, 1>>],
   [left |-> Graph({1, 2}, 3 :> A(1)), right |-> Graph({1, 2}, 3 :> A(2)), map |-> Same({1})],
   [left |-> Graph({1, 2}, (3 :> A(1)) @@ (4 :> A(2))), right |-> Graph({1}, 2 :> A(1)),
    map |-> <<1, 1, 2, 2>>],
   [left |-> Graph({1, 2, 3}, (4 :> B(1, 2)) @@ (5 :> B(1, 3))), right |-> Graph({1}, 2 :> A(1)),
    map |-> Same({1})]}

\* A vertex goes with all edges that leave it; a token goes and all neighbours get one, each
\* by one quantification for the tokens the vertex has and one for its edges; or all edges get
\* another label.
MCUQRules ==
  LET edge == [rule |-> [left |-> Graph({1, 2}, 3 :> B(1, 2)), right |-> Graph({1}, <<>>),
                         map |-> (2 :> 1)],
               match |-> (1 :> 1)]
      loseEdge == [edge EXCEPT !.rule.right = Graph({1, 2}, <<>>), !.rule.map = Same({1, 2})]
      tellNeighbour == [edge EXCEPT !.rule.right = Graph({1, 2}, (3 :> B(1, 2)) @@ (4 :> A(2))),
                                    !.rule.map = Same({1, 2, 3})]
      relabel == [edge EXCEPT !.rule.right = Graph({1, 2}, 3 :> C(1, 2)), !.rule.map = Same({1, 2})]
      token == [rule |-> [left |-> Graph({1}, 2 :> A(1)), right |-> Graph({1}, <<>>), map |-> Same({1})],
                match |-> (1 :> 1)]
      vertex == Graph({1}, <<>>)
      rule(left, right, map, quants) ==
        [main |-> [left |-> left, right |-> right, map |-> map], quants |-> quants]
  IN {rule(vertex, Graph({}, <<>>), <<>>, <<edge>>),
      rule(vertex, vertex, Same({1}), <<loseEdge>>),
      rule(Graph({1}, 2 :> A(1)), vertex, Same({1}), <<tellNeighbour>>),
      rule(vertex, vertex, Same({1}), <<token, loseEdge>>),
      rule(vertex, vertex, Same({1}), <<relabel>>)}

MCStartGraphs ==
  {Graph({1}, <<>>),
   Graph({1}, (2 :> A(1)) @@ (3 :> A(1))),
   Graph({1, 2}, (3 :> A(1)) @@ (4 :> A(2))),
   Graph({1, 2}, 3 :> B(1, 2)),
   Graph({1, 2}, (3 :> A(2)) @@ (4 :> B(1, 2))),
   Graph({1}, 2 :> B(1, 1))}

\* All small graphs, and those with two tokens.
MCGraphs ==
  GraphsOf(1, 2) \cup GraphsOf(2, 3) \cup GraphsOf(3, 2)
  \cup {Graph({1, 2}, (3 :> A(1)) @@ (4 :> A(1)) @@ (5 :> B(1, 2))),
        Graph({1, 2}, (3 :> A(2)) @@ (4 :> A(1)) @@ (5 :> A(1)))}

\* In the subgraph order with any settings, and in the minor order.
MCSteps ==
  {s \in [order : {"subgraph"}, rule : MCRules, graph : MCStartGraphs, injective : BOOLEAN,
          pathBound : {-1, 1}] :
     s.injective =>
       \A n \in 0 .. 2^Cardinality(s.rule.right.vertices) - 1 :
         LoopsApart(WithoutNodes(s.rule, n).right, s.graph)}
  \cup [order : {"minor"}, rule : MCRules, graph : MCStartGraphs, injective : {FALSE},
        pathBound : {-1}]
  \cup [order : {"subgraph"}, uqRule : MCUQRules, injective : {TRUE}, pathBound : {-1},
        graph : {g \in MCStartGraphs : Cardinality(Elements(g)) <= 2}
                \cup {Graph({1, 2}, 3 :> B(1, 2)), Graph({1, 2}, (3 :> B(1, 2)) @@ (4 :> C(1, 2)))}]

=============================================================================
