----------------------------- MODULE MCMinGraphList -----------------------------
(***************************************************************************)
(* Graphs made of isolated edges of two labels, as pairs of counts: the    *)
(* subgraph order compares both counts.  <<1, 1>> comes in two isomorphic  *)
(* versions, so the order is not antisymmetric.                            *)
(***************************************************************************)
EXTENDS MinGraphList

MCShapes == {<<0, 1, 0>>, <<2, 0, 0>>, <<1, 1, 0>>, <<1, 1, 1>>, <<0, 2, 0>>, <<2, 1, 0>>}

MCLeq(s, t) == s[1] <= t[1] /\ s[2] <= t[2]

=============================================================================
