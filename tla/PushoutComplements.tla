-------------------------- MODULE PushoutComplements --------------------------
(***************************************************************************)
(* What the enumerators of pushout complements are for, from the           *)
(* definition alone.  For a rule L -> R, where L may have elements without *)
(* image, and a match m of R in a graph G, a complement is a graph C with  *)
(* a mapping of L into it such that the rule applied to C there gives G    *)
(* and m, and that has no element that is not needed.  All of them are     *)
(* quotients of L beside the unmatched part of G whose tentacles are torn  *)
(* off: of Base.                                                           *)
(***************************************************************************)
EXTENDS Integers, Sequences, SequencesExt, FiniteSets, FiniteSetsExt, Functions

LOCAL ElementsOf(g) == g.vertices \cup DOMAIN g.edges

\* Two graphs with mappings of the same elements into them are the same up to ids.
Isomorphic(c, d) ==
  LET into(ids) == {x \in DOMAIN c.mapp : c.mapp[x] \in ids}
      forced(ids) == [y \in {c.mapp[x] : x \in into(ids)} |->
                        d.mapp[CHOOSE x \in DOMAIN c.mapp : c.mapp[x] = y]]
      bijections(from, to) ==
        {h \in {f @@ forced(from) :
                  f \in [from \ DOMAIN forced(from) -> to \ Range(forced(from))]} :
           IsInjective(h) /\ Range(h) = to /\ \A x \in into(from) : h[c.mapp[x]] = d.mapp[x]}
  IN /\ DOMAIN c.mapp = DOMAIN d.mapp
     /\ Cardinality(c.graph.vertices) = Cardinality(d.graph.vertices)
     /\ Cardinality(DOMAIN c.graph.edges) = Cardinality(DOMAIN d.graph.edges)
     /\ \E h \in bijections(c.graph.vertices, d.graph.vertices) :
          \E k \in bijections(DOMAIN c.graph.edges, DOMAIN d.graph.edges) :
            \A e \in DOMAIN k :
              d.graph.edges[k[e]] =
                [c.graph.edges[e] EXCEPT !.vertices = [i \in DOMAIN @ |-> h[@[i]]]]

-----------------------------------------------------------------------------
(* The rule applied: what it deletes goes, edges at deleted vertices too,  *)
(* and R is glued to the rest along the images of L.                       *)

\* The classes of the least equivalence on ids with the given pairs.
Glue(ids, pairs) ==
  FoldSet(LAMBDA p, acc : {c \in acc : p[1] \notin c /\ p[2] \notin c}
                          \cup {UNION {c \in acc : p[1] \in c \/ p[2] \in c}},
          {{x} : x \in ids}, pairs)

ClassOf(classes, x) == CHOOSE c \in classes : x \in c

RewriteStep(rule, c) ==
  LET gone == {c.mapp[x] : x \in DOMAIN c.mapp \ DOMAIN rule.map}
      left == [vertices |-> c.graph.vertices \ gone,
               edges |-> {e \in DOMAIN c.graph.edges \ gone :
                            Range(c.graph.edges[e].vertices) \cap gone = {}}]
      pairs == {<<<<"C", c.mapp[x]>>, <<"R", rule.map[x]>>>> : x \in DOMAIN rule.map}
      within(ids) == {p \in pairs : p[1] \in ids}
      glue(inC, inR) == LET ids == ({"C"} \X inC) \cup ({"R"} \X inR) IN Glue(ids, within(ids))
      vertices == glue(left.vertices, rule.right.vertices)
      edges == glue(left.edges, DOMAIN rule.right.edges)
      side(x) == IF x[1] = "C" THEN c.graph.edges[x[2]] ELSE rule.right.edges[x[2]]
      edge(x) == [side(x) EXCEPT !.vertices =
                    [i \in DOMAIN @ |-> ClassOf(vertices, <<x[1], @[i]>>)]]
  IN [graph |-> [vertices |-> vertices,
                 edges |-> [k \in edges |-> edge(CHOOSE x \in k : TRUE)]],
      mapp |-> [r \in ElementsOf(rule.right) |-> ClassOf(vertices \cup edges, <<"R", r>>)]]

-----------------------------------------------------------------------------
(* All complements                                                         *)

\* L, the unmatched elements of G and a vertex for each tentacle that was torn off.
Base(in, m) ==
  LET unmatched(ids) == ids \ Range(m)
      torn == {<<"T", t[1], t[2]>> : t \in
                 {p \in unmatched(DOMAIN in.graph.edges) \X (1..2) :
                    p[2] <= Len(in.graph.edges[p[1]].vertices)
                    /\ in.graph.edges[p[1]].vertices[p[2]] \in Range(m)}}
      end(e, i) == LET v == in.graph.edges[e].vertices[i]
                   IN IF v \in Range(m) THEN <<"T", e, i>> ELSE <<"G", v>>
      edge(x) ==
        IF x[1] = "L" THEN [in.rule.left.edges[x[2]] EXCEPT !.vertices = [i \in DOMAIN @ |-> <<"L", @[i]>>]]
        ELSE [in.graph.edges[x[2]] EXCEPT !.vertices = [i \in DOMAIN @ |-> end(x[2], i)]]
  IN [vertices |-> ({"L"} \X in.rule.left.vertices) \cup ({"G"} \X unmatched(in.graph.vertices)) \cup torn,
      edges |-> [x \in ({"L"} \X DOMAIN in.rule.left.edges)
                       \cup ({"G"} \X unmatched(DOMAIN in.graph.edges)) |-> edge(x)]]

\* The element of G under one of the base, 0 under what the rule deletes.
Under(in, m, x) ==
  CASE x[1] = "G" -> x[2]
    [] x[1] = "T" -> in.graph.edges[x[2]].vertices[x[3]]
    [] x[1] = "L" /\ x[2] \in DOMAIN in.rule.map -> m[in.rule.map[x[2]]]
    [] OTHER -> 0

AllPartitions(S) == {{{y \in S : f[y] = f[x]} : x \in S} : f \in [S -> S]}

\* Glued along L, the classes over one element of G and what R has there become one element.
BecomeOne(in, m, over, classes) ==
  LET images == {r \in DOMAIN m : m[r] = over}
      met(r) == {c \in classes : \E l \in DOMAIN in.rule.map : in.rule.map[l] = r /\ <<"L", l>> \in c}
  IN IF classes = {} THEN Cardinality(images) = 1
     ELSE /\ \A r \in images : met(r) # {}
          /\ \A part \in SUBSET classes \ {{}, classes} :
               \E r \in images : met(r) \cap part # {} /\ met(r) \ part # {}

\* The partitions of ids, one fibre over the ids of G after the other.
FibrePartitions(in, m, ids, over) ==
  LET fibre(x) == {b \in ids : Under(in, m, b) = x}
      proper(x) == {P \in AllPartitions(fibre(x)) : x = 0 \/ BecomeOne(in, m, x, P)}
  IN FoldSet(LAMBDA x, acc : {pair[1] \cup pair[2] : pair \in acc \X proper(x)}, {{}}, over \cup {0})

LeftOf(class) == {x[2] : x \in {y \in class : y[1] = "L"}}

Admitted(in, classes) ==
  IF in.injective THEN \A c \in classes : Cardinality(LeftOf(c)) <= 1
  ELSE in.originals # {} =>
         \E defined \in in.originals :
           \A c \in classes : LeftOf(c) \subseteq defined \/ LeftOf(c) \cap defined = {}

Complements(in, m) ==
  LET base == Base(in, m)
      congruent(V, E) ==
        \A c \in E : \A e, f \in c :
          /\ base.edges[e].label = base.edges[f].label
          /\ \A i \in DOMAIN base.edges[e].vertices :
               ClassOf(V, base.edges[e].vertices[i]) = ClassOf(V, base.edges[f].vertices[i])
      quotient(V, E) ==
        [graph |-> [vertices |-> V,
                    edges |-> [c \in E |->
                      LET edge == base.edges[CHOOSE e \in c : TRUE]
                      IN [edge EXCEPT !.vertices = [i \in DOMAIN @ |-> ClassOf(V, @[i])]]]],
         mapp |-> [x \in ElementsOf(in.rule.left) |-> ClassOf(V \cup E, <<"L", x>>)]]
  IN {quotient(P[1], P[2]) :
        P \in {Q \in FibrePartitions(in, m, base.vertices, in.graph.vertices)
                     \X FibrePartitions(in, m, DOMAIN base.edges, DOMAIN in.graph.edges) :
                 congruent(Q[1], Q[2]) /\ Admitted(in, Q[1] \cup Q[2])}}

=============================================================================
