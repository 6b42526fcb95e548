----------------------- MODULE LeaderElectionRuleCreater -----------------------
(***************************************************************************)
(* scenarios/LeaderElectionRuleCreater: the leader election protocol on a  *)
(* ring of n processes as a graph transformation system.                   *)
(***************************************************************************)
EXTENDS GTXLReaderXerces

LOCAL Numbered(prefix, i) == prefix \o ToString(i)

LOCAL Process(label) == AddEdge(AddVertex(AddVertex(EmptyGraph)), label, <<1, 2>>)

LOCAL Same(ids) == [x \in ids |-> x]

LOCAL LERule(name, left, right, map) == [left |-> left, right |-> right, map |-> map, name |-> name]

\* Each process is an edge from the place of the one before it.
InitialRing(n) ==
  LET first == AddVertex([EmptyGraph EXCEPT !.name = "Initial leader election ring"])
      grown == Folded(
        LAMBDA acc, i :
          LET added == AddVertex(acc.graph)
          IN [graph |-> AddEdge(added, Numbered("P", i), <<acc.lastNode, added.lastUsedID>>),
              lastNode |-> added.lastUsedID],
        [graph |-> first, lastNode |-> 1], [i \in 1 .. n - 1 |-> i])
  IN AddEdge(grown.graph, Numbered("P", n), <<grown.lastNode, 1>>)

GenerateMessage(i) ==
  LET left == Process(Numbered("P", i))
  IN LERule(Numbered("P", i) \o " generates message",
            left, AddEdge(left, Numbered("M", i), <<2>>), Same(1..3))

\* Only to a process with a larger number.
ForwardMessage(i, j) ==
  LET process == Process(Numbered("P", j))
  IN LERule(Numbered("P", j) \o Numbered(" forwards message of P", i),
            AddEdge(process, Numbered("M", i), <<1>>), AddEdge(process, Numbered("M", i), <<2>>),
            Same(1..3))

ReceiveMessage(i) ==
  LERule(Numbered("P", i) \o " receives message",
         AddEdge(Process(Numbered("P", i)), Numbered("M", i), <<1>>), Process("L"), Same(1..2))

LeaveRing(label, name) == LERule(name, Process(label), AddVertex(EmptyGraph), <<1, 1>>)

\* Those that forward the message of process i.
EveryOtherProcess(i, n) == 1..n \ {i}

LargerProcesses(i, n) == i + 1 .. n

LeaderElection(n) ==
  LET each(Rule(_)) == [i \in 1..n |-> Rule(i)]
      forwarding(i) == Mapped(LAMBDA j : ForwardMessage(i, j), Ascending(LargerProcesses(i, n)))
      forward == Folded(LAMBDA acc, i : acc \o forwarding(i), <<>>, [i \in 1..n |-> i])
      rules == each(GenerateMessage) \o forward \o each(ReceiveMessage)
               \o each(LAMBDA i : LeaveRing(Numbered("P", i), Numbered("P", i) \o " leaves ring"))
               \o << LeaveRing("L", "Leader leaves the ring") >>
  IN [name |-> "leader election for " \o ToString(n) \o " processes",
      initialGraphs |-> << InitialRing(n) @@ [id |-> 1] >>,
      stdRules |-> [k \in DOMAIN rules |-> rules[k] @@ [id |-> k]],
      uqRules |-> <<>>]

-----------------------------------------------------------------------------
(* What the system is for, with at most one message of each process in the *)
(* ring at a time.  No rule creates a vertex: each is named by one of the  *)
(* first ring, and the edges are numbered.                                 *)

PC == INSTANCE PushoutComplements

\* All structure preserving mappings.
Morphisms(source, target) ==
  LET fits(e, m, f) == target.edges[f] = [source.edges[e] EXCEPT !.vertices = [i \in DOMAIN @ |-> m[@[i]]]]
      places(m) == [e \in DOMAIN source.edges |-> {f \in DOMAIN target.edges : fits(e, m, f)}]
      edgeMaps(m) == {h \in [DOMAIN source.edges -> UNION Range(places(m))] :
                        \A e \in DOMAIN h : h[e] \in places(m)[e]}
  IN UNION {{m @@ h : h \in edgeMaps(m)} : m \in [source.vertices -> target.vertices]}

Ring(vertices, edges) ==
  LET numbered == Listed(edges)
  IN [vertices |-> vertices,
      edges |-> [e \in Max(vertices) + 1 .. Max(vertices) + Len(numbered) |->
                   numbered[e - Max(vertices)]]]

\* The ring after a rule was applied.
Rewritten(rule, ring, m) ==
  LET made == PC!RewriteStep(rule, [graph |-> ring, mapp |-> m]).graph
      nameOf(class) == Min({x[2] : x \in {y \in class : y[1] = "C"}})
      edges == {[label |-> made.edges[e].label,
                 vertices |-> [i \in DOMAIN made.edges[e].vertices |-> nameOf(made.edges[e].vertices[i])]]
                  : e \in DOMAIN made.edges}
  IN Ring({nameOf(c) : c \in made.vertices}, edges)

Successors(gts, ring) ==
  LET rings(rule) == {Rewritten(rule, ring, m) : m \in Morphisms(rule.left, ring)}
      hasMessagesOnce(r) == \A e, f \in DOMAIN r.edges :
        e # f /\ r.edges[e].label = r.edges[f].label => Len(r.edges[e].vertices) = 2
  IN {r \in UNION {rings(rule) : rule \in Range(gts.stdRules)} : hasMessagesOnce(r)}

InitialRings(gts) ==
  {Ring(g.vertices, Range(g.edges)) : g \in Range(gts.initialGraphs)}

\* All rings that come after at most a number of steps.
ReachableRings(gts, steps) ==
  LET with(rings, new) == [all |-> rings.all \cup new, new |-> new]
      step(rings, i) == with(rings, UNION {Successors(gts, r) : r \in rings.new} \ rings.all)
  IN Folded(step, [all |-> InitialRings(gts), new |-> InitialRings(gts)], [i \in 1..steps |-> i]).all

Leaders(ring) == {e \in DOMAIN ring.edges : ring.edges[e].label = "L"}

=============================================================================
