---------------------------- MODULE MCStdMatchFinder ----------------------------
(***************************************************************************)
(* All searches for a small source graph in a small target graph: sources  *)
(* with up to four vertices and three edges, targets with up to four       *)
(* vertices and four edges.  Label "binary" goes with arity two and       *)
(* "unary" with arity one.                                                 *)
(***************************************************************************)
EXTENDS StdMatchFinder

Ranked(vs) == [label |-> IF Len(vs) = 2 THEN "binary" ELSE "unary", vertices |-> vs]

\* The graph with n vertices and the edges attached as es says.
GraphOf(n, es) ==
  [vertices |-> 1 .. n, edges |-> [e \in {10 + i : i \in DOMAIN es} |-> Ranked(es[e - 10])]]

Edges(n, k) == UNION {[1 .. j -> [1 .. 2 -> 1 .. n]] : j \in 0 .. k}

Sources ==
  {GraphOf(n, es) : n \in 0 .. 2, es \in {<<>>}}
    \cup {GraphOf(2, es) : es \in Edges(2, 2)}
    \cup {GraphOf(3, es) : es \in {<<<<1, 2>>>>, <<<<1, 2>>, <<2, 3>>>>, <<<<2, 3>>, <<1, 2>>>>,
                                   <<<<1>>, <<1, 2>>>>, <<<<1, 2>>, <<3>>>>,
                                   <<<<1, 2>>, <<1, 3>>, <<2, 3>>>>, <<<<1>>, <<1, 2>>, <<2, 3>>>>}}
    \cup {GraphOf(4, es) : es \in {<<<<1, 2>>, <<3, 4>>>>, <<<<1, 2>>, <<2, 3>>, <<3, 4>>>>}}

Targets ==
  {GraphOf(n, es) : n \in 1 .. 3, es \in {<<>>}}
    \cup {GraphOf(3, es) :
            es \in {<<<<1, 1>>>>, <<<<1, 2>>>>, <<<<1, 2>>, <<2, 3>>>>, <<<<1, 1>>, <<1, 2>>>>,
                    <<<<1, 2>>, <<2, 1>>>>, <<<<1, 2>>, <<1, 2>>, <<2, 3>>>>,
                    <<<<1, 2>>, <<2, 3>>, <<3, 1>>>>, <<<<1>>, <<1, 2>>>>,
                    <<<<1, 1>>, <<1>>, <<1, 2>>>>, <<<<1, 2>>, <<3>>, <<2>>>>}}
    \cup {GraphOf(4, es) :
            es \in {<<<<1, 2>>, <<3, 4>>>>, <<<<1, 2>>, <<1, 3>>, <<2, 3>>, <<3, 4>>>>,
                    <<<<1>>, <<1, 2>>, <<2, 3>>, <<1, 3>>>>}}

MCInputs ==
  [source : Sources, target : Targets, injective : BOOLEAN, stopFast : BOOLEAN]

\* What other modules take for the result of a search: MatchSearch has no shared structures.
Ascends(x, y) == x < y

Search == INSTANCE MatchSearch WITH Before <- Ascends

ThisSearch == [source |-> source, target |-> target, injective |-> input.injective, beyond |-> 0]

\* However the recursion goes through its edges, with what it shares and takes back, it returns
\* what the calls find when each has structures of its own, the matches of an injective search
\* that are not injective included; and it finds one exactly if the subgraph order says so.
ReturnsWhatCallsFind ==
  phase = "done" =>
    /\ IF input.stopFast THEN foundMappings = <<>> <=> Search!FoundMatches(ThisSearch) = {}
       ELSE Range(foundMappings) = Search!FoundMatches(ThisSearch)
    /\ input.injective => (foundMappings # <<>> <=> Search!FindsInjectiveMatch(ThisSearch))

=============================================================================
