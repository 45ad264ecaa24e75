----------------------------- MODULE Traversal -----------------------------
(***************************************************************************)
(* The walks of one search over the association graph                      *)
(* (crates/search/src/searcher.rs): the expansion of the direct hits hop   *)
(* by hop and the breadth-first search for bridges between the best three  *)
(* results.  Every query runs on a reader connection outside of any        *)
(* transaction, so the graph may change between two of them.               *)
(*                                                                         *)
(* An edge here has a stored weight that reaches min_bridge_edge_weight.   *)
(* It is "fresh" when its weight after the decay of Eq 10 does too,        *)
(* "faded" when it does not, and "undated" when last_co_retrieval is NULL, *)
(* which exempts it from decay.  Scores are any order.                     *)
(***************************************************************************)
EXTENDS Integers, Sequences, FiniteSets, SequencesExt, FiniteSetsExt

CONSTANTS
    Node,            \* memories of the user
    Scenarios,       \* the searches: hops, bridges, limit, and bounds
    MinFrontier,     \* the frontier holds max(limit, 5) hits
    MaxAnchors,      \* bridges are sought between the top 3 results
    MaxDepth,        \* max_depth of bfs_path: 3
    MaxBridgePaths,  \* max_bridge_paths: 3
    MaxChanges       \* bound on the concurrent changes of the graph

Kind == {"fresh", "undated", "faded"}

Arcs == {e \in Node \X Node : e[1] # e[2]}

ASSUME TraversalAssumption ==
    /\ IsFiniteSet(Node)
    /\ Scenarios \subseteq [hops : Nat, bridges : BOOLEAN, limit : Nat \ {0},
                            kinds : SUBSET Kind, edges : Nat, stubs : Nat]
    /\ {MinFrontier, MaxAnchors, MaxDepth, MaxBridgePaths, MaxChanges} \subseteq Nat

VARIABLES
    live,      \* rows of memories
    bare,      \* rows without embedding: the tick made them stubs
    graph,     \* edge -> kind
    ask,       \* hops, bridges and limit of the request
    pc,
    hits,      \* direct hits
    seeds,     \* the hits the expansion starts from
    have,      \* already_have: hits and what the expansion added
    frontier, hop,
    linked,    \* edges query of linked_for_many: the targets that pass the decay check
    anchors,   \* the first results
    pair,      \* the anchors i < j to be connected next
    queue, visited, asked,   \* bfs_path; asked counts its neighbour queries
    chains,    \* the paths found, each with its pair
    seen,      \* history: edges that existed at some moment of the search
    changes    \* history: how often the graph changed under the search

world  == <<live, bare, graph, seen, changes>>
walk   == <<hits, seeds, have, frontier, hop, linked>>
bridge == <<anchors, pair, queue, visited, asked, chains>>
vars   == <<world, ask, pc, walk, bridge>>

Pairs == Nat \X Nat

TypeOK ==
    /\ bare \subseteq live /\ live \subseteq Node
    /\ DOMAIN graph \subseteq Arcs /\ graph \in [DOMAIN graph -> Kind]
    /\ ask \in [hops : Nat, bridges : BOOLEAN, limit : Nat \ {0}]
    /\ pc \in {"expand", "rows", "results", "pair", "bfs", "done"}
    /\ seeds \subseteq hits /\ hits \subseteq have /\ have \subseteq Node
    /\ frontier \subseteq Node /\ linked \subseteq Node /\ hop \in 0..ask.hops
    /\ anchors \in Seq(Node) /\ pair \in Pairs
    /\ queue \in Seq(Seq(Node)) /\ visited \subseteq Node /\ asked \in Nat
    /\ chains \in Seq([pair : Pairs, path : Seq(Node)])
    /\ seen \subseteq Arcs /\ changes \in 0..MaxChanges

\* Any graph and stubs within the bounds of the scenario, any hits: every
\* hit has an embedding, and the frontier takes the best of them.  Without
\* expansion only the choice of the anchors depends on the hits, and from
\* all memories any is possible.
Init ==
    /\ live = Node
    /\ \E s \in Scenarios :
          /\ ask = [hops |-> s.hops, bridges |-> s.bridges, limit |-> s.limit]
          /\ \E E \in {E \in SUBSET Arcs : Cardinality(E) <= s.edges} : graph \in [E -> s.kinds]
          /\ bare \in {B \in SUBSET Node : Cardinality(B) <= s.stubs}
          /\ hits \in SUBSET (Node \ bare) \ {{}}
          /\ (s.hops = 0 => hits = Node)
          /\ LET n == Cardinality(hits)
                 k == Max({s.limit, MinFrontier})
             IN  seeds \in kSubset(IF n < k THEN n ELSE k, hits)
    /\ have = hits /\ frontier = seeds /\ hop = 0 /\ linked = {}
    /\ pc = "expand"
    /\ anchors = <<>> /\ pair = <<1, 2>> /\ queue = <<>> /\ visited = {} /\ asked = 0
    /\ chains = <<>>
    /\ seen = DOMAIN graph /\ changes = 0

-----------------------------------------------------------------------------
(* expand_via_graph.                                                       *)

\* linked_for_many groups the edges into a memory by MAX(weight) and
\* MAX(last_co_retrieval), which ignores NULL, and the decay check is made
\* on that mix: one dated fresh edge suffices, faded edges together may or
\* may not, and a faded edge may hide an undated one.
MustPass(E) ==
    (\E e \in E : graph[e] = "fresh") \/ (\A e \in E : graph[e] = "undated")

\* Mutant: the stored weight alone decides, without the decay of Eq 10.
PassesStored(E) == TRUE

MayPass(E) == MustPass(E) \/ Cardinality(E) > 1

\* Mutant: one hop too many.
HopsLeftInclusive == hop <= ask.hops

HopsLeft == hop < ask.hops

\* The edges query of one hop and the check on the mix.
ExpandEdges ==
    /\ pc = "expand" /\ HopsLeft /\ frontier # {}
    /\ LET Into(n) == {e \in DOMAIN graph : e[1] \in frontier /\ e[2] = n}
           targets == {n \in Node \ have : Into(n) # {}}
           must    == {n \in targets : MustPass(Into(n))}
           may     == {n \in targets : MayPass(Into(n))}
       IN  \E S \in SUBSET may :
              /\ must \subseteq S
              /\ linked' = S
    /\ pc' = "rows"
    /\ UNCHANGED <<world, ask, hits, seeds, have, frontier, hop, bridge>>

\* The rows query: a memory that was deleted meanwhile or has no embedding
\* is skipped; the others are the next frontier.
ExpandRows ==
    /\ pc = "rows"
    /\ LET found == (linked \cap live) \ bare
       IN  have' = have \cup found /\ frontier' = found
    /\ hop' = hop + 1 /\ linked' = {}
    /\ pc' = "expand"
    /\ UNCHANGED <<world, ask, hits, seeds, bridge>>

ExpandEnd ==
    /\ pc = "expand" /\ (~HopsLeft \/ frontier = {})
    /\ pc' = "results"
    /\ UNCHANGED <<world, ask, walk, bridge>>

-----------------------------------------------------------------------------
(* find_bridges.                                                           *)

\* The results are sorted by score and cut at the limit.
Results ==
    /\ pc = "results"
    /\ LET n == Min({ask.limit, MaxAnchors, Cardinality(have)})
       IN  IF ask.bridges /\ n > 1
           THEN /\ \E S \in kSubset(n, have) : anchors' \in SetToSeqs(S)
                /\ pc' = "pair"
           ELSE pc' = "done" /\ UNCHANGED anchors
    /\ UNCHANGED <<world, ask, walk, pair, queue, visited, asked, chains>>

From == anchors[pair[1]]
To   == anchors[pair[2]]

\* The pair that follows in the two loops over i < j, past the end after the last.
Successor == IF pair[2] < Len(anchors) THEN <<pair[1], pair[2] + 1>>
             ELSE <<pair[1] + 1, pair[1] + 2>>

BfsStart ==
    /\ pc = "pair" /\ pair[2] <= Len(anchors) /\ Len(chains) < MaxBridgePaths
    /\ queue' = <<<<From>>>> /\ visited' = {From} /\ asked' = 0
    /\ pc' = "bfs"
    /\ UNCHANGED <<world, ask, walk, anchors, pair, chains>>

NextPair ==
    /\ pair' = Successor
    /\ queue' = <<>> /\ visited' = {} /\ asked' = 0
    /\ pc' = "pair"

\* A path of max_depth hops is not extended.
BfsSkip ==
    /\ pc = "bfs" /\ queue # <<>> /\ Len(Head(queue)) > MaxDepth
    /\ queue' = Tail(queue)
    /\ UNCHANGED <<world, ask, pc, walk, anchors, pair, visited, asked, chains>>

\* Mutant: source and target are mixed up.
NeighborEdgesReversed(n) == {e[1] : e \in {e \in DOMAIN graph : e[2] = n}}

\* Neighbours come by weight: in any order.
NeighborEdges(n) == {e[2] : e \in {e \in DOMAIN graph : e[1] = n}}

\* Mutant: the neighbours are not marked as visited.
BfsExpandUnmarked ==
    /\ pc = "bfs" /\ queue # <<>> /\ Len(Head(queue)) <= MaxDepth
    /\ LET path == Head(queue)
           new  == NeighborEdges(Last(path)) \ visited
       IN  \/ /\ To \in new
              /\ chains' = IF Len(path) > 1
                           THEN Append(chains, [pair |-> pair, path |-> Append(path, To)])
                           ELSE chains
              /\ NextPair
           \/ /\ To \notin new
              /\ \E order \in SetToSeqs(new) :
                    queue' = Tail(queue) \o [k \in DOMAIN order |-> Append(path, order[k])]
              /\ asked' = asked + 1
              /\ UNCHANGED <<pc, pair, visited, chains>>
    /\ UNCHANGED <<world, ask, walk, anchors>>

\* A direct link is no bridge.
BfsExpand ==
    /\ pc = "bfs" /\ queue # <<>> /\ Len(Head(queue)) <= MaxDepth
    /\ LET path == Head(queue)
           new  == NeighborEdges(Last(path)) \ visited
       IN  \/ /\ To \in new
              /\ chains' = IF Len(path) > 1
                           THEN Append(chains, [pair |-> pair, path |-> Append(path, To)])
                           ELSE chains
              /\ NextPair
           \/ /\ To \notin new
              /\ \E order \in SetToSeqs(new) :
                    queue' = Tail(queue) \o [k \in DOMAIN order |-> Append(path, order[k])]
              /\ visited' = visited \cup new
              /\ asked' = asked + 1
              /\ UNCHANGED <<pc, pair, chains>>
    /\ UNCHANGED <<world, ask, walk, anchors>>

\* No path within max_depth hops.
BfsFail ==
    /\ pc = "bfs" /\ queue = <<>>
    /\ NextPair
    /\ UNCHANGED <<world, ask, walk, anchors, chains>>

\* Mutant: the loop over j ends before the last anchor.
BridgesEndEarly ==
    /\ pc = "pair" /\ (pair[2] >= Len(anchors) \/ Len(chains) >= MaxBridgePaths)
    /\ pc' = "done"
    /\ UNCHANGED <<world, ask, walk, bridge>>

BridgesEnd ==
    /\ pc = "pair" /\ (pair[2] > Len(anchors) \/ Len(chains) >= MaxBridgePaths)
    /\ pc' = "done"
    /\ UNCHANGED <<world, ask, walk, bridge>>

-----------------------------------------------------------------------------
(* Other requests: a link is made, strengthened or removed, a memory is    *)
(* deleted with its edges, a tick clears the embedding of a stub.          *)

Running == pc # "done" /\ changes < MaxChanges

SetLink ==
    /\ \E e \in Arcs :
          /\ e[1] \in live /\ e[2] \in live
          /\ graph' = [x \in DOMAIN graph \cup {e} |-> IF x = e THEN "fresh" ELSE graph[x]]
          /\ seen' = seen \cup {e}
    /\ UNCHANGED <<live, bare>>

DropLink ==
    /\ \E e \in DOMAIN graph : graph' = [x \in DOMAIN graph \ {e} |-> graph[x]]
    /\ UNCHANGED <<live, bare, seen>>

Forget ==
    /\ \E n \in live :
          /\ live' = live \ {n} /\ bare' = bare \ {n}
          /\ graph' = [e \in {e \in DOMAIN graph : n \notin {e[1], e[2]}} |-> graph[e]]
    /\ UNCHANGED seen

Strip ==
    /\ \E n \in live : bare' = bare \cup {n}
    /\ UNCHANGED <<live, graph, seen>>

Change ==
    /\ Running
    /\ SetLink \/ DropLink \/ Forget \/ Strip
    /\ changes' = changes + 1
    /\ UNCHANGED <<ask, pc, walk, bridge>>

Step ==
    \/ ExpandEdges \/ ExpandRows \/ ExpandEnd \/ Results
    \/ BfsStart \/ BfsSkip \/ BfsExpand \/ BfsFail \/ BridgesEnd

Next == Step \/ Change

Spec == Init /\ [][Next]_vars

-----------------------------------------------------------------------------
(* Reference definitions.                                                  *)

\* Sequences of different memories, as long as a chain may be.
SimplePaths ==
    {p \in SetToAllKPermutations(Node) : Len(p) \in 2..(MaxDepth + 1)}

IsPath(p, E) == \A k \in 1..(Len(p) - 1) : <<p[k], p[k + 1]>> \in E

Routes(a, b, E) == {p \in SimplePaths : Head(p) = a /\ Last(p) = b /\ IsPath(p, E)}

\* A walk from S by edges of E that passes only through T.
Trail(p, S, E, T) ==
    Len(p) >= 1 /\ p[1] \in S /\ IsPath(p, E) /\ \A k \in 2..(Len(p) - 1) : p[k] \in T

\* The memories within n hops.
Ball(S, E, T, n) == {Last(p) : p \in {p \in SeqOf(Node, n + 1) : Trail(p, S, E, T)}}

-----------------------------------------------------------------------------
(* Invariants.                                                             *)

(* Every bridge leads from one anchor to a lower one through at least one  *)
(* other memory, repeats no memory, has at most max_depth hops, and every  *)
(* hop was a strong edge at some moment of the search, whatever other      *)
(* requests link, unlink or delete between the queries of bfs_path.        *)
ChainsSound ==
    \A k \in DOMAIN chains :
        LET i == chains[k].pair[1] j == chains[k].pair[2] p == chains[k].path
        IN  i < j /\ Len(p) > 2 /\ p \in Routes(anchors[i], anchors[j], seen)

(* "BFS shortest path" (searcher.rs): on a graph that did not change, the  *)
(* pair of anchors at distance 2..max_depth get a chain of just that       *)
(* length, all others none, until max_bridge_paths chains are found.       *)
ShortestWhenStill ==
    pc = "done" /\ changes = 0 =>
        \A i, j \in DOMAIN anchors : i < j =>
            LET routes == Routes(anchors[i], anchors[j], DOMAIN graph)
                dist   == Min({Len(p) : p \in routes})
                found  == {k \in DOMAIN chains : chains[k].pair = <<i, j>>}
            IN  /\ \A k \in found : Len(chains[k].path) = dist
                /\ routes # {} /\ dist > 2 => found # {} \/ Len(chains) = MaxBridgePaths

(* bfs_path queries a memory at most once, even if its edges change while  *)
(* the search is under way: the walk ends after at most one query for each *)
(* memory it has met.                                                      *)
OneQueryEach == asked + Len(queue) <= Cardinality(visited)

FreshLinks == {e \in DOMAIN graph : graph[e] = "fresh"}

\* No other link leads where a faded one leads.
LoneFaded == {e \in DOMAIN graph : graph[e] = "faded" /\ \A f \in DOMAIN graph : f[2] = e[2] => f = e}

\* What an expansion may pass through: no stub, no hit below the frontier.
Passed == Node \ (bare \cup (hits \ seeds))

(* On a graph that did not change, the expansion adds every memory with an *)
(* embedding that unfaded dated links lead to within the asked hops, not   *)
(* passing a hit below the frontier, and only memories that links above    *)
(* the stored threshold lead to; a single faded link leads nowhere.        *)
ExpansionBounded ==
    pc = "done" /\ changes = 0 =>
        /\ Ball(seeds, FreshLinks, Passed, ask.hops) \ bare \subseteq have
        /\ have \subseteq hits \cup (Ball(seeds, DOMAIN graph \ LoneFaded, Node, ask.hops) \ bare)
=============================================================================
