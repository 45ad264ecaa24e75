-------------------------- MODULE TraversalProofs --------------------------
(***************************************************************************)
(* Proofs about Traversal, for any set of memories, any searches and any   *)
(* number of changes of the graph under a search.                          *)
(***************************************************************************)
EXTENDS Traversal, FiniteSetTheorems, WellFoundedInduction, TLAPS

(* A path of the queue of bfs_path: it starts at the first anchor, repeats *)
(* no memory, has only marked ones, and follows edges that existed when    *)
(* they were read.                                                         *)
Walk(q, start, marked, edges) ==
    /\ Len(q) \in 1..(MaxDepth + 1) /\ q[1] = start
    /\ \A a, b \in DOMAIN q : q[a] = q[b] => a = b
    /\ \A a \in DOMAIN q : q[a] \in marked
    /\ IsPath(q, edges)

(* What a search has in hand at each point.                                *)
Phase ==
    /\ pc = "rows" => hop < ask.hops
    /\ pc \in {"expand", "rows", "results"} => chains = <<>>
    /\ pc = "bfs" => pair[2] <= Len(anchors) /\ \A k \in DOMAIN queue : Walk(queue[k], From, visited, seen)
    /\ pc # "bfs" => queue = <<>> /\ asked = 0 /\ visited = {}

TInv ==
    /\ TypeOK
    /\ DOMAIN graph \subseteq seen
    /\ 1 <= pair[1] /\ pair[1] < pair[2]
    /\ Phase
    /\ OneQueryEach
    /\ ChainsSound

-----------------------------------------------------------------------------
(* Sequences.                                                              *)

(* The length of an order of a finite set.                                 *)
LEMMA OrderOf ==
  ASSUME NEW S, IsFiniteSet(S), NEW f \in SetToSeqs(S)
  PROVE  /\ f \in Seq(S) /\ Len(f) = Cardinality(S) /\ DOMAIN f = 1..Cardinality(S)
         /\ \A i, j \in DOMAIN f : f[i] = f[j] => i = j
  <1>1. Cardinality(S) \in Nat
    BY FS_CardinalityType
  <1>2. f \in [1..Cardinality(S) -> S]
    BY DEF SetToSeqs
  <1>3. f \in Seq(S) /\ Len(f) = Cardinality(S)
    BY <1>1, <1>2
  <1> QED BY <1>2, <1>3 DEF SetToSeqs

(* A sequence without repetition is an order of the set of its elements.   *)
LEMMA SimpleIsOrder ==
  ASSUME NEW p \in Seq(Node), \A a, b \in DOMAIN p : p[a] = p[b] => a = b
  PROVE  p \in SetToAllKPermutations(Node)
  <1> DEFINE S == {p[k] : k \in DOMAIN p}
             n == Len(p)
  <1>1. n \in Nat /\ DOMAIN p = 1..n /\ S \subseteq Node /\ p \in [1..n -> S]
    OBVIOUS
  <1>2. p \in Bijection(1..n, S)
    BY <1>1 DEF Bijection, Injection, Surjection, IsInjective
  <1>3. IsFiniteSet(1..n) /\ Cardinality(1..n) = n
    <2> HIDE DEF n
    <2>1. 1 \in Int /\ n \in Int
      BY <1>1
    <2>2. IsFiniteSet(1..n) /\ Cardinality(1..n) = IF 1 > n THEN 0 ELSE n - 1 + 1
      BY <2>1, FS_Interval
    <2> QED BY <1>1, <2>2
  <1>4. Cardinality(S) = n
    BY <1>2, <1>3, FS_Bijection DEF ExistsBijection
  <1>5. p \in SetToSeqs(S)
    BY <1>1, <1>4 DEF SetToSeqs
  <1> QED BY <1>1, <1>5 DEF SetToAllKPermutations

(* bfs_path appends an unmarked neighbour to a path.                       *)
LEMMA WalkExtended ==
  ASSUME NEW q \in Seq(Node), NEW start, NEW marked, NEW edges, Walk(q, start, marked, edges),
         Len(q) <= MaxDepth, NEW n \in Node, n \notin marked, <<Last(q), n>> \in edges
  PROVE  /\ Append(q, n) \in Seq(Node) /\ Len(Append(q, n)) = Len(q) + 1
         /\ Last(Append(q, n)) = n
         /\ Walk(Append(q, n), start, marked \cup {n}, edges)
  <1> DEFINE r == Append(q, n)
             m == Len(q)
  <1>0. m \in Nat /\ DOMAIN q = 1..m /\ m >= 1 /\ MaxDepth \in Nat
    BY TraversalAssumption DEF Walk
  <1>1. /\ r \in Seq(Node) /\ Len(r) = m + 1 /\ DOMAIN r = 1..(m + 1) /\ r[m + 1] = n
        /\ \A a \in 1..m : r[a] = q[a]
    BY <1>0
  <1>2. Len(r) \in 1..(MaxDepth + 1) /\ r[1] = start
    BY <1>0, <1>1 DEF Walk
  <1> HIDE DEF r
  <1>3. ASSUME NEW a \in DOMAIN r, NEW b \in DOMAIN r, r[a] = r[b] PROVE a = b
    <2>1. \A c \in 1..m : q[c] \in marked /\ r[c] # n
      BY <1>0, <1>1 DEF Walk
    <2>2. CASE a = m + 1 \/ b = m + 1
      BY <1>0, <1>1, <1>3, <2>1, <2>2
    <2>3. CASE a \in 1..m /\ b \in 1..m
      BY <1>0, <1>1, <1>3, <2>3 DEF Walk
    <2> QED BY <1>0, <1>1, <2>2, <2>3
  <1>4. \A a \in DOMAIN r : r[a] \in marked \cup {n}
    BY <1>0, <1>1 DEF Walk
  <1>5. IsPath(r, edges)
    <2> SUFFICES ASSUME NEW k \in 1..m PROVE <<r[k], r[k + 1]>> \in edges
      BY <1>0, <1>1 DEF IsPath
    <2>1. CASE k = m
      BY <1>0, <1>1, <2>1 DEF Last
    <2>2. CASE k # m
      <3>1. k \in 1..(m - 1) /\ k + 1 \in 1..m
        <4> HIDE DEF m
        <4> QED BY <1>0, <2>2
      <3> QED BY <1>1, <3>1 DEF Walk, IsPath
    <2> QED BY <2>1, <2>2
  <1>6. Last(r) = n
    BY <1>1 DEF Last
  <1> QED BY <1>1, <1>2, <1>3, <1>4, <1>5, <1>6 DEF Walk, r

(* Marking more and knowing of more edges does no harm.                    *)
LEMMA WalkStays ==
  ASSUME NEW q, NEW start, NEW marked, NEW edges, Walk(q, start, marked, edges),
         NEW more, marked \subseteq more, NEW known, edges \subseteq known
  PROVE  Walk(q, start, more, known)
  BY DEF Walk, IsPath

(* A function on 1..n is a sequence.                                       *)
LEMMA FunctionIsSeq ==
  ASSUME NEW T, NEW n \in Nat, NEW f \in [1..n -> T]
  PROVE  f \in Seq(T) /\ Len(f) = n /\ DOMAIN f = 1..n
  OBVIOUS

(* The queue after its head was replaced by paths appended at the end.     *)
Replaced(q, g, r) == q # <<>> /\ r = Tail(q) \o g

Parts(q, g, r) ==
    /\ Len(r) = Len(q) - 1 + Len(g)
    /\ \A k \in DOMAIN r :
          (\E i \in DOMAIN q : r[k] = q[i]) \/ (\E i \in DOMAIN g : r[k] = g[i])

LEMMA QueueGrown ==
  ASSUME NEW T, NEW q \in Seq(T), NEW g \in Seq(T), NEW r, Replaced(q, g, r)
  PROVE  r \in Seq(T) /\ Parts(q, g, r)
  <1>1. /\ Tail(q) \in Seq(T) /\ Len(Tail(q)) = Len(q) - 1 /\ Len(q) \in Nat \ {0}
        /\ \A i \in 1..(Len(q) - 1) : Tail(q)[i] = q[i + 1]
    BY DEF Replaced
  <1>2. /\ r \in Seq(T) /\ Len(r) = Len(Tail(q)) + Len(g) /\ Len(g) \in Nat
        /\ DOMAIN r = 1..Len(r) /\ DOMAIN g = 1..Len(g)
        /\ \A i \in 1..Len(r) : r[i] = IF i <= Len(Tail(q)) THEN Tail(q)[i]
                                      ELSE g[i - Len(Tail(q))]
    BY <1>1 DEF Replaced
  <1>3. ASSUME NEW k \in DOMAIN r
        PROVE  (\E i \in DOMAIN q : r[k] = q[i]) \/ (\E i \in DOMAIN g : r[k] = g[i])
    <2>1. CASE k <= Len(q) - 1
      <3>1. r[k] = q[k + 1] /\ k + 1 \in DOMAIN q
        BY <1>1, <1>2, <1>3, <2>1
      <3> QED BY <3>1
    <2>2. CASE ~(k <= Len(q) - 1)
      <3>1. k \in Nat /\ k <= Len(q) - 1 + Len(g) /\ k > Len(q) - 1
        BY <1>1, <1>2, <1>3, <2>2
      <3>2. k - (Len(q) - 1) \in DOMAIN g
        BY <1>1, <1>2, <3>1
      <3>3. r[k] = g[k - (Len(q) - 1)]
        BY <1>1, <1>2, <1>3, <3>1
      <3> QED BY <3>2, <3>3
    <2> QED BY <2>1, <2>2
  <1> QED BY <1>1, <1>2, <1>3 DEF Parts

-----------------------------------------------------------------------------
(* Steps that leave the bridges alone.                                     *)

(* A route stays one when more edges are known.                            *)
LEMMA RoutesGrow ==
  ASSUME NEW a, NEW b, NEW E, NEW F, E \subseteq F
  PROVE  Routes(a, b, E) \subseteq Routes(a, b, F)
  BY DEF Routes, IsPath

LEMMA ChainsKept ==
  ASSUME ChainsSound, UNCHANGED <<anchors, chains>>, seen \subseteq seen'
  PROVE  ChainsSound'
  <1> SUFFICES ASSUME NEW k \in DOMAIN chains
               PROVE  /\ chains[k].pair[1] < chains[k].pair[2] /\ Len(chains[k].path) > 2
                      /\ chains[k].path \in Routes(anchors[chains[k].pair[1]],
                                                   anchors[chains[k].pair[2]], seen')
    BY DEF ChainsSound, Routes, IsPath
  <1> QED BY RoutesGrow DEF ChainsSound

LEMMA PhaseKept ==
  ASSUME Phase, UNCHANGED <<ask, pc, hop, chains, anchors, pair, queue, asked, visited>>,
         seen \subseteq seen'
  PROVE  Phase'
  <1>1. From' = From
    BY DEF From
  <1>2. ASSUME pc = "bfs", NEW k \in DOMAIN queue PROVE Walk(queue'[k], From', visited', seen')
    BY <1>1, <1>2, WalkStays DEF Phase
  <1> QED BY <1>2 DEF Phase

(* Another request changes the graph.                                      *)
LEMMA ChangeStep ==
  ASSUME TInv, Change
  PROVE  TInv'
  <1>0. /\ bare \subseteq live /\ live \subseteq Node
        /\ DOMAIN graph \subseteq Arcs /\ graph \in [DOMAIN graph -> Kind]
        /\ DOMAIN graph \subseteq seen /\ seen \subseteq Arcs
        /\ changes \in 0..MaxChanges /\ MaxChanges \in Nat
    BY TraversalAssumption DEF TInv, TypeOK
  <1>1. /\ UNCHANGED <<ask, pc, hits, seeds, have, frontier, hop, linked, anchors, pair, queue,
                       visited, asked, chains>>
        /\ changes' = changes + 1 /\ changes < MaxChanges
    BY DEF Change, Running, walk, bridge
  <1>2. /\ bare' \subseteq live' /\ live' \subseteq Node
        /\ DOMAIN graph' \subseteq Arcs /\ graph' \in [DOMAIN graph' -> Kind]
        /\ DOMAIN graph' \subseteq seen' /\ seen' \subseteq Arcs /\ seen \subseteq seen'
    <2>1. CASE SetLink
      BY <1>0, <2>1 DEF SetLink, Kind
    <2>2. CASE DropLink
      BY <1>0, <2>2 DEF DropLink
    <2>3. CASE Forget
      BY <1>0, <2>3 DEF Forget
    <2>4. CASE Strip
      BY <1>0, <2>4 DEF Strip
    <2> QED BY <2>1, <2>2, <2>3, <2>4 DEF Change
  <1>3. changes' \in 0..MaxChanges
    BY <1>0, <1>1
  <1>4. TypeOK'
    BY <1>1, <1>2, <1>3 DEF TInv, TypeOK
  <1>5. Phase' /\ ChainsSound'
    BY <1>1, <1>2, PhaseKept, ChainsKept DEF TInv
  <1> QED BY <1>1, <1>2, <1>4, <1>5 DEF TInv, OneQueryEach

(* The expansion and the choice of the anchors.                            *)
LEMMA ExpandStep ==
  ASSUME TInv, ExpandEdges \/ ExpandRows \/ ExpandEnd
  PROVE  TInv'
  <1>0. /\ have \subseteq Node /\ hop \in 0..ask.hops /\ ask.hops \in Nat
        /\ live \subseteq Node /\ hits \subseteq have
    BY DEF TInv, TypeOK
  <1>1. /\ UNCHANGED <<live, bare, graph, seen, changes, ask, hits, seeds, anchors, pair, queue,
                       visited, asked, chains>>
        /\ pc \in {"expand", "rows"} /\ pc' \in {"expand", "rows", "results"}
    BY DEF ExpandEdges, ExpandRows, ExpandEnd, world, walk, bridge
  <1>2. /\ have \subseteq have' /\ have' \subseteq Node /\ frontier' \subseteq Node
        /\ linked' \subseteq Node /\ hop' \in 0..ask.hops
        /\ pc' = "rows" => hop' < ask.hops
    <2>1. CASE ExpandEdges
      BY <1>0, <2>1 DEF ExpandEdges, HopsLeft, TInv, TypeOK
    <2>2. CASE ExpandRows
      <3>1. hop < ask.hops
        BY <2>2 DEF ExpandRows, TInv, Phase
      <3> QED BY <1>0, <2>2, <3>1 DEF ExpandRows
    <2>3. CASE ExpandEnd
      BY <1>0, <2>3 DEF ExpandEnd, walk, TInv, TypeOK
    <2> QED BY <2>1, <2>2, <2>3
  <1>3. TypeOK'
    BY <1>1, <1>2 DEF TInv, TypeOK
  <1>4. Phase'
    BY <1>1, <1>2 DEF TInv, Phase
  <1>5. ChainsSound'
    BY <1>1, ChainsKept DEF TInv
  <1> QED BY <1>1, <1>3, <1>4, <1>5 DEF TInv, OneQueryEach

LEMMA ResultsStep ==
  ASSUME TInv, Results
  PROVE  TInv'
  <1>1. /\ UNCHANGED <<live, bare, graph, seen, changes, ask, hits, seeds, have, frontier, hop,
                       linked, pair, queue, visited, asked, chains>>
        /\ pc = "results" /\ pc' \in {"pair", "done"} /\ chains = <<>>
    BY DEF Results, world, walk, TInv, Phase
  <1>2. anchors' \in Seq(Node)
    <2>1. CASE UNCHANGED anchors
      BY <2>1 DEF TInv, TypeOK
    <2>2. CASE \E n : \E S \in kSubset(n, have) : anchors' \in SetToSeqs(S)
      <3>0. PICK n : \E S \in kSubset(n, have) : anchors' \in SetToSeqs(S)
        BY <2>2
      <3>1. PICK S \in kSubset(n, have) : anchors' \in SetToSeqs(S)
        BY <3>0
      <3>2. S \in SUBSET Node /\ IsFiniteSet(Node)
        BY <3>1, TraversalAssumption DEF kSubset, TInv, TypeOK
      <3>3. IsFiniteSet(S)
        BY <3>2, FS_Subset
      <3>4. anchors' \in Seq(S)
        BY <3>1, <3>3, OrderOf
      <3> QED BY <3>2, <3>4
    <2> QED BY <2>1, <2>2 DEF Results
  <1>3. TypeOK'
    BY <1>1, <1>2 DEF TInv, TypeOK
  <1>4. ChainsSound'
    BY <1>1 DEF ChainsSound
  <1> QED BY <1>1, <1>3, <1>4 DEF TInv, OneQueryEach, Phase

-----------------------------------------------------------------------------
(* The search for bridges.                                                 *)

(* The loops over i and j stay on pairs i < j.                             *)
LEMMA SuccessorIsPair ==
  ASSUME pair \in Pairs, 1 <= pair[1], pair[1] < pair[2], anchors \in Seq(Node)
  PROVE  Successor \in Pairs /\ 1 <= Successor[1] /\ Successor[1] < Successor[2]
  BY DEF Successor, Pairs

(* A walk to the next pair leaves nothing of the last one behind.          *)
LEMMA PairStep ==
  ASSUME TInv, BfsStart \/ BfsFail \/ BridgesEnd
  PROVE  TInv'
  <1>0. /\ pair \in Pairs /\ 1 <= pair[1] /\ pair[1] < pair[2]
        /\ anchors \in Seq(Node) /\ MaxDepth \in Nat
    BY TraversalAssumption DEF TInv, TypeOK
  <1>1. /\ UNCHANGED <<live, bare, graph, seen, changes, ask, hits, seeds, have, frontier, hop,
                       linked, anchors, chains>>
        /\ pc \in {"pair", "bfs"}
    BY DEF BfsStart, BfsFail, BridgesEnd, world, walk, bridge
  <1>2. ChainsSound'
    BY <1>1, ChainsKept DEF TInv
  <1>3. CASE BfsStart
    <2>1. /\ pc = "pair" /\ pc' = "bfs" /\ UNCHANGED pair /\ pair[2] <= Len(anchors)
          /\ queue' = <<<<From>>>> /\ visited' = {From} /\ asked' = 0
      BY <1>3 DEF BfsStart
    <2>2. From \in Node
      BY <1>0, <2>1 DEF From, Pairs
    <2>3. From' = From
      BY <1>1, <2>1 DEF From
    <2> DEFINE a == From
    <2>4. <<a>> \in Seq(Node) /\ Len(<<a>>) = 1 /\ <<a>>[1] = a /\ DOMAIN <<a>> = {1}
      BY <2>2
    <2>5. queue' \in Seq(Seq(Node)) /\ Len(queue') = 1 /\ queue'[1] = <<a>> /\ DOMAIN queue' = {1}
      BY <2>1, <2>4
    <2>6. Walk(<<a>>, a, {a}, seen)
      <3> HIDE DEF a
      <3>1. IsPath(<<a>>, seen)
        BY <2>4 DEF IsPath
      <3>2. Len(<<a>>) \in 1..(MaxDepth + 1)
        BY <1>0, <2>4
      <3> QED BY <2>4, <3>1, <3>2 DEF Walk
    <2>7. Phase'
      BY <1>1, <2>1, <2>3, <2>5, <2>6 DEF TInv, Phase
    <2>8. TypeOK'
      BY <1>1, <2>1, <2>2, <2>5 DEF TInv, TypeOK
    <2>9. OneQueryEach'
      <3>1. Cardinality(visited') = 1
        BY <2>1, FS_Singleton
      <3> QED BY <2>1, <2>5, <3>1 DEF OneQueryEach
    <2> QED BY <1>1, <1>2, <2>1, <2>7, <2>8, <2>9 DEF TInv
  <1>4. CASE BfsFail
    <2>1. /\ pair' = Successor /\ queue' = <<>> /\ visited' = {} /\ asked' = 0
          /\ pc = "bfs" /\ pc' = "pair"
      BY <1>4 DEF BfsFail, NextPair
    <2>2. pair' \in Pairs /\ 1 <= pair'[1] /\ pair'[1] < pair'[2]
      BY <1>0, <2>1, SuccessorIsPair
    <2>3. OneQueryEach'
      BY <2>1, FS_EmptySet DEF OneQueryEach
    <2>4. TypeOK'
      BY <1>1, <2>1, <2>2 DEF TInv, TypeOK
    <2> QED BY <1>1, <1>2, <2>1, <2>2, <2>3, <2>4 DEF TInv, Phase
  <1>5. CASE BridgesEnd
    <2>1. UNCHANGED <<pair, queue, visited, asked>> /\ pc = "pair" /\ pc' = "done"
      BY <1>5 DEF BridgesEnd, bridge
    <2>2. TypeOK'
      BY <1>1, <2>1 DEF TInv, TypeOK
    <2> QED BY <1>1, <1>2, <2>1, <2>2 DEF TInv, Phase, OneQueryEach
  <1> QED BY <1>3, <1>4, <1>5

LEMMA SkipStep ==
  ASSUME TInv, BfsSkip
  PROVE  TInv'
  <1>1. /\ UNCHANGED <<live, bare, graph, seen, changes, ask, pc, hits, seeds, have, frontier, hop,
                       linked, anchors, pair, visited, asked, chains>>
        /\ pc = "bfs" /\ queue # <<>> /\ queue' = Tail(queue)
    BY DEF BfsSkip, world, walk
  <1>2. queue \in Seq(Seq(Node)) /\ asked \in Nat /\ visited \subseteq Node
    BY DEF TInv, TypeOK
  <1>3. /\ queue' \in Seq(Seq(Node)) /\ Len(queue') = Len(queue) - 1
        /\ \A k \in DOMAIN queue' : k + 1 \in DOMAIN queue /\ queue'[k] = queue[k + 1]
    BY <1>1, <1>2
  <1>4. Cardinality(visited) \in Nat
    BY <1>2, FS_Subset, FS_CardinalityType, TraversalAssumption
  <1>5. OneQueryEach'
    <2>1. asked + Len(queue) <= Cardinality(visited) /\ Len(queue) \in Nat
      BY <1>2 DEF TInv, OneQueryEach
    <2>2. asked + (Len(queue) - 1) <= Cardinality(visited)
      BY <1>2, <1>4, <2>1
    <2> QED BY <1>1, <1>3, <2>2 DEF OneQueryEach
  <1>6. From' = From
    BY <1>1 DEF From
  <1>7. Phase'
    BY <1>1, <1>3, <1>6 DEF TInv, Phase
  <1>8. ChainsSound'
    BY <1>1, ChainsKept DEF TInv
  <1>9. TypeOK'
    BY <1>1, <1>3 DEF TInv, TypeOK
  <1> QED BY <1>1, <1>5, <1>7, <1>8, <1>9 DEF TInv

LEMMA NeighborHasEdge ==
  ASSUME DOMAIN graph \subseteq Arcs, NEW m, NEW n \in NeighborEdges(m)
  PROVE  n \in Node /\ <<m, n>> \in DOMAIN graph
  <1>1. PICK e \in DOMAIN graph : e[1] = m /\ e[2] = n
    BY DEF NeighborEdges
  <1>2. e \in Node \X Node
    BY <1>1 DEF Arcs
  <1> QED BY <1>1, <1>2

(* What one query that does not meet the target does to the queue.         *)
Grows(path, new, order) ==
    /\ queue' = Tail(queue) \o [k \in DOMAIN order |-> Append(path, order[k])]
    /\ visited' = visited \cup new /\ asked' = asked + 1
    /\ UNCHANGED <<live, bare, graph, seen, changes, ask, pc, hits, seeds, have, frontier, hop,
                   linked, anchors, pair, chains>>

(* One query: the neighbours, none of them the target, go to the queue.    *)
LEMMA GrowStep ==
  ASSUME TInv, pc = "bfs", queue # <<>>,
         NEW path, path = Head(queue), Len(path) <= MaxDepth,
         NEW new, new = NeighborEdges(Last(path)) \ visited,
         NEW order \in SetToSeqs(new), Grows(path, new, order)
  PROVE  TInv'
  <1> DEFINE g == [k \in DOMAIN order |-> Append(path, order[k])]
  <1>0. /\ queue \in Seq(Seq(Node)) /\ asked \in Nat /\ visited \subseteq Node
        /\ DOMAIN graph \subseteq Arcs /\ DOMAIN graph \subseteq seen
        /\ path \in Seq(Node) /\ 1 \in DOMAIN queue /\ path = queue[1]
    BY DEF TInv, TypeOK
  <1>1. /\ queue' = Tail(queue) \o g /\ visited' = visited \cup new /\ asked' = asked + 1
        /\ UNCHANGED <<live, bare, graph, seen, changes, ask, pc, hits, seeds, have, frontier, hop,
                       linked, anchors, pair, chains>>
    BY DEF Grows
  <1> HIDE DEF g
  <1>2. new \subseteq Node /\ new \cap visited = {}
    BY <1>0, NeighborHasEdge
  <1>3. /\ IsFiniteSet(new) /\ IsFiniteSet(visited)
        /\ Cardinality(new) \in Nat /\ Cardinality(visited) \in Nat
        /\ Cardinality(visited') = Cardinality(visited) + Cardinality(new)
    <2>1. IsFiniteSet(new) /\ IsFiniteSet(visited)
      BY <1>0, <1>2, FS_Subset, TraversalAssumption
    <2>2. Cardinality(new) \in Nat /\ Cardinality(visited) \in Nat
      BY <2>1, FS_CardinalityType
    <2>3. Cardinality(visited \cup new) =
             Cardinality(visited) + Cardinality(new) - Cardinality(visited \cap new)
      BY <2>1, FS_Union
    <2>4. Cardinality(visited \cap new) = 0
      BY <1>2, FS_EmptySet
    <2> QED BY <1>1, <2>1, <2>2, <2>3, <2>4
  <1>4. order \in Seq(new) /\ Len(order) = Cardinality(new) /\ DOMAIN order = 1..Cardinality(new)
    BY <1>3, OrderOf
  <1>5. Walk(path, From, visited, seen)
    BY <1>0 DEF TInv, Phase
  <1>6. ASSUME NEW n \in new
        PROVE  Append(path, n) \in Seq(Node) /\ Walk(Append(path, n), From, visited \cup new, seen)
    <2>1. n \in Node /\ n \notin visited /\ <<Last(path), n>> \in seen
      BY <1>0, <1>2, NeighborHasEdge
    <2>2. Append(path, n) \in Seq(Node) /\ Walk(Append(path, n), From, visited \cup {n}, seen)
      BY <1>0, <1>5, <2>1, WalkExtended
    <2>3. visited \cup {n} \subseteq visited \cup new
      OBVIOUS
    <2> QED BY <2>2, <2>3, WalkStays
  <1>7. g \in Seq(Seq(Node)) /\ Len(g) = Cardinality(new) /\ DOMAIN g = DOMAIN order
    <2>1. g \in [1..Cardinality(new) -> Seq(Node)]
      <3> SUFFICES ASSUME NEW k \in 1..Cardinality(new) PROVE Append(path, order[k]) \in Seq(Node)
        BY <1>4 DEF g
      <3>1. order[k] \in new
        BY <1>4
      <3> QED BY <1>6, <3>1
    <2> QED BY <1>3, <1>4, <2>1, FunctionIsSeq
  <1>8. /\ queue' \in Seq(Seq(Node)) /\ Len(queue') = Len(queue) - 1 + Len(g)
        /\ \A k \in DOMAIN queue' : (\E i \in DOMAIN queue : queue'[k] = queue[i])
                                       \/ (\E i \in DOMAIN g : queue'[k] = g[i])
    <2>1. Replaced(queue, g, queue')
      BY <1>1 DEF Replaced
    <2>2. queue \in Seq(Seq(Node)) /\ g \in Seq(Seq(Node))
      BY <1>0, <1>7
    <2>3. queue' \in Seq(Seq(Node)) /\ Parts(queue, g, queue')
      BY <2>1, <2>2, QueueGrown
    <2> QED BY <2>3 DEF Parts
  <1>9. ASSUME NEW k \in DOMAIN queue' PROVE Walk(queue'[k], From, visited', seen)
    <2>1. CASE \E i \in DOMAIN queue : queue'[k] = queue[i]
      <3>1. PICK i \in DOMAIN queue : queue'[k] = queue[i]
        BY <2>1
      <3>2. Walk(queue[i], From, visited, seen)
        BY <3>1 DEF TInv, Phase
      <3> QED BY <1>1, <3>1, <3>2, WalkStays
    <2>2. CASE \E i \in DOMAIN g : queue'[k] = g[i]
      <3>1. PICK i \in DOMAIN g : queue'[k] = g[i]
        BY <2>2
      <3>2. order[i] \in new /\ g[i] = Append(path, order[i])
        BY <1>4, <1>7, <3>1 DEF g
      <3> QED BY <1>6, <1>1, <3>1, <3>2
    <2> QED BY <1>8, <2>1, <2>2
  <1>10. From' = From
    BY <1>1 DEF From
  <1>11. Phase'
    BY <1>9, <1>10, <1>1 DEF TInv, Phase
  <1>12. OneQueryEach'
    <2>1. asked + Len(queue) <= Cardinality(visited) /\ Len(queue) \in Nat
      BY <1>0 DEF TInv, OneQueryEach
    <2>2. (asked + 1) + (Len(queue) - 1 + Cardinality(new)) <= Cardinality(visited) + Cardinality(new)
      BY <1>0, <1>3, <2>1
    <2> QED BY <1>3, <1>7, <1>8, <1>1, <2>2 DEF OneQueryEach
  <1>13. ChainsSound'
    BY <1>1, ChainsKept DEF TInv
  <1>14. TypeOK'
    BY <1>0, <1>2, <1>8, <1>1 DEF TInv, TypeOK
  <1> QED BY <1>0, <1>11, <1>12, <1>13, <1>14, <1>1 DEF TInv

(* A query that meets the target completes a route to it.                  *)
LEMMA FoundRoute ==
  ASSUME TInv, pc = "bfs", queue # <<>>, NEW path, path = Head(queue), Len(path) <= MaxDepth,
         To \in NeighborEdges(Last(path)) \ visited
  PROVE  /\ path \in Seq(Node) /\ Len(path) >= 1
         /\ Append(path, To) \in Seq(Node) /\ Len(Append(path, To)) = Len(path) + 1
         /\ Append(path, To) \in Routes(From, To, seen)
  <1> DEFINE p == Append(path, To)
  <1>1. /\ queue \in Seq(Seq(Node)) /\ MaxDepth \in Nat
        /\ DOMAIN graph \subseteq Arcs /\ DOMAIN graph \subseteq seen
    BY TraversalAssumption DEF TInv, TypeOK
  <1>2. path \in Seq(Node) /\ Walk(path, From, visited, seen)
    <2>1. 1 \in DOMAIN queue /\ path = queue[1] /\ path \in Seq(Node)
      BY <1>1
    <2> QED BY <2>1 DEF TInv, Phase
  <1>3. To \in Node /\ To \notin visited /\ <<Last(path), To>> \in seen
    BY <1>1, NeighborHasEdge
  <1>4. /\ p \in Seq(Node) /\ Len(p) = Len(path) + 1 /\ Last(p) = To
        /\ Walk(p, From, visited \cup {To}, seen)
    BY <1>2, <1>3, WalkExtended
  <1> HIDE DEF p
  <1>5. p \in SetToAllKPermutations(Node)
    BY <1>4, SimpleIsOrder DEF Walk
  <1>6. Len(path) \in Nat /\ Len(path) >= 1 /\ Len(p) \in 2..(MaxDepth + 1)
    BY <1>1, <1>2, <1>4 DEF Walk
  <1>7. Head(p) = From /\ IsPath(p, seen)
    BY <1>4 DEF Walk
  <1>8. p \in SimplePaths
    BY <1>5, <1>6 DEF SimplePaths
  <1> QED BY <1>2, <1>4, <1>6, <1>7, <1>8 DEF Routes, p

(* One query meets the target.                                             *)
LEMMA FoundStep ==
  ASSUME TInv, BfsExpand, NEW path, path = Head(queue), To \in NeighborEdges(Last(path)) \ visited
  PROVE  TInv'
  <1> DEFINE p == Append(path, To)
             c == [pair |-> pair, path |-> p]
  <1>0. /\ pc = "bfs" /\ queue # <<>> /\ Len(path) <= MaxDepth
        /\ chains' = IF Len(path) > 1 THEN Append(chains, c) ELSE chains
        /\ pair' = Successor /\ queue' = <<>> /\ visited' = {} /\ asked' = 0 /\ pc' = "pair"
        /\ UNCHANGED <<live, bare, graph, seen, changes, ask, hits, seeds, have, frontier, hop,
                       linked, anchors>>
    BY DEF BfsExpand, NextPair, world, walk
  <1>1. /\ queue \in Seq(Seq(Node)) /\ pair \in Pairs /\ 1 <= pair[1] /\ pair[1] < pair[2]
        /\ DOMAIN graph \subseteq Arcs /\ DOMAIN graph \subseteq seen
        /\ anchors \in Seq(Node) /\ chains \in Seq([pair : Pairs, path : Seq(Node)])
        /\ MaxDepth \in Nat
    BY TraversalAssumption DEF TInv, TypeOK
  <1>4. p \in Seq(Node) /\ Len(path) >= 1 /\ Len(p) = Len(path) + 1 /\ p \in Routes(From, To, seen)
    BY <1>0, FoundRoute
  <1>5. Len(path) > 1 => c.path \in Routes(From, To, seen) /\ Len(c.path) > 2
    <2>1. Len(path) \in Nat
      BY <1>0, <1>1, FoundRoute
    <2> HIDE DEF p
    <2> QED BY <1>4, <2>1
  <1>6. c \in [pair : Pairs, path : Seq(Node)]
    BY <1>1, <1>4
  <1>7. c.pair = pair
    OBVIOUS
  <1> HIDE DEF c, p
  <1>8. chains' \in Seq([pair : Pairs, path : Seq(Node)])
    <2> DEFINE C == [pair : Pairs, path : Seq(Node)]
    <2> HIDE DEF C
    <2>1. chains \in Seq(C) /\ c \in C
      BY <1>1, <1>6 DEF C
    <2>2. Append(chains, c) \in Seq(C)
      BY <2>1
    <2> QED BY <1>0, <2>1, <2>2 DEF C
  <1>9. ChainsSound'
    <2>1. CASE Len(path) > 1
      <3>1. /\ chains' = Append(chains, c) /\ Len(chains) \in Nat
            /\ DOMAIN chains' = 1..(Len(chains) + 1) /\ DOMAIN chains = 1..Len(chains)
            /\ chains'[Len(chains) + 1] = c /\ \A k \in 1..Len(chains) : chains'[k] = chains[k]
        BY <1>0, <1>1, <1>6, <2>1
      <3>2. ASSUME NEW k \in DOMAIN chains'
            PROVE  /\ chains'[k].pair[1] < chains'[k].pair[2] /\ Len(chains'[k].path) > 2
                   /\ chains'[k].path \in Routes(anchors[chains'[k].pair[1]],
                                                 anchors[chains'[k].pair[2]], seen)
        <4>1. CASE k \in DOMAIN chains
          BY <3>1, <4>1 DEF TInv, ChainsSound
        <4>2. CASE k = Len(chains) + 1
          BY <1>1, <1>5, <1>7, <2>1, <3>1, <4>2 DEF From, To
        <4> QED BY <3>1, <3>2, <4>1, <4>2
      <3> QED BY <1>0, <3>2 DEF ChainsSound, Routes, IsPath
    <2>2. CASE ~(Len(path) > 1)
      BY <1>0, <2>2, ChainsKept DEF TInv
    <2> QED BY <2>1, <2>2
  <1>10. pair' \in Pairs /\ 1 <= pair'[1] /\ pair'[1] < pair'[2]
    BY <1>0, <1>1, SuccessorIsPair
  <1>11. OneQueryEach'
    BY <1>0, FS_EmptySet DEF OneQueryEach
  <1>12. TypeOK'
    BY <1>0, <1>8, <1>10 DEF TInv, TypeOK
  <1> QED BY <1>0, <1>1, <1>9, <1>10, <1>11, <1>12 DEF TInv, Phase

LEMMA ExpansionStep ==
  ASSUME TInv, BfsExpand
  PROVE  TInv'
  <1> DEFINE path == Head(queue)
             new == NeighborEdges(Last(path)) \ visited
  <1>1. CASE To \in new
    BY <1>1, FoundStep
  <1>2. CASE To \notin new
    <2>1. /\ pc = "bfs" /\ queue # <<>> /\ Len(path) <= MaxDepth
          /\ \E order \in SetToSeqs(new) : Grows(path, new, order)
      BY <1>2 DEF BfsExpand, Grows, world, walk
    <2> QED BY <2>1, GrowStep
  <1> QED BY <1>1, <1>2

-----------------------------------------------------------------------------
(* Theorems.                                                               *)

LEMMA TInvInit == Init => TInv
  <1> SUFFICES ASSUME Init PROVE TInv
    OBVIOUS
  <1>1. /\ live = Node /\ have = hits /\ frontier = seeds /\ hop = 0 /\ linked = {}
        /\ pc = "expand" /\ anchors = <<>> /\ pair = <<1, 2>> /\ queue = <<>> /\ visited = {}
        /\ asked = 0 /\ chains = <<>> /\ seen = DOMAIN graph /\ changes = 0
    BY DEF Init
  <1>2. PICK s \in Scenarios :
           /\ ask = [hops |-> s.hops, bridges |-> s.bridges, limit |-> s.limit]
           /\ \E E \in {E \in SUBSET Arcs : Cardinality(E) <= s.edges} : graph \in [E -> s.kinds]
           /\ bare \in {B \in SUBSET Node : Cardinality(B) <= s.stubs}
           /\ hits \in SUBSET (Node \ bare) \ {{}}
           /\ \E n : seeds \in kSubset(n, hits)
    BY DEF Init
  <1>3. /\ s \in [hops : Nat, bridges : BOOLEAN, limit : Nat \ {0}, kinds : SUBSET Kind,
                  edges : Nat, stubs : Nat]
        /\ MaxChanges \in Nat
    BY TraversalAssumption
  <1>4. ask \in [hops : Nat, bridges : BOOLEAN, limit : Nat \ {0}] /\ ask.hops \in Nat
    <2>1. s.hops \in Nat /\ s.bridges \in BOOLEAN /\ s.limit \in Nat \ {0}
      BY <1>3
    <2> QED BY <1>2, <2>1
  <1>5. DOMAIN graph \subseteq Arcs /\ graph \in [DOMAIN graph -> Kind]
    BY <1>2, <1>3
  <1>6. seeds \subseteq hits /\ hits \subseteq Node /\ bare \subseteq Node
    BY <1>2 DEF kSubset
  <1>7. TypeOK
    <2>1. hop \in 0..ask.hops /\ changes \in 0..MaxChanges /\ pair \in Pairs
      BY <1>1, <1>3, <1>4 DEF Pairs
    <2> QED BY <1>1, <1>4, <1>5, <1>6, <2>1 DEF TypeOK
  <1>8. OneQueryEach
    BY <1>1, FS_EmptySet DEF OneQueryEach
  <1> QED BY <1>1, <1>7, <1>8 DEF TInv, Phase, ChainsSound

LEMMA TInvStep == TInv /\ [Next]_vars => TInv'
  <1> SUFFICES ASSUME TInv, [Next]_vars PROVE TInv'
    OBVIOUS
  <1>1. CASE UNCHANGED vars
    <2>1. /\ UNCHANGED <<live, bare, graph, seen, changes, ask, pc>>
          /\ UNCHANGED <<hits, seeds, have, frontier, hop, linked>>
          /\ UNCHANGED <<anchors, pair, queue, visited, asked, chains>>
      BY <1>1 DEF vars, world, walk, bridge
    <2>2. TypeOK' /\ OneQueryEach'
      BY <2>1 DEF TInv, TypeOK, OneQueryEach
    <2> QED BY <2>1, <2>2, PhaseKept, ChainsKept DEF TInv
  <1>2. CASE Next
    BY <1>2, ChangeStep, ExpandStep, ResultsStep, PairStep, SkipStep, ExpansionStep DEF Next, Step
  <1> QED BY <1>1, <1>2

LEMMA TInvHolds == Spec => []TInv
  BY TInvInit, TInvStep, PTL DEF Spec

(* The state of a search keeps its types: the expansion does no more hops  *)
(* than were asked for (searcher.rs 289-371).                              *)
THEOREM TraversalTypeCorrect == Spec => []TypeOK
  <1>1. TInv => TypeOK
    BY DEF TInv
  <1> QED BY <1>1, TInvHolds, PTL

(* bfs_path makes at most one query for each memory it has met, however    *)
(* the graph changes between the queries (searcher.rs 423-456).            *)
THEOREM OneQueryHolds == Spec => []OneQueryEach
  <1>1. TInv => OneQueryEach
    BY DEF TInv
  <1> QED BY <1>1, TInvHolds, PTL

(* Every bridge is a simple chain between two anchors, no longer than      *)
(* max_depth, whose hops were all strong edges at some moment of the       *)
(* search (searcher.rs 383-456).                                           *)
THEOREM ChainsSoundHolds == Spec => []ChainsSound
  <1>1. TInv => ChainsSound
    BY DEF TInv
  <1> QED BY <1>1, TInvHolds, PTL

-----------------------------------------------------------------------------
(* Breadth-first search finds shortest paths.  The argument is about a     *)
(* graph that does not change, any graph.                                  *)

(* A walk by edges of E that starts at a, memories repeated or not.        *)
Leads(r, a, E) == Len(r) >= 1 /\ r[1] = a /\ IsPath(r, E)

(* The paths of the queue come by length, and no two differ by more than   *)
(* one hop.                                                                *)
Ordered(q) ==
    \A i, j \in DOMAIN q : i <= j => Len(q[i]) <= Len(q[j]) /\ Len(q[j]) <= Len(q[1]) + 1

(* No walk to the end of a path of the queue is shorter than it.           *)
Nearest(q, a, E) ==
    \A k \in DOMAIN q : \A r \in Seq(Node) :
        Leads(r, a, E) /\ Last(r) = Last(q[k]) => Len(q[k]) <= Len(r)

(* All neighbours of a marked memory are marked unless it is still queued. *)
Swept(q, V, E) ==
    \A v \in V, w \in Node : <<v, w>> \in E => w \in V \/ \E k \in DOMAIN q : Last(q[k]) = v

(* What is as near as the head of the queue is marked.                     *)
Covered(q, a, V, E) ==
    q # <<>> => \A r \in Seq(Node) : Leads(r, a, E) /\ Len(r) <= Len(q[1]) => Last(r) \in V

Layers(q, a, V, E) ==
    a \in V /\ Ordered(q) /\ Nearest(q, a, E) /\ Swept(q, V, E) /\ Covered(q, a, V, E)

(* The target is too far away, and no path of the queue is to be extended. *)
Hopeless(q, a, b, E) ==
    /\ \A r \in Seq(Node) : Leads(r, a, E) /\ Last(r) = b => Len(r) > MaxDepth + 1
    /\ \A k \in DOMAIN q : Len(q[k]) > MaxDepth

Before(p, q) == p[1] < q[1] \/ (p[1] = q[1] /\ p[2] < q[2])

(* The chain of a pair is as short as any route, and there is one unless   *)
(* the memories are linked or too far apart.                               *)
Connected(i, j) ==
    LET routes == Routes(anchors[i], anchors[j], seen)
    IN  /\ \A k \in DOMAIN chains : chains[k].pair = <<i, j>> =>
              \A p \in routes : Len(chains[k].path) <= Len(p)
        /\ routes # {} /\ (\A p \in routes : Len(p) > 2) =>
              \E k \in DOMAIN chains : chains[k].pair = <<i, j>>

(* The pairs are taken in order, each with chains still to be found, and   *)
(* chains are only of pairs that are done.                                 *)
Orderly ==
    /\ pc \in {"expand", "rows", "results"} => anchors = <<>> /\ pair = <<1, 2>>
    /\ \A i, j \in DOMAIN anchors : anchors[i] = anchors[j] => i = j
    /\ pair[2] > Len(anchors) => pair[2] = pair[1] + 1
    /\ Len(chains) <= MaxBridgePaths /\ (pc = "bfs" => Len(chains) < MaxBridgePaths)
    /\ \A k \in DOMAIN chains : Before(chains[k].pair, pair)
    /\ pc = "done" => pair[2] > Len(anchors) \/ Len(chains) = MaxBridgePaths

(* On a graph that stays, the pairs that are done are connected as they    *)
(* should be, and the search for the next goes by layers.                  *)
Exact ==
    /\ seen = DOMAIN graph
    /\ \A i, j \in DOMAIN anchors : i < j /\ Before(<<i, j>>, pair) => Connected(i, j)
    /\ pc = "bfs" => /\ To \notin visited
                     /\ \/ Layers(queue, From, visited, seen)
                        \/ Hopeless(queue, From, To, seen)

GInv == Orderly /\ (changes = 0 => Exact)

(* The least-number principle.                                             *)
LEMMA LeastNumber ==
  ASSUME NEW T, T \subseteq Nat, T # {}
  PROVE  \E x \in T : \A y \in T : x <= y
  <1>1. PICK x \in T : \A y \in T : ~(<<y, x>> \in OpToRel(<, Nat))
    BY WFMin, NatLessThanWellFounded
  <1>2. \A y \in T : ~(y < x)
    BY <1>1 DEF OpToRel
  <1> QED BY <1>2

(* A walk cut short is a walk.                                             *)
LEMMA WalkCut ==
  ASSUME NEW r \in Seq(Node), NEW a, NEW E, Leads(r, a, E), NEW n \in 1..Len(r)
  PROVE  /\ SubSeq(r, 1, n) \in Seq(Node) /\ Len(SubSeq(r, 1, n)) = n
         /\ Last(SubSeq(r, 1, n)) = r[n] /\ Leads(SubSeq(r, 1, n), a, E)
  <1> DEFINE s == SubSeq(r, 1, n)
  <1>1. s \in Seq(Node) /\ Len(s) = n /\ n \in Nat /\ n >= 1 /\ Len(r) \in Nat
        /\ \A i \in 1..n : s[i] = r[i]
    OBVIOUS
  <1> HIDE DEF s
  <1>2. Last(s) = r[n] /\ s[1] = a
    BY <1>1 DEF Last, Leads
  <1>3. IsPath(s, E)
    <2> SUFFICES ASSUME NEW k \in 1..(n - 1) PROVE <<s[k], s[k + 1]>> \in E
      BY <1>1 DEF IsPath
    <2>1. k \in 1..n /\ k + 1 \in 1..n /\ k \in 1..(Len(r) - 1)
      BY <1>1
    <2> QED BY <1>1, <2>1 DEF Leads, IsPath
  <1> QED BY <1>1, <1>2, <1>3 DEF Leads, s

(* The search begins.                                                      *)
LEMMA LayersStart ==
  ASSUME NEW a \in Node, NEW E
  PROVE  Layers(<<<<a>>>>, a, {a}, E)
  <1> DEFINE q == <<<<a>>>>
  <1>1. DOMAIN q = {1} /\ q[1] = <<a>> /\ Len(<<a>>) = 1 /\ Last(<<a>>) = a
    BY DEF Last
  <1> HIDE DEF q
  <1>2. Ordered(q)
    BY <1>1 DEF Ordered
  <1>3. Nearest(q, a, E)
    BY <1>1 DEF Nearest, Leads
  <1>4. Swept(q, {a}, E)
    BY <1>1 DEF Swept
  <1>5. Covered(q, a, {a}, E)
    <2> SUFFICES ASSUME NEW r \in Seq(Node), Leads(r, a, E), Len(r) <= Len(q[1])
                 PROVE  Last(r) \in {a}
      BY DEF Covered
    <2>1. Len(r) = 1
      BY <1>1 DEF Leads
    <2> QED BY <2>1 DEF Leads, Last
  <1> QED BY <1>2, <1>3, <1>4, <1>5 DEF Layers, q

(* When the queue is empty, everything within reach is marked.             *)
LEMMA AllMarked ==
  ASSUME NEW a, NEW V, NEW E, Layers(<<>>, a, V, E), NEW r \in Seq(Node), Leads(r, a, E)
  PROVE  Last(r) \in V
  <1> SUFFICES ASSUME Last(r) \notin V PROVE FALSE
    OBVIOUS
  <1> DEFINE T == {n \in 1..Len(r) : r[n] \notin V}
  <1>1. Len(r) \in Nat /\ Len(r) >= 1 /\ r[1] \in V
    BY DEF Leads, Layers
  <1>2. Len(r) \in T /\ T \subseteq Nat
    BY <1>1 DEF Last
  <1>3. PICK n \in T : \A m \in T : n <= m
    BY <1>2, LeastNumber
  <1>4. n \in 1..Len(r) /\ r[n] \notin V /\ n # 1
    BY <1>1, <1>3
  <1>5. n - 1 \in 1..(Len(r) - 1) /\ n - 1 \in 1..Len(r) /\ n - 1 + 1 = n /\ ~(n <= n - 1)
    BY <1>1, <1>4
  <1>6. r[n - 1] \in V
    BY <1>3, <1>5
  <1>7. <<r[n - 1], r[n]>> \in E
    BY <1>5 DEF Leads, IsPath
  <1>8. r[n] \in Node
    BY <1>4
  <1> QED BY <1>4, <1>6, <1>7, <1>8 DEF Layers, Swept

(* An order of a finite set leaves out none of its elements.               *)
LEMMA OrderComplete ==
  ASSUME NEW S, IsFiniteSet(S), NEW f \in SetToSeqs(S), NEW x \in S
  PROVE  \E k \in DOMAIN f : f[k] = x
  <1> DEFINE n == Cardinality(S)
             T == {f[k] : k \in 1..n}
  <1>1. n \in Nat /\ DOMAIN f = 1..n /\ f \in [1..n -> S]
        /\ \A i, j \in 1..n : f[i] = f[j] => i = j
    BY FS_CardinalityType, OrderOf DEF SetToSeqs
  <1>2. f \in Bijection(1..n, T) /\ T \in SUBSET S
    BY <1>1 DEF Bijection, Injection, Surjection, IsInjective
  <1>3. IsFiniteSet(1..n) /\ Cardinality(1..n) = n
    <2> HIDE DEF n
    <2>1. 1 \in Int /\ n \in Int
      BY <1>1
    <2>2. IsFiniteSet(1..n) /\ Cardinality(1..n) = IF 1 > n THEN 0 ELSE n - 1 + 1
      BY <2>1, FS_Interval
    <2> QED BY <1>1, <2>2
  <1> HIDE DEF T
  <1>4. Cardinality(T) = n
    BY <1>2, <1>3, FS_Bijection DEF ExistsBijection
  <1>5. S = T
    BY <1>2, <1>4, FS_Subset
  <1> QED BY <1>1, <1>5 DEF T

(* What bfs_path puts into the queue for the head h: one path for each new *)
(* memory.                                                                 *)
Fan(g, h, new) ==
    /\ \A k \in DOMAIN g : \E n \in new : g[k] = Append(h, n)
    /\ \A n \in new : \E k \in DOMAIN g : g[k] = Append(h, n)

(* Where the paths are after a step.                                       *)
Placed(q, g, r) ==
    /\ \A k \in DOMAIN r : \/ k < Len(q) /\ k + 1 \in DOMAIN q /\ r[k] = q[k + 1]
                           \/ k >= Len(q) /\ \E i \in DOMAIN g : r[k] = g[i]
    /\ \A k \in DOMAIN q : k # 1 => \E i \in DOMAIN r : r[i] = q[k]
    /\ \A k \in DOMAIN g : \E i \in DOMAIN r : r[i] = g[k]

LEMMA ReplacedAt ==
  ASSUME NEW T, NEW q \in Seq(T), NEW g \in Seq(T), NEW r, Replaced(q, g, r)
  PROVE  Placed(q, g, r)
  <1> DEFINE m == Len(q) - 1
  <1>1. /\ Tail(q) \in Seq(T) /\ Len(Tail(q)) = m /\ Len(q) \in Nat \ {0}
        /\ \A i \in 1..m : Tail(q)[i] = q[i + 1]
    BY DEF Replaced
  <1>2. /\ r \in Seq(T) /\ Len(r) = Len(Tail(q)) + Len(g) /\ Len(g) \in Nat
        /\ DOMAIN r = 1..Len(r) /\ DOMAIN g = 1..Len(g) /\ DOMAIN q = 1..Len(q)
        /\ \A i \in 1..Len(r) : r[i] = IF i <= Len(Tail(q)) THEN Tail(q)[i]
                                      ELSE g[i - Len(Tail(q))]
    BY <1>1 DEF Replaced
  <1>3. /\ m \in Nat /\ Len(q) = m + 1 /\ Len(r) = m + Len(g)
        /\ \A i \in 1..Len(r) : r[i] = IF i <= m THEN Tail(q)[i] ELSE g[i - m]
    BY <1>1, <1>2
  <1> HIDE DEF m
  <1>4. ASSUME NEW k \in DOMAIN r
        PROVE  \/ k < Len(q) /\ k + 1 \in DOMAIN q /\ r[k] = q[k + 1]
               \/ k >= Len(q) /\ \E i \in DOMAIN g : r[k] = g[i]
    <2>0. k \in 1..(m + Len(g))
      BY <1>2, <1>3
    <2>1. CASE k <= m
      <3>1. k \in 1..m /\ k + 1 \in 1..(m + 1) /\ k < m + 1
        BY <1>3, <2>0, <2>1
      <3> QED BY <1>1, <1>2, <1>3, <2>0, <2>1, <3>1
    <2>2. CASE ~(k <= m)
      <3>1. k - m \in 1..Len(g) /\ k >= m + 1
        BY <1>2, <1>3, <2>0, <2>2
      <3>2. r[k] = g[k - m]
        BY <1>2, <1>3, <2>2
      <3> QED BY <1>2, <1>3, <3>1, <3>2
    <2> QED BY <2>1, <2>2
  <1>5. ASSUME NEW k \in DOMAIN q, k # 1 PROVE \E i \in DOMAIN r : r[i] = q[k]
    <2>1. k - 1 \in 1..m /\ k - 1 + 1 = k /\ k - 1 \in 1..(m + Len(g)) /\ k - 1 <= m
      BY <1>2, <1>3, <1>5
    <2>2. r[k - 1] = q[k]
      BY <1>1, <1>3, <2>1
    <2> QED BY <1>2, <1>3, <2>1, <2>2
  <1>6. ASSUME NEW k \in DOMAIN g PROVE \E i \in DOMAIN r : r[i] = g[k]
    <2>1. k \in 1..Len(g)
      BY <1>2
    <2>2. m + k \in 1..(m + Len(g)) /\ ~(m + k <= m) /\ m + k - m = k
      BY <1>2, <1>3, <2>1
    <2>3. r[m + k] = g[k]
      BY <1>3, <2>2
    <2> QED BY <1>2, <1>3, <2>2, <2>3
  <1> QED BY <1>4, <1>5, <1>6 DEF Placed

(* The memories that the query for v brings.                               *)
Fresh(new, v, V, E) == \A w \in Node : w \in new <=> <<v, w>> \in E /\ w \notin V

(* One step of the search over a graph that stays: the layers grow.        *)
LEMMA LayersGrow ==
  ASSUME NEW q \in Seq(Seq(Node)), q # <<>>, NEW a, NEW V, NEW E, Layers(q, a, V, E),
         NEW g \in Seq(Seq(Node)), NEW r \in Seq(Seq(Node)), Placed(q, g, r),
         NEW new \in SUBSET Node, Fan(g, q[1], new), Fresh(new, Last(q[1]), V, E)
  PROVE  Layers(r, a, V \cup new, E)
  <1> DEFINE h == Len(q[1])
  <1>0. /\ 1 \in DOMAIN q /\ q[1] \in Seq(Node) /\ h \in Nat
        /\ \A k \in DOMAIN q : k \in Nat /\ k >= 1 /\ Len(q[k]) \in Nat
        /\ \A k \in DOMAIN r : k \in Nat /\ k >= 1 /\ Len(r[k]) \in Nat
        /\ \A k \in DOMAIN r : 1 \in DOMAIN r
        /\ Len(q) \in Nat
    OBVIOUS
  <1>1. \A k \in DOMAIN g : Len(g[k]) = h + 1 /\ Last(g[k]) \in new
    <2> SUFFICES ASSUME NEW k \in DOMAIN g PROVE Len(g[k]) = h + 1 /\ Last(g[k]) \in new
      OBVIOUS
    <2>1. PICK n \in new : g[k] = Append(q[1], n)
      BY DEF Fan
    <2> QED BY <1>0, <2>1 DEF Last
  <1>2. ASSUME NEW k \in DOMAIN q PROVE h <= Len(q[k]) /\ Len(q[k]) <= h + 1
    <2>1. 1 <= k
      BY <1>0, <1>2
    <2> QED BY <1>0, <1>2, <2>1 DEF Layers, Ordered
  <1> HIDE DEF h
  <1>3. ASSUME NEW k \in DOMAIN r PROVE h <= Len(r[k]) /\ Len(r[k]) <= h + 1
    <2>1. CASE k + 1 \in DOMAIN q /\ r[k] = q[k + 1]
      BY <1>2, <2>1
    <2>2. CASE \E i \in DOMAIN g : r[k] = g[i]
      BY <1>0, <1>1, <2>2
    <2> QED BY <1>3, <2>1, <2>2 DEF Placed
  <1>4. Ordered(r)
    <2> SUFFICES ASSUME NEW i \in DOMAIN r, NEW j \in DOMAIN r, i <= j
                 PROVE  Len(r[i]) <= Len(r[j]) /\ Len(r[j]) <= Len(r[1]) + 1
      BY DEF Ordered
    <2>1. Len(r[j]) <= Len(r[1]) + 1
      <3>1. 1 \in DOMAIN r /\ Len(r[1]) \in Nat /\ Len(r[j]) \in Nat
        BY <1>0
      <3>2. h <= Len(r[1]) /\ Len(r[j]) <= h + 1
        BY <1>3, <3>1
      <3> QED BY <1>0, <3>1, <3>2
    <2>2. CASE j < Len(q) /\ j + 1 \in DOMAIN q /\ r[j] = q[j + 1]
      <3>0. i \in Nat /\ j \in Nat /\ Len(q) \in Nat /\ j < Len(q)
        BY <1>0, <2>2
      <3>1. i < Len(q) /\ i + 1 <= j + 1 /\ ~(i >= Len(q))
        BY <3>0
      <3>2. i + 1 \in DOMAIN q /\ r[i] = q[i + 1]
        BY <3>1 DEF Placed
      <3> QED BY <2>1, <2>2, <3>1, <3>2 DEF Layers, Ordered
    <2>3. CASE \E k \in DOMAIN g : r[j] = g[k]
      <3>1. Len(r[j]) = h + 1 /\ Len(r[i]) <= h + 1
        BY <1>1, <1>3, <2>3
      <3> QED BY <2>1, <3>1
    <2> QED BY <2>2, <2>3 DEF Placed
  <1>5. Nearest(r, a, E)
    <2> SUFFICES ASSUME NEW k \in DOMAIN r, NEW s \in Seq(Node), Leads(s, a, E), Last(s) = Last(r[k])
                 PROVE  Len(r[k]) <= Len(s)
      BY DEF Nearest
    <2>1. CASE k + 1 \in DOMAIN q /\ r[k] = q[k + 1]
      BY <2>1 DEF Layers, Nearest
    <2>2. CASE \E i \in DOMAIN g : r[k] = g[i]
      <3>1. Last(s) \in new /\ Len(r[k]) = h + 1 /\ Len(s) \in Nat
        BY <1>1, <2>2
      <3>2. Last(s) \notin V
        BY <3>1 DEF Fresh
      <3>3. ~(Len(s) <= h)
        BY <3>2 DEF Layers, Covered, h
      <3> QED BY <1>0, <3>1, <3>3
    <2> QED BY <2>1, <2>2 DEF Placed
  <1>6. Swept(r, V \cup new, E)
    <2> SUFFICES ASSUME NEW v \in V \cup new, NEW w \in Node, <<v, w>> \in E, w \notin V \cup new
                 PROVE  \E k \in DOMAIN r : Last(r[k]) = v
      BY DEF Swept
    <2>1. CASE v \in new
      <3>1. PICK k \in DOMAIN g : g[k] = Append(q[1], v)
        BY <2>1 DEF Fan
      <3>2. Last(g[k]) = v
        BY <1>0, <2>1, <3>1 DEF Last
      <3>3. PICK i \in DOMAIN r : r[i] = g[k]
        BY <3>1 DEF Placed
      <3> QED BY <3>2, <3>3
    <2>2. CASE v \in V
      <3>1. PICK k \in DOMAIN q : Last(q[k]) = v
        BY <2>2 DEF Layers, Swept
      <3>2. k # 1
        BY <3>1 DEF Fresh
      <3>3. PICK i \in DOMAIN r : r[i] = q[k]
        BY <3>1, <3>2 DEF Placed
      <3> QED BY <3>1, <3>3
    <2> QED BY <2>1, <2>2
  <1>7. Covered(r, a, V \cup new, E)
    <2> SUFFICES ASSUME r # <<>>, NEW s \in Seq(Node), Leads(s, a, E), Len(s) <= Len(r[1])
                 PROVE  Last(s) \in V \cup new
      BY DEF Covered
    <2>0. 1 \in DOMAIN r /\ Len(s) \in Nat /\ Len(s) >= 1
      BY DEF Leads
    <2>1. CASE Len(s) <= h
      BY <2>1 DEF Layers, Covered, h
    <2>2. CASE ~(Len(s) <= h)
      <3>0. Len(r[1]) \in Nat /\ h <= Len(r[1]) /\ Len(r[1]) <= h + 1
        BY <1>0, <1>3, <2>0
      <3>1. Len(s) = h + 1 /\ Len(r[1]) = h + 1
        BY <1>0, <2>0, <2>2, <3>0
      <3>2. CASE h = 0
        BY <3>1, <3>2 DEF Leads, Last, Layers
      <3>3. CASE h # 0
        <4>1. h \in 1..Len(s) /\ h \in 1..(Len(s) - 1) /\ h + 1 \in 1..Len(s)
          BY <1>0, <3>1, <3>3
        <4> DEFINE t == SubSeq(s, 1, h)
        <4>2. t \in Seq(Node) /\ Len(t) = h /\ Last(t) = s[h] /\ Leads(t, a, E)
          BY <4>1, WalkCut
        <4> HIDE DEF t
        <4>3. s[h] \in V
          BY <1>0, <4>2 DEF Layers, Covered, h
        <4>4. <<s[h], s[h + 1]>> \in E /\ s[h + 1] = Last(s) /\ s[h + 1] \in Node
          BY <3>1, <4>1 DEF Leads, IsPath, Last
        <4>5. ASSUME NEW k \in DOMAIN r, Last(r[k]) = s[h] PROVE FALSE
          <5>1. Len(r[k]) <= h
            BY <1>5, <4>2, <4>5 DEF Nearest
          <5>2. 1 <= k /\ Len(r[k]) \in Nat
            BY <1>0, <4>5
          <5>3. Len(r[1]) <= Len(r[k])
            BY <1>4, <2>0, <4>5, <5>2 DEF Ordered
          <5> QED BY <1>0, <3>1, <5>1, <5>2, <5>3
        <4> QED BY <1>6, <4>3, <4>4, <4>5 DEF Swept
      <3> QED BY <3>2, <3>3
    <2> QED BY <2>1, <2>2
  <1> QED BY <1>4, <1>5, <1>6, <1>7 DEF Layers

-----------------------------------------------------------------------------
(* The pairs of anchors in the order of the two loops.                     *)

LEMMA SuccessorOrder ==
  ASSUME pair \in Pairs, pair[1] < pair[2], pair[2] <= Len(anchors), anchors \in Seq(Node)
  PROVE  /\ Before(pair, Successor)
         /\ \A p \in Pairs : Before(p, pair) => Before(p, Successor)
         /\ Successor[2] > Len(anchors) => Successor[2] = Successor[1] + 1
         /\ \A i, j \in DOMAIN anchors :
               i < j /\ Before(<<i, j>>, Successor) => Before(<<i, j>>, pair) \/ <<i, j>> = pair
  <1> DEFINE a == pair[1]
             b == pair[2]
             n == Len(anchors)
  <1>1. a \in Nat /\ b \in Nat /\ n \in Nat /\ pair = <<a, b>> /\ DOMAIN anchors = 1..n
        /\ a < b /\ b <= n
    BY DEF Pairs
  <1>2. \/ b < n /\ Successor = <<a, b + 1>>
        \/ b = n /\ Successor = <<a + 1, a + 2>>
    BY <1>1 DEF Successor
  <1> HIDE DEF a, b, n
  <1>3. Before(pair, Successor)
    BY <1>1, <1>2 DEF Before
  <1>4. ASSUME NEW p \in Pairs, Before(p, pair) PROVE Before(p, Successor)
    <2>1. p[1] \in Nat /\ p[2] \in Nat
      BY DEF Pairs
    <2> QED BY <1>1, <1>2, <1>4, <2>1 DEF Before
  <1>5. Successor[2] > n => Successor[2] = Successor[1] + 1
    <2>1. CASE b < n /\ Successor = <<a, b + 1>>
      <3>1. Successor[2] = b + 1
        BY <2>1
      <3> QED BY <1>1, <2>1, <3>1
    <2>2. CASE Successor = <<a + 1, a + 2>>
      <3>1. Successor[1] = a + 1 /\ Successor[2] = a + 2
        BY <2>2
      <3> QED BY <1>1, <3>1
    <2> QED BY <1>2, <2>1, <2>2
  <1>6. ASSUME NEW i \in DOMAIN anchors, NEW j \in DOMAIN anchors, i < j,
               Before(<<i, j>>, Successor)
        PROVE  Before(<<i, j>>, pair) \/ <<i, j>> = pair
    BY <1>1, <1>2, <1>6 DEF Before
  <1> QED BY <1>3, <1>4, <1>5, <1>6 DEF n

LEMMA BeforeIrreflexive ==
  ASSUME NEW p \in Pairs
  PROVE  ~Before(p, p)
  BY DEF Before, Pairs

(* A route is a walk within max_depth hops.                                *)
LEMMA RouteLeads ==
  ASSUME NEW a, NEW b, NEW E, NEW p \in Routes(a, b, E)
  PROVE  /\ p \in Seq(Node) /\ Leads(p, a, E) /\ Last(p) = b
         /\ Len(p) \in 2..(MaxDepth + 1)
  <1>1. /\ p \in SetToAllKPermutations(Node) /\ Len(p) \in 2..(MaxDepth + 1)
        /\ Head(p) = a /\ Last(p) = b /\ IsPath(p, E)
    BY DEF Routes, SimplePaths
  <1>2. PICK S \in SUBSET Node : p \in SetToSeqs(S)
    BY <1>1 DEF SetToAllKPermutations
  <1>3. p \in Seq(S)
    BY <1>2, FS_Subset, OrderOf, TraversalAssumption
  <1>4. p \in Seq(Node) /\ Len(p) >= 1 /\ p[1] = a
    BY <1>1, <1>2, <1>3
  <1> QED BY <1>1, <1>4 DEF Leads

-----------------------------------------------------------------------------
(* The invariant of the bridges, step by step.                             *)

(* A step that leaves the chains of a pair alone leaves it connected.      *)
LEMMA ConnectedKept ==
  ASSUME UNCHANGED <<anchors, seen>>, NEW i, NEW j, Connected(i, j),
         \A k \in DOMAIN chains : k \in DOMAIN chains' /\ chains'[k] = chains[k],
         \A k \in DOMAIN chains' : chains'[k].pair = <<i, j>> => k \in DOMAIN chains
  PROVE  Connected(i, j)'
  <1> DEFINE R == Routes(anchors[i], anchors[j], seen)
  <1>1. R' = R
    BY DEF Routes, IsPath
  <1>2. /\ \A k \in DOMAIN chains : chains[k].pair = <<i, j>> =>
              \A p \in R : Len(chains[k].path) <= Len(p)
        /\ R # {} /\ (\A p \in R : Len(p) > 2) => \E k \in DOMAIN chains : chains[k].pair = <<i, j>>
    BY DEF Connected
  <1> HIDE DEF R
  <1>3. /\ \A k \in DOMAIN chains' : chains'[k].pair = <<i, j>> =>
              \A p \in R' : Len(chains'[k].path) <= Len(p)
        /\ R' # {} /\ (\A p \in R' : Len(p) > 2) => \E k \in DOMAIN chains' : chains'[k].pair = <<i, j>>
    BY <1>1, <1>2
  <1> QED BY <1>3 DEF Connected, R

LEMMA QuietStep ==
  ASSUME TInv, GInv, Change \/ ExpandEdges \/ ExpandRows \/ ExpandEnd \/ Results \/ BridgesEnd
  PROVE  GInv'
  <1>0. /\ pair \in Pairs /\ anchors \in Seq(Node) /\ changes \in Nat /\ MaxBridgePaths \in Nat
        /\ chains \in Seq([pair : Pairs, path : Seq(Node)])
        /\ Orderly /\ (changes = 0 => Exact)
    BY TraversalAssumption DEF TInv, TypeOK, GInv
  <1>1. CASE Change
    <2>1. UNCHANGED <<pc, anchors, pair, queue, visited, chains>> /\ changes' = changes + 1
      BY <1>1 DEF Change, bridge
    <2>2. changes' # 0
      BY <1>0, <2>1
    <2> QED BY <1>0, <2>1, <2>2 DEF GInv, Orderly
  <1>2. CASE ExpandEdges \/ ExpandRows \/ ExpandEnd
    <2>1. /\ UNCHANGED <<anchors, pair, queue, visited, chains, seen, graph, changes>>
          /\ pc \in {"expand", "rows"} /\ pc' \in {"expand", "rows", "results"}
      BY <1>2 DEF ExpandEdges, ExpandRows, ExpandEnd, world, bridge
    <2>2. anchors = <<>>
      BY <1>0, <2>1 DEF Orderly
    <2>3. changes' = 0 => Exact'
      BY <1>0, <2>1, <2>2 DEF Exact
    <2> QED BY <1>0, <2>1, <2>3 DEF GInv, Orderly
  <1>3. CASE Results
    <2>1. /\ UNCHANGED <<pair, queue, visited, chains, seen, graph, changes>>
          /\ pc = "results" /\ chains = <<>> /\ anchors = <<>> /\ pair = <<1, 2>>
          /\ pc' = "pair" \/ (pc' = "done" /\ UNCHANGED anchors)
      BY <1>0, <1>3 DEF Results, world, TInv, Phase, Orderly
    <2>2. \A i, j \in DOMAIN anchors' : anchors'[i] = anchors'[j] => i = j
      <3>1. CASE UNCHANGED anchors
        BY <1>0, <3>1 DEF Orderly
      <3>2. CASE \E n : \E S \in kSubset(n, have) : anchors' \in SetToSeqs(S)
        <4>1. PICK n : \E S \in kSubset(n, have) : anchors' \in SetToSeqs(S)
          BY <3>2
        <4>2. PICK S \in kSubset(n, have) : anchors' \in SetToSeqs(S)
          BY <4>1
        <4>3. S \in SUBSET Node /\ IsFiniteSet(Node)
          BY <4>2, TraversalAssumption DEF kSubset, TInv, TypeOK
        <4>4. IsFiniteSet(S)
          BY <4>3, FS_Subset
        <4> QED BY <4>2, <4>4, OrderOf
      <3> QED BY <1>3, <3>1, <3>2 DEF Results
    <2>3. anchors' \in Seq(Node)
      BY <1>3, ResultsStep DEF TInv, TypeOK
    <2>4. \A i, j \in DOMAIN anchors' : ~(i < j /\ Before(<<i, j>>, pair'))
      BY <2>1, <2>3 DEF Before
    <2>5. changes' = 0 => Exact'
      BY <1>0, <2>1, <2>4 DEF Exact
    <2>6. Orderly'
      <3>1. Len(chains') = 0 /\ DOMAIN chains' = {} /\ pair'[2] = pair'[1] + 1
        BY <2>1
      <3>2. pc' = "done" => pair'[2] > Len(anchors')
        BY <2>1
      <3> QED BY <1>0, <2>1, <2>2, <3>1, <3>2 DEF Orderly
    <2> QED BY <2>5, <2>6 DEF GInv
  <1>4. CASE BridgesEnd
    <2>1. /\ UNCHANGED <<anchors, pair, queue, visited, chains, seen, graph, changes>>
          /\ pc = "pair" /\ pc' = "done"
          /\ pair[2] > Len(anchors) \/ Len(chains) >= MaxBridgePaths
      BY <1>4 DEF BridgesEnd, world, bridge
    <2>2. pair[2] > Len(anchors) \/ Len(chains) = MaxBridgePaths
      BY <1>0, <2>1 DEF Orderly
    <2>3. changes' = 0 => Exact'
      <3> SUFFICES ASSUME changes' = 0 PROVE Exact'
        OBVIOUS
      <3>1. \A i, j : Connected(i, j) => Connected(i, j)'
        BY <2>1, ConnectedKept
      <3> QED BY <1>0, <2>1, <3>1 DEF Exact
    <2> QED BY <1>0, <2>1, <2>2, <2>3 DEF GInv, Orderly
  <1> QED BY <1>1, <1>2, <1>3, <1>4

(* The state of the search after a step.                                   *)
LEMMA PrimedSearch ==
  /\ Layers(queue', From', visited', seen') => Layers(queue, From, visited, seen)'
  /\ Hopeless(queue', From', To', seen') => Hopeless(queue, From, To, seen)'
  <1>1. Layers(queue', From', visited', seen') => Layers(queue, From, visited, seen)'
    BY DEF Layers, Ordered, Nearest, Swept, Covered, Leads, IsPath
  <1>2. Hopeless(queue', From', To', seen') => Hopeless(queue, From, To, seen)'
    BY DEF Hopeless, Leads, IsPath
  <1> QED BY <1>1, <1>2

LEMMA Anchored ==
  ASSUME TInv, Orderly, pair[2] <= Len(anchors)
  PROVE  /\ pair[1] \in DOMAIN anchors /\ pair[2] \in DOMAIN anchors /\ pair = <<pair[1], pair[2]>>
         /\ From \in Node /\ To \in Node /\ From # To
  <1>1. /\ pair \in Pairs /\ anchors \in Seq(Node) /\ 1 <= pair[1] /\ pair[1] < pair[2]
        /\ \A i, j \in DOMAIN anchors : anchors[i] = anchors[j] => i = j
    BY DEF TInv, TypeOK, Orderly
  <1>2. pair[1] \in Nat /\ pair[2] \in Nat /\ pair = <<pair[1], pair[2]>> /\ pair[1] # pair[2]
    BY <1>1 DEF Pairs
  <1>3. pair[1] \in DOMAIN anchors /\ pair[2] \in DOMAIN anchors
    BY <1>1, <1>2
  <1> QED BY <1>1, <1>2, <1>3 DEF From, To

(* A search begins, or goes on to the next path of the queue.              *)
LEMMA StartKeeps ==
  ASSUME TInv, GInv, BfsStart
  PROVE  GInv'
  <1>1. /\ UNCHANGED <<anchors, pair, chains, seen, graph, changes>> /\ pc = "pair" /\ pc' = "bfs"
        /\ pair[2] <= Len(anchors) /\ Len(chains) < MaxBridgePaths
        /\ queue' = <<<<From>>>> /\ visited' = {From}
    BY DEF BfsStart, world
  <1>2. Orderly /\ (changes = 0 => Exact)
    BY DEF GInv
  <1>3. From \in Node /\ To # From /\ From' = From /\ To' = To
    BY <1>1, <1>2, Anchored DEF From, To
  <1>4. Layers(queue', From', visited', seen')
    BY <1>1, <1>3, LayersStart
  <1>5. \A i, j : Connected(i, j) => Connected(i, j)'
    BY <1>1, ConnectedKept
  <1>6. changes' = 0 => Exact'
    BY <1>1, <1>2, <1>3, <1>4, <1>5, PrimedSearch DEF Exact
  <1> QED BY <1>1, <1>2, <1>6 DEF GInv, Orderly

(* A path of max_depth hops at the head of the queue: the target is not    *)
(* within reach.                                                           *)
LEMMA SkipHopeless ==
  ASSUME NEW q \in Seq(Seq(Node)), q # <<>>, NEW a, NEW b, NEW V, NEW E, b \notin V,
         Layers(q, a, V, E), Len(q[1]) = MaxDepth + 1
  PROVE  Hopeless(q, a, b, E)
  <1>0. MaxDepth \in Nat
    BY TraversalAssumption
  <1>1. ASSUME NEW r \in Seq(Node), Leads(r, a, E), Last(r) = b PROVE Len(r) > MaxDepth + 1
    <2>1. ~(Len(r) <= Len(q[1]))
      BY <1>1 DEF Layers, Covered
    <2> QED BY <1>0, <2>1
  <1>2. ASSUME NEW k \in DOMAIN q PROVE Len(q[k]) > MaxDepth
    <2>1. 1 \in DOMAIN q /\ 1 <= k /\ Len(q[k]) \in Nat
      OBVIOUS
    <2>2. Len(q[1]) <= Len(q[k])
      BY <2>1 DEF Layers, Ordered
    <2> QED BY <1>0, <2>1, <2>2
  <1> QED BY <1>1, <1>2 DEF Hopeless

LEMMA SkipKeeps ==
  ASSUME TInv, GInv, BfsSkip
  PROVE  GInv'
  <1>1. /\ UNCHANGED <<anchors, pair, chains, seen, graph, changes, pc, visited>> /\ pc = "bfs"
        /\ queue # <<>> /\ Len(Head(queue)) > MaxDepth /\ queue' = Tail(queue)
    BY DEF BfsSkip, world
  <1>2. Orderly /\ (changes = 0 => Exact) /\ queue \in Seq(Seq(Node)) /\ MaxDepth \in Nat
    BY TraversalAssumption DEF GInv, TInv, TypeOK
  <1>3. From' = From /\ To' = To
    BY <1>1 DEF From, To
  <1>4. Len(queue[1]) = MaxDepth + 1
    <2>1. 1 \in DOMAIN queue /\ Head(queue) = queue[1] /\ Len(queue[1]) \in Nat
      BY <1>1, <1>2
    <2>2. Len(queue[1]) \in 1..(MaxDepth + 1)
      BY <1>1, <2>1 DEF TInv, Phase, Walk
    <2> QED BY <1>1, <1>2, <2>1, <2>2
  <1>5. ASSUME Exact PROVE Hopeless(queue', From', To', seen')
    <2>1. Hopeless(queue, From, To, seen)
      BY <1>1, <1>2, <1>4, <1>5, SkipHopeless DEF Exact
    <2>2. \A k \in DOMAIN Tail(queue) : k + 1 \in DOMAIN queue /\ Tail(queue)[k] = queue[k + 1]
      BY <1>1, <1>2
    <2> QED BY <1>1, <1>3, <2>1, <2>2 DEF Hopeless
  <1>6. \A i, j : Connected(i, j) => Connected(i, j)'
    BY <1>1, ConnectedKept
  <1>7. changes' = 0 => Exact'
    BY <1>1, <1>2, <1>3, <1>5, <1>6, PrimedSearch DEF Exact
  <1> QED BY <1>1, <1>2, <1>7 DEF GInv, Orderly

(* The search for the current pair has ended and left it at most one chain *)
(* more.                                                                   *)
Added ==
    /\ Len(chains') \in Nat /\ Len(chains') <= Len(chains) + 1
    /\ \A k \in DOMAIN chains : k \in DOMAIN chains' /\ chains'[k] = chains[k]
    /\ \A k \in DOMAIN chains' : k \in DOMAIN chains \/ chains'[k].pair = pair

LEMMA PairDone ==
  ASSUME TInv, GInv, pc = "bfs", pc' = "pair", pair' = Successor, Added,
         UNCHANGED <<anchors, seen, graph, changes>>,
         NEW a, NEW b, pair = <<a, b>>, Exact => Connected(a, b)'
  PROVE  GInv'
  <1>1. /\ Orderly /\ (changes = 0 => Exact) /\ pair \in Pairs /\ pair[1] < pair[2]
        /\ anchors \in Seq(Node) /\ pair[2] <= Len(anchors)
        /\ chains \in Seq([pair : Pairs, path : Seq(Node)])
        /\ Len(chains) < MaxBridgePaths /\ MaxBridgePaths \in Nat
    BY TraversalAssumption DEF GInv, Orderly, TInv, TypeOK, Phase
  <1>2. /\ Before(pair, Successor)
        /\ \A p \in Pairs : Before(p, pair) => Before(p, Successor)
        /\ Successor[2] > Len(anchors) => Successor[2] = Successor[1] + 1
        /\ \A i, j \in DOMAIN anchors :
              i < j /\ Before(<<i, j>>, Successor) => Before(<<i, j>>, pair) \/ <<i, j>> = pair
    BY <1>1, SuccessorOrder
  <1>3. \A k \in DOMAIN chains' : Before(chains'[k].pair, pair')
    <2> SUFFICES ASSUME NEW k \in DOMAIN chains' PROVE Before(chains'[k].pair, Successor)
      OBVIOUS
    <2>1. CASE k \in DOMAIN chains
      <3>0. chains'[k] = chains[k]
        BY <2>1 DEF Added
      <3>1. chains'[k] = chains[k] /\ chains[k].pair \in Pairs
        <4> DEFINE C == [pair : Pairs, path : Seq(Node)]
        <4>1. \A c \in C : c.pair \in Pairs
          OBVIOUS
        <4>2. chains \in Seq(C)
          BY <1>1
        <4> HIDE DEF C
        <4>3. chains[k] \in C
          BY <2>1, <4>2
        <4> QED BY <3>0, <4>1, <4>3
      <3>2. Before(chains[k].pair, pair)
        BY <1>1, <2>1 DEF Orderly
      <3> QED BY <1>2, <3>1, <3>2
    <2>2. CASE chains'[k].pair = pair
      BY <1>2, <2>2
    <2> QED BY <2>1, <2>2 DEF Added
  <1>4. Len(chains') <= MaxBridgePaths
    <2>1. Len(chains) \in Nat
      BY <1>1
    <2> QED BY <1>1, <2>1 DEF Added
  <1>5. Orderly'
    BY <1>1, <1>2, <1>3, <1>4 DEF Orderly
  <1>6. ASSUME Exact, NEW i \in DOMAIN anchors, NEW j \in DOMAIN anchors, i < j,
               Before(<<i, j>>, Successor)
        PROVE  Connected(i, j)'
    <2>1. CASE Before(<<i, j>>, pair)
      <3>1. Connected(i, j)
        BY <1>6, <2>1 DEF Exact
      <3>2. <<i, j>> # pair
        BY <1>1, <2>1, BeforeIrreflexive
      <3> QED BY <3>1, <3>2, ConnectedKept DEF Added
    <2>2. CASE <<i, j>> = pair
      <3>1. i = a /\ j = b
        BY <2>2
      <3> QED BY <1>6, <3>1
    <2> QED BY <1>2, <1>6, <2>1, <2>2
  <1>7. changes' = 0 => Exact'
    BY <1>1, <1>6 DEF Exact
  <1> QED BY <1>5, <1>7 DEF GInv

(* No chain of the current pair is recorded before its search ends.        *)
LEMMA NoneYet ==
  ASSUME TInv, Orderly, NEW k \in DOMAIN chains
  PROVE  chains[k].pair # pair
  <1>1. Before(chains[k].pair, pair) /\ pair \in Pairs
    BY DEF Orderly, TInv, TypeOK
  <1> QED BY <1>1, BeforeIrreflexive

(* The queue is empty: no route leads to the target.                       *)
LEMMA FailKeeps ==
  ASSUME TInv, GInv, BfsFail
  PROVE  GInv'
  <1>1. /\ UNCHANGED <<anchors, chains, seen, graph, changes>> /\ pc = "bfs" /\ pc' = "pair"
        /\ queue = <<>> /\ pair' = Successor
    BY DEF BfsFail, NextPair, world
  <1>2. /\ Orderly /\ chains \in Seq([pair : Pairs, path : Seq(Node)])
        /\ pair[2] <= Len(anchors) /\ MaxDepth \in Nat
    BY <1>1, TraversalAssumption DEF GInv, TInv, TypeOK, Phase
  <1>3. Added
    <2>1. Len(chains) \in Nat
      BY <1>2
    <2> QED BY <1>1, <2>1 DEF Added
  <1> DEFINE a == pair[1]
             b == pair[2]
  <1>5. pair = <<a, b>>
    BY <1>2, Anchored
  <1> SUFFICES ASSUME NEW i, NEW j, i = a, j = b PROVE GInv'
    OBVIOUS
  <1>4. ASSUME Exact PROVE Connected(i, j)'
    <2>1. ASSUME NEW p \in Routes(From, To, seen) PROVE FALSE
      <3>1. p \in Seq(Node) /\ Leads(p, From, seen) /\ Last(p) = To /\ Len(p) \in 2..(MaxDepth + 1)
        BY <2>1, RouteLeads
      <3>2. CASE Layers(queue, From, visited, seen)
        BY <1>1, <1>4, <3>1, <3>2, AllMarked DEF Exact
      <3>3. CASE Hopeless(queue, From, To, seen)
        <4>1. Len(p) > MaxDepth + 1
          BY <3>1, <3>3 DEF Hopeless
        <4> QED BY <1>2, <3>1, <4>1
      <3> QED BY <1>1, <1>4, <3>2, <3>3 DEF Exact
    <2>3. \A k \in DOMAIN chains : chains[k].pair # <<i, j>>
      BY <1>2, <1>5, NoneYet
    <2>4. Connected(i, j)
      BY <2>1, <2>3 DEF Connected, From, To
    <2> QED BY <1>1, <2>4, ConnectedKept
  <1> QED BY <1>1, <1>3, <1>4, <1>5, PairDone

(* A query that meets the target has come by a shortest route.             *)
LEMMA FoundShortest ==
  ASSUME TInv, Exact, pc = "bfs", queue # <<>>, NEW path, path = Head(queue), Len(path) <= MaxDepth,
         NEW p \in Routes(From, To, seen)
  PROVE  Len(path) \in Nat /\ Len(path) + 1 <= Len(p)
  <1>1. queue \in Seq(Seq(Node)) /\ MaxDepth \in Nat
    BY TraversalAssumption DEF TInv, TypeOK
  <1>2. 1 \in DOMAIN queue /\ path = queue[1] /\ Len(path) \in Nat
    BY <1>1
  <1>3. p \in Seq(Node) /\ Leads(p, From, seen) /\ Last(p) = To /\ Len(p) \in Nat
    BY RouteLeads
  <1>4. ~Hopeless(queue, From, To, seen)
    <2>1. ~(Len(queue[1]) > MaxDepth)
      BY <1>1, <1>2
    <2> QED BY <1>2, <2>1 DEF Hopeless
  <1>5. Covered(queue, From, visited, seen) /\ To \notin visited
    BY <1>4 DEF Exact, Layers
  <1>6. ~(Len(p) <= Len(path))
    BY <1>2, <1>3, <1>5 DEF Covered
  <1> QED BY <1>2, <1>3, <1>6

LEMMA FoundKeeps ==
  ASSUME TInv, GInv, BfsExpand, NEW path, path = Head(queue),
         To \in NeighborEdges(Last(path)) \ visited
  PROVE  GInv'
  <1> DEFINE p == Append(path, To)
             c == [pair |-> pair, path |-> p]
             C == [pair : Pairs, path : Seq(Node)]
  <1>0. /\ pc = "bfs" /\ queue # <<>> /\ Len(path) <= MaxDepth
        /\ chains' = IF Len(path) > 1 THEN Append(chains, c) ELSE chains
        /\ pair' = Successor /\ pc' = "pair" /\ UNCHANGED <<graph, seen, changes, anchors>>
    BY DEF BfsExpand, NextPair, world, walk
  <1>1. chains \in Seq(C) /\ pair \in Pairs /\ Orderly /\ pair[2] <= Len(anchors)
    BY <1>0 DEF TInv, TypeOK, GInv, Phase
  <1>2. p \in Seq(Node) /\ Len(path) >= 1 /\ Len(p) = Len(path) + 1 /\ p \in Routes(From, To, seen)
        /\ Len(path) \in Nat
    BY <1>0, FoundRoute
  <1>3. c \in C /\ c.pair = pair /\ c.path = p
    BY <1>1, <1>2
  <1>4. pair = <<pair[1], pair[2]>>
    BY <1>1, Anchored
  <1> SUFFICES ASSUME NEW i, NEW j, i = pair[1], j = pair[2] PROVE GInv'
    OBVIOUS
  <1> DEFINE R == Routes(anchors[i], anchors[j], seen)
  <1>5. R' = R /\ R = Routes(From, To, seen)
    BY <1>0 DEF Routes, IsPath, From, To
  <1>6. \A k \in DOMAIN chains : chains[k].pair # <<i, j>>
    BY <1>1, <1>4, NoneYet
  <1>7. Exact => \A s \in R : Len(p) <= Len(s)
    BY <1>0, <1>2, <1>5, FoundShortest
  <1> HIDE DEF c, p, C, R
  <1>8. CASE Len(path) > 1
    <2>1. /\ chains' = Append(chains, c) /\ Len(chains) \in Nat /\ Len(chains') = Len(chains) + 1
          /\ DOMAIN chains' = 1..(Len(chains) + 1) /\ DOMAIN chains = 1..Len(chains)
          /\ chains'[Len(chains) + 1] = c /\ \A k \in 1..Len(chains) : chains'[k] = chains[k]
      BY <1>0, <1>1, <1>3, <1>8
    <2>2. \A k \in DOMAIN chains' : k \in DOMAIN chains \/ k = Len(chains) + 1
      BY <2>1
    <2>3. Added
      <3>1. \A k \in DOMAIN chains' : k \in DOMAIN chains \/ chains'[k].pair = pair
        BY <1>3, <2>1, <2>2
      <3>2. \A k \in DOMAIN chains : k \in DOMAIN chains' /\ chains'[k] = chains[k]
        BY <2>1
      <3> QED BY <2>1, <3>1, <3>2 DEF Added
    <2>4. ASSUME Exact PROVE Connected(i, j)'
      <3>1. ASSUME NEW k \in DOMAIN chains', chains'[k].pair = <<i, j>>, NEW s \in R'
            PROVE  Len(chains'[k].path) <= Len(s)
        <4>1. k \notin DOMAIN chains
          BY <1>6, <2>1, <3>1
        <4>2. chains'[k].path = p
          BY <1>3, <2>1, <2>2, <4>1
        <4> QED BY <1>5, <1>7, <2>4, <3>1, <4>2
      <3>2. Len(chains) + 1 \in DOMAIN chains' /\ chains'[Len(chains) + 1].pair = <<i, j>>
        BY <1>3, <1>4, <2>1
      <3> QED BY <3>1, <3>2 DEF Connected, R
    <2> QED BY <1>0, <1>4, <2>3, <2>4, PairDone
  <1>9. CASE ~(Len(path) > 1)
    <2>1. chains' = chains
      BY <1>0, <1>9
    <2>2. Added
      <3>1. Len(chains) \in Nat
        BY <1>1
      <3> QED BY <2>1, <3>1 DEF Added
    <2>3. p \in R /\ ~(Len(p) > 2)
      BY <1>2, <1>5, <1>9
    <2>4. Connected(i, j)
      BY <1>6, <2>3 DEF Connected, R
    <2>5. Connected(i, j)'
      BY <1>0, <2>1, <2>4, ConnectedKept
    <2> QED BY <1>0, <1>4, <2>2, <2>5, PairDone
  <1> QED BY <1>8, <1>9

(* The new memories of a query in some order, and the paths to them.       *)
Queried(path, new, order, g) ==
    /\ new = NeighborEdges(Last(path)) \ visited /\ order \in SetToSeqs(new)
    /\ g = [k \in DOMAIN order |-> Append(path, order[k])]

LEMMA QueryFan ==
  ASSUME DOMAIN graph \subseteq Arcs, NEW path \in Seq(Node), NEW new, NEW order, NEW g,
         Queried(path, new, order, g)
  PROVE  /\ new \in SUBSET Node /\ g \in Seq(Seq(Node)) /\ Fan(g, path, new)
         /\ Fresh(new, Last(path), visited, DOMAIN graph)
  <1>0. /\ new = NeighborEdges(Last(path)) \ visited /\ order \in SetToSeqs(new)
        /\ g = [k \in DOMAIN order |-> Append(path, order[k])]
    BY DEF Queried
  <1>9. order \in SetToSeqs(new)
    BY <1>0
  <1>1. new \in SUBSET Node
    BY <1>0, NeighborHasEdge
  <1>2. IsFiniteSet(new)
    BY <1>0, <1>1, FS_Subset, TraversalAssumption
  <1>3. /\ order \in Seq(new) /\ DOMAIN order = 1..Cardinality(new) /\ Cardinality(new) \in Nat
    BY <1>0, <1>2, OrderOf, FS_CardinalityType
  <1>4. \A n \in new : Append(path, n) \in Seq(Node)
    BY <1>0, <1>1
  <1>5. g \in [1..Cardinality(new) -> Seq(Node)] /\ DOMAIN g = DOMAIN order
    BY <1>0, <1>3, <1>4
  <1>6. g \in Seq(Seq(Node))
    BY <1>0, <1>3, <1>5, FunctionIsSeq
  <1>7. Fan(g, path, new)
    <2>1. ASSUME NEW k \in DOMAIN g PROVE \E n \in new : g[k] = Append(path, n)
      <3>1. k \in DOMAIN order /\ g[k] = Append(path, order[k])
        BY <1>0, <1>5
      <3>2. order[k] \in new
        BY <1>0, <1>3, <3>1
      <3> QED BY <1>0, <3>1, <3>2
    <2>2. ASSUME NEW n \in new PROVE \E k \in DOMAIN g : g[k] = Append(path, n)
      <3>1. PICK k \in DOMAIN order : order[k] = n
        BY <1>2, <1>9, OrderComplete
      <3> QED BY <1>0, <1>5, <3>1
    <2> QED BY <1>0, <2>1, <2>2 DEF Fan
  <1>8. Fresh(new, Last(path), visited, DOMAIN graph)
    <2> SUFFICES ASSUME NEW w \in Node
                 PROVE  w \in new <=> <<Last(path), w>> \in DOMAIN graph /\ w \notin visited
      BY DEF Fresh
    <2>1. ASSUME <<Last(path), w>> \in DOMAIN graph PROVE w \in NeighborEdges(Last(path))
      BY <1>0, <2>1 DEF NeighborEdges
    <2> QED BY <1>0, <2>1, NeighborHasEdge
  <1> QED BY <1>0, <1>1, <1>6, <1>7, <1>8

LEMMA GrowKeeps ==
  ASSUME TInv, GInv, pc = "bfs", queue # <<>>,
         NEW path, path = Head(queue), Len(path) <= MaxDepth,
         NEW new, new = NeighborEdges(Last(path)) \ visited, To \notin new,
         NEW order \in SetToSeqs(new), Grows(path, new, order)
  PROVE  GInv'
  <1>0. PICK g : g = [k \in DOMAIN order |-> Append(path, order[k])]
    OBVIOUS
  <1>1. /\ queue' = Tail(queue) \o g /\ visited' = visited \cup new
        /\ UNCHANGED <<graph, seen, changes, pc, anchors, pair, chains>>
    BY <1>0 DEF Grows
  <1>2. /\ queue \in Seq(Seq(Node)) /\ DOMAIN graph \subseteq Arcs /\ MaxDepth \in Nat
        /\ Orderly /\ (changes = 0 => Exact)
    BY TraversalAssumption DEF TInv, TypeOK, GInv
  <1>3. path \in Seq(Node) /\ path = queue[1] /\ 1 \in DOMAIN queue
    BY <1>2
  <1>4. /\ new \in SUBSET Node /\ g \in Seq(Seq(Node)) /\ Fan(g, path, new)
        /\ Fresh(new, Last(path), visited, DOMAIN graph)
    <2>1. Queried(path, new, order, g)
      BY <1>0 DEF Queried
    <2> QED BY <1>2, <1>3, <2>1, QueryFan
  <1>5. Placed(queue, g, queue')
    BY <1>1, <1>2, <1>4, ReplacedAt DEF Replaced
  <1>6. queue' \in Seq(Seq(Node))
    BY <1>1, <1>2, <1>4
  <1>7. From' = From /\ To' = To
    BY <1>1 DEF From, To
  <1>8. ASSUME Exact PROVE Layers(queue', From', visited', seen') /\ To' \notin visited'
    <2>1. ~(Len(queue[1]) > MaxDepth)
      BY <1>2, <1>3
    <2>2. Layers(queue, From, visited, seen) /\ To \notin visited /\ seen = DOMAIN graph
      BY <1>3, <1>8, <2>1 DEF Exact, Hopeless
    <2>3. Layers(queue', From, visited \cup new, seen)
      BY <1>2, <1>3, <1>4, <1>5, <1>6, <2>2, LayersGrow
    <2> QED BY <1>1, <1>7, <2>2, <2>3
  <1>9. \A i, j : Connected(i, j) => Connected(i, j)'
    BY <1>1, ConnectedKept
  <1>10. changes' = 0 => Exact'
    BY <1>1, <1>2, <1>8, <1>9, PrimedSearch DEF Exact
  <1> QED BY <1>1, <1>2, <1>10 DEF GInv, Orderly

LEMMA ExpandKeeps ==
  ASSUME TInv, GInv, BfsExpand
  PROVE  GInv'
  <1> DEFINE path == Head(queue)
             new == NeighborEdges(Last(path)) \ visited
  <1>1. CASE To \in new
    BY <1>1, FoundKeeps
  <1>2. CASE To \notin new
    <2>1. /\ pc = "bfs" /\ queue # <<>> /\ Len(path) <= MaxDepth
          /\ \E order \in SetToSeqs(new) : Grows(path, new, order)
      BY <1>2 DEF BfsExpand, Grows, world, walk
    <2> QED BY <1>2, <2>1, GrowKeeps
  <1> QED BY <1>1, <1>2

LEMMA GInvInit == Init => GInv
  <1> SUFFICES ASSUME Init PROVE GInv
    OBVIOUS
  <1>1. /\ pc = "expand" /\ anchors = <<>> /\ pair = <<1, 2>> /\ chains = <<>>
        /\ seen = DOMAIN graph /\ MaxBridgePaths \in Nat
    BY TraversalAssumption DEF Init
  <1>2. DOMAIN anchors = {} /\ DOMAIN chains = {} /\ Len(chains) = 0 /\ pair[1] = 1 /\ pair[2] = 2
    BY <1>1
  <1> QED BY <1>1, <1>2 DEF GInv, Orderly, Exact

LEMMA GInvStep == TInv /\ GInv /\ [Next]_vars => GInv'
  <1> SUFFICES ASSUME TInv, GInv, [Next]_vars PROVE GInv'
    OBVIOUS
  <1>1. CASE UNCHANGED vars
    <2>1. UNCHANGED <<anchors, pair, queue, visited, chains, seen, graph, changes, pc>>
      BY <1>1 DEF vars, world, bridge
    <2>2. \A i, j : Connected(i, j) => Connected(i, j)'
      BY <2>1, ConnectedKept
    <2>3. From' = From /\ To' = To
      BY <2>1 DEF From, To
    <2>4. Exact => Exact'
      BY <2>1, <2>2, <2>3, PrimedSearch DEF Exact
    <2> QED BY <2>1, <2>4 DEF GInv, Orderly
  <1>2. CASE Next
    BY <1>2, QuietStep, StartKeeps, SkipKeeps, FailKeeps, ExpandKeeps DEF Next, Step
  <1> QED BY <1>1, <1>2

LEMMA GInvHolds == Spec => [](TInv /\ GInv)
  <1>1. TInv /\ GInv /\ [Next]_vars => (TInv /\ GInv)'
    BY TInvStep, GInvStep
  <1> QED BY <1>1, TInvInit, GInvInit, PTL DEF Spec

(* The minimum of a set of lengths.                                        *)
LEMMA MinIsLeast ==
  ASSUME NEW S, S \subseteq Nat, S # {}
  PROVE  Min(S) \in S /\ \A y \in S : Min(S) <= y
  <1>1. \E x \in S : \A y \in S : x <= y
    BY LeastNumber
  <1> QED BY <1>1 DEF Min

LEMMA ShortestInState ==
  ASSUME TInv, GInv
  PROVE  ShortestWhenStill
  <1> SUFFICES ASSUME pc = "done", changes = 0,
                      NEW i \in DOMAIN anchors, NEW j \in DOMAIN anchors, i < j
               PROVE  LET routes == Routes(anchors[i], anchors[j], DOMAIN graph)
                          dist   == Min({Len(p) : p \in routes})
                          found  == {k \in DOMAIN chains : chains[k].pair = <<i, j>>}
                      IN  /\ \A k \in found : Len(chains[k].path) = dist
                          /\ routes # {} /\ dist > 2 => found # {} \/ Len(chains) = MaxBridgePaths
    BY DEF ShortestWhenStill
  <1> DEFINE routes == Routes(anchors[i], anchors[j], DOMAIN graph)
             S == {Len(p) : p \in routes}
             dist == Min(S)
  <1>1. /\ anchors \in Seq(Node) /\ pair \in Pairs /\ seen = DOMAIN graph /\ Orderly /\ Exact
    BY DEF TInv, TypeOK, GInv, Exact
  <1>2. S \subseteq Nat
    BY RouteLeads
  <1>3. Before(<<i, j>>, pair) => Connected(i, j)
    BY <1>1 DEF Exact
  <1>4. ASSUME Connected(i, j)
        PROVE  /\ \A k \in DOMAIN chains : chains[k].pair = <<i, j>> =>
                     \A p \in routes : Len(chains[k].path) <= Len(p)
               /\ routes # {} /\ (\A p \in routes : Len(p) > 2) =>
                     \E k \in DOMAIN chains : chains[k].pair = <<i, j>>
    BY <1>1, <1>4 DEF Connected
  <1>5. ASSUME NEW k \in DOMAIN chains, chains[k].pair = <<i, j>>
        PROVE  Len(chains[k].path) = dist
    <2>1. Before(<<i, j>>, pair)
      BY <1>1, <1>5 DEF Orderly
    <2>2. chains[k].path \in routes
      <3>1. chains[k].pair[1] = i /\ chains[k].pair[2] = j
        BY <1>5
      <3> QED BY <1>1, <1>5, <3>1 DEF TInv, ChainsSound
    <2> DEFINE n == Len(chains[k].path)
    <2>3. \A p \in routes : n <= Len(p)
      BY <1>3, <1>4, <1>5, <2>1
    <2>4. n \in S /\ \A y \in S : n <= y
      BY <2>2, <2>3
    <2> HIDE DEF S, n
    <2>5. dist \in S /\ \A y \in S : dist <= y
      BY <1>2, <2>4, MinIsLeast
    <2> HIDE DEF dist
    <2>6. n \in Nat /\ dist \in Nat /\ n <= dist /\ dist <= n
      BY <1>2, <2>4, <2>5
    <2>7. n = dist
      BY <2>6
    <2> QED BY <2>7 DEF n
  <1>6. ASSUME routes # {}, dist > 2
        PROVE  (\E k \in DOMAIN chains : chains[k].pair = <<i, j>>) \/ Len(chains) = MaxBridgePaths
    <2>1. \A p \in routes : Len(p) > 2
      <3>1. S # {} /\ \A p \in routes : Len(p) \in S
        BY <1>6
      <3> HIDE DEF S
      <3>2. dist \in S /\ \A y \in S : dist <= y
        BY <1>2, <3>1, MinIsLeast
      <3> HIDE DEF dist, routes
      <3> QED BY <1>2, <1>6, <3>1, <3>2
    <2>2. CASE pair[2] > Len(anchors)
      <3>1. pair[2] = pair[1] + 1 /\ pair[1] \in Nat /\ pair[2] \in Nat
        BY <1>1, <2>2 DEF Orderly, Pairs
      <3>2. i \in Nat /\ j \in Nat /\ j <= Len(anchors) /\ Len(anchors) \in Nat
        BY <1>1
      <3>3. i < pair[1]
        BY <2>2, <3>1, <3>2
      <3>4. Before(<<i, j>>, pair)
        BY <3>3 DEF Before
      <3> QED BY <1>3, <1>4, <1>6, <2>1, <3>4
    <2> QED BY <1>1, <2>2 DEF Orderly
  <1> HIDE DEF routes, S, dist
  <1>7. /\ \A k \in {k \in DOMAIN chains : chains[k].pair = <<i, j>>} : Len(chains[k].path) = dist
        /\ routes # {} /\ dist > 2 => \/ {k \in DOMAIN chains : chains[k].pair = <<i, j>>} # {}
                                      \/ Len(chains) = MaxBridgePaths
    BY <1>5, <1>6
  <1> QED BY <1>7 DEF routes, S, dist

(* Breadth-first search connects two anchors by a shortest chain: on a     *)
(* graph that did not change under the search, anchors at distance         *)
(* 2..max_depth have a chain of just that length and all others none,      *)
(* until max_bridge_paths chains are found (searcher.rs 383-456).          *)
THEOREM ShortestHolds == Spec => []ShortestWhenStill
  <1>1. TInv /\ GInv => ShortestWhenStill
    BY ShortestInState
  <1> QED BY <1>1, GInvHolds, PTL

-----------------------------------------------------------------------------
(* The expansion over a graph that does not change.                        *)

Strong == DOMAIN graph \ LoneFaded

(* After each hop: what unfaded links lead to in as many hops was found,   *)
(* what was found and is not in the frontier has been expanded, and all    *)
(* that was found is that near.                                            *)
Spread ==
    /\ live = Node /\ hits \cap bare = {}
    /\ Ball(seeds, FreshLinks, Passed, hop) \subseteq have \cup bare
    /\ \A v \in (have \ hits) \cup seeds, w \in Node :
          <<v, w>> \in FreshLinks => w \in have \cup bare \/ v \in frontier
    /\ have \ hits \subseteq Ball(seeds, Strong, Node, hop) \ bare
    /\ frontier \subseteq Ball(seeds, Strong, Node, hop)
    /\ pc = "rows" =>
          /\ linked \subseteq Ball(seeds, Strong, Node, hop + 1)
          /\ \A v \in frontier, w \in Node : <<v, w>> \in FreshLinks => w \in have \cup linked

EInv ==
    /\ pc \notin {"expand", "rows"} => hop = ask.hops \/ frontier = {}
    /\ changes = 0 => Spread

(* What it means to be within n hops.                                      *)
LEMMA BallIs ==
  ASSUME NEW S, NEW E, NEW T, NEW n \in Nat, NEW v
  PROVE  v \in Ball(S, E, T, n) <=>
            \E p \in Seq(Node) : Trail(p, S, E, T) /\ Len(p) <= n + 1 /\ Last(p) = v
  <1>1. ASSUME v \in Ball(S, E, T, n)
        PROVE  \E p \in Seq(Node) : Trail(p, S, E, T) /\ Len(p) <= n + 1 /\ Last(p) = v
    <2>1. PICK p \in SeqOf(Node, n + 1) : Trail(p, S, E, T) /\ Last(p) = v
      BY <1>1 DEF Ball
    <2>2. PICK m \in 0..(n + 1) : p \in [1..m -> Node]
      BY <2>1 DEF SeqOf
    <2>3. m \in Nat /\ m <= n + 1
      BY <2>2
    <2>4. p \in Seq(Node) /\ Len(p) = m
      BY <2>2, <2>3
    <2> QED BY <2>1, <2>3, <2>4
  <1>2. ASSUME NEW p \in Seq(Node), Trail(p, S, E, T), Len(p) <= n + 1, Last(p) = v
        PROVE  v \in Ball(S, E, T, n)
    <2>1. Len(p) \in 0..(n + 1) /\ p \in [1..Len(p) -> Node]
      BY <1>2
    <2>2. p \in SeqOf(Node, n + 1)
      BY <2>1 DEF SeqOf
    <2> QED BY <1>2, <2>2 DEF Ball
  <1> QED BY <1>1, <1>2

LEMMA BallStart ==
  ASSUME NEW S \in SUBSET Node, NEW E, NEW T
  PROVE  Ball(S, E, T, 0) = S
  <1>1. ASSUME NEW v \in S PROVE v \in Ball(S, E, T, 0)
    <2> DEFINE p == <<v>>
    <2>1. p \in Seq(Node) /\ Len(p) = 1 /\ p[1] = v /\ Last(p) = v
      BY DEF Last
    <2> HIDE DEF p
    <2>2. Trail(p, S, E, T)
      BY <2>1 DEF Trail, IsPath
    <2>3. Len(p) <= 0 + 1 /\ 0 \in Nat
      BY <2>1
    <2> QED BY <2>1, <2>2, <2>3, BallIs
  <1>2. ASSUME NEW v \in Ball(S, E, T, 0) PROVE v \in S
    <2>1. PICK p \in Seq(Node) : Trail(p, S, E, T) /\ Len(p) <= 0 + 1 /\ Last(p) = v
      BY BallIs
    <2>2. Len(p) = 1
      <3>1. Len(p) \in Nat /\ Len(p) >= 1
        BY <2>1 DEF Trail
      <3>2. Len(p) <= 1
        BY <2>1
      <3>3. \A n \in Nat : n >= 1 /\ n <= 1 => n = 1
        OBVIOUS
      <3> QED BY <3>1, <3>2, <3>3
    <2> QED BY <2>1, <2>2 DEF Trail, Last
  <1> QED BY <1>1, <1>2

LEMMA BallWider ==
  ASSUME NEW S, NEW E, NEW T, NEW m \in Nat, NEW n \in Nat, m <= n
  PROVE  Ball(S, E, T, m) \subseteq Ball(S, E, T, n)
  <1> SUFFICES ASSUME NEW v \in Ball(S, E, T, m) PROVE v \in Ball(S, E, T, n)
    OBVIOUS
  <1>1. PICK p \in Seq(Node) : Trail(p, S, E, T) /\ Len(p) <= m + 1 /\ Last(p) = v
    BY BallIs
  <1>2. Len(p) <= n + 1
    BY <1>1
  <1> QED BY <1>1, <1>2, BallIs

(* One hop further.                                                        *)
LEMMA BallHop ==
  ASSUME NEW S, NEW E, NEW n \in Nat, NEW v \in Ball(S, E, Node, n), NEW w \in Node, <<v, w>> \in E
  PROVE  w \in Ball(S, E, Node, n + 1)
  <1>1. PICK p \in Seq(Node) : Trail(p, S, E, Node) /\ Len(p) <= n + 1 /\ Last(p) = v
    BY BallIs
  <1> DEFINE r == Append(p, w)
  <1>2. /\ r \in Seq(Node) /\ Len(p) \in Nat /\ Len(r) = Len(p) + 1 /\ r[Len(p) + 1] = w
        /\ \A i \in 1..Len(p) : r[i] = p[i]
    OBVIOUS
  <1> HIDE DEF r
  <1>3. Len(p) >= 1 /\ p[1] \in S /\ IsPath(p, E) /\ p[Len(p)] = v
    BY <1>1 DEF Trail, Last
  <1>4. r[1] \in S /\ Len(r) >= 1 /\ Len(r) <= n + 1 + 1 /\ Last(r) = w
    BY <1>1, <1>2, <1>3 DEF Last
  <1>5. IsPath(r, E)
    <2> SUFFICES ASSUME NEW k \in 1..(Len(r) - 1) PROVE <<r[k], r[k + 1]>> \in E
      BY DEF IsPath
    <2>1. CASE k = Len(p)
      BY <1>2, <1>3, <2>1
    <2>2. CASE k # Len(p)
      <3>1. k \in 1..(Len(p) - 1) /\ k \in 1..Len(p) /\ k + 1 \in 1..Len(p)
        BY <1>2, <2>2
      <3> QED BY <1>2, <1>3, <3>1 DEF IsPath
    <2> QED BY <2>1, <2>2
  <1>6. \A k \in 2..(Len(r) - 1) : r[k] \in Node
    BY <1>2
  <1>7. Trail(r, S, E, Node)
    BY <1>4, <1>5, <1>6 DEF Trail
  <1>8. n + 1 \in Nat
    OBVIOUS
  <1> QED BY <1>2, <1>4, <1>7, <1>8, BallIs

(* What is one hop further away has a predecessor that may be passed.      *)
LEMMA BallBack ==
  ASSUME NEW S, NEW E, NEW T, NEW n \in Nat, NEW w \in Ball(S, E, T, n + 1)
  PROVE  w \in Ball(S, E, T, n) \/ \E v \in Ball(S, E, T, n) : v \in S \cup T /\ <<v, w>> \in E
  <1>0. n + 1 \in Nat
    OBVIOUS
  <1>1. PICK p \in Seq(Node) : Trail(p, S, E, T) /\ Len(p) <= n + 1 + 1 /\ Last(p) = w
    BY <1>0, BallIs
  <1>2. Len(p) \in Nat /\ Len(p) >= 1 /\ p[1] \in S /\ IsPath(p, E)
        /\ (\A k \in 2..(Len(p) - 1) : p[k] \in T) /\ p[Len(p)] = w
    BY <1>1 DEF Trail, Last
  <1>3. CASE Len(p) <= n + 1
    BY <1>1, <1>3, BallIs
  <1>4. CASE ~(Len(p) <= n + 1)
    <2> DEFINE m == n + 1
               r == SubSeq(p, 1, m)
    <2>1. Len(p) = m + 1 /\ m \in Nat /\ m >= 1 /\ m \in 1..Len(p) /\ m \in 1..(Len(p) - 1)
      BY <1>1, <1>2, <1>4
    <2> HIDE DEF m
    <2>2. Leads(p, p[1], E)
      BY <1>2 DEF Leads
    <2>3. r \in Seq(Node) /\ Len(r) = m /\ Last(r) = p[m] /\ Leads(r, p[1], E)
      BY <2>1, <2>2, WalkCut
    <2>4. \A k \in 1..m : r[k] = p[k]
      BY <2>1
    <2> HIDE DEF r
    <2>5. Trail(r, S, E, T)
      <3>1. \A k \in 2..(m - 1) : k \in 1..m /\ k \in 2..(Len(p) - 1)
        BY <2>1
      <3>2. \A k \in 2..(m - 1) : r[k] \in T
        BY <1>2, <2>4, <3>1
      <3> QED BY <1>2, <2>1, <2>3, <3>2 DEF Trail, Leads
    <2>6. p[m] \in Ball(S, E, T, n)
      BY <2>1, <2>3, <2>5, BallIs DEF m
    <2>7. <<p[m], w>> \in E
      BY <1>2, <2>1 DEF IsPath
    <2>8. p[m] \in S \cup T
      <3>1. CASE m = 1
        BY <1>2, <3>1
      <3>2. CASE m # 1
        <4>1. m \in 2..(Len(p) - 1)
          BY <2>1, <3>2
        <4> QED BY <1>2, <4>1
      <3> QED BY <3>1, <3>2
    <2> QED BY <2>6, <2>7, <2>8
  <1> QED BY <1>3, <1>4

(* A set that is closed under hops holds all that is within reach.         *)
LEMMA BallClosed ==
  ASSUME NEW S, NEW E, NEW T, NEW n \in Nat, NEW X, S \subseteq X,
         \A v \in X, w \in Node : v \in S \cup T /\ <<v, w>> \in E => w \in X
  PROVE  Ball(S, E, T, n) \subseteq X
  <1> SUFFICES ASSUME NEW w \in Ball(S, E, T, n), w \notin X PROVE FALSE
    OBVIOUS
  <1>1. PICK p \in Seq(Node) : Trail(p, S, E, T) /\ Len(p) <= n + 1 /\ Last(p) = w
    BY BallIs
  <1>2. Len(p) \in Nat /\ Len(p) >= 1 /\ p[1] \in S /\ IsPath(p, E)
        /\ (\A k \in 2..(Len(p) - 1) : p[k] \in T) /\ p[Len(p)] = w
    BY <1>1 DEF Trail, Last
  <1> DEFINE Q == {k \in 1..Len(p) : p[k] \notin X}
  <1>3. Len(p) \in Q /\ Q \subseteq Nat
    BY <1>2
  <1>4. PICK k \in Q : \A m \in Q : k <= m
    BY <1>3, LeastNumber
  <1>5. k \in 1..Len(p) /\ p[k] \notin X /\ k # 1 /\ p[k] \in Node
    BY <1>2, <1>4
  <1>6. k - 1 \in 1..(Len(p) - 1) /\ k - 1 \in 1..Len(p) /\ k - 1 + 1 = k /\ ~(k <= k - 1)
    BY <1>2, <1>5
  <1>7. p[k - 1] \in X
    BY <1>4, <1>6
  <1>8. <<p[k - 1], p[k]>> \in E
    BY <1>2, <1>6 DEF IsPath
  <1>9. p[k - 1] \in S \cup T
    <2>1. CASE k - 1 = 1
      BY <1>2, <2>1
    <2>2. CASE k - 1 # 1
      <3>1. k - 1 \in 2..(Len(p) - 1)
        BY <1>2, <1>6, <2>2
      <3> QED BY <1>2, <3>1
    <2> QED BY <2>1, <2>2
  <1> QED BY <1>5, <1>7, <1>8, <1>9

(* The distances after a step that changes neither links nor hits.         *)
LEMMA PrimedBall ==
  ASSUME UNCHANGED <<graph, bare, hits, seeds>>
  PROVE  /\ FreshLinks' = FreshLinks /\ Strong' = Strong
         /\ Ball(seeds, FreshLinks, Passed, hop)' = Ball(seeds, FreshLinks, Passed, hop')
         /\ Ball(seeds, Strong, Node, hop)' = Ball(seeds, Strong, Node, hop')
         /\ Ball(seeds, Strong, Node, hop + 1)' = Ball(seeds, Strong, Node, hop' + 1)
  <1>1. FreshLinks' = FreshLinks /\ Strong' = Strong /\ Passed' = Passed
    BY DEF FreshLinks, Strong, LoneFaded, Passed
  <1> QED BY <1>1 DEF Ball, Trail, IsPath

(* A step that does not touch the expansion.                               *)
LEMMA SpreadKept ==
  ASSUME Spread, UNCHANGED <<live, graph, bare, hits, seeds, have, frontier, hop, linked>>,
         pc' = "rows" => pc = "rows"
  PROVE  Spread'
  <1>1. /\ FreshLinks' = FreshLinks
        /\ Ball(seeds, FreshLinks, Passed, hop)' = Ball(seeds, FreshLinks, Passed, hop)
        /\ Ball(seeds, Strong, Node, hop)' = Ball(seeds, Strong, Node, hop)
        /\ Ball(seeds, Strong, Node, hop + 1)' = Ball(seeds, Strong, Node, hop + 1)
    BY PrimedBall
  <1> QED BY <1>1 DEF Spread

(* A target that may pass the decay check is led to by a link that is not  *)
(* a single faded one.                                                     *)
LEMMA MayPassStrong ==
  ASSUME NEW I, I \subseteq DOMAIN graph, I # {}, MayPass(I), NEW n, \A e \in I : e[2] = n
  PROVE  \E e \in I : e \in Strong
  <1>1. ASSUME NEW e \in I, graph[e] # "faded" PROVE e \in Strong
    BY <1>1 DEF Strong, LoneFaded
  <1>2. CASE MustPass(I)
    BY <1>1, <1>2 DEF MustPass
  <1>3. CASE Cardinality(I) > 1
    <2>1. PICK e \in I : TRUE
      OBVIOUS
    <2>2. I # {e}
      <3>1. Cardinality({e}) = 1
        BY FS_Singleton
      <3>2. ~(1 > 1)
        OBVIOUS
      <3> QED BY <1>3, <3>1, <3>2
    <2>3. PICK f \in I : f # e
      BY <2>1, <2>2
    <2> QED BY <2>1, <2>3 DEF Strong, LoneFaded
  <1> QED BY <1>2, <1>3 DEF MayPass

LEMMA EdgesSpread ==
  ASSUME TInv, EInv, ExpandEdges
  PROVE  EInv'
  <1> DEFINE Into(n) == {e \in DOMAIN graph : e[1] \in frontier /\ e[2] = n}
             targets == {n \in Node \ have : Into(n) # {}}
  <1>1. /\ UNCHANGED <<live, bare, graph, changes, ask, hits, seeds, have, frontier, hop>>
        /\ pc = "expand" /\ pc' = "rows"
    BY DEF ExpandEdges, world
  <1>2. PICK L : /\ linked' = L
                 /\ \A n \in targets : MustPass(Into(n)) => n \in L
                 /\ \A n \in L : n \in targets /\ MayPass(Into(n))
    BY DEF ExpandEdges
  <1>3. /\ DOMAIN graph \subseteq Arcs /\ hop \in Nat /\ frontier \subseteq Node
        /\ (changes = 0 => Spread)
    BY DEF TInv, TypeOK, EInv
  <1>4. ASSUME Spread, NEW n \in linked' PROVE n \in Ball(seeds, Strong, Node, hop + 1)
    <2>1. n \in Node /\ Into(n) # {} /\ MayPass(Into(n))
      BY <1>2, <1>4
    <2>2. PICK e \in Into(n) : e \in Strong
      <3> DEFINE I == Into(n)
      <3>1. I \subseteq DOMAIN graph /\ (\A e \in I : e[2] = n)
        OBVIOUS
      <3>2. I # {} /\ MayPass(I)
        BY <2>1
      <3>3. \E e \in I : e \in Strong
        <4> HIDE DEF I
        <4> QED BY <3>1, <3>2, MayPassStrong
      <3> QED BY <3>3
    <2>3. e[1] \in Ball(seeds, Strong, Node, hop) /\ e[2] = n
      BY <1>4, <2>2 DEF Spread
    <2>4. e = <<e[1], n>>
      BY <1>3, <2>2 DEF Arcs
    <2>5. <<e[1], n>> \in Strong
      BY <2>2, <2>4
    <2> QED BY <1>3, <2>1, <2>3, <2>5, BallHop
  <1>5. ASSUME NEW v \in frontier, NEW w \in Node, <<v, w>> \in FreshLinks
        PROVE  w \in have \cup linked'
    <2>1. <<v, w>> \in Into(w) /\ graph[<<v, w>>] = "fresh"
      BY <1>5 DEF FreshLinks
    <2>2. MustPass(Into(w))
      BY <2>1 DEF MustPass
    <2> QED BY <1>2, <2>1, <2>2
  <1>6. ASSUME Spread PROVE Spread'
    <2>1. /\ FreshLinks' = FreshLinks
          /\ Ball(seeds, FreshLinks, Passed, hop)' = Ball(seeds, FreshLinks, Passed, hop)
          /\ Ball(seeds, Strong, Node, hop)' = Ball(seeds, Strong, Node, hop)
          /\ Ball(seeds, Strong, Node, hop + 1)' = Ball(seeds, Strong, Node, hop + 1)
      BY <1>1, PrimedBall
    <2>2. linked' \subseteq Ball(seeds, Strong, Node, hop + 1)
      BY <1>4, <1>6
    <2> QED BY <1>1, <1>5, <1>6, <2>1, <2>2 DEF Spread
  <1> QED BY <1>1, <1>3, <1>6 DEF EInv

LEMMA RowsSpread ==
  ASSUME TInv, EInv, ExpandRows
  PROVE  EInv'
  <1> DEFINE found == (linked \cap live) \ bare
  <1>1. /\ UNCHANGED <<live, bare, graph, changes, ask, hits, seeds>>
        /\ pc = "rows" /\ pc' = "expand"
        /\ have' = have \cup found /\ frontier' = found /\ hop' = hop + 1 /\ linked' = {}
    BY DEF ExpandRows, world
  <1>2. /\ hop \in Nat /\ linked \subseteq Node /\ have \subseteq Node /\ seeds \subseteq hits
        /\ hits \subseteq have /\ (changes = 0 => Spread)
    BY DEF TInv, TypeOK, EInv
  <1>3. ASSUME Spread PROVE Spread'
    <2>1. /\ FreshLinks' = FreshLinks
          /\ Ball(seeds, FreshLinks, Passed, hop)' = Ball(seeds, FreshLinks, Passed, hop + 1)
          /\ Ball(seeds, Strong, Node, hop)' = Ball(seeds, Strong, Node, hop + 1)
      BY <1>1, PrimedBall
    <2>2. /\ live = Node /\ hits \cap bare = {}
          /\ Ball(seeds, FreshLinks, Passed, hop) \subseteq have \cup bare
          /\ \A v \in (have \ hits) \cup seeds, w \in Node :
                <<v, w>> \in FreshLinks => w \in have \cup bare \/ v \in frontier
          /\ have \ hits \subseteq Ball(seeds, Strong, Node, hop) \ bare
          /\ linked \subseteq Ball(seeds, Strong, Node, hop + 1)
          /\ \A v \in frontier, w \in Node : <<v, w>> \in FreshLinks => w \in have \cup linked
      BY <1>1, <1>3 DEF Spread
    <2>3. ASSUME NEW v \in (have \ hits) \cup seeds, NEW w \in Node, <<v, w>> \in FreshLinks
          PROVE  w \in have' \cup bare
      BY <1>1, <1>2, <2>2, <2>3
    <2>4. Ball(seeds, FreshLinks, Passed, hop + 1) \subseteq have' \cup bare
      <3> SUFFICES ASSUME NEW w \in Ball(seeds, FreshLinks, Passed, hop + 1)
                   PROVE  w \in have' \cup bare
        OBVIOUS
      <3>1. CASE w \in Ball(seeds, FreshLinks, Passed, hop)
        BY <1>1, <2>2, <3>1
      <3>2. CASE \E v \in Ball(seeds, FreshLinks, Passed, hop) :
                    v \in seeds \cup Passed /\ <<v, w>> \in FreshLinks
        <4>1. PICK v \in Ball(seeds, FreshLinks, Passed, hop) :
                 v \in seeds \cup Passed /\ <<v, w>> \in FreshLinks
          BY <3>2
        <4>2. v \in (have \ hits) \cup seeds
          BY <2>2, <4>1 DEF Passed
        <4>3. w \in Node
          BY <4>1 DEF FreshLinks, TInv, TypeOK, Arcs
        <4> QED BY <2>3, <4>1, <4>2, <4>3
      <3> QED BY <1>2, <3>1, <3>2, BallBack
    <2>5. Ball(seeds, Strong, Node, hop) \subseteq Ball(seeds, Strong, Node, hop + 1)
      <3>1. hop + 1 \in Nat /\ hop <= hop + 1
        BY <1>2
      <3> QED BY <1>2, <3>1, BallWider
    <2>6. \A v \in (have' \ hits) \cup seeds, w \in Node :
             <<v, w>> \in FreshLinks => w \in have' \cup bare \/ v \in frontier'
      BY <1>1, <2>3
    <2>7. have' \ hits \subseteq Ball(seeds, Strong, Node, hop + 1) \ bare
      BY <1>1, <2>2, <2>5
    <2>8. frontier' \subseteq Ball(seeds, Strong, Node, hop + 1)
      BY <1>1, <2>2
    <2> QED BY <1>1, <2>1, <2>2, <2>4, <2>6, <2>7, <2>8 DEF Spread
  <1> QED BY <1>1, <1>2, <1>3 DEF EInv

LEMMA EInvInit == Init => EInv
  <1> SUFFICES ASSUME Init PROVE EInv
    OBVIOUS
  <1>1. /\ live = Node /\ have = hits /\ frontier = seeds /\ hop = 0 /\ pc = "expand"
    BY DEF Init
  <1>2. hits \subseteq Node \ bare /\ seeds \subseteq hits
    BY DEF Init, kSubset
  <1>3. /\ Ball(seeds, FreshLinks, Passed, hop) = seeds
        /\ Ball(seeds, Strong, Node, hop) = seeds
    <2>1. seeds \in SUBSET Node
      BY <1>2
    <2> QED BY <1>1, <2>1, BallStart
  <1>4. Spread
    BY <1>1, <1>2, <1>3 DEF Spread
  <1> QED BY <1>1, <1>4 DEF EInv

LEMMA EInvStep == TInv /\ EInv /\ [Next]_vars => EInv'
  <1> SUFFICES ASSUME TInv, EInv, [Next]_vars PROVE EInv'
    OBVIOUS
  <1>1. changes \in Nat /\ ask.hops \in Nat /\ hop \in 0..ask.hops
    BY DEF TInv, TypeOK
  <1>2. CASE Change
    <2>1. changes' = changes + 1 /\ UNCHANGED <<pc, hop, ask, frontier>>
      BY <1>2 DEF Change, walk
    <2>2. changes' # 0
      BY <1>1, <2>1
    <2> QED BY <2>1, <2>2 DEF EInv
  <1>3. CASE ExpandEnd
    <2>1. /\ UNCHANGED <<live, graph, bare, hits, seeds, have, frontier, hop, linked, ask, changes>>
          /\ pc' = "results" /\ (~HopsLeft \/ frontier = {})
      BY <1>3 DEF ExpandEnd, world, walk
    <2>2. hop = ask.hops \/ frontier = {}
      BY <1>1, <2>1 DEF HopsLeft
    <2> QED BY <2>1, <2>2, SpreadKept DEF EInv
  <1>4. CASE Results \/ BfsStart \/ BfsSkip \/ BfsExpand \/ BfsFail \/ BridgesEnd
    <2>1. /\ UNCHANGED <<live, graph, bare, hits, seeds, have, frontier, hop, linked, ask, changes>>
          /\ pc \notin {"expand", "rows"} /\ pc' # "rows"
      BY <1>4 DEF Results, BfsStart, BfsSkip, BfsExpand, BfsFail, BridgesEnd, NextPair, world, walk
    <2> QED BY <2>1, SpreadKept DEF EInv
  <1>5. CASE UNCHANGED vars
    <2>1. UNCHANGED <<live, graph, bare, hits, seeds, have, frontier, hop, linked, ask, changes, pc>>
      BY <1>5 DEF vars, world, walk
    <2> QED BY <2>1, SpreadKept DEF EInv
  <1> QED BY <1>2, <1>3, <1>4, <1>5, EdgesSpread, RowsSpread DEF Next, Step

LEMMA ExpansionInState ==
  ASSUME TInv, EInv
  PROVE  ExpansionBounded
  <1> SUFFICES ASSUME pc = "done", changes = 0
               PROVE  /\ Ball(seeds, FreshLinks, Passed, ask.hops) \ bare \subseteq have
                      /\ have \subseteq hits \cup (Ball(seeds, Strong, Node, ask.hops) \ bare)
    BY DEF ExpansionBounded, Strong
  <1>1. /\ Spread /\ (hop = ask.hops \/ frontier = {}) /\ ask.hops \in Nat /\ hop \in Nat
        /\ hop <= ask.hops /\ seeds \subseteq hits /\ hits \subseteq have
    BY DEF EInv, TInv, TypeOK
  <1>2. Ball(seeds, FreshLinks, Passed, ask.hops) \subseteq have \cup bare
    <2>1. CASE hop = ask.hops
      BY <1>1, <2>1 DEF Spread
    <2>2. CASE frontier = {}
      <3> DEFINE X == have \cup bare
      <3>1. seeds \subseteq X
        BY <1>1
      <3>2. ASSUME NEW v \in X, NEW w \in Node, v \in seeds \cup Passed, <<v, w>> \in FreshLinks
            PROVE  w \in X
        <4>1. v \in (have \ hits) \cup seeds
          BY <3>2 DEF Passed
        <4> QED BY <1>1, <2>2, <3>2, <4>1 DEF Spread
      <3> HIDE DEF X
      <3>3. Ball(seeds, FreshLinks, Passed, ask.hops) \subseteq X
        BY <1>1, <3>1, <3>2, BallClosed
      <3> QED BY <3>3 DEF X
    <2> QED BY <1>1, <2>1, <2>2
  <1>3. Ball(seeds, Strong, Node, hop) \subseteq Ball(seeds, Strong, Node, ask.hops)
    BY <1>1, BallWider
  <1>4. have \ hits \subseteq Ball(seeds, Strong, Node, hop) \ bare
    BY <1>1 DEF Spread
  <1> QED BY <1>2, <1>3, <1>4

(* On a graph that did not change under the search, the expansion adds     *)
(* every memory with an embedding that fresh links lead to within the      *)
(* asked hops, and nothing that only a single faded link leads to          *)
(* (searcher.rs 289-371).                                                  *)
THEOREM ExpansionHolds == Spec => []ExpansionBounded
  <1>1. TInv /\ EInv /\ [Next]_vars => (TInv /\ EInv)'
    BY TInvStep, EInvStep
  <1>2. TInv /\ EInv => ExpansionBounded
    BY ExpansionInState
  <1> QED BY <1>1, <1>2, TInvInit, EInvInit, PTL DEF Spec
=============================================================================
