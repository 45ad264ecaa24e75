---------------------------- MODULE MCTraversal ----------------------------
(* An instance of Traversal for TLC.                                       *)
EXTENDS Traversal, TLC

Symmetry == Permutations(Node)

\* Bridges over every graph of up to five strong links; expansions over every graph
\* of few links of all kinds; both in one search over few strong links.
AllSearches ==
    { [hops |-> 0, bridges |-> TRUE, limit |-> 3, kinds |-> {"fresh"}, edges |-> 5, stubs |-> 0],
      [hops |-> 2, bridges |-> FALSE, limit |-> 1, kinds |-> Kind, edges |-> 3, stubs |-> 1],
      [hops |-> 1, bridges |-> TRUE, limit |-> 3, kinds |-> {"fresh"}, edges |-> 2, stubs |-> 0] }
=============================================================================
