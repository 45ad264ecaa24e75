--------------------------- MODULE MCAssociations ---------------------------
(* An instance of Associations for TLC.                                    *)
EXTENDS Associations, TLC

Symmetry == Permutations(Id) \cup Permutations(Tasks)

SomeStrengths == {-1, 2}
=============================================================================
