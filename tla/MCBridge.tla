------------------------------ MODULE MCBridge ------------------------------
(* An instance of Bridge, and with it of Session, for TLC.                 *)
EXTENDS Bridge, TLC

Symmetry == Permutations(Tokens)
=============================================================================
