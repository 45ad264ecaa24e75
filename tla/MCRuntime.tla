---------------------------- MODULE MCRuntime ----------------------------
(* Instances of Runtime for TLC.                                           *)
EXTENDS Runtime
=============================================================================
