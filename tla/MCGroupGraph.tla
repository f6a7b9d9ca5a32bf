---------------------------- MODULE MCGroupGraph ----------------------------
(***************************************************************************)
(* Instances of GroupGraph for TLC.                                         *)
(***************************************************************************)
EXTENDS GroupGraph, TLC

CONSTANTS s1, s2

Symmetry == Permutations(Clients)
=============================================================================
