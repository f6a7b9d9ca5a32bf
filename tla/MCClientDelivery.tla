-------------------------- MODULE MCClientDelivery --------------------------
(***************************************************************************)
(* Instances of ClientDelivery for TLC.                                     *)
(***************************************************************************)
EXTENDS ClientDelivery, TLC

Symmetry == Permutations(Conns) \cup Permutations(Producers) \cup Permutations(Slots)
=============================================================================
