------------------------ MODULE MCSessionPersistence ------------------------
(* Instances of SessionPersistence for TLC. *)
EXTENDS SessionPersistence

\* Names are interchangeable: no action compares them but for equality.
Symmetry == Permutations(Names)
=============================================================================
