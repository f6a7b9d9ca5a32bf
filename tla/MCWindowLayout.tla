--------------------------- MODULE MCWindowLayout ---------------------------
(***************************************************************************)
(* Instances of WindowLayout for TLC.                                       *)
(***************************************************************************)
EXTENDS LayoutPlan

MCSizes == {<<7, 5>>, <<5, 4>>}
MCWideSizes == {<<12, 1>>}
=============================================================================
