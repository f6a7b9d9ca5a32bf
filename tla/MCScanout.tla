----------------------------- MODULE MCScanout -----------------------------
(***************************************************************************)
(* Instances of Scanout for TLC.                                            *)
(***************************************************************************)
EXTENDS Scanout

CONSTANTS p1, p2

\* Two panes, and one of them alone, in the slot of the other.
Split == [s \in {1, 2} |-> IF s = 1 THEN p1 ELSE p2]
Zoomed == [s \in {1} |-> p2]
SplitAndZoomed == {Split, Zoomed}

Scenario(panes, t, p, l, r) ==
    [panes |-> panes, typed |-> t, printed |-> p, layouts |-> l, resets |-> r]

\* Keys in one pane; keys against the application; keys that move the focus; a new
\* layout while something is typed.
Typing ==
    {Scenario(Zoomed, 4, 0, 0, 0), Scenario(Zoomed, 2, 1, 0, 0), Scenario(Split, 2, 0, 0, 1),
     Scenario(Split, 1, 0, 2, 0)}

\* Keys in one pane, one of which the application may disregard.
Disregarded == {Scenario(Zoomed, 3, 1, 0, 0)}
=============================================================================
