---------------------------- MODULE MCPaneOutput ----------------------------
(***************************************************************************)
(* Instances of PaneOutput for TLC.                                         *)
(***************************************************************************)
EXTENDS PaneOutput, TLC

CONSTANTS p1, p2, p3

\* A window of two panes, and what is left of it when one has gone or the other
\* is zoomed: the second pane moves between the slots.
SplitViews == {<<p2>>, <<p1, p2>>}

\* Two windows of one pane.
LoneViews == {<<p1>>, <<p2>>}

\* A window of two panes, also with the second zoomed, and a window of one pane: no
\* two clients may view the first at once.
ZoomedViews == {<<p1, p2>>, <<p2>>, <<p3>>}

OneSession == [c \in Conns |-> "s1"]

\* Clients of different sessions of a group.
OwnSessions == [c \in Conns |-> c]

\* How often each thing from outside happens in one behaviour.
Times(a, p, l, d, s, h) ==
    [attach |-> a, project |-> p, loss |-> l, drain |-> d, stop |-> s, history |-> h]

\* Successive hand-offs; a transport that fails in one; a pane that ends in one;
\* output that is undone; output and history.
Scenarios ==
    {Times(1, 2, 0, 0, 0, 0), Times(1, 1, 1, 0, 0, 0), Times(1, 1, 0, 0, 1, 0),
     Times(1, 0, 0, 2, 0, 0), Times(1, 0, 0, 1, 0, 1)}

\* The client reconnects; a pane ends in a hand-off; a transport fails under output.
Reconnections ==
    {Times(2, 0, 0, 0, 0, 0), Times(1, 1, 0, 0, 1, 0), Times(1, 0, 1, 1, 0, 0)}

\* Two clients attach, and one of them moves on.
Successions == {Times(2, 1, 0, 0, 0, 0)}
=============================================================================
