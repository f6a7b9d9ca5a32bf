------------------------- MODULE MCClientLifecycle -------------------------
(***************************************************************************)
(* Instances of ClientLifecycle for TLC.                                   *)
(***************************************************************************)
EXTENDS ClientLifecycle, TLC

CONSTANTS s1, s2, s3, w1, w2

\* Two independent sessions of one window each.
SeparateWindows == (s1 :> {w1}) @@ (s2 :> {w2})

\* One session of two windows.
OneSession == s1 :> {w1, w2}

\* One session of one window.
LoneWindow == s1 :> {w1}

\* A base session and its mirror, linking the same two windows.
GroupedWindows == (s1 :> {w1, w2}) @@ (s2 :> {w1, w2})

\* A base session and its mirror with one window, and a session apart.
MirrorAndOther == (s1 :> {w1}) @@ (s2 :> {w1}) @@ (s3 :> {w2})

\* The part of Next in which no transport fails and nothing is shut down.
CalmNext ==
    \/ \E k \in Conns :
          \/ Progress(k)
          \/ \E c \in Clients, s \in Sessions : admitSessionConnection(k, c, s)
          \/ \E w \in Windows : selectWindowItself(k, w)
          \/ \E t \in Sessions : transitionClientToSession(k, t)
    \/ \E s \in Sessions :
          \/ issueAttachGrant(s)
          \/ resolveSelect(s)
          \/ \E w \in Windows : selectResolvedWindow(s, w)

CalmSpec == Init /\ [][CalmNext]_vars

\* Liveness allows no symmetry; the windows of a session are alike, so one of them is
\* active at first.
FirstWindow == Init /\ activeWindow[s1] = w1

FirstWindowSpec == FirstWindow /\ [][Next]_vars /\ Fairness

Symmetry == Permutations(Clients) \cup Permutations(Conns)

\* A base session and its mirror are alike as long as both link the same windows.
GroupedSymmetry == Symmetry \cup Permutations(Sessions) \cup Permutations(Windows)
=============================================================================
