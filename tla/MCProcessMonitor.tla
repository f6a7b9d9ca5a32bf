-------------------------- MODULE MCProcessMonitor --------------------------
(* Instances of ProcessMonitor for TLC. *)
EXTENDS ProcessMonitor

CONSTANTS s1, s2, s3, p1, p2

\* Two sessions of a group, and one that is restored.
TwoAndOne == s1 :> 1 @@ s2 :> 1 @@ s3 :> 2

Nothing == [sessions |-> {s1}, panes |-> {}, restored |-> {}, jobs |-> 0, exits |-> 0, hints |-> 0,
            kills |-> 0, shutdowns |-> 0, failures |-> 0]

\* A pane whose jobs change while they are observed, or that cannot be observed.
Observed1 == [Nothing EXCEPT !.panes = {p1}, !.jobs = 2]
Failing1 == [Nothing EXCEPT !.panes = {p1}, !.jobs = 1, !.failures = 1]
\* A pane that exits or is killed, and a mailbox that is full.
Ending1 == [Nothing EXCEPT !.panes = {p1}, !.exits = 1, !.hints = 1, !.kills = 1]
\* One of two sessions ends.
Leaving1 == [Nothing EXCEPT !.sessions = {s1, s2}, !.panes = {p1}, !.shutdowns = 1, !.hints = 1]
\* A session is restored, and its pane is killed.
Restored1 == [Nothing EXCEPT !.sessions = {}, !.restored = {p1}, !.hints = 2, !.kills = 1]

Passing == {Observed1, Failing1, Ending1, Leaving1, Restored1}

\* A pane that hints, and a session that is restored.
Cycle == {[Nothing EXCEPT !.panes = {p1}, !.restored = {p2}, !.hints = 1]}

\* A pane is started while its session ends.
Race == {[Nothing EXCEPT !.sessions = {s1, s2}, !.panes = {p1}, !.shutdowns = 1]}
=============================================================================
