---------------------------- MODULE MCInputPath ----------------------------
(* InputPath for TLC: short typing sessions, each with its hazard. *)
EXTENDS InputPath

Left == <<"esc", "[", "D">>
CtrlLeft == <<"esc", "[", "5D">>
Alt == <<"esc", "a">>
K(b) == <<b>>

Typing(script, patient, faults, layouts) ==
  [keys |-> script, patient |-> patient, faults |-> faults, layouts |-> layouts]

\* Plain keys, escape sequences and a paste, cut anywhere.
Chunks == {Typing(<<K("a"), Escape, Left, Alt, K("y")>>, FALSE, 0, 0),
           Typing(<<K("a"), PasteOf(<<"a", "ret">>), Escape, K("a")>>, FALSE, 0, 0)}
\* Prefix commands and the resize repeat window.
Commands == {Typing(<<Prefix, K("n"), Prefix, CtrlLeft, CtrlLeft, Left, K("a")>>, FALSE, 0, 0)}
\* Pointer reports while the layout changes.
Pointer == {Typing(<<Click, K("a"), Click>>, FALSE, 0, 2)}
\* A user who waits for the prompt, edits, pastes, answers and types on.
Prompts == {Typing(<<Prefix, K(":"), K("a"), Left, K("y"), K("ret"), K("a")>>, TRUE, 0, 0),
            Typing(<<Prefix, K(":"), K("a"), K("bs"), PasteOf(<<"y", "ret">>), K("ret"), K("n")>>, TRUE, 0, 0),
            Typing(<<Prefix, K("x"), K("a"), K("y"), Prefix, K(":"), Escape, K("n")>>, TRUE, 0, 0)}
\* Prompts opened and answered in a hurry, with a switch or a lost connection.
Hurried == {Typing(<<Prefix, K(":"), K("a"), K("ret"), Prefix, K(":"), K("y"), K("ret")>>, FALSE, 1, 0),
            Typing(<<Prefix, K(":"), K("ret"), Prefix, K("x"), K("y"), K("ret")>>, FALSE, 2, 0),
            Typing(<<K("a"), Escape, K("a"), Escape>>, FALSE, 2, 0)}

MCScenarios == Chunks \cup Commands \cup Pointer \cup Prompts \cup Hurried

\* One session for each finding.
PasteAtColon == {Typing(<<Prefix, K(":"), PasteOf(<<"a", "ret">>), K("a")>>, FALSE, 0, 0)}
ColonTwice == {Typing(<<Prefix, K(":"), Prefix, K(":")>>, FALSE, 0, 0)}
EscapeAfterResize == {Typing(<<Prefix, CtrlLeft, Escape>>, FALSE, 0, 0)}
=============================================================================
