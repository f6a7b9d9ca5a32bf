------------------------------ MODULE InputPath ------------------------------
(***************************************************************************)
(* The way of a key from the user's terminal to its reader.  The client    *)
(* reads the terminal in chunks of any size, holds a trailing Escape back   *)
(* until more bytes or a timer tell what it is (forwardInputReads), and     *)
(* sends what it has either to the prompt that the status line shows or, as *)
(* input frames, to the server.  There an incremental parser makes keys,    *)
(* pastes and pointer reports of the bytes (frontendInputParser), the       *)
(* prefix machine takes Meja's own commands (consumeInputByteAt), and the   *)
(* rest is written to the pane.  A command may open a prompt: the server    *)
(* owns its identity and continuation, the client its draft                 *)
(* (clientPromptDraft), and until the status has crossed the connection the *)
(* two sides disagree on who reads the keys.                                *)
(*                                                                          *)
(* A byte is named by its position in what the user types, so a delivery    *)
(* says exactly which keystroke it is of.  A run of parameter digits and    *)
(* its final byte ("200~", "5D") is one byte here: a cut inside it changes  *)
(* neither machine's state.  Panes, copy mode, key releases, pointer moves  *)
(* and UTF-8 are left out; so is the prediction decoder, which only draws.  *)
(***************************************************************************)
EXTENDS Integers, Sequences, FiniteSets, SequencesExt

CONSTANTS
  Scenarios,   \* what the user types, and what may go wrong meanwhile
  MaxRead,     \* bytes that one read of the terminal returns, at most
  MaxReads,    \* reads waiting for the forwarder, at most
  MaxInFlight  \* frames under way to the server, at most

None == 0

VARIABLES
  scenario,  \* [keys, patient, faults, layouts]: the choice made at the start
  read,      \* how many of the typed bytes the client has read
  reads,     \* chunks read and not yet forwarded
  client,    \* the forwarder, the prompt draft and the flag that routes to it
  toServer,  \* frames on the control stream to the server
  toClient,  \* frames on the control stream to the client
  server,    \* the connection's ClientInstance, and what it has delivered
  shown,     \* for every byte read: the layout on screen when it was forwarded
  faced,     \* for every byte read: the prompt that faced the user, or None
  budget     \* session switches, disconnections and new layouts still to come

vars == <<scenario, read, reads, client, toServer, toClient, server, shown, faced, budget>>

-----------------------------------------------------------------------------
(* What the user types. *)

Prefix == <<"pfx">>
Escape == <<"esc">>
Click == <<"esc", "[", "M">>
PasteOf(text) == <<"esc", "[", "200~">> \o text \o <<"esc", "[", "201~">>

keys == scenario.keys
typed == FlattenSeq(keys)
EndOf(k) == Len(FlattenSeq(SubSeq(keys, 1, k)))
KeyBytes(k) == (EndOf(k) - Len(keys[k]) + 1) .. EndOf(k)
KeyEnds == {EndOf(k) : k \in DOMAIN keys}
Final == {"a", "y", "x", "n", "[", "D", "5D", "M", "200~", "201~"}
Letters == Final \cup {":"}

-----------------------------------------------------------------------------
(* The incremental parser: the server's, and with the same states the one   *)
(* of a prompt draft.                                                       *)

Ground == [st |-> "ground", pend |-> <<>>, rev |-> 0]

BytesOf(data) == [i \in DOMAIN data |-> typed[data[i]]]
Token(kind, of, rev) == [kind |-> kind, of |-> of, rev |-> rev]

\* A sequence that decodes to nothing is dropped at its final byte.
DecodedCSI(of, rev) ==
  CASE BytesOf(of) = Click -> <<Token("click", of, rev)>>
    [] BytesOf(of) \in {<<"esc", "[", "D">>, <<"esc", "[", "5D">>} -> <<Token("arrow", of, rev)>>
    [] OTHER -> <<>>

\* One byte: the parser's next state, and what it has decoded.
startEscape(p, rev) == [st |-> "escape", pend |-> <<p>>, rev |-> rev]
ParseByte(q, p, rev) ==
  LET b == typed[p]
      all == Append(q.pend, p)
  IN CASE q.st = "paste" ->
            IF Len(all) >= 3 /\ BytesOf(SubSeq(all, Len(all) - 2, Len(all))) = <<"esc", "[", "201~">>
              THEN <<Ground, <<Token("paste", SubSeq(all, 1, Len(all) - 3), q.rev)>>>>
              ELSE <<[q EXCEPT !.pend = all], <<>>>>
       [] q.st # "paste" /\ b = "esc" -> <<startEscape(p, rev), <<>>>>
       [] q.st = "ground" /\ b # "esc" -> <<Ground, <<Token("byte", <<p>>, rev)>>>>
       [] q.st = "escape" /\ b = "[" -> <<[q EXCEPT !.st = "csi", !.pend = all], <<>>>>
       [] q.st = "escape" /\ b \notin {"[", "esc"} -> <<Ground, <<Token("alt", all, q.rev)>>>>
       [] q.st = "csi" /\ b \notin Final \cup {"esc"} -> <<[q EXCEPT !.pend = all], <<>>>>
       [] q.st = "csi" /\ b \in Final ->
            IF BytesOf(all) = <<"esc", "[", "200~">>
              THEN <<[q EXCEPT !.st = "paste", !.pend = <<>>], <<>>>>
              ELSE <<Ground, DecodedCSI(all, q.rev)>>

\* A run of bytes: the parser after it, and all that they have decoded.
Feed(q, data, rev) ==
  LET fed[n \in 0..Len(data)] ==
        IF n = 0 THEN <<q, <<>>>>
        ELSE LET old == fed[n - 1]
                 r == ParseByte(old[1], data[n], rev)
             IN <<r[1], old[2] \o r[2]>>
  IN fed[Len(data)]

\* Only the client's word that its terminal was idle makes a lone Escape a key.
LoneEscape(q) == q.st = "escape" /\ Len(q.pend) = 1
FlushedEscape(q, idle) == IF idle /\ LoneEscape(q) THEN <<Token("escape", q.pend, q.rev)>> ELSE <<>>
AfterFlush(q, idle) == IF idle /\ LoneEscape(q) THEN Ground ELSE q

-----------------------------------------------------------------------------
(* The prompt draft of the client (prompt.go). *)

NoDraft == [id |-> None]

\* opened is history: which of all prompts ever opened this draft answers.
newClientPromptDraft(status) ==
  [id |-> status.prompt, mode |-> status.mode, opened |-> status.opened, text |-> <<>>,
   cursor |-> 0, resolved |-> FALSE, parser |-> Ground, result |-> <<>>]

resolve(d, submitted, text) ==
  [d EXCEPT !.resolved = TRUE,
            !.result = <<[kind |-> "result", prompt |-> d.id, opened |-> d.opened,
                          submitted |-> submitted, text |-> text]>>]

\* Mutated: the cursor does not follow what is inserted.
insertRunes_CursorStays(d, of) ==
  [d EXCEPT !.text = SubSeq(@, 1, d.cursor) \o of \o SubSeq(@, d.cursor + 1, Len(@))]
insertRunes(d, of) ==
  [d EXCEPT !.text = SubSeq(@, 1, d.cursor) \o of \o SubSeq(@, d.cursor + 1, Len(@)),
            !.cursor = @ + Len(of)]
deletePreviousRune(d) ==
  IF d.cursor = 0 THEN d
  ELSE [d EXCEPT !.text = SubSeq(@, 1, d.cursor - 1) \o SubSeq(@, d.cursor + 1, Len(@)), !.cursor = @ - 1]

\* One decoded key; a resolved draft ignores whatever follows, and an empty
\* paste is nothing.
EditDraft(d, e) ==
  LET b == typed[e.of[1]]
  IN IF d.resolved \/ e.of = <<>> THEN d
     ELSE CASE e.kind \in {"escape", "alt"} -> resolve(d, FALSE, <<>>)
            [] d.mode = "confirm" /\ e.kind = "byte" ->
                 IF b = "y" THEN resolve(d, TRUE, <<>>)
                 ELSE IF b \in {"n", "ret"} THEN resolve(d, FALSE, <<>>) ELSE d
            [] d.mode = "text" /\ e.kind = "byte" ->
                 IF b = "ret" THEN resolve(d, TRUE, d.text)
                 ELSE IF b = "bs" THEN deletePreviousRune(d)
                 ELSE IF b \in Letters THEN insertRunes(d, e.of) ELSE d
            [] d.mode = "text" /\ e.kind = "paste" -> insertRunes(d, e.of)
            [] d.mode = "text" /\ e.kind = "arrow" ->
                 [d EXCEPT !.cursor = IF @ > 0 THEN @ - 1 ELSE 0]
            [] OTHER -> d

EditAll(d, events) ==
  LET edited[n \in 0..Len(events)] == IF n = 0 THEN d ELSE EditDraft(edited[n - 1], events[n])
  IN edited[Len(events)]

consume(d, data, idle) ==
  IF d.resolved THEN d
  ELSE LET fed == Feed(d.parser, data, 0)
           edited == EditAll(d, fed[2] \o FlushedEscape(fed[1], idle))
       IN [edited EXCEPT !.parser = AfterFlush(fed[1], idle)]

-----------------------------------------------------------------------------
(* The server: prefix machine, prompts and delivery. *)

Status(s) == [kind |-> "status", prompt |-> s.prompt, mode |-> s.promptMode, opened |-> s.opened]
Layout(s) == [kind |-> "layout", rev |-> s.layout]
Say(s, messages) == [s EXCEPT !.say = @ \o messages]

ToPane(s, of) == [s EXCEPT !.pane = @ \o of]
InputIsNormal(s) == s.mode = "normal" /\ ~s.repeat
resetPrefixInput(s) == [s EXCEPT !.mode = "normal", !.escape = <<>>]
cancelPaneResizeRepeat(s) == [resetPrefixInput(s) EXCEPT !.repeat = FALSE]

NewLayout(s) == LET t == [s EXCEPT !.layout = @ + 1] IN Say(t, <<Layout(t)>>)
Run(s, of) == [s EXCEPT !.commands = Append(@, of)]

BeginPrompt(s, mode) ==
  LET t == [cancelPaneResizeRepeat(s) EXCEPT !.next = @ + 1, !.prompt = s.next + 1,
                                             !.promptMode = mode, !.opened = @ + 1]
  IN Say(t, <<Status(t)>>)

\* A second prompt is refused.  After the colon the error ends the connection;
\* after a command it becomes a message in the status line.
PrefixCommand(s, p) ==
  CASE typed[p] = "pfx" -> ToPane(s, <<p>>)
    [] typed[p] = ":" -> IF s.prompt # None THEN [s EXCEPT !.broken = TRUE]
                         ELSE BeginPrompt(Run(s, <<p>>), "text")
    [] typed[p] = "x" -> IF s.prompt # None THEN Say(s, <<Status(s)>>)
                         ELSE BeginPrompt(Run(s, <<p>>), "confirm")
    [] typed[p] = "n" -> NewLayout(Run(s, <<p>>))
    [] OTHER -> s

\* Ctrl-Left, or Alt by an extra Escape, resizes and arms the repeat window.
IsResize(of) == BytesOf(of) \in {<<"esc", "[", "5D">>, <<"esc", "esc", "[", "D">>, <<"esc", "esc", "[", "5D">>}
Resized(s, of) == [NewLayout(Run(resetPrefixInput(s), of)) EXCEPT !.repeat = TRUE]
PrefixCSI(s, of) ==
  CASE IsResize(of) -> Resized(s, of)
    [] BytesOf(of) = <<"esc", "[", "D">> -> NewLayout(Run(resetPrefixInput(s), of))
    [] OTHER -> resetPrefixInput(s)

cancelPaneResizeRepeatWithInput(s, of) == ToPane(cancelPaneResizeRepeat(s), of)

\* consumeInputByteAt and handleServerInputEvent; an error stops the loop.
ConsumeInputByte(s, p) ==
  LET b == typed[p]
      all == Append(s.escape, p)
      hold(mode) == [s EXCEPT !.mode = mode, !.escape = all]
  IN CASE s.broken -> s
       [] ~s.broken /\ s.mode = "prefix" ->
            IF b = "esc" THEN [s EXCEPT !.mode = "prefixESC", !.escape = <<p>>]
            ELSE PrefixCommand(resetPrefixInput(s), p)
       [] ~s.broken /\ s.mode = "prefixESC" ->
            IF b = "[" THEN hold("prefixCSI")
            ELSE IF b = "esc" /\ Len(s.escape) = 1 THEN hold("prefixESC") ELSE resetPrefixInput(s)
       [] ~s.broken /\ s.mode = "prefixCSI" ->
            IF b \notin Final THEN hold("prefixCSI") ELSE PrefixCSI(s, all)
       [] ~s.broken /\ s.mode = "repeatESC" ->
            IF s.repeat /\ b = "[" THEN hold("repeatCSI")
            ELSE IF s.repeat /\ b = "esc" /\ Len(s.escape) = 1 THEN hold("repeatESC")
            ELSE cancelPaneResizeRepeatWithInput(s, all)
       [] ~s.broken /\ s.mode = "repeatCSI" ->
            IF s.repeat /\ b \notin Final THEN hold("repeatCSI")
            ELSE IF s.repeat /\ IsResize(all) THEN Resized(s, all)
            ELSE cancelPaneResizeRepeatWithInput(s, all)
       [] ~s.broken /\ s.mode = "normal" ->
            IF s.repeat /\ b = "esc" THEN [s EXCEPT !.mode = "repeatESC", !.escape = <<p>>]
            ELSE IF b = "pfx" THEN [cancelPaneResizeRepeat(s) EXCEPT !.mode = "prefix"]
            ELSE ToPane(cancelPaneResizeRepeat(s), <<p>>)

ConsumeAll(s, data) ==
  LET consumed[n \in 0..Len(data)] ==
        IF n = 0 THEN s ELSE ConsumeInputByte(consumed[n - 1], data[n])
  IN consumed[Len(data)]

handleLegacyInputBytes(s, data) ==
  IF InputIsNormal(s) /\ \A i \in DOMAIN data : typed[data[i]] # "pfx"
  THEN ToPane(s, data)
  ELSE ConsumeAll(s, data)

\* A pointer report counts only for the layout that the client had on screen.
handleFrontendPointer(s, e) ==
  [s EXCEPT !.clicks = Append(@, [of |-> e.of, rev |-> e.rev, hit |-> e.rev = s.layout, layout |-> s.layout])]

handleFrontendInputEvent(s, e) ==
  CASE s.broken -> s
    [] ~s.broken /\ e.kind = "paste" -> ToPane(s, e.of)
    [] ~s.broken /\ e.kind = "click" -> handleFrontendPointer(s, e)
    [] ~s.broken /\ e.kind \in {"byte", "alt", "arrow", "escape"} ->
         IF ~InputIsNormal(s) \/ BytesOf(e.of) = Prefix
         THEN handleLegacyInputBytes(s, e.of) ELSE ToPane(s, e.of)

HandleAll(s, events) ==
  LET handled[n \in 0..Len(events)] ==
        IF n = 0 THEN s ELSE handleFrontendInputEvent(handled[n - 1], events[n])
  IN handled[Len(events)]

\* The whole frame is parsed before its first event is handled.
handleInputBytes(s, data, rev) ==
  IF s.parser.st = "ground" /\ \A i \in DOMAIN data : typed[data[i]] # "esc"
  THEN handleLegacyInputBytes(s, data)
  ELSE LET fed == Feed(s.parser, data, rev)
       IN HandleAll([s EXCEPT !.parser = fed[1]], fed[2])

handleInputFrame(s, f) ==
  IF s.prompt # None THEN s
  ELSE LET t == handleInputBytes(s, f.data, f.rev)
       IN HandleAll([t EXCEPT !.parser = AfterFlush(@, f.idle)],
                    FlushedEscape(t.parser, f.idle))

\* Only the result of the prompt that is open runs a continuation.
\* Mutated: any open prompt takes a late result.
IsStale_AnyOpen(s, f) == s.prompt = None
IsStale(s, f) == s.prompt = None \/ s.prompt # f.prompt
resolvePrompt(s, f) ==
  IF IsStale(s, f) THEN s
  ELSE LET t == [s EXCEPT !.prompt = None,
                          !.answers = Append(@, [of |-> s.opened, opened |-> f.opened,
                                                 submitted |-> f.submitted, text |-> f.text])]
       IN Say(t, <<Status(t)>>)

handleControlFrame(s, f) == IF f.kind = "input" THEN handleInputFrame(s, f) ELSE resolvePrompt(s, f)

\* What a new connection, or a switch to another session, forgets.
resetInputForSessionSwitch(s) == [s EXCEPT !.parser = Ground, !.prompt = None]
newClientInstance(s) ==
  [cancelPaneResizeRepeat(resetInputForSessionSwitch(s)) EXCEPT !.next = 0, !.broken = FALSE]
Announce(s) == LET t == NewLayout(s) IN Say(t, <<Status(t)>>)

-----------------------------------------------------------------------------
(* Both ends together. *)

Connected == client.conn # None

Init ==
  /\ scenario \in Scenarios
  /\ read = 0 /\ reads = <<>>
  /\ client = [conn |-> 1, held |-> <<>>, heldConn |-> None, heldRev |-> 0, layout |-> 1,
               draft |-> NoDraft, active |-> FALSE, due |-> <<>>]
  /\ toServer = <<>> /\ toClient = <<>>
  /\ server = [parser |-> Ground, mode |-> "normal", escape |-> <<>>, repeat |-> FALSE,
               prompt |-> None, promptMode |-> "text", next |-> 0, opened |-> 0, layout |-> 1,
               broken |-> FALSE, say |-> <<>>,
               pane |-> <<>>, commands |-> <<>>, clicks |-> <<>>, answers |-> <<>>]
  /\ shown = <<>> /\ faced = <<>>
  /\ budget = [faults |-> scenario.faults, layouts |-> scenario.layouts]

\* Nothing under way: every byte read has found its reader, or waits for the
\* next byte in a parser.
Settled ==
  /\ Connected /\ client.due = <<>> /\ client.held = <<>>
  /\ reads = <<>> /\ toServer = <<>> /\ toClient = <<>>

Facing == IF client.draft # NoDraft /\ ~client.draft.resolved THEN client.draft.opened ELSE None

\* readTerminalInput.  A patient user finishes a key, and then waits until the
\* screen has caught up.
readTerminalInput ==
  /\ Len(reads) < MaxReads
  /\ scenario.patient => Settled \/ read \notin KeyEnds
  /\ \E n \in 1..MaxRead :
       /\ read + n <= Len(typed)
       /\ scenario.patient => \A p \in (read + 1)..(read + n - 1) : p \notin KeyEnds
       /\ reads' = Append(reads, [i \in 1..n |-> read + i])
       /\ read' = read + n
       /\ faced' = faced \o [i \in 1..n |-> Facing]
  /\ UNCHANGED <<scenario, client, toServer, toClient, server, shown, budget>>

\* sendBytes: to the draft while the flag says that a prompt is open and there
\* is one, otherwise to the server as input.
SendBytes(c, idle, data, rev) ==
  IF c.active /\ c.draft # NoDraft
  THEN LET d == consume([c.draft EXCEPT !.result = <<>>], data, idle)
       IN /\ client' = [c EXCEPT !.draft = [d EXCEPT !.result = <<>>]]
          /\ toServer' = toServer \o d.result
  ELSE /\ client' = c
       /\ toServer' = Append(toServer, [kind |-> "input", data |-> data, idle |-> idle, rev |-> rev])

\* handleRead.  An Escape held back goes first, under the layout that was on
\* screen when it was read, but never to another connection.
\* Mutated: what was held back is not forgotten when it is sent.
Unheld_Kept(c) == c
Unheld(c) == [c EXCEPT !.held = <<>>, !.heldConn = None, !.heldRev = 0]
HeldHere(c) == c.held # <<>> /\ c.heldConn = c.conn
Joined(c, data) == IF HeldHere(c) THEN c.held \o data ELSE data
\* Mutated: input is stamped with the layout of the moment it is sent.
RevisionOf_Now(c) == c.layout
RevisionOf(c) == IF HeldHere(c) THEN c.heldRev ELSE c.layout

Hold(c, p, rev) == [c EXCEPT !.held = <<p>>, !.heldConn = c.conn, !.heldRev = rev]

Forward(data, rev) ==
  LET last == Len(data)
      held == typed[data[last]] = "esc"
      kept == IF held THEN Hold(client, data[last], rev) ELSE Unheld(client)
  IN CASE ~Connected -> client' = Unheld(client) /\ UNCHANGED toServer
       [] Connected /\ held /\ last = 1 -> client' = kept /\ UNCHANGED toServer
       [] Connected /\ held /\ last > 1 -> SendBytes(kept, FALSE, SubSeq(data, 1, last - 1), rev)
       [] Connected /\ ~held -> SendBytes(kept, FALSE, data, rev)

handleRead ==
  /\ reads # <<>>
  /\ Len(toServer) < MaxInFlight
  /\ Forward(Joined(client, Head(reads)), RevisionOf(client))
  /\ reads' = Tail(reads)
  /\ shown' = shown \o [i \in DOMAIN Head(reads) |-> client.layout]
  /\ UNCHANGED <<scenario, read, toClient, server, faced, budget>>

\* flushPendingEscape: the timer runs out and no read is waiting.  The bytes of
\* one key arrive within its 25 milliseconds, so the Escape is a key by itself.
flushPendingEscape ==
  /\ client.held # <<>> /\ reads = <<>>
  /\ client.held[1] \in KeyEnds
  /\ Len(toServer) < MaxInFlight
  /\ IF HeldHere(client)
     THEN SendBytes(Unheld(client), TRUE, client.held, client.heldRev)
     ELSE client' = Unheld(client) /\ UNCHANGED toServer
  /\ UNCHANGED <<scenario, read, reads, toClient, server, shown, faced, budget>>

\* controlLoop: the render loop gets the status (acceptStatus) before the flag
\* changes for the forwarder (updatePromptInputStatus).
acceptStatus(draft, status) ==
  CASE status.prompt = None -> NoDraft
    [] status.prompt # None /\ draft.id # status.prompt -> newClientPromptDraft(status)
    [] status.prompt # None /\ draft.id = status.prompt -> draft

receiveControl ==
  /\ client.due = <<>> /\ toClient # <<>>
  /\ LET m == Head(toClient)
     IN client' = IF m.kind = "layout" THEN [client EXCEPT !.layout = m.rev]
                  ELSE [client EXCEPT !.draft = acceptStatus(@, m), !.due = <<m.prompt # None>>]
  /\ toClient' = Tail(toClient)
  /\ UNCHANGED <<scenario, read, reads, toServer, server, shown, faced, budget>>

updatePromptInputStatus ==
  /\ client.due # <<>>
  /\ client' = [client EXCEPT !.active = Head(client.due), !.due = <<>>]
  /\ UNCHANGED <<scenario, read, reads, toServer, toClient, server, shown, faced, budget>>

\* The server's next state, with what it says put on the control stream; an
\* error takes the connection down with everything under way on it.
Commit(s, rest) ==
  IF s.broken
  THEN /\ server' = [newClientInstance(s) EXCEPT !.say = <<>>]
       /\ client' = [client EXCEPT !.conn = None]
       /\ toServer' = <<>> /\ toClient' = <<>>
  ELSE /\ server' = [s EXCEPT !.say = <<>>]
       /\ toServer' = rest
       /\ toClient' = toClient \o s.say
       /\ UNCHANGED client

serveFrame ==
  /\ Connected /\ toServer # <<>>
  /\ Commit(handleControlFrame(server, Head(toServer)), Tail(toServer))
  /\ UNCHANGED <<scenario, read, reads, shown, faced, budget>>

\* The resize repeat window is over (paneResizeRepeatActive is false again).
RepeatExpires ==
  /\ server.repeat
  /\ server' = [server EXCEPT !.repeat = FALSE]
  /\ UNCHANGED <<scenario, read, reads, client, toServer, toClient, shown, faced, budget>>

\* Another client or the command line changes the layout, or moves this client
\* to another session.
LayoutChanges ==
  /\ Connected /\ budget.layouts > 0
  /\ Commit(NewLayout(server), toServer)
  /\ budget' = [budget EXCEPT !.layouts = @ - 1]
  /\ UNCHANGED <<scenario, read, reads, shown, faced>>

SwitchSession ==
  /\ Connected /\ budget.faults > 0
  /\ Commit(Announce(resetInputForSessionSwitch(server)), toServer)
  /\ budget' = [budget EXCEPT !.faults = @ - 1]
  /\ UNCHANGED <<scenario, read, reads, shown, faced>>

Disconnect ==
  /\ Connected /\ budget.faults > 0
  /\ client' = [client EXCEPT !.conn = None]
  /\ toServer' = <<>> /\ toClient' = <<>>
  /\ server' = newClientInstance(server)
  /\ budget' = [budget EXCEPT !.faults = @ - 1]
  /\ UNCHANGED <<scenario, read, reads, shown, faced>>

\* A new connection starts with a fresh ClientInstance, once the control loop of
\* the old one has ended (liveConnection.destroy); its first layout names it here.
Reconnect ==
  /\ ~Connected /\ client.due = <<>>
  /\ LET s == Announce(server)
     IN /\ client' = [client EXCEPT !.conn = s.layout]
        /\ toClient' = s.say
        /\ server' = [s EXCEPT !.say = <<>>]
  /\ UNCHANGED <<scenario, read, reads, toServer, shown, faced, budget>>

Next ==
  \/ readTerminalInput \/ handleRead \/ flushPendingEscape
  \/ receiveControl \/ updatePromptInputStatus
  \/ serveFrame \/ RepeatExpires \/ LayoutChanges
  \/ SwitchSession \/ Disconnect \/ Reconnect

Spec == Init /\ [][Next]_vars

-----------------------------------------------------------------------------
(* Properties. *)

IsPaste(k) == Len(keys[k]) > 3 /\ keys[k][3] = "200~"
Payload(k) == IF IsPaste(k) THEN {p \in KeyBytes(k) : p > EndOf(k) - Len(keys[k]) + 3 /\ p <= EndOf(k) - 3}
              ELSE KeyBytes(k)
TypedKeys == {k \in DOMAIN keys : EndOf(k) <= read}
OfCommands == UNION {ToSet(of) : of \in ToSet(server.commands)}
OfClicks == UNION {ToSet(c.of) : c \in ToSet(server.clicks)}
OfAnswers == UNION {ToSet(a.text) : a \in ToSet(server.answers)}
Reached == ToSet(server.pane) \cup OfCommands \cup OfClicks

\* No fault has happened: neither a switch, nor a connection lost.
Undisturbed == budget.faults = scenario.faults /\ client.conn = 1

\* Every field of both ends has its type, and the parsers keep to their states.
Parsers == [st : {"ground", "escape", "csi", "paste"}, pend : Seq(Nat), rev : Nat]
TypeOK ==
  /\ read \in 0..Len(typed) /\ Len(reads) <= MaxReads
  /\ Len(shown) + Len(FlattenSeq(reads)) = read /\ Len(faced) = read
  /\ client.due \in {<<>>, <<TRUE>>, <<FALSE>>} /\ client.active \in BOOLEAN
  /\ Len(client.held) <= 1 /\ (client.held # <<>> => typed[client.held[1]] = "esc")
  /\ server.parser \in Parsers
  /\ server.parser.st = "escape" => LoneEscape(server.parser)
  /\ server.parser.st = "ground" => server.parser.pend = <<>>
  /\ client.draft # NoDraft =>
       /\ client.draft.parser \in Parsers
       /\ client.draft.cursor \in 0..Len(client.draft.text)
  /\ server.mode \in {"normal", "prefix", "prefixESC", "prefixCSI", "repeatESC", "repeatCSI"}
  /\ server.mode \in {"normal", "prefix"} <=> server.escape = <<>>
  /\ server.prompt \in {None, server.next} /\ server.next <= server.opened
  /\ server.say = <<>> /\ ~server.broken
  /\ Len(toServer) <= MaxInFlight

\* forwardInputReads and the parser, whatever the chunks and whenever the timer
\* fires: once nothing is under way, every key that the user finished has reached
\* its reader whole.  A key typed with no prompt on screen is in the pane or has
\* run a command (a prefix and the key after it are Meja's, and an Escape that
\* another Escape follows at once is abandoned, as documented); a key typed at a
\* prompt is not.  With prompts this is for a user who waits for the screen.
KeysReachTheirReader ==
  Settled /\ Undisturbed /\ (scenario.patient \/ server.opened = 0) =>
    \A k \in TypedKeys :
      IF \A p \in KeyBytes(k) : faced[p] = None
      THEN \/ Payload(k) \subseteq Reached
           \/ keys[k] = Prefix \/ (k > 1 /\ keys[k - 1] = Prefix)
           \/ keys[k] = Escape /\ k < Len(keys) /\ Head(keys[k + 1]) = "esc"
           \/ KeyBytes(k) \cap ToSet(server.escape) # {}
      ELSE KeyBytes(k) \cap Reached = {}

\* handleRead prepends the Escape it held back, the server keeps sequences across
\* frames and the prefix machine replays what it swallowed: nothing is delivered
\* twice or out of order, and nothing both to a pane and in a prompt's answer.
NoKeyTwice ==
  /\ \A i \in 1..(Len(server.pane) - 1) : server.pane[i] < server.pane[i + 1]
  /\ ToSet(server.pane) \cap (OfCommands \cup OfClicks) = {}
  /\ OfAnswers \cap Reached = {}
  /\ \A a \in ToSet(server.answers) : Cardinality(ToSet(a.text)) = Len(a.text)

\* Every key has one reader, and that reader gets it once and whole.
EveryKeyHasOneReader ==
  /\ TypeOK
  /\ NoKeyTwice
  /\ KeysReachTheirReader

\* resolvePrompt, acceptStatus and the prompt IDs: a continuation runs at most
\* once, and only with the answer to the prompt it was opened for, although
\* sessions are switched, connections replaced and results late.
AnswerIsForItsPrompt ==
  \A i, j \in DOMAIN server.answers :
    /\ server.answers[i].opened = server.answers[i].of
    /\ i < j => server.answers[i].of < server.answers[j].of

\* clientPromptDraft.consume: a submitted text is what the user typed at this
\* prompt, all of it unless it was edited away, and in that order unless the
\* cursor was moved.
AnswerIsWhatWasTyped ==
  scenario.patient /\ Undisturbed =>
    \A a \in ToSet(server.answers) :
      LET facing == {p \in 1..Len(faced) : faced[p] = a.of}
      IN /\ ToSet(a.text) \subseteq facing
         /\ (\A p \in facing : typed[p] # "D") => \A i \in 1..(Len(a.text) - 1) : a.text[i] < a.text[i + 1]
         /\ a.submitted /\ a.text # <<>> /\ (\A p \in facing : typed[p] # "bs") =>
              {p \in facing : \E k \in DOMAIN keys : keys[k] = <<typed[p]>> /\ p = EndOf(k)
                                                     /\ typed[p] \in Letters} \subseteq ToSet(a.text)

\* FrontendInputBytes.LayoutRevision, held with a pending Escape and kept by the
\* parser from a sequence's first byte: a click is taken only for the layout that
\* was on screen when the client forwarded it.
ClickMeansShownLayout ==
  \A c \in ToSet(server.clicks) : c.hit => shown[c.of[1]] = c.layout

-----------------------------------------------------------------------------
(* What the documentation says and the code does not do. *)

\* "Outside bracketed paste, every new Escape starts a fresh input transaction":
\* when the user has finished what they typed, the parser is not in a paste.
PasteEnds == Settled /\ read \in KeyEnds => server.parser.st # "paste"

\* Prefix commands "must be reported in the status bar, not escape the
\* control-frame handler and tear down the transport".
InputKeepsConnection == budget.faults = scenario.faults => Connected

\* "If the source stays idle, the client sends the Escape with an explicit
\* SourceIdle flag; only that flag lets the server resolve its pending lone
\* Escape": once it is resolved, the Escape is delivered.
IdleEscapeArrives ==
  Settled /\ read = Len(typed) /\ server.mode = "repeatESC" /\ ~server.repeat =>
    keys[Len(keys)] # Escape
=============================================================================
