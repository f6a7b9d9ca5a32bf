-------------------------- MODULE InputPathProofs --------------------------
(***************************************************************************)
(* Theorems about InputPath, for whatever the user types, in chunks of any   *)
(* size, with any number of switches, lost connections and new layouts: an   *)
(* answer is for the prompt it was typed at, and a click is taken only for   *)
(* the layout that was on screen.                                            *)
(***************************************************************************)
EXTENDS InputPath, SequenceTheorems, WellFoundedInduction, TLAPS

-----------------------------------------------------------------------------
(* Types *)

Kinds == {"byte", "alt", "arrow", "escape", "paste", "click"}
PromptModes == {"text", "confirm"}

\* sh is what was on screen for every byte read so far.  A sequence, once begun,
\* carries a layout that is no newer than the one its first byte was read under.
ParsersOf(sh) ==
  {q \in [st : {"ground", "escape", "csi", "paste"}, pend : Seq(DOMAIN sh), rev : Nat] :
     q.st \in {"escape", "csi"} => q.pend # <<>> /\ q.rev <= sh[q.pend[1]]}
EventsOf(sh) ==
  {e \in [kind : Kinds, of : Seq(DOMAIN sh), rev : Nat] :
     e.kind = "click" => e.of # <<>> /\ e.rev <= sh[e.of[1]]}

Messages == [kind : {"layout"}, rev : Nat]
            \cup [kind : {"status"}, prompt : Nat, mode : PromptModes, opened : Nat]

\* The prompt with this ID was opened by this ClientInstance, as its opened-th.
Known(s, id, opened) == id \in 1 .. s.next /\ opened = id + (s.opened - s.next)

\* What is on its way to the client: layouts between lo and the server's, in order.
SaidBy(s, ms, lo) ==
  /\ ms \in Seq(Messages)
  /\ \A i \in DOMAIN ms :
       /\ ms[i].kind = "layout" => lo <= ms[i].rev /\ ms[i].rev <= s.layout
       /\ ms[i].kind = "status" =>
            ms[i].prompt = None \/ Known(s, ms[i].prompt, ms[i].opened)
  /\ \A i, j \in DOMAIN ms :
       i < j /\ ms[i].kind = "layout" /\ ms[j].kind = "layout" => ms[i].rev <= ms[j].rev

\* Sequences whose elements are not typed.
IsSequence(xs) == xs \in Seq(ToSet(xs))

AnswersOK(s) ==
  /\ IsSequence(s.answers)
  /\ \A i \in DOMAIN s.answers :
       /\ s.answers[i].opened = s.answers[i].of
       /\ s.answers[i].of \in Nat /\ s.answers[i].of <= s.opened
       /\ s.prompt # None => s.answers[i].of < s.opened
  /\ \A i, j \in DOMAIN s.answers : i < j => s.answers[i].of < s.answers[j].of

ClicksOK(s, sh) ==
  /\ IsSequence(s.clicks)
  /\ \A i \in DOMAIN s.clicks :
       /\ s.clicks[i].of[1] \in DOMAIN sh
       /\ s.clicks[i].hit => sh[s.clicks[i].of[1]] = s.clicks[i].layout

Modes == {"normal", "prefix", "prefixESC", "prefixCSI", "repeatESC", "repeatCSI"}

IsServer(s) ==
  /\ s.mode \in Modes
  /\ s = [parser |-> s.parser, mode |-> s.mode, escape |-> s.escape, repeat |-> s.repeat,
           prompt |-> s.prompt, promptMode |-> s.promptMode, next |-> s.next, opened |-> s.opened,
           layout |-> s.layout, broken |-> s.broken, say |-> s.say, pane |-> s.pane,
           commands |-> s.commands, clicks |-> s.clicks, answers |-> s.answers]

\* The server while it handles one frame, begun under layout lo.
Served(s, sh, lo) ==
  /\ IsServer(s)
  /\ s.parser \in ParsersOf(sh)
  /\ s.promptMode \in PromptModes
  /\ s.next \in Nat /\ s.opened \in Nat /\ s.next <= s.opened
  /\ s.prompt \in {None, s.next}
  /\ s.layout \in Nat /\ lo \in Nat /\ lo <= s.layout
  /\ \A p \in DOMAIN sh : sh[p] \in Nat /\ sh[p] <= s.layout
  /\ SaidBy(s, s.say, lo)
  /\ AnswersOK(s)
  /\ ClicksOK(s, sh)

\* t is s some steps later, on the same connection.
Later(s, t) ==
  /\ s.next <= t.next /\ t.opened - t.next = s.opened - s.next
  /\ s.layout <= t.layout

Handled(s, t, sh, lo) == Served(t, sh, lo) /\ Later(s, t)

LEMMA LaterTwice ==
  ASSUME NEW s, NEW t, NEW u, NEW sh, NEW lo, Served(s, sh, lo),
         Handled(s, t, sh, lo), Handled(t, u, sh, lo)
  PROVE  Handled(s, u, sh, lo)
  BY DEF Handled, Served, Later

LEMMA LeastNat ==
  ASSUME NEW T, T \subseteq Nat, T # {}
  PROVE  \E x \in T : \A y \in T : x <= y
<1>1. PICK x \in T : \A y \in T : ~ (<<y, x>> \in OpToRel(<, Nat))
  BY NatLessThanWellFounded, WFMin
<1>2. \A y \in T : y \in Nat /\ x \in Nat /\ ~ (y < x)
  BY <1>1 DEF OpToRel
<1> QED
  BY <1>2

LEMMA OneAndOne ==
  ASSUME NEW S, NEW a \in S, NEW b \in S
  PROVE  (<<>> \o <<a>>) \o <<b>> = <<a, b>>
<1>1. PICK xs : xs = <<a>>
  OBVIOUS
<1>2. PICK zs : zs = <<b>>
  OBVIOUS
<1>3. xs \in Seq(S) /\ Len(xs) = 1 /\ xs[1] = a /\ zs \in Seq(S) /\ Len(zs) = 1 /\ zs[1] = b
  BY <1>1, <1>2
<1>4. PICK ys : ys = xs \o zs
  OBVIOUS
<1>5. ys \in Seq(S) /\ Len(ys) = 2
  <2>1. xs \in Seq(S) /\ zs \in Seq(S)
    BY <1>3
  <2>2. ys \in Seq(S) /\ Len(ys) = Len(xs) + Len(zs)
    BY <1>4, <2>1
  <2> QED
    BY <1>3, <2>2
<1>6. \A i \in 1 .. Len(zs) : ys[Len(xs) + i] = zs[i]
  <2>1. xs \in Seq(S) /\ zs \in Seq(S)
    BY <1>3
  <2> QED
    BY <1>4, <2>1
<1>7. ys[1] = a
  BY <1>3, <1>4
<1>8. ys[2] = b
  <2>1. 1 \in 1 .. Len(zs) /\ Len(xs) + 1 = 2
    BY <1>3
  <2> QED
    BY <1>3, <1>6, <2>1
<1>9. ys = <<a, b>>
  BY <1>5, <1>7, <1>8
<1>10. <<>> \o xs = xs
  BY <1>3
<1> QED
  BY <1>1, <1>2, <1>4, <1>9, <1>10

LEMMA OneMore ==
  ASSUME NEW xs, IsSequence(xs), NEW x, NEW ys, ys = Append(xs, x)
  PROVE  /\ IsSequence(ys) /\ Len(xs) \in Nat
         /\ DOMAIN ys = 1 .. Len(xs) + 1 /\ DOMAIN xs = 1 .. Len(xs)
         /\ ys[Len(xs) + 1] = x
         /\ \A i \in DOMAIN xs : ys[i] = xs[i]
         /\ \A i \in DOMAIN ys : i = Len(xs) + 1 \/ i \in DOMAIN xs
<1>1. xs \in Seq(ToSet(xs) \cup {x})
  BY DEF IsSequence
<1>2. ys \in Seq(ToSet(xs) \cup {x}) /\ Len(ys) = Len(xs) + 1 /\ Len(xs) \in Nat
      /\ DOMAIN ys = 1 .. Len(xs) + 1 /\ DOMAIN xs = 1 .. Len(xs)
      /\ ys[Len(xs) + 1] = x
      /\ \A i \in 1 .. Len(xs) : ys[i] = xs[i]
  BY <1>1
<1>3. ys \in Seq(ToSet(ys))
  BY <1>2 DEF ToSet
<1>4. \A i \in DOMAIN ys : i = Len(xs) + 1 \/ i \in DOMAIN xs
  BY <1>2
<1> QED
  BY <1>2, <1>3, <1>4 DEF IsSequence

-----------------------------------------------------------------------------
(* One operation of the server at a time *)

\* t differs from s in nothing that the invariant is about.
Quiet(s, t) ==
  /\ IsServer(t)
  /\ t.parser = s.parser /\ t.prompt = s.prompt /\ t.promptMode = s.promptMode
  /\ t.next = s.next /\ t.opened = s.opened /\ t.layout = s.layout
  /\ t.say = s.say /\ t.clicks = s.clicks /\ t.answers = s.answers

LEMMA QuietIsHandled ==
  ASSUME NEW s, NEW t, NEW sh, NEW lo, Served(s, sh, lo), Quiet(s, t)
  PROVE  Handled(s, t, sh, lo)
<1>1. SaidBy(t, t.say, lo)
  BY DEF Served, Quiet, SaidBy, Known
<1>2. AnswersOK(t) /\ ClicksOK(t, sh)
  BY DEF Served, Quiet, AnswersOK, ClicksOK
<1> QED
  BY <1>1, <1>2 DEF Handled, Served, Later, Quiet

LEMMA QuietTwice ==
  ASSUME NEW s, NEW t, NEW u, Quiet(s, t), Quiet(t, u)
  PROVE  Quiet(s, u)
  BY DEF Quiet

LEMMA QuietOperations ==
  ASSUME NEW s, IsServer(s)
  PROVE  /\ Quiet(s, s)
         /\ \A of : Quiet(s, ToPane(s, of)) /\ Quiet(s, Run(s, of))
         /\ \A m \in Modes : \A of : Quiet(s, [s EXCEPT !.mode = m, !.escape = of])
         /\ \A r : Quiet(s, [s EXCEPT !.repeat = r]) /\ Quiet(s, [s EXCEPT !.broken = r])
         /\ \A m \in Modes : Quiet(s, [s EXCEPT !.mode = m])
         /\ Quiet(s, resetPrefixInput(s))
<1>1. Quiet(s, s)
  BY DEF Quiet
<1>2. ASSUME NEW of PROVE Quiet(s, ToPane(s, of)) /\ Quiet(s, Run(s, of))
  <2>1. \A x : Quiet(s, [s EXCEPT !.pane = x]) /\ Quiet(s, [s EXCEPT !.commands = x])
    BY DEF Quiet, IsServer
  <2> QED
    BY <2>1 DEF ToPane, Run
<1>3. ASSUME NEW m \in Modes, NEW of PROVE Quiet(s, [s EXCEPT !.mode = m, !.escape = of])
  <2>1. PICK t : t = [s EXCEPT !.mode = m]
    OBVIOUS
  <2>2. Quiet(s, t)
    BY <2>1 DEF Quiet, IsServer
  <2>3. Quiet(t, [t EXCEPT !.escape = of])
    BY <2>2 DEF Quiet, IsServer
  <2>4. [s EXCEPT !.mode = m, !.escape = of] = [[s EXCEPT !.mode = m] EXCEPT !.escape = of]
    OBVIOUS
  <2> QED
    BY <2>1, <2>2, <2>3, <2>4, QuietTwice
<1>4. \A r : Quiet(s, [s EXCEPT !.repeat = r]) /\ Quiet(s, [s EXCEPT !.broken = r])
  BY DEF Quiet, IsServer
<1>5. \A m \in Modes : Quiet(s, [s EXCEPT !.mode = m])
  BY DEF Quiet, IsServer
<1> QED
  BY <1>1, <1>2, <1>3, <1>4, <1>5 DEF resetPrefixInput, Modes

LEMMA CancelIsQuiet ==
  ASSUME NEW s, IsServer(s)
  PROVE  Quiet(s, cancelPaneResizeRepeat(s))
<1>1. PICK t : t = resetPrefixInput(s)
  OBVIOUS
<1>2. Quiet(s, t) /\ IsServer(t)
  BY <1>1, QuietOperations DEF Quiet
<1>3. Quiet(t, [t EXCEPT !.repeat = FALSE])
  BY <1>2, QuietOperations
<1> QED
  BY <1>1, <1>2, <1>3, QuietTwice DEF cancelPaneResizeRepeat

LEMMA ExpiryIsQuiet ==
  ASSUME NEW s, IsServer(s), NEW t, t = [s EXCEPT !.repeat = FALSE]
  PROVE  Quiet(s, t)
<1>1. Quiet(s, [s EXCEPT !.repeat = FALSE])
  BY QuietOperations
<1> QED
  BY <1>1

LEMMA UpdatedServer ==
  ASSUME NEW s, IsServer(s), NEW v
  PROVE  /\ IsServer([s EXCEPT !.parser = v]) /\ IsServer([s EXCEPT !.prompt = v])
         /\ IsServer([s EXCEPT !.promptMode = v]) /\ IsServer([s EXCEPT !.next = v])
         /\ IsServer([s EXCEPT !.opened = v]) /\ IsServer([s EXCEPT !.layout = v])
         /\ IsServer([s EXCEPT !.say = v]) /\ IsServer([s EXCEPT !.clicks = v])
         /\ IsServer([s EXCEPT !.answers = v]) /\ IsServer([s EXCEPT !.broken = v])
<1>1. IsServer([s EXCEPT !.parser = v])
  BY DEF IsServer
<1>2. IsServer([s EXCEPT !.prompt = v])
  BY DEF IsServer
<1>3. IsServer([s EXCEPT !.promptMode = v])
  BY DEF IsServer
<1>4. IsServer([s EXCEPT !.next = v])
  BY DEF IsServer
<1>5. IsServer([s EXCEPT !.opened = v])
  BY DEF IsServer
<1>6. IsServer([s EXCEPT !.layout = v])
  BY DEF IsServer
<1>7. IsServer([s EXCEPT !.say = v])
  BY DEF IsServer
<1>8. IsServer([s EXCEPT !.clicks = v])
  BY DEF IsServer
<1>9. IsServer([s EXCEPT !.answers = v])
  BY DEF IsServer
<1>10. IsServer([s EXCEPT !.broken = v])
  BY DEF IsServer
<1> QED
  BY <1>1, <1>2, <1>3, <1>4, <1>5, <1>6, <1>7, <1>8, <1>9, <1>10

-----------------------------------------------------------------------------
(* What the server says *)

\* Counters of a server, and how they may have moved.
Counts(s) ==
  /\ s.next \in Nat /\ s.opened \in Nat /\ s.next <= s.opened
  /\ s.layout \in Nat

LEMMA KnownLater ==
  ASSUME NEW s, NEW t, Counts(s), Counts(t), Later(s, t)
  PROVE  \A id, opened : Known(s, id, opened) => Known(t, id, opened)
  BY DEF Counts, Later, Known

LEMMA SaidLater ==
  ASSUME NEW s, NEW t, Counts(s), Counts(t), Later(s, t), NEW ms, NEW lo \in Nat, SaidBy(s, ms, lo)
  PROVE  SaidBy(t, ms, lo)
<1>1. ASSUME NEW i \in DOMAIN ms
      PROVE  /\ ms[i].kind = "layout" => lo <= ms[i].rev /\ ms[i].rev <= t.layout
             /\ ms[i].kind = "status" =>
                  ms[i].prompt = None \/ Known(t, ms[i].prompt, ms[i].opened)
  <2>1. ms[i] \in Messages
    BY DEF SaidBy
  <2>2. ms[i].kind = "layout" => ms[i].rev \in Nat
    BY <2>1 DEF Messages
  <2> QED
    BY <2>2, KnownLater DEF SaidBy, Later, Counts
<1> QED
  BY <1>1 DEF SaidBy

LEMMA SaidOneMore ==
  ASSUME NEW s, Counts(s), NEW lo \in Nat, lo <= s.layout, NEW ms, SaidBy(s, ms, lo),
         NEW m \in Messages,
         m.kind = "layout" => m.rev = s.layout,
         m.kind = "status" => m.prompt = None \/ Known(s, m.prompt, m.opened)
  PROVE  SaidBy(s, ms \o <<m>>, lo)
<1>1. ms \in Seq(Messages)
  BY DEF SaidBy
<1>2. PICK new : new = ms \o <<m>>
  OBVIOUS
<1>3. /\ new \in Seq(Messages) /\ Len(new) = Len(ms) + 1 /\ Len(ms) \in Nat
      /\ DOMAIN new = 1 .. Len(ms) + 1 /\ DOMAIN ms = 1 .. Len(ms)
      /\ \A i \in 1 .. Len(ms) : new[i] = ms[i]
      /\ new[Len(ms) + 1] = m
  BY <1>1, <1>2
<1>4. ASSUME NEW i \in DOMAIN new
      PROVE  (i \in DOMAIN ms /\ new[i] = ms[i]) \/ (i = Len(ms) + 1 /\ new[i] = m)
  BY <1>3
<1>5. ASSUME NEW i \in DOMAIN new
      PROVE  /\ new[i].kind = "layout" => lo <= new[i].rev /\ new[i].rev <= s.layout
             /\ new[i].kind = "status" =>
                  new[i].prompt = None \/ Known(s, new[i].prompt, new[i].opened)
  BY <1>4 DEF SaidBy, Counts
<1>6. ASSUME NEW i \in DOMAIN new, NEW j \in DOMAIN new, i < j,
             new[i].kind = "layout", new[j].kind = "layout"
      PROVE  new[i].rev <= new[j].rev
  <2>1. i \in DOMAIN ms /\ new[i] = ms[i]
    BY <1>3, <1>6
  <2>2. CASE j \in DOMAIN ms /\ new[j] = ms[j]
    BY <1>6, <2>1, <2>2 DEF SaidBy
  <2>3. CASE new[j] = m
    BY <1>5, <1>6, <2>3
  <2> QED
    BY <1>4, <2>2, <2>3
<1> QED
  BY <1>2, <1>3, <1>5, <1>6 DEF SaidBy

LEMMA ServedCounts ==
  ASSUME NEW s, NEW sh, NEW lo, Served(s, sh, lo)
  PROVE  Counts(s) /\ IsServer(s)
  BY DEF Served, Counts

LEMMA SayIsHandled ==
  ASSUME NEW s, NEW sh, NEW lo, Served(s, sh, lo), NEW m \in Messages,
         m.kind = "layout" => m.rev = s.layout,
         m.kind = "status" => m.prompt = None \/ Known(s, m.prompt, m.opened)
  PROVE  Handled(s, Say(s, <<m>>), sh, lo)
<1>1. PICK said : said = s.say \o <<m>>
  OBVIOUS
<1>2. SaidBy(s, said, lo)
  BY <1>1, SaidOneMore DEF Served, Counts
<1>3. PICK t : t = [s EXCEPT !.say = said]
  OBVIOUS
<1>4. t = Say(s, <<m>>)
  BY <1>1, <1>3 DEF Say
<1>5. IsServer(t) /\ t.say = said
      /\ t.parser = s.parser /\ t.prompt = s.prompt /\ t.promptMode = s.promptMode
      /\ t.next = s.next /\ t.opened = s.opened /\ t.layout = s.layout
      /\ t.clicks = s.clicks /\ t.answers = s.answers
  BY <1>3, UpdatedServer DEF Served, IsServer
<1>6. SaidBy(t, t.say, lo)
  BY <1>2, <1>5 DEF SaidBy, Known
<1>7. AnswersOK(t) /\ ClicksOK(t, sh)
  BY <1>5 DEF Served, AnswersOK, ClicksOK
<1>8. Handled(s, t, sh, lo)
  BY <1>5, <1>6, <1>7 DEF Handled, Served, Later
<1> QED
  BY <1>4, <1>8

LEMMA StatusIsHandled ==
  ASSUME NEW s, NEW sh, NEW lo, Served(s, sh, lo)
  PROVE  Handled(s, Say(s, <<Status(s)>>), sh, lo)
<1>1. PICK m : m = Status(s)
  OBVIOUS
<1>2. m \in Messages /\ m.kind = "status" /\ m.prompt = s.prompt /\ m.opened = s.opened
  BY <1>1 DEF Served, Status, Messages, None
<1>3. m.prompt = None \/ Known(s, m.prompt, m.opened)
  BY <1>2 DEF Served, Known, None
<1> QED
  BY <1>1, <1>2, <1>3, SayIsHandled

LEMMA NewLayoutIsHandled ==
  ASSUME NEW s, NEW sh, NEW lo, Served(s, sh, lo)
  PROVE  Handled(s, NewLayout(s), sh, lo)
<1>1. PICK t : t = [s EXCEPT !.layout = @ + 1]
  OBVIOUS
<1>2. IsServer(t) /\ t.layout = s.layout + 1 /\ t.say = s.say
      /\ t.parser = s.parser /\ t.prompt = s.prompt /\ t.promptMode = s.promptMode
      /\ t.next = s.next /\ t.opened = s.opened
      /\ t.clicks = s.clicks /\ t.answers = s.answers
  BY <1>1, UpdatedServer DEF Served, IsServer
<1>3. Counts(s) /\ Counts(t) /\ Later(s, t)
  BY <1>2, ServedCounts DEF Counts, Later
<1>4. SaidBy(t, t.say, lo)
  BY <1>2, <1>3, SaidLater DEF Served
<1>5. AnswersOK(t) /\ ClicksOK(t, sh)
  BY <1>2 DEF Served, AnswersOK, ClicksOK
<1>6. Handled(s, t, sh, lo)
  BY <1>2, <1>3, <1>4, <1>5 DEF Handled, Served
<1>7. PICK m : m = Layout(t)
  OBVIOUS
<1>8. m \in Messages /\ m.kind = "layout" /\ m.rev = t.layout
  BY <1>3, <1>7 DEF Layout, Messages, Counts
<1>9. Handled(t, Say(t, <<m>>), sh, lo)
  BY <1>6, <1>8, SayIsHandled DEF Handled
<1> QED
  BY <1>1, <1>6, <1>7, <1>9, LaterTwice DEF NewLayout

LEMMA BeginPromptIsHandled ==
  ASSUME NEW s, NEW sh, NEW lo, Served(s, sh, lo), NEW mode \in PromptModes
  PROVE  Handled(s, BeginPrompt(s, mode), sh, lo)
<1>1. PICK c : c = cancelPaneResizeRepeat(s)
  OBVIOUS
<1>2. Quiet(s, c) /\ Handled(s, c, sh, lo)
  BY <1>1, CancelIsQuiet, QuietIsHandled DEF Served
<1>3. PICK n : n = s.next + 1
  OBVIOUS
<1>4. PICK o : o = c.opened + 1
  OBVIOUS
<1>5. PICK t : t = [[[[c EXCEPT !.next = n] EXCEPT !.prompt = n] EXCEPT !.promptMode = mode]
                       EXCEPT !.opened = o]
  OBVIOUS
<1>6. IsServer(t)
  BY <1>2, <1>5, UpdatedServer DEF Quiet
<1>7. t.layout = s.layout /\ t.say = s.say /\ t.parser = s.parser
      /\ t.clicks = s.clicks /\ t.answers = s.answers
      /\ t.prompt = n /\ t.next = n /\ t.promptMode = mode /\ t.opened = o
  BY <1>2, <1>5 DEF Quiet, IsServer
<1>8. n = s.next + 1 /\ o = s.opened + 1 /\ c.next = s.next
  BY <1>2, <1>3, <1>4 DEF Quiet
<1>9. Counts(s) /\ Counts(t) /\ Later(s, t)
  BY <1>7, <1>8, ServedCounts DEF Counts, Later
<1>10. SaidBy(t, t.say, lo)
  BY <1>7, <1>9, SaidLater DEF Served
<1>11. AnswersOK(t) /\ ClicksOK(t, sh)
  BY <1>7, <1>8, <1>9 DEF Served, AnswersOK, ClicksOK, Counts
<1>12. Handled(s, t, sh, lo)
  BY <1>6, <1>7, <1>9, <1>10, <1>11 DEF Handled, Served, Counts
<1>13. Handled(t, Say(t, <<Status(t)>>), sh, lo)
  BY <1>12, StatusIsHandled DEF Handled
<1>14. t = [c EXCEPT !.next = @ + 1, !.prompt = s.next + 1, !.promptMode = mode, !.opened = @ + 1]
  <2>1. t = [[[[c EXCEPT !.next = c.next + 1] EXCEPT !.prompt = s.next + 1] EXCEPT !.promptMode = mode]
                       EXCEPT !.opened = c.opened + 1]
    BY <1>3, <1>4, <1>5, <1>8
  <2> QED
    BY <2>1, <1>2 DEF Quiet, IsServer
<1> QED
  BY <1>1, <1>12, <1>13, <1>14, LaterTwice DEF BeginPrompt

-----------------------------------------------------------------------------
(* The prefix machine *)

LEMMA AfterQuiet ==
  ASSUME NEW s, NEW t, NEW u, NEW sh, NEW lo, Served(s, sh, lo), Quiet(s, t),
         Served(t, sh, lo) => Handled(t, u, sh, lo)
  PROVE  Handled(s, u, sh, lo)
<1>1. Handled(s, t, sh, lo)
  BY QuietIsHandled
<1> QED
  BY <1>1, LaterTwice DEF Handled

LEMMA PrefixCommandIsHandled ==
  ASSUME NEW s, NEW sh, NEW lo, Served(s, sh, lo), NEW p
  PROVE  Handled(s, PrefixCommand(s, p), sh, lo)
<1>1. IsServer(s) /\ Quiet(s, s)
  BY QuietOperations DEF Served
<1>2. PICK r : r = Run(s, <<p>>)
  OBVIOUS
<1>3. Quiet(s, r)
  BY <1>1, <1>2, QuietOperations
<1>4. Handled(s, ToPane(s, <<p>>), sh, lo) /\ Handled(s, s, sh, lo)
      /\ Handled(s, [s EXCEPT !.broken = TRUE], sh, lo)
  BY <1>1, QuietOperations, QuietIsHandled
<1>5. \A mode \in PromptModes : Handled(s, BeginPrompt(r, mode), sh, lo)
  BY <1>3, AfterQuiet, BeginPromptIsHandled
<1>6. Handled(s, NewLayout(r), sh, lo)
  BY <1>3, AfterQuiet, NewLayoutIsHandled
<1>7. Handled(s, Say(s, <<Status(s)>>), sh, lo)
  BY StatusIsHandled
<1> HIDE DEF Handled
<1>8. CASE typed[p] = "pfx"
  BY <1>4, <1>8 DEF PrefixCommand
<1>9. CASE typed[p] = ":"
  BY <1>2, <1>4, <1>5, <1>9 DEF PrefixCommand, PromptModes
<1>10. CASE typed[p] = "x"
  BY <1>2, <1>5, <1>7, <1>10 DEF PrefixCommand, PromptModes
<1>11. CASE typed[p] = "n"
  BY <1>2, <1>6, <1>11 DEF PrefixCommand
<1>12. CASE typed[p] \notin {"pfx", ":", "x", "n"}
  BY <1>4, <1>12 DEF PrefixCommand
<1> QED
  BY <1>8, <1>9, <1>10, <1>11, <1>12

LEMMA PrefixCSIIsHandled ==
  ASSUME NEW s, NEW sh, NEW lo, Served(s, sh, lo), NEW of
  PROVE  /\ Handled(s, Resized(s, of), sh, lo)
         /\ Handled(s, PrefixCSI(s, of), sh, lo)
<1>1. PICK q : q = resetPrefixInput(s)
  OBVIOUS
<1>2. PICK r : r = Run(q, of)
  OBVIOUS
<1>3. Quiet(s, q) /\ Quiet(q, r) /\ Quiet(s, r)
  <2>1. Quiet(s, q) /\ IsServer(q)
    BY <1>1, QuietOperations DEF Served, Quiet
  <2>2. Quiet(q, r)
    BY <1>2, <2>1, QuietOperations
  <2> QED
    BY <2>1, <2>2, QuietTwice
<1>4. Handled(s, q, sh, lo)
  BY <1>3, QuietIsHandled
<1>5. PICK t : t = NewLayout(r)
  OBVIOUS
<1>6. Handled(s, t, sh, lo)
  BY <1>3, <1>5, AfterQuiet, NewLayoutIsHandled
<1>7. Handled(t, [t EXCEPT !.repeat = TRUE], sh, lo)
  BY <1>6, QuietOperations, QuietIsHandled DEF Handled, Served
<1>8. Handled(s, Resized(s, of), sh, lo)
  BY <1>1, <1>2, <1>5, <1>6, <1>7, LaterTwice DEF Resized
<1> HIDE DEF Handled
<1> QED
  BY <1>1, <1>2, <1>4, <1>5, <1>6, <1>8 DEF PrefixCSI

LEMMA ConsumeByteIsHandled ==
  ASSUME NEW s, NEW sh, NEW lo, Served(s, sh, lo), NEW p
  PROVE  Handled(s, ConsumeInputByte(s, p), sh, lo)
<1>1. IsServer(s) /\ s.mode \in Modes
  BY DEF Served, IsServer
<1> DEFINE all == Append(s.escape, p)
           b == typed[p]
<1>2. Handled(s, s, sh, lo)
  BY <1>1, QuietOperations, QuietIsHandled
<1>3. \A m \in Modes : \A of : Handled(s, [s EXCEPT !.mode = m, !.escape = of], sh, lo)
  BY <1>1, QuietOperations, QuietIsHandled
<1>4. PICK q : q = resetPrefixInput(s)
  OBVIOUS
<1>5. Quiet(s, q) /\ Handled(s, q, sh, lo) /\ Handled(s, PrefixCommand(q, p), sh, lo)
  BY <1>1, <1>4, QuietOperations, QuietIsHandled, AfterQuiet, PrefixCommandIsHandled
<1>6. PICK c : c = cancelPaneResizeRepeat(s)
  OBVIOUS
<1>7. Quiet(s, c) /\ IsServer(c)
  BY <1>1, <1>6, CancelIsQuiet DEF Quiet
<1>8. \A of : Handled(s, ToPane(c, of), sh, lo)
  BY <1>7, QuietOperations, QuietTwice, QuietIsHandled
<1>9. \A m \in Modes : Handled(s, [c EXCEPT !.mode = m], sh, lo)
  BY <1>7, QuietOperations, QuietTwice, QuietIsHandled
<1>10. \A of : Handled(s, cancelPaneResizeRepeatWithInput(s, of), sh, lo)
  BY <1>6, <1>8 DEF cancelPaneResizeRepeatWithInput
<1>11. \A of : Handled(s, Resized(s, of), sh, lo) /\ Handled(s, PrefixCSI(s, of), sh, lo)
  BY PrefixCSIIsHandled
<1>12. CASE s.broken
  BY <1>2, <1>12 DEF ConsumeInputByte
<1>13. CASE ~s.broken /\ s.mode = "prefix"
  BY <1>3, <1>4, <1>5, <1>13 DEF ConsumeInputByte, Modes
<1>14. CASE ~s.broken /\ s.mode = "prefixESC"
  BY <1>3, <1>4, <1>5, <1>14 DEF ConsumeInputByte, Modes
<1>15. CASE ~s.broken /\ s.mode = "prefixCSI"
  BY <1>3, <1>11, <1>15 DEF ConsumeInputByte, Modes
<1>16. CASE ~s.broken /\ s.mode = "repeatESC"
  BY <1>3, <1>10, <1>16 DEF ConsumeInputByte, Modes
<1>17. CASE ~s.broken /\ s.mode = "repeatCSI"
  BY <1>3, <1>10, <1>11, <1>17 DEF ConsumeInputByte, Modes
<1>18. CASE ~s.broken /\ s.mode = "normal"
  BY <1>3, <1>6, <1>8, <1>9, <1>18 DEF ConsumeInputByte, Modes
<1> QED
  BY <1>1, <1>12, <1>13, <1>14, <1>15, <1>16, <1>17, <1>18 DEF Modes

-----------------------------------------------------------------------------
(* The loops of the model, step by step *)

ConsumeStep(s, data, f, n) ==
  IF n = 0 THEN s ELSE ConsumeInputByte(f[n - 1], data[n])

LEMMA ConsumeAllExists ==
  ASSUME NEW s, NEW data, NEW N \in Nat
  PROVE  \E f : f = [n \in 0 .. N |-> ConsumeStep(s, data, f, n)]
<1> DEFINE Bad == {m \in Nat : ~ \E f : f = [n \in 0 .. m |-> ConsumeStep(s, data, f, n)]}
<1>1. SUFFICES ASSUME Bad # {} PROVE FALSE
  OBVIOUS
<1>2. PICK m \in Bad : \A k \in Bad : m <= k
  <2>1. Bad \subseteq Nat
    OBVIOUS
  <2> HIDE DEF Bad
  <2> QED
    BY <1>1, <2>1, LeastNat
<1>3. CASE m = 0
  <2> DEFINE f == [n \in 0 .. 0 |-> s]
  <2>1. f = [n \in 0 .. 0 |-> ConsumeStep(s, data, f, n)]
    BY DEF ConsumeStep
  <2> QED
    BY <1>2, <1>3, <2>1
<1>4. CASE m # 0
  <2>1. m - 1 \in Nat /\ m - 1 \notin Bad
    BY <1>2, <1>4
  <2>2. PICK f : f = [n \in 0 .. m - 1 |-> ConsumeStep(s, data, f, n)]
    BY <2>1
  <2> DEFINE g == [n \in 0 .. m |-> IF n = m THEN ConsumeStep(s, data, f, m) ELSE f[n]]
  <2>3. ASSUME NEW n \in 0 .. m
        PROVE  g[n] = ConsumeStep(s, data, g, n)
    <3>1. CASE n = 0
      BY <3>1, <1>4, <2>1, <2>2 DEF ConsumeStep
    <3>2. CASE n # 0
      <4>1. n - 1 \in 0 .. m - 1 /\ n \in 0 .. m /\ n - 1 # m /\ n - 1 \in 0 .. m
        BY <3>2, <1>2
      <4>2. g[n - 1] = f[n - 1]
        BY <4>1
      <4>3. n = m \/ n \in 0 .. m - 1
        BY <1>2
      <4>4. g[n] = ConsumeStep(s, data, f, n)
        BY <4>3, <2>2
      <4> QED
        BY <4>2, <4>4, <3>2 DEF ConsumeStep
    <3> QED
      BY <3>1, <3>2
  <2>4. g = [n \in 0 .. m |-> ConsumeStep(s, data, g, n)]
    BY <2>3
  <2> HIDE DEF g
  <2> QED
    BY <1>2, <2>4
<1> QED
  BY <1>3, <1>4

LEMMA ConsumeAllSteps ==
  ASSUME NEW s, NEW data, Len(data) \in Nat
  PROVE  \E f : /\ \A n \in 0 .. Len(data) : f[n] = ConsumeStep(s, data, f, n)
               /\ ConsumeAll(s, data) = f[Len(data)]
<1> DEFINE f == CHOOSE f : f = [n \in 0 .. Len(data) |-> ConsumeStep(s, data, f, n)]
<1>1. \A n \in 0 .. Len(data) : f[n] = ConsumeStep(s, data, f, n)
  <2>1. \E g : g = [n \in 0 .. Len(data) |-> ConsumeStep(s, data, g, n)]
    BY ConsumeAllExists
  <2>2. f = [n \in 0 .. Len(data) |-> ConsumeStep(s, data, f, n)]
    BY <2>1
  <2> HIDE DEF f
  <2> QED
    BY <2>2
<1>2. ConsumeAll(s, data) = f[Len(data)]
  BY DEF ConsumeAll, ConsumeStep
<1> HIDE DEF f
<1> QED
  BY <1>1, <1>2

HandleStep(s, events, f, n) ==
  IF n = 0 THEN s ELSE handleFrontendInputEvent(f[n - 1], events[n])

LEMMA HandleAllExists ==
  ASSUME NEW s, NEW events, NEW N \in Nat
  PROVE  \E f : f = [n \in 0 .. N |-> HandleStep(s, events, f, n)]
<1> DEFINE Bad == {m \in Nat : ~ \E f : f = [n \in 0 .. m |-> HandleStep(s, events, f, n)]}
<1>1. SUFFICES ASSUME Bad # {} PROVE FALSE
  OBVIOUS
<1>2. PICK m \in Bad : \A k \in Bad : m <= k
  <2>1. Bad \subseteq Nat
    OBVIOUS
  <2> HIDE DEF Bad
  <2> QED
    BY <1>1, <2>1, LeastNat
<1>3. CASE m = 0
  <2> DEFINE f == [n \in 0 .. 0 |-> s]
  <2>1. f = [n \in 0 .. 0 |-> HandleStep(s, events, f, n)]
    BY DEF HandleStep
  <2> QED
    BY <1>2, <1>3, <2>1
<1>4. CASE m # 0
  <2>1. m - 1 \in Nat /\ m - 1 \notin Bad
    BY <1>2, <1>4
  <2>2. PICK f : f = [n \in 0 .. m - 1 |-> HandleStep(s, events, f, n)]
    BY <2>1
  <2> DEFINE g == [n \in 0 .. m |-> IF n = m THEN HandleStep(s, events, f, m) ELSE f[n]]
  <2>3. ASSUME NEW n \in 0 .. m
        PROVE  g[n] = HandleStep(s, events, g, n)
    <3>1. CASE n = 0
      BY <3>1, <1>4, <2>1, <2>2 DEF HandleStep
    <3>2. CASE n # 0
      <4>1. n - 1 \in 0 .. m - 1 /\ n \in 0 .. m /\ n - 1 # m /\ n - 1 \in 0 .. m
        BY <3>2, <1>2
      <4>2. g[n - 1] = f[n - 1]
        BY <4>1
      <4>3. n = m \/ n \in 0 .. m - 1
        BY <1>2
      <4>4. g[n] = HandleStep(s, events, f, n)
        BY <4>3, <2>2
      <4> QED
        BY <4>2, <4>4, <3>2 DEF HandleStep
    <3> QED
      BY <3>1, <3>2
  <2>4. g = [n \in 0 .. m |-> HandleStep(s, events, g, n)]
    BY <2>3
  <2> HIDE DEF g
  <2> QED
    BY <1>2, <2>4
<1> QED
  BY <1>3, <1>4

LEMMA HandleAllSteps ==
  ASSUME NEW s, NEW events, Len(events) \in Nat
  PROVE  \E f : /\ \A n \in 0 .. Len(events) : f[n] = HandleStep(s, events, f, n)
               /\ HandleAll(s, events) = f[Len(events)]
<1> DEFINE f == CHOOSE f : f = [n \in 0 .. Len(events) |-> HandleStep(s, events, f, n)]
<1>1. \A n \in 0 .. Len(events) : f[n] = HandleStep(s, events, f, n)
  <2>1. \E g : g = [n \in 0 .. Len(events) |-> HandleStep(s, events, g, n)]
    BY HandleAllExists
  <2>2. f = [n \in 0 .. Len(events) |-> HandleStep(s, events, f, n)]
    BY <2>1
  <2> HIDE DEF f
  <2> QED
    BY <2>2
<1>2. HandleAll(s, events) = f[Len(events)]
  BY DEF HandleAll, HandleStep
<1> HIDE DEF f
<1> QED
  BY <1>1, <1>2

EditStep(d, events, f, n) ==
  IF n = 0 THEN d ELSE EditDraft(f[n - 1], events[n])

LEMMA EditAllExists ==
  ASSUME NEW d, NEW events, NEW N \in Nat
  PROVE  \E f : f = [n \in 0 .. N |-> EditStep(d, events, f, n)]
<1> DEFINE Bad == {m \in Nat : ~ \E f : f = [n \in 0 .. m |-> EditStep(d, events, f, n)]}
<1>1. SUFFICES ASSUME Bad # {} PROVE FALSE
  OBVIOUS
<1>2. PICK m \in Bad : \A k \in Bad : m <= k
  <2>1. Bad \subseteq Nat
    OBVIOUS
  <2> HIDE DEF Bad
  <2> QED
    BY <1>1, <2>1, LeastNat
<1>3. CASE m = 0
  <2> DEFINE f == [n \in 0 .. 0 |-> d]
  <2>1. f = [n \in 0 .. 0 |-> EditStep(d, events, f, n)]
    BY DEF EditStep
  <2> QED
    BY <1>2, <1>3, <2>1
<1>4. CASE m # 0
  <2>1. m - 1 \in Nat /\ m - 1 \notin Bad
    BY <1>2, <1>4
  <2>2. PICK f : f = [n \in 0 .. m - 1 |-> EditStep(d, events, f, n)]
    BY <2>1
  <2> DEFINE g == [n \in 0 .. m |-> IF n = m THEN EditStep(d, events, f, m) ELSE f[n]]
  <2>3. ASSUME NEW n \in 0 .. m
        PROVE  g[n] = EditStep(d, events, g, n)
    <3>1. CASE n = 0
      BY <3>1, <1>4, <2>1, <2>2 DEF EditStep
    <3>2. CASE n # 0
      <4>1. n - 1 \in 0 .. m - 1 /\ n \in 0 .. m /\ n - 1 # m /\ n - 1 \in 0 .. m
        BY <3>2, <1>2
      <4>2. g[n - 1] = f[n - 1]
        BY <4>1
      <4>3. n = m \/ n \in 0 .. m - 1
        BY <1>2
      <4>4. g[n] = EditStep(d, events, f, n)
        BY <4>3, <2>2
      <4> QED
        BY <4>2, <4>4, <3>2 DEF EditStep
    <3> QED
      BY <3>1, <3>2
  <2>4. g = [n \in 0 .. m |-> EditStep(d, events, g, n)]
    BY <2>3
  <2> HIDE DEF g
  <2> QED
    BY <1>2, <2>4
<1> QED
  BY <1>3, <1>4

LEMMA EditAllSteps ==
  ASSUME NEW d, NEW events, Len(events) \in Nat
  PROVE  \E f : /\ \A n \in 0 .. Len(events) : f[n] = EditStep(d, events, f, n)
               /\ EditAll(d, events) = f[Len(events)]
<1> DEFINE f == CHOOSE f : f = [n \in 0 .. Len(events) |-> EditStep(d, events, f, n)]
<1>1. \A n \in 0 .. Len(events) : f[n] = EditStep(d, events, f, n)
  <2>1. \E g : g = [n \in 0 .. Len(events) |-> EditStep(d, events, g, n)]
    BY EditAllExists
  <2>2. f = [n \in 0 .. Len(events) |-> EditStep(d, events, f, n)]
    BY <2>1
  <2> HIDE DEF f
  <2> QED
    BY <2>2
<1>2. EditAll(d, events) = f[Len(events)]
  BY DEF EditAll, EditStep
<1> HIDE DEF f
<1> QED
  BY <1>1, <1>2

FeedStep(q, data, rev, f, n) ==
  IF n = 0 THEN <<q, <<>>>>
  ELSE LET old == f[n - 1]
           r == ParseByte(old[1], data[n], rev)
       IN <<r[1], old[2] \o r[2]>>

LEMMA FeedExists ==
  ASSUME NEW q, NEW data, NEW rev, NEW N \in Nat
  PROVE  \E f : f = [n \in 0 .. N |-> FeedStep(q, data, rev, f, n)]
<1> DEFINE Bad == {m \in Nat : ~ \E f : f = [n \in 0 .. m |-> FeedStep(q, data, rev, f, n)]}
<1>1. SUFFICES ASSUME Bad # {} PROVE FALSE
  OBVIOUS
<1>2. PICK m \in Bad : \A k \in Bad : m <= k
  <2>1. Bad \subseteq Nat
    OBVIOUS
  <2> HIDE DEF Bad
  <2> QED
    BY <1>1, <2>1, LeastNat
<1>3. CASE m = 0
  <2> DEFINE f == [n \in 0 .. 0 |-> <<q, <<>>>>]
  <2>1. f = [n \in 0 .. 0 |-> FeedStep(q, data, rev, f, n)]
    BY DEF FeedStep
  <2> QED
    BY <1>2, <1>3, <2>1
<1>4. CASE m # 0
  <2>1. m - 1 \in Nat /\ m - 1 \notin Bad
    BY <1>2, <1>4
  <2>2. PICK f : f = [n \in 0 .. m - 1 |-> FeedStep(q, data, rev, f, n)]
    BY <2>1
  <2> DEFINE g == [n \in 0 .. m |-> IF n = m THEN FeedStep(q, data, rev, f, m) ELSE f[n]]
  <2>3. ASSUME NEW n \in 0 .. m
        PROVE  g[n] = FeedStep(q, data, rev, g, n)
    <3>1. CASE n = 0
      <4>1. n # m /\ n \in 0 .. m - 1
        BY <3>1, <1>2, <1>4
      <4>2. g[n] = FeedStep(q, data, rev, f, n)
        BY <4>1, <2>2
      <4> QED
        BY <3>1, <4>2, Zenon DEF FeedStep
    <3>2. CASE n # 0
      <4>1. n - 1 \in 0 .. m - 1 /\ n \in 0 .. m /\ n - 1 # m /\ n - 1 \in 0 .. m
        BY <3>2, <1>2
      <4>2. g[n - 1] = f[n - 1]
        BY <4>1
      <4>3. n = m \/ n \in 0 .. m - 1
        BY <1>2
      <4>4. g[n] = FeedStep(q, data, rev, f, n)
        BY <4>3, <2>2
      <4> QED
        BY <4>2, <4>4, <3>2 DEF FeedStep
    <3> QED
      BY <3>1, <3>2
  <2>4. g = [n \in 0 .. m |-> FeedStep(q, data, rev, g, n)]
    BY <2>3
  <2> HIDE DEF g
  <2> QED
    BY <1>2, <2>4
<1> QED
  BY <1>3, <1>4

LEMMA FeedSteps ==
  ASSUME NEW q, NEW data, NEW rev, Len(data) \in Nat
  PROVE  \E f : /\ \A n \in 0 .. Len(data) : f[n] = FeedStep(q, data, rev, f, n)
               /\ Feed(q, data, rev) = f[Len(data)]
<1> DEFINE f == CHOOSE f : f = [n \in 0 .. Len(data) |-> FeedStep(q, data, rev, f, n)]
<1>1. \A n \in 0 .. Len(data) : f[n] = FeedStep(q, data, rev, f, n)
  <2>1. \E g : g = [n \in 0 .. Len(data) |-> FeedStep(q, data, rev, g, n)]
    BY FeedExists
  <2>2. f = [n \in 0 .. Len(data) |-> FeedStep(q, data, rev, f, n)]
    BY <2>1
  <2> HIDE DEF f
  <2> QED
    BY <2>2
<1>2. Feed(q, data, rev) = f[Len(data)]
  BY DEF Feed, FeedStep
<1> HIDE DEF f
<1> QED
  BY <1>1, <1>2

-----------------------------------------------------------------------------
(* The parser *)

LEMMA PrefixKeepsFirst ==
  ASSUME NEW S, NEW pend \in Seq(S), NEW p \in S
  PROVE  /\ Append(pend, p) \in Seq(S) /\ Append(pend, p) # <<>>
         /\ pend # <<>> => Append(pend, p)[1] = pend[1]
         /\ Len(Append(pend, p)) >= 3 =>
              SubSeq(Append(pend, p), 1, Len(Append(pend, p)) - 3) \in Seq(S)
<1>1. Append(pend, p) \in Seq(S) /\ Append(pend, p) # <<>>
      /\ (pend # <<>> => Append(pend, p)[1] = pend[1])
  <2>1. Append(pend, p) \in Seq(S) /\ Len(Append(pend, p)) = Len(pend) + 1 /\ Len(pend) \in Nat
    OBVIOUS
  <2>2. Append(pend, p) # <<>>
    BY <2>1
  <2>3. ASSUME pend # <<>> PROVE Append(pend, p)[1] = pend[1]
    <3>1. 1 \in 1 .. Len(pend)
      BY <2>1, <2>3
    <3> QED
      BY <3>1
  <2> QED
    BY <2>1, <2>2, <2>3
<1>2. PICK all : all = Append(pend, p)
  OBVIOUS
<1>3. ASSUME Len(all) >= 3 PROVE SubSeq(all, 1, Len(all) - 3) \in Seq(S)
  <2>1. all \in Seq(S) /\ Len(all) \in Nat /\ DOMAIN all = 1 .. Len(all)
    BY <1>1, <1>2
  <2>2. \A i \in 1 .. Len(all) - 3 : all[i] \in S
    BY <2>1
  <2> QED
    BY <1>3, <2>1, <2>2
<1> QED
  BY <1>1, <1>2, <1>3

LEMMA ParseByteTyped ==
  ASSUME NEW sh, NEW q \in ParsersOf(sh), NEW p \in DOMAIN sh, NEW rev \in Nat, rev <= sh[p]
  PROVE  /\ ParseByte(q, p, rev)[1] \in ParsersOf(sh)
         /\ ParseByte(q, p, rev)[2] \in Seq(EventsOf(sh))
<1>1. PICK all : all = Append(q.pend, p)
  OBVIOUS
<1>2. q.pend \in Seq(DOMAIN sh) /\ q.rev \in Nat
      /\ q.st \in {"ground", "escape", "csi", "paste"}
      /\ q = [st |-> q.st, pend |-> q.pend, rev |-> q.rev]
  BY DEF ParsersOf
<1>3. /\ all \in Seq(DOMAIN sh) /\ all # <<>>
      /\ q.pend # <<>> => all[1] = q.pend[1]
      /\ Len(all) >= 3 => SubSeq(all, 1, Len(all) - 3) \in Seq(DOMAIN sh)
  BY <1>1, <1>2, PrefixKeepsFirst
<1>4. Ground \in ParsersOf(sh) /\ <<>> \in Seq(EventsOf(sh))
  BY DEF Ground, ParsersOf
<1>5. \A e \in EventsOf(sh) : <<e>> \in Seq(EventsOf(sh))
  OBVIOUS
<1>6. ASSUME NEW kind \in Kinds, NEW of \in Seq(DOMAIN sh), NEW r \in Nat,
             kind = "click" => of # <<>> /\ r <= sh[of[1]]
      PROVE  <<Token(kind, of, r)>> \in Seq(EventsOf(sh))
  <2>1. Token(kind, of, r) \in EventsOf(sh)
    BY <1>6 DEF Token, EventsOf
  <2> QED
    BY <1>5, <2>1
<1>7. CASE q.st = "paste"
  <2>1. [q EXCEPT !.pend = all] \in ParsersOf(sh)
    BY <1>2, <1>3, <1>7 DEF ParsersOf
  <2>2. Len(all) >= 3 => <<Token("paste", SubSeq(all, 1, Len(all) - 3), q.rev)>> \in Seq(EventsOf(sh))
    BY <1>2, <1>3, <1>6 DEF Kinds
  <2> QED
    BY <1>1, <1>4, <1>7, <2>1, <2>2 DEF ParseByte
<1>8. CASE q.st # "paste" /\ typed[p] = "esc"
  <2>1. startEscape(p, rev) \in ParsersOf(sh)
    BY DEF startEscape, ParsersOf
  <2>2. typed[p] \notin Final
    BY <1>8 DEF Final
  <2>3. ParseByte(q, p, rev) = <<startEscape(p, rev), <<>>>>
    BY <1>8, <2>2 DEF ParseByte
  <2> QED
    BY <1>4, <2>1, <2>3
<1>9. CASE q.st = "ground" /\ typed[p] # "esc"
  <2>1. <<Token("byte", <<p>>, rev)>> \in Seq(EventsOf(sh))
    <3>1. <<p>> \in Seq(DOMAIN sh) /\ "byte" \in Kinds /\ "byte" # "click"
      BY DEF Kinds
    <3> QED
      BY <3>1, <1>6
  <2>2. ParseByte(q, p, rev) = <<Ground, <<Token("byte", <<p>>, rev)>>>>
    BY <1>9 DEF ParseByte
  <2> QED
    BY <1>4, <2>1, <2>2
<1>10. CASE q.st = "escape" /\ typed[p] = "["
  <2>1. q.pend # <<>> /\ q.rev <= sh[q.pend[1]]
    BY <1>10 DEF ParsersOf
  <2>2. [[q EXCEPT !.st = "csi"] EXCEPT !.pend = all] \in ParsersOf(sh)
    BY <1>2, <1>3, <2>1 DEF ParsersOf
  <2>3. ParseByte(q, p, rev) = <<[q EXCEPT !.st = "csi", !.pend = all], <<>>>>
    BY <1>1, <1>10 DEF ParseByte
  <2> QED
    BY <1>4, <2>2, <2>3
<1>11. CASE q.st = "escape" /\ typed[p] \notin {"[", "esc"}
  <2>1. <<Token("alt", all, q.rev)>> \in Seq(EventsOf(sh))
    BY <1>2, <1>3, <1>6 DEF Kinds
  <2>2. ParseByte(q, p, rev) = <<Ground, <<Token("alt", all, q.rev)>>>>
    BY <1>1, <1>11 DEF ParseByte
  <2> QED
    BY <1>4, <2>1, <2>2
<1>12. CASE q.st = "csi" /\ typed[p] \notin Final \cup {"esc"}
  <2>1. q.pend # <<>> /\ q.rev <= sh[q.pend[1]]
    BY <1>12 DEF ParsersOf
  <2>2. [q EXCEPT !.pend = all] \in ParsersOf(sh)
    BY <1>2, <1>3, <2>1 DEF ParsersOf
  <2>3. ParseByte(q, p, rev) = <<[q EXCEPT !.pend = all], <<>>>>
    BY <1>1, <1>12 DEF ParseByte
  <2> QED
    BY <1>4, <2>2, <2>3
<1>13. CASE q.st = "csi" /\ typed[p] \in Final
  <2>1. q.pend # <<>> /\ q.rev <= sh[q.pend[1]]
    BY <1>13 DEF ParsersOf
  <2>2. DecodedCSI(all, q.rev) \in Seq(EventsOf(sh))
    <3>1. <<Token("click", all, q.rev)>> \in Seq(EventsOf(sh))
          /\ <<Token("arrow", all, q.rev)>> \in Seq(EventsOf(sh))
      BY <1>2, <1>3, <1>6, <2>1 DEF Kinds
    <3> QED
      BY <1>4, <3>1, Zenon DEF DecodedCSI
  <2>3. [[q EXCEPT !.st = "paste"] EXCEPT !.pend = <<>>] \in ParsersOf(sh)
    <3>1. [q EXCEPT !.st = "paste"] = [st |-> "paste", pend |-> q.pend, rev |-> q.rev]
      BY <1>2
    <3>2. [[st |-> "paste", pend |-> q.pend, rev |-> q.rev] EXCEPT !.pend = <<>>]
            = [st |-> "paste", pend |-> <<>>, rev |-> q.rev]
      OBVIOUS
    <3>3. [st |-> "paste", pend |-> <<>>, rev |-> q.rev] \in ParsersOf(sh)
      BY <1>2 DEF ParsersOf
    <3> QED
      BY <3>1, <3>2, <3>3
  <2>4. typed[p] # "esc"
    BY <1>13 DEF Final
  <2>5. ParseByte(q, p, rev) = IF BytesOf(all) = <<"esc", "[", "200~">>
                               THEN <<[q EXCEPT !.st = "paste", !.pend = <<>>], <<>>>>
                               ELSE <<Ground, DecodedCSI(all, q.rev)>>
    BY <1>1, <1>13, <2>4 DEF ParseByte
  <2> HIDE DEF DecodedCSI
  <2> QED
    BY <1>4, <2>2, <2>3, <2>5
<1> QED
  BY <1>2, <1>7, <1>8, <1>9, <1>10, <1>11, <1>12, <1>13 DEF Final

LEMMA FeedTyped ==
  ASSUME NEW sh, NEW q \in ParsersOf(sh), NEW data \in Seq(DOMAIN sh), NEW rev \in Nat,
         \A i \in DOMAIN data : rev <= sh[data[i]]
  PROVE  /\ Feed(q, data, rev)[1] \in ParsersOf(sh)
         /\ Feed(q, data, rev)[2] \in Seq(EventsOf(sh))
<1>1. PICK N : N = Len(data)
  OBVIOUS
<1>2. N \in Nat
  BY <1>1
<1>3. PICK f : /\ \A n \in 0 .. N : f[n] = FeedStep(q, data, rev, f, n)
               /\ Feed(q, data, rev) = f[N]
  BY <1>1, <1>2, FeedSteps
<1> DEFINE Good(n) == f[n][1] \in ParsersOf(sh) /\ f[n][2] \in Seq(EventsOf(sh))
           Bad == {n \in 0 .. N : ~ Good(n)}
<1>4. SUFFICES ASSUME Bad # {} PROVE FALSE
  BY <1>2, <1>3
<1>5. PICK n \in Bad : \A k \in Bad : n <= k
  <2>1. Bad \subseteq Nat
    BY <1>2
  <2> HIDE DEF Bad
  <2> QED
    BY <1>4, <2>1, LeastNat
<1>6. n # 0
  <2>1. CASE n = 0
    <3>1. f[0] = <<q, <<>>>>
      <4>1. f[0] = FeedStep(q, data, rev, f, 0)
        BY <1>2, <1>3
      <4> QED
        BY <4>1, Zenon DEF FeedStep
    <3>2. Good(0)
      BY <3>1
    <3> QED
      BY <1>5, <2>1, <3>2
  <2> QED
    BY <2>1
<1>7. n - 1 \in 0 .. N /\ n \in 1 .. N /\ n - 1 \notin Bad
  BY <1>2, <1>5, <1>6
<1>8. PICK old : old = f[n - 1]
  OBVIOUS
<1>9. old[1] \in ParsersOf(sh) /\ old[2] \in Seq(EventsOf(sh))
  BY <1>7, <1>8
<1>10. data[n] \in DOMAIN sh /\ rev <= sh[data[n]]
  BY <1>1, <1>7
<1>11. PICK r : r = ParseByte(old[1], data[n], rev)
  OBVIOUS
<1>12. r[1] \in ParsersOf(sh) /\ r[2] \in Seq(EventsOf(sh))
  BY <1>9, <1>10, <1>11, ParseByteTyped
<1>13. f[n] = <<r[1], old[2] \o r[2]>>
  <2>1. f[n] = FeedStep(q, data, rev, f, n)
    BY <1>3, <1>5
  <2> QED
    BY <1>6, <1>8, <1>11, <2>1, Zenon DEF FeedStep
<1>14. Good(n)
  BY <1>9, <1>12, <1>13
<1> QED
  BY <1>5, <1>14

LEMMA FlushTyped ==
  ASSUME NEW sh, NEW q \in ParsersOf(sh), NEW idle
  PROVE  /\ AfterFlush(q, idle) \in ParsersOf(sh)
         /\ FlushedEscape(q, idle) \in Seq(EventsOf(sh))
<1>1. Ground \in ParsersOf(sh)
  BY DEF Ground, ParsersOf
<1>2. Token("escape", q.pend, q.rev) \in EventsOf(sh)
  BY DEF Token, ParsersOf, EventsOf, Kinds
<1>3. <<Token("escape", q.pend, q.rev)>> \in Seq(EventsOf(sh)) /\ <<>> \in Seq(EventsOf(sh))
  BY <1>2
<1> QED
  BY <1>1, <1>3 DEF AfterFlush, FlushedEscape

-----------------------------------------------------------------------------
(* A frame of input *)

LEMMA ConsumeAllIsHandled ==
  ASSUME NEW s, NEW sh, NEW lo, Served(s, sh, lo), NEW data, Len(data) \in Nat
  PROVE  Handled(s, ConsumeAll(s, data), sh, lo)
<1>1. PICK N : N = Len(data)
  OBVIOUS
<1>2. N \in Nat
  BY <1>1
<1>3. PICK f : /\ \A n \in 0 .. N : f[n] = ConsumeStep(s, data, f, n)
               /\ ConsumeAll(s, data) = f[N]
  BY <1>1, <1>2, ConsumeAllSteps
<1> DEFINE Bad == {n \in 0 .. N : ~ Handled(s, f[n], sh, lo)}
<1>4. SUFFICES ASSUME Bad # {} PROVE FALSE
  BY <1>2, <1>3
<1>5. PICK n \in Bad : \A k \in Bad : n <= k
  <2>1. Bad \subseteq Nat
    BY <1>2
  <2> HIDE DEF Bad
  <2> QED
    BY <1>4, <2>1, LeastNat
<1>6. n # 0
  <2>1. CASE n = 0
    <3>1. f[0] = s
      BY <1>2, <1>3 DEF ConsumeStep
    <3>2. Handled(s, s, sh, lo)
      BY QuietOperations, QuietIsHandled DEF Served
    <3> QED
      BY <1>5, <2>1, <3>1, <3>2
  <2> QED
    BY <2>1
<1>7. n - 1 \in 0 .. N /\ n \in 1 .. N /\ n - 1 \notin Bad
  BY <1>2, <1>5, <1>6
<1>8. PICK u : u = f[n - 1]
  OBVIOUS
<1>9. Handled(s, u, sh, lo) /\ Served(u, sh, lo)
  BY <1>7, <1>8 DEF Handled
<1>10. f[n] = ConsumeInputByte(u, data[n])
  BY <1>3, <1>7, <1>8 DEF ConsumeStep
<1>11. Handled(u, f[n], sh, lo)
  BY <1>1, <1>7, <1>9, <1>10, ConsumeByteIsHandled
<1> QED
  BY <1>5, <1>9, <1>11, LaterTwice

LEMMA LegacyBytesAreHandled ==
  ASSUME NEW s, NEW sh, NEW lo, Served(s, sh, lo), NEW data, Len(data) \in Nat
  PROVE  Handled(s, handleLegacyInputBytes(s, data), sh, lo)
<1>1. Handled(s, ToPane(s, data), sh, lo)
  BY QuietOperations, QuietIsHandled DEF Served
<1>2. Handled(s, ConsumeAll(s, data), sh, lo)
  BY ConsumeAllIsHandled
<1> HIDE DEF Handled
<1> QED
  BY <1>1, <1>2 DEF handleLegacyInputBytes

\* A click is taken only when its layout is the newest there is, and so no older
\* than the one on screen when it was read.
LEMMA PointerIsHandled ==
  ASSUME NEW s, NEW sh, NEW lo, Served(s, sh, lo), NEW e \in EventsOf(sh), e.kind = "click"
  PROVE  Handled(s, handleFrontendPointer(s, e), sh, lo)
<1>1. PICK c : c = [of |-> e.of, rev |-> e.rev, hit |-> e.rev = s.layout, layout |-> s.layout]
  OBVIOUS
<1>2. e.of \in Seq(DOMAIN sh) /\ e.of # <<>> /\ e.rev \in Nat /\ e.rev <= sh[e.of[1]]
  BY DEF EventsOf
<1>3. c.of[1] \in DOMAIN sh /\ (c.hit => sh[c.of[1]] = c.layout)
  <2>1. e.of[1] \in DOMAIN sh
    BY <1>2
  <2>2. sh[e.of[1]] \in Nat /\ sh[e.of[1]] <= s.layout /\ s.layout \in Nat
    BY <2>1 DEF Served
  <2>3. c.of = e.of /\ c.layout = s.layout /\ (c.hit <=> e.rev = s.layout)
    BY <1>1, Zenon
  <2>4. e.rev = s.layout => sh[e.of[1]] = s.layout
    BY <1>2, <2>2
  <2> QED
    BY <2>1, <2>3, <2>4
<1>4. PICK cs : cs = Append(s.clicks, c)
  OBVIOUS
<1>5. PICK t : t = [s EXCEPT !.clicks = cs]
  OBVIOUS
<1>6. t = handleFrontendPointer(s, e)
  BY <1>1, <1>4, <1>5 DEF handleFrontendPointer
<1>7. IsServer(t) /\ t.clicks = cs /\ t.say = s.say
      /\ t.parser = s.parser /\ t.prompt = s.prompt /\ t.promptMode = s.promptMode
      /\ t.next = s.next /\ t.opened = s.opened /\ t.layout = s.layout
      /\ t.answers = s.answers
  BY <1>5, UpdatedServer DEF Served, IsServer
<1>8. SaidBy(t, t.say, lo) /\ AnswersOK(t)
  BY <1>7 DEF Served, SaidBy, Known, AnswersOK
<1>9. ClicksOK(t, sh)
  <2>1. IsSequence(s.clicks)
    BY DEF Served, ClicksOK
  <2>2. /\ IsSequence(cs) /\ cs[Len(s.clicks) + 1] = c
        /\ \A i \in DOMAIN s.clicks : cs[i] = s.clicks[i]
        /\ \A i \in DOMAIN cs : i = Len(s.clicks) + 1 \/ i \in DOMAIN s.clicks
    <3>1. cs[Len(s.clicks) + 1] = c
      <4>1. PICK xs : xs = s.clicks
        OBVIOUS
      <4> QED
        BY <1>4, <2>1, <4>1, OneMore
    <3>4. IsSequence(cs)
      BY <1>4, <2>1, OneMore, Zenon
    <3>2. \A i \in DOMAIN s.clicks : cs[i] = s.clicks[i]
      BY <1>4, <2>1, OneMore
    <3>3. \A i \in DOMAIN cs : i = Len(s.clicks) + 1 \/ i \in DOMAIN s.clicks
      BY <1>4, <2>1, OneMore
    <3> QED
      BY <3>1, <3>2, <3>3, <3>4
  <2>3. \A i \in DOMAIN cs : cs[i] = c \/ (i \in DOMAIN s.clicks /\ cs[i] = s.clicks[i])
    BY <2>2
  <2> QED
    BY <1>3, <1>7, <2>2, <2>3 DEF Served, ClicksOK
<1>10. Handled(s, t, sh, lo)
  BY <1>7, <1>8, <1>9 DEF Handled, Served, Later
<1> QED
  BY <1>6, <1>10

LEMMA EventIsHandled ==
  ASSUME NEW s, NEW sh, NEW lo, Served(s, sh, lo), NEW e \in EventsOf(sh)
  PROVE  Handled(s, handleFrontendInputEvent(s, e), sh, lo)
<1>1. Quiet(s, s) /\ Quiet(s, ToPane(s, e.of))
  BY QuietOperations DEF Served
<1>2. Handled(s, s, sh, lo) /\ Handled(s, ToPane(s, e.of), sh, lo)
  BY <1>1, QuietIsHandled
<1>3. Len(e.of) \in Nat /\ e.kind \in Kinds
  BY DEF EventsOf
<1>4. Handled(s, handleLegacyInputBytes(s, e.of), sh, lo)
  BY <1>3, LegacyBytesAreHandled
<1>5. e.kind = "click" => Handled(s, handleFrontendPointer(s, e), sh, lo)
  BY PointerIsHandled
<1> HIDE DEF Handled
<1>6. CASE s.broken
  BY <1>2, <1>6 DEF handleFrontendInputEvent
<1>7. CASE ~s.broken /\ e.kind = "paste"
  BY <1>2, <1>7 DEF handleFrontendInputEvent
<1>8. CASE ~s.broken /\ e.kind = "click"
  BY <1>5, <1>8 DEF handleFrontendInputEvent
<1>9. CASE ~s.broken /\ e.kind \in {"byte", "alt", "arrow", "escape"}
  BY <1>2, <1>4, <1>9 DEF handleFrontendInputEvent
<1> QED
  BY <1>3, <1>6, <1>7, <1>8, <1>9 DEF Kinds

LEMMA HandleAllIsHandled ==
  ASSUME NEW s, NEW sh, NEW lo, Served(s, sh, lo), NEW events \in Seq(EventsOf(sh))
  PROVE  Handled(s, HandleAll(s, events), sh, lo)
<1>1. PICK N : N = Len(events)
  OBVIOUS
<1>2. N \in Nat
  BY <1>1
<1>3. PICK f : /\ \A n \in 0 .. N : f[n] = HandleStep(s, events, f, n)
               /\ HandleAll(s, events) = f[N]
  BY <1>1, <1>2, HandleAllSteps
<1> DEFINE Bad == {n \in 0 .. N : ~ Handled(s, f[n], sh, lo)}
<1>4. SUFFICES ASSUME Bad # {} PROVE FALSE
  BY <1>2, <1>3
<1>5. PICK n \in Bad : \A k \in Bad : n <= k
  <2>1. Bad \subseteq Nat
    BY <1>2
  <2> HIDE DEF Bad
  <2> QED
    BY <1>4, <2>1, LeastNat
<1>6. n # 0
  <2>1. CASE n = 0
    <3>1. f[0] = s
      BY <1>2, <1>3 DEF HandleStep
    <3>2. Handled(s, s, sh, lo)
      BY QuietOperations, QuietIsHandled DEF Served
    <3> QED
      BY <1>5, <2>1, <3>1, <3>2
  <2> QED
    BY <2>1
<1>7. n - 1 \in 0 .. N /\ n \in 1 .. N /\ n - 1 \notin Bad
  BY <1>2, <1>5, <1>6
<1>8. PICK u : u = f[n - 1]
  OBVIOUS
<1>9. Handled(s, u, sh, lo) /\ Served(u, sh, lo)
  BY <1>7, <1>8 DEF Handled
<1>10. f[n] = handleFrontendInputEvent(u, events[n])
  BY <1>3, <1>7, <1>8 DEF HandleStep
<1>11. Handled(u, f[n], sh, lo)
  BY <1>1, <1>7, <1>9, <1>10, EventIsHandled
<1> QED
  BY <1>5, <1>9, <1>11, LaterTwice

LEMMA ParserIsHandled ==
  ASSUME NEW s, NEW sh, NEW lo, Served(s, sh, lo), NEW q \in ParsersOf(sh)
  PROVE  Handled(s, [s EXCEPT !.parser = q], sh, lo)
<1>1. PICK t : t = [s EXCEPT !.parser = q]
  OBVIOUS
<1>2. IsServer(t) /\ t.parser = q /\ t.say = s.say /\ t.clicks = s.clicks
      /\ t.prompt = s.prompt /\ t.promptMode = s.promptMode
      /\ t.next = s.next /\ t.opened = s.opened /\ t.layout = s.layout
      /\ t.answers = s.answers
  BY <1>1, UpdatedServer DEF Served, IsServer
<1>3. SaidBy(t, t.say, lo) /\ AnswersOK(t) /\ ClicksOK(t, sh)
  BY <1>2 DEF Served, SaidBy, Known, AnswersOK, ClicksOK
<1>4. Handled(s, t, sh, lo)
  BY <1>2, <1>3 DEF Handled, Served, Later
<1> QED
  BY <1>1, <1>4

\* Every byte of a frame was read, and under a layout no older than the frame's.
BytesOK(data, rev, sh) ==
  /\ data \in Seq(DOMAIN sh)
  /\ rev \in Nat
  /\ \A i \in DOMAIN data : rev <= sh[data[i]]

LEMMA InputBytesAreHandled ==
  ASSUME NEW s, NEW sh, NEW lo, Served(s, sh, lo), NEW data, NEW rev, BytesOK(data, rev, sh)
  PROVE  Handled(s, handleInputBytes(s, data, rev), sh, lo)
<1>1. PICK fed : fed = Feed(s.parser, data, rev)
  OBVIOUS
<1>2. fed[1] \in ParsersOf(sh) /\ fed[2] \in Seq(EventsOf(sh))
  BY <1>1, FeedTyped DEF Served, BytesOK
<1>3. PICK t : t = [s EXCEPT !.parser = fed[1]]
  OBVIOUS
<1>4. Handled(s, t, sh, lo)
  BY <1>2, <1>3, ParserIsHandled
<1>5. Handled(t, HandleAll(t, fed[2]), sh, lo)
  BY <1>2, <1>4, HandleAllIsHandled DEF Handled
<1>6. Handled(s, HandleAll(t, fed[2]), sh, lo)
  BY <1>4, <1>5, LaterTwice
<1>7. Handled(s, handleLegacyInputBytes(s, data), sh, lo)
  <2>1. Len(data) \in Nat
    BY DEF BytesOK
  <2> QED
    BY <2>1, LegacyBytesAreHandled
<1> HIDE DEF Handled
<1> QED
  BY <1>1, <1>3, <1>6, <1>7 DEF handleInputBytes

LEMMA InputFrameIsHandled ==
  ASSUME NEW s, NEW sh, NEW lo, Served(s, sh, lo), NEW f, BytesOK(f.data, f.rev, sh)
  PROVE  Handled(s, handleInputFrame(s, f), sh, lo)
<1>1. PICK t : t = handleInputBytes(s, f.data, f.rev)
  OBVIOUS
<1>2. Handled(s, t, sh, lo) /\ Served(t, sh, lo)
  BY <1>1, InputBytesAreHandled DEF Handled
<1>3. PICK q : q = AfterFlush(t.parser, f.idle)
  OBVIOUS
<1>4. q \in ParsersOf(sh) /\ FlushedEscape(t.parser, f.idle) \in Seq(EventsOf(sh))
  BY <1>2, <1>3, FlushTyped DEF Served
<1>5. PICK u : u = [t EXCEPT !.parser = q]
  OBVIOUS
<1>6. Handled(t, u, sh, lo) /\ Served(u, sh, lo)
  BY <1>2, <1>4, <1>5, ParserIsHandled DEF Handled
<1>7. PICK v : v = HandleAll(u, FlushedEscape(t.parser, f.idle))
  OBVIOUS
<1>8. Handled(u, v, sh, lo)
  BY <1>4, <1>6, <1>7, HandleAllIsHandled
<1>9. Handled(s, v, sh, lo)
  BY <1>2, <1>6, <1>8, LaterTwice
<1>10. Handled(s, s, sh, lo)
  BY QuietOperations, QuietIsHandled DEF Served
<1>11. [t EXCEPT !.parser = AfterFlush(@, f.idle)] = u
  BY <1>3, <1>5
<1> HIDE DEF Handled
<1> QED
  BY <1>1, <1>7, <1>9, <1>10, <1>11 DEF handleInputFrame

-----------------------------------------------------------------------------
(* The result of a prompt *)

\* The heart of the matter: a result that is not stale is of the prompt that is
\* open, since an ID and the number of a prompt determine each other.
LEMMA ResultIsHandled ==
  ASSUME NEW s, NEW sh, NEW lo, Served(s, sh, lo), NEW f,
         Known(s, f.prompt, f.opened) \/ s.prompt = None
  PROVE  Handled(s, resolvePrompt(s, f), sh, lo) /\ resolvePrompt(s, f).next = s.next
<1>1. CASE IsStale(s, f)
  <2>1. Handled(s, s, sh, lo)
    BY QuietOperations, QuietIsHandled DEF Served
  <2> QED
    BY <1>1, <2>1 DEF resolvePrompt
<1>2. CASE ~ IsStale(s, f)
  <2>1. s.prompt # None /\ s.prompt = f.prompt /\ s.prompt = s.next
    BY <1>2 DEF IsStale, Served
  <2>2. f.opened = s.opened
    BY <2>1 DEF Known, Served
  <2>3. PICK a : a = [of |-> s.opened, opened |-> f.opened, submitted |-> f.submitted, text |-> f.text]
    OBVIOUS
  <2>4. PICK all : all = Append(s.answers, a)
    OBVIOUS
  <2>5. PICK t : t = [[s EXCEPT !.prompt = None] EXCEPT !.answers = all]
    OBVIOUS
  <2>6. IsServer(t)
    BY <2>5, UpdatedServer DEF Served
  <2>7. t.parser = s.parser /\ t.prompt = None /\ t.promptMode = s.promptMode /\ t.clicks = s.clicks
        /\ t.next = s.next /\ t.opened = s.opened /\ t.layout = s.layout /\ t.say = s.say
        /\ t.answers = all
    BY <2>5 DEF Served, IsServer
  <2>8. AnswersOK(t)
    <3>1. IsSequence(s.answers)
      BY DEF Served, AnswersOK
    <3>2. IsSequence(all) /\ Len(s.answers) \in Nat
          /\ DOMAIN all = 1 .. Len(s.answers) + 1
          /\ DOMAIN s.answers = 1 .. Len(s.answers)
      BY <2>4, <3>1, OneMore
    <3>3. all[Len(s.answers) + 1] = a /\ \A i \in DOMAIN s.answers : all[i] = s.answers[i]
      BY <2>4, <3>1, OneMore
    <3>4. \A i \in DOMAIN all : (i = Len(s.answers) + 1 /\ all[i] = a)
                                 \/ (i \in DOMAIN s.answers /\ all[i] = s.answers[i])
      BY <3>2, <3>3
    <3>5. a.of = s.opened /\ a.opened = s.opened /\ s.opened \in Nat
      BY <2>2, <2>3 DEF Served
    <3>6. \A i \in DOMAIN s.answers : s.answers[i].of < s.opened
      BY <2>1 DEF Served, AnswersOK
    <3>7. \A i \in DOMAIN all : /\ all[i].opened = all[i].of
                                /\ all[i].of \in Nat /\ all[i].of <= t.opened
      BY <2>7, <3>4, <3>5 DEF Served, AnswersOK
    <3>8. ASSUME NEW i \in DOMAIN all, NEW j \in DOMAIN all, i < j
          PROVE  all[i].of < all[j].of
      <4>1. i \in DOMAIN s.answers /\ all[i] = s.answers[i]
        <5>1. i # Len(s.answers) + 1
          BY <3>2, <3>8
        <5> QED
          BY <3>4, <5>1
      <4>2. CASE all[j] = a
        BY <3>5, <3>6, <4>1, <4>2
      <4>3. CASE j \in DOMAIN s.answers /\ all[j] = s.answers[j]
        BY <3>8, <4>1, <4>3 DEF Served, AnswersOK
      <4> QED
        BY <3>4, <4>2, <4>3
    <3> QED
      BY <2>7, <3>2, <3>7, <3>8 DEF AnswersOK
  <2>9. SaidBy(t, t.say, lo) /\ ClicksOK(t, sh)
    BY <2>7 DEF Served, SaidBy, Known, ClicksOK
  <2>10. Handled(s, t, sh, lo)
    BY <2>6, <2>7, <2>8, <2>9 DEF Handled, Served, Later
  <2>11. Handled(t, Say(t, <<Status(t)>>), sh, lo)
    BY <2>10, StatusIsHandled DEF Handled
  <2>12. Handled(s, Say(t, <<Status(t)>>), sh, lo)
    BY <2>10, <2>11, LaterTwice
  <2>13. Say(t, <<Status(t)>>).next = s.next
    BY <2>6, <2>7 DEF Say, IsServer
  <2>14. t = [s EXCEPT !.prompt = None,
                       !.answers = Append(@, [of |-> s.opened, opened |-> f.opened,
                                              submitted |-> f.submitted, text |-> f.text])]
    <3>1. t = [[s EXCEPT !.prompt = None] EXCEPT !.answers = Append(s.answers, a)]
      BY <2>4, <2>5
    <3> QED
      BY <2>3, <3>1 DEF Served, IsServer
  <2> QED
    BY <1>2, <2>12, <2>13, <2>14 DEF resolvePrompt
<1> QED
  BY <1>1, <1>2

-----------------------------------------------------------------------------
(* Switches and new connections *)

LEMMA SwitchIsHandled ==
  ASSUME NEW s, NEW sh, NEW lo, Served(s, sh, lo)
  PROVE  /\ Handled(s, resetInputForSessionSwitch(s), sh, lo)
         /\ resetInputForSessionSwitch(s).next = s.next
         /\ resetInputForSessionSwitch(s).say = s.say
         /\ resetInputForSessionSwitch(s).prompt = None
<1>1. PICK t : t = [[s EXCEPT !.parser = Ground] EXCEPT !.prompt = None]
  OBVIOUS
<1>2. IsServer(t)
  BY <1>1, UpdatedServer DEF Served
<1>3. t.parser = Ground /\ t.prompt = None /\ t.promptMode = s.promptMode /\ t.clicks = s.clicks
      /\ t.next = s.next /\ t.opened = s.opened /\ t.layout = s.layout /\ t.say = s.say
      /\ t.answers = s.answers
  BY <1>1 DEF Served, IsServer
<1>4. Ground \in ParsersOf(sh)
  BY DEF Ground, ParsersOf
<1>5. SaidBy(t, t.say, lo) /\ ClicksOK(t, sh) /\ AnswersOK(t)
  BY <1>3 DEF Served, SaidBy, Known, ClicksOK, AnswersOK
<1>6. Handled(s, t, sh, lo)
  BY <1>2, <1>3, <1>4, <1>5 DEF Handled, Served, Later
<1>7. t = resetInputForSessionSwitch(s)
  BY <1>1 DEF resetInputForSessionSwitch
<1> QED
  BY <1>3, <1>6, <1>7

LEMMA AnnounceIsHandled ==
  ASSUME NEW s, NEW sh, NEW lo, Served(s, sh, lo)
  PROVE  /\ Handled(s, Announce(s), sh, lo)
         /\ Announce(s).next = s.next /\ Announce(s).layout = s.layout + 1
         /\ Announce(s).prompt = s.prompt
         /\ \E l, m \in Messages : /\ Announce(s).say = (s.say \o <<l>>) \o <<m>>
                                   /\ l.kind = "layout" /\ l.rev = s.layout + 1
                                   /\ m.kind = "status" /\ m.prompt = s.prompt
<1>1. PICK g : g = [s EXCEPT !.layout = @ + 1]
  OBVIOUS
<1>2. g.layout = s.layout + 1 /\ g.next = s.next /\ g.say = s.say /\ g.prompt = s.prompt /\ IsServer(g)
  BY <1>1, UpdatedServer DEF Served, IsServer
<1>3. PICK l : l = Layout(g)
  OBVIOUS
<1>4. l \in Messages /\ l.kind = "layout" /\ l.rev = s.layout + 1
  BY <1>2, <1>3 DEF Layout, Messages, Served
<1>5. PICK t : t = NewLayout(s)
  OBVIOUS
<1>6. t = [g EXCEPT !.say = @ \o <<l>>]
  BY <1>1, <1>3, <1>5 DEF NewLayout, Say
<1>7. t.layout = s.layout + 1 /\ t.next = s.next /\ t.say = s.say \o <<l>> /\ t.prompt = s.prompt
  BY <1>2, <1>6 DEF IsServer
<1>8. Handled(s, t, sh, lo) /\ Served(t, sh, lo)
  BY <1>5, NewLayoutIsHandled DEF Handled
<1>9. PICK m : m = Status(t)
  OBVIOUS
<1>10. m \in Messages /\ m.kind = "status" /\ m.prompt = s.prompt
  BY <1>7, <1>8, <1>9 DEF Served, Status, Messages, None
<1>11. PICK u : u = Say(t, <<m>>)
  OBVIOUS
<1>12. Handled(t, u, sh, lo)
  BY <1>8, <1>9, <1>11, StatusIsHandled
<1>13. u.layout = t.layout /\ u.next = t.next /\ u.say = t.say \o <<m>> /\ u.prompt = t.prompt
  BY <1>8, <1>11 DEF Say, Served, IsServer
<1>14. u = Announce(s)
  BY <1>5, <1>9, <1>11 DEF Announce
<1> QED
  BY <1>4, <1>7, <1>8, <1>10, <1>12, <1>13, <1>14, LaterTwice

\* A server with nothing left to say is where it starts to handle the next frame.
LEMMA SaidIsServed ==
  ASSUME NEW s, NEW sh, NEW lo, Served(s, sh, lo)
  PROVE  /\ Served([s EXCEPT !.say = <<>>], sh, s.layout)
         /\ [s EXCEPT !.say = <<>>].say = <<>>
<1>1. PICK t : t = [s EXCEPT !.say = <<>>]
  OBVIOUS
<1>2. IsServer(t) /\ t.say = <<>> /\ t.parser = s.parser /\ t.clicks = s.clicks
      /\ t.prompt = s.prompt /\ t.promptMode = s.promptMode
      /\ t.next = s.next /\ t.opened = s.opened /\ t.layout = s.layout
      /\ t.answers = s.answers
  BY <1>1, UpdatedServer DEF Served, IsServer
<1>3. SaidBy(t, t.say, s.layout)
  BY <1>2 DEF SaidBy
<1>4. AnswersOK(t) /\ ClicksOK(t, sh)
  BY <1>2 DEF Served, AnswersOK, ClicksOK
<1>5. Served(t, sh, s.layout)
  BY <1>2, <1>3, <1>4 DEF Served
<1> QED
  BY <1>1, <1>2, <1>5

\* A new ClientInstance: no prompt was opened by it yet.
LEMMA NewInstanceIsServed ==
  ASSUME NEW s, NEW sh, NEW lo, Served(s, sh, lo), NEW t, t = newClientInstance(s)
  PROVE  /\ IsServer(t) /\ t.next = 0 /\ t.layout = s.layout /\ t.say = s.say
         /\ Served([t EXCEPT !.say = <<>>], sh, s.layout)
         /\ t.say = <<>> => Served(t, sh, s.layout)
<1>1. PICK r : r = resetInputForSessionSwitch(s)
  OBVIOUS
<1>2. Served(r, sh, lo) /\ r.next = s.next /\ r.say = s.say /\ r.prompt = None /\ Later(s, r)
  BY <1>1, SwitchIsHandled DEF Handled
<1>3. r.layout = s.layout
  BY <1>1 DEF resetInputForSessionSwitch, Served, IsServer
<1>4. PICK c : c = cancelPaneResizeRepeat(r)
  OBVIOUS
<1>5. Quiet(r, c) /\ Served(c, sh, lo)
  BY <1>2, <1>4, CancelIsQuiet, QuietIsHandled DEF Handled, Served
<1>6. t = [[c EXCEPT !.next = 0] EXCEPT !.broken = FALSE]
  BY <1>1, <1>4 DEF newClientInstance
<1>7. IsServer(t)
  <2>1. PICK d : d = [c EXCEPT !.next = 0]
    OBVIOUS
  <2>2. IsServer(d)
    BY <1>5, <2>1, UpdatedServer DEF Served
  <2>3. IsServer([d EXCEPT !.broken = FALSE])
    BY <2>2, UpdatedServer
  <2> QED
    BY <1>6, <2>1, <2>3
<1>8. t.parser = c.parser /\ t.prompt = c.prompt /\ t.promptMode = c.promptMode
      /\ t.clicks = c.clicks /\ t.next = 0 /\ t.opened = c.opened /\ t.layout = c.layout
      /\ t.say = c.say /\ t.answers = c.answers
  BY <1>5, <1>6 DEF Served, IsServer
<1>9. c.prompt = None /\ c.layout = s.layout /\ c.say = s.say
  BY <1>2, <1>3, <1>5 DEF Quiet
<1>10. ASSUME NEW u, IsServer(u), u.say = <<>>, u.parser = t.parser, u.prompt = t.prompt,
              u.promptMode = t.promptMode, u.clicks = t.clicks, u.next = t.next,
              u.opened = t.opened, u.layout = t.layout, u.answers = t.answers
       PROVE  Served(u, sh, s.layout)
  <2>1. SaidBy(u, u.say, s.layout)
    BY <1>10 DEF SaidBy
  <2>2. AnswersOK(u) /\ ClicksOK(u, sh)
    BY <1>5, <1>8, <1>9, <1>10 DEF Served, AnswersOK, ClicksOK
  <2> QED
    BY <1>5, <1>8, <1>9, <1>10, <2>1, <2>2 DEF Served, None
<1>11. Served([t EXCEPT !.say = <<>>], sh, s.layout)
  <2>1. PICK u : u = [t EXCEPT !.say = <<>>]
    OBVIOUS
  <2>2. IsServer(u) /\ u.say = <<>> /\ u.parser = t.parser /\ u.clicks = t.clicks
        /\ u.prompt = t.prompt /\ u.promptMode = t.promptMode
        /\ u.next = t.next /\ u.opened = t.opened /\ u.layout = t.layout
        /\ u.answers = t.answers
    BY <1>7, <2>1, UpdatedServer DEF IsServer
  <2>3. Served(u, sh, s.layout)
    BY <1>10, <2>2
  <2> QED
    BY <2>1, <2>3
<1>12. ASSUME t.say = <<>> PROVE Served(t, sh, s.layout)
  BY <1>7, <1>10, <1>12
<1> QED
  BY <1>7, <1>8, <1>9, <1>11, <1>12

-----------------------------------------------------------------------------
(* The draft of a prompt *)

IsDraft(d, sh) ==
  /\ d = [id |-> d.id, mode |-> d.mode, opened |-> d.opened, text |-> d.text,
          cursor |-> d.cursor, resolved |-> d.resolved, parser |-> d.parser, result |-> d.result]
  /\ d.parser \in ParsersOf(sh)
  /\ d.result = <<>> \/ \E r : /\ d.result = <<r>> /\ r.kind = "result"
                              /\ r.prompt = d.id /\ r.opened = d.opened

Edited(d, t, sh) == IsDraft(t, sh) /\ t.id = d.id /\ t.opened = d.opened

LEMMA EditedTwice ==
  ASSUME NEW d, NEW t, NEW u, NEW sh, Edited(d, t, sh), Edited(t, u, sh)
  PROVE  Edited(d, u, sh)
  BY DEF Edited

LEMMA UpdatedDraft ==
  ASSUME NEW d, NEW sh, IsDraft(d, sh)
  PROVE  /\ Edited(d, d, sh)
         /\ \A v : /\ Edited(d, [d EXCEPT !.text = v], sh)
                  /\ Edited(d, [d EXCEPT !.cursor = v], sh)
                  /\ Edited(d, [d EXCEPT !.resolved = v], sh)
         /\ \A q \in ParsersOf(sh) : Edited(d, [d EXCEPT !.parser = q], sh)
         /\ \A r : r.kind = "result" /\ r.prompt = d.id /\ r.opened = d.opened =>
                    Edited(d, [d EXCEPT !.result = <<r>>], sh)
         /\ Edited(d, [d EXCEPT !.result = <<>>], sh)
<1>1. Edited(d, d, sh)
  BY DEF Edited
<1>2. \A v : Edited(d, [d EXCEPT !.text = v], sh)
  BY DEF Edited, IsDraft
<1>3. \A v : Edited(d, [d EXCEPT !.cursor = v], sh)
  BY DEF Edited, IsDraft
<1>4. \A v : Edited(d, [d EXCEPT !.resolved = v], sh)
  BY DEF Edited, IsDraft
<1>5. \A q \in ParsersOf(sh) : Edited(d, [d EXCEPT !.parser = q], sh)
  BY DEF Edited, IsDraft
<1>6. ASSUME NEW r, r.kind = "result", r.prompt = d.id, r.opened = d.opened
      PROVE  Edited(d, [d EXCEPT !.result = <<r>>], sh)
  BY <1>6 DEF Edited, IsDraft
<1>7. Edited(d, [d EXCEPT !.result = <<>>], sh)
  BY DEF Edited, IsDraft
<1> QED
  BY <1>1, <1>2, <1>3, <1>4, <1>5, <1>6, <1>7

LEMMA ResolveEdits ==
  ASSUME NEW d, NEW sh, IsDraft(d, sh), NEW submitted, NEW text
  PROVE  Edited(d, resolve(d, submitted, text), sh)
<1>1. PICK r : r = [kind |-> "result", prompt |-> d.id, opened |-> d.opened,
                    submitted |-> submitted, text |-> text]
  OBVIOUS
<1>2. r.kind = "result" /\ r.prompt = d.id /\ r.opened = d.opened
  BY <1>1
<1>3. PICK t : t = [d EXCEPT !.resolved = TRUE]
  OBVIOUS
<1>4. Edited(d, t, sh)
  BY <1>3, UpdatedDraft
<1>5. Edited(t, [t EXCEPT !.result = <<r>>], sh)
  <2>1. r.kind = "result" /\ r.prompt = t.id /\ r.opened = t.opened /\ IsDraft(t, sh)
    BY <1>2, <1>4 DEF Edited
  <2> HIDE DEF Edited, IsDraft
  <2> QED
    BY <2>1, UpdatedDraft
<1>6. resolve(d, submitted, text) = [t EXCEPT !.result = <<r>>]
  BY <1>1, <1>3 DEF resolve
<1> QED
  BY <1>4, <1>5, <1>6, EditedTwice

LEMMA CursorEdits ==
  ASSUME NEW d, NEW sh, IsDraft(d, sh), NEW text, NEW cursor
  PROVE  Edited(d, [[d EXCEPT !.text = text] EXCEPT !.cursor = cursor], sh)
<1>1. PICK t : t = [d EXCEPT !.text = text]
  OBVIOUS
<1>2. Edited(d, t, sh)
  BY <1>1, UpdatedDraft
<1>3. Edited(t, [t EXCEPT !.cursor = cursor], sh)
  BY <1>2, UpdatedDraft DEF Edited
<1> QED
  BY <1>1, <1>2, <1>3, EditedTwice

LEMMA RunesEdit ==
  ASSUME NEW d, NEW sh, IsDraft(d, sh)
  PROVE  /\ \A of : Edited(d, insertRunes(d, of), sh)
         /\ Edited(d, deletePreviousRune(d), sh)
<1>1. ASSUME NEW of PROVE Edited(d, insertRunes(d, of), sh)
  <2>1. PICK text : text = SubSeq(d.text, 1, d.cursor) \o of \o SubSeq(d.text, d.cursor + 1, Len(d.text))
    OBVIOUS
  <2>2. PICK cursor : cursor = d.cursor + Len(of)
    OBVIOUS
  <2>3. insertRunes(d, of) = [[d EXCEPT !.text = text] EXCEPT !.cursor = cursor]
    BY <2>1, <2>2 DEF insertRunes, IsDraft
  <2>4. Edited(d, [[d EXCEPT !.text = text] EXCEPT !.cursor = cursor], sh)
    BY CursorEdits
  <2> QED
    BY <2>3, <2>4, Zenon
<1>2. Edited(d, deletePreviousRune(d), sh)
  <2>1. PICK text : text = SubSeq(d.text, 1, d.cursor - 1) \o SubSeq(d.text, d.cursor + 1, Len(d.text))
    OBVIOUS
  <2>2. PICK cursor : cursor = d.cursor - 1
    OBVIOUS
  <2>3. CASE d.cursor = 0
    BY <2>3, UpdatedDraft DEF deletePreviousRune
  <2>4. CASE d.cursor # 0
    <3>1. deletePreviousRune(d) = [[d EXCEPT !.text = text] EXCEPT !.cursor = cursor]
      BY <2>1, <2>2, <2>4 DEF deletePreviousRune, IsDraft
    <3>2. Edited(d, [[d EXCEPT !.text = text] EXCEPT !.cursor = cursor], sh)
      BY CursorEdits
    <3> QED
      BY <3>1, <3>2, Zenon
  <2> QED
    BY <2>3, <2>4
<1> QED
  BY <1>1, <1>2

LEMMA EditDraftEdits ==
  ASSUME NEW d, NEW sh, IsDraft(d, sh), NEW e
  PROVE  Edited(d, EditDraft(d, e), sh)
<1>1. Edited(d, d, sh)
  BY UpdatedDraft
<1>2. \A submitted, text : Edited(d, resolve(d, submitted, text), sh)
  BY ResolveEdits
<1>3. Edited(d, insertRunes(d, e.of), sh) /\ Edited(d, deletePreviousRune(d), sh)
  BY RunesEdit
<1>4. Edited(d, [d EXCEPT !.cursor = IF @ > 0 THEN @ - 1 ELSE 0], sh)
  <2>1. [d EXCEPT !.cursor = IF @ > 0 THEN @ - 1 ELSE 0]
          = [d EXCEPT !.cursor = IF d.cursor > 0 THEN d.cursor - 1 ELSE 0]
    BY DEF IsDraft
  <2> QED
    BY <2>1, UpdatedDraft
<1> HIDE DEF Edited
<1>5. CASE d.resolved \/ e.of = <<>>
  BY <1>1, <1>5 DEF EditDraft
<1>6. CASE ~ (d.resolved \/ e.of = <<>>) /\ e.kind \in {"escape", "alt"}
  BY <1>2, <1>6 DEF EditDraft
<1>7. CASE ~ (d.resolved \/ e.of = <<>>) /\ e.kind = "byte"
  BY <1>1, <1>2, <1>3, <1>7 DEF EditDraft
<1>8. CASE ~ (d.resolved \/ e.of = <<>>) /\ e.kind = "paste"
  BY <1>1, <1>3, <1>8 DEF EditDraft
<1>9. CASE ~ (d.resolved \/ e.of = <<>>) /\ e.kind = "arrow"
  BY <1>1, <1>4, <1>9 DEF EditDraft
<1>10. CASE ~ (d.resolved \/ e.of = <<>>) /\ e.kind \notin {"escape", "alt", "byte", "paste", "arrow"}
  BY <1>1, <1>10 DEF EditDraft
<1> QED
  BY <1>5, <1>6, <1>7, <1>8, <1>9, <1>10

LEMMA EditAllEdits ==
  ASSUME NEW d, NEW sh, IsDraft(d, sh), NEW events, Len(events) \in Nat
  PROVE  Edited(d, EditAll(d, events), sh)
<1>1. PICK N : N = Len(events)
  OBVIOUS
<1>2. N \in Nat
  BY <1>1
<1>3. PICK f : /\ \A n \in 0 .. N : f[n] = EditStep(d, events, f, n)
               /\ EditAll(d, events) = f[N]
  BY <1>1, <1>2, EditAllSteps
<1> DEFINE Bad == {n \in 0 .. N : ~ Edited(d, f[n], sh)}
<1>4. SUFFICES ASSUME Bad # {} PROVE FALSE
  BY <1>2, <1>3
<1>5. PICK n \in Bad : \A k \in Bad : n <= k
  <2>1. Bad \subseteq Nat
    BY <1>2
  <2> HIDE DEF Bad
  <2> QED
    BY <1>4, <2>1, LeastNat
<1>6. n # 0
  <2>1. CASE n = 0
    <3>1. f[0] = d
      BY <1>2, <1>3 DEF EditStep
    <3>2. Edited(d, d, sh)
      BY UpdatedDraft
    <3> QED
      BY <1>5, <2>1, <3>1, <3>2
  <2> QED
    BY <2>1
<1>7. n - 1 \in 0 .. N /\ n \in 1 .. N /\ n - 1 \notin Bad
  BY <1>2, <1>5, <1>6
<1>8. PICK u : u = f[n - 1]
  OBVIOUS
<1>9. Edited(d, u, sh) /\ IsDraft(u, sh)
  BY <1>7, <1>8 DEF Edited
<1>10. f[n] = EditDraft(u, events[n])
  BY <1>3, <1>7, <1>8 DEF EditStep
<1>11. Edited(u, f[n], sh)
  BY <1>9, <1>10, EditDraftEdits
<1> QED
  BY <1>5, <1>9, <1>11, EditedTwice

LEMMA ConsumeEdits ==
  ASSUME NEW sh, NEW d, IsDraft(d, sh), NEW data, NEW rev, BytesOK(data, rev, sh),
         \A p \in DOMAIN sh : sh[p] \in Nat, NEW idle
  PROVE  Edited(d, consume(d, data, idle), sh)
<1>1. PICK fed : fed = Feed(d.parser, data, 0)
  OBVIOUS
<1>2. fed[1] \in ParsersOf(sh) /\ fed[2] \in Seq(EventsOf(sh))
  <2>1. data \in Seq(DOMAIN sh) /\ \A i \in DOMAIN data : 0 <= sh[data[i]]
    BY DEF BytesOK
  <2> QED
    BY <1>1, <2>1, FeedTyped DEF IsDraft
<1>3. AfterFlush(fed[1], idle) \in ParsersOf(sh) /\ FlushedEscape(fed[1], idle) \in Seq(EventsOf(sh))
  BY <1>2, FlushTyped
<1>4. PICK events : events = fed[2] \o FlushedEscape(fed[1], idle)
  OBVIOUS
<1>5. Len(events) \in Nat
  <2>1. events \in Seq(EventsOf(sh))
    BY <1>2, <1>3, <1>4
  <2> QED
    BY <2>1
<1>6. PICK t : t = EditAll(d, events)
  OBVIOUS
<1>7. Edited(d, t, sh)
  BY <1>5, <1>6, EditAllEdits
<1>8. Edited(t, [t EXCEPT !.parser = AfterFlush(fed[1], idle)], sh)
  BY <1>3, <1>7, UpdatedDraft DEF Edited
<1>9. Edited(d, d, sh)
  BY UpdatedDraft
<1>10. consume(d, data, idle) = IF d.resolved THEN d ELSE [t EXCEPT !.parser = AfterFlush(fed[1], idle)]
  BY <1>1, <1>4, <1>6 DEF consume
<1> QED
  BY <1>7, <1>8, <1>9, <1>10, EditedTwice

-----------------------------------------------------------------------------
(* The inductive invariant *)

\* The bytes read and not yet forwarded are the next ones, in order: off says
\* where each chunk begins.
ReadsOK(rs, sh, n) ==
  /\ rs \in Seq(Seq(Nat))
  /\ n \in Nat
  /\ \E off \in [1 .. Len(rs) + 1 -> Nat] :
       /\ off[1] = Len(sh) /\ off[Len(rs) + 1] = n
       /\ \A k \in 1 .. Len(rs) :
            /\ off[k] < off[k + 1]
            /\ rs[k] = [i \in 1 .. off[k + 1] - off[k] |-> off[k] + i]

\* The layout on screen only grows; an Escape held back was read under one.
HeldOK(c, sh) ==
  c.held # <<>> => /\ c.held = <<c.held[1]>> /\ c.held[1] \in DOMAIN sh
                   /\ c.heldRev \in Nat /\ c.heldRev <= sh[c.held[1]]
                   /\ c.heldConn # None

ClientOK(c, s, sh) ==
  /\ c = [conn |-> c.conn, held |-> c.held, heldConn |-> c.heldConn, heldRev |-> c.heldRev,
          layout |-> c.layout, draft |-> c.draft, active |-> c.active, due |-> c.due]
  /\ c.layout \in Nat /\ c.layout <= s.layout
  /\ sh \in Seq(Nat) /\ \A p \in DOMAIN sh : sh[p] <= c.layout
  /\ HeldOK(c, sh)
  /\ c.draft # NoDraft => IsDraft(c.draft, sh) /\ c.draft.result = <<>>

\* A result under way is of a prompt of this ClientInstance, or comes before
\* anything that could open one.
FrameOK(ts, i, s, sh) ==
  /\ ts[i].kind \in {"input", "result"}
  /\ ts[i].kind = "input" => BytesOK(ts[i].data, ts[i].rev, sh)
  /\ ts[i].kind = "result" =>
       \/ Known(s, ts[i].prompt, ts[i].opened)
       \/ s.next = 0 /\ \A j \in DOMAIN ts : j < i => ts[j].kind # "input"
Frames(ts, s, sh) == IsSequence(ts) /\ \A i \in DOMAIN ts : FrameOK(ts, i, s, sh)

\* A draft that outlived its connection: the first status to arrive ends it, and
\* until then nothing is sent that could open another prompt while it answers.
EndedByStatus(tc) ==
  \E k \in DOMAIN tc : /\ tc[k].kind = "status" /\ tc[k].prompt = None
                       /\ \A j \in DOMAIN tc : j < k => tc[j].kind # "status"
NoInput(ts) == \A j \in DOMAIN ts : ts[j].kind # "input"
Stale(c, s, tc, ts) ==
  /\ c.due = <<>>
  /\ EndedByStatus(tc)
  /\ c.active => s.next = 0 /\ NoInput(ts)
DraftOK(c, s, tc, ts) ==
  c.conn # None /\ c.draft # NoDraft =>
    Known(s, c.draft.id, c.draft.opened) \/ Stale(c, s, tc, ts)

ClosedOK(c, s, tc, ts) == c.conn = None => ts = <<>> /\ tc = <<>> /\ s.next = 0

IInv ==
  /\ Served(server, shown, server.layout)
  /\ server.say = <<>>
  /\ ClientOK(client, server, shown)
  /\ ReadsOK(reads, shown, read)
  /\ Frames(toServer, server, shown)
  /\ SaidBy(server, toClient, client.layout)
  /\ DraftOK(client, server, toClient, toServer)
  /\ ClosedOK(client, server, toClient, toServer)

LEMMA InvImplies == IInv => AnswerIsForItsPrompt /\ ClickMeansShownLayout
<1> SUFFICES ASSUME IInv PROVE AnswerIsForItsPrompt /\ ClickMeansShownLayout
  OBVIOUS
<1>1. AnswerIsForItsPrompt
  BY DEF IInv, Served, AnswersOK, AnswerIsForItsPrompt
<1>2. ClickMeansShownLayout
  BY DEF IInv, Served, ClicksOK, ClickMeansShownLayout, ToSet
<1> QED
  BY <1>1, <1>2

LEMMA InitInv == Init => IInv
<1> SUFFICES ASSUME Init PROVE IInv
  OBVIOUS
<1>1. /\ server = [parser |-> Ground, mode |-> "normal", escape |-> <<>>, repeat |-> FALSE,
               prompt |-> None, promptMode |-> "text", next |-> 0, opened |-> 0, layout |-> 1,
               broken |-> FALSE, say |-> <<>>,
               pane |-> <<>>, commands |-> <<>>, clicks |-> <<>>, answers |-> <<>>]
      /\ client = [conn |-> 1, held |-> <<>>, heldConn |-> None, heldRev |-> 0, layout |-> 1,
               draft |-> NoDraft, active |-> FALSE, due |-> <<>>]
      /\ shown = <<>> /\ reads = <<>> /\ read = 0 /\ toServer = <<>> /\ toClient = <<>>
  BY DEF Init
<1>2. DOMAIN shown = {} /\ Len(shown) = 0 /\ Len(reads) = 0 /\ shown \in Seq(Nat)
  BY <1>1
<1>3. IsServer(server)
  BY <1>1 DEF IsServer, Modes
<1>4. server.parser \in ParsersOf(shown)
  BY <1>1 DEF ParsersOf, Ground
<1>5. server.say = <<>> /\ server.answers = <<>> /\ server.clicks = <<>> /\ server.next = 0
      /\ server.opened = 0 /\ server.prompt = None /\ server.layout = 1
      /\ server.promptMode = "text"
  BY <1>1
<1>6. SaidBy(server, <<>>, 1)
  BY DEF SaidBy
<1>7. IsSequence(<<>>)
  BY DEF IsSequence
<1>8. AnswersOK(server) /\ ClicksOK(server, shown)
  BY <1>5, <1>7 DEF AnswersOK, ClicksOK
<1>9. Served(server, shown, server.layout)
  BY <1>2, <1>3, <1>4, <1>5, <1>6, <1>8 DEF Served, PromptModes, None
<1>10. client.layout = 1 /\ client.held = <<>> /\ client.draft = NoDraft /\ client.conn = 1
  BY <1>1
<1>11. ClientOK(client, server, shown)
  BY <1>1, <1>2, <1>5, <1>10 DEF ClientOK, HeldOK
<1>12. ReadsOK(reads, shown, read)
  <2>1. PICK off : off = [k \in 1 .. 1 |-> 0]
    OBVIOUS
  <2>2. Len(reads) + 1 = 1 /\ 1 .. Len(reads) = {}
    BY <1>2
  <2>3. off \in [1 .. Len(reads) + 1 -> Nat] /\ off[1] = 0
    BY <2>1, <2>2
  <2>4. reads \in Seq(Seq(Nat))
    BY <1>1
  <2> QED
    BY <1>1, <1>2, <2>2, <2>3, <2>4 DEF ReadsOK
<1>13. Frames(toServer, server, shown)
  BY <1>1, <1>7 DEF Frames
<1>14. DraftOK(client, server, toClient, toServer) /\ ClosedOK(client, server, toClient, toServer)
  BY <1>10 DEF DraftOK, ClosedOK, None
<1> QED
  BY <1>1, <1>5, <1>6, <1>9, <1>10, <1>11, <1>12, <1>13, <1>14 DEF IInv

-----------------------------------------------------------------------------
(* What carries over when the server has moved on, or more has been read *)

LEMMA FramesLater ==
  ASSUME NEW s, NEW t, NEW sh, NEW ts, Counts(s), Counts(t), Later(s, t), Frames(ts, s, sh),
         t.next = s.next
  PROVE  Frames(ts, t, sh)
<1>1. \A id, opened : Known(s, id, opened) => Known(t, id, opened)
  BY KnownLater
<1>2. ASSUME NEW i \in DOMAIN ts PROVE FrameOK(ts, i, t, sh)
  <2>1. FrameOK(ts, i, s, sh)
    BY DEF Frames
  <2> QED
    BY <1>1, <2>1 DEF FrameOK
<1> QED
  BY <1>2 DEF Frames

LEMMA TailOfFrames ==
  ASSUME NEW s, NEW t, NEW sh, NEW ts, ts # <<>>, Counts(s), Counts(t), Later(s, t),
         Frames(ts, s, sh), ts[1].kind = "input" \/ t.next = s.next
  PROVE  Frames(Tail(ts), t, sh)
<1>1. IsSequence(ts)
  BY DEF Frames
<1>2. PICK rest : rest = Tail(ts)
  OBVIOUS
<1>3. /\ rest \in Seq(ToSet(ts)) /\ Len(ts) \in Nat /\ Len(ts) >= 1 /\ DOMAIN ts = 1 .. Len(ts)
      /\ DOMAIN rest = 1 .. Len(ts) - 1
      /\ \A i \in DOMAIN rest : rest[i] = ts[i + 1] /\ i + 1 \in DOMAIN ts
  BY <1>1, <1>2 DEF IsSequence
<1>4. IsSequence(rest)
  BY <1>3 DEF IsSequence, ToSet
<1>5. \A id, opened : Known(s, id, opened) => Known(t, id, opened)
  BY KnownLater
<1>6. ASSUME NEW i \in DOMAIN rest PROVE FrameOK(rest, i, t, sh)
  <2>1. FrameOK(ts, i + 1, s, sh) /\ rest[i] = ts[i + 1]
    BY <1>3 DEF Frames
  <2>2. CASE rest[i].kind = "result" /\ ~ Known(t, rest[i].prompt, rest[i].opened)
    <3>1. s.next = 0 /\ \A j \in DOMAIN ts : j < i + 1 => ts[j].kind # "input"
      BY <1>5, <2>1, <2>2 DEF FrameOK
    <3>2. 1 \in DOMAIN ts /\ 1 < i + 1
      BY <1>3
    <3>3. t.next = 0
      BY <3>1, <3>2
    <3>4. \A j \in DOMAIN rest : j < i => rest[j].kind # "input"
      BY <1>3, <3>1
    <3> QED
      BY <2>1, <2>2, <3>3, <3>4 DEF FrameOK
  <2>3. CASE rest[i].kind = "result" => Known(t, rest[i].prompt, rest[i].opened)
    BY <2>1, <2>3 DEF FrameOK
  <2> QED
    BY <2>2, <2>3
<1> QED
  BY <1>2, <1>4, <1>6 DEF Frames

LEMMA OneMoreFrame ==
  ASSUME NEW ts, NEW s, NEW sh, Frames(ts, s, sh), NEW f,
         f.kind \in {"input", "result"},
         f.kind = "input" => BytesOK(f.data, f.rev, sh),
         f.kind = "result" => Known(s, f.prompt, f.opened) \/ (s.next = 0 /\ NoInput(ts))
  PROVE  Frames(Append(ts, f), s, sh)
<1>1. IsSequence(ts)
  BY DEF Frames
<1>2. PICK new : new = Append(ts, f)
  OBVIOUS
<1>3. /\ IsSequence(new) /\ Len(ts) \in Nat
      /\ DOMAIN new = 1 .. Len(ts) + 1 /\ DOMAIN ts = 1 .. Len(ts)
  BY <1>1, <1>2, OneMore
<1>4. new[Len(ts) + 1] = f /\ \A i \in DOMAIN ts : new[i] = ts[i]
  BY <1>1, <1>2, OneMore
<1>5. ASSUME NEW i \in DOMAIN new PROVE FrameOK(new, i, s, sh)
  <2>1. CASE i \in DOMAIN ts
    <3>1. FrameOK(ts, i, s, sh) /\ new[i] = ts[i]
      BY <1>4, <2>1 DEF Frames
    <3>2. \A j \in DOMAIN new : j < i => j \in DOMAIN ts /\ new[j] = ts[j]
      BY <1>3, <1>4, <2>1
    <3> QED
      BY <3>1, <3>2 DEF FrameOK
  <2>2. CASE i = Len(ts) + 1
    <3>1. new[i] = f
      BY <1>4, <2>2
    <3>2. \A j \in DOMAIN new : j < i => j \in DOMAIN ts /\ new[j] = ts[j]
      BY <1>3, <1>4, <2>2
    <3> QED
      BY <3>1, <3>2 DEF FrameOK, NoInput
  <2> QED
    BY <1>3, <2>1, <2>2
<1> QED
  BY <1>2, <1>3, <1>5 DEF Frames

LEMMA MoreIsShown ==
  ASSUME NEW sh, NEW new, DOMAIN sh \subseteq DOMAIN new, \A p \in DOMAIN sh : new[p] = sh[p]
  PROVE  /\ ParsersOf(sh) \subseteq ParsersOf(new)
         /\ \A d : IsDraft(d, sh) => IsDraft(d, new)
         /\ \A data, rev : BytesOK(data, rev, sh) => BytesOK(data, rev, new)
         /\ \A ts, s : Frames(ts, s, sh) => Frames(ts, s, new)
         /\ \A s, lo : Served(s, sh, lo) /\ (\A p \in DOMAIN new : new[p] \in Nat /\ new[p] <= s.layout) =>
                        Served(s, new, lo)
<1>1. ASSUME NEW q \in ParsersOf(sh) PROVE q \in ParsersOf(new)
  <2>1. q \in [st : {"ground", "escape", "csi", "paste"}, pend : Seq(DOMAIN sh), rev : Nat]
    BY DEF ParsersOf
  <2>2. q.pend \in Seq(DOMAIN sh) /\ (q.pend # <<>> => q.pend[1] \in DOMAIN sh)
    BY <2>1
  <2>3. q.pend \in Seq(DOMAIN new)
    BY <2>2
  <2>4. q \in [st : {"ground", "escape", "csi", "paste"}, pend : Seq(DOMAIN new), rev : Nat]
    BY <2>1, <2>3
  <2> QED
    BY <2>2, <2>4 DEF ParsersOf
<1>2. \A d : IsDraft(d, sh) => IsDraft(d, new)
  BY <1>1 DEF IsDraft
<1>3. ASSUME NEW data, NEW rev, BytesOK(data, rev, sh)
      PROVE  BytesOK(data, rev, new)
  <2>1. data \in Seq(DOMAIN new)
    BY <1>3 DEF BytesOK
  <2>2. \A i \in DOMAIN data : data[i] \in DOMAIN sh
    BY <1>3 DEF BytesOK
  <2> QED
    BY <1>3, <2>1, <2>2 DEF BytesOK
<1>4. ASSUME NEW ts, NEW s, Frames(ts, s, sh) PROVE Frames(ts, s, new)
  BY <1>3, <1>4 DEF Frames, FrameOK
<1>5. ASSUME NEW s, NEW lo, Served(s, sh, lo), \A p \in DOMAIN new : new[p] \in Nat /\ new[p] <= s.layout
      PROVE  Served(s, new, lo)
  <2>1. ClicksOK(s, new)
    BY <1>5 DEF Served, ClicksOK
  <2> QED
    BY <1>1, <1>5, <2>1 DEF Served
<1> QED
  BY <1>1, <1>2, <1>3, <1>4, <1>5

-----------------------------------------------------------------------------
(* One action at a time *)

LEMMA readTerminalInputInv == IInv /\ readTerminalInput => IInv'
<1> SUFFICES ASSUME IInv, readTerminalInput PROVE IInv'
  OBVIOUS
<1>1. UNCHANGED <<client, toServer, toClient, server, shown>>
  BY DEF readTerminalInput
<1>2. PICK n \in 1 .. MaxRead : /\ reads' = Append(reads, [i \in 1 .. n |-> read + i])
                               /\ read' = read + n
  BY DEF readTerminalInput
<1>3. n \in Nat /\ n >= 1
  OBVIOUS
<1>4. ReadsOK(reads', shown, read')
  <2>1. reads \in Seq(Seq(Nat)) /\ read \in Nat
    BY DEF IInv, ReadsOK
  <2>2. PICK off \in [1 .. Len(reads) + 1 -> Nat] :
          /\ off[1] = Len(shown) /\ off[Len(reads) + 1] = read
          /\ \A k \in 1 .. Len(reads) :
               /\ off[k] < off[k + 1]
               /\ reads[k] = [i \in 1 .. off[k + 1] - off[k] |-> off[k] + i]
    BY DEF IInv, ReadsOK
  <2>3. PICK m : m = Len(reads)
    OBVIOUS
  <2>4. m \in Nat
    BY <2>1, <2>3
  <2>5. PICK chunk : chunk = [i \in 1 .. n |-> read + i]
    OBVIOUS
  <2>6. chunk \in Seq(Nat)
    BY <1>3, <2>1, <2>5
  <2>7. PICK rs : rs = Append(reads, chunk)
    OBVIOUS
  <2>8. /\ rs \in Seq(Seq(Nat)) /\ Len(rs) = m + 1 /\ rs[m + 1] = chunk
        /\ \A k \in 1 .. m : rs[k] = reads[k]
    BY <2>1, <2>3, <2>6, <2>7
  <2>9. PICK next : next = [k \in 1 .. m + 2 |-> IF k = m + 2 THEN read + n ELSE off[k]]
    OBVIOUS
  <2>10. next \in [1 .. Len(rs) + 1 -> Nat]
    BY <1>3, <2>1, <2>2, <2>3, <2>4, <2>8, <2>9
  <2>11. next[1] = Len(shown) /\ next[Len(rs) + 1] = read + n
    BY <2>2, <2>4, <2>8, <2>9
  <2>12. ASSUME NEW k \in 1 .. Len(rs)
         PROVE  /\ next[k] < next[k + 1]
                /\ rs[k] = [i \in 1 .. next[k + 1] - next[k] |-> next[k] + i]
    <3>1. CASE k = m + 1
      <4>1. next[k] = read /\ next[k + 1] = read + n
        BY <2>2, <2>3, <2>4, <2>9, <3>1
      <4>2. next[k + 1] - next[k] = n
        BY <1>3, <2>1, <4>1
      <4> QED
        BY <1>3, <2>1, <2>5, <2>8, <3>1, <4>1, <4>2
    <3>2. CASE k # m + 1
      <4>1. k \in 1 .. m
        BY <2>4, <2>8, <3>2
      <4>2. next[k] = off[k] /\ next[k + 1] = off[k + 1]
        BY <2>4, <2>9, <4>1
      <4> QED
        BY <2>2, <2>3, <2>8, <4>1, <4>2
    <3> QED
      BY <3>1, <3>2
  <2>13. reads' = rs /\ read' = read + n /\ read + n \in Nat
    BY <1>2, <1>3, <2>1, <2>5, <2>7
  <2> QED
    BY <2>8, <2>10, <2>11, <2>12, <2>13 DEF ReadsOK
<1> QED
  BY <1>1, <1>4 DEF IInv

\* What SendBytes leaves behind, for the prompt's draft and for the server.
LEMMA SendBytesOK ==
  ASSUME NEW c, NEW new, NEW lo, NEW data, NEW rev, NEW idle,
         Served(server, new, lo), ClientOK(c, server, new), Frames(toServer, server, new),
         DraftOK(c, server, toClient, toServer), c.conn # None, BytesOK(data, rev, new),
         SendBytes(c, idle, data, rev)
  PROVE  /\ ClientOK(client', server, new) /\ Frames(toServer', server, new)
         /\ DraftOK(client', server, toClient, toServer')
         /\ client'.conn = c.conn /\ client'.layout = c.layout
<1>1. IsSequence(toServer)
  BY DEF Frames
<1>2. CASE c.active /\ c.draft # NoDraft
  <2>1. PICK old : old = [c.draft EXCEPT !.result = <<>>]
    OBVIOUS
  <2>2. IsDraft(c.draft, new) /\ Edited(c.draft, old, new)
    BY <1>2, <2>1, UpdatedDraft DEF ClientOK
  <2>3. PICK d : d = consume(old, data, idle)
    OBVIOUS
  <2>4. \A p \in DOMAIN new : new[p] \in Nat
    BY DEF Served
  <2>5. Edited(old, d, new)
    BY <2>2, <2>3, <2>4, ConsumeEdits DEF Edited
  <2>6. Edited(c.draft, d, new) /\ IsDraft(d, new) /\ d.id = c.draft.id /\ d.opened = c.draft.opened
    BY <2>2, <2>5, EditedTwice DEF Edited
  <2>7. PICK left : left = [d EXCEPT !.result = <<>>]
    OBVIOUS
  <2>8. Edited(d, left, new) /\ left.result = <<>>
    BY <2>6, <2>7, UpdatedDraft DEF IsDraft
  <2>9. client' = [c EXCEPT !.draft = left] /\ toServer' = toServer \o d.result
    BY <1>2, <2>1, <2>3, <2>7 DEF SendBytes
  <2>10. PICK b : b = [c EXCEPT !.draft = left]
    OBVIOUS
  <2>11. /\ b.draft = left /\ b.conn = c.conn /\ b.layout = c.layout /\ b.active = c.active
         /\ b.due = c.due /\ b.held = c.held /\ b.heldRev = c.heldRev /\ b.heldConn = c.heldConn
         /\ b = [conn |-> b.conn, held |-> b.held, heldConn |-> b.heldConn, heldRev |-> b.heldRev,
                 layout |-> b.layout, draft |-> b.draft, active |-> b.active, due |-> b.due]
    BY <2>10 DEF ClientOK
  <2>12. ClientOK(b, server, new)
    BY <2>8, <2>11 DEF ClientOK, HeldOK, Edited
  <2>13. left.id = c.draft.id /\ left.opened = c.draft.opened
    BY <2>6, <2>8 DEF Edited
  <2>14. Known(server, c.draft.id, c.draft.opened) \/ Stale(c, server, toClient, toServer)
    BY <1>2 DEF DraftOK
  <2>15. CASE d.result = <<>>
    <3>1. toServer' = toServer
      BY <1>1, <2>9, <2>15 DEF IsSequence
    <3>2. DraftOK(b, server, toClient, toServer)
      BY <2>11, <2>13, <2>14 DEF DraftOK, Stale
    <3> QED
      BY <2>9, <2>10, <2>11, <2>12, <3>1, <3>2
  <2>16. CASE d.result # <<>>
    <3>1. PICK r : /\ d.result = <<r>> /\ r.kind = "result"
                   /\ r.prompt = d.id /\ r.opened = d.opened
      BY <2>6, <2>16 DEF IsDraft
    <3>2. toServer \o <<r>> = Append(toServer, r)
      BY <1>1 DEF IsSequence
    <3>3. toServer' = Append(toServer, r)
      BY <2>9, <3>1, <3>2
    <3>4. Known(server, r.prompt, r.opened) \/ (server.next = 0 /\ NoInput(toServer))
      BY <1>2, <2>6, <2>14, <3>1 DEF Stale
    <3>5. Frames(Append(toServer, r), server, new)
      BY <3>1, <3>4, OneMoreFrame
    <3>6. NoInput(toServer) => NoInput(Append(toServer, r))
      <4>1. PICK ts : ts = Append(toServer, r)
        OBVIOUS
      <4>2. /\ ts[Len(toServer) + 1] = r
            /\ \A i \in DOMAIN toServer : ts[i] = toServer[i]
            /\ \A i \in DOMAIN ts : i = Len(toServer) + 1 \/ i \in DOMAIN toServer
        <5>1. ts[Len(toServer) + 1] = r
          BY <1>1, <4>1, OneMore
        <5>2. \A i \in DOMAIN toServer : ts[i] = toServer[i]
          BY <1>1, <4>1, OneMore
        <5>3. \A i \in DOMAIN ts : i = Len(toServer) + 1 \/ i \in DOMAIN toServer
          BY <1>1, <4>1, OneMore
        <5> QED
          BY <5>1, <5>2, <5>3
      <4> QED
        BY <3>1, <4>1, <4>2 DEF NoInput
    <3>7. DraftOK(b, server, toClient, Append(toServer, r))
      BY <2>11, <2>13, <2>14, <3>6 DEF DraftOK, Stale
    <3> QED
      BY <2>9, <2>10, <2>11, <2>12, <3>3, <3>5, <3>7
  <2> QED
    BY <2>15, <2>16
<1>3. CASE ~ (c.active /\ c.draft # NoDraft)
  <2>1. PICK f : f = [kind |-> "input", data |-> data, idle |-> idle, rev |-> rev]
    OBVIOUS
  <2>2. client' = c /\ toServer' = Append(toServer, f)
    BY <1>3, <2>1 DEF SendBytes
  <2>3. f.kind = "input" /\ f.data = data /\ f.rev = rev
    BY <2>1
  <2>4. Frames(Append(toServer, f), server, new)
    BY <2>3, OneMoreFrame
  <2>5. DraftOK(c, server, toClient, Append(toServer, f))
    BY <1>3 DEF DraftOK, Stale
  <2> QED
    BY <2>2, <2>4, <2>5
<1> QED
  BY <1>2, <1>3

\* The chunk at the head is the next bytes, and when it is taken they are shown.
WithShown(sh, rs, layout) == sh \o [i \in DOMAIN Head(rs) |-> layout]

Taken(rs, sh, n, layout, new) ==
  /\ new \in Seq(Nat) /\ DOMAIN sh \subseteq DOMAIN new
  /\ \A p \in DOMAIN sh : new[p] = sh[p]
  /\ Head(rs) \in Seq(DOMAIN new) /\ Head(rs) # <<>>
  /\ \A i \in DOMAIN Head(rs) : new[Head(rs)[i]] = layout
  /\ \A p \in DOMAIN new : p \in DOMAIN sh \/ new[p] = layout
  /\ ReadsOK(Tail(rs), new, n)

LEMMA HeadIsNext ==
  ASSUME NEW rs, NEW sh, NEW n, ReadsOK(rs, sh, n), rs # <<>>, sh \in Seq(Nat),
         NEW layout, layout \in Nat
  PROVE  Taken(rs, sh, n, layout, WithShown(sh, rs, layout))
<1>0. PICK new : new = WithShown(sh, rs, layout)
  OBVIOUS
<1>1. rs \in Seq(Seq(Nat)) /\ n \in Nat
  BY DEF ReadsOK
<1>2. PICK off \in [1 .. Len(rs) + 1 -> Nat] :
        /\ off[1] = Len(sh) /\ off[Len(rs) + 1] = n
        /\ \A k \in 1 .. Len(rs) :
             /\ off[k] < off[k + 1]
             /\ rs[k] = [i \in 1 .. off[k + 1] - off[k] |-> off[k] + i]
  BY DEF ReadsOK
<1>3. PICK N : N = Len(rs)
  OBVIOUS
<1>4. N \in Nat /\ N >= 1 /\ 1 \in 1 .. N
  BY <1>1, <1>3
<1>5. PICK m : m = off[2] - off[1]
  OBVIOUS
<1>6. off[1] \in Nat /\ off[2] \in Nat /\ off[1] < off[2]
  <2>1. 1 \in 1 .. Len(rs) + 1 /\ 2 \in 1 .. Len(rs) + 1 /\ 1 \in 1 .. Len(rs) /\ 1 + 1 = 2
    BY <1>3, <1>4
  <2>2. off[1] < off[1 + 1]
    BY <1>2, <2>1
  <2> QED
    BY <1>2, <2>1, <2>2
<1>7. m \in Nat /\ m >= 1 /\ off[2] = off[1] + m
  <2>1. \A a, b \in Nat : a < b => b - a \in Nat /\ b - a >= 1 /\ b = a + (b - a)
    OBVIOUS
  <2> QED
    BY <1>5, <1>6, <2>1
<1>8. PICK h : h = Head(rs)
  OBVIOUS
<1>9. h = [i \in 1 .. m |-> Len(sh) + i]
  <2>1. h = rs[1]
    BY <1>1, <1>8
  <2>2. 1 \in 1 .. Len(rs) /\ 1 + 1 = 2
    BY <1>3, <1>4
  <2>3. rs[1] = [i \in 1 .. off[1 + 1] - off[1] |-> off[1] + i]
    BY <1>2, <2>2
  <2>4. rs[1] = [i \in 1 .. m |-> off[1] + i]
    BY <1>5, <2>2, <2>3
  <2> QED
    BY <1>2, <2>1, <2>4
<1>10. Len(sh) \in Nat /\ DOMAIN sh = 1 .. Len(sh) /\ DOMAIN h = 1 .. m
  BY <1>9
<1>11. PICK more : more = [i \in 1 .. m |-> layout]
  OBVIOUS
<1>12. more \in Seq(Nat) /\ Len(more) = m
  BY <1>7, <1>11
<1>13. new = sh \o more
  BY <1>0, <1>8, <1>10, <1>11 DEF WithShown
<1>14. new \in Seq(Nat) /\ Len(new) = Len(sh) + m /\ DOMAIN new = 1 .. Len(sh) + m
  <2>1. new \in Seq(Nat) /\ Len(new) = Len(sh) + Len(more)
    BY <1>12, <1>13, ConcatProperties
  <2> QED
    BY <1>12, <2>1
<1>15. \A p \in 1 .. Len(sh) : new[p] = sh[p]
  BY <1>10, <1>12, <1>13
<1>16. \A i \in 1 .. m : new[Len(sh) + i] = layout
  BY <1>7, <1>10, <1>11, <1>12, <1>13
<1>17. h \in Seq(DOMAIN new) /\ h # <<>>
  <2>1. \A i \in 1 .. m : Len(sh) + i \in 1 .. Len(sh) + m
    BY <1>7, <1>10
  <2>2. h \in [1 .. m -> DOMAIN new]
    BY <1>9, <1>14, <2>1
  <2>3. Len(h) = m
    BY <1>7, <1>9
  <2> QED
    BY <1>7, <2>2, <2>3
<1>18. \A i \in DOMAIN h : new[h[i]] = layout
  BY <1>9, <1>10, <1>16
<1>19. ASSUME NEW p \in DOMAIN new, p \notin DOMAIN sh PROVE new[p] = layout
  <2>1. p \in 1 .. Len(sh) + m /\ p \notin 1 .. Len(sh)
    BY <1>10, <1>14, <1>19
  <2>2. p - Len(sh) \in 1 .. m /\ p = Len(sh) + (p - Len(sh))
    BY <1>7, <1>10, <2>1
  <2> QED
    BY <1>16, <2>2
<1>20. ReadsOK(Tail(rs), new, n)
  <2>1. PICK rest : rest = Tail(rs)
    OBVIOUS
  <2>2. rest \in Seq(Seq(Nat)) /\ Len(rest) = N - 1 /\ \A k \in 1 .. N - 1 : rest[k] = rs[k + 1]
    BY <1>1, <1>3, <1>4, <2>1
  <2>3. PICK next : next = [k \in 1 .. N |-> off[k + 1]]
    OBVIOUS
  <2>4. next \in [1 .. Len(rest) + 1 -> Nat]
    <3>1. \A k \in 1 .. N : k + 1 \in 1 .. Len(rs) + 1
      BY <1>3, <1>4
    <3>2. \A k \in 1 .. N : off[k + 1] \in Nat
      BY <1>2, <3>1
    <3>3. Len(rest) + 1 = N
      BY <1>4, <2>2
    <3> QED
      BY <2>3, <3>2, <3>3
  <2>5. next[1] = Len(new) /\ next[Len(rest) + 1] = n
    BY <1>2, <1>3, <1>4, <1>7, <1>14, <2>2, <2>3
  <2>6. ASSUME NEW k \in 1 .. Len(rest)
        PROVE  /\ next[k] < next[k + 1]
               /\ rest[k] = [i \in 1 .. next[k + 1] - next[k] |-> next[k] + i]
    <3>1. k \in 1 .. N - 1 /\ k + 1 \in 1 .. N /\ k \in 1 .. N
      BY <1>4, <2>2
    <3>2. next[k] = off[k + 1] /\ next[k + 1] = off[k + 1 + 1] /\ rest[k] = rs[k + 1]
      BY <2>2, <2>3, <3>1
    <3> QED
      BY <1>2, <1>3, <3>1, <3>2
  <2> QED
    BY <1>1, <2>1, <2>2, <2>4, <2>5, <2>6 DEF ReadsOK
<1>21. DOMAIN sh \subseteq DOMAIN new
  BY <1>7, <1>10, <1>14
<1> QED
  BY <1>0, <1>8, <1>10, <1>14, <1>15, <1>17, <1>18, <1>19, <1>20, <1>21 DEF Taken

WithHeld(c, held, conn, rev) == [c EXCEPT !.held = held, !.heldConn = conn, !.heldRev = rev]

LEMMA HoldOK ==
  ASSUME NEW c, NEW s, NEW sh, ClientOK(c, s, sh), NEW held, NEW conn, NEW rev,
         held # <<>> => /\ held = <<held[1]>> /\ held[1] \in DOMAIN sh
                        /\ rev \in Nat /\ rev <= sh[held[1]] /\ conn # None,
         NEW k, k = WithHeld(c, held, conn, rev)
  PROVE  /\ ClientOK(k, s, sh)
         /\ k.conn = c.conn /\ k.layout = c.layout /\ k.draft = c.draft
         /\ k.active = c.active /\ k.due = c.due
<1>1. PICK a : a = [c EXCEPT !.held = held]
  OBVIOUS
<1>2. PICK b : b = [a EXCEPT !.heldConn = conn]
  OBVIOUS
<1>3. k = [b EXCEPT !.heldRev = rev]
  BY <1>1, <1>2 DEF WithHeld
<1>4. /\ a.conn = c.conn /\ a.held = held /\ a.layout = c.layout /\ a.draft = c.draft
      /\ a.active = c.active /\ a.due = c.due
      /\ a = [conn |-> a.conn, held |-> a.held, heldConn |-> a.heldConn, heldRev |-> a.heldRev,
              layout |-> a.layout, draft |-> a.draft, active |-> a.active, due |-> a.due]
  BY <1>1 DEF ClientOK
<1>5. /\ b.conn = c.conn /\ b.held = held /\ b.heldConn = conn /\ b.layout = c.layout
      /\ b.draft = c.draft /\ b.active = c.active /\ b.due = c.due
      /\ b = [conn |-> b.conn, held |-> b.held, heldConn |-> b.heldConn, heldRev |-> b.heldRev,
              layout |-> b.layout, draft |-> b.draft, active |-> b.active, due |-> b.due]
  BY <1>2, <1>4
<1>6. /\ k.conn = c.conn /\ k.held = held /\ k.heldConn = conn /\ k.heldRev = rev
      /\ k.layout = c.layout /\ k.draft = c.draft /\ k.active = c.active /\ k.due = c.due
      /\ k = [conn |-> k.conn, held |-> k.held, heldConn |-> k.heldConn, heldRev |-> k.heldRev,
              layout |-> k.layout, draft |-> k.draft, active |-> k.active, due |-> k.due]
  BY <1>3, <1>5
<1>7. HeldOK(k, sh)
  BY <1>6 DEF HeldOK
<1> QED
  BY <1>6, <1>7 DEF ClientOK

LEMMA UnheldOK ==
  ASSUME NEW c, NEW s, NEW sh, ClientOK(c, s, sh)
  PROVE  /\ ClientOK(Unheld(c), s, sh)
         /\ Unheld(c).conn = c.conn /\ Unheld(c).layout = c.layout /\ Unheld(c).draft = c.draft
         /\ Unheld(c).active = c.active /\ Unheld(c).due = c.due
<1>1. PICK k : k = WithHeld(c, <<>>, None, 0)
  OBVIOUS
<1>2. k = Unheld(c)
  BY <1>1 DEF Unheld, WithHeld
<1>3. /\ ClientOK(k, s, sh)
      /\ k.conn = c.conn /\ k.layout = c.layout /\ k.draft = c.draft
      /\ k.active = c.active /\ k.due = c.due
  BY <1>1, HoldOK
<1> QED
  BY <1>2, <1>3

\* A client that differs only in what it holds back sees the same drafts.
LEMMA SameDraft ==
  ASSUME NEW c, NEW k, NEW s, NEW tc, NEW ts, DraftOK(c, s, tc, ts),
         k.conn = c.conn, k.draft = c.draft, k.active = c.active, k.due = c.due
  PROVE  DraftOK(k, s, tc, ts)
  BY DEF DraftOK, Stale

LEMMA JoinedOK ==
  ASSUME NEW new \in Seq(Nat), NEW c, HeldOK(c, new), c.layout \in Nat,
         \A p \in DOMAIN new : new[p] <= c.layout,
         NEW head \in Seq(DOMAIN new), head # <<>>, \A i \in DOMAIN head : new[head[i]] = c.layout,
         NEW data, data = Joined(c, head)
  PROVE  /\ BytesOK(data, RevisionOf(c), new)
         /\ Len(data) \in Nat /\ Len(data) >= 1 /\ data[Len(data)] \in DOMAIN new
         /\ BytesOK(SubSeq(data, 1, Len(data) - 1), RevisionOf(c), new)
<1>1. PICK rev : rev = RevisionOf(c)
  OBVIOUS
<1>2. BytesOK(data, rev, new) /\ data # <<>>
  <2>1. CASE HeldHere(c)
    <3>1. c.held = <<c.held[1]>> /\ c.held[1] \in DOMAIN new
          /\ c.heldRev \in Nat /\ c.heldRev <= new[c.held[1]]
      BY <2>1 DEF HeldHere, HeldOK
    <3>2. rev = c.heldRev /\ data = <<c.held[1]>> \o head
      BY <1>1, <2>1, <3>1 DEF RevisionOf, Joined
    <3>3. PICK h : h = c.held[1]
      OBVIOUS
    <3>4. new[h] \in Nat /\ new[h] <= c.layout /\ rev <= c.layout
      BY <3>1, <3>2, <3>3
    <3>5. data \in Seq(DOMAIN new) /\ Len(data) = Len(head) + 1 /\ Len(head) \in Nat
      BY <3>1, <3>2
    <3>6. \A i \in DOMAIN data : data[i] = h \/ \E j \in DOMAIN head : data[i] = head[j]
      <4>1. <<h>> \in Seq(DOMAIN new) /\ data = <<h>> \o head
        BY <3>1, <3>2, <3>3
      <4>2. ASSUME NEW i \in DOMAIN data, i # 1
            PROVE  i - 1 \in DOMAIN head /\ data[i] = head[i - 1]
        BY <3>5, <4>1, <4>2
      <4>3. data[1] = h
        BY <3>5, <4>1
      <4> QED
        BY <4>2, <4>3
    <3>7. ASSUME NEW i \in DOMAIN data PROVE rev <= new[data[i]]
      <4>1. CASE data[i] = h
        BY <3>1, <3>2, <3>3, <4>1
      <4>2. CASE \E j \in DOMAIN head : data[i] = head[j]
        BY <3>4, <4>2
      <4> QED
        BY <3>6, <4>1, <4>2
    <3>8. data # <<>> /\ rev \in Nat
      BY <3>1, <3>2, <3>5
    <3> QED
      BY <3>5, <3>7, <3>8 DEF BytesOK
  <2>2. CASE ~ HeldHere(c)
    <3>1. rev = c.layout /\ data = head
      BY <1>1, <2>2 DEF RevisionOf, Joined
    <3> QED
      BY <3>1 DEF BytesOK
  <2> QED
    BY <2>1, <2>2
<1>3. PICK last : last = Len(data)
  OBVIOUS
<1>4. data \in Seq(DOMAIN new)
  BY <1>2 DEF BytesOK
<1>5. last \in Nat /\ last >= 1 /\ data[last] \in DOMAIN new /\ DOMAIN data = 1 .. last
  BY <1>2, <1>3, <1>4
<1>6. PICK front : front = SubSeq(data, 1, last - 1)
  OBVIOUS
<1>7. front \in Seq(DOMAIN new) /\ DOMAIN front = 1 .. last - 1 /\ \A i \in 1 .. last - 1 : front[i] = data[i]
  BY <1>3, <1>4, <1>5, <1>6
<1>8. BytesOK(front, rev, new)
  BY <1>2, <1>5, <1>7 DEF BytesOK
<1> QED
  BY <1>1, <1>2, <1>3, <1>5, <1>6, <1>8

LEMMA handleReadInv == IInv /\ handleRead => IInv'
<1> SUFFICES ASSUME IInv, handleRead PROVE IInv'
  OBVIOUS
<1>1. reads # <<>> /\ reads' = Tail(reads) /\ UNCHANGED <<read, toClient, server>>
  BY DEF handleRead
<1>2. PICK new : new = shown \o [i \in DOMAIN Head(reads) |-> client.layout]
  OBVIOUS
<1>3. shown' = new
  BY <1>2 DEF handleRead
<1>4. client.layout \in Nat /\ shown \in Seq(Nat) /\ client.layout <= server.layout
      /\ (\A p \in DOMAIN shown : shown[p] <= client.layout) /\ HeldOK(client, shown)
  BY DEF IInv, ClientOK
<1>5. PICK head : head = Head(reads)
  OBVIOUS
<1>6. /\ new \in Seq(Nat) /\ DOMAIN shown \subseteq DOMAIN new
      /\ \A p \in DOMAIN shown : new[p] = shown[p]
      /\ head \in Seq(DOMAIN new) /\ head # <<>>
      /\ \A i \in DOMAIN head : new[head[i]] = client.layout
      /\ \A p \in DOMAIN new : p \in DOMAIN shown \/ new[p] = client.layout
      /\ ReadsOK(Tail(reads), new, read)
  <2>1. ReadsOK(reads, shown, read)
    BY DEF IInv
  <2>2. /\ new \in Seq(Nat) /\ DOMAIN shown \subseteq DOMAIN new
        /\ \A p \in DOMAIN shown : new[p] = shown[p]
        /\ Head(reads) \in Seq(DOMAIN new) /\ Head(reads) # <<>>
        /\ \A i \in DOMAIN Head(reads) : new[Head(reads)[i]] = client.layout
        /\ \A p \in DOMAIN new : p \in DOMAIN shown \/ new[p] = client.layout
        /\ ReadsOK(Tail(reads), new, read)
    <3>1. PICK layout : layout = client.layout
      OBVIOUS
    <3>2. layout \in Nat /\ new = WithShown(shown, reads, layout)
      BY <1>2, <1>4, <3>1 DEF WithShown
    <3>3. Taken(reads, shown, read, layout, WithShown(shown, reads, layout))
      <4>1. reads # <<>> /\ shown \in Seq(Nat) /\ layout \in Nat
        BY <1>1, <1>4, <3>2
      <4> QED
        BY <2>1, <4>1, HeadIsNext
    <3>4. Taken(reads, shown, read, client.layout, new)
      BY <3>1, <3>2, <3>3
    <3> QED
      BY <3>4 DEF Taken
  <2> QED
    BY <1>5, <2>2, Zenon
<1>7. server.layout \in Nat
  BY DEF IInv, Served
<1>8. \A p \in DOMAIN new : new[p] \in Nat /\ new[p] <= client.layout /\ new[p] <= server.layout
  <2>1. ASSUME NEW p \in DOMAIN new PROVE new[p] <= client.layout
    <3>1. CASE p \in DOMAIN shown
      <4>1. shown[p] <= client.layout
        BY <1>4, <3>1
      <4>2. new[p] = shown[p]
        BY <1>6, <3>1, Zenon
      <4> QED
        BY <4>1, <4>2
    <3>2. CASE p \notin DOMAIN shown
      <4>1. new[p] = client.layout
        BY <1>6, <3>2, Zenon
      <4> QED
        BY <1>4, <4>1
    <3> QED
      BY <3>1, <3>2
  <2>2. ASSUME NEW p \in DOMAIN new PROVE new[p] \in Nat
    BY <1>6
  <2> QED
    BY <1>4, <1>7, <2>1, <2>2
<1>9. Served(server, new, server.layout) /\ Frames(toServer, server, new)
  BY <1>6, <1>8, MoreIsShown DEF IInv
<1>10. HeldOK(client, new)
  BY <1>4, <1>6 DEF HeldOK
<1>11. ClientOK(client, server, new)
  BY <1>6, <1>8, <1>10, MoreIsShown DEF IInv, ClientOK
<1>12. PICK data : data = Joined(client, head)
  OBVIOUS
<1>13. PICK rev : rev = RevisionOf(client)
  OBVIOUS
<1>14. PICK last : last = Len(data)
  OBVIOUS
<1>15. BytesOK(data, rev, new) /\ last \in Nat /\ last >= 1 /\ data[last] \in DOMAIN new
       /\ BytesOK(SubSeq(data, 1, last - 1), rev, new)
  BY <1>4, <1>6, <1>8, <1>10, <1>12, <1>13, <1>14, JoinedOK
<1>16. rev \in Nat /\ rev <= new[data[last]]
  BY <1>14, <1>15 DEF BytesOK
<1>17. DraftOK(client, server, toClient, toServer)
  BY DEF IInv
<1>18. PICK free : free = Unheld(client)
  OBVIOUS
<1>19. ClientOK(free, server, new) /\ free.conn = client.conn /\ free.layout = client.layout
       /\ DraftOK(free, server, toClient, toServer)
  BY <1>11, <1>17, <1>18, UnheldOK, SameDraft
<1>22. Forward(data, rev)
  BY <1>5, <1>12, <1>13 DEF handleRead
<1>20. /\ ClientOK(client', server, new) /\ Frames(toServer', server, new)
       /\ DraftOK(client', server, toClient, toServer')
       /\ client'.conn = client.conn /\ client'.layout = client.layout
       /\ client.conn = None => toServer' = toServer
  <2>1. CASE ~Connected
    <3>1. client' = free /\ toServer' = toServer
      BY <1>18, <1>22, <2>1 DEF Forward
    <3> QED
      BY <1>9, <1>19, <3>1
  <2>2. CASE Connected /\ typed[data[last]] # "esc"
    <3>1. SendBytes(free, FALSE, data, rev)
      BY <1>14, <1>18, <1>22, <2>2 DEF Forward
    <3>2. free.conn # None /\ client.conn # None
      BY <1>19, <2>2 DEF Connected
    <3> QED
      BY <1>9, <1>15, <1>19, <3>1, <3>2, SendBytesOK
  <2>3. CASE Connected /\ typed[data[last]] = "esc"
    <3>1. PICK kept : kept = WithHeld(client, <<data[last]>>, client.conn, rev)
      OBVIOUS
    <3>2. PICK held : held = <<data[last]>>
      OBVIOUS
    <3>3. held[1] = data[last] /\ client.conn # None
      BY <2>3, <3>2 DEF Connected
    <3>4. kept = WithHeld(client, held, client.conn, rev)
      BY <3>1, <3>2
    <3>5. held = <<held[1]>> /\ held[1] \in DOMAIN new /\ rev <= new[held[1]]
      BY <1>15, <1>16, <3>2, <3>3
    <3>6. /\ ClientOK(kept, server, new)
          /\ kept.conn = client.conn /\ kept.layout = client.layout /\ kept.draft = client.draft
          /\ kept.active = client.active /\ kept.due = client.due
      BY <1>11, <1>16, <3>3, <3>4, <3>5, HoldOK
    <3>7. DraftOK(kept, server, toClient, toServer)
      BY <1>17, <3>6, SameDraft
    <3>8. CASE last = 1
      <4>1. client' = kept /\ toServer' = toServer
        BY <1>14, <1>22, <2>3, <3>1, <3>8 DEF Forward, WithHeld, Hold
      <4> QED
        BY <1>9, <3>6, <3>7, <4>1
    <3>9. CASE last # 1
      <4>1. last > 1
        BY <1>15, <3>9
      <4>2. SendBytes(kept, FALSE, SubSeq(data, 1, last - 1), rev)
        <5>1. kept = Hold(client, data[last], rev)
          BY <3>1 DEF Hold, WithHeld
        <5>2. ~ (last = 1)
          BY <3>9
        <5> QED
          BY <1>14, <1>22, <2>3, <5>1, <5>2, <4>1 DEF Forward
      <4>3. kept.conn # None
        BY <3>3, <3>6
      <4> QED
        BY <1>9, <1>15, <3>3, <3>6, <3>7, <4>2, <4>3, SendBytesOK
    <3> QED
      BY <3>8, <3>9
  <2> QED
    BY <2>1, <2>2, <2>3
<1>21. ClosedOK(client', server, toClient, toServer')
  BY <1>20 DEF IInv, ClosedOK
<1> QED
  BY <1>1, <1>3, <1>6, <1>9, <1>20, <1>21 DEF IInv

LEMMA flushPendingEscapeInv == IInv /\ flushPendingEscape => IInv'
<1> SUFFICES ASSUME IInv, flushPendingEscape PROVE IInv'
  OBVIOUS
<1>1. client.held # <<>> /\ UNCHANGED <<read, reads, toClient, server, shown>>
  BY DEF flushPendingEscape
<1>2. PICK free : free = Unheld(client)
  OBVIOUS
<1>3. /\ ClientOK(client, server, shown) /\ Served(server, shown, server.layout)
      /\ Frames(toServer, server, shown) /\ DraftOK(client, server, toClient, toServer)
  BY DEF IInv
<1>4. ClientOK(free, server, shown) /\ free.conn = client.conn /\ free.layout = client.layout
      /\ DraftOK(free, server, toClient, toServer)
  BY <1>2, <1>3, UnheldOK, SameDraft
<1>5. /\ ClientOK(client', server, shown) /\ Frames(toServer', server, shown)
      /\ DraftOK(client', server, toClient, toServer')
      /\ client'.conn = client.conn /\ client'.layout = client.layout
      /\ client.conn = None => toServer' = toServer
  <2>1. CASE HeldHere(client)
    <3>1. SendBytes(free, TRUE, client.held, client.heldRev)
      BY <1>2, <2>1 DEF flushPendingEscape
    <3>2. PICK h : h = client.held[1]
      OBVIOUS
    <3>3. client.held = <<h>> /\ h \in DOMAIN shown /\ client.heldRev \in Nat
          /\ client.heldRev <= shown[h] /\ client.heldConn # None
      BY <1>1, <1>3, <3>2 DEF ClientOK, HeldOK
    <3>4. BytesOK(client.held, client.heldRev, shown)
      BY <3>3 DEF BytesOK
    <3>5. free.conn # None /\ client.conn # None
      BY <1>4, <2>1, <3>3 DEF HeldHere
    <3> QED
      BY <1>3, <1>4, <3>1, <3>4, <3>5, SendBytesOK
  <2>2. CASE ~ HeldHere(client)
    <3>1. client' = free /\ toServer' = toServer
      BY <1>2, <2>2 DEF flushPendingEscape
    <3> QED
      BY <1>3, <1>4, <3>1
  <2> QED
    BY <2>1, <2>2
<1>6. ClosedOK(client', server, toClient, toServer')
  BY <1>5 DEF IInv, ClosedOK
<1> QED
  BY <1>1, <1>3, <1>5, <1>6 DEF IInv

\* What the client has yet to hear, when it has heard the first of it.
LEMMA TailOfSaid ==
  ASSUME NEW s, NEW lo, NEW ms, ms # <<>>, SaidBy(s, ms, lo), NEW rest, rest = Tail(ms)
  PROVE  /\ ms[1] \in Messages
         /\ ms[1].kind = "layout" =>
              /\ lo <= ms[1].rev /\ ms[1].rev <= s.layout
              /\ SaidBy(s, rest, ms[1].rev)
         /\ ms[1].kind = "status" =>
              /\ ms[1].prompt = None \/ Known(s, ms[1].prompt, ms[1].opened)
              /\ SaidBy(s, rest, lo)
         /\ EndedByStatus(ms) =>
              \/ ms[1].kind = "status" /\ ms[1].prompt = None
              \/ ms[1].kind # "status" /\ EndedByStatus(rest)
<1>1. ms \in Seq(Messages)
  BY DEF SaidBy
<1>2. /\ rest \in Seq(Messages) /\ Len(ms) \in Nat /\ Len(ms) >= 1 /\ DOMAIN ms = 1 .. Len(ms)
      /\ DOMAIN rest = 1 .. Len(ms) - 1
      /\ \A i \in DOMAIN rest : rest[i] = ms[i + 1] /\ i + 1 \in DOMAIN ms /\ 1 < i + 1
      /\ 1 \in DOMAIN ms
  BY <1>1
<1>3. ms[1] \in Messages
  BY <1>1, <1>2
<1>4. ASSUME NEW low, \A i \in DOMAIN rest : rest[i].kind = "layout" => low <= rest[i].rev
      PROVE  SaidBy(s, rest, low)
  <2>1. ASSUME NEW i \in DOMAIN rest
        PROVE  /\ rest[i].kind = "layout" => low <= rest[i].rev /\ rest[i].rev <= s.layout
               /\ rest[i].kind = "status" =>
                    rest[i].prompt = None \/ Known(s, rest[i].prompt, rest[i].opened)
    BY <1>2, <1>4 DEF SaidBy
  <2>2. ASSUME NEW i \in DOMAIN rest, NEW j \in DOMAIN rest, i < j,
               rest[i].kind = "layout", rest[j].kind = "layout"
        PROVE  rest[i].rev <= rest[j].rev
    <3>1. i + 1 \in DOMAIN ms /\ j + 1 \in DOMAIN ms /\ i + 1 < j + 1
          /\ rest[i] = ms[i + 1] /\ rest[j] = ms[j + 1]
      BY <1>2, <2>2
    <3> QED
      BY <2>2, <3>1 DEF SaidBy
  <2> QED
    BY <1>2, <2>1, <2>2 DEF SaidBy
<1>5. ms[1].kind = "layout" =>
        /\ lo <= ms[1].rev /\ ms[1].rev <= s.layout
        /\ SaidBy(s, rest, ms[1].rev)
  <2> SUFFICES ASSUME ms[1].kind = "layout"
               PROVE  lo <= ms[1].rev /\ ms[1].rev <= s.layout /\ SaidBy(s, rest, ms[1].rev)
    OBVIOUS
  <2>1. lo <= ms[1].rev /\ ms[1].rev <= s.layout
    BY <1>2 DEF SaidBy
  <2>2. \A i \in DOMAIN rest : rest[i].kind = "layout" => ms[1].rev <= rest[i].rev
    BY <1>2 DEF SaidBy
  <2> QED
    BY <1>4, <2>1, <2>2
<1>6. ms[1].kind = "status" =>
        /\ ms[1].prompt = None \/ Known(s, ms[1].prompt, ms[1].opened)
        /\ SaidBy(s, rest, lo)
  <2>1. \A i \in DOMAIN rest : rest[i].kind = "layout" => lo <= rest[i].rev
    BY <1>2 DEF SaidBy
  <2> QED
    BY <1>2, <1>4, <2>1 DEF SaidBy
<1>7. ASSUME EndedByStatus(ms)
      PROVE  \/ ms[1].kind = "status" /\ ms[1].prompt = None
             \/ ms[1].kind # "status" /\ EndedByStatus(rest)
  <2>1. PICK k \in DOMAIN ms : /\ ms[k].kind = "status" /\ ms[k].prompt = None
                               /\ \A j \in DOMAIN ms : j < k => ms[j].kind # "status"
    BY <1>7 DEF EndedByStatus
  <2>2. CASE k = 1
    BY <2>1, <2>2
  <2>3. CASE k # 1
    <3>1. PICK l : l = k - 1
      OBVIOUS
    <3>2. l \in DOMAIN rest /\ k = l + 1 /\ 1 < k
      BY <1>2, <2>3, <3>1
    <3>3. rest[l] = ms[k] /\ ms[1].kind # "status"
      BY <1>2, <2>1, <3>2
    <3>4. ASSUME NEW j \in DOMAIN rest, j < l PROVE rest[j].kind # "status"
      <4>1. j + 1 \in DOMAIN ms /\ j + 1 < k /\ rest[j] = ms[j + 1]
        BY <1>2, <3>2, <3>4
      <4> QED
        BY <2>1, <4>1
    <3> QED
      BY <2>1, <3>2, <3>3, <3>4 DEF EndedByStatus
  <2> QED
    BY <2>2, <2>3
<1> QED
  BY <1>3, <1>5, <1>6, <1>7

LEMMA receiveControlInv == IInv /\ receiveControl => IInv'
<1> SUFFICES ASSUME IInv, receiveControl PROVE IInv'
  OBVIOUS
<1>1. /\ client.due = <<>> /\ toClient # <<>> /\ toClient' = Tail(toClient)
      /\ UNCHANGED <<read, reads, toServer, server, shown>>
  BY DEF receiveControl
<1>2. PICK m : m = toClient[1]
  OBVIOUS
<1>3. PICK rest : rest = Tail(toClient)
  OBVIOUS
<1>4. SaidBy(server, toClient, client.layout)
  BY DEF IInv
<1>5. m \in Messages
  BY <1>1, <1>2, <1>3, <1>4, TailOfSaid
<1>6. m.kind = "layout" => /\ client.layout <= m.rev /\ m.rev <= server.layout
                           /\ SaidBy(server, rest, m.rev)
  BY <1>1, <1>2, <1>3, <1>4, TailOfSaid
<1>7. m.kind = "status" => /\ m.prompt = None \/ Known(server, m.prompt, m.opened)
                           /\ SaidBy(server, rest, client.layout)
  BY <1>1, <1>2, <1>3, <1>4, TailOfSaid
<1>8. EndedByStatus(toClient) => \/ m.kind = "status" /\ m.prompt = None
                                 \/ m.kind # "status" /\ EndedByStatus(rest)
  BY <1>1, <1>2, <1>3, <1>4, TailOfSaid
<1>9. Head(toClient) = m
  BY <1>1, <1>2, <1>4 DEF SaidBy
<1>10. client.conn # None
  BY <1>1 DEF IInv, ClosedOK
<1>11. ClientOK(client, server, shown) /\ DraftOK(client, server, toClient, toServer)
  BY DEF IInv
<1>12. ClientOK(client', server, shown) /\ SaidBy(server, rest, client'.layout)
       /\ DraftOK(client', server, rest, toServer) /\ client'.conn = client.conn
  <2>1. CASE m.kind = "layout"
    <3>1. PICK c : c = [client EXCEPT !.layout = m.rev]
      OBVIOUS
    <3>2. client' = c
      BY <1>9, <2>1, <3>1 DEF receiveControl
    <3>3. m.rev \in Nat
      BY <1>5, <2>1 DEF Messages
    <3>4. /\ c.conn = client.conn /\ c.held = client.held /\ c.heldConn = client.heldConn
          /\ c.heldRev = client.heldRev /\ c.layout = m.rev /\ c.draft = client.draft
          /\ c.active = client.active /\ c.due = client.due
          /\ c = [conn |-> c.conn, held |-> c.held, heldConn |-> c.heldConn, heldRev |-> c.heldRev,
                  layout |-> c.layout, draft |-> c.draft, active |-> c.active, due |-> c.due]
      BY <1>11, <3>1 DEF ClientOK
    <3>5. \A p \in DOMAIN shown : shown[p] <= m.rev
      <4>1. ASSUME NEW p \in DOMAIN shown PROVE shown[p] <= m.rev
        <5>1. shown[p] \in Nat /\ shown[p] <= client.layout /\ client.layout \in Nat
          BY <1>11 DEF ClientOK
        <5> QED
          BY <1>6, <2>1, <3>3, <5>1
      <4> QED
        BY <4>1
    <3>6. ClientOK(c, server, shown)
      BY <1>6, <1>11, <2>1, <3>3, <3>4, <3>5 DEF ClientOK, HeldOK
    <3>7. DraftOK(c, server, rest, toServer)
      BY <1>8, <1>11, <2>1, <3>4 DEF DraftOK, Stale
    <3> QED
      BY <1>6, <2>1, <3>2, <3>4, <3>6, <3>7
  <2>2. CASE m.kind # "layout"
    <3>1. m.kind = "status" /\ m.prompt \in Nat
      BY <1>5, <2>2 DEF Messages
    <3>2. PICK d : d = acceptStatus(client.draft, m)
      OBVIOUS
    <3>3. PICK a : a = [client EXCEPT !.draft = d]
      OBVIOUS
    <3>4. PICK b : b = [a EXCEPT !.due = <<m.prompt # None>>]
      OBVIOUS
    <3>5. client' = b
      <4>1. client' = [client EXCEPT !.draft = acceptStatus(client.draft, m), !.due = <<m.prompt # None>>]
        BY <1>9, <2>2 DEF receiveControl
      <4>2. [client EXCEPT !.draft = d, !.due = <<m.prompt # None>>]
              = [[client EXCEPT !.draft = d] EXCEPT !.due = <<m.prompt # None>>]
        OBVIOUS
      <4> QED
        BY <3>2, <3>3, <3>4, <4>1, <4>2
    <3>6. /\ a.conn = client.conn /\ a.held = client.held /\ a.heldConn = client.heldConn
          /\ a.heldRev = client.heldRev /\ a.layout = client.layout /\ a.draft = d
          /\ a = [conn |-> a.conn, held |-> a.held, heldConn |-> a.heldConn, heldRev |-> a.heldRev,
                  layout |-> a.layout, draft |-> a.draft, active |-> a.active, due |-> a.due]
      BY <1>11, <3>3 DEF ClientOK
    <3>7. /\ b.conn = client.conn /\ b.held = client.held /\ b.heldConn = client.heldConn
          /\ b.heldRev = client.heldRev /\ b.layout = client.layout /\ b.draft = d
          /\ b = [conn |-> b.conn, held |-> b.held, heldConn |-> b.heldConn, heldRev |-> b.heldRev,
                  layout |-> b.layout, draft |-> b.draft, active |-> b.active, due |-> b.due]
      BY <3>4, <3>6
    <3>8. (d # NoDraft => IsDraft(d, shown) /\ d.result = <<>>)
          /\ (d # NoDraft => Known(server, d.id, d.opened))
      <4>1. CASE m.prompt = None
        BY <3>2, <4>1 DEF acceptStatus
      <4>2. CASE m.prompt # None /\ client.draft.id # m.prompt
        <5>1. d = newClientPromptDraft(m)
          BY <3>2, <4>2 DEF acceptStatus
        <5>2. d.id = m.prompt /\ d.opened = m.opened /\ d.parser = Ground /\ d.result = <<>>
          BY <5>1 DEF newClientPromptDraft
        <5>3. d = [id |-> d.id, mode |-> d.mode, opened |-> d.opened, text |-> d.text,
                   cursor |-> d.cursor, resolved |-> d.resolved, parser |-> d.parser, result |-> d.result]
          BY <5>1 DEF newClientPromptDraft
        <5>4. Ground \in ParsersOf(shown)
          BY DEF Ground, ParsersOf
        <5> QED
          BY <1>7, <3>1, <4>2, <5>2, <5>3, <5>4 DEF IsDraft
      <4>3. CASE m.prompt # None /\ client.draft.id = m.prompt
        <5>1. d = client.draft
          BY <3>2, <4>3 DEF acceptStatus
        <5>2. client.draft # NoDraft
          BY <4>3 DEF NoDraft
        <5>3. ~ Stale(client, server, toClient, toServer)
          BY <1>8, <3>1, <4>3 DEF Stale
        <5> QED
          BY <1>10, <1>11, <5>1, <5>2, <5>3 DEF ClientOK, DraftOK
      <4> QED
        BY <4>1, <4>2, <4>3
    <3>9. ClientOK(b, server, shown)
      BY <1>11, <3>7, <3>8 DEF ClientOK, HeldOK
    <3>10. DraftOK(b, server, rest, toServer)
      BY <3>7, <3>8 DEF DraftOK
    <3> QED
      BY <1>7, <3>1, <3>5, <3>7, <3>9, <3>10
  <2> QED
    BY <2>1, <2>2
<1>13. ClosedOK(client', server, rest, toServer)
  BY <1>10, <1>12 DEF ClosedOK
<1> QED
  BY <1>1, <1>3, <1>12, <1>13 DEF IInv

LEMMA updatePromptInputStatusInv == IInv /\ updatePromptInputStatus => IInv'
<1> SUFFICES ASSUME IInv, updatePromptInputStatus PROVE IInv'
  OBVIOUS
<1>1. client.due # <<>> /\ UNCHANGED <<read, reads, toServer, toClient, server, shown>>
  BY DEF updatePromptInputStatus
<1>2. PICK a : a = [client EXCEPT !.active = Head(client.due)]
  OBVIOUS
<1>3. PICK b : b = [a EXCEPT !.due = <<>>]
  OBVIOUS
<1>4. client' = b
  <2>1. client' = [client EXCEPT !.active = Head(client.due), !.due = <<>>]
    BY DEF updatePromptInputStatus
  <2>2. [client EXCEPT !.active = Head(client.due), !.due = <<>>]
          = [[client EXCEPT !.active = Head(client.due)] EXCEPT !.due = <<>>]
    OBVIOUS
  <2> QED
    BY <1>2, <1>3, <2>1, <2>2
<1>5. ClientOK(client, server, shown) /\ DraftOK(client, server, toClient, toServer)
  BY DEF IInv
<1>6. /\ a.conn = client.conn /\ a.held = client.held /\ a.heldConn = client.heldConn
      /\ a.heldRev = client.heldRev /\ a.layout = client.layout /\ a.draft = client.draft
      /\ a = [conn |-> a.conn, held |-> a.held, heldConn |-> a.heldConn, heldRev |-> a.heldRev,
              layout |-> a.layout, draft |-> a.draft, active |-> a.active, due |-> a.due]
  BY <1>2, <1>5 DEF ClientOK
<1>7. /\ b.conn = client.conn /\ b.held = client.held /\ b.heldConn = client.heldConn
      /\ b.heldRev = client.heldRev /\ b.layout = client.layout /\ b.draft = client.draft
      /\ b = [conn |-> b.conn, held |-> b.held, heldConn |-> b.heldConn, heldRev |-> b.heldRev,
              layout |-> b.layout, draft |-> b.draft, active |-> b.active, due |-> b.due]
  BY <1>3, <1>6
<1>8. ClientOK(b, server, shown)
  BY <1>5, <1>7 DEF ClientOK, HeldOK
<1>9. DraftOK(b, server, toClient, toServer)
  BY <1>1, <1>5, <1>7 DEF DraftOK, Stale
<1>10. ClosedOK(b, server, toClient, toServer)
  BY <1>7 DEF IInv, ClosedOK
<1> QED
  BY <1>1, <1>4, <1>7, <1>8, <1>9, <1>10 DEF IInv

\* What the server has said before comes before what it says now.
LEMMA SaidTogether ==
  ASSUME NEW s, NEW lo \in Nat, NEW mid \in Nat, lo <= mid, Counts(s),
         NEW old, SaidBy(s, old, lo), \A i \in DOMAIN old : old[i].kind = "layout" => old[i].rev <= mid,
         NEW more, SaidBy(s, more, mid), NEW all, all = old \o more
  PROVE  /\ SaidBy(s, all, lo)
         /\ EndedByStatus(old) => EndedByStatus(all)
<1>1. old \in Seq(Messages) /\ more \in Seq(Messages)
  BY DEF SaidBy
<1>2. PICK n : n = Len(old)
  OBVIOUS
<1>3. PICK m : m = Len(more)
  OBVIOUS
<1>4. /\ all \in Seq(Messages) /\ n \in Nat /\ m \in Nat
      /\ DOMAIN all = 1 .. n + m /\ DOMAIN old = 1 .. n /\ DOMAIN more = 1 .. m
  BY <1>1, <1>2, <1>3
<1>5. \A i \in 1 .. n : all[i] = old[i]
  BY <1>1, <1>2
<1>6. \A i \in 1 .. m : all[n + i] = more[i]
  BY <1>1, <1>2, <1>3
<1>7. ASSUME NEW i \in DOMAIN all
      PROVE  (i \in DOMAIN old /\ all[i] = old[i])
             \/ (n < i /\ i - n \in DOMAIN more /\ all[i] = more[i - n])
  <2>1. CASE i <= n
    BY <1>4, <1>5, <2>1
  <2>2. CASE n < i
    <3>1. i - n \in 1 .. m /\ i = n + (i - n)
      BY <1>4, <2>2
    <3> QED
      BY <1>4, <1>6, <2>2, <3>1
  <2>3. i <= n \/ n < i
    BY <1>4
  <2> QED
    BY <2>1, <2>2, <2>3
<1>8. ASSUME NEW i \in DOMAIN all
      PROVE  /\ all[i].kind = "layout" => lo <= all[i].rev /\ all[i].rev <= s.layout
             /\ all[i].kind = "status" =>
                  all[i].prompt = None \/ Known(s, all[i].prompt, all[i].opened)
  <2>1. CASE i \in DOMAIN old /\ all[i] = old[i]
    BY <2>1 DEF SaidBy
  <2>2. CASE i - n \in DOMAIN more /\ all[i] = more[i - n]
    <3>1. all[i] \in Messages
      BY <1>1, <2>2
    <3>2. all[i].kind = "layout" => all[i].rev \in Nat
      BY <3>1 DEF Messages
    <3>3. PICK x : x = all[i]
      OBVIOUS
    <3>4. /\ x.kind = "layout" => mid <= x.rev /\ x.rev <= s.layout
          /\ x.kind = "status" => x.prompt = None \/ Known(s, x.prompt, x.opened)
      BY <2>2, <3>3 DEF SaidBy
    <3> QED
      BY <3>2, <3>3, <3>4
  <2> QED
    BY <1>7, <2>1, <2>2
<1>9. ASSUME NEW i \in DOMAIN all, NEW j \in DOMAIN all, i < j,
             all[i].kind = "layout", all[j].kind = "layout"
      PROVE  all[i].rev <= all[j].rev
  <2>1. CASE j \in DOMAIN old /\ all[j] = old[j]
    <3>1. i \in DOMAIN old /\ all[i] = old[i]
      BY <1>4, <1>7, <1>9, <2>1
    <3> QED
      BY <1>9, <2>1, <3>1 DEF SaidBy
  <2>2. CASE n < j /\ j - n \in DOMAIN more /\ all[j] = more[j - n]
    <3>1. PICK y : y = all[j]
      OBVIOUS
    <3>2. mid <= y.rev
      BY <1>9, <2>2, <3>1 DEF SaidBy
    <3>3. y \in Messages
      BY <1>1, <2>2, <3>1
    <3>4. y.rev \in Nat
      BY <1>9, <3>1, <3>3 DEF Messages
    <3>5. CASE i \in DOMAIN old /\ all[i] = old[i]
      <4>1. PICK x : x = all[i]
        OBVIOUS
      <4>2. x.rev <= mid /\ x \in Messages
        BY <1>1, <1>9, <3>5, <4>1
      <4>3. x.rev \in Nat
        BY <1>9, <4>1, <4>2 DEF Messages
      <4>4. PICK a : a = x.rev
        OBVIOUS
      <4>5. PICK b : b = y.rev
        OBVIOUS
      <4>6. a <= b
        BY <3>2, <3>4, <4>2, <4>3, <4>4, <4>5
      <4> QED
        BY <3>1, <4>1, <4>4, <4>5, <4>6
    <3>6. CASE n < i /\ i - n \in DOMAIN more /\ all[i] = more[i - n]
      <4>1. i - n < j - n
        BY <1>4, <1>9
      <4> QED
        BY <1>9, <2>2, <3>6, <4>1 DEF SaidBy
    <3> QED
      BY <1>7, <3>5, <3>6
  <2> QED
    BY <1>7, <2>1, <2>2
<1>10. ASSUME EndedByStatus(old) PROVE EndedByStatus(all)
  <2>1. PICK k \in DOMAIN old : /\ old[k].kind = "status" /\ old[k].prompt = None
                                /\ \A j \in DOMAIN old : j < k => old[j].kind # "status"
    BY <1>10 DEF EndedByStatus
  <2>2. k \in DOMAIN all /\ all[k] = old[k]
    BY <1>4, <1>5
  <2>3. ASSUME NEW j \in DOMAIN all, j < k PROVE all[j].kind # "status"
    <3>1. j \in DOMAIN old /\ all[j] = old[j]
      BY <1>4, <1>5, <2>3
    <3> QED
      BY <2>1, <2>3, <3>1
  <2> QED
    BY <2>1, <2>2, <2>3 DEF EndedByStatus
<1> QED
  BY <1>4, <1>8, <1>9, <1>10 DEF SaidBy

\* The connection is gone: what the client kept of it is all that is left.
LEMMA ConnectionLost ==
  ASSUME IInv, NEW t, Served(t, shown, t.layout), t.say = <<>>, t.next = 0, server.layout <= t.layout,
         server' = t, client' = [client EXCEPT !.conn = None], toServer' = <<>>, toClient' = <<>>,
         UNCHANGED <<read, reads, shown>>
  PROVE  IInv'
<1>1. PICK c : c = [client EXCEPT !.conn = None]
  OBVIOUS
<1>2. ClientOK(client, server, shown) /\ server.layout \in Nat
  BY DEF IInv, Served
<1>3. /\ c.conn = None /\ c.held = client.held /\ c.heldConn = client.heldConn
      /\ c.heldRev = client.heldRev /\ c.layout = client.layout /\ c.draft = client.draft
      /\ c.active = client.active /\ c.due = client.due
      /\ c = [conn |-> c.conn, held |-> c.held, heldConn |-> c.heldConn, heldRev |-> c.heldRev,
              layout |-> c.layout, draft |-> c.draft, active |-> c.active, due |-> c.due]
  BY <1>1, <1>2 DEF ClientOK
<1>4. c.layout <= t.layout
  BY <1>2, <1>3 DEF ClientOK, Served
<1>5. ClientOK(c, t, shown)
  BY <1>2, <1>3, <1>4 DEF ClientOK, HeldOK
<1>6. SaidBy(t, <<>>, c.layout) /\ Frames(<<>>, t, shown)
  BY DEF SaidBy, Frames, IsSequence
<1>7. DraftOK(c, t, <<>>, <<>>) /\ ClosedOK(c, t, <<>>, <<>>)
  BY <1>3 DEF DraftOK, ClosedOK
<1> QED
  BY <1>1, <1>5, <1>6, <1>7 DEF IInv

\* A handled frame, or a step of the server's own.
LEMMA CommitInv ==
  ASSUME IInv, client.conn # None, NEW s, Handled(server, s, shown, server.layout),
         NEW rest, Frames(rest, s, shown),
         NoInput(toServer) => NoInput(rest) /\ s.next = server.next,
         Commit(s, rest), UNCHANGED <<read, reads, shown>>
  PROVE  IInv'
<1>1. Served(s, shown, server.layout) /\ Later(server, s)
  BY DEF Handled
<1>2. Counts(server) /\ Counts(s)
  BY <1>1, ServedCounts DEF IInv
<1>3. CASE s.broken
  <2>1. PICK t : t = newClientInstance(s)
    OBVIOUS
  <2>2. /\ IsServer(t) /\ t.next = 0 /\ t.layout = s.layout
        /\ Served([t EXCEPT !.say = <<>>], shown, s.layout)
    BY <1>1, <2>1, NewInstanceIsServed
  <2>3. PICK u : u = [t EXCEPT !.say = <<>>]
    OBVIOUS
  <2>4. u.next = 0 /\ u.layout = s.layout /\ u.say = <<>>
    BY <2>2, <2>3 DEF IsServer
  <2>5. Served(u, shown, u.layout) /\ server.layout <= u.layout
    BY <1>1, <2>2, <2>3, <2>4 DEF Later
  <2>6. server' = u /\ client' = [client EXCEPT !.conn = None] /\ toServer' = <<>> /\ toClient' = <<>>
    BY <1>3, <2>1, <2>3 DEF Commit
  <2> QED
    BY <2>4, <2>5, <2>6, ConnectionLost
<1>4. CASE ~ s.broken
  <2>1. PICK t : t = [s EXCEPT !.say = <<>>]
    OBVIOUS
  <2>2. Served(t, shown, s.layout) /\ t.say = <<>>
    BY <1>1, <2>1, SaidIsServed
  <2>3. t.layout = s.layout /\ t.next = s.next /\ t.opened = s.opened
    BY <1>1, <2>1 DEF Served, IsServer
  <2>4. Frames(rest, t, shown)
    BY <2>3 DEF Frames, FrameOK, Known
  <2>5. Counts(t) /\ Later(server, t)
    BY <1>1, <1>2, <2>3 DEF Counts, Later
  <2>6. PICK lo : lo = client.layout
    OBVIOUS
  <2>7. PICK mid : mid = server.layout
    OBVIOUS
  <2>8. lo \in Nat /\ mid \in Nat /\ lo <= mid
    BY <1>2, <2>6, <2>7 DEF IInv, ClientOK, Counts
  <2>9. SaidBy(server, toClient, lo)
    BY <2>6 DEF IInv
  <2>10. SaidBy(t, toClient, lo)
    BY <1>2, <2>5, <2>8, <2>9, SaidLater
  <2>11. \A i \in DOMAIN toClient : toClient[i].kind = "layout" => toClient[i].rev <= mid
    BY <2>7, <2>9 DEF SaidBy
  <2>12. PICK more : more = s.say
    OBVIOUS
  <2>13. SaidBy(t, more, mid)
    <3>1. SaidBy(s, more, mid)
      BY <1>1, <2>7, <2>12 DEF Served
    <3> QED
      BY <2>3, <3>1 DEF SaidBy, Known
  <2>14. PICK all : all = toClient \o more
    OBVIOUS
  <2>15. SaidBy(t, all, lo) /\ (EndedByStatus(toClient) => EndedByStatus(all))
    BY <2>5, <2>8, <2>10, <2>11, <2>13, <2>14, SaidTogether
  <2>16. server' = t /\ toServer' = rest /\ toClient' = all /\ client' = client
    BY <1>4, <2>1, <2>12, <2>14 DEF Commit
  <2>17. ClientOK(client, t, shown)
    <3>1. ClientOK(client, server, shown)
      BY DEF IInv
    <3>2. client.layout <= t.layout
      BY <2>5, <2>6, <2>7, <2>8 DEF Later, Counts
    <3> QED
      BY <3>1, <3>2 DEF ClientOK
  <2>18. DraftOK(client, t, all, rest)
    <3> SUFFICES ASSUME client.draft # NoDraft
                 PROVE  Known(t, client.draft.id, client.draft.opened) \/ Stale(client, t, all, rest)
      BY DEF DraftOK
    <3>1. Known(server, client.draft.id, client.draft.opened)
          \/ Stale(client, server, toClient, toServer)
      BY DEF IInv, DraftOK
    <3>2. CASE Known(server, client.draft.id, client.draft.opened)
      BY <1>2, <2>5, <3>2, KnownLater
    <3>3. CASE Stale(client, server, toClient, toServer)
      BY <2>3, <2>15, <3>3 DEF Stale
    <3> QED
      BY <3>1, <3>2, <3>3
  <2>19. ClosedOK(client, t, all, rest)
    BY DEF ClosedOK
  <2> QED
    BY <2>2, <2>3, <2>4, <2>6, <2>15, <2>16, <2>17, <2>18, <2>19 DEF IInv
<1> QED
  BY <1>3, <1>4

LEMMA serveFrameInv == IInv /\ serveFrame => IInv'
<1> SUFFICES ASSUME IInv, serveFrame PROVE IInv'
  OBVIOUS
<1>1. client.conn # None /\ toServer # <<>> /\ UNCHANGED <<read, reads, shown>>
  BY DEF serveFrame, Connected
<1>2. Served(server, shown, server.layout) /\ Frames(toServer, server, shown)
  BY DEF IInv
<1>3. PICK f : f = toServer[1]
  OBVIOUS
<1>4. Head(toServer) = f /\ 1 \in DOMAIN toServer /\ FrameOK(toServer, 1, server, shown)
  BY <1>1, <1>2, <1>3 DEF Frames, IsSequence
<1>5. PICK s : s = handleControlFrame(server, f)
  OBVIOUS
<1>6. Handled(server, s, shown, server.layout) /\ (f.kind = "input" \/ s.next = server.next)
  <2>1. CASE f.kind = "input"
    <3>1. BytesOK(f.data, f.rev, shown)
      BY <1>3, <1>4, <2>1 DEF FrameOK
    <3>2. Handled(server, handleInputFrame(server, f), shown, server.layout)
      BY <1>2, <3>1, InputFrameIsHandled
    <3> QED
      BY <1>5, <2>1, <3>2 DEF handleControlFrame
  <2>2. CASE f.kind # "input"
    <3>1. Known(server, f.prompt, f.opened) \/ server.prompt = None
      <4>1. f.kind = "result"
        BY <1>3, <1>4, <2>2 DEF FrameOK
      <4>2. Known(server, f.prompt, f.opened) \/ server.next = 0
        BY <1>3, <1>4, <4>1 DEF FrameOK
      <4> QED
        BY <1>2, <4>2 DEF Served, None
    <3>2. Handled(server, resolvePrompt(server, f), shown, server.layout)
          /\ resolvePrompt(server, f).next = server.next
      BY <1>2, <3>1, ResultIsHandled
    <3> QED
      BY <1>5, <2>2, <3>2 DEF handleControlFrame
  <2> QED
    BY <2>1, <2>2
<1>7. PICK rest : rest = Tail(toServer)
  OBVIOUS
<1>8. Counts(server) /\ Counts(s) /\ Later(server, s)
  BY <1>2, <1>6, ServedCounts DEF Handled
<1>9. Frames(rest, s, shown)
  BY <1>1, <1>2, <1>3, <1>6, <1>7, <1>8, TailOfFrames
<1>10. NoInput(toServer) => NoInput(rest) /\ s.next = server.next
  <2> SUFFICES ASSUME NoInput(toServer) PROVE NoInput(rest) /\ s.next = server.next
    OBVIOUS
  <2>1. f.kind # "input"
    BY <1>3, <1>4 DEF NoInput
  <2>2. \A i \in DOMAIN rest : i + 1 \in DOMAIN toServer /\ rest[i] = toServer[i + 1]
    BY <1>1, <1>2, <1>7 DEF Frames, IsSequence
  <2> QED
    BY <1>6, <2>1, <2>2 DEF NoInput
<1>11. Commit(s, rest)
  BY <1>4, <1>5, <1>7 DEF serveFrame
<1> QED
  BY <1>1, <1>6, <1>9, <1>10, <1>11, CommitInv

LEMMA RepeatExpiresInv == IInv /\ RepeatExpires => IInv'
<1> SUFFICES ASSUME IInv, RepeatExpires PROVE IInv'
  OBVIOUS
<1>1. UNCHANGED <<read, reads, client, toServer, toClient, shown>>
  BY DEF RepeatExpires
<1>2. PICK s : s = server
  OBVIOUS
<1>3. PICK t : t = [s EXCEPT !.repeat = FALSE]
  OBVIOUS
<1>4. server' = t /\ Quiet(server, t)
  <2>1. IsServer(s)
    BY <1>2 DEF IInv, Served
  <2>2. Quiet(s, t)
    BY <1>3, <2>1, ExpiryIsQuiet
  <2>3. server' = t
    BY <1>2, <1>3 DEF RepeatExpires
  <2> QED
    BY <1>2, <2>2, <2>3
<1>5. Served(t, shown, server.layout)
  BY <1>4, QuietIsHandled DEF IInv, Handled
<1>6. t.layout = server.layout /\ t.next = server.next /\ t.opened = server.opened /\ t.say = server.say
  BY <1>4 DEF Quiet
<1>7. ClientOK(client, t, shown) /\ SaidBy(t, toClient, client.layout)
  BY <1>6 DEF IInv, ClientOK, SaidBy, Known
<1>8. Frames(toServer, t, shown)
  BY <1>6 DEF IInv, Frames, FrameOK, Known
<1>9. DraftOK(client, t, toClient, toServer) /\ ClosedOK(client, t, toClient, toServer)
  BY <1>6 DEF IInv, DraftOK, Stale, Known, ClosedOK
<1> QED
  BY <1>1, <1>4, <1>5, <1>6, <1>7, <1>8, <1>9 DEF IInv

LEMMA LayoutChangesInv == IInv /\ LayoutChanges => IInv'
<1> SUFFICES ASSUME IInv, LayoutChanges PROVE IInv'
  OBVIOUS
<1>1. client.conn # None /\ UNCHANGED <<read, reads, shown>>
  BY DEF LayoutChanges, Connected
<1>2. Served(server, shown, server.layout) /\ Frames(toServer, server, shown)
  BY DEF IInv
<1>3. PICK s : s = NewLayout(server)
  OBVIOUS
<1>4. Handled(server, s, shown, server.layout)
  BY <1>2, <1>3, NewLayoutIsHandled
<1>5. s.next = server.next
  <2>1. PICK g : g = [server EXCEPT !.layout = @ + 1]
    OBVIOUS
  <2>2. IsServer(g) /\ g.next = server.next
    BY <1>2, <2>1, UpdatedServer DEF Served, IsServer
  <2>3. s = Say(g, <<Layout(g)>>)
    BY <1>3, <2>1 DEF NewLayout
  <2> QED
    BY <2>2, <2>3 DEF Say, IsServer
<1>6. Frames(toServer, s, shown)
  BY <1>2, <1>4, <1>5, ServedCounts, FramesLater DEF Handled
<1>7. Commit(s, toServer)
  BY <1>3 DEF LayoutChanges
<1> QED
  BY <1>1, <1>4, <1>5, <1>6, <1>7, CommitInv

LEMMA SwitchSessionInv == IInv /\ SwitchSession => IInv'
<1> SUFFICES ASSUME IInv, SwitchSession PROVE IInv'
  OBVIOUS
<1>1. client.conn # None /\ UNCHANGED <<read, reads, shown>>
  BY DEF SwitchSession, Connected
<1>2. Served(server, shown, server.layout) /\ Frames(toServer, server, shown)
  BY DEF IInv
<1>3. PICK r : r = resetInputForSessionSwitch(server)
  OBVIOUS
<1>4. Handled(server, r, shown, server.layout) /\ r.next = server.next
  BY <1>2, <1>3, SwitchIsHandled
<1>5. PICK s : s = Announce(r)
  OBVIOUS
<1>6. Served(r, shown, server.layout)
  BY <1>4 DEF Handled
<1>7. Handled(r, s, shown, server.layout) /\ s.next = r.next
  BY <1>5, <1>6, AnnounceIsHandled
<1>8. Handled(server, s, shown, server.layout)
  BY <1>2, <1>4, <1>7, LaterTwice
<1>9. Frames(toServer, s, shown)
  BY <1>2, <1>4, <1>7, <1>8, ServedCounts, FramesLater DEF Handled
<1>10. Commit(s, toServer)
  BY <1>3, <1>5 DEF SwitchSession
<1> QED
  BY <1>1, <1>4, <1>7, <1>8, <1>9, <1>10, CommitInv

LEMMA DisconnectInv == IInv /\ Disconnect => IInv'
<1> SUFFICES ASSUME IInv, Disconnect PROVE IInv'
  OBVIOUS
<1>1. /\ client' = [client EXCEPT !.conn = None] /\ toServer' = <<>> /\ toClient' = <<>>
      /\ UNCHANGED <<read, reads, shown>>
  BY DEF Disconnect
<1>2. Served(server, shown, server.layout) /\ server.say = <<>>
  BY DEF IInv
<1>3. PICK t : t = newClientInstance(server)
  OBVIOUS
<1>4. /\ t.next = 0 /\ t.layout = server.layout /\ t.say = server.say
      /\ t.say = <<>> => Served(t, shown, server.layout)
  BY <1>2, <1>3, NewInstanceIsServed
<1>5. server' = t
  BY <1>3 DEF Disconnect
<1>6. server.layout <= t.layout
  BY <1>2, <1>4 DEF Served
<1> QED
  BY <1>1, <1>2, <1>4, <1>5, <1>6, ConnectionLost

LEMMA ReconnectInv == IInv /\ Reconnect => IInv'
<1> SUFFICES ASSUME IInv, Reconnect PROVE IInv'
  OBVIOUS
<1>1. client.conn = None /\ client.due = <<>> /\ UNCHANGED <<read, reads, toServer, shown>>
  BY DEF Reconnect, Connected
<1>2. Served(server, shown, server.layout) /\ server.say = <<>> /\ ClientOK(client, server, shown)
  BY DEF IInv
<1>3. toServer = <<>> /\ server.next = 0
  BY <1>1 DEF IInv, ClosedOK
<1>4. PICK s : s = Announce(server)
  OBVIOUS
<1>5. Handled(server, s, shown, server.layout)
  BY <1>2, <1>4, AnnounceIsHandled
<1>6. s.next = 0 /\ s.layout = server.layout + 1
  BY <1>2, <1>3, <1>4, AnnounceIsHandled
<1>7. PICK l, m \in Messages : /\ s.say = (server.say \o <<l>>) \o <<m>>
                               /\ l.kind = "layout" /\ m.kind = "status" /\ m.prompt = server.prompt
  <2>1. \E l, m \in Messages : /\ Announce(server).say = (server.say \o <<l>>) \o <<m>>
                               /\ l.kind = "layout" /\ l.rev = server.layout + 1
                               /\ m.kind = "status" /\ m.prompt = server.prompt
    BY <1>2, AnnounceIsHandled
  <2> QED
    BY <1>4, <2>1
<1>8. s.say = <<l, m>> /\ m.prompt = None
  <2>1. s.say = <<l, m>>
    <3>1. s.say = (<<>> \o <<l>>) \o <<m>>
      BY <1>2, <1>7
    <3>2. (<<>> \o <<l>>) \o <<m>> = <<l, m>>
      BY OneAndOne
    <3> QED
      BY <3>1, <3>2
  <2>2. server.prompt = None
    BY <1>2, <1>3 DEF Served, None
  <2> QED
    BY <1>7, <2>1, <2>2
<1>9. EndedByStatus(s.say)
  <2>1. DOMAIN s.say = 1 .. 2 /\ s.say[1] = l /\ s.say[2] = m
    BY <1>8
  <2>2. 2 \in DOMAIN s.say /\ \A j \in DOMAIN s.say : j < 2 => s.say[j].kind # "status"
    <3>1. \A j \in 1 .. 2 : j < 2 => j = 1
      OBVIOUS
    <3>2. s.say[1].kind # "status" /\ 2 \in 1 .. 2
      <4>1. l.kind # "status"
        BY <1>7
      <4>2. s.say[1] = l
        BY <2>1
      <4> QED
        BY <4>1, <4>2
    <3> QED
      BY <2>1, <3>1, <3>2
  <2> QED
    BY <1>7, <1>8, <2>1, <2>2 DEF EndedByStatus
<1>10. Served(s, shown, server.layout)
  BY <1>5 DEF Handled
<1>11. PICK t : t = [s EXCEPT !.say = <<>>]
  OBVIOUS
<1>12. Served(t, shown, s.layout) /\ t.say = <<>>
  BY <1>10, <1>11, SaidIsServed
<1>13. t.layout = s.layout /\ t.next = 0 /\ t.opened = s.opened /\ t.next = s.next
  BY <1>6, <1>10, <1>11 DEF Served, IsServer
<1>14. PICK c : c = [client EXCEPT !.conn = s.layout]
  OBVIOUS
<1>15. client' = c /\ toClient' = s.say /\ server' = t
  BY <1>4, <1>11, <1>14 DEF Reconnect
<1>16. /\ c.conn = s.layout /\ c.held = client.held /\ c.heldConn = client.heldConn
       /\ c.heldRev = client.heldRev /\ c.layout = client.layout /\ c.draft = client.draft
       /\ c.active = client.active /\ c.due = client.due
       /\ c = [conn |-> c.conn, held |-> c.held, heldConn |-> c.heldConn, heldRev |-> c.heldRev,
               layout |-> c.layout, draft |-> c.draft, active |-> c.active, due |-> c.due]
  BY <1>2, <1>14 DEF ClientOK
<1>17. server.layout \in Nat /\ client.layout \in Nat /\ client.layout <= server.layout
  BY <1>2 DEF Served, ClientOK
<1>18. ClientOK(c, t, shown)
  <2>1. c.layout \in Nat /\ c.layout <= t.layout
    BY <1>6, <1>13, <1>16, <1>17
  <2> QED
    BY <1>2, <1>16, <2>1 DEF ClientOK, HeldOK
<1>19. SaidBy(t, s.say, c.layout)
  <2>1. SaidBy(s, s.say, server.layout) /\ s.say \in Seq(Messages)
    BY <1>10 DEF Served, SaidBy
  <2>2. ASSUME NEW i \in DOMAIN s.say, s.say[i].kind = "layout" PROVE c.layout <= s.say[i].rev
    <3>1. PICK x : x = s.say[i]
      OBVIOUS
    <3>2. x \in Messages /\ x.kind = "layout" /\ server.layout <= x.rev
      BY <2>1, <2>2, <3>1 DEF SaidBy
    <3>3. x.rev \in Nat
      BY <3>2 DEF Messages
    <3> QED
      BY <1>16, <1>17, <3>1, <3>2, <3>3
  <2> QED
    BY <1>13, <2>1, <2>2 DEF SaidBy, Known
<1>20. Frames(toServer, t, shown) /\ NoInput(toServer)
  BY <1>3 DEF Frames, IsSequence, NoInput
<1>21. DraftOK(c, t, s.say, toServer)
  BY <1>1, <1>9, <1>13, <1>16, <1>20 DEF DraftOK, Stale
<1>22. ClosedOK(c, t, s.say, toServer)
  BY <1>6, <1>16, <1>17 DEF ClosedOK, None
<1>23. ReadsOK(reads, shown, read)
  BY DEF IInv
<1> QED
  BY <1>1, <1>12, <1>13, <1>15, <1>18, <1>19, <1>20, <1>21, <1>22, <1>23 DEF IInv

-----------------------------------------------------------------------------
(* The theorems *)

LEMMA NextInv == IInv /\ [Next]_vars => IInv'
<1> SUFFICES ASSUME IInv, [Next]_vars PROVE IInv'
  OBVIOUS
<1>1. CASE readTerminalInput
  BY <1>1, readTerminalInputInv
<1>2. CASE handleRead
  BY <1>2, handleReadInv
<1>3. CASE flushPendingEscape
  BY <1>3, flushPendingEscapeInv
<1>4. CASE receiveControl
  BY <1>4, receiveControlInv
<1>5. CASE updatePromptInputStatus
  BY <1>5, updatePromptInputStatusInv
<1>6. CASE serveFrame
  BY <1>6, serveFrameInv
<1>7. CASE RepeatExpires
  BY <1>7, RepeatExpiresInv
<1>8. CASE LayoutChanges
  BY <1>8, LayoutChangesInv
<1>9. CASE SwitchSession
  BY <1>9, SwitchSessionInv
<1>10. CASE Disconnect
  BY <1>10, DisconnectInv
<1>11. CASE Reconnect
  BY <1>11, ReconnectInv
<1>12. CASE UNCHANGED vars
  BY <1>12 DEF vars, IInv
<1> QED
  BY <1>1, <1>2, <1>3, <1>4, <1>5, <1>6, <1>7, <1>8, <1>9, <1>10, <1>11, <1>12 DEF Next

\* The identity of a prompt and the number of prompts ever opened determine each
\* other for as long as a ClientInstance lives, and a draft that outlives its
\* connection is ended by the first status of the next, before anything it sends
\* could be taken for an answer (resolvePrompt, acceptStatus, newClientPromptDraft).
THEOREM AnswersMeetTheirPrompts == Spec => []AnswerIsForItsPrompt
<1>1. IInv /\ [Next]_vars => IInv'
  BY NextInv
<1>2. Init => IInv
  BY InitInv
<1>3. IInv => AnswerIsForItsPrompt
  BY InvImplies
<1> QED
  BY <1>1, <1>2, <1>3, PTL DEF Spec

\* Layout revisions only grow on their way to the client, an Escape held back and
\* a sequence cut in two keep the revision of their first byte, and so a pointer
\* report that is taken was made on the layout it is taken for (handleRead,
\* frontendInputParser, handleFrontendPointer).
THEOREM ClicksMeanWhatWasShown == Spec => []ClickMeansShownLayout
<1>1. IInv /\ [Next]_vars => IInv'
  BY NextInv
<1>2. Init => IInv
  BY InitInv
<1>3. IInv => ClickMeansShownLayout
  BY InvImplies
<1> QED
  BY <1>1, <1>2, <1>3, PTL DEF Spec
=============================================================================
