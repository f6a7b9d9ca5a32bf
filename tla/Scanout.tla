------------------------------ MODULE Scanout ------------------------------
(***************************************************************************)
(* The frontend's render loop: layouts and pane frames arrive on streams of   *)
(* their own, a revision is shown once its layout and a frame for each of its *)
(* slots are there, and what the user types is predicted on the screen until  *)
(* the frames of the server confirm it or contradict it.                      *)
(*                                                                         *)
(* A pane is a grid of two rows.  Its application, which is outside, echoes    *)
(* keys or not, and prints.  The server is kept to what the frontend sees of    *)
(* it: layouts, keyframes and differences, in the order of each stream.  Every *)
(* typed character is a number of its own.  Styles, the status row and the      *)
(* sizes of panes are left out: a frame always has the grid of its slot.        *)
(***************************************************************************)
EXTENDS Integers, Sequences, FiniteSets, SequencesExt

CONSTANTS
    Panes,        \* the panes of the window
    None,         \* nil
    Width,        \* columns of a pane
    Arrangements, \* what a layout may bind: functions from slots to panes
    Scenarios,    \* bounds: the first arrangement, and how many keys are typed, how often
                  \* applications do something unasked, how many layouts follow, how
                  \* often predictions are given up from outside
    MaxTyped,     \* bound: keys typed in any scenario
    PrintedCells, \* bound: the cells applications print to
    WideOutput    \* whether applications print wide characters

ASSUME ArrangementsAssumption ==
    \A a \in Arrangements :
        /\ DOMAIN a # {} /\ \A s, u \in DOMAIN a : a[s] = a[u] => s = u
        /\ \A s \in DOMAIN a : a[s] \in Panes

ASSUME ScenariosAssumption ==
    Scenarios \subseteq
        [panes : Arrangements, typed : 0 .. MaxTyped, printed : Nat, layouts : Nat, resets : Nat]

Cells == 0 .. 2 * Width - 1

ASSUME SizesAssumption == Width \in Nat \ {0} /\ MaxTyped \in Nat /\ PrintedCells \subseteq Cells

LastRow(c) == c >= Width
Column(c) == IF LastRow(c) THEN c - Width ELSE c

\* What a cell shows: nothing, a typed character, something printed, or one half of a
\* wide character.
Blank == 0
Printed == -1
WideLeft == -2
WideRight == -3
Characters == 1 .. MaxTyped

\* Keys: characters, and
Enter == -1
Backspace == -2
NextPane == -3

Slots == UNION {DOMAIN a : a \in Arrangements}

ASSUME SlotsAssumption == IsFiniteSet(Slots) /\ Slots = 1 .. Cardinality(Slots)

\* What is predicted for: a slot of a layout, and the pane in it.
Targets == [pane : Panes, slot : Slots, revision : Nat]

ASSUME NoneIsNothing == None \notin Targets

EmptyGrid == [c \in Cells |-> Blank]
NoLayout == [revision |-> 0, panes |-> <<>>, focus |-> None]
NoPrediction == [target |-> None, scopes |-> <<>>, cursor |-> 0, hasCursor |-> FALSE, awaiting |-> FALSE]

VARIABLES
    \* the applications, and the keys on their way to them
    terminal, typed,
    \* the server: the layout it has published last, what each slot has been sent, and
    \* the streams to the frontend
    published, sent, control, stream,
    \* scanoutState: layouts and frames, cells and cursors of the slots, inputPredictor
    layout, pendingLayouts, pendingFrames, cache, cursors, predictor,
    \* local input the render loop has yet to take
    local,
    \* the physical terminal
    screen,
    \* what may still happen
    budget,
    \* history: characters an application has taken without an echo; characters that
    \* have been on the screen
    secret, shown

serverVars == <<terminal, typed, published, sent, control, stream>>
scanoutVars == <<layout, pendingLayouts, pendingFrames, cache, cursors, predictor, screen, shown>>
vars == <<serverVars, scanoutVars, budget, local, secret>>

-----------------------------------------------------------------------------
(* Grids *)

\* Half a wide character does not stay.
WithoutHalves(grid, c) ==
    CASE grid[c] = WideLeft -> [grid EXCEPT ![c] = Blank, ![c + 1] = Blank]
      [] grid[c] = WideRight -> [grid EXCEPT ![c - 1] = Blank, ![c] = Blank]
      [] OTHER -> grid

\* applySpanToCache, and what a terminal does with a character it is sent.
Write(grid, c, what) ==
    IF what = WideLeft
      THEN [WithoutHalves(WithoutHalves(grid, c), c + 1) EXCEPT ![c] = WideLeft, ![c + 1] = WideRight]
      ELSE [WithoutHalves(grid, c) EXCEPT ![c] = what]

Paint(grid, spans) ==
    LET painted[n \in 0 .. Len(spans)] ==
            IF n = 0 THEN grid ELSE Write(painted[n - 1], spans[n].at, spans[n].what)
    IN  painted[Len(spans)]

\* paneScanoutCache.scrollRegion, by one row, of the whole pane: the last row is copied,
\* and blank.
scrollRegion(grid) ==
    LET copied[n \in 0 .. Width] ==
            IF n = 0 THEN EmptyGrid ELSE [copied[n - 1] EXCEPT ![n - 1] = grid[n - 1 + Width]]
    IN  copied[Width]

\* The cells of a frame, written from the left; a wide character is written once.
PaintCells(grid, cells) ==
    LET painted[n \in 0 .. 2 * Width] ==
            IF n = 0 THEN grid
            ELSE IF n - 1 \in DOMAIN cells /\ cells[n - 1] # WideRight
              THEN Write(painted[n - 1], n - 1, cells[n - 1])
            ELSE painted[n - 1]
    IN  painted[2 * Width]

-----------------------------------------------------------------------------
(* inputPredictor *)

Op(kind, what, at, after) == [kind |-> kind, what |-> what, at |-> at, after |-> after]

\* The elements with some of the indices, in order.
Chosen(xs, indices) ==
    LET chosen[n \in 0 .. Len(xs)] ==
            IF n = 0 THEN <<>>
            ELSE IF n \in indices THEN Append(chosen[n - 1], xs[n]) ELSE chosen[n - 1]
    IN  chosen[Len(xs)]

\* The operations of some of the scopes, in order.
Operations(scopes, indices) ==
    LET gathered[n \in 0 .. Len(scopes)] ==
            IF n = 0 THEN <<>>
            ELSE IF n \in indices THEN gathered[n - 1] \o scopes[n].pending ELSE gathered[n - 1]
    IN  gathered[Len(scopes)]

visibleOperations(p) == Operations(p.scopes, {i \in DOMAIN p.scopes : p.scopes[i].trusted})
pendingOperations(p) == Operations(p.scopes, DOMAIN p.scopes)

active(p) == p.target # None \/ p.scopes # <<>>

\* currentCursor is left alone by the code, and not read before it is set again.
clear(p) == NoPrediction

\* The operations on a cell, of which the last one shows.
On(ops, c) == {i \in DOMAIN ops : ops[i].at = c}
LastOn(ops, c) == CHOOSE i \in On(ops, c) : \A j \in On(ops, c) : j <= i

\* composedCell, for every cell.
Composed(grid, ops) ==
    [c \in Cells |-> IF On(ops, c) = {} THEN grid[c] ELSE ops[LastOn(ops, c)].what]

CurrentScopeIsOpen(p) == p.scopes # <<>> /\ ~Last(p.scopes).closed

\* Mutated: what follows the end of a line belongs to the scope before it.
boundary_Continues(p) == [p EXCEPT !.hasCursor = FALSE]

\* inputPredictor.boundary: an unconfirmed scope is given up.
boundary(p) ==
    LET scopes == IF ~CurrentScopeIsOpen(p) THEN p.scopes
                  ELSE IF Last(p.scopes).trusted
                    THEN [p.scopes EXCEPT ![Len(p.scopes)].closed = TRUE]
                    ELSE Front(p.scopes)
    IN  [p EXCEPT !.scopes = scopes, !.hasCursor = FALSE, !.awaiting = TRUE,
                  !.target = IF scopes = <<>> THEN None ELSE @]

Predict(p, op) ==
    LET opened == IF CurrentScopeIsOpen(p) THEN p.scopes
                  ELSE Append(p.scopes, [trusted |-> FALSE, closed |-> FALSE, pending |-> <<>>])
    IN  [p EXCEPT !.scopes = [opened EXCEPT ![Len(opened)].pending = Append(@, op)],
                  !.cursor = op.after]

PredictionIsReady(p, context) == ~p.awaiting /\ p.hasCursor /\ context.visible

\* acceptPrintable refuses the last column and a cell that shows something.
CanInsert(p, grid) ==
    /\ Column(p.cursor) < Width - 1
    /\ Composed(grid, pendingOperations(p))[p.cursor] = Blank

\* acceptBackspace: nothing under the cursor, and something narrow before it.
CanDelete(p, grid) ==
    LET composed == Composed(grid, pendingOperations(p))
    IN  /\ Column(p.cursor) > 0
        /\ composed[p.cursor] = Blank
        /\ composed[p.cursor - 1] \notin {Blank, WideLeft, WideRight}

\* One byte of applyLocalInput.
Typed(p, key, context, grid) ==
    CASE key = Backspace ->
           IF PredictionIsReady(p, context) /\ CanDelete(p, grid)
             THEN Predict(p, Op("backspace", Blank, p.cursor - 1, p.cursor - 1))
             ELSE boundary(p)
      [] key \in {Enter, NextPane} -> boundary(p)
      [] OTHER ->
           IF ~PredictionIsReady(p, context) THEN p
           ELSE IF CanInsert(p, grid) THEN Predict(p, Op("insert", key, p.cursor, p.cursor + 1))
           ELSE boundary(p)

\* repairSpans: the cells under the operations, as the server has sent them; the right
\* half of a wide character is repaired with a blank.
repairSpans(ops, grid) ==
    [i \in DOMAIN ops |->
        [at |-> ops[i].at, what |-> IF grid[ops[i].at] = WideRight THEN Blank ELSE grid[ops[i].at]]]

predictionSpans(ops) == [i \in DOMAIN ops |-> [at |-> ops[i].at, what |-> ops[i].what]]

\* repairRemovedPredictions: operations whose cell is to show something else.
RemovedOperations(before, after) ==
    Chosen(before, {i \in DOMAIN before :
        LET c == before[i].at
        IN  On(after, c) = {} \/ after[LastOn(after, c)].what # before[i].what})

\* The bytes of an input, one by one.
TypedAll(p, keys, context, grid) ==
    LET typing[n \in 0 .. Len(keys)] ==
            IF n = 0 THEN p ELSE Typed(typing[n - 1], keys[n], context, grid)
    IN  typing[Len(keys)]

\* applyLocalInput: the predictor, and what is painted.
applyLocalInput(p, keys, context, grid) ==
    LET started == IF p.target = context.target THEN p
                   ELSE [NoPrediction EXCEPT !.target = context.target, !.cursor = context.cursor,
                                             !.hasCursor = context.visible]
        after == TypedAll(started, keys, context, grid)
    IN  [predictor |-> after,
         spans |-> repairSpans(RemovedOperations(visibleOperations(p), visibleOperations(after)), grid)
                   \o predictionSpans(visibleOperations(after))]

\* matchingPredictionPrefix: the longest prefix after which cells and cursor are as the
\* frame has them.
MatchingPrefixes(ops, touched, grid, cursor) ==
    {n \in DOMAIN ops :
        LET prefix == SubSeq(ops, 1, n)
            effects == Composed(EmptyGrid, prefix)
        IN  /\ ops[n].after = cursor
            /\ \A i \in 1 .. n : ops[i].at \in touched /\ grid[ops[i].at] = effects[ops[i].at]}

\* The scopes of which a character, not there before, is confirmed by n operations: the
\* last operation on a cell counts.
Credited(scopes, n, before) ==
    LET ops == SubSeq(Operations(scopes, DOMAIN scopes), 1, n)
        OffsetOf(i) == Len(Operations(scopes, 1 .. i - 1))
    IN  {i \in DOMAIN scopes : \E j \in 1 .. n :
           /\ OffsetOf(i) < j /\ j <= OffsetOf(i) + Len(scopes[i].pending)
           /\ \A k \in j + 1 .. n : ops[k].at # ops[j].at
           /\ ops[j].what # Blank /\ before[ops[j].at] # ops[j].what}

\* removeConfirmedPrefix and collectClosedScopes.
Confirmed(p, n, before) ==
    LET credited == Credited(p.scopes, n, before)
        OffsetOf(i) == Len(Operations(p.scopes, 1 .. i - 1))
        Rest(i) == LET dropped == IF n > OffsetOf(i) THEN n - OffsetOf(i) ELSE 0
                       length == Len(p.scopes[i].pending)
                   IN  IF dropped >= length THEN <<>> ELSE SubSeq(p.scopes[i].pending, dropped + 1, length)
        kept == [i \in DOMAIN p.scopes |->
                   [p.scopes[i] EXCEPT !.trusted = @ \/ i \in credited, !.pending = Rest(i)]]
        scopes == Chosen(kept, {i \in DOMAIN kept : ~(kept[i].closed /\ kept[i].pending = <<>>)})
    IN  [p EXCEPT !.scopes = scopes, !.target = IF scopes = <<>> THEN None ELSE @]

\* Mutated: what a contradicted prediction has painted stays.
Contradicted_NoRepair(p, grid) == [predictor |-> clear(p), spans |-> <<>>, repaint |-> FALSE]

\* The prediction is given up, and the cells it has painted are repaired.
Contradicted(p, grid) ==
    [predictor |-> clear(p), spans |-> repairSpans(visibleOperations(p), grid), repaint |-> FALSE]

Overlaid(p) == [predictor |-> p, spans |-> predictionSpans(visibleOperations(p)), repaint |-> FALSE]

\* applyAuthoritativeFrame, once the cells of the frame are in the cache: before and grid
\* are the cells of the slot before and after, touched those written.
applyAuthoritativeFrame(p, target, frame, touched, before, grid) ==
    LET ops == pendingOperations(p)
        matches == MatchingPrefixes(ops, touched, grid, frame.cursor)
        unchanged == [predictor |-> p, spans |-> <<>>, repaint |-> FALSE]
        dropped == [unchanged EXCEPT !.predictor = clear(p)]
    IN  IF ~active(p) \/ target # p.target THEN unchanged
        ELSE IF frame.scroll THEN [dropped EXCEPT !.repaint = visibleOperations(p) # <<>>]
        ELSE IF ~frame.visible THEN Contradicted(p, grid)
        ELSE IF ops = <<>>
          THEN IF p.awaiting \/ (frame.moved /\ p.hasCursor /\ frame.cursor # p.cursor) THEN dropped
               ELSE Overlaid(IF frame.moved THEN [p EXCEPT !.cursor = frame.cursor, !.hasCursor = TRUE] ELSE p)
        ELSE IF matches # {}
          THEN LET confirmed == Confirmed(p, CHOOSE n \in matches : \A m \in matches : m <= n, before)
               IN  Overlaid(IF pendingOperations(confirmed) # <<>> THEN confirmed
                            ELSE [confirmed EXCEPT !.cursor = frame.cursor, !.hasCursor = TRUE])
        ELSE IF ops[1].at \in touched \/ frame.moved THEN Contradicted(p, grid)
        ELSE Overlaid(p)

-----------------------------------------------------------------------------
(* scanoutState, as a record *)

Scanout == [layout |-> layout, layouts |-> pendingLayouts, frames |-> pendingFrames, cache |-> cache,
            cursors |-> cursors, predictor |-> predictor, screen |-> screen]

SetScanout(s) ==
    /\ layout' = s.layout /\ pendingLayouts' = s.layouts /\ pendingFrames' = s.frames
    /\ cache' = s.cache /\ cursors' = s.cursors /\ predictor' = s.predictor /\ screen' = s.screen
    /\ shown' = shown \cup (Characters \cap {s.screen[u][c] : u \in DOMAIN s.layout.panes, c \in Cells})

\* resetPrediction
resetPrediction(s) ==
    LET target == s.predictor.target
    IN  IF target = None THEN [s EXCEPT !.predictor = clear(@)]
        ELSE [s EXCEPT
               !.predictor = clear(@),
               !.screen[target.slot] = Paint(s.screen[target.slot], repairSpans(visibleOperations(s.predictor), s.cache[target.slot]))]

\* emitFrame: cells and cursor of the slot, then the prediction, then the screen.
emitFrame(s, slot, frame, nativeScroll) ==
    LET before == IF frame.scroll THEN scrollRegion(s.cache[slot]) ELSE s.cache[slot]
        after == PaintCells(before, frame.cells)
        touched == DOMAIN frame.cells \cup {c \in Cells : before[c] # after[c]}
        target == [pane |-> s.layout.panes[slot], slot |-> slot, revision |-> frame.revision]
        result == applyAuthoritativeFrame(s.predictor, target, frame, touched, before, after)
        native == nativeScroll /\ ~result.repaint
        old == IF frame.scroll THEN scrollRegion(s.screen[slot]) ELSE s.screen[slot]
    IN  [s EXCEPT
          !.cache[slot] = after,
          !.cursors[slot] = [cursor |-> frame.cursor, visible |-> frame.visible],
          !.predictor = result.predictor,
          !.screen[slot] = IF frame.scroll /\ ~native THEN after
                           ELSE Paint(PaintCells(old, frame.cells), result.spans)]

\* emitFrame for each frame of a slot, in order.
emitFrames(s, slot, frames, nativeScroll) ==
    LET emitted[n \in 0 .. Len(frames)] ==
            IF n = 0 THEN s ELSE emitFrame(emitted[n - 1], slot, frames[n], nativeScroll)
    IN  emitted[Len(frames)]

\* The frames that wait for a revision, of a slot.
Waiting(s, revision, slot) ==
    IF <<revision, slot>> \in DOMAIN s.frames THEN s.frames[<<revision, slot>>] ELSE <<>>

Wait(s, slot, frame) ==
    LET key == <<frame.revision, slot>>
        waiting == Append(Waiting(s, frame.revision, slot), frame)
    IN  [s EXCEPT !.frames = [k \in DOMAIN @ \cup {key} |-> IF k = key THEN waiting ELSE @[k]]]

\* Every slot of the layout has a frame.
IsReady(s, l) == \A slot \in DOMAIN l.panes : Waiting(s, l.revision, slot) # <<>>

\* Mutated: frames that came before the layout are dropped, but for one of each slot.
Replayed_First(s, l, slot) == <<Waiting(s, l.revision, slot)[1]>>

Replayed(s, l, slot) == Waiting(s, l.revision, slot)

\* The layout of s, and what is left of s; the frames that waited are in the state old.
replay(old, s, nativeScroll) ==
    LET replayed[n \in 0 .. Cardinality(Slots)] ==
            IF n = 0 THEN s
            ELSE IF n \notin DOMAIN s.layout.panes THEN replayed[n - 1]
            ELSE emitFrames(replayed[n - 1], n, Replayed(old, s.layout, n), nativeScroll)
    IN  replayed[Cardinality(Slots)]

\* What there is of a layout before its frames; older layouts and frames are dropped.
Cleared(s, l) ==
    [s EXCEPT !.layout = l,
              !.predictor = clear(@),
              !.cache = [slot \in Slots |-> EmptyGrid],
              !.cursors = [slot \in Slots |-> None],
              !.screen = [slot \in Slots |-> EmptyGrid],
              !.layouts = {k \in @ : k.revision > l.revision},
              !.frames = [k \in {j \in DOMAIN @ : j[1] > l.revision} |-> @[k]]]

\* tryActivate: the screen is cleared, and the frames that waited are painted.
tryActivate(s, revision, nativeScroll) ==
    LET layouts == {l \in s.layouts : l.revision = revision}
        l == CHOOSE l \in layouts : TRUE
    IN  IF layouts = {} \/ ~IsReady(s, l) THEN s ELSE replay(s, Cleared(s, l), nativeScroll)

\* Mutated: a prediction outlives the focus.
acceptLayout_KeepsPrediction(s, l, nativeScroll) ==
    IF l.revision < s.layout.revision THEN s
    ELSE IF l.revision = s.layout.revision THEN [s EXCEPT !.layout = l]
    ELSE tryActivate([s EXCEPT !.layouts = {k \in @ : k.revision # l.revision} \cup {l}], l.revision, nativeScroll)

\* acceptLayout
acceptLayout(s, l, nativeScroll) ==
    IF l.revision < s.layout.revision THEN s
    ELSE IF l.revision = s.layout.revision
      THEN [(IF l.focus # s.layout.focus THEN resetPrediction(s) ELSE s) EXCEPT !.layout = l]
      ELSE tryActivate([s EXCEPT !.layouts = {k \in @ : k.revision # l.revision} \cup {l}], l.revision, nativeScroll)

\* Mutated: only layouts activate.
acceptFrame_Waits(s, slot, frame, nativeScroll) ==
    IF frame.revision < s.layout.revision THEN s
    ELSE IF frame.revision = s.layout.revision THEN emitFrame(s, slot, frame, nativeScroll)
    ELSE Wait(s, slot, frame)

\* acceptFrame
acceptFrame(s, slot, frame, nativeScroll) ==
    IF frame.revision < s.layout.revision THEN s
    ELSE IF frame.revision = s.layout.revision THEN emitFrame(s, slot, frame, nativeScroll)
    ELSE tryActivate(Wait(s, slot, frame), frame.revision, nativeScroll)

\* acceptLocalInput: keys are predicted in the focused pane.
acceptLocalInput(s, keys) ==
    LET focused == {slot \in DOMAIN s.layout.panes : s.layout.panes[slot] = s.layout.focus}
        slot == CHOOSE slot \in focused : TRUE
        context == [target |-> [pane |-> s.layout.focus, slot |-> slot, revision |-> s.layout.revision],
                    cursor |-> s.cursors[slot].cursor, visible |-> s.cursors[slot].visible]
        result == applyLocalInput(s.predictor, keys, context, s.cache[slot])
    IN  IF focused = {} THEN s
        ELSE [s EXCEPT !.predictor = result.predictor, !.screen[slot] = Paint(s.screen[slot], result.spans)]

-----------------------------------------------------------------------------
(* The steps of the render loop.  Whether the terminal scrolls a pane by itself depends *)
(* on the pane and on the terminal.                                                      *)

RenderLayout ==
    /\ control # <<>>
    /\ control' = Tail(control)
    /\ \E nativeScroll \in BOOLEAN : \E s \in {acceptLayout(Scanout, Head(control), nativeScroll)} : SetScanout(s)
    /\ UNCHANGED <<terminal, typed, published, sent, stream, local, secret, budget>>

RenderFrame(slot) ==
    /\ stream[slot] # <<>>
    /\ stream' = [stream EXCEPT ![slot] = Tail(@)]
    /\ \E nativeScroll \in {Head(stream[slot]).scroll, TRUE} :
         \E s \in {acceptFrame(Scanout, slot, Head(stream[slot]), nativeScroll)} : SetScanout(s)
    /\ UNCHANGED <<terminal, typed, published, sent, control, local, secret, budget>>

\* Input is handed to the render loop when the control stream has taken it.
RenderLocalInput ==
    /\ local # <<>>
    /\ local' = Tail(local)
    /\ \E s \in {acceptLocalInput(Scanout, Head(local))} : SetScanout(s)
    /\ UNCHANGED <<serverVars, secret, budget>>

\* reconnectEvent, terminalStatusEvent, sizeEvent: predictions are given up.
RenderReset ==
    /\ budget.resets > 0
    /\ budget' = [budget EXCEPT !.resets = @ - 1]
    /\ SetScanout(resetPrediction(Scanout))
    /\ UNCHANGED <<serverVars, local, secret>>

-----------------------------------------------------------------------------
(* The user, the applications and the server *)

\* One read of the terminal: a key, or two.  Bound: one read waits for the render loop.
Reads == {<<k>> : k \in Characters \cup {Enter, Backspace, NextPane}}
           \cup {<<k, c>> : k \in {Enter, Backspace}, c \in Characters}

Type(keys) ==
    /\ Len(keys) <= budget.typed /\ local = <<>>
    /\ \A i \in DOMAIN keys : keys[i] \in Characters => keys[i] = MaxTyped - budget.typed + i
    /\ budget' = [budget EXCEPT !.typed = @ - Len(keys)]
    /\ typed' = typed \o keys
    /\ local' = Append(local, keys)
    /\ UNCHANGED <<terminal, published, sent, control, stream, scanoutVars, secret>>

NewLine(t) ==
    IF LastRow(t.cursor)
      THEN [t EXCEPT !.grid = scrollRegion(t.grid), !.cursor = Width, !.rolled = @ + 1]
      ELSE [t EXCEPT !.cursor = Width]

\* The application of the focused pane takes a key.  It starts or stops to echo when a
\* line ends.
Take(key) ==
    LET pane == published.focus
        t == terminal[pane]
        Room == Column(t.cursor) < Width - 1
    IN  /\ typed # <<>> /\ key = Head(typed) /\ key # NextPane
        /\ typed' = Tail(typed)
        /\ \/ key = Enter /\ \E echo \in BOOLEAN :
                 terminal' = [terminal EXCEPT ![pane] = [NewLine(t) EXCEPT !.echo = echo]]
           \/ /\ key \in Characters
              /\ terminal' = IF t.echo /\ Room
                               THEN [terminal EXCEPT ![pane].grid = Write(t.grid, t.cursor, key),
                                                     ![pane].cursor = @ + 1]
                               ELSE terminal
           \/ /\ key = Backspace
              /\ terminal' = IF t.echo /\ Column(t.cursor) > 0
                               THEN [terminal EXCEPT ![pane].grid = Write(t.grid, t.cursor - 1, Blank),
                                                     ![pane].cursor = @ - 1]
                               ELSE terminal
        /\ secret' = IF key \in Characters /\ ~t.echo THEN secret \cup {key} ELSE secret
        /\ UNCHANGED <<published, sent, control, stream, scanoutVars, budget, local>>

\* The application of a pane on show prints, moves or hides the cursor, or disregards a
\* key; what others print shows in a keyframe, which may hold anything.
Unasked(pane) ==
    /\ budget.printed > 0 /\ \E slot \in DOMAIN published.panes : published.panes[slot] = pane
    /\ budget' = [budget EXCEPT !.printed = @ - 1]
    /\ \/ \E c \in PrintedCells, move \in BOOLEAN :
            /\ terminal' = [terminal EXCEPT ![pane].grid = Write(terminal[pane].grid, c, Printed),
                                            ![pane].cursor = IF move /\ Column(c) < Width - 1 THEN c + 1 ELSE @]
            /\ UNCHANGED typed
       \/ \E c \in PrintedCells :
            /\ WideOutput /\ Column(c) < Width - 1
            /\ terminal' = [terminal EXCEPT ![pane].grid = Write(terminal[pane].grid, c, WideLeft), ![pane].cursor = c + 1]
            /\ UNCHANGED typed
       \/ terminal' = [terminal EXCEPT ![pane].visible = ~@] /\ UNCHANGED typed
       \/ /\ typed # <<>> /\ Head(typed) \in Characters /\ pane = published.focus
          /\ typed' = Tail(typed) /\ UNCHANGED terminal
    /\ UNCHANGED <<published, sent, control, stream, scanoutVars, local, secret>>

\* Other arrangement, new revision: each slot starts anew with a keyframe.
Relayout(panes, focus) ==
    /\ budget.layouts > 0
    /\ budget' = [budget EXCEPT !.layouts = @ - 1]
    /\ panes \in Arrangements /\ panes # published.panes /\ \E slot \in DOMAIN panes : panes[slot] = focus
    /\ published' = [revision |-> published.revision + 1, panes |-> panes, focus |-> focus]
    /\ control' = Append(control, published')
    /\ sent' = [slot \in Slots |-> None]
    /\ UNCHANGED <<terminal, typed, stream, scanoutVars, local, secret>>

\* The key that moves the focus: the same layout with another focus.
TakeNextPane ==
    /\ typed # <<>> /\ Head(typed) = NextPane
    /\ typed' = Tail(typed)
    /\ IF Cardinality(DOMAIN published.panes) = 1 THEN UNCHANGED <<published, control>>
       ELSE \E slot \in DOMAIN published.panes :
              /\ published.panes[slot] # published.focus
              /\ published' = [published EXCEPT !.focus = published.panes[slot]]
              /\ control' = Append(control, published')
    /\ UNCHANGED <<terminal, sent, stream, scanoutVars, budget, local, secret>>

\* What a slot has been sent, with the scrolling of the next frame; nothing yet: the
\* next frame is a keyframe.
Sent(slot) ==
    IF sent[slot] = None THEN [grid |-> EmptyGrid, cursor |-> None, visible |-> FALSE, scroll |-> FALSE]
    ELSE LET scroll == terminal[published.panes[slot]].rolled = 1
         IN  [grid |-> IF scroll THEN scrollRegion(sent[slot].grid) ELSE sent[slot].grid,
              cursor |-> sent[slot].cursor, visible |-> sent[slot].visible, scroll |-> scroll]

CursorChanged(old, t) == old.scroll \/ <<old.cursor, old.visible>> # <<t.cursor, t.visible>>

Differing(old, t) == {c \in Cells : old.grid[c] # t.grid[c]}

\* What is sent of a pane: the cells that differ, or all of them.
Publish(slot) ==
    /\ slot \in DOMAIN published.panes
    /\ LET pane == published.panes[slot]
           t == terminal[pane]
           old == Sent(slot)
       IN  /\ {CursorChanged(old, t), Differing(old, t) # {}} # {FALSE}
           /\ \E cells \in {IF sent[slot] = None THEN Cells ELSE Differing(old, t), Cells} :
                stream' = [stream EXCEPT ![slot] = Append(@,
                    [revision |-> published.revision, scroll |-> old.scroll,
                     moved |-> CursorChanged(old, t), cells |-> [c \in cells |-> t.grid[c]],
                     cursor |-> t.cursor, visible |-> t.visible])]
           /\ sent' = [sent EXCEPT ![slot] = [grid |-> t.grid, cursor |-> t.cursor, visible |-> t.visible]]
           /\ terminal' = [terminal EXCEPT ![pane].rolled = 0]
    /\ UNCHANGED <<typed, published, control, scanoutVars, budget, local, secret>>

Init ==
    /\ \E echo \in BOOLEAN :
         terminal = [p \in Panes |-> [grid |-> EmptyGrid, cursor |-> 0, visible |-> TRUE,
                                      echo |-> echo, rolled |-> 0]]
    /\ typed = <<>>
    /\ budget \in Scenarios
    /\ \E slot \in DOMAIN budget.panes :
         published = [revision |-> 1, panes |-> budget.panes, focus |-> budget.panes[slot]]
    /\ sent = [slot \in Slots |-> None]
    /\ control = <<published>>
    /\ stream = [slot \in Slots |-> <<>>]
    /\ layout = NoLayout /\ pendingLayouts = {} /\ pendingFrames = <<>>
    /\ cache = [slot \in Slots |-> EmptyGrid]
    /\ cursors = [slot \in Slots |-> None]
    /\ predictor = NoPrediction
    /\ local = <<>>
    /\ screen = [slot \in Slots |-> EmptyGrid]
    /\ secret = {} /\ shown = {}

Next ==
    \/ RenderLayout
    \/ \E slot \in Slots : RenderFrame(slot)
    \/ RenderLocalInput
    \/ RenderReset
    \/ \E keys \in Reads : Type(keys)
    \/ \E key \in Characters \cup {Enter, Backspace} : Take(key)
    \/ TakeNextPane
    \/ \E pane \in Panes : Unasked(pane)
    \/ \E panes \in Arrangements, focus \in Panes : Relayout(panes, focus)
    \/ \E slot \in Slots : Publish(slot)

Spec == Init /\ [][Next]_vars

-----------------------------------------------------------------------------
(* Properties *)

TypeOK ==
    /\ \A slot \in Slots : cache[slot] \in [Cells -> Int] /\ screen[slot] \in [Cells -> Int]
    /\ predictor.target = None => predictor.scopes = <<>>
    /\ predictor.cursor \in Cells
    /\ layout.revision \in 0 .. published.revision
    /\ \A l \in pendingLayouts : l.revision > layout.revision
    /\ \A k \in DOMAIN pendingFrames : k[1] > layout.revision

\* What the user sees is what the server has sent with the visible predictions on it:
\* no prediction stays behind that has been confirmed, contradicted or given up.
ScreenShowsComposition ==
    \A slot \in DOMAIN layout.panes :
        LET ops == IF predictor.target # None /\ predictor.target.slot = slot
                     THEN visibleOperations(predictor) ELSE <<>>
        IN  screen[slot] = Composed(cache[slot], ops)

\* A character that the application takes without an echo is never on the screen: what
\* follows the end of a line is shown only once the application has echoed some of it.
NoSecretShown == secret \cap shown = {}

\* Once the layout is shown and the frames sent of a slot are painted, the cache is what
\* the server has sent last, whatever the order in which layouts and frames came.
CacheIsWhatWasSent ==
    layout.revision = published.revision =>
        \A slot \in DOMAIN layout.panes :
            stream[slot] = <<>> /\ sent[slot] # None =>
                cache[slot] = sent[slot].grid /\ cursors[slot].cursor = sent[slot].cursor

\* Predictions are for the pane that the frontend shows with the focus.
PredictionHasFocus ==
    predictor.target # None =>
        /\ predictor.target.revision = layout.revision
        /\ predictor.target.pane = layout.focus
        /\ layout.panes[predictor.target.slot] = layout.focus

\* The server has nothing to send, and the frontend has taken everything.
Quiet ==
    /\ control = <<>> /\ local = <<>> /\ typed = <<>>
    /\ \A slot \in DOMAIN published.panes : stream[slot] = <<>> /\ ~ENABLED Publish(slot)

\* No layout is left waiting: the frontend shows the last one, with its focus, once its
\* frames have come, although either may come first and frames come only of changes.
LayoutIsShown == Quiet => layout = published

\* The frontend keeps the bounds of what it holds back, and shows the server's layout.
FrontendFollowsLayout == TypeOK /\ LayoutIsShown

\* When everything has been answered the screen is what the server has: every
\* disagreement is settled in the end.
PredictionsSettle == Quiet => \A slot \in DOMAIN layout.panes : screen[slot] = cache[slot]
=============================================================================
