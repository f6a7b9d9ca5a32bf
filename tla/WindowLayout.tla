---------------------------- MODULE WindowLayout ----------------------------
(***************************************************************************)
(* The layout tree of one window, viewed by the attached client of one      *)
(* ungrouped session: splitting, removing, resizing, presets, swapping and  *)
(* zooming panes, the rectangles the tree computes, the navigation between  *)
(* them, and what the client is told of every change.  The algorithms are   *)
(* those of the code on trees of records; one daemon transaction is one     *)
(* action.                                                                  *)
(***************************************************************************)
EXTENDS Integers, Sequences, FiniteSets, SequencesExt, TLC

CONSTANTS
    MaxPane,         \* bound: panes the window has at a time, at most
    MaxVisiblePanes, \* protocol.MaxVisiblePanes
    WindowSizes,     \* the client's terminal sizes, as <<columns, rows>>
    Amounts,         \* cells a resize-pane asks for
    None             \* the zero ID, layoutPresetCustom

ASSUME LayoutAssumption ==
    /\ MaxPane \in Nat \ {0} /\ MaxVisiblePanes \in Nat \ {0}
    /\ WindowSizes \subseteq (Nat \ {0}) \X (Nat \ {0})
    /\ Amounts \subseteq Nat \ {0}
    /\ None \notin Nat

VARIABLES
    layout,  \* Window.Layout
    panes,   \* the panes the session's registry has for the window
    size,    \* Window.Cols and Window.Rows
    focused, \* SessionWindowView.FocusedPaneID
    zoomed,  \* SessionWindowView.ZoomedPaneID, and Window.ZoomedPaneID
    cycle,   \* Window.layoutCycleIndex
    ahead,   \* Window.LayoutRevision less SessionState.lastWindowLayoutRevision
    shown,   \* ClientView.Layout.Panes: what the client was last told
    slots    \* the placements its render slots are bound for

vars == <<layout, panes, size, focused, zoomed, cycle, ahead, shown, slots>>

PaneIDs == 1 .. MaxPane

-----------------------------------------------------------------------------
(* Trees and rectangles *)

PaneLayout(p) == [pane |-> p]
SplitLayout(d, r, a, b) == [dir |-> d, ratio |-> r, first |-> a, second |-> b]
IsPane(t) == "pane" \in DOMAIN t

Rect(x, y, w, h) == [x |-> x, y |-> y, w |-> w, h |-> h]
WindowRect == Rect(0, 0, size[1], size[2])

RECURSIVE PanesIn(_)
PanesIn(t) == IF IsPane(t) THEN <<t.pane>> ELSE PanesIn(t.first) \o PanesIn(t.second)

firstPaneID(t) == PanesIn(t)[1]
HasPane(t, p) == p \in ToSet(PanesIn(t))

\* Mutated: the border takes no cell.
Available_NoBorder(axis) == axis

\* One cell of the axis belongs to the border.
Available(axis) == axis - 1

\* splitFirstSize: the first share, at least one cell of each share when there are
\* two; of a single cell the second share gets it.
splitFirstSize(available, ratio) ==
    LET value == IF ratio <= 0 \/ ratio >= 1000 THEN 500 ELSE ratio
        share == (available * value) \div 1000
        first == IF share < 1 THEN 1 ELSE share
    IN  IF available - first < 1 THEN available - 1 ELSE first

Axis(t, rect) == IF t.dir = "vertical" THEN rect.w ELSE rect.h

\* SplitLayout.rects
rects(t, rect) ==
    LET available == Available(Axis(t, rect))
        first == splitFirstSize(available, t.ratio)
    IN  IF t.dir = "vertical"
          THEN <<[rect EXCEPT !.w = first],
                 [rect EXCEPT !.x = @ + first + 1, !.w = available - first]>>
          ELSE <<[rect EXCEPT !.h = first],
                 [rect EXCEPT !.y = @ + first + 1, !.h = available - first]>>

VisuallyBefore(a, b) ==
    \/ a.rect.y < b.rect.y
    \/ a.rect.y = b.rect.y /\ a.rect.x < b.rect.x
    \/ a.rect.y = b.rect.y /\ a.rect.x = b.rect.x /\ a.pane < b.pane

\* LayoutNode.Compute.  A split without room for a border gives both children all
\* of it; one without any room has no placements.
RECURSIVE Compute(_, _)
Compute(t, rect) ==
    IF IsPane(t) THEN <<[pane |-> t.pane, rect |-> rect]>>
    ELSE IF rect.w <= 0 \/ rect.h <= 0 THEN <<>>
    ELSE IF Axis(t, rect) <= 1 THEN Compute(t.first, rect) \o Compute(t.second, rect)
    ELSE SortSeq(Compute(t.first, rects(t, rect)[1]) \o Compute(t.second, rects(t, rect)[2]),
                 VisuallyBefore)

\* visibleWindowPlacementsForSession
Placements(t, zoom, s) ==
    LET rect == Rect(0, 0, s[1], s[2])
    IN  IF zoom # None /\ HasPane(t, zoom) THEN <<[pane |-> zoom, rect |-> rect]>>
                                            ELSE Compute(t, rect)

-----------------------------------------------------------------------------
(* Editing the tree *)

RECURSIVE replacePaneWithSplit(_, _, _, _)
replacePaneWithSplit(t, p, new, d) ==
    IF IsPane(t)
      THEN IF t.pane = p THEN SplitLayout(d, 500, t, PaneLayout(new)) ELSE t
      ELSE [t EXCEPT !.first = replacePaneWithSplit(@, p, new, d),
                     !.second = replacePaneWithSplit(@, p, new, d)]

\* Mutated: the sibling takes the place of the whole window.
RECURSIVE removePaneFromLayout_Sibling(_, _)
removePaneFromLayout_Sibling(t, p) ==
    IF HasPane(t.first, p)
      THEN IF IsPane(t.first) THEN t.second ELSE removePaneFromLayout_Sibling(t.first, p)
      ELSE IF IsPane(t.second) THEN t.first ELSE removePaneFromLayout_Sibling(t.second, p)

\* The sibling of the removed pane takes the place of their split.
RECURSIVE removePaneFromLayout(_, _)
removePaneFromLayout(t, p) ==
    IF HasPane(t.first, p)
      THEN IF IsPane(t.first) THEN t.second
                              ELSE [t EXCEPT !.first = removePaneFromLayout(@, p)]
      ELSE IF IsPane(t.second) THEN t.first
                               ELSE [t EXCEPT !.second = removePaneFromLayout(@, p)]

\* swapLayoutPanes: the two leaves trade their panes.
RECURSIVE swapLayoutPanes(_, _, _)
swapLayoutPanes(t, p, q) ==
    IF IsPane(t)
      THEN IF t.pane = p THEN PaneLayout(q) ELSE IF t.pane = q THEN PaneLayout(p) ELSE t
      ELSE [t EXCEPT !.first = swapLayoutPanes(@, p, q), !.second = swapLayoutPanes(@, p, q)]

-----------------------------------------------------------------------------
(* Presets, in the order they are cycled through *)

EvenHorizontal == 0
EvenVertical   == 1
MainHorizontal == 2
MainVertical   == 3
Tiled          == 4
layoutPresetCount == 5

BalancedRatio(middle, count) == (middle * 1000) \div count

RECURSIVE balancedLayout(_, _)
balancedLayout(nodes, d) ==
    LET middle == Len(nodes) \div 2
    IN  IF Len(nodes) = 1 THEN nodes[1]
        ELSE SplitLayout(d, BalancedRatio(middle, Len(nodes)),
                         balancedLayout(SubSeq(nodes, 1, middle), d),
                         balancedLayout(SubSeq(nodes, middle + 1, Len(nodes)), d))

balancedPaneLayout(ids, d) == balancedLayout([i \in DOMAIN ids |-> PaneLayout(ids[i])], d)

\* The focused pane when the window has it, else its first one.
MainPane(ids, focus) == IF focus \in ToSet(ids) THEN focus ELSE ids[1]

mainAndRest(ids, main) == SelectSeq(ids, LAMBDA p : p # main)

mainLayout(ids, focus, d, restD) ==
    LET main == MainPane(ids, focus)
        rest == mainAndRest(ids, main)
    IN  IF rest = <<>> THEN PaneLayout(main)
        ELSE SplitLayout(d, 600, PaneLayout(main), balancedPaneLayout(rest, restD))

tiledPaneLayout(ids) ==
    LET columns == CHOOSE c \in 1 .. Len(ids) :
                      c * c >= Len(ids) /\ (c = 1 \/ (c - 1) * (c - 1) < Len(ids))
        rows == (Len(ids) + columns - 1) \div columns
        Row(i) == SubSeq(ids, (i - 1) * columns + 1,
                         IF i * columns < Len(ids) THEN i * columns ELSE Len(ids))
    IN  balancedLayout([i \in 1 .. rows |-> balancedPaneLayout(Row(i), "vertical")], "horizontal")

buildPresetLayout(ids, focus, preset) ==
    IF Len(ids) = 1 THEN PaneLayout(ids[1])
    ELSE CASE preset = EvenVertical   -> balancedPaneLayout(ids, "horizontal")
           [] preset = MainHorizontal -> mainLayout(ids, focus, "horizontal", "vertical")
           [] preset = MainVertical   -> mainLayout(ids, focus, "vertical", "horizontal")
           [] preset = Tiled          -> tiledPaneLayout(ids)
           [] OTHER                   -> balancedPaneLayout(ids, "vertical")

-----------------------------------------------------------------------------
(* Resizing: the nearest boundary on the requested side of the pane, else the *)
(* nearest one on the same axis *)

AxisOf(side) == IF side \in {"left", "right"} THEN "vertical" ELSE "horizontal"

\* collectResizeCandidates: the splits on the pane's way to the root that divide
\* the axis, nearest first, each as its path from the root.
RECURSIVE resizeCandidates(_, _, _, _, _)
resizeCandidates(t, p, side, rect, path) ==
    IF IsPane(t) \/ Axis(t, rect) <= 1 THEN <<>>
    ELSE LET inFirst == HasPane(t.first, p)
             parts == rects(t, rect)
             below == IF inFirst THEN resizeCandidates(t.first, p, side, parts[1], path \o <<1>>)
                                 ELSE resizeCandidates(t.second, p, side, parts[2], path \o <<2>>)
         IN  IF t.dir # AxisOf(side) THEN below
             ELSE Append(below, [path |-> path, rect |-> rect,
                                 preferred |-> inFirst = (side \in {"right", "down"})])

RECURSIVE Subtree(_, _)
Subtree(t, path) ==
    IF path = <<>> THEN t
    ELSE Subtree(IF path[1] = 1 THEN t.first ELSE t.second, Tail(path))

RECURSIVE WithRatio(_, _, _)
WithRatio(t, path, r) ==
    IF path = <<>> THEN [t EXCEPT !.ratio = r]
    ELSE IF path[1] = 1 THEN [t EXCEPT !.first = WithRatio(@, Tail(path), r)]
                        ELSE [t EXCEPT !.second = WithRatio(@, Tail(path), r)]

\* layoutMinimumSize: one cell for each pane along the axis, and their borders.
RECURSIVE layoutMinimumSize(_, _)
layoutMinimumSize(t, d) ==
    IF IsPane(t) THEN 1
    ELSE LET first == layoutMinimumSize(t.first, d)
             second == layoutMinimumSize(t.second, d)
         IN  IF t.dir = d THEN first + 1 + second
             ELSE IF second > first THEN second ELSE first

Longest == CHOOSE n \in UNION {{s[1], s[2]} : s \in WindowSizes} :
              \A m \in UNION {{s[1], s[2]} : s \in WindowSizes} : m <= n

\* The sizes a first share can have for some ratio, and the first ratio for each.
ShareSizes == [a \in 1 .. Longest |-> {splitFirstSize(a, r) : r \in 1 .. 999}]
RatioFor == [a \in 1 .. Longest |->
               [n \in ShareSizes[a] |->
                  CHOOSE r \in 1 .. 999 : /\ splitFirstSize(a, r) = n
                                          /\ r = 1 \/ splitFirstSize(a, r - 1) # n]]

Clamp(n, low, high) == IF n < low THEN low ELSE IF n > high THEN high ELSE n

Distance(m, n) == IF m < n THEN n - m ELSE m - n

ShareLimits(t, available) ==
    <<layoutMinimumSize(t.first, t.dir), available - layoutMinimumSize(t.second, t.dir)>>

\* Where the boundary is asked to be.
Asked(current, side, amount) ==
    IF side \in {"left", "up"} THEN current - amount ELSE current + amount

\* resizeSplitBoundary: the ratio that brings the boundary nearest to where it is
\* asked to be, among those that move it that way; 0 when none does.
resizeSplitBoundary(t, rect, side, amount) ==
    LET available == Available(Axis(t, rect))
        current == splitFirstSize(available, t.ratio)
        limits == ShareLimits(t, available)
        desired == Clamp(Asked(current, side, amount), limits[1], limits[2])
        moved == {n \in ShareSizes[available] :
                    /\ limits[1] <= n /\ n <= limits[2]
                    /\ IF desired < current THEN n < current ELSE n > current}
        best == CHOOSE n \in moved : \A m \in moved :
                   \/ Distance(n, desired) < Distance(m, desired)
                   \/ Distance(n, desired) = Distance(m, desired) /\ n <= m
    IN  IF limits[1] > limits[2] \/ desired = current \/ moved = {} THEN 0
        ELSE RatioFor[available][best]

\* The split whose boundary moves.
ResizeTarget(candidates) ==
    LET preferred == SelectSeq(candidates, LAMBDA c : c.preferred)
    IN  IF preferred # <<>> THEN preferred[1] ELSE candidates[1]

\* ResizePaneBoundary: the tree with the boundary moved, or as it is.
ResizePaneBoundary(t, p, side, amount, rect) ==
    LET candidates == resizeCandidates(t, p, side, rect, <<>>) IN
    IF candidates = <<>> THEN t
    ELSE LET target == ResizeTarget(candidates)
             ratio == resizeSplitBoundary(Subtree(t, target.path), target.rect, side, amount)
         IN  IF ratio = 0 THEN t ELSE WithRatio(t, target.path, ratio)

-----------------------------------------------------------------------------
(* Navigation, in half cells *)

CentreX(r) == r.x * 2 + r.w
CentreY(r) == r.y * 2 + r.h

\* clampToRectAxis
OnAxis(point, start, length) ==
    IF point < start * 2 THEN start * 2
    ELSE IF point > (start + length) * 2 - 1 THEN (start + length) * 2 - 1
    ELSE point

OffAxis(point, start, length) == Distance(point, OnAxis(point, start, length))

\* The gap from `from' to `to' when `to' lies wholly on that side, else None.
PrimaryGap(from, to, side) ==
    CASE side = "up" /\ to.y + to.h <= from.y -> from.y - (to.y + to.h)
      [] side = "down"  /\ to.y >= from.y + from.h -> to.y - (from.y + from.h)
      [] side = "right" /\ to.x >= from.x + from.w -> to.x - (from.x + from.w)
      [] side = "left"  /\ to.x + to.w <= from.x -> from.x - (to.x + to.w)
      [] OTHER -> None

SecondaryGap(point, to, side) ==
    IF side \in {"up", "down"} THEN OffAxis(point.x, to.x, to.w) ELSE OffAxis(point.y, to.y, to.h)

\* Mutated: only the distance along the movement counts.
NearerPane_PrimaryOnly(a, b) ==
    \/ a.primary < b.primary
    \/ a.primary = b.primary /\ a.pane < b.pane

NearerPane(a, b) ==
    \/ a.secondary < b.secondary
    \/ a.secondary = b.secondary /\ a.primary < b.primary
    \/ a.secondary = b.secondary /\ a.primary = b.primary /\ a.pane < b.pane

RectOf(placed, p) == placed[CHOOSE i \in DOMAIN placed : placed[i].pane = p].rect

\* FocusPaneDirection: where the focus and the focus point go from `at'; a point
\* of None is the pane's centre.
FocusPaneDirection(placed, at, side) ==
    LET from == RectOf(placed, at.pane)
        point == IF at.point = None THEN [x |-> CentreX(from), y |-> CentreY(from)]
                 ELSE [x |-> OnAxis(at.point.x, from.x, from.w),
                       y |-> OnAxis(at.point.y, from.y, from.h)]
        candidates == {[pane |-> e.pane, primary |-> PrimaryGap(from, e.rect, side),
                        secondary |-> SecondaryGap(point, e.rect, side)] :
                       e \in {e \in ToSet(placed) : e.pane # at.pane
                                                    /\ PrimaryGap(from, e.rect, side) # None}}
        best == CHOOSE a \in candidates : \A b \in candidates \ {a} : NearerPane(a, b)
        to == RectOf(placed, best.pane)
    IN  IF candidates = {} THEN [at EXCEPT !.point = point]
        ELSE [pane |-> best.pane,
              point |-> IF side \in {"up", "down"}
                          THEN [x |-> OnAxis(point.x, to.x, to.w), y |-> CentreY(to)]
                          ELSE [x |-> CentreX(to), y |-> OnAxis(point.y, to.y, to.h)]]

-----------------------------------------------------------------------------
(* The transactions *)

\* prepareViewTransitionNow: placements and slots under a new layout revision.
TellView ==
    /\ shown' = Placements(layout, zoomed, size)'
    /\ slots' = shown'

\* prepareFocusTransitionNow: placements under the revision of the last view.
TellFocus ==
    /\ shown' = Placements(layout, zoomed, size)'
    /\ UNCHANGED slots

\* nextWindowLayoutRevisionNow
NewRevision == ahead' = 0

Init ==
    /\ \E s \in WindowSizes : size = s
    /\ layout = PaneLayout(1)
    /\ panes = {1}
    /\ focused = 1
    /\ zoomed = None
    /\ cycle = None
    /\ ahead = 0
    /\ shown = Placements(layout, None, size)
    /\ slots = shown

\* splitClientPane; the new pane's ID is not in use.
splitFocusedPane(new, d) ==
    /\ Cardinality(panes) < MaxVisiblePanes
    /\ new = CHOOSE p \in PaneIDs \ panes : \A q \in PaneIDs \ panes : p <= q
    /\ layout' = replacePaneWithSplit(layout, focused, new, d)
    /\ panes' = panes \cup {new}
    /\ focused' = new
    /\ zoomed' = None
    /\ cycle' = None
    /\ NewRevision
    /\ UNCHANGED size
    /\ TellView

\* The zoom after the removal of pane p.
ZoomLeft(p, left) == IF Cardinality(left) <= 1 \/ zoomed = p THEN None ELSE zoomed

\* removeGroupPaneNow of a pane that is not the last.  The focus returns to a pane
\* of its history or to the sibling's first (GroupGraph).  The revision is counted
\* by the window, not by the session.
removeGroupPane(p) ==
    LET left == panes \ {p} IN
    /\ p \in panes /\ left # {}
    /\ layout' = removePaneFromLayout(layout, p)
    /\ panes' = left
    /\ focused' \in IF focused = p THEN left ELSE {focused}
    /\ zoomed' = ZoomLeft(p, left)
    /\ ahead' = ahead + 1
    /\ UNCHANGED <<size, cycle>>
    /\ TellView

\* focusClientPane: told as a whole when the window's revision has changed.
focusPane(p) ==
    LET unzoom == zoomed # None /\ zoomed # p IN
    /\ p \in panes
    /\ focused' = p
    /\ zoomed' = IF unzoom THEN None ELSE zoomed
    /\ ahead' = IF unzoom THEN 0 ELSE ahead
    /\ UNCHANGED <<layout, panes, size, cycle>>
    /\ IF unzoom /\ ahead # 1 THEN TellView ELSE TellFocus

toggleZoom ==
    /\ IF Cardinality(panes) <= 1
         THEN UNCHANGED <<zoomed, ahead>>
         ELSE zoomed' = (IF zoomed = None THEN focused ELSE None) /\ NewRevision
    /\ UNCHANGED <<layout, panes, size, focused, cycle>>
    /\ TellView

cycleWindowLayout ==
    LET next == IF cycle = None THEN 0 ELSE (cycle + 1) % layoutPresetCount IN
    /\ Cardinality(panes) > 1
    /\ layout' = buildPresetLayout(PanesIn(layout), focused, next)
    /\ cycle' = next
    /\ zoomed' = None
    /\ NewRevision
    /\ UNCHANGED <<panes, size, focused>>
    /\ TellView

resizeFocusedPane(side, amount) ==
    LET resized == ResizePaneBoundary(layout, focused, side, amount, WindowRect) IN
    /\ layout' = resized
    /\ zoomed' = None
    /\ IF resized # layout \/ zoomed # None
         THEN cycle' = None /\ NewRevision
         ELSE UNCHANGED <<cycle, ahead>>
    /\ UNCHANGED <<panes, size, focused>>
    /\ TellView

\* swapFocusedPaneNow with the next pane in visual order, or the one before.
swapFocusedPane(step) ==
    LET placed == Compute(layout, WindowRect)
        at == {i \in DOMAIN placed : placed[i].pane = focused}
    IN  /\ zoomed' = None
        /\ IF Len(placed) < 2 \/ at = {}
             THEN UNCHANGED <<layout, cycle, ahead>>
             ELSE \E i \in at :
                    LET other == placed[((i - 1 + step) % Len(placed)) + 1].pane IN
                    /\ layout' = swapLayoutPanes(layout, focused, other)
                    /\ cycle' = None
                    /\ NewRevision
        /\ UNCHANGED <<panes, size, focused>>
        /\ TellView

\* prepareClientWindowGeometryNow: the client's terminal has another size.
resizeWindow(s) ==
    /\ s \in WindowSizes \ {size}
    /\ size' = s
    /\ NewRevision
    /\ UNCHANGED <<layout, panes, focused, zoomed, cycle>>
    /\ TellView

Sides == {"up", "down", "left", "right"}

Next ==
    \/ \E new \in PaneIDs, d \in {"vertical", "horizontal"} : splitFocusedPane(new, d)
    \/ \E p \in PaneIDs : removeGroupPane(p)
    \/ \E p \in PaneIDs : focusPane(p)
    \/ toggleZoom
    \/ cycleWindowLayout
    \/ \E side \in Sides, amount \in Amounts : resizeFocusedPane(side, amount)
    \/ \E step \in {-1, 1} : swapFocusedPane(step)
    \/ \E s \in WindowSizes : resizeWindow(s)

Spec == Init /\ [][Next]_vars

-----------------------------------------------------------------------------
(* Properties *)

TypeOK ==
    /\ panes \subseteq PaneIDs /\ panes # {}
    /\ size \in WindowSizes
    /\ focused \in panes
    /\ zoomed \in panes \cup {None}
    /\ cycle \in 0 .. layoutPresetCount - 1 \cup {None}
    /\ ahead \in Nat

\* Whatever splits, presets, swaps and removals the tree has been through, its
\* leaves are the window's panes, each once.
TreeHoldsPanes ==
    /\ ToSet(PanesIn(layout)) = panes
    /\ Len(PanesIn(layout)) = Cardinality(panes)

\* Every split has room for a cell of each child and the border.
RECURSIVE HasRoom(_, _)
HasRoom(t, rect) ==
    IF IsPane(t) THEN TRUE
    ELSE /\ Axis(t, rect) >= 3
         /\ HasRoom(t.first, rects(t, rect)[1]) /\ HasRoom(t.second, rects(t, rect)[2])

Within(x, y, r) == r.x <= x /\ x < r.x + r.w /\ r.y <= y /\ y < r.y + r.h

\* As long as its splits have room, the rectangles of a layout fill the window but
\* for borders of one cell: no cell belongs to two panes, the corners belong to
\* one, and so does one cell of any two along the edge and of any four that meet.
PanesTileWindow ==
    HasRoom(layout, WindowRect) =>
        LET rectangles == {e.rect : e \in ToSet(Compute(layout, WindowRect))}
            Taken(x, y) == \E r \in rectangles : Within(x, y, r)
            right == size[1] - 1
            bottom == size[2] - 1
        IN  /\ \A x \in 0 .. right, y \in 0 .. bottom :
                  Cardinality({r \in rectangles : Within(x, y, r)}) <= 1
            /\ \A x \in {0, right}, y \in {0, bottom} : Taken(x, y)
            /\ \A x \in 0 .. right - 1, y \in {0, bottom} : Taken(x, y) \/ Taken(x + 1, y)
            /\ \A x \in {0, right}, y \in 0 .. bottom - 1 : Taken(x, y) \/ Taken(x, y + 1)
            /\ \A x \in 0 .. right - 1, y \in 0 .. bottom - 1 :
                  \E i, j \in {0, 1} : Taken(x + i, y + j)

\* Removing a pane collapses its parent and preserves the rest of the tree: the
\* removal of a new pane undoes its split, wherever the split was.
RemovalUndoesSplit ==
    \A p \in panes, d \in {"vertical", "horizontal"} :
        removePaneFromLayout(replacePaneWithSplit(layout, p, MaxPane + 1, d), MaxPane + 1) = layout

\* The layout when pane p is resized towards side.
Resized(p, side, amount) == ResizePaneBoundary(layout, p, side, amount, WindowRect)

\* No edge of a pane moves against the direction in which it is resized, and none
\* across it.
ResizeMovesTowards ==
    HasRoom(layout, WindowRect) =>
        \A p \in panes, side \in Sides, amount \in Amounts :
            LET old == RectOf(Compute(layout, WindowRect), p)
                new == RectOf(Compute(Resized(p, side, amount), WindowRect), p)
                sign == IF side \in {"right", "down"} THEN 1 ELSE -1
            IN  IF AxisOf(side) = "vertical"
                  THEN /\ sign * (new.x - old.x) >= 0
                       /\ sign * (new.x + new.w - old.x - old.w) >= 0
                       /\ new.y = old.y /\ new.h = old.h
                  ELSE /\ sign * (new.y - old.y) >= 0
                       /\ sign * (new.y + new.h - old.y - old.h) >= 0
                       /\ new.x = old.x /\ new.w = old.w

\* Resizing clamps the result so descendants retain their minimum size: no split
\* that had room loses it.
ResizeKeepsRoom ==
    HasRoom(layout, WindowRect) =>
        \A p \in panes, side \in Sides, amount \in Amounts :
            HasRoom(Resized(p, side, amount), WindowRect)

\* In an even preset no pane is more than a cell longer than another.
EvenPresetIsEven ==
    \A preset \in {EvenHorizontal, EvenVertical} :
        LET t == buildPresetLayout(PanesIn(layout), focused, preset)
            lengths == {IF preset = EvenHorizontal THEN e.rect.w ELSE e.rect.h :
                           e \in ToSet(Compute(t, WindowRect))}
        IN  HasRoom(t, WindowRect) => \A m, n \in lengths : m - n <= 1

\* A layout is a partition of the window into the window's panes, and an even preset
\* an even one.
LayoutIsPartition ==
    /\ TypeOK
    /\ TreeHoldsPanes
    /\ PanesTileWindow
    /\ EvenPresetIsEven

\* With the direction keys alone, the sticky focus point and a layout with room,
\* the focus gets from every pane to every other.
NavigationReachesAll ==
    HasRoom(layout, WindowRect) =>
        LET placed == Compute(layout, WindowRect)
            Steps(S) == S \cup {FocusPaneDirection(placed, at, side) : at \in S, side \in Sides}
            Reached(p) == LET start == {[pane |-> p, point |-> None]}
                              steps[n \in 0 .. MaxPane] ==
                                  IF n = 0 THEN start ELSE Steps(steps[n - 1])
                          IN  {at.pane : at \in steps[MaxPane]}
        IN  \A p \in panes : Reached(p) = panes

\* A step to a neighbouring pane is undone by a step back.
StepBackReturns ==
    HasRoom(layout, WindowRect) =>
        LET placed == Compute(layout, WindowRect)
            Opposite == [up |-> "down", down |-> "up", left |-> "right", right |-> "left"]
        IN  \A p \in panes, side \in Sides :
              LET there == FocusPaneDirection(placed, [pane |-> p, point |-> None], side)
              IN  FocusPaneDirection(placed, there, Opposite[side]).pane = p \/ there.pane = p

\* The four directions mean the same for the focus and for the sizes of panes.
DirectionsFollowGeometry ==
    /\ NavigationReachesAll
    /\ StepBackReturns
    /\ ResizeMovesTowards

\* The client's render slots are bound for the placements it is told: a change of
\* focus keeps the revision only when geometry and slot bindings do not change.
SlotsFollowLayout == slots = shown
=============================================================================
