----------------------------- MODULE LayoutPlan -----------------------------
(***************************************************************************)
(* How a saved session keeps the layout of a window, and what a restore makes *)
(* of it: a preset by its name, any other tree as one tile for each pane on a  *)
(* surface of 100 by 100, from which the tree is built again.  Panes are saved *)
(* in the order of the tree's leaves.                                          *)
(***************************************************************************)
EXTENDS WindowLayout

Surface == Rect(0, 0, 100, 100)

\* Mutated: every split is saved as a half.
PlanRatio_Half(r) == 500

\* planLayout: what is no share of a split stands for a half.
PlanRatio(r) == IF r = 0 \/ r >= 1000 THEN 500 ELSE r

Larger(m, n) == IF m < n THEN n ELSE m

\* layoutGridMinimum: a cell for every pane, and none for borders.
RECURSIVE layoutGridMinimum(_)
layoutGridMinimum(t) ==
    IF IsPane(t) THEN [w |-> 1, h |-> 1]
    ELSE LET first == layoutGridMinimum(t.first)
             second == layoutGridMinimum(t.second)
         IN  IF t.dir = "horizontal"
               THEN [w |-> Larger(first.w, second.w), h |-> first.h + second.h]
               ELSE [w |-> first.w + second.w, h |-> Larger(first.h, second.h)]

\* splitPercent: rounded to the nearest cell, with room for the panes of both shares.
splitPercent(size_, ratio, firstMinimum, secondMinimum) ==
    LET value == (size_ * ratio + 500) \div 1000
    IN  IF value < firstMinimum THEN firstMinimum
        ELSE IF value > size_ - secondMinimum THEN size_ - secondMinimum
        ELSE value

\* layoutTiles: the tile of every pane.
RECURSIVE layoutTiles(_, _)
layoutTiles(t, area) ==
    IF IsPane(t) THEN {[pane |-> t.pane, tile |-> area]}
    ELSE LET firstMinimum == layoutGridMinimum(t.first)
             secondMinimum == layoutGridMinimum(t.second)
             height == splitPercent(area.h, PlanRatio(t.ratio), firstMinimum.h, secondMinimum.h)
             width == splitPercent(area.w, PlanRatio(t.ratio), firstMinimum.w, secondMinimum.w)
         IN  IF t.dir = "horizontal"
               THEN layoutTiles(t.first, [area EXCEPT !.h = height])
                    \cup layoutTiles(t.second, [area EXCEPT !.y = @ + height, !.h = @ - height])
               ELSE layoutTiles(t.first, [area EXCEPT !.w = width])
                    \cup layoutTiles(t.second, [area EXCEPT !.x = @ + width, !.w = @ - width])

\* supportedNamedLayout: the presets that are the same tree, for the saved panes.
NamedLayouts(t, active) ==
    {preset \in 0 .. layoutPresetCount - 1 : buildPresetLayout(PanesIn(t), active, preset) = t}

-----------------------------------------------------------------------------
(* Building the tree again *)

Overlap(a, b) == a.x < b.x + b.w /\ b.x < a.x + a.w /\ a.y < b.y + b.h /\ b.y < a.y + a.h

Before(tile, vertical, cut) ==
    IF vertical THEN tile.x + tile.w <= cut ELSE tile.y + tile.h <= cut

Beyond(tile, vertical, cut) == IF vertical THEN tile.x >= cut ELSE tile.y >= cut

\* The cuts that part the tiles in two, in the order they are tried.
Cuts(tiles, vertical) ==
    LET edges == UNION {IF vertical THEN {e.tile.x, e.tile.x + e.tile.w}
                                    ELSE {e.tile.y, e.tile.y + e.tile.h} : e \in tiles}
        parting == {c \in edges : /\ \A e \in tiles : Before(e.tile, vertical, c) \/ Beyond(e.tile, vertical, c)
                                  /\ \E e \in tiles : Before(e.tile, vertical, c)
                                  /\ \E e \in tiles : Beyond(e.tile, vertical, c)}
    IN  SetToSortSeq(parting, <)

\* splitTileLayout: the first cut for which both sides are layouts; None if there is
\* none.  The ratio is that of the cut, rounded to thousandths by restoreLayout.
RECURSIVE splitTileLayout(_, _)
splitTileLayout(tiles, bounds) ==
    IF Cardinality(tiles) = 1
      THEN LET e == CHOOSE e \in tiles : TRUE
           IN  IF e.tile = bounds THEN PaneLayout(e.pane) ELSE None
      ELSE LET Tried(vertical, c) ==
                 LET sides == IF vertical
                                THEN <<[bounds EXCEPT !.w = c - bounds.x],
                                       [bounds EXCEPT !.x = c, !.w = bounds.x + bounds.w - c]>>
                                ELSE <<[bounds EXCEPT !.h = c - bounds.y],
                                       [bounds EXCEPT !.y = c, !.h = bounds.y + bounds.h - c]>>
                     length == IF vertical THEN bounds.w ELSE bounds.h
                     share == c - (IF vertical THEN bounds.x ELSE bounds.y)
                     first == splitTileLayout({e \in tiles : Before(e.tile, vertical, c)}, sides[1])
                     second == splitTileLayout({e \in tiles : Beyond(e.tile, vertical, c)}, sides[2])
                 IN  IF first = None \/ second = None THEN None
                     ELSE SplitLayout(IF vertical THEN "vertical" ELSE "horizontal",
                                      (2000 * share + length) \div (2 * length), first, second)
               vertical == Cuts(tiles, TRUE)
               horizontal == Cuts(tiles, FALSE)
               built == SelectSeq([i \in DOMAIN vertical |-> Tried(TRUE, vertical[i])]
                                  \o [i \in DOMAIN horizontal |-> Tried(FALSE, horizontal[i])],
                                  LAMBDA r : r # None)
           IN  IF built = <<>> THEN None ELSE built[1]

Area(tiles) == FoldSet(LAMBDA e, sum : sum + e.tile.w * e.tile.h, 0, tiles)

\* layoutFromTiles
layoutFromTiles(tiles) ==
    IF \/ \E a, b \in tiles : a # b /\ Overlap(a.tile, b.tile)
       \/ Area(tiles) # Surface.w * Surface.h
      THEN None
      ELSE splitTileLayout(tiles, Surface)

\* What preparePlanTiles saves of a window, and parseMejaWindow and restoreLayout make
\* of it: the first preset that fits, else the tiles.
RestoredLayout(t, active) ==
    LET names == NamedLayouts(t, active)
    IN  IF IsPane(t) THEN t
        ELSE IF names # {}
          THEN buildPresetLayout(PanesIn(t), active, CHOOSE p \in names : \A q \in names : p <= q)
          ELSE layoutFromTiles(layoutTiles(t, Surface))

-----------------------------------------------------------------------------
(* Properties *)

\* The window's layout, and those one more split would make of it.
Trees == {layout} \cup {replacePaneWithSplit(layout, p, MaxPane + 1, d) :
                          p \in panes, d \in {"vertical", "horizontal"}}

\* A window comes back with every pane on its tile, whatever its tree, and saving the
\* restored window saves the same.
SavedLayoutRestores ==
    \A t \in Trees :
        LET restored == RestoredLayout(t, focused)
        IN  /\ restored # None
            /\ layoutTiles(restored, Surface) = layoutTiles(t, Surface)

\* A restored window of the same size has its panes where the saved one had them: no
\* corner is off by more than a cell, although shares are saved as hundredths.
RestoredPanesStayInPlace ==
    HasRoom(layout, WindowRect) =>
        LET restored == RestoredLayout(layout, focused)
            old == Compute(layout, WindowRect)
            new == Compute(restored, WindowRect)
        IN  \A p \in panes :
               /\ Distance(RectOf(old, p).x, RectOf(new, p).x) <= 1
               /\ Distance(RectOf(old, p).y, RectOf(new, p).y) <= 1

\* Saving a layout and restoring it gives the layout back.
RestoreKeepsLayout == SavedLayoutRestores /\ RestoredPanesStayInPlace
=============================================================================
