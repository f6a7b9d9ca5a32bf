--------------------------- MODULE ScanoutProofs ---------------------------
(***************************************************************************)
(* Theorems about Scanout, for any arrangements of panes, any width and any   *)
(* order in which layouts, frames and local input reach the render loop:      *)
(* predictions are for the pane that has the focus on the screen, what is     *)
(* held back is newer than what is shown, and what is shown once the frames    *)
(* have come is what the server has sent last.  The physical screen is that    *)
(* with the visible predictions on it, when nothing wide is printed, and no     *)
(* character that is taken without an echo is ever on it, when only the key     *)
(* for it moves the focus.                                                     *)
(***************************************************************************)
EXTENDS Scanout, FiniteSetTheorems, SequenceTheorems, WellFoundedInduction, TLAPS

-----------------------------------------------------------------------------
(* The inductive invariant *)

\* Records of which no field is typed.
IsLayout(l) == l = [revision |-> l.revision, panes |-> l.panes, focus |-> l.focus]
IsPredictor(p) == p = [target |-> p.target, scopes |-> p.scopes, cursor |-> p.cursor,
                       hasCursor |-> p.hasCursor, awaiting |-> p.awaiting]
IsScanout(s) == s = [layout |-> s.layout, layouts |-> s.layouts, frames |-> s.frames, cache |-> s.cache,
                     cursors |-> s.cursors, predictor |-> s.predictor, screen |-> s.screen]

\* Sequences whose elements are not typed.
IsSequence(xs) == xs \in Seq({xs[i] : i \in DOMAIN xs})

\* One revision binds its slots once; only the focus may differ between two layouts of it.
Agreeing(layouts) == \A a, b \in layouts : a.revision = b.revision => a.panes = b.panes

\* Layouts that a server has published, the newest of which is latest.
PublishedUntil(layouts, latest) ==
    \A l \in layouts : IsLayout(l) /\ l.revision \in Nat /\ l.revision <= latest

LayoutsOf(s) == s.layouts \cup {s.layout}

\* A prediction is for the pane that has the focus.
Focused(s) ==
    s.predictor.target # None =>
        /\ s.predictor.target.revision = s.layout.revision
        /\ s.predictor.target.pane = s.layout.focus
        /\ s.layout.panes[s.predictor.target.slot] = s.layout.focus

HeldBack(s) ==
    /\ \A l \in s.layouts : l.revision > s.layout.revision
    /\ \A k \in DOMAIN s.frames : k[1] > s.layout.revision /\ IsSequence(s.frames[k])

ScanoutOK(s) ==
    /\ IsScanout(s) /\ IsPredictor(s.predictor) /\ IsLayout(s.layout)
    /\ s.layout.revision \in Nat
    /\ Focused(s) /\ HeldBack(s)

Sayings == {control[i] : i \in DOMAIN control}

StreamsOK ==
    /\ IsSequence(control) /\ IsSequence(local)
    /\ \A i \in DOMAIN local : Len(local[i]) \in Nat
    /\ stream = [slot \in Slots |-> stream[slot]]
    /\ \A slot \in Slots : /\ IsSequence(stream[slot])
                           /\ \A i \in DOMAIN stream[slot] : stream[slot][i].revision \in Nat

LayoutsOK ==
    /\ published.revision \in Nat
    /\ Agreeing(LayoutsOf(Scanout) \cup Sayings \cup {published})
    /\ PublishedUntil(LayoutsOf(Scanout) \cup Sayings \cup {published}, published.revision)

Inv == StreamsOK /\ LayoutsOK /\ ScanoutOK(Scanout)

-----------------------------------------------------------------------------
(* Sequences *)

LEMMA SequenceLen ==
  ASSUME NEW xs, IsSequence(xs)
  PROVE  Len(xs) \in Nat /\ DOMAIN xs = 1 .. Len(xs)
BY DEF IsSequence

LEMMA EmptyIsSequence == IsSequence(<<>>)
BY DEF IsSequence

LEMMA AppendIsSequence ==
  ASSUME NEW xs, NEW x, IsSequence(xs)
  PROVE  /\ IsSequence(Append(xs, x))
         /\ \A i \in DOMAIN Append(xs, x) : Append(xs, x)[i] = x \/ (i \in DOMAIN xs /\ Append(xs, x)[i] = xs[i])
<1> DEFINE T == {xs[i] : i \in DOMAIN xs} \cup {x}
           ys == Append(xs, x)
<1>1. xs \in Seq(T)
  BY DEF IsSequence
<1>2. Len(xs) \in Nat /\ DOMAIN xs = 1 .. Len(xs)
  BY SequenceLen
<1>3. ys \in Seq(T) /\ Len(ys) = Len(xs) + 1 /\ DOMAIN ys = 1 .. Len(xs) + 1
  BY <1>1, <1>2
<1>4. \A i \in 1 .. Len(xs) : ys[i] = xs[i]
  BY <1>1, <1>2
<1>5. ys[Len(xs) + 1] = x
  BY <1>1, <1>2
<1>6. \A i \in DOMAIN ys : ys[i] = x \/ (i \in DOMAIN xs /\ ys[i] = xs[i])
  <2> HIDE DEF ys, T
  <2> QED
    BY <1>2, <1>3, <1>4, <1>5
<1>7. ys \in Seq({ys[i] : i \in DOMAIN ys})
  <2> HIDE DEF ys
  <2>1. ys = [i \in 1 .. Len(ys) |-> ys[i]] /\ Len(ys) \in Nat
    BY <1>3
  <2> QED
    BY <2>1, <1>3
<1> QED
  BY <1>6, <1>7 DEF IsSequence

LEMMA TailIsSequence ==
  ASSUME NEW xs, IsSequence(xs), xs # <<>>
  PROVE  /\ IsSequence(Tail(xs)) /\ 1 \in DOMAIN xs /\ Head(xs) = xs[1]
         /\ \A i \in DOMAIN Tail(xs) : i + 1 \in DOMAIN xs /\ Tail(xs)[i] = xs[i + 1]
<1> DEFINE T == {xs[i] : i \in DOMAIN xs}
           ys == Tail(xs)
<1>1. xs \in Seq(T)
  BY DEF IsSequence
<1>2. Len(xs) \in Nat /\ DOMAIN xs = 1 .. Len(xs) /\ Len(xs) # 0
  BY <1>1, SequenceLen
<1>3. ys \in Seq(T) /\ Len(ys) = Len(xs) - 1 /\ DOMAIN ys = 1 .. Len(xs) - 1
  BY <1>1, <1>2
<1>4. \A i \in 1 .. Len(xs) - 1 : ys[i] = xs[i + 1]
  BY <1>1, <1>2
<1>5. ys \in Seq({ys[i] : i \in DOMAIN ys})
  <2> HIDE DEF ys
  <2>1. ys = [i \in 1 .. Len(ys) |-> ys[i]] /\ Len(ys) \in Nat
    BY <1>3, <1>2
  <2> QED
    BY <2>1, <1>3
<1>6. Head(xs) = xs[1]
  BY <1>1, <1>2
<1>7. 1 \in DOMAIN xs
  BY <1>2
<1>8. \A i \in DOMAIN ys : i + 1 \in DOMAIN xs /\ ys[i] = xs[i + 1]
  <2> HIDE DEF ys
  <2> QED
    BY <1>2, <1>3, <1>4
<1>9. IsSequence(ys)
  BY <1>5 DEF IsSequence
<1> QED
  BY <1>6, <1>7, <1>8, <1>9

-----------------------------------------------------------------------------
(* The loops of the model, step by step *)

LEMMA LeastNat ==
  ASSUME NEW T, T \subseteq Nat, T # {}
  PROVE  \E x \in T : \A y \in T : x <= y
<1>1. PICK x \in T : \A y \in T : ~ (<<y, x>> \in OpToRel(<, Nat))
  BY NatLessThanWellFounded, WFMin
<1>2. \A y \in T : y \in Nat /\ x \in Nat /\ ~ (y < x)
  BY <1>1 DEF OpToRel
<1> QED
  BY <1>2

TypedStep(p, keys, context, grid, f, n) ==
  IF n = 0 THEN p ELSE Typed(f[n - 1], keys[n], context, grid)

IsTypedStep(p, keys, context, grid, f, N) == f = [n \in 0 .. N |-> TypedStep(p, keys, context, grid, f, n)]

LEMMA TypedAllExists ==
  ASSUME NEW p, NEW keys, NEW context, NEW grid, NEW N \in Nat
  PROVE  \E f : IsTypedStep(p, keys, context, grid, f, N)
<1> USE DEF IsTypedStep
<1> DEFINE Bad == {m \in Nat : ~ \E f : f = [n \in 0 .. m |-> TypedStep(p, keys, context, grid, f, n)]}
<1>1. SUFFICES ASSUME Bad # {} PROVE FALSE
  OBVIOUS
<1>2. PICK m \in Bad : \A k \in Bad : m <= k
  <2>1. Bad \subseteq Nat
    OBVIOUS
  <2> HIDE DEF Bad
  <2> QED
    BY <1>1, <2>1, LeastNat
<1>3. CASE m = 0
  <2> DEFINE f == [n \in 0 .. 0 |-> p]
  <2>1. f = [n \in 0 .. 0 |-> TypedStep(p, keys, context, grid, f, n)]
    BY DEF TypedStep
  <2> QED
    BY <1>2, <1>3, <2>1
<1>4. CASE m # 0
  <2>1. m - 1 \in Nat /\ m - 1 \notin Bad
    BY <1>2, <1>4
  <2>2. PICK f : f = [n \in 0 .. m - 1 |-> TypedStep(p, keys, context, grid, f, n)]
    BY <2>1
  <2> DEFINE g == [n \in 0 .. m |-> IF n = m THEN TypedStep(p, keys, context, grid, f, m) ELSE f[n]]
  <2>3. ASSUME NEW n \in 0 .. m
        PROVE  g[n] = TypedStep(p, keys, context, grid, g, n)
    <3>1. CASE n = 0
      BY <3>1, <1>4, <2>1, <2>2 DEF TypedStep
    <3>2. CASE n # 0
      <4>1. n - 1 \in 0 .. m - 1 /\ n \in 0 .. m /\ n - 1 # m /\ n - 1 \in 0 .. m
        BY <3>2, <1>2
      <4>2. g[n - 1] = f[n - 1]
        BY <4>1
      <4>3. n = m \/ n \in 0 .. m - 1
        BY <1>2
      <4>4. g[n] = TypedStep(p, keys, context, grid, f, n)
        BY <4>3, <2>2
      <4> QED
        BY <4>2, <4>4, <3>2 DEF TypedStep
    <3> QED
      BY <3>1, <3>2
  <2>4. g = [n \in 0 .. m |-> TypedStep(p, keys, context, grid, g, n)]
    BY <2>3
  <2> HIDE DEF g
  <2> QED
    BY <1>2, <2>4
<1> QED
  BY <1>3, <1>4

LEMMA TypedAllSteps ==
  ASSUME NEW p, NEW keys, NEW context, NEW grid, Len(keys) \in Nat
  PROVE  \E f : /\ \A n \in 0 .. Len(keys) : f[n] = TypedStep(p, keys, context, grid, f, n)
               /\ TypedAll(p, keys, context, grid) = f[Len(keys)]
<1>0. \E g : IsTypedStep(p, keys, context, grid, g, Len(keys))
  BY TypedAllExists
<1> DEFINE f == CHOOSE f : IsTypedStep(p, keys, context, grid, f, Len(keys))
<1>1. \A n \in 0 .. Len(keys) : f[n] = TypedStep(p, keys, context, grid, f, n)
  <2>1. IsTypedStep(p, keys, context, grid, f, Len(keys))
    BY <1>0
  <2> HIDE DEF f
  <2> QED
    BY <2>1 DEF IsTypedStep
<1>2. TypedAll(p, keys, context, grid) = f[Len(keys)]
  BY DEF TypedAll, TypedStep, IsTypedStep
<1> HIDE DEF f
<1> QED
  BY <1>1, <1>2

EmitStep(s, slot, frames, nativeScroll, f, n) ==
  IF n = 0 THEN s ELSE emitFrame(f[n - 1], slot, frames[n], nativeScroll)

IsEmitStep(s, slot, frames, nativeScroll, f, N) == f = [n \in 0 .. N |-> EmitStep(s, slot, frames, nativeScroll, f, n)]

LEMMA EmitFramesExists ==
  ASSUME NEW s, NEW slot, NEW frames, NEW nativeScroll, NEW N \in Nat
  PROVE  \E f : IsEmitStep(s, slot, frames, nativeScroll, f, N)
<1> USE DEF IsEmitStep
<1> DEFINE Bad == {m \in Nat : ~ \E f : f = [n \in 0 .. m |-> EmitStep(s, slot, frames, nativeScroll, f, n)]}
<1>1. SUFFICES ASSUME Bad # {} PROVE FALSE
  OBVIOUS
<1>2. PICK m \in Bad : \A k \in Bad : m <= k
  <2>1. Bad \subseteq Nat
    OBVIOUS
  <2> HIDE DEF Bad
  <2> QED
    BY <1>1, <2>1, LeastNat
<1>3. CASE m = 0
  <2> DEFINE f == [n \in 0 .. 0 |-> s]
  <2>1. f = [n \in 0 .. 0 |-> EmitStep(s, slot, frames, nativeScroll, f, n)]
    BY DEF EmitStep
  <2> QED
    BY <1>2, <1>3, <2>1
<1>4. CASE m # 0
  <2>1. m - 1 \in Nat /\ m - 1 \notin Bad
    BY <1>2, <1>4
  <2>2. PICK f : f = [n \in 0 .. m - 1 |-> EmitStep(s, slot, frames, nativeScroll, f, n)]
    BY <2>1
  <2> DEFINE g == [n \in 0 .. m |-> IF n = m THEN EmitStep(s, slot, frames, nativeScroll, f, m) ELSE f[n]]
  <2>3. ASSUME NEW n \in 0 .. m
        PROVE  g[n] = EmitStep(s, slot, frames, nativeScroll, g, n)
    <3>1. CASE n = 0
      BY <3>1, <1>4, <2>1, <2>2 DEF EmitStep
    <3>2. CASE n # 0
      <4>1. n - 1 \in 0 .. m - 1 /\ n \in 0 .. m /\ n - 1 # m /\ n - 1 \in 0 .. m
        BY <3>2, <1>2
      <4>2. g[n - 1] = f[n - 1]
        BY <4>1
      <4>3. n = m \/ n \in 0 .. m - 1
        BY <1>2
      <4>4. g[n] = EmitStep(s, slot, frames, nativeScroll, f, n)
        BY <4>3, <2>2
      <4> QED
        BY <4>2, <4>4, <3>2 DEF EmitStep
    <3> QED
      BY <3>1, <3>2
  <2>4. g = [n \in 0 .. m |-> EmitStep(s, slot, frames, nativeScroll, g, n)]
    BY <2>3
  <2> HIDE DEF g
  <2> QED
    BY <1>2, <2>4
<1> QED
  BY <1>3, <1>4

LEMMA EmitFramesSteps ==
  ASSUME NEW s, NEW slot, NEW frames, NEW nativeScroll, Len(frames) \in Nat
  PROVE  \E f : /\ \A n \in 0 .. Len(frames) : f[n] = EmitStep(s, slot, frames, nativeScroll, f, n)
               /\ emitFrames(s, slot, frames, nativeScroll) = f[Len(frames)]
<1>0. \E g : IsEmitStep(s, slot, frames, nativeScroll, g, Len(frames))
  BY EmitFramesExists
<1> DEFINE f == CHOOSE f : IsEmitStep(s, slot, frames, nativeScroll, f, Len(frames))
<1>1. \A n \in 0 .. Len(frames) : f[n] = EmitStep(s, slot, frames, nativeScroll, f, n)
  <2>1. IsEmitStep(s, slot, frames, nativeScroll, f, Len(frames))
    BY <1>0
  <2> HIDE DEF f
  <2> QED
    BY <2>1 DEF IsEmitStep
<1>2. emitFrames(s, slot, frames, nativeScroll) = f[Len(frames)]
  BY DEF emitFrames, EmitStep, IsEmitStep
<1> HIDE DEF f
<1> QED
  BY <1>1, <1>2

ReplayStep(old, s, nativeScroll, f, n) ==
  IF n = 0 THEN s
  ELSE IF n \notin DOMAIN s.layout.panes THEN f[n - 1]
  ELSE emitFrames(f[n - 1], n, Replayed(old, s.layout, n), nativeScroll)

IsReplayStep(old, s, nativeScroll, f, N) == f = [n \in 0 .. N |-> ReplayStep(old, s, nativeScroll, f, n)]

LEMMA ReplayExists ==
  ASSUME NEW old, NEW s, NEW nativeScroll, NEW N \in Nat
  PROVE  \E f : IsReplayStep(old, s, nativeScroll, f, N)
<1> USE DEF IsReplayStep
<1> DEFINE Bad == {m \in Nat : ~ \E f : f = [n \in 0 .. m |-> ReplayStep(old, s, nativeScroll, f, n)]}
<1>1. SUFFICES ASSUME Bad # {} PROVE FALSE
  OBVIOUS
<1>2. PICK m \in Bad : \A k \in Bad : m <= k
  <2>1. Bad \subseteq Nat
    OBVIOUS
  <2> HIDE DEF Bad
  <2> QED
    BY <1>1, <2>1, LeastNat
<1>3. CASE m = 0
  <2> DEFINE f == [n \in 0 .. 0 |-> s]
  <2>1. f = [n \in 0 .. 0 |-> ReplayStep(old, s, nativeScroll, f, n)]
    BY DEF ReplayStep
  <2> QED
    BY <1>2, <1>3, <2>1
<1>4. CASE m # 0
  <2>1. m - 1 \in Nat /\ m - 1 \notin Bad
    BY <1>2, <1>4
  <2>2. PICK f : f = [n \in 0 .. m - 1 |-> ReplayStep(old, s, nativeScroll, f, n)]
    BY <2>1
  <2> DEFINE g == [n \in 0 .. m |-> IF n = m THEN ReplayStep(old, s, nativeScroll, f, m) ELSE f[n]]
  <2>3. ASSUME NEW n \in 0 .. m
        PROVE  g[n] = ReplayStep(old, s, nativeScroll, g, n)
    <3>1. CASE n = 0
      BY <3>1, <1>4, <2>1, <2>2 DEF ReplayStep
    <3>2. CASE n # 0
      <4>1. n - 1 \in 0 .. m - 1 /\ n \in 0 .. m /\ n - 1 # m /\ n - 1 \in 0 .. m
        BY <3>2, <1>2
      <4>2. g[n - 1] = f[n - 1]
        BY <4>1
      <4>3. n = m \/ n \in 0 .. m - 1
        BY <1>2
      <4>4. g[n] = ReplayStep(old, s, nativeScroll, f, n)
        BY <4>3, <2>2
      <4> QED
        BY <4>2, <4>4, <3>2 DEF ReplayStep
    <3> QED
      BY <3>1, <3>2
  <2>4. g = [n \in 0 .. m |-> ReplayStep(old, s, nativeScroll, g, n)]
    BY <2>3
  <2> HIDE DEF g
  <2> QED
    BY <1>2, <2>4
<1> QED
  BY <1>3, <1>4

LEMMA ReplaySteps ==
  ASSUME NEW old, NEW s, NEW nativeScroll, Cardinality(Slots) \in Nat
  PROVE  \E f : /\ \A n \in 0 .. Cardinality(Slots) : f[n] = ReplayStep(old, s, nativeScroll, f, n)
               /\ replay(old, s, nativeScroll) = f[Cardinality(Slots)]
<1>0. \E g : IsReplayStep(old, s, nativeScroll, g, Cardinality(Slots))
  BY ReplayExists
<1> DEFINE f == CHOOSE f : IsReplayStep(old, s, nativeScroll, f, Cardinality(Slots))
<1>1. \A n \in 0 .. Cardinality(Slots) : f[n] = ReplayStep(old, s, nativeScroll, f, n)
  <2>1. IsReplayStep(old, s, nativeScroll, f, Cardinality(Slots))
    BY <1>0
  <2> HIDE DEF f
  <2> QED
    BY <2>1 DEF IsReplayStep
<1>2. replay(old, s, nativeScroll) = f[Cardinality(Slots)]
  BY DEF replay, ReplayStep, IsReplayStep
<1> HIDE DEF f
<1> QED
  BY <1>1, <1>2

-----------------------------------------------------------------------------
(* Grids *)

\* Not the last column.
HasRoom(c) == c # Width - 1 /\ c # 2 * Width - 1

\* A wide character has both of its halves, in one row.
IsGrid(grid) ==
    /\ grid = [c \in Cells |-> grid[c]]
    /\ \A c \in Cells : grid[c] = WideLeft => HasRoom(c) /\ grid[c + 1] = WideRight
    /\ \A c \in Cells : grid[c] = WideRight => c # 0 /\ c # Width /\ grid[c - 1] = WideLeft

\* What may be written to a cell.
Fits(what, c) == what # WideRight /\ (what = WideLeft => HasRoom(c))

LEMMA CellsAre ==
  /\ Width \in Nat /\ Width > 0
  /\ \A c : c \in Cells <=> c \in Nat /\ c < 2 * Width
  /\ \A c \in Cells : c \in Int /\ (HasRoom(c) => c + 1 \in Cells) /\ (c # 0 => c - 1 \in Cells)
  /\ \A c \in Cells : Column(c) < Width - 1 => HasRoom(c)
BY SizesAssumption DEF Cells, HasRoom, Column, LastRow

LEMMA EmptyIsGrid == IsGrid(EmptyGrid)
BY DEF IsGrid, EmptyGrid, Blank, WideLeft, WideRight

\* Without the halves of the character at c, a grid is a grid; no half is at c.
LEMMA WithoutHalvesIs ==
  ASSUME NEW grid, IsGrid(grid), NEW c \in Cells
  PROVE  LET w == WithoutHalves(grid, c)
         IN  /\ IsGrid(w) /\ w[c] \notin {WideLeft, WideRight}
             /\ grid[c] \notin {WideLeft, WideRight} => w[c] = grid[c]
             /\ \A d \in Cells : d # c =>
                  \/ w[d] = grid[d]
                  \/ d = c + 1 /\ grid[c] = WideLeft /\ w[d] = Blank
                  \/ d = c - 1 /\ grid[c] = WideRight /\ w[d] = Blank
<1> PICK w : w = WithoutHalves(grid, c)
  OBVIOUS
<1>0. grid = [d \in Cells |-> grid[d]] /\ Blank # WideLeft /\ Blank # WideRight /\ WideLeft # WideRight
  BY DEF IsGrid, Blank, WideLeft, WideRight
<1>1. CASE grid[c] = WideLeft
  <2>1. c + 1 \in Cells /\ c + 1 # c /\ HasRoom(c) /\ grid[c + 1] = WideRight
    BY <1>1, CellsAre DEF IsGrid
  <2>2. w = [grid EXCEPT ![c] = Blank, ![c + 1] = Blank]
    BY <1>0, <1>1 DEF WithoutHalves
  <2>3. /\ w = [d \in Cells |-> w[d]] /\ w[c] = Blank /\ w[c + 1] = Blank
        /\ \A d \in Cells : d # c /\ d # c + 1 => w[d] = grid[d]
    BY <1>0, <2>1, <2>2, Zenon
  <2>4. IsGrid(w)
    <3>1. ASSUME NEW d \in Cells, w[d] = WideLeft PROVE HasRoom(d) /\ w[d + 1] = WideRight
      <4>1. d # c /\ d # c + 1 /\ grid[d] = WideLeft
        BY <1>0, <2>3, <3>1
      <4>2. HasRoom(d) /\ d + 1 \in Cells /\ grid[d + 1] = WideRight
        BY <4>1, CellsAre DEF IsGrid
      <4>3. d + 1 # c /\ d + 1 # c + 1
        BY <1>0, <1>1, <4>1, <4>2, CellsAre
      <4> QED
        BY <2>3, <4>2, <4>3
    <3>2. ASSUME NEW d \in Cells, w[d] = WideRight PROVE d # 0 /\ d # Width /\ w[d - 1] = WideLeft
      <4>1. d # c /\ d # c + 1 /\ grid[d] = WideRight
        BY <1>0, <2>3, <3>2
      <4>2. d # 0 /\ d # Width /\ d - 1 \in Cells /\ grid[d - 1] = WideLeft
        BY <4>1, CellsAre DEF IsGrid
      <4>3. d - 1 # c /\ d - 1 # c + 1
        BY <1>0, <2>1, <4>1, <4>2, CellsAre
      <4> QED
        BY <2>3, <4>2, <4>3
    <3> QED
      BY <2>3, <3>1, <3>2 DEF IsGrid
  <2> QED
    BY <1>0, <1>1, <2>3, <2>4
<1>2. CASE grid[c] = WideRight
  <2>1. c - 1 \in Cells /\ c - 1 # c /\ grid[c - 1] = WideLeft
    BY <1>2, CellsAre DEF IsGrid
  <2>2. w = [grid EXCEPT ![c - 1] = Blank, ![c] = Blank]
    BY <1>0, <1>2 DEF WithoutHalves
  <2>3. /\ w = [d \in Cells |-> w[d]] /\ w[c] = Blank /\ w[c - 1] = Blank
        /\ \A d \in Cells : d # c /\ d # c - 1 => w[d] = grid[d]
    BY <1>0, <2>1, <2>2, Zenon
  <2>4. IsGrid(w)
    <3>1. ASSUME NEW d \in Cells, w[d] = WideLeft PROVE HasRoom(d) /\ w[d + 1] = WideRight
      <4>1. d # c /\ d # c - 1 /\ grid[d] = WideLeft
        BY <1>0, <2>3, <3>1
      <4>2. HasRoom(d) /\ d + 1 \in Cells /\ grid[d + 1] = WideRight
        BY <4>1, CellsAre DEF IsGrid
      <4>3. d + 1 # c /\ d + 1 # c - 1
        BY <1>0, <2>1, <4>1, <4>2, CellsAre
      <4> QED
        BY <2>3, <4>2, <4>3
    <3>2. ASSUME NEW d \in Cells, w[d] = WideRight PROVE d # 0 /\ d # Width /\ w[d - 1] = WideLeft
      <4>1. d # c /\ d # c - 1 /\ grid[d] = WideRight
        BY <1>0, <2>3, <3>2
      <4>2. d # 0 /\ d # Width /\ d - 1 \in Cells /\ grid[d - 1] = WideLeft
        BY <4>1, CellsAre DEF IsGrid
      <4>3. d - 1 # c /\ d - 1 # c - 1
        BY <1>0, <1>2, <4>1, <4>2, CellsAre
      <4> QED
        BY <2>3, <4>2, <4>3
    <3> QED
      BY <2>3, <3>1, <3>2 DEF IsGrid
  <2> QED
    BY <1>0, <1>2, <2>3, <2>4
<1>3. CASE grid[c] \notin {WideLeft, WideRight}
  <2>1. w = grid
    BY <1>3 DEF WithoutHalves
  <2> QED
    BY <1>3, <2>1
<1> QED
  BY <1>1, <1>2, <1>3

\* What a write leaves of a cell that it is not meant for: what was there, or a blank
\* where half a wide character went with its other half.
Spared(grid, after, d, c) ==
    \/ after[d] = grid[d]
    \/ d = c + 1 /\ grid[c] = WideLeft /\ grid[d] = WideRight
    \/ d = c - 1 /\ grid[c] = WideRight

LEMMA WriteIs ==
  ASSUME NEW grid, IsGrid(grid), NEW c \in Cells, NEW what, Fits(what, c)
  PROVE  LET w == Write(grid, c, what)
         IN  /\ IsGrid(w) /\ w[c] = what
             /\ what # WideLeft => \A d \in Cells : d # c => Spared(grid, w, d, c)
             /\ what = WideLeft =>
                  /\ w[c + 1] = WideRight
                  /\ \A d \in Cells : d # c /\ d # c + 1 =>
                        Spared(grid, w, d, c) \/ Spared(grid, w, d, c + 1)
<1> PICK w : w = Write(grid, c, what)
  OBVIOUS
<1>0. Blank # WideLeft /\ Blank # WideRight /\ WideLeft # WideRight
  BY DEF Blank, WideLeft, WideRight
<1> PICK u : u = WithoutHalves(grid, c)
  OBVIOUS
<1>1. /\ IsGrid(u) /\ u[c] \notin {WideLeft, WideRight}
      /\ \A d \in Cells : d # c =>
            \/ u[d] = grid[d]
            \/ d = c + 1 /\ grid[c] = WideLeft /\ u[d] = Blank
            \/ d = c - 1 /\ grid[c] = WideRight /\ u[d] = Blank
  BY WithoutHalvesIs
<1>2. \A d \in Cells : d # c => Spared(grid, u, d, c)
  BY <1>1, CellsAre DEF Spared, IsGrid
<1>3. CASE what # WideLeft
  <2>1. w = [u EXCEPT ![c] = what] /\ what # WideRight
    BY <1>3 DEF Write, Fits
  <2>2. w = [d \in Cells |-> w[d]] /\ w[c] = what /\ \A d \in Cells : d # c => w[d] = u[d]
    BY <1>1, <2>1 DEF IsGrid
  <2>3. IsGrid(w)
    <3>1. ASSUME NEW d \in Cells, w[d] = WideLeft PROVE HasRoom(d) /\ w[d + 1] = WideRight
      <4>1. d # c /\ u[d] = WideLeft
        BY <1>3, <2>2, <3>1
      <4>2. HasRoom(d) /\ d + 1 \in Cells /\ u[d + 1] = WideRight
        BY <1>1, <4>1, CellsAre DEF IsGrid
      <4> QED
        BY <1>1, <2>2, <4>2
    <3>2. ASSUME NEW d \in Cells, w[d] = WideRight PROVE d # 0 /\ d # Width /\ w[d - 1] = WideLeft
      <4>1. d # c /\ u[d] = WideRight
        BY <2>1, <2>2, <3>2
      <4>2. d # 0 /\ d # Width /\ d - 1 \in Cells /\ u[d - 1] = WideLeft
        BY <1>1, <4>1, CellsAre DEF IsGrid
      <4> QED
        BY <1>1, <2>2, <4>2
    <3> QED
      BY <2>2, <3>1, <3>2 DEF IsGrid
  <2>4. \A d \in Cells : d # c => Spared(grid, w, d, c)
    BY <1>2, <2>2 DEF Spared
  <2> QED
    BY <1>3, <2>2, <2>3, <2>4
<1>4. CASE what = WideLeft
  <2>1. HasRoom(c) /\ c + 1 \in Cells /\ c + 1 # c
    BY <1>4, CellsAre DEF Fits
  <2> PICK v : v = WithoutHalves(u, c + 1)
    OBVIOUS
  <2>2. w = [v EXCEPT ![c] = WideLeft, ![c + 1] = WideRight]
    BY <1>4 DEF Write
  <2>3. /\ IsGrid(v) /\ v[c + 1] \notin {WideLeft, WideRight}
        /\ \A d \in Cells : d # c + 1 =>
            \/ v[d] = u[d]
            \/ d = (c + 1) + 1 /\ u[c + 1] = WideLeft /\ v[d] = Blank
            \/ d = (c + 1) - 1 /\ u[c + 1] = WideRight /\ v[d] = Blank
    BY <1>1, <2>1, WithoutHalvesIs
  <2>4. v[c] \notin {WideLeft, WideRight}
    BY <1>0, <1>1, <2>1, <2>3
  <2>5. /\ w = [d \in Cells |-> w[d]] /\ w[c] = WideLeft /\ w[c + 1] = WideRight
        /\ \A d \in Cells : d # c /\ d # c + 1 => w[d] = v[d]
    BY <2>1, <2>2, <2>3 DEF IsGrid
  <2>6. IsGrid(w)
    <3>1. ASSUME NEW d \in Cells, w[d] = WideLeft PROVE HasRoom(d) /\ w[d + 1] = WideRight
      <4>1. CASE d = c
        BY <2>1, <2>5, <4>1
      <4>2. CASE d # c
        <5>1. d # c + 1 /\ v[d] = WideLeft
          BY <1>0, <2>5, <3>1, <4>2
        <5>2. HasRoom(d) /\ d + 1 \in Cells /\ v[d + 1] = WideRight
          BY <2>3, <5>1, CellsAre DEF IsGrid
        <5> QED
          BY <2>3, <2>4, <2>5, <5>2
      <4> QED
        BY <4>1, <4>2
    <3>2. ASSUME NEW d \in Cells, w[d] = WideRight PROVE d # 0 /\ d # Width /\ w[d - 1] = WideLeft
      <4>1. CASE d = c + 1
        <5>1. d # 0 /\ d # Width /\ d - 1 = c
          BY <2>1, <4>1, CellsAre DEF HasRoom
        <5> QED
          BY <2>5, <5>1
      <4>2. CASE d # c + 1
        <5>1. d # c /\ v[d] = WideRight
          BY <1>0, <2>5, <3>2, <4>2
        <5>2. d # 0 /\ d # Width /\ d - 1 \in Cells /\ v[d - 1] = WideLeft
          BY <2>3, <5>1, CellsAre DEF IsGrid
        <5> QED
          BY <2>3, <2>4, <2>5, <5>2
      <4> QED
        BY <4>1, <4>2
    <3> QED
      BY <2>5, <3>1, <3>2 DEF IsGrid
  <2>7. ASSUME NEW d \in Cells, d # c, d # c + 1
        PROVE  Spared(grid, w, d, c) \/ Spared(grid, w, d, c + 1)
    <3>1. w[d] = v[d]
      BY <2>5, <2>7
    <3>2. CASE v[d] = u[d]
      BY <1>2, <2>7, <3>1, <3>2 DEF Spared
    <3>3. CASE v[d] # u[d]
      <4>1. d = (c + 1) + 1 /\ u[c + 1] = WideLeft
        BY <2>3, <2>7, <3>3, CellsAre
      <4>2. grid[c + 1] = WideLeft
        BY <1>0, <1>1, <2>1, <4>1
      <4>3. grid[d] = WideRight
        BY <2>1, <4>1, <4>2 DEF IsGrid
      <4> QED
        BY <4>1, <4>2, <4>3 DEF Spared
    <3> QED
      BY <3>2, <3>3
  <2> QED
    BY <1>4, <2>5, <2>6, <2>7
<1> QED
  BY <1>3, <1>4

-----------------------------------------------------------------------------
(* Painting and scrolling *)

PaintStep(grid, cells, f, n) ==
  IF n = 0 THEN grid
  ELSE IF n - 1 \in DOMAIN cells /\ cells[n - 1] # WideRight
    THEN Write(f[n - 1], n - 1, cells[n - 1])
  ELSE f[n - 1]

IsPaintStep(grid, cells, f, N) == f = [n \in 0 .. N |-> PaintStep(grid, cells, f, n)]

LEMMA PaintCellsExists ==
  ASSUME NEW grid, NEW cells, NEW N \in Nat
  PROVE  \E f : IsPaintStep(grid, cells, f, N)
<1> USE DEF IsPaintStep
<1> DEFINE Bad == {m \in Nat : ~ \E f : f = [n \in 0 .. m |-> PaintStep(grid, cells, f, n)]}
<1>1. SUFFICES ASSUME Bad # {} PROVE FALSE
  OBVIOUS
<1>2. PICK m \in Bad : \A k \in Bad : m <= k
  <2>1. Bad \subseteq Nat
    OBVIOUS
  <2> HIDE DEF Bad
  <2> QED
    BY <1>1, <2>1, LeastNat
<1>3. CASE m = 0
  <2> DEFINE f == [n \in 0 .. 0 |-> grid]
  <2>1. f = [n \in 0 .. 0 |-> PaintStep(grid, cells, f, n)]
    BY DEF PaintStep
  <2> QED
    BY <1>2, <1>3, <2>1
<1>4. CASE m # 0
  <2>1. m - 1 \in Nat /\ m - 1 \notin Bad
    BY <1>2, <1>4
  <2>2. PICK f : f = [n \in 0 .. m - 1 |-> PaintStep(grid, cells, f, n)]
    BY <2>1
  <2> DEFINE g == [n \in 0 .. m |-> IF n = m THEN PaintStep(grid, cells, f, m) ELSE f[n]]
  <2>3. ASSUME NEW n \in 0 .. m
        PROVE  g[n] = PaintStep(grid, cells, g, n)
    <3>1. CASE n = 0
      BY <3>1, <1>4, <2>1, <2>2 DEF PaintStep
    <3>2. CASE n # 0
      <4>1. n - 1 \in 0 .. m - 1 /\ n \in 0 .. m /\ n - 1 # m /\ n - 1 \in 0 .. m
        BY <3>2, <1>2
      <4>2. g[n - 1] = f[n - 1]
        BY <4>1
      <4>3. n = m \/ n \in 0 .. m - 1
        BY <1>2
      <4>4. g[n] = PaintStep(grid, cells, f, n)
        BY <4>3, <2>2
      <4> QED
        BY <4>2, <4>4, <3>2 DEF PaintStep
    <3> QED
      BY <3>1, <3>2
  <2>4. g = [n \in 0 .. m |-> PaintStep(grid, cells, g, n)]
    BY <2>3
  <2> HIDE DEF g
  <2> QED
    BY <1>2, <2>4
<1> QED
  BY <1>3, <1>4

LEMMA PaintCellsSteps ==
  ASSUME NEW grid, NEW cells, (2 * Width) \in Nat
  PROVE  \E f : /\ \A n \in 0 .. (2 * Width) : f[n] = PaintStep(grid, cells, f, n)
               /\ PaintCells(grid, cells) = f[(2 * Width)]
<1>0. \E g : IsPaintStep(grid, cells, g, (2 * Width))
  BY PaintCellsExists
<1> DEFINE f == CHOOSE f : IsPaintStep(grid, cells, f, (2 * Width))
<1>1. \A n \in 0 .. (2 * Width) : f[n] = PaintStep(grid, cells, f, n)
  <2>1. IsPaintStep(grid, cells, f, (2 * Width))
    BY <1>0
  <2> HIDE DEF f
  <2> QED
    BY <2>1 DEF IsPaintStep
<1>2. PaintCells(grid, cells) = f[(2 * Width)]
  BY DEF PaintCells, PaintStep, IsPaintStep
<1> HIDE DEF f
<1> QED
  BY <1>1, <1>2

CopyStep(grid, f, n) ==
  IF n = 0 THEN EmptyGrid ELSE [f[n - 1] EXCEPT ![n - 1] = grid[n - 1 + Width]]

IsCopyStep(grid, f, N) == f = [n \in 0 .. N |-> CopyStep(grid, f, n)]

LEMMA ScrollExists ==
  ASSUME NEW grid, NEW N \in Nat
  PROVE  \E f : IsCopyStep(grid, f, N)
<1> USE DEF IsCopyStep
<1> DEFINE Bad == {m \in Nat : ~ \E f : f = [n \in 0 .. m |-> CopyStep(grid, f, n)]}
<1>1. SUFFICES ASSUME Bad # {} PROVE FALSE
  OBVIOUS
<1>2. PICK m \in Bad : \A k \in Bad : m <= k
  <2>1. Bad \subseteq Nat
    OBVIOUS
  <2> HIDE DEF Bad
  <2> QED
    BY <1>1, <2>1, LeastNat
<1>3. CASE m = 0
  <2> DEFINE f == [n \in 0 .. 0 |-> EmptyGrid]
  <2>1. f = [n \in 0 .. 0 |-> CopyStep(grid, f, n)]
    BY DEF CopyStep
  <2> QED
    BY <1>2, <1>3, <2>1
<1>4. CASE m # 0
  <2>1. m - 1 \in Nat /\ m - 1 \notin Bad
    BY <1>2, <1>4
  <2>2. PICK f : f = [n \in 0 .. m - 1 |-> CopyStep(grid, f, n)]
    BY <2>1
  <2> DEFINE g == [n \in 0 .. m |-> IF n = m THEN CopyStep(grid, f, m) ELSE f[n]]
  <2>3. ASSUME NEW n \in 0 .. m
        PROVE  g[n] = CopyStep(grid, g, n)
    <3>1. CASE n = 0
      BY <3>1, <1>4, <2>1, <2>2 DEF CopyStep
    <3>2. CASE n # 0
      <4>1. n - 1 \in 0 .. m - 1 /\ n \in 0 .. m /\ n - 1 # m /\ n - 1 \in 0 .. m
        BY <3>2, <1>2
      <4>2. g[n - 1] = f[n - 1]
        BY <4>1
      <4>3. n = m \/ n \in 0 .. m - 1
        BY <1>2
      <4>4. g[n] = CopyStep(grid, f, n)
        BY <4>3, <2>2
      <4> QED
        BY <4>2, <4>4, <3>2 DEF CopyStep
    <3> QED
      BY <3>1, <3>2
  <2>4. g = [n \in 0 .. m |-> CopyStep(grid, g, n)]
    BY <2>3
  <2> HIDE DEF g
  <2> QED
    BY <1>2, <2>4
<1> QED
  BY <1>3, <1>4

LEMMA ScrollSteps ==
  ASSUME NEW grid, Width \in Nat
  PROVE  \E f : /\ \A n \in 0 .. Width : f[n] = CopyStep(grid, f, n)
               /\ scrollRegion(grid) = f[Width]
<1>0. \E g : IsCopyStep(grid, g, Width)
  BY ScrollExists
<1> DEFINE f == CHOOSE f : IsCopyStep(grid, f, Width)
<1>1. \A n \in 0 .. Width : f[n] = CopyStep(grid, f, n)
  <2>1. IsCopyStep(grid, f, Width)
    BY <1>0
  <2> HIDE DEF f
  <2> QED
    BY <2>1 DEF IsCopyStep
<1>2. scrollRegion(grid) = f[Width]
  BY DEF scrollRegion, CopyStep, IsCopyStep
<1> HIDE DEF f
<1> QED
  BY <1>1, <1>2

\* Cells of a frame that belong together.
CellsFit(cells) == \A c \in DOMAIN cells \cap Cells : cells[c] # WideRight => Fits(cells[c], c)

\* What a frame paints on a grid is a grid.
LEMMA PaintCellsGrid ==
  ASSUME NEW grid, NEW cells, IsGrid(grid), CellsFit(cells)
  PROVE  IsGrid(PaintCells(grid, cells))
<1> DEFINE N == 2 * Width
<1>1. N \in Nat
  BY CellsAre
<1>2. PICK f : /\ \A n \in 0 .. N : f[n] = PaintStep(grid, cells, f, n)
               /\ PaintCells(grid, cells) = f[N]
  BY <1>1, PaintCellsSteps
<1> DEFINE Bad == {n \in 0 .. N : ~IsGrid(f[n])}
<1>3. SUFFICES ASSUME Bad # {} PROVE FALSE
  BY <1>1, <1>2
<1>4. PICK m \in Bad : \A k \in Bad : m <= k
  <2>1. Bad \subseteq Nat
    OBVIOUS
  <2> HIDE DEF Bad
  <2> QED
    BY <1>3, <2>1, LeastNat
<1>5. m # 0
  <2>1. f[0] = grid
    BY <1>1, <1>2 DEF PaintStep
  <2> QED
    BY <2>1, <1>4
<1>6. m - 1 \in 0 .. N /\ m \in 0 .. N /\ m - 1 \notin Bad /\ m - 1 \in Cells
  BY <1>1, <1>4, <1>5 DEF Cells
<1>7. IsGrid(f[m - 1])
  BY <1>6
<1>8. f[m] = PaintStep(grid, cells, f, m)
  BY <1>2, <1>6
<1>9. CASE m - 1 \in DOMAIN cells /\ cells[m - 1] # WideRight
  <2>1. Fits(cells[m - 1], m - 1)
    BY <1>6, <1>9 DEF CellsFit
  <2>2. f[m] = Write(f[m - 1], m - 1, cells[m - 1])
    BY <1>5, <1>8, <1>9 DEF PaintStep
  <2>3. IsGrid(f[m])
    BY <1>6, <1>7, <2>1, <2>2, WriteIs
  <2> QED
    BY <1>4, <2>3
<1>10. CASE ~(m - 1 \in DOMAIN cells /\ cells[m - 1] # WideRight)
  BY <1>4, <1>5, <1>7, <1>8, <1>10 DEF PaintStep
<1> QED
  BY <1>9, <1>10

\* Painted up to n: what is left of a grid to become another is in changed.
PaintedTo(grid, new, changed, n) ==
    /\ IsGrid(grid)
    /\ \A c \in Cells : c < n \/ c \notin changed => grid[c] = new[c]

LEMMA PaintedFurther ==
  ASSUME NEW grid, NEW new, NEW changed, NEW c \in Cells, IsGrid(new), PaintedTo(grid, new, changed, c),
         c \in changed, new[c] # WideRight
  PROVE  PaintedTo(Write(grid, c, new[c]), new, changed, c + 1)
<1> PICK w : w = Write(grid, c, new[c])
  OBVIOUS
<1>0. IsGrid(grid) /\ WideLeft # WideRight
  BY DEF PaintedTo, WideLeft, WideRight
<1>1. Fits(new[c], c)
  BY DEF Fits, IsGrid
<1>2. /\ IsGrid(w) /\ w[c] = new[c]
      /\ new[c] # WideLeft => \A d \in Cells : d # c => Spared(grid, w, d, c)
      /\ new[c] = WideLeft =>
            /\ w[c + 1] = WideRight
            /\ \A d \in Cells : d # c /\ d # c + 1 => Spared(grid, w, d, c) \/ Spared(grid, w, d, c + 1)
  BY <1>0, <1>1, WriteIs
<1>3. ASSUME NEW d \in Cells, d < c + 1 \/ d \notin changed
      PROVE  w[d] = new[d]
  <2>1. CASE d = c
    BY <1>2, <2>1
  <2>2. CASE d # c /\ new[c] = WideLeft /\ d = c + 1
    <3>1. new[c + 1] = WideRight
      BY <2>2 DEF IsGrid
    <3> QED
      BY <1>2, <2>2, <3>1
  <2>3. CASE d # c /\ ~(new[c] = WideLeft /\ d = c + 1)
    <3>1. grid[d] = new[d]
      <4>1. d < c \/ d \notin changed
        BY <1>3, <2>3, CellsAre
      <4> QED
        BY <4>1 DEF PaintedTo
    <3>2. Spared(grid, w, d, c) \/ (new[c] = WideLeft /\ Spared(grid, w, d, c + 1))
      BY <1>2, <2>3
    <3>3. SUFFICES ASSUME w[d] # grid[d] PROVE FALSE
      BY <3>1
    <3>4. CASE d = c + 1 /\ grid[c] = WideLeft /\ grid[d] = WideRight
      <4>1. new[c] = WideLeft
        <5>1. new[d] = WideRight
          BY <3>1, <3>4
        <5>2. new[d - 1] = WideLeft
          BY <5>1 DEF IsGrid
        <5>3. d - 1 = c
          BY <3>4, CellsAre
        <5> QED
          BY <5>2, <5>3
      <4> QED
        BY <2>3, <3>4, <4>1
    <3>5. CASE d = c - 1 /\ grid[c] = WideRight
      <4>1. grid[c - 1] = WideLeft
        BY <1>0, <3>5 DEF IsGrid
      <4>2. new[d] = WideLeft /\ d + 1 = c
        BY <3>1, <3>5, <4>1, CellsAre
      <4>3. new[c] = WideRight
        BY <4>2 DEF IsGrid
      <4> QED
        BY <4>3
    <3>6. CASE new[c] = WideLeft /\ Spared(grid, w, d, c + 1)
      <4>1. HasRoom(c) /\ c + 1 \in Cells /\ new[c + 1] = WideRight
        BY <3>6, CellsAre DEF IsGrid
      <4>2. d # (c + 1) - 1
        BY <2>3, CellsAre
      <4>3. d = (c + 1) + 1 /\ grid[d] = WideRight
        BY <3>3, <3>6, <4>2 DEF Spared
      <4>4. new[d - 1] = WideLeft
        <5>1. new[d] = WideRight
          BY <3>1, <4>3
        <5> QED
          BY <5>1 DEF IsGrid
      <4>5. d - 1 = c + 1
        BY <4>3, CellsAre
      <4> QED
        BY <1>0, <4>1, <4>4, <4>5
    <3> QED
      BY <3>2, <3>3, <3>4, <3>5, <3>6 DEF Spared
  <2> QED
    BY <2>1, <2>2, <2>3
<1> QED
  BY <1>2, <1>3 DEF PaintedTo

\* A frame that holds all cells in which two grids differ, perhaps more, makes one of the
\* other, wide characters and what they covered included.
LEMMA PaintCellsDifference ==
  ASSUME NEW old, NEW new, NEW changed, IsGrid(old), IsGrid(new),
         changed \subseteq Cells, \A c \in Cells : c \notin changed => old[c] = new[c]
  PROVE  PaintCells(old, [c \in changed |-> new[c]]) = new
<1> DEFINE N == 2 * Width
           cells == [c \in changed |-> new[c]]
<1>1. N \in Nat /\ DOMAIN cells = changed /\ \A c \in changed : cells[c] = new[c]
  BY CellsAre
<1> HIDE DEF cells
<1>2. PICK f : /\ \A n \in 0 .. N : f[n] = PaintStep(old, cells, f, n)
               /\ PaintCells(old, cells) = f[N]
  BY <1>1, PaintCellsSteps
<1> DEFINE Bad == {n \in 0 .. N : ~PaintedTo(f[n], new, changed, n)}
<1>3. ASSUME Bad # {} PROVE FALSE
  <2>1. PICK m \in Bad : \A k \in Bad : m <= k
    <3>1. Bad \subseteq Nat
      OBVIOUS
    <3> HIDE DEF Bad
    <3> QED
      BY <1>3, <3>1, LeastNat
  <2>2. m # 0
    <3>1. f[0] = old
      BY <1>1, <1>2 DEF PaintStep
    <3>2. PaintedTo(old, new, changed, 0)
      BY CellsAre DEF PaintedTo
    <3> QED
      BY <2>1, <3>1, <3>2
  <2>3. m - 1 \in 0 .. N /\ m \in 0 .. N /\ m - 1 \notin Bad /\ m - 1 \in Cells
    BY <1>1, <2>1, <2>2 DEF Cells
  <2> PICK c : c = m - 1
    OBVIOUS
  <2>4. PaintedTo(f[c], new, changed, c) /\ c \in Cells /\ m = c + 1
    BY <2>3
  <2>5. f[m] = PaintStep(old, cells, f, m)
    BY <1>2, <2>3
  <2>6. CASE c \in changed /\ new[c] # WideRight
    <3>1. f[m] = Write(f[c], c, new[c])
      BY <1>1, <2>2, <2>5, <2>6 DEF PaintStep
    <3> QED
      BY <2>1, <2>4, <2>6, <3>1, PaintedFurther
  <2>7. CASE ~(c \in changed /\ new[c] # WideRight)
    <3>1. f[m] = f[c]
      BY <1>1, <2>2, <2>5, <2>7 DEF PaintStep
    <3>2. f[c][c] = new[c]
      <4>1. CASE c \notin changed
        BY <2>4, <4>1 DEF PaintedTo
      <4>2. CASE new[c] = WideRight
        <5>1. c # 0 /\ c - 1 \in Cells /\ c - 1 < c /\ new[c - 1] = WideLeft
          <6>1. c # 0 /\ new[c - 1] = WideLeft
            BY <2>4, <4>2 DEF IsGrid
          <6>2. c - 1 \in Cells /\ c - 1 < c
            BY <2>4, <6>1, CellsAre
          <6> QED
            BY <6>1, <6>2
        <5>2. f[c][c - 1] = WideLeft /\ IsGrid(f[c])
          BY <2>4, <5>1 DEF PaintedTo
        <5>3. f[c][(c - 1) + 1] = WideRight /\ (c - 1) + 1 = c
          BY <2>4, <5>1, <5>2, CellsAre DEF IsGrid
        <5> QED
          BY <4>2, <5>3
      <4> QED
        BY <2>7, <4>1, <4>2
    <3>3. PaintedTo(f[c], new, changed, m)
      <4>1. \A d \in Cells : d < m => d < c \/ d = c
        BY <2>4, CellsAre
      <4> QED
        BY <2>4, <3>2, <4>1 DEF PaintedTo
    <3> QED
      BY <2>1, <3>1, <3>3
  <2> QED
    BY <2>6, <2>7
<1>4. PaintedTo(f[N], new, changed, N)
  BY <1>1, <1>3
<1>5. \A c \in Cells : f[N][c] = new[c]
  BY <1>4, CellsAre DEF PaintedTo
<1>6. f[N] = new
  BY <1>4, <1>5 DEF PaintedTo, IsGrid
<1> QED
  BY <1>2, <1>6 DEF cells

\* The last row takes the place of the first, and is blank.
LEMMA ScrollRegionIs ==
  ASSUME NEW grid
  PROVE  scrollRegion(grid) = [c \in Cells |-> IF c < Width THEN grid[c + Width] ELSE Blank]
<1>1. Width \in Nat /\ \A c \in Cells : c \in Nat
  BY CellsAre
<1>2. PICK f : /\ \A n \in 0 .. Width : f[n] = CopyStep(grid, f, n)
               /\ scrollRegion(grid) = f[Width]
  BY <1>1, ScrollSteps
<1> DEFINE Copied(n) == [c \in Cells |-> IF c < n THEN grid[c + Width] ELSE Blank]
           Bad == {n \in 0 .. Width : f[n] # Copied(n)}
<1>3. SUFFICES ASSUME Bad # {} PROVE FALSE
  BY <1>1, <1>2
<1>4. PICK m \in Bad : \A k \in Bad : m <= k
  <2>1. Bad \subseteq Nat
    OBVIOUS
  <2> HIDE DEF Bad
  <2> QED
    BY <1>3, <2>1, LeastNat
<1>5. m # 0
  <2>1. f[0] = EmptyGrid
    <3>1. 0 \in 0 .. Width
      BY <1>1
    <3>2. f[0] = CopyStep(grid, f, 0)
      BY <1>2, <3>1
    <3> QED
      BY <3>2 DEF CopyStep
  <2>2. EmptyGrid = Copied(0)
    BY <1>1 DEF EmptyGrid
  <2> QED
    BY <2>1, <2>2, <1>4
<1>6. m - 1 \in 0 .. Width /\ m \in 0 .. Width /\ m - 1 \notin Bad
  BY <1>1, <1>4, <1>5
<1>7. f[m - 1] = Copied(m - 1)
  BY <1>6
<1>8. f[m] = [f[m - 1] EXCEPT ![m - 1] = grid[m - 1 + Width]]
  BY <1>2, <1>5, <1>6 DEF CopyStep
<1>9. f[m] = Copied(m)
  <2>1. \A c \in Cells : c < m <=> c < m - 1 \/ c = m - 1
    BY <1>1, <1>6
  <2>2. \A c \in Cells : f[m][c] = IF c < m THEN grid[c + Width] ELSE Blank
    BY <1>7, <1>8, <2>1
  <2>3. f[m] = [c \in Cells |-> f[m][c]]
    BY <1>7, <1>8
  <2> QED
    BY <2>2, <2>3
<1> QED
  BY <1>4, <1>9

LEMMA ScrollRegionGrid ==
  ASSUME NEW grid, IsGrid(grid)
  PROVE  IsGrid(scrollRegion(grid))
<1> PICK w : w = scrollRegion(grid)
  OBVIOUS
<1>1. w = [c \in Cells |-> IF c < Width THEN grid[c + Width] ELSE Blank]
  BY ScrollRegionIs
<1>2. Blank # WideLeft /\ Blank # WideRight
  BY DEF Blank, WideLeft, WideRight
<1>3. ASSUME NEW c \in Cells, w[c] = WideLeft PROVE HasRoom(c) /\ w[c + 1] = WideRight
  <2>1. c < Width /\ c + Width \in Cells /\ grid[c + Width] = WideLeft
    BY <1>1, <1>2, <1>3, CellsAre
  <2>2. HasRoom(c + Width) /\ grid[(c + Width) + 1] = WideRight
    BY <2>1 DEF IsGrid
  <2>3. c + 1 < Width /\ c + 1 \in Cells /\ HasRoom(c) /\ (c + Width) + 1 = (c + 1) + Width
    BY <2>1, <2>2, CellsAre DEF HasRoom
  <2> QED
    BY <1>1, <2>2, <2>3
<1>4. ASSUME NEW c \in Cells, w[c] = WideRight PROVE c # 0 /\ c # Width /\ w[c - 1] = WideLeft
  <2>1. c < Width /\ c + Width \in Cells /\ grid[c + Width] = WideRight
    BY <1>1, <1>2, <1>4, CellsAre
  <2>2. c + Width # Width /\ grid[(c + Width) - 1] = WideLeft
    BY <2>1 DEF IsGrid
  <2>3. c # 0 /\ c # Width /\ c - 1 < Width /\ c - 1 \in Cells /\ (c + Width) - 1 = (c - 1) + Width
    BY <2>1, <2>2, CellsAre
  <2> QED
    BY <1>1, <2>2, <2>3
<1> QED
  BY <1>1, <1>3, <1>4 DEF IsGrid

-----------------------------------------------------------------------------
(* Predictions *)

\* A prediction goes on for the same pane, or is given up.
SameTarget(p, q) == IsPredictor(q) /\ q.target \in {p.target, None}

LEMMA SameTargetTransitive ==
  ASSUME NEW p, NEW q, NEW r, SameTarget(p, q), SameTarget(q, r)
  PROVE  SameTarget(p, r)
BY DEF SameTarget

LEMMA ClearSameTarget ==
  ASSUME NEW p
  PROVE  SameTarget(p, clear(p)) /\ clear(p).target = None
BY DEF SameTarget, clear, NoPrediction, IsPredictor

LEMMA BoundarySameTarget ==
  ASSUME NEW p, IsPredictor(p)
  PROVE  SameTarget(p, boundary(p))
<1> DEFINE scopes == IF ~CurrentScopeIsOpen(p) THEN p.scopes
                     ELSE IF Last(p.scopes).trusted
                       THEN [p.scopes EXCEPT ![Len(p.scopes)].closed = TRUE]
                       ELSE Front(p.scopes)
<1>1. boundary(p) = [p EXCEPT !.scopes = scopes, !.hasCursor = FALSE, !.awaiting = TRUE,
                             !.target = IF scopes = <<>> THEN None ELSE @]
  BY DEF boundary
<1> HIDE DEF scopes
<1> QED
  BY <1>1 DEF SameTarget, IsPredictor

LEMMA PredictSameTarget ==
  ASSUME NEW p, NEW op, IsPredictor(p)
  PROVE  SameTarget(p, Predict(p, op))
<1> PICK scopes : Predict(p, op) = [p EXCEPT !.scopes = scopes, !.cursor = op.after]
  BY DEF Predict
<1> QED
  BY DEF SameTarget, IsPredictor

LEMMA TypedSameTarget ==
  ASSUME NEW p, NEW key, NEW context, NEW grid, IsPredictor(p)
  PROVE  SameTarget(p, Typed(p, key, context, grid))
<1>1. SameTarget(p, p)
  BY DEF SameTarget
<1>2. SameTarget(p, boundary(p))
  BY BoundarySameTarget
<1>3. \A op : SameTarget(p, Predict(p, op))
  BY PredictSameTarget
<1>4. \/ Typed(p, key, context, grid) \in {p, boundary(p)}
      \/ \E op : Typed(p, key, context, grid) = Predict(p, op)
  BY DEF Typed
<1> QED
  BY <1>1, <1>2, <1>3, <1>4

LEMMA TypedAllSameTarget ==
  ASSUME NEW p, NEW keys, NEW context, NEW grid, IsPredictor(p), Len(keys) \in Nat
  PROVE  SameTarget(p, TypedAll(p, keys, context, grid))
<1>1. PICK f : /\ \A n \in 0 .. Len(keys) : f[n] = TypedStep(p, keys, context, grid, f, n)
               /\ TypedAll(p, keys, context, grid) = f[Len(keys)]
  BY TypedAllSteps
<1> DEFINE Bad == {n \in 0 .. Len(keys) : ~SameTarget(p, f[n])}
<1>2. SUFFICES ASSUME Bad # {} PROVE FALSE
  BY <1>1
<1>3. PICK m \in Bad : \A k \in Bad : m <= k
  <2>1. Bad \subseteq Nat
    OBVIOUS
  <2> HIDE DEF Bad
  <2> QED
    BY <1>2, <2>1, LeastNat
<1>4. m # 0
  <2>1. f[0] = p
    BY <1>1 DEF TypedStep
  <2> QED
    BY <2>1, <1>3 DEF SameTarget
<1>5. m - 1 \in 0 .. Len(keys) /\ m \in 0 .. Len(keys) /\ m - 1 \notin Bad
  BY <1>3, <1>4
<1>6. SameTarget(p, f[m - 1])
  BY <1>5
<1>7. f[m] = Typed(f[m - 1], keys[m], context, grid)
  BY <1>1, <1>4, <1>5 DEF TypedStep
<1>8. SameTarget(f[m - 1], f[m])
  BY <1>6, <1>7, TypedSameTarget DEF SameTarget
<1> QED
  BY <1>3, <1>6, <1>8, SameTargetTransitive

\* What is typed is predicted for the pane it is typed at, or not at all.
LEMMA LocalInputTarget ==
  ASSUME NEW p, NEW keys, NEW context, NEW grid, IsPredictor(p), Len(keys) \in Nat
  PROVE  /\ IsPredictor(applyLocalInput(p, keys, context, grid).predictor)
         /\ applyLocalInput(p, keys, context, grid).predictor.target \in {context.target, None}
<1> DEFINE started == IF p.target = context.target THEN p
                   ELSE [NoPrediction EXCEPT !.target = context.target, !.cursor = context.cursor,
                                             !.hasCursor = context.visible]
<1>1. IsPredictor(started) /\ started.target = context.target
  BY DEF IsPredictor, NoPrediction
<1>2. applyLocalInput(p, keys, context, grid).predictor = TypedAll(started, keys, context, grid)
  BY DEF applyLocalInput
<1> HIDE DEF started
<1>3. SameTarget(started, TypedAll(started, keys, context, grid))
  BY <1>1, TypedAllSameTarget
<1> QED
  BY <1>1, <1>2, <1>3 DEF SameTarget

LEMMA ConfirmedSameTarget ==
  ASSUME NEW p, NEW n, NEW before, IsPredictor(p)
  PROVE  SameTarget(p, Confirmed(p, n, before))
<1> PICK scopes : Confirmed(p, n, before) =
                    [p EXCEPT !.scopes = scopes, !.target = IF scopes = <<>> THEN None ELSE @]
  BY Zenon DEF Confirmed
<1> QED
  BY DEF SameTarget, IsPredictor

LEMMA AuthoritativeFrameTarget ==
  ASSUME NEW p, NEW target, NEW frame, NEW touched, NEW before, NEW grid, IsPredictor(p)
  PROVE  SameTarget(p, applyAuthoritativeFrame(p, target, frame, touched, before, grid).predictor)
<1> DEFINE result == applyAuthoritativeFrame(p, target, frame, touched, before, grid)
           moved == [p EXCEPT !.cursor = frame.cursor, !.hasCursor = TRUE]
<1>1. SameTarget(p, p) /\ SameTarget(p, clear(p)) /\ SameTarget(p, moved)
  <2>1. SameTarget(p, p) /\ SameTarget(p, clear(p))
    BY ClearSameTarget DEF SameTarget
  <2>2. SameTarget(p, moved)
    <3>1. PICK cursor : cursor = frame.cursor
      OBVIOUS
    <3>2. moved = [p EXCEPT !.cursor = cursor, !.hasCursor = TRUE]
      BY <3>1
    <3> HIDE DEF moved
    <3> QED
      BY <3>2 DEF SameTarget, IsPredictor
  <2> QED
    BY <2>1, <2>2
<1>2. \A n : SameTarget(p, Confirmed(p, n, before))
  BY ConfirmedSameTarget
<1>3. \A n : SameTarget(p, [Confirmed(p, n, before) EXCEPT !.cursor = frame.cursor, !.hasCursor = TRUE])
  <2>1. ASSUME NEW q, NEW cursor, SameTarget(p, q)
        PROVE  SameTarget(p, [q EXCEPT !.cursor = cursor, !.hasCursor = TRUE])
    <3>1. PICK r : r = [q EXCEPT !.cursor = cursor, !.hasCursor = TRUE]
      OBVIOUS
    <3>2. r.target = q.target /\ IsPredictor(r)
      BY <2>1, <3>1 DEF SameTarget, IsPredictor
    <3> QED
      BY <2>1, <3>1, <3>2 DEF SameTarget
  <2> QED
    BY <1>2, <2>1
<1>4. \/ result.predictor \in {p, clear(p), moved}
      \/ \E n : \/ result.predictor = Confirmed(p, n, before)
               \/ result.predictor = [Confirmed(p, n, before) EXCEPT !.cursor = frame.cursor, !.hasCursor = TRUE]
  BY DEF applyAuthoritativeFrame, Overlaid, Contradicted
<1> HIDE DEF result, moved
<1>5. SameTarget(p, result.predictor)
  BY <1>1, <1>2, <1>3, <1>4
<1> QED
  BY <1>5 DEF result

-----------------------------------------------------------------------------
(* What the render loop does to a state *)

\* Cells and predictions change; layouts and what is held back stay.
Keeps(s, t) ==
    /\ IsScanout(t)
    /\ t.layout = s.layout /\ t.layouts = s.layouts /\ t.frames = s.frames
    /\ SameTarget(s.predictor, t.predictor)

\* Cells, cursors and what is held back stay.
Unmoved(s, t) ==
    /\ t.cache = s.cache /\ t.cursors = s.cursors /\ t.frames = s.frames
    /\ t.layout.revision = s.layout.revision

LEMMA KeepsTransitive ==
  ASSUME NEW s, NEW t, NEW u, Keeps(s, t), Keeps(t, u)
  PROVE  Keeps(s, u)
BY SameTargetTransitive DEF Keeps

LEMMA KeepsItself ==
  ASSUME NEW s, IsScanout(s), IsPredictor(s.predictor)
  PROVE  Keeps(s, s)
BY DEF Keeps, SameTarget

LEMMA EmitFrameKeeps ==
  ASSUME NEW s, NEW slot, NEW frame, NEW nativeScroll, IsScanout(s), IsPredictor(s.predictor)
  PROVE  Keeps(s, emitFrame(s, slot, frame, nativeScroll))
<1> PICK t : t = emitFrame(s, slot, frame, nativeScroll)
  OBVIOUS
<1>1. PICK p, c, u, v : /\ SameTarget(s.predictor, p)
                        /\ t = [s EXCEPT !.cache[slot] = c, !.cursors[slot] = u,
                                         !.predictor = p, !.screen[slot] = v]
  <2> DEFINE before == IF frame.scroll THEN scrollRegion(s.cache[slot]) ELSE s.cache[slot]
             after == PaintCells(before, frame.cells)
             touched == DOMAIN frame.cells \cup {c \in Cells : before[c] # after[c]}
             target == [pane |-> s.layout.panes[slot], slot |-> slot, revision |-> frame.revision]
             result == applyAuthoritativeFrame(s.predictor, target, frame, touched, before, after)
             native == nativeScroll /\ ~result.repaint
             old == IF frame.scroll THEN scrollRegion(s.screen[slot]) ELSE s.screen[slot]
             cursor == [cursor |-> frame.cursor, visible |-> frame.visible]
             painted == IF frame.scroll /\ ~native THEN after
                        ELSE Paint(PaintCells(old, frame.cells), result.spans)
  <2>1. emitFrame(s, slot, frame, nativeScroll) =
            [s EXCEPT !.cache[slot] = after, !.cursors[slot] = cursor,
                      !.predictor = result.predictor, !.screen[slot] = painted]
    BY Zenon DEF emitFrame
  <2>2. SameTarget(s.predictor, result.predictor)
    BY AuthoritativeFrameTarget
  <2> HIDE DEF before, after, touched, target, result, native, old, cursor, painted
  <2> QED
    BY <2>1, <2>2
<1>2. /\ t.layout = s.layout /\ t.layouts = s.layouts /\ t.frames = s.frames
      /\ t.predictor = p /\ IsScanout(t)
  BY <1>1 DEF IsScanout
<1> QED
  BY <1>1, <1>2 DEF Keeps

LEMMA EmitFramesKeep ==
  ASSUME NEW s, NEW slot, NEW frames, NEW nativeScroll, Len(frames) \in Nat,
         IsScanout(s), IsPredictor(s.predictor)
  PROVE  Keeps(s, emitFrames(s, slot, frames, nativeScroll))
<1>1. PICK f : /\ \A n \in 0 .. Len(frames) : f[n] = EmitStep(s, slot, frames, nativeScroll, f, n)
               /\ emitFrames(s, slot, frames, nativeScroll) = f[Len(frames)]
  BY EmitFramesSteps
<1> DEFINE Bad == {n \in 0 .. Len(frames) : ~Keeps(s, f[n])}
<1>2. SUFFICES ASSUME Bad # {} PROVE FALSE
  BY <1>1
<1>3. PICK m \in Bad : \A k \in Bad : m <= k
  <2>1. Bad \subseteq Nat
    OBVIOUS
  <2> HIDE DEF Bad
  <2> QED
    BY <1>2, <2>1, LeastNat
<1>4. m # 0
  <2>1. f[0] = s
    BY <1>1 DEF EmitStep
  <2> QED
    BY <2>1, <1>3, KeepsItself
<1>5. m - 1 \in 0 .. Len(frames) /\ m \in 0 .. Len(frames) /\ m - 1 \notin Bad
  BY <1>3, <1>4
<1>6. Keeps(s, f[m - 1])
  BY <1>5
<1>7. f[m] = emitFrame(f[m - 1], slot, frames[m], nativeScroll)
  BY <1>1, <1>4, <1>5 DEF EmitStep
<1>8. Keeps(f[m - 1], f[m])
  BY <1>6, <1>7, EmitFrameKeeps DEF Keeps, SameTarget
<1> QED
  BY <1>3, <1>6, <1>8, KeepsTransitive

LEMMA ReplayKeeps ==
  ASSUME NEW old, NEW s, NEW nativeScroll, IsScanout(s), IsPredictor(s.predictor),
         \A n \in DOMAIN s.layout.panes : Len(Waiting(old, s.layout.revision, n)) \in Nat
  PROVE  Keeps(s, replay(old, s, nativeScroll))
<1>1. Cardinality(Slots) \in Nat
  BY SlotsAssumption, FS_CardinalityType
<1> DEFINE N == Cardinality(Slots)
<1>2. PICK f : /\ \A n \in 0 .. N : f[n] = ReplayStep(old, s, nativeScroll, f, n)
               /\ replay(old, s, nativeScroll) = f[N]
  BY <1>1, ReplaySteps
<1> HIDE DEF N
<1> DEFINE Bad == {n \in 0 .. N : ~Keeps(s, f[n])}
<1>3. SUFFICES ASSUME Bad # {} PROVE FALSE
  BY <1>1, <1>2 DEF N
<1>4. PICK m \in Bad : \A k \in Bad : m <= k
  <2>1. Bad \subseteq Nat
    OBVIOUS
  <2> HIDE DEF Bad
  <2> QED
    BY <1>3, <2>1, LeastNat
<1>5. m # 0
  <2>1. f[0] = s
    BY <1>1, <1>2 DEF ReplayStep, N
  <2> QED
    BY <2>1, <1>4, KeepsItself
<1>6. m - 1 \in 0 .. N /\ m \in 0 .. N /\ m - 1 \notin Bad
  BY <1>1, <1>4, <1>5 DEF N
<1>7. Keeps(s, f[m - 1])
  BY <1>6
<1>8. f[m] = ReplayStep(old, s, nativeScroll, f, m)
  BY <1>2, <1>6
<1>9. CASE m \notin DOMAIN s.layout.panes
  BY <1>4, <1>5, <1>7, <1>8, <1>9 DEF ReplayStep
<1>10. CASE m \in DOMAIN s.layout.panes
  <2>1. f[m] = emitFrames(f[m - 1], m, Waiting(old, s.layout.revision, m), nativeScroll)
    BY <1>5, <1>8, <1>10 DEF ReplayStep, Replayed
  <2>2. Keeps(f[m - 1], f[m])
    BY <1>7, <1>10, <2>1, EmitFramesKeep DEF Keeps, SameTarget
  <2> QED
    BY <1>4, <1>7, <2>2, KeepsTransitive
<1> QED
  BY <1>9, <1>10

LEMMA WaitingLen ==
  ASSUME NEW s, HeldBack(s), NEW revision, NEW slot
  PROVE  IsSequence(Waiting(s, revision, slot)) /\ Len(Waiting(s, revision, slot)) \in Nat
<1>1. IsSequence(Waiting(s, revision, slot))
  BY EmptyIsSequence DEF Waiting, HeldBack
<1> QED
  BY <1>1, SequenceLen

\* A layout held back, once shown, is shown without a prediction; a prediction for it
\* comes later.
LEMMA TryActivateRenders ==
  ASSUME NEW s, ScanoutOK(s), NEW revision, NEW nativeScroll,
         \A l \in s.layouts : IsLayout(l) /\ l.revision \in Nat
  PROVE  LET t == tryActivate(s, revision, nativeScroll)
         IN  ScanoutOK(t) /\ LayoutsOf(t) \subseteq LayoutsOf(s)
<1> DEFINE layouts == {l \in s.layouts : l.revision = revision}
           l == CHOOSE l \in layouts : TRUE
           u == Cleared(s, l)
           t == replay(s, u, nativeScroll)
<1>1. CASE layouts = {} \/ ~IsReady(s, l)
  BY <1>1 DEF tryActivate
<1>2. CASE layouts # {} /\ IsReady(s, l)
  <2>1. tryActivate(s, revision, nativeScroll) = t
    BY <1>2, Zenon DEF tryActivate
  <2>2. l \in s.layouts /\ l.revision = revision
    BY <1>2
  <2> HIDE DEF layouts, l
  <2>3. PICK p, c, v, w, ls, fs :
            /\ u = [s EXCEPT !.layout = l, !.predictor = p, !.cache = c, !.cursors = v, !.screen = w,
                             !.layouts = ls, !.frames = fs]
            /\ p = clear(s.predictor)
            /\ ls = {k \in s.layouts : k.revision > l.revision}
            /\ fs = [k \in {j \in DOMAIN s.frames : j[1] > l.revision} |-> s.frames[k]]
    BY DEF Cleared, ScanoutOK, IsScanout
  <2>4. /\ IsScanout(u) /\ u.layout = l /\ u.predictor = p /\ u.layouts = ls /\ u.frames = fs
    BY <2>3 DEF ScanoutOK, IsScanout
  <2> HIDE DEF u
  <2>5. IsPredictor(p) /\ p.target = None
    BY <2>3, ClearSameTarget DEF SameTarget
  <2>6. \A n \in DOMAIN u.layout.panes : Len(Waiting(s, u.layout.revision, n)) \in Nat
    BY WaitingLen DEF ScanoutOK
  <2>7. Keeps(u, t)
    BY <2>4, <2>5, <2>6, ReplayKeeps
  <2> HIDE DEF t
  <2>8. t.layout = l /\ t.layouts = ls /\ t.frames = fs /\ IsScanout(t)
    BY <2>4, <2>7 DEF Keeps
  <2>9. IsPredictor(t.predictor) /\ t.predictor.target = None
    BY <2>4, <2>5, <2>7 DEF Keeps, SameTarget
  <2>10. HeldBack(t)
    <3>1. \A k \in ls : k.revision > l.revision
      BY <2>3
    <3>2. \A k \in DOMAIN fs : k[1] > l.revision /\ IsSequence(fs[k])
      BY <2>3 DEF ScanoutOK, HeldBack
    <3> QED
      BY <2>8, <3>1, <3>2 DEF HeldBack
  <2>11. ScanoutOK(t)
    BY <2>2, <2>8, <2>9, <2>10 DEF ScanoutOK, Focused
  <2>12. LayoutsOf(t) \subseteq LayoutsOf(s)
    BY <2>2, <2>3, <2>8 DEF LayoutsOf
  <2> QED
    BY <2>1, <2>11, <2>12
<1> QED
  BY <1>1, <1>2

LEMMA ResetRenders ==
  ASSUME NEW s, ScanoutOK(s)
  PROVE  /\ ScanoutOK(resetPrediction(s)) /\ LayoutsOf(resetPrediction(s)) = LayoutsOf(s)
         /\ resetPrediction(s).layout = s.layout /\ resetPrediction(s).layouts = s.layouts
         /\ resetPrediction(s).predictor.target = None
         /\ Unmoved(s, resetPrediction(s))
<1> PICK t : t = resetPrediction(s)
  OBVIOUS
<1>1. PICK p, w : t = [s EXCEPT !.predictor = p, !.screen = w] /\ p = clear(s.predictor)
  <2> DEFINE target == s.predictor.target
             p == clear(s.predictor)
             painted == Paint(s.screen[target.slot], repairSpans(visibleOperations(s.predictor), s.cache[target.slot]))
  <2>1. CASE target = None
    <3>1. resetPrediction(s) = [s EXCEPT !.predictor = clear(@)]
      BY <2>1 DEF resetPrediction
    <3>2. resetPrediction(s) = [s EXCEPT !.predictor = p, !.screen = s.screen]
      <4>1. IsScanout(s)
        BY DEF ScanoutOK
      <4> HIDE DEF p
      <4>2. resetPrediction(s) = [s EXCEPT !.predictor = p]
        BY <3>1 DEF p
      <4> QED
        BY <4>1, <4>2 DEF IsScanout
    <3> QED
      BY <3>2
  <2>2. CASE target # None
    <3>1. resetPrediction(s) = [s EXCEPT !.predictor = p, !.screen[target.slot] = painted]
      BY <2>2, Zenon DEF resetPrediction
    <3>2. resetPrediction(s) = [s EXCEPT !.predictor = p, !.screen = [s.screen EXCEPT ![target.slot] = painted]]
      <4>1. IsScanout(s)
        BY DEF ScanoutOK
      <4> HIDE DEF p, painted, target
      <4> QED
        BY <3>1, <4>1 DEF IsScanout
    <3> QED
      BY <3>2
  <2> QED
    BY <2>1, <2>2
<1>2. IsPredictor(p) /\ p.target = None
  BY <1>1, ClearSameTarget DEF SameTarget
<1>3. /\ t.layout = s.layout /\ t.layouts = s.layouts /\ t.frames = s.frames
      /\ t.predictor = p /\ t.cache = s.cache /\ t.cursors = s.cursors /\ IsScanout(t)
  BY <1>1 DEF ScanoutOK, IsScanout
<1>4. ScanoutOK(t) /\ LayoutsOf(t) = LayoutsOf(s)
  BY <1>2, <1>3 DEF ScanoutOK, Focused, HeldBack, LayoutsOf
<1>5. Unmoved(s, t)
  BY <1>3 DEF Unmoved
<1> QED
  BY <1>2, <1>3, <1>4, <1>5

\* The same layout again, perhaps with another focus.
LEMMA RefocusRenders ==
  ASSUME NEW s, ScanoutOK(s), NEW l, IsLayout(l), l.revision = s.layout.revision, l.panes = s.layout.panes,
         s.predictor.target # None => l.focus = s.layout.focus
  PROVE  LET t == [s EXCEPT !.layout = l]
         IN  ScanoutOK(t) /\ LayoutsOf(t) \subseteq LayoutsOf(s) \cup {l}
<1> PICK t : t = [s EXCEPT !.layout = l]
  OBVIOUS
<1>1. /\ t.layout = l /\ t.layouts = s.layouts /\ t.frames = s.frames /\ t.predictor = s.predictor
      /\ IsScanout(t)
  BY DEF ScanoutOK, IsScanout
<1>2. ScanoutOK(t)
  BY <1>1 DEF ScanoutOK, Focused, HeldBack
<1>3. LayoutsOf(t) \subseteq LayoutsOf(s) \cup {l}
  BY <1>1 DEF LayoutsOf
<1> QED
  BY <1>2, <1>3

LEMMA AcceptLayoutRenders ==
  ASSUME NEW s, ScanoutOK(s), NEW l, NEW nativeScroll, Agreeing(LayoutsOf(s) \cup {l}),
         \A k \in LayoutsOf(s) \cup {l} : IsLayout(k) /\ k.revision \in Nat
  PROVE  LET t == acceptLayout(s, l, nativeScroll)
         IN  ScanoutOK(t) /\ LayoutsOf(t) \subseteq LayoutsOf(s) \cup {l}
<1>1. CASE l.revision < s.layout.revision
  BY <1>1 DEF acceptLayout
<1>2. CASE l.revision = s.layout.revision
  <2>1. s.layout.revision \in Nat /\ l.panes = s.layout.panes /\ IsLayout(l)
    BY <1>2 DEF Agreeing, LayoutsOf
  <2> PICK u : u = IF l.focus # s.layout.focus THEN resetPrediction(s) ELSE s
    OBVIOUS
  <2>2. acceptLayout(s, l, nativeScroll) = [u EXCEPT !.layout = l]
    BY <1>2, <2>1 DEF acceptLayout
  <2>3. /\ ScanoutOK(u) /\ u.layout = s.layout /\ LayoutsOf(u) = LayoutsOf(s)
        /\ u.predictor.target # None => l.focus = s.layout.focus
    BY ResetRenders
  <2> QED
    BY <1>2, <2>1, <2>2, <2>3, RefocusRenders
<1>3. CASE l.revision > s.layout.revision
  <2> PICK u : u = [s EXCEPT !.layouts = {k \in @ : k.revision # l.revision} \cup {l}]
    OBVIOUS
  <2>1. acceptLayout(s, l, nativeScroll) = tryActivate(u, l.revision, nativeScroll)
    <3>1. l.revision \in Nat /\ s.layout.revision \in Nat
      BY DEF LayoutsOf
    <3>2. ~(l.revision < s.layout.revision) /\ l.revision # s.layout.revision
      BY <1>3, <3>1
    <3> QED
      BY <3>2, Zenon DEF acceptLayout
  <2>2. /\ u.layout = s.layout /\ u.frames = s.frames /\ u.predictor = s.predictor
        /\ u.layouts = {k \in s.layouts : k.revision # l.revision} \cup {l}
        /\ IsScanout(u)
    BY DEF ScanoutOK, IsScanout
  <2>3. ScanoutOK(u)
    BY <1>3, <2>2 DEF ScanoutOK, Focused, HeldBack
  <2>4. \A k \in u.layouts : IsLayout(k) /\ k.revision \in Nat
    BY <2>2 DEF LayoutsOf
  <2>5. LayoutsOf(u) \subseteq LayoutsOf(s) \cup {l}
    BY <2>2 DEF LayoutsOf
  <2>6. PICK t : t = tryActivate(u, l.revision, nativeScroll)
    OBVIOUS
  <2>7. ScanoutOK(t) /\ LayoutsOf(t) \subseteq LayoutsOf(u)
    BY <2>3, <2>4, <2>6, TryActivateRenders
  <2> QED
    BY <2>1, <2>5, <2>6, <2>7
<1> QED
  <2>1. l.revision \in Nat /\ s.layout.revision \in Nat
    BY DEF LayoutsOf
  <2> QED
    BY <1>1, <1>2, <1>3, <2>1

LEMMA KeepsRenders ==
  ASSUME NEW s, NEW t, ScanoutOK(s), Keeps(s, t)
  PROVE  ScanoutOK(t) /\ LayoutsOf(t) = LayoutsOf(s)
BY DEF ScanoutOK, Keeps, SameTarget, Focused, HeldBack, LayoutsOf

HeldAfter(s, slot, frame) ==
    [k \in DOMAIN s.frames \cup {<<frame.revision, slot>>} |->
        IF k = <<frame.revision, slot>> THEN Append(Waiting(s, frame.revision, slot), frame) ELSE s.frames[k]]

LEMMA WaitIs ==
  ASSUME NEW s, IsScanout(s), NEW slot, NEW frame
  PROVE  Wait(s, slot, frame) = [s EXCEPT !.frames = HeldAfter(s, slot, frame)]
<1> DEFINE key == <<frame.revision, slot>>
           waiting == Append(Waiting(s, frame.revision, slot), frame)
<1>1. Wait(s, slot, frame) = [s EXCEPT !.frames = [k \in DOMAIN @ \cup {key} |-> IF k = key THEN waiting ELSE @[k]]]
  BY Zenon DEF Wait
<1> HIDE DEF waiting
<1>2. Wait(s, slot, frame) =
        [s EXCEPT !.frames = [k \in DOMAIN s.frames \cup {key} |-> IF k = key THEN waiting ELSE s.frames[k]]]
  BY <1>1 DEF IsScanout
<1> QED
  BY <1>2, Zenon DEF HeldAfter, waiting

LEMMA WaitRenders ==
  ASSUME NEW s, ScanoutOK(s), NEW slot, NEW frame, frame.revision > s.layout.revision
  PROVE  ScanoutOK(Wait(s, slot, frame)) /\ LayoutsOf(Wait(s, slot, frame)) = LayoutsOf(s)
<1> PICK r, u, fs : r = frame.revision /\ u = Wait(s, slot, frame) /\ fs = HeldAfter(s, slot, frame)
  OBVIOUS
<1>1. u = [s EXCEPT !.frames = fs]
  BY WaitIs DEF ScanoutOK
<1>2. /\ u.layout = s.layout /\ u.layouts = s.layouts /\ u.predictor = s.predictor
      /\ u.frames = fs /\ IsScanout(u)
  BY <1>1 DEF ScanoutOK, IsScanout
<1>3. \A k \in DOMAIN fs : k[1] > s.layout.revision /\ IsSequence(fs[k])
  <2> PICK waiting : waiting = Append(Waiting(s, r, slot), frame)
    OBVIOUS
  <2>1. IsSequence(waiting)
    BY WaitingLen, AppendIsSequence DEF ScanoutOK
  <2>2. /\ DOMAIN fs = DOMAIN s.frames \cup {<<r, slot>>}
        /\ \A k \in DOMAIN fs : fs[k] = IF k = <<r, slot>> THEN waiting ELSE s.frames[k]
    BY DEF HeldAfter
  <2>3. ASSUME NEW k \in DOMAIN fs PROVE k[1] > s.layout.revision /\ IsSequence(fs[k])
    <3>1. CASE k = <<r, slot>>
      BY <2>1, <2>2, <3>1
    <3>2. CASE k # <<r, slot>>
      <4>1. k \in DOMAIN s.frames /\ fs[k] = s.frames[k]
        BY <2>2, <3>2
      <4> QED
        BY <4>1 DEF ScanoutOK, HeldBack
    <3> QED
      BY <3>1, <3>2
  <2> QED
    BY <2>3
<1> QED
  BY <1>2, <1>3 DEF ScanoutOK, Focused, HeldBack, LayoutsOf

LEMMA AcceptFrameRenders ==
  ASSUME NEW s, ScanoutOK(s), NEW slot, NEW frame, NEW nativeScroll, frame.revision \in Nat,
         \A k \in LayoutsOf(s) : IsLayout(k) /\ k.revision \in Nat
  PROVE  LET t == acceptFrame(s, slot, frame, nativeScroll)
         IN  ScanoutOK(t) /\ LayoutsOf(t) \subseteq LayoutsOf(s)
<1> PICK r : r = frame.revision
  OBVIOUS
<1>1. CASE r < s.layout.revision
  BY <1>1 DEF acceptFrame
<1>2. CASE r = s.layout.revision
  <2>1. acceptFrame(s, slot, frame, nativeScroll) = emitFrame(s, slot, frame, nativeScroll)
    BY <1>2 DEF acceptFrame, ScanoutOK
  <2> QED
    BY <2>1, EmitFrameKeeps, KeepsRenders DEF ScanoutOK
<1>3. CASE r > s.layout.revision
  <2>1. PICK u : u = Wait(s, slot, frame)
    OBVIOUS
  <2>2. acceptFrame(s, slot, frame, nativeScroll) = tryActivate(u, r, nativeScroll)
    <3>1. ~(r < s.layout.revision) /\ r # s.layout.revision
      BY <1>3 DEF ScanoutOK
    <3> QED
      BY <2>1, <3>1, Zenon DEF acceptFrame
  <2>6. ScanoutOK(u) /\ LayoutsOf(u) = LayoutsOf(s)
    BY <1>3, <2>1, WaitRenders
  <2>7. \A k \in u.layouts : IsLayout(k) /\ k.revision \in Nat
    BY <2>6 DEF LayoutsOf
  <2>8. PICK t : t = tryActivate(u, r, nativeScroll)
    OBVIOUS
  <2>9. ScanoutOK(t) /\ LayoutsOf(t) \subseteq LayoutsOf(u)
    BY <2>6, <2>7, <2>8, TryActivateRenders
  <2> QED
    BY <2>2, <2>6, <2>8, <2>9
<1> QED
  BY <1>1, <1>2, <1>3 DEF ScanoutOK

LEMMA AcceptLocalInputRenders ==
  ASSUME NEW s, ScanoutOK(s), NEW keys, Len(keys) \in Nat
  PROVE  LET t == acceptLocalInput(s, keys)
         IN  ScanoutOK(t) /\ LayoutsOf(t) = LayoutsOf(s) /\ Unmoved(s, t)
<1> DEFINE focused == {slot \in DOMAIN s.layout.panes : s.layout.panes[slot] = s.layout.focus}
           slot == CHOOSE slot \in focused : TRUE
           target == [pane |-> s.layout.focus, slot |-> slot, revision |-> s.layout.revision]
           context == [target |-> target, cursor |-> s.cursors[slot].cursor, visible |-> s.cursors[slot].visible]
           result == applyLocalInput(s.predictor, keys, context, s.cache[slot])
           painted == Paint(s.screen[slot], result.spans)
           t == [s EXCEPT !.predictor = result.predictor, !.screen[slot] = painted]
<1>1. CASE focused = {}
  BY <1>1 DEF acceptLocalInput, Unmoved
<1>2. CASE focused # {}
  <2>1. acceptLocalInput(s, keys) = t
    BY <1>2, Zenon DEF acceptLocalInput
  <2>2. s.layout.panes[slot] = s.layout.focus
    BY <1>2
  <2> HIDE DEF focused, slot
  <2>3. IsPredictor(result.predictor) /\ result.predictor.target \in {context.target, None}
    BY LocalInputTarget DEF ScanoutOK
  <2>4. PICK p : /\ p = result.predictor
                 /\ p.target = None \/ (/\ p.target.pane = s.layout.focus /\ p.target.slot = slot
                                        /\ p.target.revision = s.layout.revision)
    BY <2>3
  <2> HIDE DEF context, target, result, painted
  <2>5. /\ t.layout = s.layout /\ t.layouts = s.layouts /\ t.frames = s.frames
        /\ t.predictor = p /\ t.cache = s.cache /\ t.cursors = s.cursors /\ IsScanout(t)
    <3>1. PICK w : t = [s EXCEPT !.predictor = p, !.screen[slot] = w]
      BY <2>4
    <3> HIDE DEF t
    <3> QED
      BY <3>1 DEF ScanoutOK, IsScanout
  <2> HIDE DEF t
  <2>6. ScanoutOK(t)
    BY <2>2, <2>3, <2>4, <2>5 DEF ScanoutOK, Focused, HeldBack
  <2> QED
    BY <2>1, <2>5, <2>6 DEF LayoutsOf, Unmoved
<1> QED
  BY <1>1, <1>2

-----------------------------------------------------------------------------
(* What frames make of a slot *)

\* What a slot shows, and what a frame makes of it.
Shown(s, slot) == [grid |-> s.cache[slot], cursor |-> s.cursors[slot]]

After(v, frame) ==
    [grid |-> PaintCells(IF frame.scroll THEN scrollRegion(v.grid) ELSE v.grid, frame.cells),
     cursor |-> [cursor |-> frame.cursor, visible |-> frame.visible]]

AfterIf(v, frame, revision) == IF frame.revision = revision THEN After(v, frame) ELSE v

\* What the frames of a revision make of it.
AfterAll(v, frames, revision) ==
    LET after[n \in 0 .. Len(frames)] ==
            IF n = 0 THEN v ELSE AfterIf(after[n - 1], frames[n], revision)
    IN  after[Len(frames)]

AfterStep(v, frames, revision, f, n) ==
  IF n = 0 THEN v ELSE AfterIf(f[n - 1], frames[n], revision)

IsAfterStep(v, frames, revision, f, N) == f = [n \in 0 .. N |-> AfterStep(v, frames, revision, f, n)]

LEMMA AfterAllExists ==
  ASSUME NEW v, NEW frames, NEW revision, NEW N \in Nat
  PROVE  \E f : IsAfterStep(v, frames, revision, f, N)
<1> USE DEF IsAfterStep
<1> DEFINE Bad == {m \in Nat : ~ \E f : f = [n \in 0 .. m |-> AfterStep(v, frames, revision, f, n)]}
<1>1. SUFFICES ASSUME Bad # {} PROVE FALSE
  OBVIOUS
<1>2. PICK m \in Bad : \A k \in Bad : m <= k
  <2>1. Bad \subseteq Nat
    OBVIOUS
  <2> HIDE DEF Bad
  <2> QED
    BY <1>1, <2>1, LeastNat
<1>3. CASE m = 0
  <2> DEFINE f == [n \in 0 .. 0 |-> v]
  <2>1. f = [n \in 0 .. 0 |-> AfterStep(v, frames, revision, f, n)]
    BY DEF AfterStep
  <2> QED
    BY <1>2, <1>3, <2>1
<1>4. CASE m # 0
  <2>1. m - 1 \in Nat /\ m - 1 \notin Bad
    BY <1>2, <1>4
  <2>2. PICK f : f = [n \in 0 .. m - 1 |-> AfterStep(v, frames, revision, f, n)]
    BY <2>1
  <2> DEFINE g == [n \in 0 .. m |-> IF n = m THEN AfterStep(v, frames, revision, f, m) ELSE f[n]]
  <2>3. ASSUME NEW n \in 0 .. m
        PROVE  g[n] = AfterStep(v, frames, revision, g, n)
    <3>1. CASE n = 0
      BY <3>1, <1>4, <2>1, <2>2 DEF AfterStep
    <3>2. CASE n # 0
      <4>1. n - 1 \in 0 .. m - 1 /\ n \in 0 .. m /\ n - 1 # m /\ n - 1 \in 0 .. m
        BY <3>2, <1>2
      <4>2. g[n - 1] = f[n - 1]
        BY <4>1
      <4>3. n = m \/ n \in 0 .. m - 1
        BY <1>2
      <4>4. g[n] = AfterStep(v, frames, revision, f, n)
        BY <4>3, <2>2
      <4> QED
        BY <4>2, <4>4, <3>2 DEF AfterStep
    <3> QED
      BY <3>1, <3>2
  <2>4. g = [n \in 0 .. m |-> AfterStep(v, frames, revision, g, n)]
    BY <2>3
  <2> HIDE DEF g
  <2> QED
    BY <1>2, <2>4
<1> QED
  BY <1>3, <1>4

LEMMA AfterAllSteps ==
  ASSUME NEW v, NEW frames, NEW revision, Len(frames) \in Nat
  PROVE  \E f : /\ \A n \in 0 .. Len(frames) : f[n] = AfterStep(v, frames, revision, f, n)
               /\ AfterAll(v, frames, revision) = f[Len(frames)]
<1>0. \E g : IsAfterStep(v, frames, revision, g, Len(frames))
  BY AfterAllExists
<1> DEFINE f == CHOOSE f : IsAfterStep(v, frames, revision, f, Len(frames))
<1>1. \A n \in 0 .. Len(frames) : f[n] = AfterStep(v, frames, revision, f, n)
  <2>1. IsAfterStep(v, frames, revision, f, Len(frames))
    BY <1>0
  <2> HIDE DEF f
  <2> QED
    BY <2>1 DEF IsAfterStep
<1>2. AfterAll(v, frames, revision) = f[Len(frames)]
  BY DEF AfterAll, AfterStep, IsAfterStep
<1> HIDE DEF f
<1> QED
  BY <1>1, <1>2

\* The frames one after another, as a function.
AfterRun(v, frames, revision, f) ==
    /\ \A n \in 0 .. Len(frames) : f[n] = AfterStep(v, frames, revision, f, n)
    /\ AfterAll(v, frames, revision) = f[Len(frames)]

LEMMA AfterAllRun ==
  ASSUME NEW v, NEW frames, NEW revision, Len(frames) \in Nat
  PROVE  \E f : AfterRun(v, frames, revision, f)
BY AfterAllSteps DEF AfterRun

LEMMA AfterAllEmpty ==
  ASSUME NEW v, NEW revision
  PROVE  AfterAll(v, <<>>, revision) = v
<1> PICK e : e = <<>>
  OBVIOUS
<1>1. Len(e) = 0 /\ Len(e) \in Nat
  OBVIOUS
<1>2. PICK f : AfterRun(v, e, revision, f)
  BY <1>1, AfterAllRun
<1>3. f[0] = v
  BY <1>1, <1>2 DEF AfterStep, AfterRun
<1> QED
  BY <1>1, <1>2, <1>3 DEF AfterRun

LEMMA AfterAllAppend ==
  ASSUME NEW v, NEW frames, NEW x, NEW revision, IsSequence(frames)
  PROVE  AfterAll(v, Append(frames, x), revision) = AfterIf(AfterAll(v, frames, revision), x, revision)
<1> PICK more : more = Append(frames, x)
  OBVIOUS
<1> DEFINE L == Len(frames)
<1>1. /\ L \in Nat /\ Len(more) = L + 1 /\ Len(more) \in Nat /\ more[L + 1] = x
      /\ \A i \in 1 .. L : more[i] = frames[i]
  <2>1. frames \in Seq({frames[i] : i \in DOMAIN frames} \cup {x}) /\ x \in {frames[i] : i \in DOMAIN frames} \cup {x}
    BY DEF IsSequence
  <2> QED
    BY <2>1
<1>2. PICK f : AfterRun(v, frames, revision, f)
  BY <1>1, AfterAllRun
<1>3. PICK h : AfterRun(v, more, revision, h)
  BY <1>1, AfterAllRun
<1> HIDE DEF L
<1> DEFINE Bad == {n \in 0 .. L : f[n] # h[n]}
<1>4. ASSUME Bad # {} PROVE FALSE
  <2>1. PICK m \in Bad : \A k \in Bad : m <= k
    <3>1. Bad \subseteq Nat
      OBVIOUS
    <3> HIDE DEF Bad
    <3> QED
      BY <1>4, <3>1, LeastNat
  <2>2. m # 0
    <3>1. 0 \in 0 .. L /\ 0 \in 0 .. Len(more)
      BY <1>1
    <3>2. f[0] = v /\ h[0] = v
      BY <1>2, <1>3, <3>1 DEF AfterStep, AfterRun, L
    <3> QED
      BY <2>1, <3>2
  <2>3. m - 1 \in 0 .. L /\ m \in 1 .. L /\ m \in 0 .. L /\ m \in 0 .. Len(more) /\ m - 1 \notin Bad
    BY <1>1, <2>1, <2>2
  <2>4. f[m - 1] = h[m - 1] /\ frames[m] = more[m]
    BY <1>1, <2>3
  <2>5. f[m] = AfterIf(f[m - 1], frames[m], revision)
    BY <1>2, <2>2, <2>3 DEF AfterStep, AfterRun, L
  <2>6. h[m] = AfterIf(h[m - 1], more[m], revision)
    BY <1>3, <2>2, <2>3 DEF AfterStep, AfterRun, L
  <2> QED
    BY <2>1, <2>4, <2>5, <2>6
<1>5. f[L] = h[L]
  BY <1>1, <1>4
<1>6. h[L + 1] = AfterIf(h[L], x, revision)
  <2>1. L + 1 \in 0 .. Len(more) /\ L + 1 # 0 /\ (L + 1) - 1 = L
    BY <1>1
  <2>2. h[L + 1] = AfterIf(h[(L + 1) - 1], more[L + 1], revision)
    BY <1>3, <2>1 DEF AfterStep, AfterRun, L
  <2> QED
    BY <1>1, <2>1, <2>2
<1> QED
  BY <1>1, <1>2, <1>3, <1>5, <1>6 DEF AfterRun, L

LEMMA AfterAllTail ==
  ASSUME NEW v, NEW frames, NEW revision, IsSequence(frames), frames # <<>>
  PROVE  AfterAll(v, frames, revision) = AfterAll(AfterIf(v, Head(frames), revision), Tail(frames), revision)
<1> PICK rest : rest = Tail(frames)
  OBVIOUS
<1> PICK w : w = AfterIf(v, Head(frames), revision)
  OBVIOUS
<1> DEFINE L == Len(rest)
<1>1. /\ L \in Nat /\ Len(rest) \in Nat /\ Len(frames) = L + 1 /\ Len(frames) \in Nat /\ Head(frames) = frames[1]
      /\ \A i \in 1 .. L : rest[i] = frames[i + 1]
  <2>1. frames \in Seq({frames[i] : i \in DOMAIN frames})
    BY DEF IsSequence
  <2> QED
    BY <2>1
<1>2. PICK f : AfterRun(v, frames, revision, f)
  BY <1>1, AfterAllRun
<1>3. PICK h : AfterRun(w, rest, revision, h)
  BY <1>1, AfterAllRun
<1> HIDE DEF L
<1>4. f[1] = w
  <2>1. 0 \in 0 .. Len(frames) /\ 1 \in 0 .. Len(frames) /\ 1 # 0 /\ 1 - 1 = 0
    BY <1>1
  <2>2. f[0] = v
    BY <1>2, <2>1 DEF AfterStep, AfterRun, L
  <2>3. f[1] = AfterIf(f[1 - 1], frames[1], revision)
    BY <1>2, <2>1 DEF AfterStep, AfterRun, L
  <2> QED
    BY <1>1, <2>1, <2>2, <2>3
<1> DEFINE Bad == {n \in 0 .. L : f[n + 1] # h[n]}
<1>5. ASSUME Bad # {} PROVE FALSE
  <2>1. PICK m \in Bad : \A k \in Bad : m <= k
    <3>1. Bad \subseteq Nat
      OBVIOUS
    <3> HIDE DEF Bad
    <3> QED
      BY <1>5, <3>1, LeastNat
  <2>2. m # 0
    <3>1. 0 \in 0 .. L /\ 0 + 1 = 1
      BY <1>1
    <3>2. h[0] = w
      BY <1>3, <3>1 DEF AfterStep, AfterRun, L
    <3> QED
      BY <1>4, <2>1, <3>1, <3>2
  <2>3. /\ m - 1 \in 0 .. L /\ m \in 1 .. L /\ m \in 0 .. L /\ m + 1 \in 0 .. Len(frames)
        /\ m + 1 # 0 /\ (m + 1) - 1 = m /\ (m - 1) + 1 = m /\ m - 1 \notin Bad
    BY <1>1, <2>1, <2>2
  <2>4. f[m] = h[m - 1] /\ rest[m] = frames[m + 1]
    BY <1>1, <2>3
  <2>5. f[m + 1] = AfterIf(f[(m + 1) - 1], frames[m + 1], revision)
    BY <1>2, <2>3 DEF AfterStep, AfterRun, L
  <2>6. h[m] = AfterIf(h[m - 1], rest[m], revision)
    BY <1>3, <2>2, <2>3 DEF AfterStep, AfterRun, L
  <2> QED
    BY <2>1, <2>3, <2>4, <2>5, <2>6
<1>6. f[L + 1] = h[L]
  BY <1>1, <1>5
<1> QED
  BY <1>1, <1>2, <1>3, <1>6 DEF AfterRun, L

LEMMA AfterGrid ==
  ASSUME NEW v, NEW frame, NEW revision, IsGrid(v.grid), CellsFit(frame.cells)
  PROVE  IsGrid(After(v, frame).grid) /\ IsGrid(AfterIf(v, frame, revision).grid)
<1>1. IsGrid(IF frame.scroll THEN scrollRegion(v.grid) ELSE v.grid)
  BY ScrollRegionGrid
<1>2. IsGrid(After(v, frame).grid)
  BY <1>1, PaintCellsGrid DEF After
<1> QED
  BY <1>2 DEF AfterIf

LEMMA AfterAllGrid ==
  ASSUME NEW v, NEW frames, NEW revision, IsGrid(v.grid), IsSequence(frames),
         \A i \in DOMAIN frames : CellsFit(frames[i].cells)
  PROVE  IsGrid(AfterAll(v, frames, revision).grid)
<1> DEFINE L == Len(frames)
<1>1. L \in Nat /\ DOMAIN frames = 1 .. L
  BY SequenceLen
<1>2. PICK f : /\ \A n \in 0 .. L : f[n] = AfterStep(v, frames, revision, f, n)
               /\ AfterAll(v, frames, revision) = f[L]
  BY <1>1, AfterAllSteps, Zenon
<1> HIDE DEF L
<1> DEFINE Bad == {n \in 0 .. L : ~IsGrid(f[n].grid)}
<1>3. SUFFICES ASSUME Bad # {} PROVE FALSE
  BY <1>1, <1>2
<1>4. PICK m \in Bad : \A k \in Bad : m <= k
  <2>1. Bad \subseteq Nat
    OBVIOUS
  <2> HIDE DEF Bad
  <2> QED
    BY <1>3, <2>1, LeastNat
<1>5. m # 0
  <2>1. f[0] = v
    BY <1>1, <1>2 DEF AfterStep
  <2> QED
    BY <2>1, <1>4
<1>6. m - 1 \in 0 .. L /\ m \in 0 .. L /\ m \in DOMAIN frames /\ m - 1 \notin Bad
  BY <1>1, <1>4, <1>5
<1>7. f[m] = AfterIf(f[m - 1], frames[m], revision)
  BY <1>2, <1>5, <1>6 DEF AfterStep
<1>8. IsGrid(f[m].grid)
  BY <1>6, <1>7, AfterGrid
<1> QED
  BY <1>4, <1>8

-----------------------------------------------------------------------------
(* What the render loop paints *)

HasTables(s) ==
    /\ s.cache = [slot \in Slots |-> s.cache[slot]] /\ s.cursors = [slot \in Slots |-> s.cursors[slot]]
    /\ \A slot \in Slots : IsGrid(s.cache[slot])

\* Of the slots one at most changes what it shows.
PaintsOnly(s, t, slot) ==
    HasTables(t) /\ \A u \in Slots : u # slot => Shown(t, u) = Shown(s, u)

LEMMA EmitFramePaints ==
  ASSUME NEW s, NEW slot \in Slots, NEW frame, NEW nativeScroll, IsScanout(s), HasTables(s),
         CellsFit(frame.cells)
  PROVE  LET t == emitFrame(s, slot, frame, nativeScroll)
         IN  PaintsOnly(s, t, slot) /\ Shown(t, slot) = After(Shown(s, slot), frame)
<1> PICK t : t = emitFrame(s, slot, frame, nativeScroll)
  OBVIOUS
<1> DEFINE made == After(Shown(s, slot), frame)
<1>1. PICK p, v : t = [s EXCEPT !.cache[slot] = made.grid, !.cursors[slot] = made.cursor,
                                !.predictor = p, !.screen[slot] = v]
  <2> DEFINE before == IF frame.scroll THEN scrollRegion(s.cache[slot]) ELSE s.cache[slot]
             after == PaintCells(before, frame.cells)
             touched == DOMAIN frame.cells \cup {c \in Cells : before[c] # after[c]}
             target == [pane |-> s.layout.panes[slot], slot |-> slot, revision |-> frame.revision]
             result == applyAuthoritativeFrame(s.predictor, target, frame, touched, before, after)
             native == nativeScroll /\ ~result.repaint
             old == IF frame.scroll THEN scrollRegion(s.screen[slot]) ELSE s.screen[slot]
             cursor == [cursor |-> frame.cursor, visible |-> frame.visible]
             painted == IF frame.scroll /\ ~native THEN after
                        ELSE Paint(PaintCells(old, frame.cells), result.spans)
  <2>1. emitFrame(s, slot, frame, nativeScroll) =
            [s EXCEPT !.cache[slot] = after, !.cursors[slot] = cursor,
                      !.predictor = result.predictor, !.screen[slot] = painted]
    BY Zenon DEF emitFrame
  <2>2. made.grid = after /\ made.cursor = cursor
    BY DEF After, Shown
  <2> HIDE DEF before, after, touched, target, result, native, old, cursor, painted, made
  <2>3. t = [s EXCEPT !.cache[slot] = made.grid, !.cursors[slot] = made.cursor,
                      !.predictor = result.predictor, !.screen[slot] = painted]
    BY <2>1, <2>2, Zenon
  <2> QED
    BY <2>3, Zenon
<1>2. IsGrid(made.grid) /\ made = [grid |-> made.grid, cursor |-> made.cursor]
  BY AfterGrid DEF After, Shown, HasTables
<1> HIDE DEF made
<1>3. /\ t.cache = [s.cache EXCEPT ![slot] = made.grid]
      /\ t.cursors = [s.cursors EXCEPT ![slot] = made.cursor]
  BY <1>1 DEF IsScanout
<1>4. /\ t.cache = [u \in Slots |-> t.cache[u]] /\ t.cursors = [u \in Slots |-> t.cursors[u]]
      /\ t.cache[slot] = made.grid /\ t.cursors[slot] = made.cursor
      /\ \A u \in Slots : u # slot => t.cache[u] = s.cache[u] /\ t.cursors[u] = s.cursors[u]
  BY <1>3 DEF HasTables
<1>5. HasTables(t)
  BY <1>2, <1>4 DEF HasTables
<1>6. Shown(t, slot) = made
  BY <1>2, <1>4 DEF Shown
<1>7. \A u \in Slots : u # slot => Shown(t, u) = Shown(s, u)
  BY <1>4 DEF Shown
<1> QED
  BY <1>5, <1>6, <1>7 DEF PaintsOnly, made

FramesFit(frames, revision) ==
    /\ IsSequence(frames)
    /\ \A i \in DOMAIN frames : frames[i].revision = revision /\ CellsFit(frames[i].cells)

LEMMA EmitFramesPaint ==
  ASSUME NEW s, NEW slot \in Slots, NEW frames, NEW revision, NEW nativeScroll, FramesFit(frames, revision),
         IsScanout(s), IsPredictor(s.predictor), HasTables(s)
  PROVE  LET t == emitFrames(s, slot, frames, nativeScroll)
         IN  PaintsOnly(s, t, slot) /\ Shown(t, slot) = AfterAll(Shown(s, slot), frames, revision)
<1> DEFINE L == Len(frames)
           v == Shown(s, slot)
<1>1. L \in Nat /\ DOMAIN frames = 1 .. L
  BY SequenceLen DEF FramesFit
<1>2. PICK f : /\ \A n \in 0 .. L : f[n] = EmitStep(s, slot, frames, nativeScroll, f, n)
               /\ emitFrames(s, slot, frames, nativeScroll) = f[L]
  BY <1>1, EmitFramesSteps
<1>3. PICK h : /\ \A n \in 0 .. L : h[n] = AfterStep(v, frames, revision, h, n)
               /\ AfterAll(v, frames, revision) = h[L]
  BY <1>1, AfterAllSteps, Zenon
<1> HIDE DEF L, v
<1> DEFINE Good(n) == Keeps(s, f[n]) /\ PaintsOnly(s, f[n], slot) /\ Shown(f[n], slot) = h[n]
           Bad == {n \in 0 .. L : ~Good(n)}
<1>4. ASSUME Bad # {} PROVE FALSE
  <2>1. PICK m \in Bad : \A k \in Bad : m <= k
    <3>1. Bad \subseteq Nat
      OBVIOUS
    <3> HIDE DEF Bad
    <3> QED
      BY <1>4, <3>1, LeastNat
  <2>2. m # 0
    <3>1. 0 \in 0 .. L
      BY <1>1
    <3>2. f[0] = s /\ h[0] = v
      BY <1>2, <1>3, <3>1 DEF AfterStep, EmitStep
    <3>3. Keeps(s, s) /\ PaintsOnly(s, s, slot)
      BY KeepsItself DEF PaintsOnly
    <3> QED
      BY <2>1, <3>2, <3>3 DEF v
  <2>3. m - 1 \in 0 .. L /\ m \in 0 .. L /\ m \in DOMAIN frames /\ m - 1 \notin Bad
    BY <1>1, <2>1, <2>2
  <2> PICK t, w, frame : t = f[m - 1] /\ w = h[m - 1] /\ frame = frames[m]
    OBVIOUS
  <2>4. Keeps(s, t) /\ PaintsOnly(s, t, slot) /\ Shown(t, slot) = w
    BY <2>3
  <2>5. f[m] = emitFrame(t, slot, frame, nativeScroll)
    BY <1>2, <2>2, <2>3 DEF EmitStep
  <2>6. frame.revision = revision /\ CellsFit(frame.cells)
    BY <2>3 DEF FramesFit
  <2>7. h[m] = After(w, frame)
    BY <1>3, <2>2, <2>3, <2>6 DEF AfterStep, AfterIf
  <2>8. PaintsOnly(t, f[m], slot) /\ Shown(f[m], slot) = After(w, frame)
    BY <2>4, <2>5, <2>6, EmitFramePaints DEF Keeps, PaintsOnly
  <2>9. Keeps(s, f[m])
    BY <2>4, <2>5, EmitFrameKeeps, KeepsTransitive DEF Keeps, SameTarget
  <2>10. PaintsOnly(s, f[m], slot)
    BY <2>4, <2>8 DEF PaintsOnly
  <2> QED
    BY <2>1, <2>7, <2>8, <2>9, <2>10
<1>5. Good(L)
  BY <1>1, <1>4
<1> QED
  BY <1>2, <1>3, <1>5 DEF v

LEMMA ReplayPaints ==
  ASSUME NEW old, NEW s, NEW nativeScroll, IsScanout(s), IsPredictor(s.predictor), HasTables(s),
         \A n \in DOMAIN s.layout.panes : FramesFit(Waiting(old, s.layout.revision, n), s.layout.revision)
  PROVE  LET t == replay(old, s, nativeScroll)
         IN  /\ HasTables(t)
             /\ \A u \in Slots \cap DOMAIN s.layout.panes :
                   Shown(t, u) = AfterAll(Shown(s, u), Waiting(old, s.layout.revision, u), s.layout.revision)
<1> DEFINE N == Cardinality(Slots)
           Made(u) == AfterAll(Shown(s, u), Waiting(old, s.layout.revision, u), s.layout.revision)
<1>1. N \in Nat /\ Slots = 1 .. N
  BY SlotsAssumption, FS_CardinalityType
<1>2. PICK f : /\ \A n \in 0 .. N : f[n] = ReplayStep(old, s, nativeScroll, f, n)
               /\ replay(old, s, nativeScroll) = f[N]
  BY <1>1, ReplaySteps
<1> HIDE DEF N, Made
<1> DEFINE Good(n) == /\ Keeps(s, f[n]) /\ HasTables(f[n])
                      /\ \A u \in Slots : u > n => Shown(f[n], u) = Shown(s, u)
                      /\ \A u \in Slots \cap DOMAIN s.layout.panes : u <= n => Shown(f[n], u) = Made(u)
           Bad == {n \in 0 .. N : ~Good(n)}
<1>3. ASSUME Bad # {} PROVE FALSE
  <2>1. PICK m \in Bad : \A k \in Bad : m <= k
    <3>1. Bad \subseteq Nat
      OBVIOUS
    <3> HIDE DEF Bad
    <3> QED
      BY <1>3, <3>1, LeastNat
  <2>2. m # 0
    <3>1. 0 \in 0 .. N /\ \A u \in Slots : ~(u <= 0)
      BY <1>1
    <3>2. f[0] = s
      BY <1>2, <3>1 DEF ReplayStep
    <3>3. Keeps(s, s)
      BY KeepsItself
    <3> QED
      BY <2>1, <3>1, <3>2, <3>3
  <2>3. /\ m - 1 \in 0 .. N /\ m \in 0 .. N /\ m \in Slots /\ m - 1 \notin Bad
        /\ \A u \in Slots : (u > m => u > m - 1) /\ (u <= m => u <= m - 1 \/ u = m) /\ (u > m \/ u <= m - 1 => u # m)
        /\ m > m - 1
    BY <1>1, <2>1, <2>2
  <2> PICK t : t = f[m - 1]
    OBVIOUS
  <2>4. /\ Keeps(s, t) /\ HasTables(t)
        /\ \A u \in Slots : u > m - 1 => Shown(t, u) = Shown(s, u)
        /\ \A u \in Slots \cap DOMAIN s.layout.panes : u <= m - 1 => Shown(t, u) = Made(u)
    BY <2>3
  <2>5. f[m] = ReplayStep(old, s, nativeScroll, f, m)
    BY <1>2, <2>3
  <2>6. CASE m \notin DOMAIN s.layout.panes
    <3>1. f[m] = t
      BY <2>2, <2>5, <2>6 DEF ReplayStep
    <3> QED
      BY <2>1, <2>3, <2>4, <2>6, <3>1
  <2>7. CASE m \in DOMAIN s.layout.panes
    <3> PICK frames : frames = Waiting(old, s.layout.revision, m)
      OBVIOUS
    <3>1. f[m] = emitFrames(t, m, frames, nativeScroll)
      BY <2>2, <2>5, <2>7 DEF ReplayStep, Replayed
    <3>2. FramesFit(frames, s.layout.revision) /\ IsScanout(t) /\ IsPredictor(t.predictor)
      BY <2>4, <2>7 DEF Keeps, SameTarget
    <3>3. PaintsOnly(t, f[m], m) /\ Shown(f[m], m) = AfterAll(Shown(t, m), frames, s.layout.revision)
      BY <2>3, <2>4, <3>1, <3>2, EmitFramesPaint
    <3>4. Len(frames) \in Nat
      BY <3>2, SequenceLen DEF FramesFit
    <3>5. Keeps(s, f[m])
      BY <2>4, <3>1, <3>2, <3>4, EmitFramesKeep, KeepsTransitive
    <3>6. Shown(f[m], m) = Made(m)
      BY <2>3, <2>4, <3>3 DEF Made
    <3>7. \A u \in Slots : u > m => Shown(f[m], u) = Shown(s, u)
      BY <2>3, <2>4, <3>3 DEF PaintsOnly
    <3>8. \A u \in Slots \cap DOMAIN s.layout.panes : u <= m => Shown(f[m], u) = Made(u)
      BY <2>3, <2>4, <3>3, <3>6 DEF PaintsOnly
    <3> QED
      BY <2>1, <3>3, <3>5, <3>7, <3>8 DEF PaintsOnly
  <2> QED
    BY <2>6, <2>7
<1>4. Good(N)
  BY <1>1, <1>3
<1>5. \A u \in Slots : u <= N
  BY <1>1
<1> QED
  BY <1>2, <1>4, <1>5 DEF Made

-----------------------------------------------------------------------------
(* What a slot is to show of a revision *)

Fresh == [grid |-> EmptyGrid, cursor |-> None]

\* Shown already, or what the frames that wait will make of an empty slot.
Base(s, slot, revision) ==
    IF s.layout.revision = revision THEN Shown(s, slot)
    ELSE AfterAll(Fresh, Waiting(s, revision, slot), revision)

FramesHeld(s) ==
    \A k \in DOMAIN s.frames : \A i \in DOMAIN s.frames[k] :
        s.frames[k][i].revision = k[1] /\ CellsFit(s.frames[k][i].cells)

\* Slots that the layout shows are to show the same after a step as before it.
SameBase(s, t, slot, revision) ==
    (t.layout.revision = revision => slot \in DOMAIN t.layout.panes) =>
        Base(t, slot, revision) = Base(s, slot, revision)

SlotsStay(s, t, revision) ==
    HasTables(t) /\ FramesHeld(t) /\ \A slot \in Slots : SameBase(s, t, slot, revision)

LEMMA WaitingFits ==
  ASSUME NEW s, HeldBack(s), FramesHeld(s), NEW revision, NEW slot
  PROVE  FramesFit(Waiting(s, revision, slot), revision)
<1>1. IsSequence(Waiting(s, revision, slot))
  BY WaitingLen
<1>2. CASE <<revision, slot>> \in DOMAIN s.frames
  <2>1. Waiting(s, revision, slot) = s.frames[<<revision, slot>>] /\ <<revision, slot>>[1] = revision
    BY <1>2 DEF Waiting
  <2> QED
    BY <1>1, <1>2, <2>1 DEF FramesFit, FramesHeld
<1>3. CASE <<revision, slot>> \notin DOMAIN s.frames
  BY <1>1, <1>3 DEF Waiting, FramesFit
<1> QED
  BY <1>2, <1>3

LEMMA BaseIsGrid ==
  ASSUME NEW s, HeldBack(s), FramesHeld(s), HasTables(s), NEW revision, NEW slot \in Slots
  PROVE  IsGrid(Base(s, slot, revision).grid)
<1>1. IsGrid(Shown(s, slot).grid)
  BY DEF HasTables, Shown
<1>2. IsGrid(AfterAll(Fresh, Waiting(s, revision, slot), revision).grid)
  <2>1. IsGrid(Fresh.grid)
    BY EmptyIsGrid DEF Fresh
  <2> QED
    BY <2>1, WaitingFits, AfterAllGrid DEF FramesFit
<1> QED
  BY <1>1, <1>2 DEF Base

\* Cells, cursors and what is held back are left alone.
LEMMA UnmovedStays ==
  ASSUME NEW s, NEW t, HasTables(s), FramesHeld(s), Unmoved(s, t), NEW revision
  PROVE  SlotsStay(s, t, revision)
<1>1. HasTables(t) /\ FramesHeld(t)
  BY DEF Unmoved, HasTables, FramesHeld
<1>2. \A slot \in Slots : Shown(t, slot) = Shown(s, slot) /\ Waiting(t, revision, slot) = Waiting(s, revision, slot)
  BY DEF Unmoved, Shown, Waiting
<1>3. t.layout.revision = s.layout.revision
  BY DEF Unmoved
<1> QED
  BY <1>1, <1>2, <1>3 DEF SlotsStay, SameBase, Base

LEMMA TryActivateStays ==
  ASSUME NEW s, ScanoutOK(s), HasTables(s), FramesHeld(s), NEW revision, NEW nativeScroll, NEW r \in Nat,
         \A l \in LayoutsOf(s) : IsLayout(l) /\ l.revision \in Nat /\ l.revision <= r
  PROVE  SlotsStay(s, tryActivate(s, revision, nativeScroll), r)
<1> DEFINE layouts == {l \in s.layouts : l.revision = revision}
           l == CHOOSE l \in layouts : TRUE
           u == Cleared(s, l)
           t == replay(s, u, nativeScroll)
<1>1. CASE layouts = {} \/ ~IsReady(s, l)
  <2>1. tryActivate(s, revision, nativeScroll) = s
    BY <1>1, Zenon DEF tryActivate
  <2> QED
    BY <2>1 DEF SlotsStay, SameBase
<1>2. CASE layouts # {} /\ IsReady(s, l)
  <2>1. tryActivate(s, revision, nativeScroll) = t
    BY <1>2, Zenon DEF tryActivate
  <2>2. l \in s.layouts
    BY <1>2
  <2> HIDE DEF layouts, l
  <2>3. PICK p, c, v, w, ls, fs :
            /\ u = [s EXCEPT !.layout = l, !.predictor = p, !.cache = c, !.cursors = v, !.screen = w,
                             !.layouts = ls, !.frames = fs]
            /\ p = clear(s.predictor)
            /\ c = [slot \in Slots |-> EmptyGrid] /\ v = [slot \in Slots |-> None]
            /\ fs = [k \in {j \in DOMAIN s.frames : j[1] > l.revision} |-> s.frames[k]]
    BY DEF Cleared, ScanoutOK, IsScanout
  <2>4. /\ IsScanout(u) /\ u.layout = l /\ u.predictor = p /\ u.frames = fs
        /\ u.cache = c /\ u.cursors = v
    BY <2>3 DEF ScanoutOK, IsScanout
  <2> HIDE DEF u
  <2>5. IsPredictor(p)
    BY <2>3, ClearSameTarget DEF SameTarget
  <2>6. HasTables(u) /\ \A slot \in Slots : Shown(u, slot) = Fresh
    BY <2>3, <2>4, EmptyIsGrid DEF HasTables, Shown, Fresh
  <2>7. \A n : FramesFit(Waiting(s, l.revision, n), l.revision) /\ Len(Waiting(s, l.revision, n)) \in Nat
    BY WaitingFits, WaitingLen DEF ScanoutOK
  <2>8. Keeps(u, t)
    BY <2>4, <2>5, <2>7, ReplayKeeps
  <2>9. /\ HasTables(t)
        /\ \A n \in Slots \cap DOMAIN l.panes :
              Shown(t, n) = AfterAll(Fresh, Waiting(s, l.revision, n), l.revision)
    BY <2>4, <2>5, <2>6, <2>7, ReplayPaints
  <2> HIDE DEF t
  <2>10. t.layout = l /\ t.frames = fs
    BY <2>4, <2>8 DEF Keeps
  <2>11. FramesHeld(t)
    BY <2>3, <2>10 DEF FramesHeld
  <2>12. l.revision \in Nat /\ l.revision <= r /\ s.layout.revision < l.revision
    BY <2>2 DEF ScanoutOK, HeldBack, LayoutsOf
  <2>13. s.layout.revision # r
    BY <2>12 DEF ScanoutOK
  <2>14. ASSUME NEW slot \in Slots PROVE SameBase(s, t, slot, r)
    <3>1. Base(s, slot, r) = AfterAll(Fresh, Waiting(s, r, slot), r)
      BY <2>13 DEF Base
    <3>2. CASE l.revision = r
      BY <2>9, <2>10, <3>1, <3>2 DEF SameBase, Base
    <3>3. CASE l.revision # r
      <4>1. l.revision < r
        BY <2>12, <3>3
      <4>2. <<r, slot>> \in DOMAIN fs <=> <<r, slot>> \in DOMAIN s.frames
        BY <2>3, <4>1
      <4>3. <<r, slot>> \in DOMAIN fs => fs[<<r, slot>>] = s.frames[<<r, slot>>]
        BY <2>3
      <4>4. Waiting(t, r, slot) = Waiting(s, r, slot)
        BY <2>10, <4>2, <4>3 DEF Waiting
      <4> QED
        BY <2>10, <3>1, <3>3, <4>4 DEF SameBase, Base
    <3> QED
      BY <3>2, <3>3
  <2> QED
    BY <2>1, <2>9, <2>11, <2>14 DEF SlotsStay
<1> QED
  BY <1>1, <1>2

LEMMA AcceptLayoutStays ==
  ASSUME NEW s, ScanoutOK(s), HasTables(s), FramesHeld(s), NEW l, NEW nativeScroll, NEW r \in Nat,
         Agreeing(LayoutsOf(s) \cup {l}),
         \A k \in LayoutsOf(s) \cup {l} : IsLayout(k) /\ k.revision \in Nat /\ k.revision <= r
  PROVE  SlotsStay(s, acceptLayout(s, l, nativeScroll), r)
<1>1. CASE l.revision < s.layout.revision
  <2>1. acceptLayout(s, l, nativeScroll) = s
    BY <1>1 DEF acceptLayout
  <2> QED
    BY <2>1 DEF SlotsStay, SameBase
<1>2. CASE l.revision = s.layout.revision
  <2> PICK u : u = IF l.focus # s.layout.focus THEN resetPrediction(s) ELSE s
    OBVIOUS
  <2>1. acceptLayout(s, l, nativeScroll) = [u EXCEPT !.layout = l]
    BY <1>2 DEF acceptLayout, ScanoutOK
  <2>2. Unmoved(s, u) /\ IsScanout(u) /\ u.layout = s.layout
    BY ResetRenders DEF Unmoved, ScanoutOK
  <2> PICK t : t = [u EXCEPT !.layout = l]
    OBVIOUS
  <2>3. t.layout = l /\ t.frames = u.frames /\ t.cache = u.cache /\ t.cursors = u.cursors
    BY <2>2 DEF IsScanout
  <2>4. Unmoved(s, t)
    BY <1>2, <2>2, <2>3 DEF Unmoved
  <2> QED
    BY <2>1, <2>4, UnmovedStays
<1>3. CASE l.revision > s.layout.revision
  <2> PICK u : u = [s EXCEPT !.layouts = {k \in @ : k.revision # l.revision} \cup {l}]
    OBVIOUS
  <2>1. acceptLayout(s, l, nativeScroll) = tryActivate(u, l.revision, nativeScroll)
    <3>1. l.revision \in Nat /\ s.layout.revision \in Nat
      BY DEF LayoutsOf
    <3>2. ~(l.revision < s.layout.revision) /\ l.revision # s.layout.revision
      BY <1>3, <3>1
    <3> QED
      BY <3>2, Zenon DEF acceptLayout
  <2>2. /\ u.layout = s.layout /\ u.frames = s.frames /\ u.predictor = s.predictor
        /\ u.cache = s.cache /\ u.cursors = s.cursors
        /\ u.layouts = {k \in s.layouts : k.revision # l.revision} \cup {l}
        /\ IsScanout(u)
    BY DEF ScanoutOK, IsScanout
  <2>3. ScanoutOK(u)
    BY <1>3, <2>2 DEF ScanoutOK, Focused, HeldBack
  <2>4. \A k \in LayoutsOf(u) : IsLayout(k) /\ k.revision \in Nat /\ k.revision <= r
    BY <2>2 DEF LayoutsOf
  <2>5. HasTables(u) /\ FramesHeld(u)
    BY <2>2 DEF HasTables, FramesHeld
  <2> PICK t : t = tryActivate(u, l.revision, nativeScroll)
    OBVIOUS
  <2>6. SlotsStay(u, t, r)
    BY <2>3, <2>4, <2>5, TryActivateStays
  <2>7. \A slot \in Slots : Base(u, slot, r) = Base(s, slot, r)
    BY <2>2 DEF Base, Shown, Waiting
  <2> QED
    BY <2>1, <2>6, <2>7 DEF SlotsStay, SameBase
<1> QED
  <2>1. l.revision \in Nat /\ s.layout.revision \in Nat
    BY DEF LayoutsOf
  <2> QED
    BY <1>1, <1>2, <1>3, <2>1

\* A frame does to its slot, now or later, what it says.
Applied(s, t, slot, frame, revision) ==
    /\ HasTables(t) /\ FramesHeld(t)
    /\ \A u \in Slots :
          (t.layout.revision = revision => u \in DOMAIN t.layout.panes) =>
             Base(t, u, revision) =
               IF u = slot THEN AfterIf(Base(s, u, revision), frame, revision) ELSE Base(s, u, revision)

LEMMA WaitApplies ==
  ASSUME NEW s, ScanoutOK(s), HasTables(s), FramesHeld(s), NEW slot \in Slots, NEW frame,
         CellsFit(frame.cells), frame.revision > s.layout.revision, frame.revision \in Nat, NEW r \in Nat
  PROVE  LET t == Wait(s, slot, frame)
         IN  /\ ScanoutOK(t) /\ LayoutsOf(t) = LayoutsOf(s) /\ HasTables(t) /\ FramesHeld(t)
             /\ \A u \in Slots : Base(t, u, r) = IF u = slot THEN AfterIf(Base(s, u, r), frame, r)
                                                 ELSE Base(s, u, r)
<1> PICK t : t = Wait(s, slot, frame)
  OBVIOUS
<1> PICK fs, waiting : /\ fs = HeldAfter(s, slot, frame)
                       /\ waiting = Append(Waiting(s, frame.revision, slot), frame)
  OBVIOUS
<1>1. t = [s EXCEPT !.frames = fs]
  BY WaitIs DEF ScanoutOK
<1>2. /\ ScanoutOK(t) /\ LayoutsOf(t) = LayoutsOf(s)
      /\ t.layout = s.layout /\ t.frames = fs /\ t.cache = s.cache /\ t.cursors = s.cursors
  <2>1. ScanoutOK(t) /\ LayoutsOf(t) = LayoutsOf(s)
    BY WaitRenders
  <2>2. t.layout = s.layout /\ t.frames = fs /\ t.cache = s.cache /\ t.cursors = s.cursors
    BY <1>1 DEF ScanoutOK, IsScanout
  <2> QED
    BY <2>1, <2>2
<1>3. FramesFit(waiting, frame.revision)
  <2>1. FramesFit(Waiting(s, frame.revision, slot), frame.revision)
    BY WaitingFits DEF ScanoutOK
  <2> QED
    BY <1>1, <2>1, AppendIsSequence DEF FramesFit
<1>4. /\ DOMAIN fs = DOMAIN s.frames \cup {<<frame.revision, slot>>}
      /\ \A k \in DOMAIN fs : fs[k] = IF k = <<frame.revision, slot>> THEN waiting ELSE s.frames[k]
  BY DEF HeldAfter
<1>5. FramesHeld(t)
  <2>1. ASSUME NEW k \in DOMAIN fs, NEW i \in DOMAIN fs[k]
        PROVE  fs[k][i].revision = k[1] /\ CellsFit(fs[k][i].cells)
    <3>1. CASE k = <<frame.revision, slot>>
      BY <1>3, <1>4, <3>1 DEF FramesFit
    <3>2. CASE k # <<frame.revision, slot>>
      BY <1>4, <3>2 DEF FramesHeld
    <3> QED
      BY <3>1, <3>2
  <2> QED
    BY <1>2, <2>1 DEF FramesHeld
<1>6. HasTables(t)
  BY <1>2 DEF HasTables
<1>7. ASSUME NEW u \in Slots
      PROVE  Base(t, u, r) = IF u = slot THEN AfterIf(Base(s, u, r), frame, r) ELSE Base(s, u, r)
  <2>1. Shown(t, u) = Shown(s, u)
    BY <1>2 DEF Shown
  <2>2. CASE s.layout.revision = r
    <3>1. frame.revision # r
      BY <2>2 DEF ScanoutOK
    <3> QED
      BY <1>2, <2>1, <2>2, <3>1 DEF Base, AfterIf
  <2>3. CASE s.layout.revision # r
    <3>1. /\ Base(t, u, r) = AfterAll(Fresh, Waiting(t, r, u), r)
          /\ Base(s, u, r) = AfterAll(Fresh, Waiting(s, r, u), r)
      BY <1>2, <2>3 DEF Base
    <3>2. CASE u = slot /\ frame.revision = r
      <4>1. Waiting(t, r, u) = Append(Waiting(s, r, u), frame)
        BY <1>1, <1>2, <1>4, <3>2 DEF Waiting
      <4>2. IsSequence(Waiting(s, r, u))
        BY WaitingLen DEF ScanoutOK
      <4> QED
        BY <3>1, <3>2, <4>1, <4>2, AfterAllAppend
    <3>3. CASE ~(u = slot /\ frame.revision = r)
      <4>1. <<r, u>> # <<frame.revision, slot>>
        BY <3>3
      <4>2. Waiting(t, r, u) = Waiting(s, r, u)
        BY <1>2, <1>4, <4>1 DEF Waiting
      <4> QED
        BY <3>1, <3>3, <4>2 DEF AfterIf
    <3> QED
      BY <3>2, <3>3
  <2> QED
    BY <2>2, <2>3
<1> QED
  BY <1>2, <1>5, <1>6, <1>7

LEMMA AcceptFrameApplies ==
  ASSUME NEW s, ScanoutOK(s), HasTables(s), FramesHeld(s), NEW slot \in Slots, NEW frame, NEW nativeScroll,
         CellsFit(frame.cells), frame.revision \in Nat, NEW r \in Nat,
         \A k \in LayoutsOf(s) : IsLayout(k) /\ k.revision \in Nat /\ k.revision <= r
  PROVE  Applied(s, acceptFrame(s, slot, frame, nativeScroll), slot, frame, r)
<1>0. s.layout.revision \in Nat /\ s.layout.revision <= r
  BY DEF LayoutsOf
<1> PICK t : t = acceptFrame(s, slot, frame, nativeScroll)
  OBVIOUS
<1>1. CASE frame.revision < s.layout.revision
  <2>1. t = s
    BY <1>1 DEF acceptFrame
  <2>2. frame.revision # r
    BY <1>0, <1>1
  <2> QED
    BY <2>1, <2>2 DEF Applied, AfterIf
<1>2. CASE frame.revision = s.layout.revision
  <2>1. t = emitFrame(s, slot, frame, nativeScroll)
    BY <1>0, <1>2 DEF acceptFrame
  <2>2. PaintsOnly(s, t, slot) /\ Shown(t, slot) = After(Shown(s, slot), frame)
    BY <2>1, EmitFramePaints DEF ScanoutOK
  <2>3. t.layout = s.layout /\ t.frames = s.frames
    BY <2>1, EmitFrameKeeps DEF ScanoutOK, Keeps
  <2>4. HasTables(t) /\ FramesHeld(t)
    BY <2>2, <2>3 DEF PaintsOnly, FramesHeld
  <2>5. ASSUME NEW u \in Slots
        PROVE  Base(t, u, r) = IF u = slot THEN AfterIf(Base(s, u, r), frame, r) ELSE Base(s, u, r)
    <3>1. CASE s.layout.revision = r
      <4>1. Base(t, u, r) = Shown(t, u) /\ Base(s, u, r) = Shown(s, u)
        BY <2>3, <3>1 DEF Base
      <4>2. u # slot => Shown(t, u) = Shown(s, u)
        BY <2>2 DEF PaintsOnly
      <4>3. AfterIf(Shown(s, slot), frame, r) = After(Shown(s, slot), frame)
        BY <1>2, <3>1 DEF AfterIf
      <4> QED
        BY <2>2, <4>1, <4>2, <4>3
    <3>2. CASE s.layout.revision # r
      <4>1. Base(t, u, r) = Base(s, u, r)
        BY <2>3, <3>2 DEF Base, Waiting
      <4>2. AfterIf(Base(s, u, r), frame, r) = Base(s, u, r)
        BY <1>2, <3>2 DEF AfterIf
      <4> QED
        BY <4>1, <4>2
    <3> QED
      BY <3>1, <3>2
  <2> QED
    BY <2>4, <2>5 DEF Applied
<1>3. CASE frame.revision > s.layout.revision
  <2> PICK u : u = Wait(s, slot, frame)
    OBVIOUS
  <2>1. t = tryActivate(u, frame.revision, nativeScroll)
    <3>1. ~(frame.revision < s.layout.revision) /\ frame.revision # s.layout.revision
      BY <1>0, <1>3
    <3> QED
      BY <3>1, Zenon DEF acceptFrame
  <2>2. /\ ScanoutOK(u) /\ LayoutsOf(u) = LayoutsOf(s) /\ HasTables(u) /\ FramesHeld(u)
        /\ \A n \in Slots : Base(u, n, r) = IF n = slot THEN AfterIf(Base(s, n, r), frame, r) ELSE Base(s, n, r)
    BY <1>3, WaitApplies
  <2>3. SlotsStay(u, t, r)
    BY <2>1, <2>2, TryActivateStays
  <2> QED
    BY <2>2, <2>3 DEF SlotsStay, SameBase, Applied
<1> QED
  BY <1>0, <1>1, <1>2, <1>3

-----------------------------------------------------------------------------
(* The invariant is inductive *)

LEMMA SetScanoutIs ==
  ASSUME NEW s, IsScanout(s), SetScanout(s)
  PROVE  Scanout' = s
BY DEF SetScanout, Scanout, IsScanout

\* Steps of the render loop: what is known of layouts grows by what control says, at most.
LEMMA LayoutsStay ==
  ASSUME LayoutsOK, UNCHANGED published,
         LayoutsOf(Scanout)' \cup Sayings' \subseteq LayoutsOf(Scanout) \cup Sayings
  PROVE  LayoutsOK'
BY DEF LayoutsOK, Agreeing, PublishedUntil

LEMMA LayoutsAreKnown ==
  ASSUME LayoutsOK
  PROVE  \A k \in LayoutsOf(Scanout) \cup Sayings \cup {published} :
            IsLayout(k) /\ k.revision \in Nat /\ k.revision <= published.revision
BY DEF LayoutsOK, PublishedUntil

LEMMA RenderLayoutInv ==
  ASSUME Inv, RenderLayout
  PROVE  Inv'
<1>1. /\ IsSequence(Tail(control)) /\ 1 \in DOMAIN control /\ Head(control) = control[1]
      /\ \A i \in DOMAIN Tail(control) : i + 1 \in DOMAIN control /\ Tail(control)[i] = control[i + 1]
  BY TailIsSequence DEF Inv, StreamsOK, RenderLayout
<1> PICK l : l = Head(control)
  OBVIOUS
<1>2. PICK nativeScroll, s : s = acceptLayout(Scanout, l, nativeScroll) /\ SetScanout(s)
  BY DEF RenderLayout
<1>3. l \in Sayings
  BY <1>1 DEF Sayings
<1>4. Agreeing(LayoutsOf(Scanout) \cup {l})
  BY <1>3 DEF Inv, LayoutsOK, Agreeing
<1>5. \A k \in LayoutsOf(Scanout) \cup {l} : IsLayout(k) /\ k.revision \in Nat
  BY <1>3, LayoutsAreKnown DEF Inv
<1>6. ScanoutOK(s) /\ LayoutsOf(s) \subseteq LayoutsOf(Scanout) \cup {l}
  BY <1>2, <1>4, <1>5, AcceptLayoutRenders DEF Inv
<1>7. Scanout' = s
  BY <1>2, <1>6, SetScanoutIs DEF ScanoutOK
<1>8. Sayings' \subseteq Sayings
  BY <1>1 DEF RenderLayout, Sayings
<1>9. LayoutsOK'
  <2>1. LayoutsOf(Scanout)' = LayoutsOf(s)
    BY <1>7 DEF LayoutsOf
  <2>2. UNCHANGED published
    BY DEF RenderLayout
  <2> QED
    BY <1>3, <1>6, <1>8, <2>1, <2>2, LayoutsStay DEF Inv
<1>10. StreamsOK'
  BY <1>1 DEF RenderLayout, Inv, StreamsOK
<1>11. ScanoutOK(Scanout')
  BY <1>6, <1>7
<1> QED
  BY <1>9, <1>10, <1>11 DEF Inv, ScanoutOK, Focused, HeldBack

LEMMA RenderFrameInv ==
  ASSUME Inv, NEW slot \in Slots, RenderFrame(slot)
  PROVE  Inv'
<1>1. /\ IsSequence(Tail(stream[slot])) /\ 1 \in DOMAIN stream[slot] /\ Head(stream[slot]) = stream[slot][1]
      /\ \A i \in DOMAIN Tail(stream[slot]) :
            i + 1 \in DOMAIN stream[slot] /\ Tail(stream[slot])[i] = stream[slot][i + 1]
  BY TailIsSequence DEF Inv, StreamsOK, RenderFrame
<1> PICK frame : frame = Head(stream[slot])
  OBVIOUS
<1>2. PICK nativeScroll, s : s = acceptFrame(Scanout, slot, frame, nativeScroll) /\ SetScanout(s)
  BY DEF RenderFrame
<1>3. frame.revision \in Nat
  BY <1>1 DEF Inv, StreamsOK
<1>4. \A k \in LayoutsOf(Scanout) : IsLayout(k) /\ k.revision \in Nat
  BY LayoutsAreKnown DEF Inv
<1>5. ScanoutOK(s) /\ LayoutsOf(s) \subseteq LayoutsOf(Scanout)
  BY <1>2, <1>3, <1>4, AcceptFrameRenders DEF Inv
<1>6. Scanout' = s
  BY <1>2, <1>5, SetScanoutIs DEF ScanoutOK
<1>7. LayoutsOK'
  <2>1. LayoutsOf(Scanout)' = LayoutsOf(s)
    BY <1>6 DEF LayoutsOf
  <2>2. UNCHANGED published /\ Sayings' = Sayings
    BY DEF RenderFrame, Sayings
  <2> QED
    BY <1>5, <2>1, <2>2, LayoutsStay DEF Inv
<1>8. StreamsOK'
  <2> PICK rest : rest = Tail(stream[slot])
    OBVIOUS
  <2>1. stream' = [stream EXCEPT ![slot] = rest] /\ UNCHANGED <<control, local>>
    BY DEF RenderFrame
  <2>2. IsSequence(rest) /\ \A i \in DOMAIN rest : rest[i].revision \in Nat
    BY <1>1 DEF Inv, StreamsOK
  <2>3. stream = [u \in Slots |-> stream[u]]
    BY DEF Inv, StreamsOK
  <2>4. /\ stream' = [u \in Slots |-> stream'[u]]
        /\ \A u \in Slots : stream'[u] = rest \/ stream'[u] = stream[u]
    BY <2>1, <2>3
  <2> QED
    BY <2>1, <2>2, <2>4 DEF Inv, StreamsOK
<1>9. ScanoutOK(Scanout')
  BY <1>5, <1>6
<1> QED
  BY <1>7, <1>8, <1>9 DEF Inv, ScanoutOK, Focused, HeldBack

LEMMA RenderLocalInputInv ==
  ASSUME Inv, RenderLocalInput
  PROVE  Inv'
<1>1. /\ IsSequence(Tail(local)) /\ 1 \in DOMAIN local /\ Head(local) = local[1]
      /\ \A i \in DOMAIN Tail(local) : i + 1 \in DOMAIN local /\ Tail(local)[i] = local[i + 1]
  BY TailIsSequence DEF Inv, StreamsOK, RenderLocalInput
<1> PICK keys : keys = Head(local)
  OBVIOUS
<1>2. PICK s : s = acceptLocalInput(Scanout, keys) /\ SetScanout(s)
  BY DEF RenderLocalInput
<1>3. Len(keys) \in Nat
  BY <1>1 DEF Inv, StreamsOK
<1>4. ScanoutOK(s) /\ LayoutsOf(s) = LayoutsOf(Scanout)
  BY <1>2, <1>3, AcceptLocalInputRenders DEF Inv
<1>5. Scanout' = s
  BY <1>2, <1>4, SetScanoutIs DEF ScanoutOK
<1>6. LayoutsOK'
  <2>1. LayoutsOf(Scanout)' = LayoutsOf(s)
    BY <1>5 DEF LayoutsOf
  <2>2. UNCHANGED published /\ Sayings' = Sayings
    BY DEF RenderLocalInput, Sayings, serverVars
  <2> QED
    BY <1>4, <2>1, <2>2, LayoutsStay DEF Inv
<1>7. StreamsOK'
  BY <1>1 DEF RenderLocalInput, Inv, StreamsOK, serverVars
<1>8. ScanoutOK(Scanout')
  BY <1>4, <1>5
<1> QED
  BY <1>6, <1>7, <1>8 DEF Inv, ScanoutOK, Focused, HeldBack

LEMMA RenderResetInv ==
  ASSUME Inv, RenderReset
  PROVE  Inv'
<1> PICK s : s = resetPrediction(Scanout)
  OBVIOUS
<1>1. ScanoutOK(s) /\ LayoutsOf(s) = LayoutsOf(Scanout)
  BY ResetRenders DEF Inv
<1>2. Scanout' = s
  BY <1>1, SetScanoutIs DEF ScanoutOK, RenderReset
<1>3. LayoutsOK'
  <2>1. LayoutsOf(Scanout)' = LayoutsOf(s)
    BY <1>2 DEF LayoutsOf
  <2>2. UNCHANGED published /\ Sayings' = Sayings
    BY DEF RenderReset, Sayings, serverVars
  <2> QED
    BY <1>1, <2>1, <2>2, LayoutsStay DEF Inv
<1>4. StreamsOK'
  BY DEF RenderReset, Inv, StreamsOK, serverVars
<1>5. ScanoutOK(Scanout')
  BY <1>1, <1>2
<1> QED
  BY <1>3, <1>4, <1>5 DEF Inv, ScanoutOK, Focused, HeldBack

\* The rest of the program does not reach into the render loop.
LEMMA ScanoutUntouched ==
  ASSUME Inv, UNCHANGED scanoutVars
  PROVE  ScanoutOK(Scanout)' /\ LayoutsOf(Scanout)' = LayoutsOf(Scanout)
<1>1. Scanout' = Scanout
  BY DEF scanoutVars, Scanout
<1> QED
  BY <1>1 DEF Inv, LayoutsOf, ScanoutOK, Focused, HeldBack

\* The server says a new layout, of a new revision or with another focus.
LEMMA SayInv ==
  ASSUME Inv, UNCHANGED scanoutVars, UNCHANGED <<stream, local>>, IsLayout(published'),
         \/ published'.revision = published.revision /\ published'.panes = published.panes
         \/ published'.revision = published.revision + 1,
         control' = Append(control, published')
  PROVE  Inv'
<1> PICK l : l = published'
  OBVIOUS
<1>1. ScanoutOK(Scanout)' /\ LayoutsOf(Scanout)' = LayoutsOf(Scanout)
  BY ScanoutUntouched
<1>2. StreamsOK'
  BY AppendIsSequence DEF Inv, StreamsOK
<1>3. Sayings' \subseteq Sayings \cup {l}
  BY AppendIsSequence DEF Inv, StreamsOK, Sayings
<1> DEFINE L == LayoutsOf(Scanout) \cup Sayings \cup {published}
           M == LayoutsOf(Scanout)' \cup Sayings' \cup {l}
<1>4. M \subseteq L \cup {l}
  BY <1>1, <1>3
<1>5. /\ published.revision \in Nat /\ Agreeing(L)
      /\ \A k \in L : IsLayout(k) /\ k.revision \in Nat /\ k.revision <= published.revision
      /\ published \in L
  BY DEF Inv, LayoutsOK, PublishedUntil
<1> HIDE DEF L, M
<1>6. IsLayout(l) /\ l.revision \in Nat /\ published.revision <= l.revision
  BY <1>5
<1>7. \A k \in L : k.revision = l.revision => k.panes = l.panes
  <2>1. SUFFICES ASSUME NEW k \in L, k.revision = l.revision PROVE k.panes = l.panes
    OBVIOUS
  <2>2. k.revision <= published.revision /\ k.revision \in Nat
    BY <1>5
  <2>3. l.revision = published.revision /\ l.panes = published.panes
    BY <1>5, <2>1, <2>2
  <2> QED
    BY <1>5, <2>1, <2>3 DEF Agreeing
<1>8. Agreeing(M)
  BY <1>4, <1>5, <1>7 DEF Agreeing
<1>9. PublishedUntil(M, l.revision)
  BY <1>4, <1>5, <1>6 DEF PublishedUntil
<1>10. LayoutsOK'
  BY <1>6, <1>8, <1>9 DEF LayoutsOK, M
<1> QED
  BY <1>1, <1>2, <1>10 DEF Inv

LEMMA RelayoutInv ==
  ASSUME Inv, NEW panes, NEW focus, Relayout(panes, focus)
  PROVE  Inv'
<1>1. published' = [revision |-> published.revision + 1, panes |-> panes, focus |-> focus]
  BY DEF Relayout
<1>2. IsLayout(published') /\ published'.revision = published.revision + 1
  BY <1>1 DEF IsLayout
<1> QED
  BY <1>2, SayInv DEF Relayout

\* The server and its environment, when they say no layout.
LEMMA SilentInv ==
  ASSUME Inv, UNCHANGED scanoutVars, UNCHANGED <<published, control, local>>, StreamsOK'
  PROVE  Inv'
<1>1. ScanoutOK(Scanout)' /\ LayoutsOf(Scanout)' = LayoutsOf(Scanout)
  BY ScanoutUntouched
<1>2. LayoutsOK'
  BY <1>1, LayoutsStay DEF Inv, Sayings
<1> QED
  BY <1>1, <1>2 DEF Inv

LEMMA TakeNextPaneInv ==
  ASSUME Inv, TakeNextPane
  PROVE  Inv'
<1>1. CASE UNCHANGED <<published, control>>
  <2>1. StreamsOK'
    BY <1>1 DEF Inv, StreamsOK, TakeNextPane
  <2> QED
    BY <1>1, <2>1, SilentInv DEF TakeNextPane
<1>2. CASE ~UNCHANGED <<published, control>>
  <2>1. PICK focus : published' = [published EXCEPT !.focus = focus] /\ control' = Append(control, published')
    BY <1>2 DEF TakeNextPane
  <2>2. IsLayout(published)
    BY LayoutsAreKnown DEF Inv
  <2>3. /\ IsLayout(published') /\ published'.revision = published.revision
        /\ published'.panes = published.panes
    BY <2>1, <2>2 DEF IsLayout
  <2> QED
    BY <2>1, <2>3, SayInv DEF TakeNextPane
<1> QED
  BY <1>1, <1>2

FrameOf(old, t, cells) ==
    [revision |-> published.revision, scroll |-> old.scroll,
     moved |-> CursorChanged(old, t), cells |-> [c \in cells |-> t.grid[c]],
     cursor |-> t.cursor, visible |-> t.visible]

LEMMA PublishInv ==
  ASSUME Inv, NEW slot \in Slots, Publish(slot)
  PROVE  Inv'
<1>1. PICK frame : stream' = [stream EXCEPT ![slot] = Append(@, frame)] /\ frame.revision = published.revision
  <2>1. PICK old, t, cells : stream' = [stream EXCEPT ![slot] = Append(@, FrameOf(old, t, cells))]
    BY Zenon DEF Publish, FrameOf
  <2>2. FrameOf(old, t, cells).revision = published.revision
    BY DEF FrameOf
  <2> QED
    BY <2>1, <2>2
<1>2. published.revision \in Nat
  BY DEF Inv, LayoutsOK
<1>3. PICK frames : frames = Append(stream[slot], frame)
  OBVIOUS
<1>4. IsSequence(frames) /\ \A i \in DOMAIN frames : frames[i].revision \in Nat
  BY <1>1, <1>2, <1>3, AppendIsSequence DEF Inv, StreamsOK
<1>5. stream = [u \in Slots |-> stream[u]]
  BY DEF Inv, StreamsOK
<1>6. /\ stream' = [u \in Slots |-> stream'[u]]
      /\ \A u \in Slots : stream'[u] = frames \/ stream'[u] = stream[u]
  BY <1>1, <1>3, <1>5
<1>7. StreamsOK'
  BY <1>4, <1>6 DEF Inv, StreamsOK, Publish
<1> QED
  BY <1>7, SilentInv DEF Publish

LEMMA TypeInv ==
  ASSUME Inv, NEW keys \in Reads, Type(keys)
  PROVE  Inv'
<1>1. Len(keys) \in Nat
  BY DEF Reads
<1>2. local' = Append(local, keys) /\ UNCHANGED <<control, stream, published>> /\ UNCHANGED scanoutVars
  BY DEF Type
<1>3. IsSequence(local')
  BY <1>2, AppendIsSequence DEF Inv, StreamsOK
<1>4. \A i \in DOMAIN local' : Len(local'[i]) \in Nat
  BY <1>1, <1>2, AppendIsSequence DEF Inv, StreamsOK
<1>5. StreamsOK'
  BY <1>2, <1>3, <1>4 DEF Inv, StreamsOK
<1>6. ScanoutOK(Scanout)' /\ LayoutsOf(Scanout)' = LayoutsOf(Scanout)
  BY <1>2, ScanoutUntouched
<1>7. LayoutsOK'
  BY <1>2, <1>6, LayoutsStay DEF Inv, Sayings
<1> QED
  BY <1>5, <1>6, <1>7 DEF Inv

LEMMA InitInv == Init => Inv
<1> SUFFICES ASSUME Init PROVE Inv
  OBVIOUS
<1>1. PICK panes, focus : published = [revision |-> 1, panes |-> panes, focus |-> focus]
  BY DEF Init
<1>2. IsSequence(control) /\ Sayings = {published}
  BY DEF Init, IsSequence, Sayings
<1>3. StreamsOK
  BY <1>2, EmptyIsSequence DEF Init, StreamsOK
<1>4. /\ Scanout.layout = NoLayout /\ Scanout.layouts = {} /\ Scanout.frames = <<>>
      /\ Scanout.predictor = NoPrediction /\ IsScanout(Scanout)
  BY DEF Init, Scanout, IsScanout
<1>5. ScanoutOK(Scanout)
  BY <1>4 DEF ScanoutOK, Focused, HeldBack, NoLayout, NoPrediction, IsLayout, IsPredictor
<1>6. LayoutsOf(Scanout) = {NoLayout}
  BY <1>4 DEF LayoutsOf
<1>7. IsLayout(published) /\ published.revision = 1 /\ IsLayout(NoLayout) /\ NoLayout.revision = 0
  BY <1>1 DEF NoLayout, IsLayout
<1>8. LayoutsOK
  BY <1>2, <1>6, <1>7 DEF LayoutsOK, Agreeing, PublishedUntil
<1> QED
  BY <1>3, <1>5, <1>8 DEF Inv

LEMMA NextInv == Inv /\ [Next]_vars => Inv'
<1> SUFFICES ASSUME Inv, [Next]_vars PROVE Inv'
  OBVIOUS
<1>1. CASE RenderLayout
  BY <1>1, RenderLayoutInv
<1>2. ASSUME NEW slot \in Slots, RenderFrame(slot) PROVE Inv'
  BY <1>2, RenderFrameInv
<1>3. CASE RenderLocalInput
  BY <1>3, RenderLocalInputInv
<1>4. CASE RenderReset
  BY <1>4, RenderResetInv
<1>5. ASSUME NEW keys \in Reads, Type(keys) PROVE Inv'
  BY <1>5, TypeInv
<1>6. ASSUME NEW key, Take(key) PROVE Inv'
  <2>1. UNCHANGED scanoutVars /\ UNCHANGED <<published, control, local, stream>>
    BY <1>6 DEF Take
  <2>2. StreamsOK'
    BY <2>1 DEF Inv, StreamsOK
  <2> QED
    BY <2>1, <2>2, SilentInv
<1>7. CASE TakeNextPane
  BY <1>7, TakeNextPaneInv
<1>8. ASSUME NEW pane, Unasked(pane) PROVE Inv'
  <2>1. UNCHANGED scanoutVars /\ UNCHANGED <<published, control, local, stream>>
    BY <1>8 DEF Unasked
  <2>2. StreamsOK'
    BY <2>1 DEF Inv, StreamsOK
  <2> QED
    BY <2>1, <2>2, SilentInv
<1>9. ASSUME NEW panes, NEW focus, Relayout(panes, focus) PROVE Inv'
  BY <1>9, RelayoutInv
<1>10. ASSUME NEW slot \in Slots, Publish(slot) PROVE Inv'
  BY <1>10, PublishInv
<1>11. CASE UNCHANGED vars
  <2>1. UNCHANGED scanoutVars /\ UNCHANGED <<published, control, local, stream>>
    BY <1>11 DEF vars, serverVars
  <2>2. StreamsOK'
    BY <2>1 DEF Inv, StreamsOK
  <2> QED
    BY <2>1, <2>2, SilentInv
<1> QED
  BY <1>1, <1>2, <1>3, <1>4, <1>5, <1>6, <1>7, <1>8, <1>9, <1>10, <1>11 DEF Next

LEMMA AlwaysInv == Spec => []Inv
<1>1. Init => Inv
  BY InitInv
<1>2. Inv /\ [Next]_vars => Inv'
  BY NextInv
<1> QED
  BY <1>1, <1>2, PTL DEF Spec

\* A prediction is for the pane that the frontend shows with the focus, under the layout
\* it shows: acceptLayout gives predictions up when the focus moves (client.go:1661), and
\* tryActivate when the layout changes (client.go:1727).  Between them layouts of one
\* revision bind the slots alike, which is what lets a prediction live on.
THEOREM PredictionsFollowFocus == Spec => []PredictionHasFocus
<1>1. Inv => PredictionHasFocus
  <2>1. Scanout.predictor = predictor /\ Scanout.layout = layout
    BY DEF Scanout
  <2> QED
    BY <2>1 DEF Inv, ScanoutOK, Focused, PredictionHasFocus
<1> QED
  BY <1>1, AlwaysInv, PTL

\* What the frontend holds back is for revisions newer than the one it shows, which the
\* server has published: acceptFrame and acceptLayout refuse older ones, and tryActivate
\* drops them (client.go:1699, :1661, :1765).
HoldsBackOnlyNewer ==
    /\ layout.revision \in Nat /\ published.revision \in Nat /\ layout.revision <= published.revision
    /\ \A l \in pendingLayouts : l.revision > layout.revision /\ l.revision <= published.revision
    /\ \A k \in DOMAIN pendingFrames : k[1] > layout.revision

THEOREM HeldBackIsNewer == Spec => []HoldsBackOnlyNewer
<1>1. Inv => HoldsBackOnlyNewer
  <2> SUFFICES ASSUME Inv PROVE HoldsBackOnlyNewer
    OBVIOUS
  <2>1. Scanout.layout = layout /\ Scanout.layouts = pendingLayouts /\ Scanout.frames = pendingFrames
    BY DEF Scanout
  <2>2. \A k \in pendingLayouts \cup {layout} : k.revision \in Nat /\ k.revision <= published.revision
    BY <2>1, LayoutsAreKnown DEF Inv, LayoutsOf
  <2>3. published.revision \in Nat
    BY DEF Inv, LayoutsOK
  <2> QED
    BY <2>1, <2>2, <2>3 DEF Inv, ScanoutOK, HeldBack, HoldsBackOnlyNewer
<1> QED
  BY <1>1, AlwaysInv, PTL

-----------------------------------------------------------------------------
(* What the frontend shows of a slot, and what the server has sent of it *)

IsTerminal(t) ==
    /\ t = [grid |-> t.grid, cursor |-> t.cursor, visible |-> t.visible, echo |-> t.echo, rolled |-> t.rolled]
    /\ IsGrid(t.grid) /\ t.cursor \in Cells

\* What a slot will show of the revision published last, when its stream is empty.
ToBe(slot) == AfterAll(Base(Scanout, slot, published.revision), stream[slot], published.revision)

SentView(slot) ==
    [grid |-> sent[slot].grid, cursor |-> [cursor |-> sent[slot].cursor, visible |-> sent[slot].visible]]

ServerOK == published.panes \in Arrangements /\ published.focus \in Panes

TerminalsOK == terminal = [p \in Panes |-> terminal[p]] /\ \A p \in Panes : IsTerminal(terminal[p])

SentOK ==
    /\ sent = [slot \in Slots |-> sent[slot]]
    /\ \A slot \in Slots : sent[slot] # None => IsGrid(sent[slot].grid)

FramesOK == \A slot \in Slots : \A i \in DOMAIN stream[slot] : CellsFit(stream[slot][i].cells)

TablesOK == HasTables(Scanout) /\ FramesHeld(Scanout)

\* The frames on their way, in the stream or held back, lead to what the server has sent.
Chain == \A slot \in DOMAIN published.panes : sent[slot] # None => ToBe(slot) = SentView(slot)

CacheInv == ServerOK /\ TerminalsOK /\ SentOK /\ FramesOK /\ TablesOK /\ Chain

LEMMA PublishedSlots ==
  ASSUME ServerOK
  PROVE  \A slot \in DOMAIN published.panes : slot \in Slots /\ published.panes[slot] \in Panes
BY ArrangementsAssumption DEF ServerOK, Slots

LEMMA KnownUntil ==
  ASSUME Inv
  PROVE  /\ published.revision \in Nat
         /\ \A k \in LayoutsOf(Scanout) \cup Sayings :
                IsLayout(k) /\ k.revision \in Nat /\ k.revision <= published.revision
         /\ layout.revision = published.revision => layout.panes = published.panes
<1>1. published.revision \in Nat
  BY DEF Inv, LayoutsOK
<1>2. Scanout.layout = layout
  BY DEF Scanout
<1> QED
  BY <1>1, <1>2, LayoutsAreKnown DEF Inv, LayoutsOK, Agreeing, LayoutsOf

\* Slots of the layout that is published are shown whenever its revision is.
LEMMA ShownSlots ==
  ASSUME Inv'
  PROVE  Scanout'.layout.revision = published'.revision => Scanout'.layout.panes = published'.panes
<1>1. Scanout' \in {Scanout'} /\ Scanout'.layout = layout'
  BY DEF Scanout
<1>2. layout'.revision = published'.revision => layout'.panes = published'.panes
  <2>1. Scanout'.layout \in LayoutsOf(Scanout)'
    BY DEF LayoutsOf
  <2>2. Agreeing(LayoutsOf(Scanout) \cup Sayings \cup {published})'
    BY DEF Inv, LayoutsOK
  <2> QED
    BY <1>1, <2>1, <2>2 DEF Agreeing
<1> QED
  BY <1>1, <1>2

\* A step of the render loop that takes no frame.
LEMMA RenderedCacheInv ==
  ASSUME Inv, Inv', CacheInv, UNCHANGED <<terminal, published, sent, stream>>,
         SlotsStay(Scanout, Scanout', published.revision)
  PROVE  CacheInv'
<1>1. TablesOK'
  BY DEF SlotsStay, TablesOK
<1>2. ASSUME NEW slot \in DOMAIN published.panes
      PROVE  Base(Scanout', slot, published.revision) = Base(Scanout, slot, published.revision)
  BY <1>2, ShownSlots, PublishedSlots DEF CacheInv, SlotsStay, SameBase
<1>3. Chain'
  <2>1. \A slot \in DOMAIN published.panes : ToBe(slot)' = ToBe(slot) /\ SentView(slot)' = SentView(slot)
    BY <1>2 DEF ToBe, SentView
  <2> QED
    BY <2>1 DEF CacheInv, Chain
<1> QED
  BY <1>1, <1>3 DEF CacheInv, ServerOK, TerminalsOK, SentOK, FramesOK

LEMMA RenderLayoutCacheInv ==
  ASSUME Inv, Inv', CacheInv, RenderLayout
  PROVE  CacheInv'
<1>1. 1 \in DOMAIN control /\ Head(control) = control[1]
  BY TailIsSequence DEF Inv, StreamsOK, RenderLayout
<1> PICK l : l = Head(control)
  OBVIOUS
<1>2. PICK nativeScroll, s : s = acceptLayout(Scanout, l, nativeScroll) /\ SetScanout(s)
  BY DEF RenderLayout
<1>3. l \in Sayings
  BY <1>1 DEF Sayings
<1>4. Agreeing(LayoutsOf(Scanout) \cup {l})
  BY <1>3 DEF Inv, LayoutsOK, Agreeing
<1>5. /\ published.revision \in Nat
      /\ \A k \in LayoutsOf(Scanout) \cup {l} :
            IsLayout(k) /\ k.revision \in Nat /\ k.revision <= published.revision
  BY <1>3, KnownUntil
<1>6. ScanoutOK(s)
  BY <1>2, <1>4, <1>5, AcceptLayoutRenders DEF Inv
<1>7. Scanout' = s
  BY <1>2, <1>6, SetScanoutIs DEF ScanoutOK
<1>8. SlotsStay(Scanout, s, published.revision)
  BY <1>2, <1>4, <1>5, AcceptLayoutStays DEF Inv, CacheInv, TablesOK
<1> QED
  BY <1>7, <1>8, RenderedCacheInv DEF RenderLayout

LEMMA RenderLocalInputCacheInv ==
  ASSUME Inv, Inv', CacheInv, RenderLocalInput
  PROVE  CacheInv'
<1>1. 1 \in DOMAIN local /\ Head(local) = local[1]
  BY TailIsSequence DEF Inv, StreamsOK, RenderLocalInput
<1> PICK keys : keys = Head(local)
  OBVIOUS
<1>2. PICK s : s = acceptLocalInput(Scanout, keys) /\ SetScanout(s)
  BY DEF RenderLocalInput
<1>3. Len(keys) \in Nat
  BY <1>1 DEF Inv, StreamsOK
<1>4. ScanoutOK(s) /\ Unmoved(Scanout, s)
  BY <1>2, <1>3, AcceptLocalInputRenders DEF Inv
<1>5. Scanout' = s
  BY <1>2, <1>4, SetScanoutIs DEF ScanoutOK
<1>6. SlotsStay(Scanout, s, published.revision)
  BY <1>4, UnmovedStays DEF CacheInv, TablesOK
<1> QED
  BY <1>5, <1>6, RenderedCacheInv DEF RenderLocalInput, serverVars

LEMMA RenderResetCacheInv ==
  ASSUME Inv, Inv', CacheInv, RenderReset
  PROVE  CacheInv'
<1> PICK s : s = resetPrediction(Scanout)
  OBVIOUS
<1>1. ScanoutOK(s) /\ Unmoved(Scanout, s)
  BY ResetRenders DEF Inv
<1>2. Scanout' = s
  BY <1>1, SetScanoutIs DEF ScanoutOK, RenderReset
<1>3. SlotsStay(Scanout, s, published.revision)
  BY <1>1, UnmovedStays DEF CacheInv, TablesOK
<1> QED
  BY <1>2, <1>3, RenderedCacheInv DEF RenderReset, serverVars

LEMMA RenderFrameCacheInv ==
  ASSUME Inv, Inv', CacheInv, NEW slot \in Slots, RenderFrame(slot)
  PROVE  CacheInv'
<1>1. /\ IsSequence(stream[slot]) /\ stream[slot] # <<>>
      /\ 1 \in DOMAIN stream[slot] /\ Head(stream[slot]) = stream[slot][1]
      /\ \A i \in DOMAIN Tail(stream[slot]) :
            i + 1 \in DOMAIN stream[slot] /\ Tail(stream[slot])[i] = stream[slot][i + 1]
  BY TailIsSequence DEF Inv, StreamsOK, RenderFrame
<1> PICK frame, r, rest : frame = Head(stream[slot]) /\ r = published.revision /\ rest = Tail(stream[slot])
  OBVIOUS
<1>2. PICK nativeScroll, s : s = acceptFrame(Scanout, slot, frame, nativeScroll) /\ SetScanout(s)
  BY DEF RenderFrame
<1>3. frame.revision \in Nat /\ CellsFit(frame.cells)
  BY <1>1 DEF Inv, StreamsOK, CacheInv, FramesOK
<1>4. /\ r \in Nat
      /\ \A k \in LayoutsOf(Scanout) : IsLayout(k) /\ k.revision \in Nat /\ k.revision <= r
  BY KnownUntil
<1>5. ScanoutOK(s)
  BY <1>2, <1>3, <1>4, AcceptFrameRenders DEF Inv
<1>6. Scanout' = s
  BY <1>2, <1>5, SetScanoutIs DEF ScanoutOK
<1>7. Applied(Scanout, s, slot, frame, r)
  BY <1>2, <1>3, <1>4, AcceptFrameApplies DEF Inv, CacheInv, TablesOK
<1>8. stream' = [stream EXCEPT ![slot] = rest] /\ UNCHANGED <<terminal, published, sent>>
  BY DEF RenderFrame
<1>9. stream = [u \in Slots |-> stream[u]]
  BY DEF Inv, StreamsOK
<1>10. stream'[slot] = rest /\ \A u \in Slots : u # slot => stream'[u] = stream[u]
  BY <1>8, <1>9
<1>11. FramesOK'
  <2>1. \A i \in DOMAIN rest : CellsFit(rest[i].cells)
    BY <1>1 DEF CacheInv, FramesOK
  <2> QED
    BY <1>10, <2>1 DEF CacheInv, FramesOK
<1>12. TablesOK'
  BY <1>6, <1>7 DEF Applied, TablesOK
<1>13. ASSUME NEW u \in DOMAIN published.panes PROVE ToBe(u)' = ToBe(u)
  <2>1. u \in Slots
    BY PublishedSlots DEF CacheInv
  <2>2. s.layout.revision = r => u \in DOMAIN s.layout.panes
    BY <1>6, <1>8, ShownSlots
  <2>3. Base(s, u, r) = IF u = slot THEN AfterIf(Base(Scanout, u, r), frame, r) ELSE Base(Scanout, u, r)
    BY <1>7, <2>1, <2>2 DEF Applied
  <2>4. ToBe(u)' = AfterAll(Base(s, u, r), stream'[u], r)
    BY <1>6, <1>8 DEF ToBe
  <2>5. CASE u = slot
    <3>1. AfterAll(Base(Scanout, slot, r), stream[slot], r) =
            AfterAll(AfterIf(Base(Scanout, slot, r), frame, r), rest, r)
      BY <1>1, AfterAllTail
    <3> QED
      BY <1>10, <2>3, <2>4, <2>5, <3>1 DEF ToBe
  <2>6. CASE u # slot
    BY <1>10, <2>1, <2>3, <2>4, <2>6 DEF ToBe
  <2> QED
    BY <2>5, <2>6
<1>14. Chain'
  <2>1. \A u \in DOMAIN published.panes : SentView(u)' = SentView(u)
    BY <1>8 DEF SentView
  <2> QED
    BY <1>8, <1>13, <2>1 DEF CacheInv, Chain
<1> QED
  BY <1>8, <1>11, <1>12, <1>14 DEF CacheInv, ServerOK, TerminalsOK, SentOK

\* The server and its applications, when neither a layout nor a frame is sent.
LEMMA TerminalsCacheInv ==
  ASSUME CacheInv, UNCHANGED <<published, sent, stream>>, UNCHANGED scanoutVars, TerminalsOK'
  PROVE  CacheInv'
<1>1. Scanout' = Scanout
  BY DEF scanoutVars, Scanout
<1>2. \A slot : ToBe(slot)' = ToBe(slot) /\ SentView(slot)' = SentView(slot)
  BY <1>1 DEF ToBe, SentView
<1> QED
  BY <1>1, <1>2 DEF CacheInv, ServerOK, SentOK, FramesOK, TablesOK, Chain

LEMMA OneTerminal ==
  ASSUME TerminalsOK, NEW pane \in Panes, NEW t, IsTerminal(t), terminal' = [terminal EXCEPT ![pane] = t]
  PROVE  TerminalsOK'
BY DEF TerminalsOK

LEMMA NewLineIs ==
  ASSUME NEW t, IsTerminal(t)
  PROVE  IsTerminal(NewLine(t))
<1>1. IsGrid(scrollRegion(t.grid))
  BY ScrollRegionGrid DEF IsTerminal
<1>2. Width \in Cells
  BY CellsAre
<1> PICK g : g = scrollRegion(t.grid)
  OBVIOUS
<1>3. CASE LastRow(t.cursor)
  <2>1. NewLine(t) = [t EXCEPT !.grid = g, !.cursor = Width, !.rolled = t.rolled + 1]
    BY <1>3 DEF NewLine, IsTerminal
  <2> QED
    BY <1>1, <1>2, <2>1 DEF IsTerminal
<1>4. CASE ~LastRow(t.cursor)
  BY <1>2, <1>4 DEF NewLine, IsTerminal
<1> QED
  BY <1>3, <1>4

LEMMA MovedTerminal ==
  ASSUME NEW t, IsTerminal(t), NEW g, IsGrid(g), NEW cursor \in Cells
  PROVE  IsTerminal([t EXCEPT !.grid = g, !.cursor = cursor])
<1> PICK u : u = [t EXCEPT !.grid = g, !.cursor = cursor]
  OBVIOUS
<1>1. u = [grid |-> g, cursor |-> cursor, visible |-> t.visible, echo |-> t.echo, rolled |-> t.rolled]
  BY DEF IsTerminal
<1> QED
  BY <1>1 DEF IsTerminal

\* What an application writes at a cell, moving its cursor or not.
LEMMA WritesTerminal ==
  ASSUME TerminalsOK, NEW pane \in Panes, NEW c \in Cells, NEW what, Fits(what, c), NEW cursor \in Cells,
         terminal' = [terminal EXCEPT ![pane].grid = Write(terminal[pane].grid, c, what), ![pane].cursor = cursor]
  PROVE  TerminalsOK'
<1> PICK t, g : t = terminal[pane] /\ g = Write(terminal[pane].grid, c, what)
  OBVIOUS
<1>1. IsTerminal(t)
  BY DEF TerminalsOK
<1>2. IsGrid(g)
  BY <1>1, WriteIs DEF IsTerminal
<1> DEFINE u == [t EXCEPT !.grid = g, !.cursor = cursor]
<1>3. IsTerminal(u)
  BY <1>1, <1>2, MovedTerminal
<1>4. terminal' = [terminal EXCEPT ![pane].grid = g, ![pane].cursor = cursor]
  OBVIOUS
<1>5. terminal = [p \in Panes |-> terminal[p]]
  BY DEF TerminalsOK
<1>6. terminal' = [terminal EXCEPT ![pane] = u]
  BY <1>4, <1>5
<1> QED
  BY <1>3, <1>6, OneTerminal

LEMMA TakeCacheInv ==
  ASSUME CacheInv, NEW key \in Characters \cup {Enter, Backspace}, Take(key)
  PROVE  CacheInv'
<1> DEFINE pane == published.focus
           t == terminal[pane]
<1>1. pane \in Panes /\ IsTerminal(t) /\ TerminalsOK
  BY DEF CacheInv, ServerOK, TerminalsOK
<1>2. UNCHANGED <<published, sent, stream>> /\ UNCHANGED scanoutVars
  BY DEF Take
<1>3. CASE UNCHANGED terminal
  BY <1>1, <1>2, <1>3, TerminalsCacheInv DEF TerminalsOK
<1>4. ASSUME NEW echo, terminal' = [terminal EXCEPT ![pane] = [NewLine(t) EXCEPT !.echo = echo]]
      PROVE  CacheInv'
  <2> PICK n : n = NewLine(t)
    OBVIOUS
  <2>1. IsTerminal(n)
    BY <1>1, NewLineIs
  <2>2. IsTerminal([n EXCEPT !.echo = echo])
    BY <2>1 DEF IsTerminal
  <2> QED
    BY <1>1, <1>2, <1>4, <2>2, OneTerminal, TerminalsCacheInv
<1>5. ASSUME NEW c \in Cells, NEW what, Fits(what, c), NEW cursor \in Cells,
             terminal' = [terminal EXCEPT ![pane].grid = Write(t.grid, c, what), ![pane].cursor = cursor]
      PROVE  CacheInv'
  BY <1>1, <1>2, <1>5, WritesTerminal, TerminalsCacheInv
<1>6. /\ t.cursor \in Cells /\ t.cursor \in Int
      /\ Column(t.cursor) < Width - 1 => t.cursor + 1 \in Cells
      /\ Column(t.cursor) > 0 => t.cursor - 1 \in Cells
  <2>1. t.cursor \in Cells
    BY <1>1 DEF IsTerminal
  <2> HIDE DEF t
  <2>2. 0 < Width
    BY CellsAre
  <2>3. t.cursor \in Int /\ (Column(t.cursor) < Width - 1 => t.cursor + 1 \in Cells)
    BY <2>1, CellsAre
  <2>4. Column(0) = 0
    BY <2>2, CellsAre DEF Column, LastRow
  <2>5. Column(t.cursor) > 0 => t.cursor # 0
    BY <2>4
  <2> QED
    BY <2>1, <2>3, <2>5, CellsAre
<1>7. Fits(Blank, t.cursor - 1)
  BY DEF Fits, Blank, WideLeft, WideRight
<1>8. key \in Characters => Fits(key, t.cursor)
  BY SizesAssumption DEF Characters, Fits, WideLeft, WideRight
<1>9. \/ UNCHANGED terminal
      \/ \E echo : terminal' = [terminal EXCEPT ![pane] = [NewLine(t) EXCEPT !.echo = echo]]
      \/ /\ key \in Characters /\ Column(t.cursor) < Width - 1
         /\ terminal' = [terminal EXCEPT ![pane].grid = Write(t.grid, t.cursor, key), ![pane].cursor = @ + 1]
      \/ /\ Column(t.cursor) > 0
         /\ terminal' = [terminal EXCEPT ![pane].grid = Write(t.grid, t.cursor - 1, Blank), ![pane].cursor = @ - 1]
  BY Zenon DEF Take
<1> HIDE DEF t
<1>10. CASE /\ key \in Characters /\ Column(t.cursor) < Width - 1
            /\ terminal' = [terminal EXCEPT ![pane].grid = Write(t.grid, t.cursor, key), ![pane].cursor = @ + 1]
  <2>1. terminal' = [terminal EXCEPT ![pane].grid = Write(t.grid, t.cursor, key), ![pane].cursor = t.cursor + 1]
    <3> PICK g : g = Write(t.grid, t.cursor, key)
      OBVIOUS
    <3>1. terminal = [p \in Panes |-> terminal[p]] /\ terminal[pane] = t /\ IsTerminal(t)
      BY <1>1 DEF TerminalsOK, t
    <3>2. terminal' = [terminal EXCEPT ![pane].grid = g, ![pane].cursor = @ + 1]
      BY <1>10
    <3> HIDE DEF pane
    <3>3. terminal' = [terminal EXCEPT ![pane].grid = g, ![pane].cursor = t.cursor + 1]
      BY <1>1, <3>1, <3>2 DEF IsTerminal
    <3> QED
      BY <3>3
  <2>2. t.cursor \in Cells /\ t.cursor + 1 \in Cells /\ Fits(key, t.cursor)
    BY <1>6, <1>8, <1>10
  <2> QED
    BY <1>5, <2>1, <2>2, Zenon
<1>11. CASE /\ Column(t.cursor) > 0
            /\ terminal' = [terminal EXCEPT ![pane].grid = Write(t.grid, t.cursor - 1, Blank), ![pane].cursor = @ - 1]
  <2>1. terminal' = [terminal EXCEPT ![pane].grid = Write(t.grid, t.cursor - 1, Blank), ![pane].cursor = t.cursor - 1]
    <3> PICK g : g = Write(t.grid, t.cursor - 1, Blank)
      OBVIOUS
    <3>1. terminal = [p \in Panes |-> terminal[p]] /\ terminal[pane] = t /\ IsTerminal(t)
      BY <1>1 DEF TerminalsOK, t
    <3>2. terminal' = [terminal EXCEPT ![pane].grid = g, ![pane].cursor = @ - 1]
      BY <1>11
    <3> HIDE DEF pane
    <3>3. terminal' = [terminal EXCEPT ![pane].grid = g, ![pane].cursor = t.cursor - 1]
      BY <1>1, <3>1, <3>2 DEF IsTerminal
    <3> QED
      BY <3>3
  <2>2. t.cursor - 1 \in Cells /\ t.cursor - 1 \in Cells /\ Fits(Blank, t.cursor - 1)
    BY <1>6, <1>7, <1>11
  <2> QED
    BY <1>5, <2>1, <2>2, Zenon
<1> QED
  BY <1>3, <1>4, <1>9, <1>10, <1>11

LEMMA UnaskedCacheInv ==
  ASSUME CacheInv, NEW pane \in Panes, Unasked(pane)
  PROVE  CacheInv'
<1> PICK t : t = terminal[pane]
  OBVIOUS
<1>1. TerminalsOK /\ IsTerminal(t) /\ t.cursor \in Cells
  BY DEF CacheInv, TerminalsOK, IsTerminal
<1>2. UNCHANGED <<published, sent, stream>> /\ UNCHANGED scanoutVars
  BY DEF Unasked
<1>3. CASE UNCHANGED terminal
  BY <1>1, <1>2, <1>3, TerminalsCacheInv DEF TerminalsOK
<1>4. ASSUME terminal' = [terminal EXCEPT ![pane].visible = ~@]
      PROVE  CacheInv'
  <2> DEFINE u == [t EXCEPT !.visible = ~t.visible]
  <2>1. IsTerminal(u)
    BY <1>1 DEF IsTerminal
  <2>2. terminal' = [terminal EXCEPT ![pane] = u]
    BY <1>1, <1>4 DEF TerminalsOK
  <2> QED
    BY <1>1, <1>2, <2>1, <2>2, OneTerminal, TerminalsCacheInv
<1>5. ASSUME NEW c \in Cells, NEW what, Fits(what, c), NEW cursor \in Cells,
             terminal' = [terminal EXCEPT ![pane].grid = Write(terminal[pane].grid, c, what), ![pane].cursor = cursor]
      PROVE  CacheInv'
  BY <1>1, <1>2, <1>5, WritesTerminal, TerminalsCacheInv
<1>6. \A c \in PrintedCells : c \in Cells /\ (Column(c) < Width - 1 => c + 1 \in Cells /\ HasRoom(c))
  BY SizesAssumption, CellsAre
<1>7. ASSUME NEW c \in PrintedCells, NEW move \in BOOLEAN,
             terminal' = [terminal EXCEPT ![pane].grid = Write(terminal[pane].grid, c, Printed),
                                          ![pane].cursor = IF move /\ Column(c) < Width - 1 THEN c + 1 ELSE @]
      PROVE  CacheInv'
  <2> PICK g, n : /\ g = Write(terminal[pane].grid, c, Printed)
                  /\ n = IF move /\ Column(c) < Width - 1 THEN c + 1 ELSE t.cursor
    OBVIOUS
  <2>1. terminal' = [terminal EXCEPT ![pane].grid = g,
                                     ![pane].cursor = IF move /\ Column(c) < Width - 1 THEN c + 1 ELSE @]
    BY <1>7
  <2>2. terminal = [p \in Panes |-> terminal[p]]
    BY <1>1 DEF TerminalsOK
  <2>3. terminal' = [terminal EXCEPT ![pane].grid = g, ![pane].cursor = n]
    BY <1>1, <2>1, <2>2 DEF IsTerminal
  <2>4. Fits(Printed, c)
    BY DEF Fits, Printed, WideLeft, WideRight
  <2>5. c \in Cells /\ n \in Cells
    BY <1>1, <1>6
  <2> QED
    BY <1>5, <2>3, <2>4, <2>5
<1>8. ASSUME NEW c \in PrintedCells, Column(c) < Width - 1,
             terminal' = [terminal EXCEPT ![pane].grid = Write(terminal[pane].grid, c, WideLeft), ![pane].cursor = c + 1]
      PROVE  CacheInv'
  <2>1. c \in Cells /\ c + 1 \in Cells /\ HasRoom(c)
    BY <1>6, <1>8
  <2>2. Fits(WideLeft, c)
    BY <2>1 DEF Fits, WideLeft, WideRight
  <2> QED
    BY <1>5, <1>8, <2>1, <2>2
<1>9. \/ UNCHANGED terminal
      \/ terminal' = [terminal EXCEPT ![pane].visible = ~@]
      \/ \E c \in PrintedCells, move \in BOOLEAN :
            terminal' = [terminal EXCEPT ![pane].grid = Write(terminal[pane].grid, c, Printed),
                                         ![pane].cursor = IF move /\ Column(c) < Width - 1 THEN c + 1 ELSE @]
      \/ \E c \in PrintedCells :
            /\ Column(c) < Width - 1
            /\ terminal' = [terminal EXCEPT ![pane].grid = Write(terminal[pane].grid, c, WideLeft), ![pane].cursor = c + 1]
  BY Zenon DEF Unasked
<1> QED
  BY <1>3, <1>4, <1>7, <1>8, <1>9

LEMMA RelayoutCacheInv ==
  ASSUME CacheInv, NEW panes, NEW focus, Relayout(panes, focus)
  PROVE  CacheInv'
<1>1. published' = [revision |-> published.revision + 1, panes |-> panes, focus |-> focus]
  BY DEF Relayout
<1>2. panes \in Arrangements /\ focus \in Panes
  BY ArrangementsAssumption DEF Relayout
<1>3. ServerOK'
  BY <1>1, <1>2 DEF ServerOK
<1>4. \A slot \in Slots : sent'[slot] = None
  BY DEF Relayout
<1>5. SentOK' /\ Chain'
  <2>1. sent' = [slot \in Slots |-> sent'[slot]]
    BY DEF Relayout
  <2>2. \A slot \in DOMAIN published'.panes : slot \in Slots
    BY <1>1, <1>2 DEF Slots
  <2> QED
    BY <1>4, <2>1, <2>2 DEF SentOK, Chain
<1>6. UNCHANGED <<terminal, stream>> /\ UNCHANGED scanoutVars
  BY DEF Relayout
<1>7. Scanout' = Scanout
  BY <1>6 DEF scanoutVars, Scanout
<1> QED
  BY <1>3, <1>5, <1>6, <1>7 DEF CacheInv, TerminalsOK, FramesOK, TablesOK

LEMMA TakeNextPaneCacheInv ==
  ASSUME Inv, CacheInv, TakeNextPane
  PROVE  CacheInv'
<1>1. UNCHANGED <<terminal, sent, stream>> /\ UNCHANGED scanoutVars
  BY DEF TakeNextPane
<1>2. ServerOK' /\ published'.revision = published.revision /\ published'.panes = published.panes
  <2>1. CASE UNCHANGED published
    BY <2>1 DEF CacheInv, ServerOK
  <2>2. CASE ~UNCHANGED published
    <3>1. PICK slot \in DOMAIN published.panes : published' = [published EXCEPT !.focus = published.panes[slot]]
      BY <2>2 DEF TakeNextPane
    <3>2. IsLayout(published) /\ published.panes[slot] \in Panes
      BY LayoutsAreKnown, PublishedSlots DEF Inv, CacheInv
    <3> QED
      BY <3>1, <3>2 DEF IsLayout, CacheInv, ServerOK
  <2> QED
    BY <2>1, <2>2
<1>3. Scanout' = Scanout
  BY <1>1 DEF scanoutVars, Scanout
<1>4. \A slot : ToBe(slot)' = ToBe(slot) /\ SentView(slot)' = SentView(slot)
  BY <1>1, <1>2, <1>3 DEF ToBe, SentView
<1> QED
  BY <1>1, <1>2, <1>3, <1>4 DEF CacheInv, TerminalsOK, SentOK, FramesOK, TablesOK, Chain

\* The frame that is sent leads to what the server has, from what it has sent before, or,
\* when that is nothing, from anything.
Leads(v, old, t, cells) ==
    \/ cells = Cells
    \/ /\ cells = Differing(old, t)
       /\ old.grid = IF old.scroll THEN scrollRegion(v.grid) ELSE v.grid

TerminalView(t) == [grid |-> t.grid, cursor |-> [cursor |-> t.cursor, visible |-> t.visible]]

LEMMA FrameMakesIt ==
  ASSUME NEW v, IsGrid(v.grid), NEW old, NEW t, IsGrid(t.grid), NEW cells \in SUBSET Cells,
         Leads(v, old, t, cells), NEW frame, frame = FrameOf(old, t, cells)
  PROVE  /\ After(v, frame) = TerminalView(t)
         /\ CellsFit(frame.cells) /\ frame.revision = published.revision
<1>1. /\ frame.scroll = old.scroll /\ frame.cells = [c \in cells |-> t.grid[c]]
      /\ frame.cursor = t.cursor /\ frame.visible = t.visible /\ frame.revision = published.revision
  BY DEF FrameOf
<1> PICK g : g = IF old.scroll THEN scrollRegion(v.grid) ELSE v.grid
  OBVIOUS
<1>2. IsGrid(g)
  BY ScrollRegionGrid
<1>3. \A c \in Cells : c \notin cells => g[c] = t.grid[c]
  BY DEF Differing, Leads
<1>4. PaintCells(g, frame.cells) = t.grid
  BY <1>1, <1>2, <1>3, PaintCellsDifference
<1>5. CellsFit(frame.cells)
  BY <1>1 DEF CellsFit, Fits, IsGrid
<1> QED
  BY <1>1, <1>4, <1>5 DEF After, TerminalView

LEMMA PublishIs ==
  ASSUME NEW slot \in Slots, Publish(slot)
  PROVE  \E cells \in SUBSET Cells :
            LET pane == published.panes[slot]
                t == terminal[pane]
                old == Sent(slot)
            IN  /\ cells = Cells \/ (sent[slot] # None /\ cells = Differing(old, t))
                /\ stream' = [stream EXCEPT ![slot] = Append(@, FrameOf(old, t, cells))]
                /\ sent' = [sent EXCEPT ![slot] = [grid |-> t.grid, cursor |-> t.cursor, visible |-> t.visible]]
                /\ terminal' = [terminal EXCEPT ![pane].rolled = 0]
<1> DEFINE pane == published.panes[slot]
           t == terminal[pane]
           old == Sent(slot)
<1>1. PICK cells \in {IF sent[slot] = None THEN Cells ELSE Differing(old, t), Cells} :
          stream' = [stream EXCEPT ![slot] = Append(@, FrameOf(old, t, cells))]
  BY Zenon DEF Publish, FrameOf
<1>2. /\ sent' = [sent EXCEPT ![slot] = [grid |-> t.grid, cursor |-> t.cursor, visible |-> t.visible]]
      /\ terminal' = [terminal EXCEPT ![pane].rolled = 0]
  BY Zenon DEF Publish
<1>3. Differing(old, t) \subseteq Cells
  BY DEF Differing
<1> HIDE DEF t, old, pane
<1>4. cells \in SUBSET Cells /\ (cells = Cells \/ (sent[slot] # None /\ cells = Differing(old, t)))
  BY <1>1, <1>3
<1> QED
  BY <1>1, <1>2, <1>4, Zenon DEF t, old, pane

LEMMA SentBefore ==
  ASSUME NEW slot, sent[slot] # None
  PROVE  Sent(slot).grid = IF Sent(slot).scroll THEN scrollRegion(sent[slot].grid) ELSE sent[slot].grid
BY DEF Sent

LEMMA PublishCacheInv ==
  ASSUME Inv, CacheInv, NEW slot \in Slots, Publish(slot)
  PROVE  CacheInv'
<1> PICK pane, t, old, r : /\ pane = published.panes[slot] /\ t = terminal[pane]
                           /\ old = Sent(slot) /\ r = published.revision
  OBVIOUS
<1>1. PICK cells \in SUBSET Cells :
          /\ cells = Cells \/ (sent[slot] # None /\ cells = Differing(old, t))
          /\ stream' = [stream EXCEPT ![slot] = Append(@, FrameOf(old, t, cells))]
          /\ sent' = [sent EXCEPT ![slot] = [grid |-> t.grid, cursor |-> t.cursor, visible |-> t.visible]]
          /\ terminal' = [terminal EXCEPT ![pane].rolled = 0]
  BY PublishIs
<1>2. slot \in DOMAIN published.panes /\ UNCHANGED published /\ UNCHANGED scanoutVars
  BY DEF Publish
<1>3. pane \in Panes /\ IsTerminal(t) /\ TerminalsOK
  BY <1>2, PublishedSlots DEF CacheInv, TerminalsOK
<1>4. TerminalsOK'
  <2>1. IsTerminal([t EXCEPT !.rolled = 0])
    BY <1>3 DEF IsTerminal
  <2>2. terminal' = [terminal EXCEPT ![pane] = [t EXCEPT !.rolled = 0]]
    BY <1>1, <1>3 DEF TerminalsOK
  <2> QED
    BY <1>3, <2>1, <2>2, OneTerminal
<1>5. Scanout' = Scanout
  BY <1>2 DEF scanoutVars, Scanout
<1> PICK frame, frames : frame = FrameOf(old, t, cells) /\ frames = Append(stream[slot], frame)
  OBVIOUS
<1>6. /\ stream'[slot] = frames /\ \A u \in Slots : u # slot => stream'[u] = stream[u]
      /\ IsSequence(stream[slot])
  <2>1. stream = [u \in Slots |-> stream[u]] /\ IsSequence(stream[slot])
    BY DEF Inv, StreamsOK
  <2>2. stream' = [stream EXCEPT ![slot] = frames]
    BY <1>1
  <2> QED
    BY <2>1, <2>2
<1> PICK v : v = ToBe(slot)
  OBVIOUS
<1>7. IsGrid(v.grid)
  <2>1. IsGrid(Base(Scanout, slot, r).grid)
    BY BaseIsGrid DEF CacheInv, TablesOK, Inv, ScanoutOK
  <2> QED
    BY <1>6, <2>1, AfterAllGrid DEF ToBe, CacheInv, FramesOK
<1>8. sent[slot] # None => old.grid = IF old.scroll THEN scrollRegion(v.grid) ELSE v.grid
  <2>1. sent[slot] # None => v.grid = sent[slot].grid
    BY <1>2 DEF CacheInv, Chain, SentView
  <2> QED
    BY <2>1, SentBefore
<1>9. IsGrid(t.grid)
  BY <1>3 DEF IsTerminal
<1>10. /\ After(v, frame) = TerminalView(t)
       /\ CellsFit(frame.cells) /\ frame.revision = r
  <2>1. Leads(v, old, t, cells)
    BY <1>1, <1>8 DEF Leads
  <2> QED
    BY <1>7, <1>9, <2>1, FrameMakesIt
<1>11. FramesOK'
  <2>1. \A i \in DOMAIN frames : frames[i] = frame \/ (i \in DOMAIN stream[slot] /\ frames[i] = stream[slot][i])
    BY <1>6, AppendIsSequence
  <2>2. \A i \in DOMAIN frames : CellsFit(frames[i].cells)
    BY <1>10, <2>1 DEF CacheInv, FramesOK
  <2> QED
    BY <1>6, <2>2 DEF CacheInv, FramesOK
<1>12. /\ sent' = [u \in Slots |-> sent'[u]]
       /\ sent'[slot] = [grid |-> t.grid, cursor |-> t.cursor, visible |-> t.visible]
       /\ \A u \in Slots : u # slot => sent'[u] = sent[u]
  BY <1>1 DEF CacheInv, SentOK
<1>13. SentOK'
  BY <1>9, <1>12 DEF CacheInv, SentOK
<1>14. ToBe(slot)' = SentView(slot)'
  <2>1. ToBe(slot)' = AfterAll(Base(Scanout, slot, r), frames, r)
    BY <1>2, <1>5, <1>6 DEF ToBe
  <2>2. AfterAll(Base(Scanout, slot, r), frames, r) = AfterIf(v, frame, r)
    BY <1>6, AfterAllAppend DEF ToBe
  <2>3. AfterIf(v, frame, r) = After(v, frame)
    BY <1>10 DEF AfterIf
  <2>4. SentView(slot)' = TerminalView(t)
    BY <1>12 DEF SentView, TerminalView
  <2> QED
    BY <1>10, <2>1, <2>2, <2>3, <2>4
<1>15. ASSUME NEW u \in DOMAIN published.panes, u # slot
       PROVE  ToBe(u)' = ToBe(u) /\ SentView(u)' = SentView(u) /\ sent'[u] = sent[u]
  <2>1. u \in Slots
    BY PublishedSlots DEF CacheInv
  <2> QED
    BY <1>2, <1>5, <1>6, <1>12, <1>15, <2>1 DEF ToBe, SentView
<1>16. Chain'
  BY <1>2, <1>14, <1>15 DEF CacheInv, Chain
<1> QED
  BY <1>2, <1>4, <1>5, <1>11, <1>13, <1>16 DEF CacheInv, ServerOK, TablesOK

LEMMA InitCacheInv == Init => CacheInv
<1> SUFFICES ASSUME Init PROVE CacheInv
  OBVIOUS
<1>1. budget.panes \in Arrangements
  BY ScenariosAssumption DEF Init
<1>2. ServerOK
  BY <1>1, ArrangementsAssumption DEF Init, ServerOK
<1>3. TerminalsOK
  <2>1. PICK echo : terminal = [p \in Panes |-> [grid |-> EmptyGrid, cursor |-> 0, visible |-> TRUE,
                                                 echo |-> echo, rolled |-> 0]]
    BY DEF Init
  <2>2. IsGrid(EmptyGrid) /\ 0 \in Cells
    BY EmptyIsGrid, CellsAre
  <2> QED
    BY <2>1, <2>2 DEF TerminalsOK, IsTerminal
<1>4. SentOK /\ Chain
  <2>1. sent = [slot \in Slots |-> None]
    BY DEF Init
  <2> QED
    BY <1>2, <2>1, PublishedSlots DEF SentOK, Chain
<1>5. FramesOK
  BY DEF Init, FramesOK
<1>6. TablesOK
  <2>1. /\ Scanout.frames = <<>> /\ Scanout.cache = [slot \in Slots |-> EmptyGrid]
        /\ Scanout.cursors = [slot \in Slots |-> None]
    BY DEF Init, Scanout
  <2> QED
    BY <2>1, EmptyIsGrid DEF TablesOK, HasTables, FramesHeld
<1> QED
  BY <1>2, <1>3, <1>4, <1>5, <1>6 DEF CacheInv

LEMMA NextCacheInv == Inv /\ Inv' /\ CacheInv /\ [Next]_vars => CacheInv'
<1> SUFFICES ASSUME Inv, Inv', CacheInv, [Next]_vars PROVE CacheInv'
  OBVIOUS
<1>1. CASE RenderLayout
  BY <1>1, RenderLayoutCacheInv
<1>2. ASSUME NEW slot \in Slots, RenderFrame(slot) PROVE CacheInv'
  BY <1>2, RenderFrameCacheInv
<1>3. CASE RenderLocalInput
  BY <1>3, RenderLocalInputCacheInv
<1>4. CASE RenderReset
  BY <1>4, RenderResetCacheInv
<1>5. ASSUME NEW keys \in Reads, Type(keys) PROVE CacheInv'
  <2>1. UNCHANGED <<published, sent, stream>> /\ UNCHANGED scanoutVars /\ UNCHANGED terminal
    BY <1>5 DEF Type
  <2> QED
    BY <2>1, TerminalsCacheInv DEF CacheInv, TerminalsOK
<1>6. ASSUME NEW key \in Characters \cup {Enter, Backspace}, Take(key) PROVE CacheInv'
  BY <1>6, TakeCacheInv
<1>7. CASE TakeNextPane
  BY <1>7, TakeNextPaneCacheInv
<1>8. ASSUME NEW pane \in Panes, Unasked(pane) PROVE CacheInv'
  BY <1>8, UnaskedCacheInv
<1>9. ASSUME NEW panes, NEW focus, Relayout(panes, focus) PROVE CacheInv'
  BY <1>9, RelayoutCacheInv
<1>10. ASSUME NEW slot \in Slots, Publish(slot) PROVE CacheInv'
  BY <1>10, PublishCacheInv
<1>11. CASE UNCHANGED vars
  <2>1. UNCHANGED <<published, sent, stream>> /\ UNCHANGED scanoutVars /\ UNCHANGED terminal
    BY <1>11 DEF vars, serverVars
  <2> QED
    BY <2>1, TerminalsCacheInv DEF CacheInv, TerminalsOK
<1> QED
  BY <1>1, <1>2, <1>3, <1>4, <1>5, <1>6, <1>7, <1>8, <1>9, <1>10, <1>11 DEF Next

\* Whatever the order in which layouts and frames reach the render loop, and however many
\* frames have waited for their layout, an emptied stream leaves the cells and the cursor
\* that the server has sent last (acceptFrame client.go:1699, tryActivate :1727, emitFrame
\* :1912): the frames still on their way, in the stream or held back, always lead there.
THEOREM FramesMakeWhatWasSent == Spec => []CacheIsWhatWasSent
<1>1. Inv /\ CacheInv => CacheIsWhatWasSent
  <2> SUFFICES ASSUME Inv, CacheInv, layout.revision = published.revision,
                      NEW slot \in DOMAIN layout.panes, stream[slot] = <<>>, sent[slot] # None
               PROVE  cache[slot] = sent[slot].grid /\ cursors[slot].cursor = sent[slot].cursor
    BY DEF CacheIsWhatWasSent
  <2>1. slot \in DOMAIN published.panes
    BY KnownUntil
  <2>2. ToBe(slot) = SentView(slot)
    BY <2>1 DEF CacheInv, Chain
  <2>3. Scanout.layout = layout /\ Scanout.cache = cache /\ Scanout.cursors = cursors
    BY DEF Scanout
  <2>4. Base(Scanout, slot, published.revision) = [grid |-> cache[slot], cursor |-> cursors[slot]]
    BY <2>3 DEF Base, Shown
  <2>5. ToBe(slot) = [grid |-> cache[slot], cursor |-> cursors[slot]]
    BY <2>4, AfterAllEmpty DEF ToBe
  <2>6. /\ cache[slot] = sent[slot].grid
        /\ cursors[slot] = [cursor |-> sent[slot].cursor, visible |-> sent[slot].visible]
    BY <2>2, <2>5 DEF SentView
  <2> QED
    BY <2>6
<1>2. Init => CacheInv
  BY InitCacheInv
<1>3. Inv /\ Inv' /\ CacheInv /\ [Next]_vars => CacheInv'
  BY NextCacheInv
<1> QED
  BY <1>1, <1>2, <1>3, AlwaysInv, PTL DEF Spec

-----------------------------------------------------------------------------
(* Spans and operations, one after the other *)

SpanStep(grid, spans, f, n) ==
  IF n = 0 THEN grid ELSE Write(f[n - 1], spans[n].at, spans[n].what)

IsSpanStep(grid, spans, f, N) == f = [n \in 0 .. N |-> SpanStep(grid, spans, f, n)]

LEMMA SpanExists ==
  ASSUME NEW grid, NEW spans, NEW N \in Nat
  PROVE  \E f : IsSpanStep(grid, spans, f, N)
<1> USE DEF IsSpanStep
<1> DEFINE Bad == {m \in Nat : ~ \E f : f = [n \in 0 .. m |-> SpanStep(grid, spans, f, n)]}
<1>1. SUFFICES ASSUME Bad # {} PROVE FALSE
  OBVIOUS
<1>2. PICK m \in Bad : \A k \in Bad : m <= k
  <2>1. Bad \subseteq Nat
    OBVIOUS
  <2> HIDE DEF Bad
  <2> QED
    BY <1>1, <2>1, LeastNat
<1>3. CASE m = 0
  <2> DEFINE f == [n \in 0 .. 0 |-> grid]
  <2>1. f = [n \in 0 .. 0 |-> SpanStep(grid, spans, f, n)]
    BY DEF SpanStep
  <2> QED
    BY <1>2, <1>3, <2>1
<1>4. CASE m # 0
  <2>1. m - 1 \in Nat /\ m - 1 \notin Bad
    BY <1>2, <1>4
  <2>2. PICK f : f = [n \in 0 .. m - 1 |-> SpanStep(grid, spans, f, n)]
    BY <2>1
  <2> DEFINE g == [n \in 0 .. m |-> IF n = m THEN SpanStep(grid, spans, f, m) ELSE f[n]]
  <2>3. ASSUME NEW n \in 0 .. m
        PROVE  g[n] = SpanStep(grid, spans, g, n)
    <3>1. CASE n = 0
      BY <3>1, <1>4, <2>1, <2>2 DEF SpanStep
    <3>2. CASE n # 0
      <4>1. n - 1 \in 0 .. m - 1 /\ n \in 0 .. m /\ n - 1 # m /\ n - 1 \in 0 .. m
        BY <3>2, <1>2
      <4>2. g[n - 1] = f[n - 1]
        BY <4>1
      <4>3. n = m \/ n \in 0 .. m - 1
        BY <1>2
      <4>4. g[n] = SpanStep(grid, spans, f, n)
        BY <4>3, <2>2
      <4> QED
        BY <4>2, <4>4, <3>2 DEF SpanStep
    <3> QED
      BY <3>1, <3>2
  <2>4. g = [n \in 0 .. m |-> SpanStep(grid, spans, g, n)]
    BY <2>3
  <2> HIDE DEF g
  <2> QED
    BY <1>2, <2>4
<1> QED
  BY <1>3, <1>4

LEMMA SpanSteps ==
  ASSUME NEW grid, NEW spans, Len(spans) \in Nat
  PROVE  \E f : /\ \A n \in 0 .. Len(spans) : f[n] = SpanStep(grid, spans, f, n)
               /\ Paint(grid, spans) = f[Len(spans)]
<1>0. \E g : IsSpanStep(grid, spans, g, Len(spans))
  BY SpanExists
<1> DEFINE f == CHOOSE f : IsSpanStep(grid, spans, f, Len(spans))
<1>1. \A n \in 0 .. Len(spans) : f[n] = SpanStep(grid, spans, f, n)
  <2>1. IsSpanStep(grid, spans, f, Len(spans))
    BY <1>0
  <2> HIDE DEF f
  <2> QED
    BY <2>1 DEF IsSpanStep
<1>2. Paint(grid, spans) = f[Len(spans)]
  BY DEF Paint, SpanStep, IsSpanStep
<1> HIDE DEF f
<1> QED
  BY <1>1, <1>2

ChooseStep(xs, indices, f, n) ==
  IF n = 0 THEN <<>> ELSE IF n \in indices THEN Append(f[n - 1], xs[n]) ELSE f[n - 1]

IsChooseStep(xs, indices, f, N) == f = [n \in 0 .. N |-> ChooseStep(xs, indices, f, n)]

LEMMA ChooseExists ==
  ASSUME NEW xs, NEW indices, NEW N \in Nat
  PROVE  \E f : IsChooseStep(xs, indices, f, N)
<1> USE DEF IsChooseStep
<1> DEFINE Bad == {m \in Nat : ~ \E f : f = [n \in 0 .. m |-> ChooseStep(xs, indices, f, n)]}
<1>1. SUFFICES ASSUME Bad # {} PROVE FALSE
  OBVIOUS
<1>2. PICK m \in Bad : \A k \in Bad : m <= k
  <2>1. Bad \subseteq Nat
    OBVIOUS
  <2> HIDE DEF Bad
  <2> QED
    BY <1>1, <2>1, LeastNat
<1>3. CASE m = 0
  <2> DEFINE f == [n \in 0 .. 0 |-> <<>>]
  <2>1. f = [n \in 0 .. 0 |-> ChooseStep(xs, indices, f, n)]
    BY DEF ChooseStep
  <2> QED
    BY <1>2, <1>3, <2>1
<1>4. CASE m # 0
  <2>1. m - 1 \in Nat /\ m - 1 \notin Bad
    BY <1>2, <1>4
  <2>2. PICK f : f = [n \in 0 .. m - 1 |-> ChooseStep(xs, indices, f, n)]
    BY <2>1
  <2> DEFINE g == [n \in 0 .. m |-> IF n = m THEN ChooseStep(xs, indices, f, m) ELSE f[n]]
  <2>3. ASSUME NEW n \in 0 .. m
        PROVE  g[n] = ChooseStep(xs, indices, g, n)
    <3>1. CASE n = 0
      BY <3>1, <1>4, <2>1, <2>2 DEF ChooseStep
    <3>2. CASE n # 0
      <4>1. n - 1 \in 0 .. m - 1 /\ n \in 0 .. m /\ n - 1 # m /\ n - 1 \in 0 .. m
        BY <3>2, <1>2
      <4>2. g[n - 1] = f[n - 1]
        BY <4>1
      <4>3. n = m \/ n \in 0 .. m - 1
        BY <1>2
      <4>4. g[n] = ChooseStep(xs, indices, f, n)
        BY <4>3, <2>2
      <4> QED
        BY <4>2, <4>4, <3>2 DEF ChooseStep
    <3> QED
      BY <3>1, <3>2
  <2>4. g = [n \in 0 .. m |-> ChooseStep(xs, indices, g, n)]
    BY <2>3
  <2> HIDE DEF g
  <2> QED
    BY <1>2, <2>4
<1> QED
  BY <1>3, <1>4

LEMMA ChooseSteps ==
  ASSUME NEW xs, NEW indices, Len(xs) \in Nat
  PROVE  \E f : /\ \A n \in 0 .. Len(xs) : f[n] = ChooseStep(xs, indices, f, n)
               /\ Chosen(xs, indices) = f[Len(xs)]
<1>0. \E g : IsChooseStep(xs, indices, g, Len(xs))
  BY ChooseExists
<1> DEFINE f == CHOOSE f : IsChooseStep(xs, indices, f, Len(xs))
<1>1. \A n \in 0 .. Len(xs) : f[n] = ChooseStep(xs, indices, f, n)
  <2>1. IsChooseStep(xs, indices, f, Len(xs))
    BY <1>0
  <2> HIDE DEF f
  <2> QED
    BY <2>1 DEF IsChooseStep
<1>2. Chosen(xs, indices) = f[Len(xs)]
  BY DEF Chosen, ChooseStep, IsChooseStep
<1> HIDE DEF f
<1> QED
  BY <1>1, <1>2

GatherStep(scopes, indices, f, n) ==
  IF n = 0 THEN <<>> ELSE IF n \in indices THEN f[n - 1] \o scopes[n].pending ELSE f[n - 1]

IsGatherStep(scopes, indices, f, N) == f = [n \in 0 .. N |-> GatherStep(scopes, indices, f, n)]

LEMMA GatherExists ==
  ASSUME NEW scopes, NEW indices, NEW N \in Nat
  PROVE  \E f : IsGatherStep(scopes, indices, f, N)
<1> USE DEF IsGatherStep
<1> DEFINE Bad == {m \in Nat : ~ \E f : f = [n \in 0 .. m |-> GatherStep(scopes, indices, f, n)]}
<1>1. SUFFICES ASSUME Bad # {} PROVE FALSE
  OBVIOUS
<1>2. PICK m \in Bad : \A k \in Bad : m <= k
  <2>1. Bad \subseteq Nat
    OBVIOUS
  <2> HIDE DEF Bad
  <2> QED
    BY <1>1, <2>1, LeastNat
<1>3. CASE m = 0
  <2> DEFINE f == [n \in 0 .. 0 |-> <<>>]
  <2>1. f = [n \in 0 .. 0 |-> GatherStep(scopes, indices, f, n)]
    BY DEF GatherStep
  <2> QED
    BY <1>2, <1>3, <2>1
<1>4. CASE m # 0
  <2>1. m - 1 \in Nat /\ m - 1 \notin Bad
    BY <1>2, <1>4
  <2>2. PICK f : f = [n \in 0 .. m - 1 |-> GatherStep(scopes, indices, f, n)]
    BY <2>1
  <2> DEFINE g == [n \in 0 .. m |-> IF n = m THEN GatherStep(scopes, indices, f, m) ELSE f[n]]
  <2>3. ASSUME NEW n \in 0 .. m
        PROVE  g[n] = GatherStep(scopes, indices, g, n)
    <3>1. CASE n = 0
      BY <3>1, <1>4, <2>1, <2>2 DEF GatherStep
    <3>2. CASE n # 0
      <4>1. n - 1 \in 0 .. m - 1 /\ n \in 0 .. m /\ n - 1 # m /\ n - 1 \in 0 .. m
        BY <3>2, <1>2
      <4>2. g[n - 1] = f[n - 1]
        BY <4>1
      <4>3. n = m \/ n \in 0 .. m - 1
        BY <1>2
      <4>4. g[n] = GatherStep(scopes, indices, f, n)
        BY <4>3, <2>2
      <4> QED
        BY <4>2, <4>4, <3>2 DEF GatherStep
    <3> QED
      BY <3>1, <3>2
  <2>4. g = [n \in 0 .. m |-> GatherStep(scopes, indices, g, n)]
    BY <2>3
  <2> HIDE DEF g
  <2> QED
    BY <1>2, <2>4
<1> QED
  BY <1>3, <1>4

LEMMA GatherSteps ==
  ASSUME NEW scopes, NEW indices, Len(scopes) \in Nat
  PROVE  \E f : /\ \A n \in 0 .. Len(scopes) : f[n] = GatherStep(scopes, indices, f, n)
               /\ Operations(scopes, indices) = f[Len(scopes)]
<1>0. \E g : IsGatherStep(scopes, indices, g, Len(scopes))
  BY GatherExists
<1> DEFINE f == CHOOSE f : IsGatherStep(scopes, indices, f, Len(scopes))
<1>1. \A n \in 0 .. Len(scopes) : f[n] = GatherStep(scopes, indices, f, n)
  <2>1. IsGatherStep(scopes, indices, f, Len(scopes))
    BY <1>0
  <2> HIDE DEF f
  <2> QED
    BY <2>1 DEF IsGatherStep
<1>2. Operations(scopes, indices) = f[Len(scopes)]
  BY DEF Operations, GatherStep, IsGatherStep
<1> HIDE DEF f
<1> QED
  BY <1>1, <1>2

-----------------------------------------------------------------------------
(* What grids show.  The glyphs of a grid are its palette; the half of a wide       *)
(* character never comes alone.                                                      *)

Palette(G) == Blank \in G /\ (WideLeft \in G => WideRight \in G)

Narrow(G) == WideLeft \notin G /\ WideRight \notin G

SpansOf(G) == Seq([at : Cells, what : G])

LEMMA GlyphsDiffer ==
  /\ Blank # WideLeft /\ Blank # WideRight /\ WideLeft # WideRight /\ Printed # WideLeft /\ Printed # WideRight
  /\ \A k \in Characters : k \in Nat /\ k # Blank /\ k # Printed /\ k # WideLeft /\ k # WideRight
BY SizesAssumption DEF Blank, Printed, WideLeft, WideRight, Characters

LEMMA WithoutHalvesInk ==
  ASSUME NEW G, Palette(G), NEW grid \in [Cells -> G], NEW c
  PROVE  WithoutHalves(grid, c) \in [Cells -> G]
<1>1. WithoutHalves(grid, c) \in {grid, [grid EXCEPT ![c] = Blank, ![c + 1] = Blank],
                                  [grid EXCEPT ![c - 1] = Blank, ![c] = Blank]}
  BY DEF WithoutHalves
<1>2. \A d, e : [grid EXCEPT ![d] = Blank, ![e] = Blank] \in [Cells -> G]
  BY DEF Palette
<1> QED
  BY <1>1, <1>2

\* What is written on a grid is on its palette; with no wide characters about, only the
\* cell changes.
LEMMA WriteInk ==
  ASSUME NEW G, Palette(G), NEW grid \in [Cells -> G], NEW c \in Cells, NEW what \in G
  PROVE  /\ Write(grid, c, what) \in [Cells -> G]
         /\ Narrow(G) => \A d \in Cells : Write(grid, c, what)[d] = IF d = c THEN what ELSE grid[d]
<1>1. Write(grid, c, what) \in [Cells -> G]
  <2> PICK g, h : g = WithoutHalves(grid, c) /\ h = WithoutHalves(g, c + 1)
    OBVIOUS
  <2>1. g \in [Cells -> G] /\ h \in [Cells -> G]
    BY WithoutHalvesInk
  <2>2. CASE what = WideLeft
    <3>1. Write(grid, c, what) = [h EXCEPT ![c] = WideLeft, ![c + 1] = WideRight]
      BY <2>2 DEF Write
    <3> QED
      BY <2>1, <2>2, <3>1 DEF Palette
  <2>3. CASE what # WideLeft
    <3>1. Write(grid, c, what) = [g EXCEPT ![c] = what]
      BY <2>3 DEF Write
    <3> QED
      BY <2>1, <3>1
  <2> QED
    BY <2>2, <2>3
<1>2. Narrow(G) => \A d \in Cells : Write(grid, c, what)[d] = IF d = c THEN what ELSE grid[d]
  BY DEF Narrow, Write, WithoutHalves
<1> QED
  BY <1>1, <1>2

LEMMA ScrollInk ==
  ASSUME NEW G, Palette(G), NEW grid \in [Cells -> G]
  PROVE  scrollRegion(grid) \in [Cells -> G]
<1>1. \A c \in Cells : c < Width => c + Width \in Cells
  BY CellsAre
<1> QED
  BY <1>1, ScrollRegionIs DEF Palette

CellsInk(cells, G) == DOMAIN cells \subseteq Cells /\ \A c \in DOMAIN cells : cells[c] \in G

\* The cells of a frame up to n have been painted.
PaintedPart(G, grid, cells, g, n) ==
    /\ g \in [Cells -> G]
    /\ Narrow(G) => \A c \in Cells : g[c] = IF c \in DOMAIN cells /\ c < n THEN cells[c] ELSE grid[c]

LEMMA PaintedOne ==
  ASSUME NEW G, Palette(G), NEW grid, NEW cells, CellsInk(cells, G), NEW d \in Cells,
         NEW g, PaintedPart(G, grid, cells, g, d)
  PROVE  PaintedPart(G, grid, cells, IF d \in DOMAIN cells /\ cells[d] # WideRight THEN Write(g, d, cells[d]) ELSE g, d + 1)
<1>1. g \in [Cells -> G] /\ d \in Nat /\ \A c \in Cells : c \in Nat
  BY CellsAre DEF PaintedPart
<1>2. \A c \in Cells : c < d + 1 <=> c = d \/ c < d
  BY <1>1
<1>3. CASE d \in DOMAIN cells /\ cells[d] # WideRight
  <2> PICK x, h : x = cells[d] /\ h = Write(g, d, x)
    OBVIOUS
  <2>1. x \in G
    BY <1>3 DEF CellsInk
  <2>2. h \in [Cells -> G] /\ (Narrow(G) => \A e \in Cells : h[e] = IF e = d THEN x ELSE g[e])
    BY <1>1, <2>1, WriteInk
  <2>3. ASSUME Narrow(G), NEW c \in Cells
        PROVE  h[c] = IF c \in DOMAIN cells /\ c < d + 1 THEN cells[c] ELSE grid[c]
    <3>1. g[c] = IF c \in DOMAIN cells /\ c < d THEN cells[c] ELSE grid[c]
      BY <2>3 DEF PaintedPart
    <3>2. h[c] = IF c = d THEN x ELSE g[c]
      BY <1>1, <2>2, <2>3
    <3> QED
      BY <1>2, <1>3, <3>1, <3>2
  <2> QED
    BY <1>3, <2>2, <2>3 DEF PaintedPart
<1>4. CASE ~(d \in DOMAIN cells /\ cells[d] # WideRight)
  <2>1. Narrow(G) => d \notin DOMAIN cells
    BY <1>4 DEF CellsInk, Narrow
  <2> QED
    BY <1>1, <1>2, <1>4, <2>1 DEF PaintedPart
<1> QED
  BY <1>3, <1>4

\* The cells of a frame, and nothing else unless there are wide characters.
LEMMA PaintCellsInk ==
  ASSUME NEW G, Palette(G), NEW grid \in [Cells -> G], NEW cells, CellsInk(cells, G)
  PROVE  /\ PaintCells(grid, cells) \in [Cells -> G]
         /\ Narrow(G) => \A c \in Cells :
               PaintCells(grid, cells)[c] = IF c \in DOMAIN cells THEN cells[c] ELSE grid[c]
<1> DEFINE N == 2 * Width
<1>1. N \in Nat /\ \A c : c \in Cells <=> c \in Nat /\ c < N
  BY CellsAre
<1>2. PICK f : /\ \A n \in 0 .. N : f[n] = PaintStep(grid, cells, f, n)
               /\ PaintCells(grid, cells) = f[N]
  BY <1>1, PaintCellsSteps
<1> HIDE DEF N
<1> DEFINE Bad == {n \in 0 .. N : ~PaintedPart(G, grid, cells, f[n], n)}
<1>3. ASSUME Bad # {} PROVE FALSE
  <2>1. PICK m \in Bad : \A k \in Bad : m <= k
    <3>1. Bad \subseteq Nat
      OBVIOUS
    <3> HIDE DEF Bad
    <3> QED
      BY <1>3, <3>1, LeastNat
  <2>2. m # 0
    <3>1. f[0] = grid
      BY <1>1, <1>2 DEF PaintStep
    <3>2. \A c \in Cells : ~(c < 0)
      BY CellsAre
    <3> QED
      BY <2>1, <3>1, <3>2 DEF PaintedPart
  <2> PICK d : d = m - 1
    OBVIOUS
  <2>3. d \in 0 .. N /\ m \in 0 .. N /\ d \in Cells /\ m = d + 1 /\ d \notin Bad
    BY <1>1, <2>1, <2>2
  <2>4. PaintedPart(G, grid, cells, f[d], d)
    BY <2>3
  <2>5. f[m] = IF d \in DOMAIN cells /\ cells[d] # WideRight THEN Write(f[d], d, cells[d]) ELSE f[d]
    BY <1>2, <2>2, <2>3 DEF PaintStep
  <2>6. PaintedPart(G, grid, cells, f[m], m)
    BY <2>3, <2>4, <2>5, PaintedOne
  <2> QED
    BY <2>1, <2>6
<1>4. PaintedPart(G, grid, cells, f[N], N)
  BY <1>1, <1>3
<1>5. \A c \in Cells : c < N
  BY <1>1
<1> HIDE DEF N
<1> QED
  BY <1>2, <1>4, <1>5 DEF PaintedPart

-----------------------------------------------------------------------------
(* What shows of spans and operations: the last one on a cell *)

\* Sequences of spans or operations, in order.
IsRow(xs) == Len(xs) \in Nat /\ DOMAIN xs = 1 .. Len(xs)

\* The grid g shows the first n of the spans on the grid.
ShowsAt(grid, xs, n, c, what) ==
    \/ \E i \in 1 .. n : xs[i].at = c /\ what = xs[i].what /\ \A j \in 1 .. n : xs[j].at = c => j <= i
    \/ (\A i \in 1 .. n : xs[i].at # c) /\ what = grid[c]

Shows(grid, xs, n, g) == \A c \in Cells : ShowsAt(grid, xs, n, c, g[c])

LEMMA ShowsOnce ==
  ASSUME NEW grid, NEW xs, NEW n \in Nat, NEW c, NEW a, NEW b,
         ShowsAt(grid, xs, n, c, a), ShowsAt(grid, xs, n, c, b)
  PROVE  a = b
<1>1. CASE \A i \in 1 .. n : xs[i].at # c
  BY <1>1 DEF ShowsAt
<1>2. CASE ~ \A i \in 1 .. n : xs[i].at # c
  <2>1. PICK i \in 1 .. n : xs[i].at = c /\ a = xs[i].what /\ \A j \in 1 .. n : xs[j].at = c => j <= i
    BY <1>2 DEF ShowsAt
  <2>2. PICK j \in 1 .. n : xs[j].at = c /\ b = xs[j].what /\ \A k \in 1 .. n : xs[k].at = c => k <= j
    BY <1>2 DEF ShowsAt
  <2>3. i = j
    BY <2>1, <2>2
  <2> QED
    BY <2>1, <2>2, <2>3
<1> QED
  BY <1>1, <1>2

LEMMA Greatest ==
  ASSUME NEW L \in Nat, NEW T, T \subseteq 1 .. L, T # {}
  PROVE  \E i \in T : \A j \in T : j <= i
<1> DEFINE R == {L - i : i \in T}
<1>0. \A i \in T : i \in 1 .. L
  OBVIOUS
<1>1. R \subseteq Nat /\ R # {}
  <2>1. \A i \in T : L - i \in Nat /\ L - i \in R
    BY <1>0
  <2>2. PICK i : i \in T
    OBVIOUS
  <2>3. R # {}
    BY <2>1, <2>2
  <2> QED
    BY <2>1, <2>3
<1>2. PICK x \in R : \A y \in R : x <= y
  <2> HIDE DEF R
  <2> QED
    BY <1>1, LeastNat
<1>3. PICK i \in T : x = L - i
  BY <1>2
<1>4. \A j \in T : j <= i
  <2> TAKE j \in T
  <2>1. L - j \in R
    OBVIOUS
  <2>2. x <= L - j
    BY <1>2, <2>1
  <2> QED
    BY <1>0, <1>3, <2>2
<1> QED
  BY <1>4

LEMMA LastOnIs ==
  ASSUME NEW xs, IsRow(xs), NEW c, On(xs, c) # {}
  PROVE  LastOn(xs, c) \in On(xs, c) /\ \A j \in On(xs, c) : j <= LastOn(xs, c)
<1>1. On(xs, c) \subseteq 1 .. Len(xs) /\ Len(xs) \in Nat
  BY DEF On, IsRow
<1> QED
  BY <1>1, Greatest DEF LastOn

LEMMA ComposedShows ==
  ASSUME NEW grid, NEW xs, IsRow(xs)
  PROVE  Shows(grid, xs, Len(xs), Composed(grid, xs)) /\ Composed(grid, xs) = [c \in Cells |-> Composed(grid, xs)[c]]
<1>1. ASSUME NEW c \in Cells
      PROVE  ShowsAt(grid, xs, Len(xs), c, Composed(grid, xs)[c])
  <2>1. CASE On(xs, c) = {}
    <3>1. Composed(grid, xs)[c] = grid[c]
      BY <2>1 DEF Composed
    <3>2. \A i \in 1 .. Len(xs) : xs[i].at # c
      BY <2>1 DEF On, IsRow
    <3> QED
      BY <3>1, <3>2 DEF ShowsAt
  <2>2. CASE On(xs, c) # {}
    <3> PICK i : i = LastOn(xs, c)
      OBVIOUS
    <3>1. Composed(grid, xs)[c] = xs[i].what
      BY <2>2 DEF Composed
    <3>2. i \in On(xs, c) /\ \A j \in On(xs, c) : j <= i
      BY <2>2, LastOnIs
    <3>3. i \in 1 .. Len(xs) /\ xs[i].at = c /\ \A j \in 1 .. Len(xs) : xs[j].at = c => j <= i
      BY <3>2 DEF On, IsRow
    <3> QED
      BY <3>1, <3>3 DEF ShowsAt
  <2> QED
    BY <2>1, <2>2
<1> QED
  BY <1>1 DEF Shows, Composed

LEMMA ShowsIsComposed ==
  ASSUME NEW grid, NEW xs, IsRow(xs), NEW g, g = [c \in Cells |-> g[c]], Shows(grid, xs, Len(xs), g)
  PROVE  g = Composed(grid, xs)
<1> PICK h : h = Composed(grid, xs)
  OBVIOUS
<1>1. h = [c \in Cells |-> h[c]] /\ Shows(grid, xs, Len(xs), h) /\ Len(xs) \in Nat
  BY ComposedShows DEF IsRow
<1>2. \A c \in Cells : g[c] = h[c]
  BY <1>1, ShowsOnce DEF Shows
<1> QED
  BY <1>1, <1>2

\* One cell: none of the operations is on it, or the last of them shows.
LEMMA ComposedAt ==
  ASSUME NEW grid, NEW xs, IsRow(xs), NEW c \in Cells
  PROVE  /\ (\A i \in DOMAIN xs : xs[i].at # c) => Composed(grid, xs)[c] = grid[c]
         /\ (\E i \in DOMAIN xs : xs[i].at = c) =>
              \E i \in DOMAIN xs : xs[i].at = c /\ Composed(grid, xs)[c] = xs[i].what
<1>1. ShowsAt(grid, xs, Len(xs), c, Composed(grid, xs)[c]) /\ DOMAIN xs = 1 .. Len(xs)
  BY ComposedShows DEF Shows, IsRow
<1> QED
  BY <1>1 DEF ShowsAt

LEMMA ComposedInk ==
  ASSUME NEW S, NEW grid \in [Cells -> S], NEW xs, IsRow(xs), \A i \in DOMAIN xs : xs[i].what \in S
  PROVE  Composed(grid, xs) \in [Cells -> S]
<1>1. \A c \in Cells : Composed(grid, xs)[c] \in S
  BY ComposedAt
<1> QED
  BY <1>1, ComposedShows

LEMMA ComposedNothing ==
  ASSUME NEW S, NEW grid \in [Cells -> S]
  PROVE  Composed(grid, <<>>) = grid
<1>1. On(<<>>, 0) = {} /\ \A c \in Cells : On(<<>>, c) = {}
  BY DEF On
<1> QED
  BY <1>1 DEF Composed

\* Operations and their spans.
LEMMA ComposedSame ==
  ASSUME NEW grid, NEW xs, NEW ys, IsRow(xs), DOMAIN xs = DOMAIN ys,
         \A i \in DOMAIN xs : xs[i].at = ys[i].at /\ xs[i].what = ys[i].what
  PROVE  Composed(grid, xs) = Composed(grid, ys)
<1>1. \A c \in Cells : On(xs, c) = On(ys, c)
  BY DEF On
<1>2. \A c \in Cells : LastOn(xs, c) = LastOn(ys, c)
  BY <1>1 DEF LastOn
<1> DEFINE F(ops, c) == IF On(ops, c) = {} THEN grid[c] ELSE ops[LastOn(ops, c)].what
<1>3. ASSUME NEW c \in Cells
      PROVE  F(xs, c) = F(ys, c)
  <2>1. CASE On(xs, c) = {}
    BY <1>1, <2>1
  <2>2. CASE On(xs, c) # {}
    <3>1. LastOn(xs, c) \in DOMAIN xs
      BY <2>2, LastOnIs DEF On
    <3> QED
      BY <1>1, <1>2, <2>2, <3>1
  <2> QED
    BY <2>1, <2>2
<1> QED
  BY <1>3 DEF Composed

\* One row after the other.
Joined(xs, ys, zs) ==
    /\ IsRow(xs) /\ IsRow(ys) /\ IsRow(zs) /\ Len(zs) = Len(xs) + Len(ys)
    /\ \A i \in 1 .. Len(xs) + Len(ys) : zs[i] = IF i <= Len(xs) THEN xs[i] ELSE ys[i - Len(xs)]

LEMMA JoinedIs ==
  ASSUME NEW T, NEW xs \in Seq(T), NEW ys \in Seq(T), NEW zs, zs = xs \o ys
  PROVE  Joined(xs, ys, zs)
BY DEF IsRow, Joined

LEMMA ComposedConcat ==
  ASSUME NEW grid, NEW xs, NEW ys, NEW zs, Joined(xs, ys, zs)
  PROVE  Composed(grid, zs) = Composed(Composed(grid, xs), ys)
<1> PICK m, k : m = Len(xs) /\ k = Len(ys)
  OBVIOUS
<1>1. /\ IsRow(xs) /\ IsRow(ys) /\ IsRow(zs) /\ m \in Nat /\ k \in Nat /\ Len(zs) = m + k
      /\ \A i \in 1 .. m + k : zs[i] = IF i <= m THEN xs[i] ELSE ys[i - m]
  BY DEF IsRow, Joined
<1> PICK h, g : h = Composed(grid, xs) /\ g = Composed(h, ys)
  OBVIOUS
<1>2. g = [c \in Cells |-> g[c]] /\ Shows(h, ys, k, g) /\ Shows(grid, xs, m, h)
  BY <1>1, ComposedShows
<1>3. ASSUME NEW c \in Cells
      PROVE  ShowsAt(grid, zs, m + k, c, g[c])
  <2>1. CASE \E i \in 1 .. k : ys[i].at = c
    <3>1. PICK i \in 1 .. k : ys[i].at = c /\ g[c] = ys[i].what /\ \A j \in 1 .. k : ys[j].at = c => j <= i
      BY <1>2, <2>1 DEF Shows, ShowsAt
    <3>2. m + i \in 1 .. m + k /\ zs[m + i] = ys[i]
      BY <1>1
    <3>3. ASSUME NEW j \in 1 .. m + k, zs[j].at = c
          PROVE  j <= m + i
      <4>1. CASE j > m
        <5>1. j - m \in 1 .. k /\ zs[j] = ys[j - m]
          BY <1>1, <4>1
        <5> QED
          BY <1>1, <3>1, <3>3, <5>1
      <4> QED
        BY <1>1, <4>1
    <3> QED
      BY <3>1, <3>2, <3>3 DEF ShowsAt
  <2>2. CASE (\A i \in 1 .. k : ys[i].at # c) /\ \E i \in 1 .. m : xs[i].at = c
    <3>0. ShowsAt(h, ys, k, c, g[c]) /\ ShowsAt(grid, xs, m, c, h[c])
      BY <1>2 DEF Shows
    <3>1. g[c] = h[c]
      BY <2>2, <3>0 DEF ShowsAt
    <3>2. PICK i \in 1 .. m : xs[i].at = c /\ h[c] = xs[i].what /\ \A j \in 1 .. m : xs[j].at = c => j <= i
      BY <2>2, <3>0 DEF ShowsAt
    <3>3. i \in 1 .. m + k /\ zs[i] = xs[i]
      BY <1>1
    <3>4. ASSUME NEW j \in 1 .. m + k, zs[j].at = c
          PROVE  j <= i
      <4>1. CASE j > m
        <5>1. j - m \in 1 .. k /\ zs[j] = ys[j - m]
          BY <1>1, <4>1
        <5> QED
          BY <2>2, <3>4, <5>1
      <4>2. CASE j <= m
        <5>1. j \in 1 .. m /\ zs[j] = xs[j]
          BY <1>1, <4>2
        <5> QED
          BY <3>2, <3>4, <5>1
      <4> QED
        BY <1>1, <4>1, <4>2
    <3> QED
      BY <3>1, <3>2, <3>3, <3>4 DEF ShowsAt
  <2>3. CASE (\A i \in 1 .. k : ys[i].at # c) /\ (\A i \in 1 .. m : xs[i].at # c)
    <3>0. ShowsAt(h, ys, k, c, g[c]) /\ ShowsAt(grid, xs, m, c, h[c])
      BY <1>2 DEF Shows
    <3>1. g[c] = grid[c]
      BY <2>3, <3>0 DEF ShowsAt
    <3>2. ASSUME NEW j \in 1 .. m + k
          PROVE  zs[j].at # c
      <4>1. CASE j > m
        <5>1. j - m \in 1 .. k /\ zs[j] = ys[j - m]
          BY <1>1, <4>1
        <5> QED
          BY <2>3, <5>1
      <4>2. CASE j <= m
        <5>1. j \in 1 .. m /\ zs[j] = xs[j]
          BY <1>1, <4>2
        <5> QED
          BY <2>3, <5>1
      <4> QED
        BY <1>1, <4>1, <4>2
    <3> QED
      BY <3>1, <3>2 DEF ShowsAt
  <2> QED
    BY <2>1, <2>2, <2>3
<1>4. Shows(grid, zs, Len(zs), g)
  BY <1>1, <1>3 DEF Shows
<1>5. g = Composed(grid, zs)
  BY <1>1, <1>2, <1>4, ShowsIsComposed
<1> QED
  BY <1>5

\* Where nothing is predicted the grids need to agree, elsewhere not.
LEMMA ComposedAgree ==
  ASSUME NEW g, NEW h, NEW xs, IsRow(xs),
         \A c \in Cells : (\A i \in DOMAIN xs : xs[i].at # c) => g[c] = h[c]
  PROVE  Composed(g, xs) = Composed(h, xs)
<1>1. ASSUME NEW c \in Cells
      PROVE  ShowsAt(h, xs, Len(xs), c, Composed(g, xs)[c])
  <2>1. ShowsAt(g, xs, Len(xs), c, Composed(g, xs)[c]) /\ DOMAIN xs = 1 .. Len(xs)
    BY ComposedShows DEF Shows, IsRow
  <2> QED
    BY <2>1 DEF ShowsAt
<1> QED
  BY <1>1, ComposedShows, ShowsIsComposed DEF Shows

\* One more span.
LEMMA ShowsOneMore ==
  ASSUME NEW grid, NEW xs, NEW n \in Nat, NEW g, Shows(grid, xs, n, g), NEW h,
         \A c \in Cells : h[c] = IF c = xs[n + 1].at THEN xs[n + 1].what ELSE g[c]
  PROVE  Shows(grid, xs, n + 1, h)
<1>1. ASSUME NEW c \in Cells, c = xs[n + 1].at
      PROVE  ShowsAt(grid, xs, n + 1, c, h[c])
  BY <1>1 DEF ShowsAt
<1>2. ASSUME NEW c \in Cells, c # xs[n + 1].at
      PROVE  ShowsAt(grid, xs, n + 1, c, h[c])
  <2>1. ShowsAt(grid, xs, n, c, h[c])
    BY <1>2 DEF Shows
  <2>2. \A i \in 1 .. n + 1 : i = n + 1 \/ i \in 1 .. n
    OBVIOUS
  <2>3. \A i \in 1 .. n : i \in 1 .. n + 1
    OBVIOUS
  <2>4. CASE \A i \in 1 .. n : xs[i].at # c
    BY <1>2, <2>1, <2>2, <2>4 DEF ShowsAt
  <2>5. CASE ~ \A i \in 1 .. n : xs[i].at # c
    <3>1. PICK i \in 1 .. n : xs[i].at = c /\ h[c] = xs[i].what /\ \A j \in 1 .. n : xs[j].at = c => j <= i
      BY <2>1, <2>5 DEF ShowsAt
    <3> QED
      BY <1>2, <2>2, <2>3, <3>1 DEF ShowsAt
  <2> QED
    BY <2>4, <2>5
<1> QED
  BY <1>1, <1>2 DEF Shows

\* The spans up to n have been painted.
PaintedSpans(S, grid, spans, g, n) == g \in [Cells -> S] /\ (Narrow(S) => Shows(grid, spans, n, g))

LEMMA PaintedSpan ==
  ASSUME NEW S, Palette(S), NEW grid, NEW spans, NEW n \in Nat, NEW g, PaintedSpans(S, grid, spans, g, n),
         NEW at \in Cells, NEW what \in S, at = spans[n + 1].at, what = spans[n + 1].what
  PROVE  PaintedSpans(S, grid, spans, Write(g, at, what), n + 1)
<1> PICK h : h = Write(g, at, what)
  OBVIOUS
<1>1. h \in [Cells -> S] /\ (Narrow(S) => \A c \in Cells : h[c] = IF c = at THEN what ELSE g[c])
  BY WriteInk DEF PaintedSpans
<1>2. Narrow(S) => Shows(grid, spans, n + 1, h)
  BY <1>1, ShowsOneMore DEF PaintedSpans
<1> QED
  BY <1>1, <1>2 DEF PaintedSpans

LEMMA RowIs ==
  ASSUME NEW T, NEW xs \in Seq(T)
  PROVE  IsRow(xs) /\ \A i \in DOMAIN xs : xs[i] \in T
BY DEF IsRow

LEMMA SpansAre ==
  ASSUME NEW S, NEW spans \in SpansOf(S)
  PROVE  IsRow(spans) /\ \A i \in DOMAIN spans : spans[i].at \in Cells /\ spans[i].what \in S
<1>1. IsRow(spans) /\ \A i \in DOMAIN spans : spans[i] \in [at : Cells, what : S]
  BY RowIs DEF SpansOf
<1> QED
  BY <1>1

LEMMA PaintInk ==
  ASSUME NEW S, Palette(S), NEW grid \in [Cells -> S], NEW spans \in SpansOf(S)
  PROVE  /\ Paint(grid, spans) \in [Cells -> S]
         /\ Narrow(S) => Paint(grid, spans) = Composed(grid, spans)
<1> PICK N : N = Len(spans)
  OBVIOUS
<1>1. /\ N \in Nat /\ IsRow(spans)
      /\ \A i \in 1 .. N : spans[i].at \in Cells /\ spans[i].what \in S
  BY SpansAre DEF IsRow
<1>2. PICK f : /\ \A n \in 0 .. N : f[n] = SpanStep(grid, spans, f, n)
               /\ Paint(grid, spans) = f[N]
  BY <1>1, SpanSteps
<1> DEFINE Bad == {n \in 0 .. N : ~PaintedSpans(S, grid, spans, f[n], n)}
<1>3. ASSUME Bad # {} PROVE FALSE
  <2>1. PICK m \in Bad : \A k \in Bad : m <= k
    <3>1. Bad \subseteq Nat
      OBVIOUS
    <3> HIDE DEF Bad
    <3> QED
      BY <1>3, <3>1, LeastNat
  <2>2. m # 0
    <3>1. f[0] = grid
      BY <1>1, <1>2 DEF SpanStep
    <3> QED
      BY <2>1, <3>1 DEF PaintedSpans, Shows, ShowsAt
  <2> PICK d : d = m - 1
    OBVIOUS
  <2>3. d \in 0 .. N /\ m \in 1 .. N /\ m \in 0 .. N /\ m = d + 1 /\ d \in Nat /\ d \notin Bad
    BY <1>1, <2>1, <2>2
  <2>4. PaintedSpans(S, grid, spans, f[d], d)
    BY <2>3
  <2> PICK at, what : at = spans[m].at /\ what = spans[m].what
    OBVIOUS
  <2>5. f[m] = Write(f[d], at, what) /\ at \in Cells /\ what \in S
    BY <1>1, <1>2, <2>2, <2>3 DEF SpanStep
  <2>6. at = spans[d + 1].at /\ what = spans[d + 1].what
    BY <2>3
  <2> HIDE DEF Bad
  <2>7. PaintedSpans(S, grid, spans, f[m], m)
    BY <2>3, <2>4, <2>5, <2>6, PaintedSpan
  <2> QED
    BY <2>1, <2>7 DEF Bad
<1>4. PaintedSpans(S, grid, spans, f[N], N)
  BY <1>1, <1>3
<1>5. f[N] = [c \in Cells |-> f[N][c]]
  BY <1>4 DEF PaintedSpans
<1> QED
  BY <1>1, <1>2, <1>4, <1>5, ShowsIsComposed DEF PaintedSpans

-----------------------------------------------------------------------------
(* Operations and their spans *)

OpSet == [kind : {"insert", "backspace"}, what : Characters \cup {Blank}, at : Cells, after : Cells]

\* All of the operations are of these characters, or erase.
Of(ops, K) == \A i \in DOMAIN ops : ops[i].what \in K \cup {Blank}

LEMMA OpIs ==
  ASSUME NEW o \in OpSet
  PROVE  o.what \in Characters \cup {Blank} /\ o.at \in Cells /\ o.after \in Cells
BY DEF OpSet

LEMMA OpsAre ==
  ASSUME NEW ops \in Seq(OpSet)
  PROVE  /\ IsRow(ops)
         /\ \A i \in DOMAIN ops : /\ ops[i] \in OpSet /\ ops[i].what \in Characters \cup {Blank}
                                  /\ ops[i].at \in Cells /\ ops[i].after \in Cells
BY RowIs, OpIs

LEMMA SpansFrom ==
  ASSUME NEW S, NEW xs, IsRow(xs), NEW spans, spans = [i \in DOMAIN xs |-> [at |-> xs[i].at, what |-> spans[i].what]],
         \A i \in DOMAIN xs : xs[i].at \in Cells /\ spans[i].what \in S
  PROVE  /\ spans \in SpansOf(S) /\ DOMAIN spans = DOMAIN xs
         /\ \A i \in DOMAIN xs : spans[i].at = xs[i].at
<1>1. \A i \in DOMAIN xs : spans[i] \in [at : Cells, what : S] /\ spans[i].at = xs[i].at
  <2> TAKE i \in DOMAIN xs
  <2>1. spans[i] = [at |-> xs[i].at, what |-> spans[i].what]
    OBVIOUS
  <2> QED
    BY <2>1
<1> PICK T, N : T = [at : Cells, what : S] /\ N = Len(xs)
  OBVIOUS
<1>2. N \in Nat /\ DOMAIN xs = 1 .. N
  BY DEF IsRow
<1>3. spans \in [1 .. N -> T]
  BY <1>1, <1>2
<1>4. spans \in Seq(T)
  BY <1>2, <1>3
<1> QED
  BY <1>1, <1>4 DEF SpansOf

\* The spans that repair show what the server has sent.
LEMMA RepairSpansAre ==
  ASSUME NEW G, Palette(G), NEW grid \in [Cells -> G], NEW ops \in Seq(OpSet)
  PROVE  LET spans == repairSpans(ops, grid)
         IN  /\ spans \in SpansOf(G) /\ DOMAIN spans = DOMAIN ops
             /\ \A i \in DOMAIN ops : spans[i].at = ops[i].at
             /\ Narrow(G) => \A i \in DOMAIN ops : spans[i].what = grid[ops[i].at]
<1> PICK spans : spans = repairSpans(ops, grid)
  OBVIOUS
<1>1. /\ spans = [i \in DOMAIN ops |-> [at |-> ops[i].at, what |-> spans[i].what]]
      /\ \A i \in DOMAIN ops : spans[i].what = IF grid[ops[i].at] = WideRight THEN Blank ELSE grid[ops[i].at]
  BY DEF repairSpans
<1>2. IsRow(ops) /\ \A i \in DOMAIN ops : ops[i].at \in Cells /\ grid[ops[i].at] \in G
  BY OpsAre
<1>3. \A i \in DOMAIN ops : spans[i].what \in G
  BY <1>1, <1>2 DEF Palette
<1>4. Narrow(G) => \A i \in DOMAIN ops : spans[i].what = grid[ops[i].at]
  BY <1>1, <1>2 DEF Narrow
<1> QED
  BY <1>1, <1>2, <1>3, <1>4, SpansFrom

LEMMA PredictionSpansAre ==
  ASSUME NEW S, Blank \in S, NEW K, K \subseteq S, NEW ops \in Seq(OpSet), Of(ops, K)
  PROVE  /\ predictionSpans(ops) \in SpansOf(S)
         /\ \A grid : Composed(grid, predictionSpans(ops)) = Composed(grid, ops)
<1> PICK spans : spans = predictionSpans(ops)
  OBVIOUS
<1>1. /\ spans = [i \in DOMAIN ops |-> [at |-> ops[i].at, what |-> spans[i].what]]
      /\ \A i \in DOMAIN ops : spans[i].what = ops[i].what
  BY DEF predictionSpans
<1>2. IsRow(ops) /\ \A i \in DOMAIN ops : ops[i].at \in Cells /\ ops[i].what \in S
  BY OpsAre DEF Of
<1>3. spans \in SpansOf(S) /\ DOMAIN spans = DOMAIN ops /\ \A i \in DOMAIN ops : spans[i].at = ops[i].at
  BY <1>1, <1>2, SpansFrom
<1>4. \A grid : Composed(grid, spans) = Composed(grid, ops)
  BY <1>1, <1>2, <1>3, ComposedSame
<1> QED
  BY <1>3, <1>4

\* Repaired cells are as the server has them, the others are as they were.
LEMMA RepairedAt ==
  ASSUME NEW G, Palette(G), Narrow(G), NEW grid \in [Cells -> G], NEW ops \in Seq(OpSet), NEW h, NEW c \in Cells
  PROVE  Composed(h, repairSpans(ops, grid))[c] = IF \E i \in DOMAIN ops : ops[i].at = c THEN grid[c] ELSE h[c]
<1> PICK spans : spans = repairSpans(ops, grid)
  OBVIOUS
<1>1. /\ IsRow(spans) /\ DOMAIN spans = DOMAIN ops
      /\ \A i \in DOMAIN ops : spans[i].at = ops[i].at /\ spans[i].what = grid[ops[i].at]
  BY RepairSpansAre, SpansAre
<1> QED
  BY <1>1, ComposedAt

\* The elements chosen are there.
ChosenPart(T, xs, indices, ys, n) ==
    ys \in Seq(T) /\ \A i \in 1 .. n : i \in indices => \E j \in DOMAIN ys : ys[j] = xs[i]

LEMMA ChosenFurther ==
  ASSUME NEW T, NEW xs \in Seq(T), NEW indices, NEW n \in Nat, n + 1 \in DOMAIN xs, NEW ys,
         ChosenPart(T, xs, indices, ys, n)
  PROVE  ChosenPart(T, xs, indices, IF n + 1 \in indices THEN Append(ys, xs[n + 1]) ELSE ys, n + 1)
<1> PICK x : x = xs[n + 1]
  OBVIOUS
<1>1. x \in T /\ ys \in Seq(T) /\ \A i \in 1 .. n + 1 : i = n + 1 \/ i \in 1 .. n
  BY DEF ChosenPart
<1>2. CASE n + 1 \notin indices
  BY <1>1, <1>2 DEF ChosenPart
<1>3. CASE n + 1 \in indices
  <2> PICK zs : zs = Append(ys, x)
    OBVIOUS
  <2>1. /\ zs \in Seq(T) /\ Len(ys) + 1 \in DOMAIN zs /\ zs[Len(ys) + 1] = x
        /\ \A j \in DOMAIN ys : j \in DOMAIN zs /\ zs[j] = ys[j]
    BY <1>1
  <2>2. ASSUME NEW i \in 1 .. n + 1, i \in indices
        PROVE  \E j \in DOMAIN zs : zs[j] = xs[i]
    <3>1. CASE i = n + 1
      BY <2>1, <3>1
    <3>2. CASE i \in 1 .. n
      <4>1. PICK j \in DOMAIN ys : ys[j] = xs[i]
        BY <2>2, <3>2 DEF ChosenPart
      <4> QED
        BY <2>1, <4>1
    <3> QED
      BY <1>1, <3>1, <3>2
  <2> QED
    BY <1>3, <2>1, <2>2 DEF ChosenPart
<1> QED
  BY <1>2, <1>3

LEMMA ChosenIs ==
  ASSUME NEW T, NEW xs \in Seq(T), NEW indices
  PROVE  ChosenPart(T, xs, indices, Chosen(xs, indices), Len(xs))
<1> PICK N : N = Len(xs)
  OBVIOUS
<1>1. N \in Nat /\ DOMAIN xs = 1 .. N
  OBVIOUS
<1>2. PICK f : /\ \A n \in 0 .. N : f[n] = ChooseStep(xs, indices, f, n)
               /\ Chosen(xs, indices) = f[N]
  BY <1>1, ChooseSteps
<1> DEFINE Bad == {n \in 0 .. N : ~ChosenPart(T, xs, indices, f[n], n)}
<1>3. ASSUME Bad # {} PROVE FALSE
  <2>1. PICK m \in Bad : \A k \in Bad : m <= k
    <3>1. Bad \subseteq Nat
      OBVIOUS
    <3> HIDE DEF Bad
    <3> QED
      BY <1>3, <3>1, LeastNat
  <2>2. m # 0
    <3>1. f[0] = <<>>
      BY <1>1, <1>2 DEF ChooseStep
    <3>2. ChosenPart(T, xs, indices, <<>>, 0)
      BY DEF ChosenPart
    <3> QED
      BY <2>1, <3>1, <3>2
  <2> PICK d : d = m - 1
    OBVIOUS
  <2>3. d \in 0 .. N /\ m \in 0 .. N /\ d + 1 \in DOMAIN xs /\ m = d + 1 /\ d \in Nat /\ d \notin Bad
    BY <1>1, <2>1, <2>2
  <2>4. ChosenPart(T, xs, indices, f[d], d)
    BY <2>3
  <2>5. f[m] = IF d + 1 \in indices THEN Append(f[d], xs[d + 1]) ELSE f[d]
    BY <1>2, <2>2, <2>3 DEF ChooseStep
  <2> HIDE DEF Bad
  <2> PICK y, z : y = f[d] /\ z = IF d + 1 \in indices THEN Append(y, xs[d + 1]) ELSE y
    OBVIOUS
  <2>6. ChosenPart(T, xs, indices, z, d + 1)
    BY <2>3, <2>4, ChosenFurther
  <2>7. ChosenPart(T, xs, indices, f[m], m)
    BY <2>3, <2>5, <2>6
  <2> QED
    BY <2>1, <2>7 DEF Bad
<1> QED
  BY <1>1, <1>2, <1>3

\* Of one element there is not much to choose.
LEMMA ChosenOfOne ==
  ASSUME NEW o, NEW indices
  PROVE  /\ Chosen(<<>>, indices) = <<>>
         /\ Chosen(<<o>>, indices) = IF 1 \in indices THEN <<o>> ELSE <<>>
<1>1. Chosen(<<>>, indices) = <<>>
  <2>1. PICK f : /\ \A n \in 0 .. 0 : f[n] = ChooseStep(<<>>, indices, f, n)
                 /\ Chosen(<<>>, indices) = f[0]
    BY ChooseSteps
  <2> QED
    BY <2>1 DEF ChooseStep
<1>2. Chosen(<<o>>, indices) = IF 1 \in indices THEN <<o>> ELSE <<>>
  <2> PICK xs : xs = <<o>>
    OBVIOUS
  <2>0. Len(xs) = 1 /\ xs[1] = o
    OBVIOUS
  <2>1. PICK f : /\ \A n \in 0 .. 1 : f[n] = ChooseStep(xs, indices, f, n)
                 /\ Chosen(xs, indices) = f[1]
    BY <2>0, ChooseSteps
  <2>2. f[0] = <<>> /\ f[1] = IF 1 \in indices THEN Append(f[0], o) ELSE f[0]
    BY <2>0, <2>1 DEF ChooseStep
  <2>3. Append(<<>>, o) = <<o>>
    OBVIOUS
  <2> QED
    BY <2>1, <2>2, <2>3
<1> QED
  BY <1>1, <1>2

LEMMA OperationsOfOne ==
  ASSUME NEW o, NEW T, o.pending \in Seq(T), NEW indices
  PROVE  /\ Operations(<<>>, indices) = <<>>
         /\ Operations(<<o>>, indices) = IF 1 \in indices THEN o.pending ELSE <<>>
<1>1. Operations(<<>>, indices) = <<>>
  <2>1. PICK f : /\ \A n \in 0 .. 0 : f[n] = GatherStep(<<>>, indices, f, n)
                 /\ Operations(<<>>, indices) = f[0]
    BY GatherSteps
  <2> QED
    BY <2>1 DEF GatherStep
<1>2. Operations(<<o>>, indices) = IF 1 \in indices THEN o.pending ELSE <<>>
  <2> PICK xs : xs = <<o>>
    OBVIOUS
  <2>0. Len(xs) = 1 /\ xs[1] = o
    OBVIOUS
  <2>1. PICK f : /\ \A n \in 0 .. 1 : f[n] = GatherStep(xs, indices, f, n)
                 /\ Operations(xs, indices) = f[1]
    BY <2>0, GatherSteps
  <2>2. f[0] = <<>> /\ f[1] = IF 1 \in indices THEN f[0] \o o.pending ELSE f[0]
    BY <2>0, <2>1 DEF GatherStep
  <2>3. <<>> \o o.pending = o.pending
    OBVIOUS
  <2> QED
    BY <2>1, <2>2, <2>3
<1> QED
  BY <1>1, <1>2

-----------------------------------------------------------------------------
(* The predictor: one scope at most, in which operations wait to be confirmed.  A     *)
(* scope that is closed is trusted, and keeps the predictor waiting.                   *)

IsScopeRecord(o) == o = [trusted |-> o.trusted, closed |-> o.closed, pending |-> o.pending]

IsScope(o) ==
    /\ IsScopeRecord(o)
    /\ o.trusted \in BOOLEAN /\ o.closed \in BOOLEAN /\ o.pending \in Seq(OpSet)

ScopeFine(p, o) == p.scopes = <<o>> /\ IsScope(o) /\ (o.closed => o.trusted /\ p.awaiting)

PredictorFine(p) ==
    /\ IsPredictor(p) /\ p.cursor \in Cells
    /\ p.target = None => p.scopes = <<>>
    /\ p.scopes # <<>> => \E o : ScopeFine(p, o)

LEMMA NothingPending ==
  ASSUME NEW p, p.scopes = <<>>
  PROVE  visibleOperations(p) = <<>> /\ pendingOperations(p) = <<>>
<1>1. <<>> \in Seq(OpSet)
  OBVIOUS
<1>2. \A o, indices : o.pending \in Seq(OpSet) => Operations(<<>>, indices) = <<>>
  BY OperationsOfOne
<1>3. [pending |-> <<>>].pending \in Seq(OpSet)
  BY <1>1
<1>4. \A indices : Operations(<<>>, indices) = <<>>
  BY <1>2, <1>3
<1> QED
  BY <1>4 DEF visibleOperations, pendingOperations

LEMMA OperationsAre ==
  ASSUME NEW p, NEW o, ScopeFine(p, o)
  PROVE  /\ visibleOperations(p) = IF o.trusted THEN o.pending ELSE <<>>
         /\ pendingOperations(p) = o.pending
         /\ visibleOperations(p) \in Seq(OpSet)
<1> PICK xs : xs = <<o>>
  OBVIOUS
<1>1. p.scopes = xs /\ o.pending \in Seq(OpSet) /\ DOMAIN xs = {1} /\ xs[1] = o
  BY DEF ScopeFine, IsScope
<1>2. \A indices : Operations(xs, indices) = IF 1 \in indices THEN o.pending ELSE <<>>
  BY <1>1, OperationsOfOne
<1>3. 1 \in {i \in DOMAIN xs : xs[i].trusted} <=> o.trusted
  BY <1>1
<1>4. <<>> \in Seq(OpSet)
  OBVIOUS
<1> QED
  BY <1>1, <1>2, <1>3, <1>4 DEF visibleOperations, pendingOperations

LEMMA VisibleAre ==
  ASSUME NEW p, PredictorFine(p)
  PROVE  /\ visibleOperations(p) \in Seq(OpSet)
         /\ visibleOperations(p) # <<>> => \E o : ScopeFine(p, o) /\ o.trusted /\ visibleOperations(p) = o.pending
<1>1. <<>> \in Seq(OpSet)
  OBVIOUS
<1> QED
  BY <1>1, NothingPending, OperationsAre DEF PredictorFine

LEMMA ClearFine ==
  ASSUME NEW p
  PROVE  PredictorFine(clear(p)) /\ clear(p).scopes = <<>>
BY CellsAre DEF PredictorFine, clear, NoPrediction, IsPredictor

\* What operations a scope has left, of those it had, and how it came to be trusted: one
\* of its characters is on a grid the server has sent.
Lessens(p, q, G) ==
    \/ q.scopes = <<>>
    \/ \E o, r : /\ ScopeFine(p, o) /\ ScopeFine(q, r) /\ r.closed = o.closed
                 /\ \A i \in DOMAIN r.pending : \E j \in DOMAIN o.pending : r.pending[i] = o.pending[j]
                 /\ r.trusted => \/ o.trusted
                                 \/ \E j \in DOMAIN o.pending : o.pending[j].what \in G /\ o.pending[j].what # Blank

LEMMA LessensItself ==
  ASSUME NEW p, NEW G, PredictorFine(p)
  PROVE  Lessens(p, p, G)
BY DEF Lessens, PredictorFine

\* A character that a frame confirms is on the grid.
LEMMA CreditedIsSent ==
  ASSUME NEW G, NEW grid \in [Cells -> G], NEW o, o.pending \in Seq(OpSet),
         NEW touched, NEW cursor, NEW n \in MatchingPrefixes(o.pending, touched, grid, cursor),
         NEW before, 1 \in Credited(<<o>>, n, before)
  PROVE  \E j \in DOMAIN o.pending : o.pending[j].what \in G /\ o.pending[j].what # Blank
<1> PICK ops, prefix : ops = o.pending /\ prefix = SubSeq(ops, 1, n)
  OBVIOUS
<1>1. /\ IsRow(ops) /\ n \in DOMAIN ops /\ n \in 1 .. Len(ops)
      /\ \A i \in 1 .. n : grid[ops[i].at] = Composed(EmptyGrid, prefix)[ops[i].at]
  BY OpsAre DEF MatchingPrefixes, IsRow
<1>2. prefix \in Seq(OpSet) /\ Len(prefix) = n /\ \A i \in 1 .. n : prefix[i] = ops[i]
  BY <1>1 DEF IsRow
<1>3. \A indices : Operations(<<o>>, indices) = IF 1 \in indices THEN ops ELSE <<>>
  BY OperationsOfOne
<1>4. 1 \in DOMAIN <<o>> /\ 1 \notin 1 .. 1 - 1
  OBVIOUS
<1>5. SubSeq(Operations(<<o>>, DOMAIN <<o>>), 1, n) = prefix
  BY <1>3, <1>4
<1>6. PICK j \in 1 .. n : /\ \A k \in j + 1 .. n : prefix[k].at # prefix[j].at
                          /\ prefix[j].what # Blank
  BY <1>5 DEF Credited
<1> PICK c : c = ops[j].at
  OBVIOUS
<1>7. c \in Cells /\ prefix[j].at = c /\ prefix[j].what = ops[j].what /\ j \in DOMAIN ops
  BY <1>1, <1>2, OpsAre DEF IsRow
<1>8. ShowsAt(EmptyGrid, prefix, n, c, Composed(EmptyGrid, prefix)[c])
  BY <1>2, <1>7, OpsAre, ComposedShows DEF Shows
<1>9. ShowsAt(EmptyGrid, prefix, n, c, prefix[j].what)
  <2>1. ASSUME NEW k \in 1 .. n, prefix[k].at = c
        PROVE  k <= j
    <3>1. k \notin j + 1 .. n
      BY <1>6, <1>7, <2>1
    <3>2. n \in Nat
      BY <1>1
    <3> QED
      BY <3>1, <3>2
  <2> QED
    BY <1>7, <2>1 DEF ShowsAt
<1>10. n \in Nat
  BY <1>1
<1>11. Composed(EmptyGrid, prefix)[c] = prefix[j].what
  BY <1>8, <1>9, <1>10, ShowsOnce
<1>12. grid[c] = ops[j].what /\ grid[c] \in G
  BY <1>1, <1>7, <1>11
<1> QED
  BY <1>6, <1>7, <1>12

ScopeLeft(o, credited, rest) == [o EXCEPT !.trusted = @ \/ 1 \in credited, !.pending = rest]

IsScopeLeft(o, C, rest, r) ==
    /\ IsScope(r) /\ r.closed = o.closed /\ r.pending = rest
    /\ r.trusted <=> o.trusted \/ 1 \in C

LEMMA ScopeLeftIs ==
  ASSUME NEW o, IsScope(o), NEW C, NEW rest \in Seq(OpSet)
  PROVE  IsScopeLeft(o, C, rest, ScopeLeft(o, C, rest))
<1> PICK r : r = ScopeLeft(o, C, rest)
  OBVIOUS
<1>1. IsScopeRecord(o) /\ o.trusted \in BOOLEAN /\ o.closed \in BOOLEAN
  BY DEF IsScope
<1> PICK b : b = (o.trusted \/ 1 \in C)
  OBVIOUS
<1>2. b \in BOOLEAN /\ (b <=> o.trusted \/ 1 \in C)
  BY <1>1
<1>3. r = [o EXCEPT !.trusted = b, !.pending = rest]
  BY Zenon DEF ScopeLeft
<1>4. r.trusted = b /\ r.closed = o.closed /\ r.pending = rest /\ IsScopeRecord(r)
  BY <1>1, <1>3 DEF IsScopeRecord
<1> QED
  BY <1>1, <1>2, <1>4 DEF IsScope, IsScopeLeft

RestOf(ops, n) == IF n >= Len(ops) THEN <<>> ELSE SubSeq(ops, n + 1, Len(ops))

IsRest(ops, n, rest) ==
    /\ rest \in Seq(OpSet) /\ (rest = <<>> <=> n = Len(ops))
    /\ \A i \in DOMAIN rest : n + i \in DOMAIN ops /\ rest[i] = ops[n + i]
    /\ \A j \in DOMAIN ops : j > n => j - n \in DOMAIN rest

LEMMA RestIs ==
  ASSUME NEW ops \in Seq(OpSet), NEW L, L = Len(ops), NEW n \in 1 .. L, n # L, NEW rest, rest = SubSeq(ops, n + 1, L)
  PROVE  IsRest(ops, n, rest)
<1>1. L \in Nat /\ n \in 1 .. L /\ DOMAIN ops = 1 .. L /\ n + 1 \in 1 .. L
  OBVIOUS
<1>2. rest \in Seq(OpSet) /\ Len(rest) = L - n /\ \A i \in 1 .. L - n : rest[i] = ops[n + i]
  BY <1>1
<1>3. DOMAIN rest = 1 .. L - n
  BY <1>2
<1>4. rest # <<>>
  <2>1. Len(rest) # 0 /\ Len(<<>>) = 0
    BY <1>1, <1>2
  <2> QED
    BY <2>1, Zenon
<1>5. \A i \in 1 .. L - n : n + i \in 1 .. L
  BY <1>1
<1>6. \A j \in 1 .. L : j > n => j - n \in 1 .. L - n
  BY <1>1
<1>7. \A i \in DOMAIN rest : n + i \in DOMAIN ops /\ rest[i] = ops[n + i]
  BY <1>1, <1>2, <1>3, <1>5, Zenon
<1>8. \A j \in DOMAIN ops : j > n => j - n \in DOMAIN rest
  BY <1>1, <1>3, <1>6, Zenon
<1> QED
  BY <1>2, <1>4, <1>7, <1>8, Zenon DEF IsRest

LEMMA RestOfIs ==
  ASSUME NEW ops \in Seq(OpSet), NEW n \in DOMAIN ops
  PROVE  IsRest(ops, n, RestOf(ops, n))
<1>1. Len(ops) \in Nat /\ n \in 1 .. Len(ops)
  OBVIOUS
<1>2. CASE n = Len(ops)
  <2>1. n >= Len(ops)
    BY <1>1, <1>2
  <2>2. RestOf(ops, n) = <<>>
    BY <2>1, Zenon DEF RestOf
  <2>3. <<>> \in Seq(OpSet) /\ DOMAIN <<>> = {}
    OBVIOUS
  <2>4. \A j \in DOMAIN ops : ~ j > n
    BY <1>1, <1>2
  <2> QED
    BY <1>2, <2>2, <2>3, <2>4, Zenon DEF IsRest
<1>3. CASE n # Len(ops)
  <2>1. ~ n >= Len(ops)
    BY <1>1, <1>3
  <2>2. RestOf(ops, n) = SubSeq(ops, n + 1, Len(ops))
    BY <2>1, Zenon DEF RestOf
  <2> QED
    BY <1>1, <1>3, <2>2, RestIs, Zenon
<1> QED
  BY <1>2, <1>3

LEMMA RowOfOne ==
  ASSUME NEW r
  PROVE  [i \in {1} |-> r] = <<r>>
<1> PICK xs, ys : xs = [i \in 1 .. 1 |-> r] /\ ys = <<r>>
  OBVIOUS
<1>1. xs \in Seq({r}) /\ ys \in Seq({r}) /\ Len(xs) = 1 /\ Len(ys) = 1 /\ xs[1] = r /\ ys[1] = r
  OBVIOUS
<1>2. xs = ys
  BY <1>1, SeqEqual
<1>3. 1 .. 1 = {1}
  OBVIOUS
<1> QED
  BY <1>2, <1>3

\* What a frame leaves of the scope, when it confirms n operations.
IsConfirmed(o, n, before, q) ==
    /\ PredictorFine(q)
    /\ q.scopes = <<>> => n = Len(o.pending)
    /\ q.scopes # <<>> =>
         \E r : /\ ScopeFine(q, r) /\ r.closed = o.closed
                /\ \A i \in DOMAIN r.pending : n + i \in DOMAIN o.pending /\ r.pending[i] = o.pending[n + i]
                /\ \A j \in DOMAIN o.pending : j > n => j - n \in DOMAIN r.pending
                /\ r.trusted => o.trusted \/ 1 \in Credited(<<o>>, n, before)
                /\ o.trusted => r.trusted

LEMMA ConfirmedIs ==
  ASSUME NEW p, NEW o, PredictorFine(p), ScopeFine(p, o), NEW n \in DOMAIN o.pending, NEW before
  PROVE  IsConfirmed(o, n, before, Confirmed(p, n, before))
<1> PICK q, ops, L : q = Confirmed(p, n, before) /\ ops = o.pending /\ L = Len(ops)
  OBVIOUS
<1>1. /\ ops \in Seq(OpSet) /\ L \in Nat /\ n \in 1 .. L /\ DOMAIN ops = 1 .. L
      /\ p.scopes = <<o>> /\ IsScope(o) /\ (o.closed => o.trusted /\ p.awaiting)
  BY DEF ScopeFine, IsScope
<1> PICK rest, C, r : rest = RestOf(ops, n) /\ C = Credited(<<o>>, n, before) /\ r = ScopeLeft(o, C, rest)
  OBVIOUS
<1>2. IsRest(ops, n, rest)
  BY <1>1, RestOfIs
<1>3. IsScopeLeft(o, C, rest, r)
  <2>1. rest \in Seq(OpSet)
    BY <1>2 DEF IsRest
  <2> QED
    BY <1>1, <2>1, ScopeLeftIs, Zenon
<1>4. \A xs : Operations(xs, 1 .. 1 - 1) = <<>> \/ xs # <<o>>
  <2>1. Operations(<<o>>, 1 .. 1 - 1) = IF 1 \in 1 .. 1 - 1 THEN ops ELSE <<>>
    BY <1>1, OperationsOfOne
  <2> QED
    BY <2>1
<1> DEFINE credited == Credited(p.scopes, n, before)
           OffsetOf(i) == Len(Operations(p.scopes, 1 .. i - 1))
           Rest(i) == LET dropped == IF n > OffsetOf(i) THEN n - OffsetOf(i) ELSE 0
                          length == Len(p.scopes[i].pending)
                      IN  IF dropped >= length THEN <<>> ELSE SubSeq(p.scopes[i].pending, dropped + 1, length)
           kept == [i \in DOMAIN p.scopes |->
                      [p.scopes[i] EXCEPT !.trusted = @ \/ i \in credited, !.pending = Rest(i)]]
           scopes == Chosen(kept, {i \in DOMAIN kept : ~(kept[i].closed /\ kept[i].pending = <<>>)})
<1>5. q = [p EXCEPT !.scopes = scopes, !.target = IF scopes = <<>> THEN None ELSE @]
  BY Zenon DEF Confirmed
<1>6. Rest(1) = rest
  <2>1. OffsetOf(1) = 0
    BY <1>1, <1>4
  <2>2. p.scopes[1] = o
    BY <1>1
  <2> HIDE DEF OffsetOf
  <2> QED
    BY <1>1, <2>1, <2>2 DEF RestOf
<1> HIDE DEF Rest, OffsetOf
<1>7. kept = <<r>>
  <2>1. p.scopes[1] = o /\ DOMAIN p.scopes = {1} /\ credited = C
    BY <1>1
  <2> HIDE DEF credited
  <2>2. kept = [i \in {1} |-> ScopeLeft(o, credited, rest)]
    BY <1>6, <2>1 DEF ScopeLeft
  <2>3. [i \in {1} |-> r] = <<r>>
    BY RowOfOne
  <2> QED
    BY <2>1, <2>2, <2>3, Zenon
<1>8. scopes = IF r.closed /\ rest = <<>> THEN <<>> ELSE <<r>>
  <2> PICK xs, I : xs = <<r>> /\ I = {i \in DOMAIN xs : ~(xs[i].closed /\ xs[i].pending = <<>>)}
    OBVIOUS
  <2>1. scopes = Chosen(xs, I)
    BY <1>7, Zenon
  <2>2. Chosen(xs, I) = IF 1 \in I THEN <<r>> ELSE <<>>
    BY ChosenOfOne
  <2>3. 1 \in I <=> ~(r.closed /\ rest = <<>>)
    <3>1. 1 \in DOMAIN xs /\ xs[1] = r
      OBVIOUS
    <3> QED
      BY <1>3, <3>1 DEF IsScopeLeft
  <2> HIDE DEF scopes
  <2> QED
    BY <2>1, <2>2, <2>3
<1> HIDE DEF scopes
<1>9. /\ IsPredictor(q) /\ q.scopes = scopes /\ q.target = (IF scopes = <<>> THEN None ELSE p.target)
      /\ q.cursor = p.cursor /\ q.awaiting = p.awaiting
  BY <1>5 DEF PredictorFine, IsPredictor
<1>10. scopes = <<>> \/ (scopes = <<r>> /\ scopes # <<>>)
  BY <1>8
<1>11. scopes # <<>> => ScopeFine(q, r)
  BY <1>1, <1>3, <1>9, <1>10 DEF ScopeFine, IsScopeLeft
<1>12. PredictorFine(q)
  BY <1>1, <1>9, <1>11 DEF PredictorFine
<1>13. scopes = <<>> => n = L
  BY <1>2, <1>8 DEF IsRest
<1>14. q.scopes # <<>> =>
         \E x : /\ ScopeFine(q, x) /\ x.closed = o.closed
                /\ \A i \in DOMAIN x.pending : n + i \in DOMAIN ops /\ x.pending[i] = ops[n + i]
                /\ \A j \in DOMAIN ops : j > n => j - n \in DOMAIN x.pending
                /\ x.trusted => o.trusted \/ 1 \in C
                /\ o.trusted => x.trusted
  <2>1. /\ r.closed = o.closed
        /\ \A i \in DOMAIN r.pending : n + i \in DOMAIN ops /\ r.pending[i] = ops[n + i]
        /\ \A j \in DOMAIN ops : j > n => j - n \in DOMAIN r.pending
        /\ r.trusted => o.trusted \/ 1 \in C
        /\ o.trusted => r.trusted
    BY <1>2, <1>3 DEF IsRest, IsScopeLeft
  <2> QED
    BY <1>9, <1>11, <2>1, Zenon
<1> QED
  BY <1>9, <1>12, <1>13, <1>14 DEF IsConfirmed

-----------------------------------------------------------------------------
(* What a frame does to the predictor and has painted.                                *)

Moved(p, cursor) == [p EXCEPT !.cursor = cursor, !.hasCursor = TRUE]

LEMMA MovedIs ==
  ASSUME NEW p, IsPredictor(p), NEW cursor
  PROVE  /\ IsPredictor(Moved(p, cursor)) /\ Moved(p, cursor).scopes = p.scopes
         /\ Moved(p, cursor).target = p.target /\ Moved(p, cursor).awaiting = p.awaiting
         /\ Moved(p, cursor).cursor = cursor
<1> PICK q : q = Moved(p, cursor)
  OBVIOUS
<1>1. q = [p EXCEPT !.cursor = cursor, !.hasCursor = TRUE]
  BY DEF Moved
<1>2. /\ IsPredictor(q) /\ q.scopes = p.scopes /\ q.target = p.target /\ q.awaiting = p.awaiting
      /\ q.cursor = cursor
  BY <1>1 DEF IsPredictor
<1> QED
  BY <1>2

LEMMA SameScopes ==
  ASSUME NEW p, NEW q, NEW r, q.scopes = r.scopes, q.awaiting = r.awaiting
  PROVE  /\ \A o : ScopeFine(q, o) <=> ScopeFine(r, o)
         /\ visibleOperations(q) = visibleOperations(r)
         /\ pendingOperations(q) = pendingOperations(r)
         /\ \A G : Lessens(p, q, G) <=> Lessens(p, r, G)
<1>1. \A o : ScopeFine(q, o) <=> ScopeFine(r, o)
  BY DEF ScopeFine
<1>2. \A G : Lessens(p, q, G) <=> Lessens(p, r, G)
  BY <1>1, Zenon DEF Lessens
<1> QED
  BY <1>1, <1>2 DEF visibleOperations, pendingOperations

LEMMA MovedFine ==
  ASSUME NEW p, PredictorFine(p), NEW cursor \in Cells
  PROVE  PredictorFine(Moved(p, cursor))
<1> PICK q : q = Moved(p, cursor)
  OBVIOUS
<1>1. IsPredictor(q) /\ q.scopes = p.scopes /\ q.target = p.target /\ q.awaiting = p.awaiting /\ q.cursor \in Cells
  BY MovedIs DEF PredictorFine
<1>2. \A o : ScopeFine(q, o) <=> ScopeFine(p, o)
  BY <1>1, SameScopes
<1>3. PredictorFine(q)
  BY <1>1, <1>2 DEF PredictorFine
<1> QED
  BY <1>3

\* Kept, as the frame is not of the pane.
Disregards(p, r) == r.predictor = p /\ r.spans = <<>> /\ ~r.repaint

\* Given up; nothing is repaired.
Forgets(p, frame, r) ==
    /\ r.predictor = clear(p) /\ r.spans = <<>>
    /\ r.repaint <=> visibleOperations(p) # <<>>
    /\ frame.scroll \/ visibleOperations(p) = <<>>

Repairs(p, frame, grid, r) ==
    /\ r.predictor = clear(p) /\ r.spans = repairSpans(visibleOperations(p), grid)
    /\ ~r.repaint /\ ~frame.scroll

OverlaysWith(q, r) == r.predictor = q /\ r.spans = predictionSpans(visibleOperations(q)) /\ ~r.repaint

LEMMA OverlaidIs ==
  ASSUME NEW q
  PROVE  OverlaysWith(q, Overlaid(q))
BY DEF OverlaysWith, Overlaid

LEMMA ContradictedIs ==
  ASSUME NEW p, NEW frame, ~frame.scroll, NEW grid
  PROVE  Repairs(p, frame, grid, Contradicted(p, grid))
BY DEF Repairs, Contradicted

\* The number of operations a frame confirms.
LongestMatch(matches) == CHOOSE n \in matches : \A m \in matches : m <= n

LEMMA LongestIs ==
  ASSUME NEW ops \in Seq(OpSet), NEW touched, NEW grid, NEW cursor,
         NEW matches, matches = MatchingPrefixes(ops, touched, grid, cursor), matches # {}
  PROVE  LongestMatch(matches) \in matches
<1>1. matches \subseteq 1 .. Len(ops) /\ Len(ops) \in Nat
  BY DEF MatchingPrefixes
<1>2. \E n \in matches : \A m \in matches : m <= n
  BY <1>1, Greatest
<1> QED
  BY <1>2 DEF LongestMatch

\* The alternatives of applyAuthoritativeFrame: q is what the frame confirms of p.
FrameAnswer(p, target, frame, grid, matches, q, r) ==
    \/ Disregards(p, r) /\ (~active(p) \/ target # p.target)
    \/ /\ target = p.target /\ active(p) /\ frame.scroll
       /\ r.predictor = clear(p) /\ r.spans = <<>> /\ (r.repaint <=> visibleOperations(p) # <<>>)
    \/ /\ target = p.target /\ active(p) /\ ~frame.scroll
       /\ \/ Repairs(p, frame, grid, r)
          \/ pendingOperations(p) = <<>> /\ r.predictor = clear(p) /\ r.spans = <<>> /\ ~r.repaint
          \/ OverlaysWith(p, r)
          \/ pendingOperations(p) = <<>> /\ OverlaysWith(Moved(p, frame.cursor), r)
          \/ matches # {} /\ (OverlaysWith(q, r) \/ OverlaysWith(Moved(q, frame.cursor), r))

LEMMA FrameAnswers ==
  ASSUME NEW p, NEW target, NEW frame, NEW touched, NEW before, NEW grid
  PROVE  LET matches == MatchingPrefixes(pendingOperations(p), touched, grid, frame.cursor)
         IN  FrameAnswer(p, target, frame, grid, matches, Confirmed(p, LongestMatch(matches), before),
                         applyAuthoritativeFrame(p, target, frame, touched, before, grid))
<1> DEFINE ops == pendingOperations(p)
           matches == MatchingPrefixes(ops, touched, grid, frame.cursor)
           q == Confirmed(p, LongestMatch(matches), before)
           r == applyAuthoritativeFrame(p, target, frame, touched, before, grid)
           unchanged == [predictor |-> p, spans |-> <<>>, repaint |-> FALSE]
           dropped == [unchanged EXCEPT !.predictor = clear(p)]
           forgot == [dropped EXCEPT !.repaint = visibleOperations(p) # <<>>]
<1>1. Disregards(p, unchanged)
  BY DEF Disregards
<1>2. dropped.predictor = clear(p) /\ dropped.spans = <<>> /\ ~dropped.repaint
  OBVIOUS
<1>3. forgot.predictor = clear(p) /\ forgot.spans = <<>> /\ (forgot.repaint <=> visibleOperations(p) # <<>>)
  OBVIOUS
<1>4. r = IF ~active(p) \/ target # p.target THEN unchanged
          ELSE IF frame.scroll THEN forgot
          ELSE IF ~frame.visible THEN Contradicted(p, grid)
          ELSE IF ops = <<>>
            THEN IF p.awaiting \/ (frame.moved /\ p.hasCursor /\ frame.cursor # p.cursor) THEN dropped
                 ELSE Overlaid(IF frame.moved THEN Moved(p, frame.cursor) ELSE p)
          ELSE IF matches # {}
            THEN Overlaid(IF pendingOperations(q) # <<>> THEN q ELSE Moved(q, frame.cursor))
          ELSE IF ops[1].at \in touched \/ frame.moved THEN Contradicted(p, grid)
          ELSE Overlaid(p)
  BY Zenon DEF applyAuthoritativeFrame, Moved, LongestMatch
<1>. HIDE DEF unchanged, dropped, forgot, matches, q, r
<1>. SUFFICES FrameAnswer(p, target, frame, grid, matches, q, r)
  BY DEF matches, q, r
<1>5. CASE ~active(p) \/ target # p.target
  <2>1. r = unchanged
    BY <1>4, <1>5, Zenon
  <2> QED
    BY <1>1, <1>5, <2>1, Zenon DEF FrameAnswer
<1>6. CASE active(p) /\ target = p.target /\ frame.scroll
  <2>1. r = forgot
    BY <1>4, <1>6, Zenon
  <2> QED
    BY <1>3, <1>6, <2>1, Zenon DEF FrameAnswer
<1>7. CASE active(p) /\ target = p.target /\ ~frame.scroll
  <2>1. \/ r = Contradicted(p, grid)
        \/ ops = <<>> /\ r = dropped
        \/ r = Overlaid(p)
        \/ ops = <<>> /\ r = Overlaid(Moved(p, frame.cursor))
        \/ matches # {} /\ r \in {Overlaid(q), Overlaid(Moved(q, frame.cursor))}
    <3> HIDE DEF ops
    <3> QED
      BY <1>4, <1>7
  <2>2. CASE r = Contradicted(p, grid)
    BY <1>7, <2>2, ContradictedIs, Zenon DEF FrameAnswer
  <2>3. CASE ops = <<>> /\ r = dropped
    BY <1>2, <1>7, <2>3, Zenon DEF FrameAnswer
  <2>4. CASE r = Overlaid(p)
    BY <1>7, <2>4, OverlaidIs, Zenon DEF FrameAnswer
  <2>5. CASE ops = <<>> /\ r = Overlaid(Moved(p, frame.cursor))
    BY <1>7, <2>5, OverlaidIs, Zenon DEF FrameAnswer
  <2>6. CASE matches # {} /\ r \in {Overlaid(q), Overlaid(Moved(q, frame.cursor))}
    <3>1. OverlaysWith(q, r) \/ OverlaysWith(Moved(q, frame.cursor), r)
      BY <2>6, OverlaidIs
    <3> QED
      BY <1>7, <2>6, <3>1, Zenon DEF FrameAnswer
  <2> QED
    BY <2>1, <2>2, <2>3, <2>4, <2>5, <2>6, Zenon
<1> QED
  BY <1>5, <1>6, <1>7, Zenon

\* What was visible is written by the frame, or still visible.
Covers(p, q, touched) ==
    \A i \in DOMAIN visibleOperations(p) :
        \/ visibleOperations(p)[i].at \in touched
        \/ \E j \in DOMAIN visibleOperations(q) : visibleOperations(q)[j].at = visibleOperations(p)[i].at

LEMMA CoversItself ==
  ASSUME NEW p, NEW touched
  PROVE  Covers(p, p, touched)
BY DEF Covers

LEMMA CoversNothing ==
  ASSUME NEW p, visibleOperations(p) = <<>>, NEW q, NEW touched
  PROVE  Covers(p, q, touched)
BY DEF Covers

LEMMA ConfirmedSettles ==
  ASSUME NEW G, NEW grid \in [Cells -> G], NEW p, NEW o, PredictorFine(p), ScopeFine(p, o), NEW touched, NEW cursor,
         NEW n \in MatchingPrefixes(o.pending, touched, grid, cursor), NEW before,
         NEW q, q = Confirmed(p, n, before)
  PROVE  PredictorFine(q) /\ Lessens(p, q, G) /\ Covers(p, q, touched)
<1> PICK ops : ops = o.pending
  OBVIOUS
<1>1. /\ IsScope(o) /\ ops \in Seq(OpSet) /\ n \in DOMAIN ops /\ DOMAIN ops = 1 .. Len(ops) /\ Len(ops) \in Nat
      /\ \A i \in 1 .. n : ops[i].at \in touched
  BY DEF ScopeFine, IsScope, MatchingPrefixes
<1>2. IsConfirmed(o, n, before, q)
  BY <1>1, ConfirmedIs
<1>. PredictorFine(q)
  BY <1>2 DEF IsConfirmed
<1>3. visibleOperations(p) = IF o.trusted THEN ops ELSE <<>>
  BY OperationsAre
<1>4. CASE q.scopes = <<>>
  <2>1. n = Len(ops)
    BY <1>2, <1>4 DEF IsConfirmed
  <2>2. \A i \in DOMAIN visibleOperations(p) : visibleOperations(p)[i].at \in touched
    BY <1>1, <1>3, <2>1
  <2> QED
    BY <1>2, <1>4, <2>2 DEF Lessens, Covers
<1>5. CASE q.scopes # <<>>
  <2> PICK r : /\ ScopeFine(q, r) /\ r.closed = o.closed
               /\ \A i \in DOMAIN r.pending : n + i \in DOMAIN ops /\ r.pending[i] = ops[n + i]
               /\ \A j \in DOMAIN ops : j > n => j - n \in DOMAIN r.pending
               /\ r.trusted => o.trusted \/ 1 \in Credited(<<o>>, n, before)
               /\ o.trusted => r.trusted
    BY <1>2, <1>5, Zenon DEF IsConfirmed
  <2>1. 1 \in Credited(<<o>>, n, before) =>
            \E j \in DOMAIN o.pending : o.pending[j].what \in G /\ o.pending[j].what # Blank
    BY <1>1, CreditedIsSent
  <2>2. \A i \in DOMAIN r.pending : \E j \in DOMAIN o.pending : r.pending[i] = o.pending[j]
    OBVIOUS
  <2>3. Lessens(p, q, G)
    BY <2>1, <2>2, Zenon DEF Lessens
  <2>4. visibleOperations(q) = IF r.trusted THEN r.pending ELSE <<>>
    BY OperationsAre
  <2>5. ASSUME NEW i \in DOMAIN visibleOperations(p)
        PROVE  \/ visibleOperations(p)[i].at \in touched
               \/ \E j \in DOMAIN visibleOperations(q) : visibleOperations(q)[j].at = visibleOperations(p)[i].at
    <3>1. visibleOperations(p) = ops /\ visibleOperations(q) = r.pending /\ i \in DOMAIN ops
      <4>1. o.trusted
        BY <1>3, <2>5
      <4> QED
        BY <1>3, <2>4, <2>5, <4>1
    <3>2. CASE i \in 1 .. n
      BY <1>1, <3>1, <3>2
    <3>3. CASE i \notin 1 .. n
      <4>1. n \in Nat /\ i \in Nat /\ i > n /\ n + (i - n) = i
        BY <1>1, <3>1, <3>3
      <4>2. i - n \in DOMAIN r.pending
        BY <3>1, <4>1
      <4>3. r.pending[i - n] = ops[i]
        BY <4>1, <4>2
      <4> QED
        BY <3>1, <4>2, <4>3
    <3> QED
      BY <3>2, <3>3
  <2> QED
    BY <1>2, <2>3, <2>5 DEF Covers
<1> QED
  BY <1>4, <1>5

\* What a frame does to the predictor, and what is painted then.
Settles(p, target, frame, touched, grid, r) ==
    \/ Disregards(p, r) /\ (p.target = None \/ target # p.target)
    \/ target = p.target /\ Forgets(p, frame, r)
    \/ target = p.target /\ Repairs(p, frame, grid, r)
    \/ target = p.target /\ OverlaysWith(r.predictor, r) /\ ~frame.scroll /\ Covers(p, r.predictor, touched)

LEMMA FrameSettles ==
  ASSUME NEW G, NEW grid \in [Cells -> G], NEW p, PredictorFine(p), NEW target, NEW frame, frame.cursor \in Cells,
         NEW touched, NEW before
  PROVE  LET r == applyAuthoritativeFrame(p, target, frame, touched, before, grid)
         IN  /\ PredictorFine(r.predictor) /\ Lessens(p, r.predictor, G)
             /\ Settles(p, target, frame, touched, grid, r)
<1> PICK cursor : cursor = frame.cursor
  OBVIOUS
<1> DEFINE matches == MatchingPrefixes(pendingOperations(p), touched, grid, frame.cursor)
           q == Confirmed(p, LongestMatch(matches), before)
           r == applyAuthoritativeFrame(p, target, frame, touched, before, grid)
<1>1. FrameAnswer(p, target, frame, grid, matches, q, r)
  BY FrameAnswers
<1>2. matches # {} => PredictorFine(q) /\ Lessens(p, q, G) /\ Covers(p, q, touched)
  <2> PICK ops : ops = pendingOperations(p)
    OBVIOUS
  <2>1. matches = MatchingPrefixes(ops, touched, grid, cursor)
    OBVIOUS
  <2> HIDE DEF matches
  <2>2. ASSUME matches # {}
        PROVE  PredictorFine(q) /\ Lessens(p, q, G) /\ Covers(p, q, touched)
    <3>1. ops # <<>>
      BY <2>1, <2>2 DEF MatchingPrefixes
    <3>2. PICK o : ScopeFine(p, o)
      BY <3>1, NothingPending DEF PredictorFine
    <3>3. ops = o.pending /\ ops \in Seq(OpSet)
      BY <3>2, OperationsAre DEF ScopeFine, IsScope
    <3>4. LongestMatch(matches) \in matches
      BY <2>1, <2>2, <3>3, LongestIs
    <3>5. LongestMatch(matches) \in MatchingPrefixes(o.pending, touched, grid, cursor)
      BY <2>1, <3>3, <3>4
    <3> QED
      BY <3>2, <3>5, ConfirmedSettles
  <2> QED
    BY <2>2
<1>. HIDE DEF matches, q, r
<1>. SUFFICES PredictorFine(r.predictor) /\ Lessens(p, r.predictor, G) /\ Settles(p, target, frame, touched, grid, r)
  BY DEF r
<1>3. ASSUME NEW m, PredictorFine(m), Lessens(p, m, G), Covers(p, m, touched)
      PROVE  /\ PredictorFine(Moved(m, frame.cursor)) /\ Lessens(p, Moved(m, frame.cursor), G)
             /\ Covers(p, Moved(m, frame.cursor), touched)
  <2> PICK v : v = Moved(m, frame.cursor)
    OBVIOUS
  <2>1. PredictorFine(v)
    BY <1>3, MovedFine
  <2>2. v.scopes = m.scopes /\ v.awaiting = m.awaiting
    BY <1>3, MovedIs DEF PredictorFine
  <2>3. visibleOperations(v) = visibleOperations(m) /\ Lessens(p, v, G)
    BY <1>3, <2>2, SameScopes
  <2> QED
    BY <1>3, <2>1, <2>3 DEF Covers
<1>4. pendingOperations(p) = <<>> => visibleOperations(p) = <<>>
  <2>1. CASE p.scopes = <<>>
    BY <2>1, NothingPending
  <2>2. CASE p.scopes # <<>>
    <3>1. PICK o : ScopeFine(p, o)
      BY <2>2 DEF PredictorFine
    <3> QED
      BY <3>1, OperationsAre
  <2> QED
    BY <2>1, <2>2
<1>5. Lessens(p, p, G) /\ Covers(p, p, touched)
  BY LessensItself, CoversItself
<1>6. PredictorFine(clear(p)) /\ Lessens(p, clear(p), G)
  BY ClearFine DEF Lessens
<1>7. CASE Disregards(p, r) /\ (~active(p) \/ target # p.target)
  <2>1. p.target = None \/ target # p.target
    BY <1>7 DEF active
  <2>2. r.predictor = p
    BY <1>7 DEF Disregards
  <2> QED
    BY <1>5, <1>7, <2>1, <2>2 DEF Settles
<1>8. CASE target = p.target /\ r.predictor = clear(p) /\ r.spans = <<>> /\ (r.repaint <=> visibleOperations(p) # <<>>)
           /\ (frame.scroll \/ visibleOperations(p) = <<>>)
  BY <1>6, <1>8 DEF Settles, Forgets
<1>9. CASE target = p.target /\ Repairs(p, frame, grid, r)
  <2>1. r.predictor = clear(p)
    BY <1>9 DEF Repairs
  <2> QED
    BY <1>6, <1>9, <2>1 DEF Settles
<1>10. ASSUME NEW m, PredictorFine(m), Lessens(p, m, G), Covers(p, m, touched),
              target = p.target, ~frame.scroll, OverlaysWith(m, r)
       PROVE  PredictorFine(r.predictor) /\ Lessens(p, r.predictor, G) /\ Settles(p, target, frame, touched, grid, r)
  <2>1. r.predictor = m
    BY <1>10 DEF OverlaysWith
  <2> QED
    BY <1>10, <2>1 DEF Settles
<1>11. CASE target = p.target /\ ~frame.scroll /\ OverlaysWith(p, r)
  BY <1>5, <1>10, <1>11
<1>12. CASE target = p.target /\ ~frame.scroll /\ pendingOperations(p) = <<>> /\ OverlaysWith(Moved(p, frame.cursor), r)
  BY <1>3, <1>5, <1>10, <1>12
<1>13. CASE target = p.target /\ ~frame.scroll /\ matches # {} /\ (OverlaysWith(q, r) \/ OverlaysWith(Moved(q, frame.cursor), r))
  BY <1>2, <1>3, <1>10, <1>13
<1> QED
  BY <1>1, <1>4, <1>7, <1>8, <1>9, <1>11, <1>12, <1>13, Zenon DEF FrameAnswer

IsAnswer(r, p, target, frame, touched, before, grid) ==
    r = applyAuthoritativeFrame(p, target, frame, touched, before, grid)

LEMMA FrameSettlesAs ==
  ASSUME NEW G, NEW grid \in [Cells -> G], NEW p, PredictorFine(p), NEW target, NEW frame, frame.cursor \in Cells,
         NEW touched, NEW before, NEW r, IsAnswer(r, p, target, frame, touched, before, grid)
  PROVE  /\ PredictorFine(r.predictor) /\ Lessens(p, r.predictor, G) /\ Settles(p, target, frame, touched, grid, r)
         /\ SameTarget(p, r.predictor)
<1>1. r = applyAuthoritativeFrame(p, target, frame, touched, before, grid)
  BY Zenon DEF IsAnswer
<1>2. PredictorFine(r.predictor) /\ Lessens(p, r.predictor, G) /\ Settles(p, target, frame, touched, grid, r)
  BY <1>1, FrameSettles, Zenon
<1>3. SameTarget(p, applyAuthoritativeFrame(p, target, frame, touched, before, grid).predictor)
  BY AuthoritativeFrameTarget DEF PredictorFine
<1> QED
  BY <1>1, <1>2, <1>3, Zenon

-----------------------------------------------------------------------------
(* What a frame makes of the cells on the screen.                                     *)

\* The operations that are to be seen in a slot.
SeenIn(p, slot) == IF p.target # None /\ p.target.slot = slot THEN visibleOperations(p) ELSE <<>>

FrameInk(frame, G) == CellsInk(frame.cells, G) /\ frame.cursor \in Cells

\* Once a scope is trusted, or a character of it is on a grid of the server, all of it may
\* be seen.
Earned(p, G, S) ==
    \A o : ScopeFine(p, o) =>
        \/ Of(o.pending, S)
        \/ ~o.trusted /\ \A j \in DOMAIN o.pending : o.pending[j].what \in G => o.pending[j].what = Blank

LEMMA SeenOf ==
  ASSUME NEW p, NEW G, NEW S, PredictorFine(p), Earned(p, G, S)
  PROVE  Of(visibleOperations(p), S)
<1>1. CASE visibleOperations(p) = <<>>
  BY <1>1 DEF Of
<1>2. CASE visibleOperations(p) # <<>>
  <2>1. PICK o : ScopeFine(p, o) /\ o.trusted /\ visibleOperations(p) = o.pending
    BY <1>2, VisibleAre
  <2> QED
    BY <2>1 DEF Earned
<1> QED
  BY <1>1, <1>2

LEMMA LessensEarned ==
  ASSUME NEW p, NEW q, NEW G, NEW S, Lessens(p, q, G), Earned(p, G, S)
  PROVE  Earned(q, G, S)
<1>1. SUFFICES ASSUME NEW x, ScopeFine(q, x)
               PROVE  \/ Of(x.pending, S)
                      \/ ~x.trusted /\ \A j \in DOMAIN x.pending : x.pending[j].what \in G => x.pending[j].what = Blank
  BY DEF Earned
<1>2. q.scopes # <<>>
  BY <1>1 DEF ScopeFine
<1>3. PICK o, r : /\ ScopeFine(p, o) /\ ScopeFine(q, r)
                  /\ \A i \in DOMAIN r.pending : \E j \in DOMAIN o.pending : r.pending[i] = o.pending[j]
                  /\ r.trusted => \/ o.trusted
                                  \/ \E j \in DOMAIN o.pending : o.pending[j].what \in G /\ o.pending[j].what # Blank
  BY <1>2 DEF Lessens
<1>4. x = r
  BY <1>1, <1>3 DEF ScopeFine
<1>5. CASE Of(o.pending, S)
  BY <1>3, <1>4, <1>5 DEF Of
<1>6. CASE ~o.trusted /\ \A j \in DOMAIN o.pending : o.pending[j].what \in G => o.pending[j].what = Blank
  BY <1>3, <1>4, <1>6
<1> QED
  BY <1>3, <1>5, <1>6 DEF Earned

LEMMA SeenIs ==
  ASSUME NEW q, PredictorFine(q), NEW target, q.target \in {target, None}, NEW slot, target.slot = slot
  PROVE  SeenIn(q, slot) = visibleOperations(q)
BY NothingPending DEF SeenIn, PredictorFine

LEMMA InkWithin ==
  ASSUME NEW G, NEW S, G \subseteq S
  PROVE  /\ \A grid \in [Cells -> G] : grid \in [Cells -> S]
         /\ \A cells : CellsInk(cells, G) => CellsInk(cells, S)
         /\ Narrow(S) => Narrow(G)
BY DEF CellsInk, Narrow

LEMMA NoSpans ==
  ASSUME NEW S
  PROVE  <<>> \in SpansOf(S) /\ IsRow(<<>>)
BY DEF SpansOf, IsRow

LEMMA PaintNothing ==
  ASSUME NEW S, Palette(S), NEW grid \in [Cells -> S]
  PROVE  Narrow(S) => Paint(grid, <<>>) = grid
BY PaintInk, NoSpans, ComposedNothing

\* Repaired: the cells of the frame, and what it has left alone.
LEMMA RepairedGrid ==
  ASSUME NEW S, Palette(S), Narrow(S), NEW grid \in [Cells -> S], NEW cells, CellsInk(cells, S),
         NEW xs \in Seq(OpSet), NEW drawn, drawn = Composed(grid, xs), drawn \in [Cells -> S],
         NEW after, after = PaintCells(grid, cells)
  PROVE  Paint(PaintCells(drawn, cells), repairSpans(xs, after)) = after
<1> PICK painted, spans : painted = PaintCells(drawn, cells) /\ spans = repairSpans(xs, after)
  OBVIOUS
<1>1. /\ after \in [Cells -> S] /\ painted \in [Cells -> S]
      /\ \A c \in Cells : after[c] = IF c \in DOMAIN cells THEN cells[c] ELSE grid[c]
      /\ \A c \in Cells : painted[c] = IF c \in DOMAIN cells THEN cells[c] ELSE drawn[c]
  BY PaintCellsInk
<1>2. spans \in SpansOf(S)
  BY <1>1, RepairSpansAre
<1>3. Paint(painted, spans) = Composed(painted, spans) /\ Paint(painted, spans) \in [Cells -> S]
  BY <1>1, <1>2, PaintInk
<1>4. IsRow(xs)
  BY OpsAre
<1>5. ASSUME NEW c \in Cells PROVE Composed(painted, spans)[c] = after[c]
  <2>1. Composed(painted, spans)[c] = IF \E i \in DOMAIN xs : xs[i].at = c THEN after[c] ELSE painted[c]
    BY <1>1, RepairedAt
  <2>2. CASE \E i \in DOMAIN xs : xs[i].at = c
    BY <2>1, <2>2
  <2>3. CASE ~ \E i \in DOMAIN xs : xs[i].at = c
    <3>1. drawn[c] = grid[c]
      BY <1>4, <2>3, ComposedAt
    <3> QED
      BY <1>1, <2>1, <2>3, <3>1
  <2> QED
    BY <2>2, <2>3
<1>6. Composed(painted, spans) = after
  <2>1. Composed(painted, spans) \in [Cells -> S]
    BY <1>3
  <2> HIDE DEF Composed
  <2> QED
    BY <1>1, <1>5, <2>1
<1> QED
  BY <1>3, <1>6

TouchedBy(cells, before, after) == DOMAIN cells \cup {c \in Cells : before[c] # after[c]}

\* Overlaid: what is not written again is as it was without the operations.
LEMMA OverlaidGrid ==
  ASSUME NEW S, Palette(S), Narrow(S), NEW grid \in [Cells -> S], NEW cells, CellsInk(cells, S),
         NEW xs \in Seq(OpSet), NEW drawn, drawn = Composed(grid, xs), drawn \in [Cells -> S],
         NEW after, after = PaintCells(grid, cells),
         NEW ys \in Seq(OpSet), Of(ys, S),
         \A i \in DOMAIN xs : xs[i].at \in TouchedBy(cells, grid, after) \/ \E j \in DOMAIN ys : ys[j].at = xs[i].at
  PROVE  Paint(PaintCells(drawn, cells), predictionSpans(ys)) = Composed(after, ys)
<1> PICK painted, spans : painted = PaintCells(drawn, cells) /\ spans = predictionSpans(ys)
  OBVIOUS
<1>1. /\ after \in [Cells -> S] /\ painted \in [Cells -> S]
      /\ \A c \in Cells : after[c] = IF c \in DOMAIN cells THEN cells[c] ELSE grid[c]
      /\ \A c \in Cells : painted[c] = IF c \in DOMAIN cells THEN cells[c] ELSE drawn[c]
  BY PaintCellsInk
<1>2. spans \in SpansOf(S) /\ Composed(painted, spans) = Composed(painted, ys)
  BY PredictionSpansAre DEF Palette
<1>3. Paint(painted, spans) = Composed(painted, spans)
  BY <1>1, <1>2, PaintInk
<1>4. IsRow(xs) /\ IsRow(ys)
  BY OpsAre
<1>5. ASSUME NEW c \in Cells, \A i \in DOMAIN ys : ys[i].at # c PROVE painted[c] = after[c]
  <2>1. CASE c \in DOMAIN cells
    BY <1>1, <2>1
  <2>2. CASE c \notin DOMAIN cells
    <3>1. after[c] = grid[c] /\ painted[c] = drawn[c]
      BY <1>1, <2>2
    <3>2. c \notin TouchedBy(cells, grid, after)
      BY <2>2, <3>1 DEF TouchedBy
    <3>3. \A i \in DOMAIN xs : xs[i].at # c
      BY <1>5, <3>2
    <3>4. drawn[c] = grid[c]
      BY <1>4, <3>3, ComposedAt
    <3> QED
      BY <3>1, <3>4
  <2> QED
    BY <2>1, <2>2
<1>6. Composed(painted, ys) = Composed(after, ys)
  BY <1>4, <1>5, ComposedAgree
<1> QED
  BY <1>2, <1>3, <1>6

\* The cells of a slot, as a frame finds them and as they are repainted.
Scrolled(frame, grid) == IF frame.scroll THEN scrollRegion(grid) ELSE grid

Repainted(frame, native, drawn, after, spans) ==
    IF frame.scroll /\ ~native THEN after ELSE Paint(PaintCells(Scrolled(frame, drawn), frame.cells), spans)

LEMMA ScrolledInk ==
  ASSUME NEW G, Palette(G), NEW grid \in [Cells -> G], NEW frame
  PROVE  Scrolled(frame, grid) \in [Cells -> G] /\ (~frame.scroll => Scrolled(frame, grid) = grid)
BY ScrollInk DEF Scrolled

\* The spans a frame has painted are on the palette of the screen.
LEMMA SpansInk ==
  ASSUME NEW S, Palette(S), NEW G, G \subseteq S, NEW p, PredictorFine(p), NEW frame, NEW target, NEW touched,
         NEW after \in [Cells -> S], NEW r, Settles(p, target, frame, touched, after, r),
         PredictorFine(r.predictor), Earned(r.predictor, G, S)
  PROVE  r.spans \in SpansOf(S)
<1>1. visibleOperations(p) \in Seq(OpSet) /\ visibleOperations(r.predictor) \in Seq(OpSet)
  BY VisibleAre
<1>2. <<>> \in SpansOf(S)
  BY NoSpans
<1>3. repairSpans(visibleOperations(p), after) \in SpansOf(S)
  BY <1>1, RepairSpansAre
<1>4. predictionSpans(visibleOperations(r.predictor)) \in SpansOf(S)
  <2>1. Of(visibleOperations(r.predictor), S)
    BY SeenOf
  <2> QED
    BY <1>1, <2>1, PredictionSpansAre DEF Palette
<1> QED
  BY <1>2, <1>3, <1>4, Zenon DEF Settles, Disregards, Forgets, Repairs, OverlaysWith

\* The terminal has scrolled the pane by itself only if nothing is repainted.
Scrolls(native, r) == native => ~r.repaint

\* A prediction for the slot is for what the slot shows.
IsTargetOf(slot, p, target) ==
    target.slot = slot /\ (p.target # None /\ p.target.slot = slot => target = p.target)

LEMMA FramePainted ==
  ASSUME NEW S, Palette(S), NEW G, Palette(G), G \subseteq S, NEW p, PredictorFine(p),
         NEW grid \in [Cells -> G], NEW drawn \in [Cells -> S], NEW frame, FrameInk(frame, G),
         NEW slot, NEW target, IsTargetOf(slot, p, target),
         NEW before, before = Scrolled(frame, grid), NEW after, after = PaintCells(before, frame.cells),
         NEW touched, touched = TouchedBy(frame.cells, before, after),
         NEW r, Settles(p, target, frame, touched, after, r),
         PredictorFine(r.predictor), r.predictor.target \in {p.target, None}, Earned(r.predictor, G, S),
         NEW native, Scrolls(native, r)
  PROVE  /\ after \in [Cells -> G] /\ Repainted(frame, native, drawn, after, r.spans) \in [Cells -> S]
         /\ Narrow(S) /\ drawn = Composed(grid, SeenIn(p, slot)) =>
              Repainted(frame, native, drawn, after, r.spans) = Composed(after, SeenIn(r.predictor, slot))
<1> PICK q, spans, cells, A, B, old : /\ q = r.predictor /\ spans = r.spans /\ cells = frame.cells
                                      /\ A = visibleOperations(p) /\ B = visibleOperations(r.predictor)
                                      /\ old = Scrolled(frame, drawn)
  OBVIOUS
<1>1. CellsInk(cells, G) /\ CellsInk(cells, S)
  BY InkWithin DEF FrameInk
<1>2. before \in [Cells -> G] /\ old \in [Cells -> S] /\ (~frame.scroll => before = grid /\ old = drawn)
  BY ScrolledInk
<1>3. after \in [Cells -> G] /\ PaintCells(old, cells) \in [Cells -> S]
  BY <1>1, <1>2, PaintCellsInk
<1>4. /\ after \in [Cells -> S] /\ grid \in [Cells -> S] /\ before \in [Cells -> S]
      /\ A \in Seq(OpSet) /\ B \in Seq(OpSet)
  BY <1>2, <1>3, InkWithin, VisibleAre
<1>5. spans \in SpansOf(S)
  BY <1>4, SpansInk
<1>6. Repainted(frame, native, drawn, after, spans) \in [Cells -> S]
  <2>1. Paint(PaintCells(old, cells), spans) \in [Cells -> S]
    BY <1>3, <1>5, PaintInk
  <2> QED
    BY <1>4, <2>1, Zenon DEF Repainted
<1>7. ASSUME Narrow(S), drawn = Composed(grid, SeenIn(p, slot))
      PROVE  Repainted(frame, native, drawn, after, spans) = Composed(after, SeenIn(q, slot))
  <2>1. CASE Disregards(p, r) /\ (p.target = None \/ target # p.target)
    <3>1. SeenIn(p, slot) = <<>> /\ q = p /\ spans = <<>>
      BY <2>1 DEF SeenIn, Disregards, IsTargetOf
    <3>2. drawn = grid /\ Composed(after, SeenIn(q, slot)) = after
      BY <1>4, <1>7, <3>1, ComposedNothing
    <3>3. Paint(PaintCells(old, cells), spans) = after
      <4>1. Paint(after, <<>>) = after
        BY <1>4, <1>7, PaintNothing
      <4>2. PaintCells(old, cells) = after
        BY <3>2 DEF Scrolled
      <4> QED
        BY <3>1, <4>1, <4>2
    <3> QED
      BY <3>2, <3>3, Zenon DEF Repainted
  <2>2. CASE target = p.target
    <3>1. SeenIn(p, slot) = A /\ SeenIn(q, slot) = B
      BY <2>2, SeenIs DEF IsTargetOf
    <3>2. drawn = Composed(grid, A)
      BY <1>7, <3>1
    <3>3. q = clear(p) => B = <<>>
      BY ClearFine, NothingPending
    <3>4. CASE Forgets(p, frame, r)
      <4>1. spans = <<>> /\ (r.repaint <=> A # <<>>) /\ (frame.scroll \/ A = <<>>) /\ B = <<>>
        BY <3>3, <3>4 DEF Forgets
      <4>2. Composed(after, B) = after
        BY <1>4, <4>1, ComposedNothing
      <4>3. CASE A = <<>>
        <5>1. drawn = grid
          BY <1>4, <3>2, <4>3, ComposedNothing
        <5>2. Paint(after, <<>>) = after
          BY <1>4, <1>7, PaintNothing
        <5>3. PaintCells(old, cells) = after
          BY <5>1 DEF Scrolled
        <5>4. Paint(PaintCells(old, cells), spans) = after
          BY <4>1, <5>2, <5>3
        <5> QED
          BY <3>1, <4>2, <5>4, Zenon DEF Repainted
      <4>4. CASE A # <<>>
        <5>1. frame.scroll /\ ~native
          BY <4>1, <4>4, Zenon DEF Scrolls
        <5> QED
          BY <3>1, <4>2, <5>1, Zenon DEF Repainted
      <4> QED
        BY <4>3, <4>4
    <3>5. CASE Repairs(p, frame, after, r)
      <4>1. spans = repairSpans(A, after) /\ ~frame.scroll /\ B = <<>>
        BY <3>3, <3>5 DEF Repairs
      <4>2. Composed(after, B) = after
        BY <1>4, <4>1, ComposedNothing
      <4>3. after = PaintCells(grid, cells) /\ old = drawn
        BY <1>2, <4>1
      <4>4. Paint(PaintCells(drawn, cells), repairSpans(A, after)) = after
        BY <1>1, <1>4, <1>7, <3>2, <4>3, RepairedGrid
      <4>5. Paint(PaintCells(old, cells), spans) = after
        BY <4>1, <4>3, <4>4
      <4> QED
        BY <3>1, <4>1, <4>2, <4>5, Zenon DEF Repainted
    <3>6. CASE OverlaysWith(r.predictor, r) /\ ~frame.scroll /\ Covers(p, r.predictor, touched)
      <4>1. spans = predictionSpans(B) /\ ~frame.scroll
        BY <3>6 DEF OverlaysWith
      <4>2. after = PaintCells(grid, cells) /\ old = drawn /\ before = grid
        BY <1>2, <4>1
      <4>3. \A i \in DOMAIN A : A[i].at \in touched \/ \E j \in DOMAIN B : B[j].at = A[i].at
        BY <3>6 DEF Covers
      <4>5. \A i \in DOMAIN A : A[i].at \in TouchedBy(cells, grid, after) \/ \E j \in DOMAIN B : B[j].at = A[i].at
        BY <4>2, <4>3
      <4>4. Of(B, S)
        BY SeenOf
      <4>6. Paint(PaintCells(drawn, cells), predictionSpans(B)) = Composed(after, B)
        BY <1>1, <1>4, <1>7, <3>2, <4>2, <4>4, <4>5, OverlaidGrid
      <4>7. Paint(PaintCells(old, cells), spans) = Composed(after, B)
        BY <4>1, <4>2, <4>6
      <4> QED
        BY <3>1, <4>1, <4>7, Zenon DEF Repainted
    <3> QED
      BY <2>2, <3>4, <3>5, <3>6, <2>1 DEF Settles
  <2> QED
    BY <2>1, <2>2, Zenon DEF Settles
<1> QED
  BY <1>3, <1>6, <1>7

-----------------------------------------------------------------------------
(* What the render loop does to the cells of its slots.                               *)

HasScreens(s) == s.screen = [slot \in Slots |-> s.screen[slot]]

TargetFine(p) ==
    p.target # None =>
        /\ p.target = [pane |-> p.target.pane, slot |-> p.target.slot, revision |-> p.target.revision]
        /\ p.target.slot \in Slots

Inked(s, G, S) == \A slot \in Slots : s.cache[slot] \in [Cells -> G] /\ s.screen[slot] \in [Cells -> S]

\* The cells of the slots are on the palettes, and what is predicted may be shown.
ScanFine(s, G, S) ==
    /\ HasTables(s) /\ HasScreens(s) /\ Inked(s, G, S)
    /\ PredictorFine(s.predictor) /\ TargetFine(s.predictor) /\ Earned(s.predictor, G, S)

Composes(s) == \A slot \in Slots : s.screen[slot] = Composed(s.cache[slot], SeenIn(s.predictor, slot))

StillComposes(S, s, t) == Narrow(S) /\ Composes(s) => Composes(t)

Palettes(G, S) == Palette(G) /\ Palette(S) /\ G \subseteq S

LEMMA ComposesTransitive ==
  ASSUME NEW S, NEW s, NEW t, NEW u, StillComposes(S, s, t), StillComposes(S, t, u)
  PROVE  StillComposes(S, s, u)
BY DEF StillComposes

LEMMA SameTargetFine ==
  ASSUME NEW p, NEW q, SameTarget(p, q), TargetFine(p)
  PROVE  TargetFine(q)
BY DEF SameTarget, TargetFine

LEMMA KeepsFocused ==
  ASSUME NEW s, NEW t, Focused(s), Keeps(s, t)
  PROVE  Focused(t)
BY DEF Focused, Keeps, SameTarget

\* One slot changes, and the predictor.
OneSlot(s, t, slot, c, v, q, w) ==
    /\ t.layout = s.layout /\ t.predictor = q
    /\ t.cache[slot] = c /\ t.cursors[slot] = v /\ t.screen[slot] = w
    /\ \A u \in Slots : u # slot =>
          t.cache[u] = s.cache[u] /\ t.cursors[u] = s.cursors[u] /\ t.screen[u] = s.screen[u]
    /\ HasScreens(t)

LEMMA OneSlotChanges ==
  ASSUME NEW s, IsScanout(s), HasTables(s), HasScreens(s), NEW slot \in Slots, NEW c, NEW v, NEW q, NEW w,
         NEW t, t = [s EXCEPT !.cache[slot] = c, !.cursors[slot] = v, !.predictor = q, !.screen[slot] = w]
  PROVE  OneSlot(s, t, slot, c, v, q, w)
<1>1. /\ t.cache = [s.cache EXCEPT ![slot] = c] /\ t.cursors = [s.cursors EXCEPT ![slot] = v]
      /\ t.screen = [s.screen EXCEPT ![slot] = w] /\ t.predictor = q /\ t.layout = s.layout
  BY DEF IsScanout
<1>2. t.cache[slot] = c /\ \A u \in Slots : u # slot => t.cache[u] = s.cache[u]
  BY <1>1 DEF HasTables
<1>3. t.cursors[slot] = v /\ \A u \in Slots : u # slot => t.cursors[u] = s.cursors[u]
  BY <1>1 DEF HasTables
<1>4. t.screen[slot] = w /\ \A u \in Slots : u # slot => t.screen[u] = s.screen[u]
  BY <1>1 DEF HasScreens
<1>5. HasScreens(t)
  BY <1>1 DEF HasScreens
<1> QED
  BY <1>1, <1>2, <1>3, <1>4, <1>5 DEF OneSlot

Emitted(s, slot, frame, after, r, native) ==
    [s EXCEPT !.cache[slot] = after,
              !.cursors[slot] = [cursor |-> frame.cursor, visible |-> frame.visible],
              !.predictor = r.predictor,
              !.screen[slot] = Repainted(frame, native, s.screen[slot], after, r.spans)]

EmittedTo(s, slot, frame, after, r, t) ==
    \E native : Scrolls(native, r) /\ t = Emitted(s, slot, frame, after, r, native)

\* What emitFrame does, in parts.
EmitParts(s, slot, frame, target, before, after, touched, r) ==
    /\ target = [pane |-> s.layout.panes[slot], slot |-> slot, revision |-> frame.revision]
    /\ before = Scrolled(frame, s.cache[slot])
    /\ after = PaintCells(before, frame.cells)
    /\ touched = TouchedBy(frame.cells, before, after)
    /\ IsAnswer(r, s.predictor, target, frame, touched, before, after)

LEMMA EmitPartsAre ==
  ASSUME NEW s, NEW slot, NEW frame
  PROVE  \E target, before, after, touched, r : EmitParts(s, slot, frame, target, before, after, touched, r)
<1> PICK target : target = [pane |-> s.layout.panes[slot], slot |-> slot, revision |-> frame.revision]
  OBVIOUS
<1> PICK before : before = Scrolled(frame, s.cache[slot])
  OBVIOUS
<1> PICK after : after = PaintCells(before, frame.cells)
  OBVIOUS
<1> PICK touched : touched = TouchedBy(frame.cells, before, after)
  OBVIOUS
<1> PICK r : IsAnswer(r, s.predictor, target, frame, touched, before, after)
  BY DEF IsAnswer
<1>1. EmitParts(s, slot, frame, target, before, after, touched, r)
  BY Zenon DEF EmitParts
<1> QED
  BY <1>1, Zenon

LEMMA EmitFrameIs ==
  ASSUME NEW s, NEW slot, NEW frame, NEW nativeScroll, NEW target, NEW before, NEW after, NEW touched, NEW r,
         EmitParts(s, slot, frame, target, before, after, touched, r)
  PROVE  EmittedTo(s, slot, frame, after, r, emitFrame(s, slot, frame, nativeScroll))
<1> DEFINE beforeD == IF frame.scroll THEN scrollRegion(s.cache[slot]) ELSE s.cache[slot]
           afterD == PaintCells(beforeD, frame.cells)
           touchedD == DOMAIN frame.cells \cup {c \in Cells : beforeD[c] # afterD[c]}
           targetD == [pane |-> s.layout.panes[slot], slot |-> slot, revision |-> frame.revision]
           result == applyAuthoritativeFrame(s.predictor, targetD, frame, touchedD, beforeD, afterD)
           native == nativeScroll /\ ~result.repaint
           old == IF frame.scroll THEN scrollRegion(s.screen[slot]) ELSE s.screen[slot]
           cursor == [cursor |-> frame.cursor, visible |-> frame.visible]
           painted == IF frame.scroll /\ ~native THEN afterD
                      ELSE Paint(PaintCells(old, frame.cells), result.spans)
<1>. /\ target = targetD /\ before = Scrolled(frame, s.cache[slot]) /\ after = PaintCells(before, frame.cells)
     /\ touched = TouchedBy(frame.cells, before, after)
     /\ r = applyAuthoritativeFrame(s.predictor, target, frame, touched, before, after)
  BY DEF EmitParts, IsAnswer
<1>1. emitFrame(s, slot, frame, nativeScroll) =
          [s EXCEPT !.cache[slot] = afterD, !.cursors[slot] = cursor,
                    !.predictor = result.predictor, !.screen[slot] = painted]
  BY Zenon DEF emitFrame
<1>2. beforeD = before
  BY Zenon DEF Scrolled
<1> HIDE DEF beforeD
<1>3. afterD = after
  BY <1>2, Zenon
<1> HIDE DEF afterD
<1>4. touchedD = touched
  BY <1>2, <1>3, Zenon DEF TouchedBy
<1>5. targetD = target
  BY Zenon
<1> HIDE DEF touchedD, targetD
<1>6. result = r
  BY <1>2, <1>3, <1>4, <1>5, Zenon
<1> HIDE DEF result
<1>7. painted = Repainted(frame, native, s.screen[slot], afterD, result.spans)
  BY Zenon DEF Repainted, Scrolled
<1>8. Scrolls(native, result)
  BY DEF Scrolls
<1> HIDE DEF painted, native
<1> QED
  BY <1>1, <1>3, <1>6, <1>7, <1>8, Zenon DEF Emitted, EmittedTo

\* A slot of which the cursor has been sent.
CursorKnown(s, slot) == s.cursors[slot].cursor \in Cells

FrameFits(frame, revision, G) == frame.revision = revision /\ CellsFit(frame.cells) /\ FrameInk(frame, G)

\* What a step of the render loop keeps: the cells of one slot have changed, at most.
StillFine(G, S, s, t, slot) ==
    /\ ScanFine(t, G, S) /\ StillComposes(S, s, t)
    /\ \A u \in Slots : u # slot => t.cursors[u] = s.cursors[u]

LEMMA EmitFrameFine ==
  ASSUME NEW G, NEW S, Palettes(G, S), NEW s, IsScanout(s), Focused(s), ScanFine(s, G, S),
         NEW slot \in Slots, NEW frame, FrameFits(frame, s.layout.revision, G), NEW nativeScroll,
         NEW t, t = emitFrame(s, slot, frame, nativeScroll)
  PROVE  StillFine(G, S, s, t, slot) /\ CursorKnown(t, slot) /\ Lessens(s.predictor, t.predictor, G)
<1> PICK target, before, after, touched, r : EmitParts(s, slot, frame, target, before, after, touched, r)
  BY EmitPartsAre, Zenon
<1> PICK p, grid, drawn : p = s.predictor /\ grid = s.cache[slot] /\ drawn = s.screen[slot]
  OBVIOUS
<1> PICK cursor : cursor = [cursor |-> frame.cursor, visible |-> frame.visible]
  OBVIOUS
<1>0. /\ target = [pane |-> s.layout.panes[slot], slot |-> slot, revision |-> frame.revision]
      /\ before = Scrolled(frame, grid) /\ after = PaintCells(before, frame.cells)
      /\ touched = TouchedBy(frame.cells, before, after)
      /\ IsAnswer(r, p, target, frame, touched, before, after)
  BY Zenon DEF EmitParts
<1>1. EmittedTo(s, slot, frame, after, r, t)
  <2>1. EmittedTo(s, slot, frame, after, r, emitFrame(s, slot, frame, nativeScroll))
    BY EmitFrameIs, Zenon
  <2> QED
    BY <2>1, Zenon
<1>. PICK native : Scrolls(native, r) /\ t = Emitted(s, slot, frame, after, r, native)
  BY <1>1, Zenon DEF EmittedTo
<1> PICK painted : painted = Repainted(frame, native, drawn, after, r.spans)
  OBVIOUS
<1>2. /\ PredictorFine(p) /\ TargetFine(p) /\ Earned(p, G, S) /\ grid \in [Cells -> G] /\ drawn \in [Cells -> S]
      /\ FrameInk(frame, G) /\ frame.cursor \in Cells /\ frame.revision = s.layout.revision
      /\ Palette(G) /\ Palette(S) /\ G \subseteq S
  BY DEF ScanFine, Inked, FrameFits, FrameInk, Palettes
<1>3. after \in [Cells -> G]
  <2>1. before \in [Cells -> G]
    BY <1>0, <1>2, ScrolledInk
  <2> QED
    BY <1>0, <1>2, <2>1, PaintCellsInk DEF FrameInk
<1>4. PredictorFine(r.predictor) /\ Lessens(p, r.predictor, G) /\ Settles(p, target, frame, touched, after, r)
  BY <1>0, <1>2, <1>3, FrameSettlesAs
<1>5. SameTarget(p, r.predictor) /\ r.predictor.target \in {p.target, None} /\ TargetFine(r.predictor)
  <2>1. SameTarget(p, r.predictor)
    BY <1>0, <1>2, <1>3, FrameSettlesAs
  <2> QED
    BY <1>2, <2>1, SameTargetFine DEF SameTarget
<1>6. Earned(r.predictor, G, S)
  BY <1>2, <1>4, LessensEarned
<1>7. IsTargetOf(slot, p, target)
  BY <1>0, <1>2 DEF TargetFine, Focused, IsTargetOf
<1>8. /\ painted \in [Cells -> S]
      /\ Narrow(S) /\ drawn = Composed(grid, SeenIn(p, slot)) => painted = Composed(after, SeenIn(r.predictor, slot))
  BY <1>0, <1>2, <1>4, <1>5, <1>6, <1>7, FramePainted
<1>9. OneSlot(s, t, slot, after, cursor, r.predictor, painted)
  <2>2. t = [s EXCEPT !.cache[slot] = after, !.cursors[slot] = cursor, !.predictor = r.predictor, !.screen[slot] = painted]
    BY Zenon DEF Emitted
  <2>1. HasTables(s) /\ HasScreens(s)
    BY DEF ScanFine
  <2> QED
    BY <2>1, <2>2, OneSlotChanges, Zenon
<1>10. HasTables(t)
  <2>1. PaintsOnly(s, t, slot)
    BY EmitFramePaints DEF ScanFine, FrameFits
  <2> QED
    BY <2>1 DEF PaintsOnly
<1>11. Inked(t, G, S)
  <2> SUFFICES ASSUME NEW u \in Slots PROVE t.cache[u] \in [Cells -> G] /\ t.screen[u] \in [Cells -> S]
    BY DEF Inked
  <2>1. CASE u = slot
    BY <1>3, <1>8, <1>9, <2>1 DEF OneSlot
  <2>2. CASE u # slot
    <3>1. t.cache[u] = s.cache[u] /\ t.screen[u] = s.screen[u]
      BY <1>9, <2>2 DEF OneSlot
    <3> QED
      BY <3>1 DEF ScanFine, Inked
  <2> QED
    BY <2>1, <2>2
<1>12. ScanFine(t, G, S)
  BY <1>4, <1>5, <1>6, <1>9, <1>10, <1>11 DEF ScanFine, OneSlot
<1>13. StillComposes(S, s, t)
  <2> SUFFICES ASSUME Narrow(S), Composes(s), NEW u \in Slots
               PROVE  t.screen[u] = Composed(t.cache[u], SeenIn(t.predictor, u))
    BY DEF StillComposes, Composes
  <2>1. CASE u = slot
    <3>1. t.screen[u] = painted /\ t.cache[u] = after /\ t.predictor = r.predictor
      BY <1>9, <2>1 DEF OneSlot
    <3>2. drawn = Composed(grid, SeenIn(p, slot))
      BY DEF Composes
    <3> QED
      BY <1>8, <2>1, <3>1, <3>2
  <2>2. CASE u # slot
    <3>1. t.cache[u] = s.cache[u] /\ t.screen[u] = s.screen[u] /\ t.predictor = r.predictor
      BY <1>9, <2>2 DEF OneSlot
    <3>2. SeenIn(r.predictor, u) = SeenIn(p, u)
      <4>1. CASE r.predictor = p
        BY <4>1
      <4>2. CASE target = p.target
        BY <1>5, <1>7, <2>2, <4>2 DEF SeenIn, IsTargetOf
      <4> QED
        BY <1>4, <4>1, <4>2 DEF Settles, Disregards
    <3>3. s.screen[u] = Composed(s.cache[u], SeenIn(p, u))
      BY DEF Composes
    <3> QED
      BY <3>1, <3>2, <3>3
  <2> QED
    BY <2>1, <2>2
<1>14. CursorKnown(t, slot)
  <2>1. t.cursors[slot] = cursor
    BY <1>9 DEF OneSlot
  <2> QED
    BY <1>2, <2>1 DEF CursorKnown
<1>15. Lessens(s.predictor, t.predictor, G)
  BY <1>4, <1>9 DEF OneSlot
<1> QED
  BY <1>9, <1>12, <1>13, <1>14, <1>15 DEF StillFine, OneSlot

FramesFine(frames, revision, G) ==
    IsSequence(frames) /\ \A i \in DOMAIN frames : FrameFits(frames[i], revision, G)

LEMMA StillFineItself ==
  ASSUME NEW G, NEW S, NEW s, ScanFine(s, G, S), NEW slot
  PROVE  StillFine(G, S, s, s, slot)
BY DEF StillFine, StillComposes

LEMMA StillFineTransitive ==
  ASSUME NEW G, NEW S, NEW s, NEW t, NEW u, NEW slot, StillFine(G, S, s, t, slot), StillFine(G, S, t, u, slot)
  PROVE  StillFine(G, S, s, u, slot)
BY DEF StillFine, StillComposes

LEMMA EmitFramesFine ==
  ASSUME NEW G, NEW S, Palettes(G, S), NEW s, IsScanout(s), Focused(s), ScanFine(s, G, S),
         NEW slot \in Slots, NEW frames, FramesFine(frames, s.layout.revision, G), NEW nativeScroll,
         NEW t, t = emitFrames(s, slot, frames, nativeScroll)
  PROVE  /\ Keeps(s, t) /\ StillFine(G, S, s, t, slot)
         /\ frames # <<>> => CursorKnown(t, slot)
<1> DEFINE L == Len(frames)
<1>1. L \in Nat /\ DOMAIN frames = 1 .. L /\ (frames # <<>> => L > 0)
  <2>1. L \in Nat /\ DOMAIN frames = 1 .. L /\ frames \in Seq({frames[i] : i \in DOMAIN frames})
    BY SequenceLen DEF FramesFine, IsSequence
  <2>2. frames # <<>> => L # 0
    BY <2>1
  <2> QED
    BY <2>1, <2>2
<1>2. PICK f : /\ \A n \in 0 .. L : f[n] = EmitStep(s, slot, frames, nativeScroll, f, n)
               /\ emitFrames(s, slot, frames, nativeScroll) = f[L]
  BY <1>1, EmitFramesSteps
<1> HIDE DEF L
<1> DEFINE Good(n) == Keeps(s, f[n]) /\ StillFine(G, S, s, f[n], slot) /\ (n > 0 => CursorKnown(f[n], slot))
           Bad == {n \in 0 .. L : ~Good(n)}
<1>3. PredictorFine(s.predictor) /\ IsPredictor(s.predictor)
  BY DEF ScanFine, PredictorFine
<1>4. ASSUME Bad # {} PROVE FALSE
  <2>1. PICK m \in Bad : \A k \in Bad : m <= k
    <3>1. Bad \subseteq Nat
      OBVIOUS
    <3> HIDE DEF Bad
    <3> QED
      BY <1>4, <3>1, LeastNat
  <2>2. m # 0
    <3>1. 0 \in 0 .. L /\ ~ 0 > 0
      BY <1>1
    <3>2. f[0] = s
      BY <1>2, <3>1 DEF EmitStep
    <3>3. Keeps(s, s) /\ StillFine(G, S, s, s, slot)
      BY <1>3, KeepsItself, StillFineItself
    <3> QED
      BY <2>1, <3>1, <3>2, <3>3
  <2>3. m - 1 \in 0 .. L /\ m \in 0 .. L /\ m \in DOMAIN frames /\ m - 1 \notin Bad
    BY <1>1, <2>1, <2>2
  <2> PICK u, v, frame : u = f[m - 1] /\ v = f[m] /\ frame = frames[m]
    OBVIOUS
  <2>4. Keeps(s, u) /\ StillFine(G, S, s, u, slot)
    BY <2>3
  <2>5. v = emitFrame(u, slot, frame, nativeScroll)
    BY <1>2, <2>2, <2>3 DEF EmitStep
  <2>6. /\ IsScanout(u) /\ IsPredictor(u.predictor) /\ ScanFine(u, G, S) /\ Focused(u)
        /\ FrameFits(frame, u.layout.revision, G)
    BY <2>3, <2>4, KeepsFocused DEF Keeps, SameTarget, StillFine, FramesFine
  <2>7. StillFine(G, S, u, v, slot) /\ CursorKnown(v, slot)
    BY <2>5, <2>6, EmitFrameFine
  <2>8. Keeps(s, v)
    BY <2>4, <2>5, <2>6, EmitFrameKeeps, KeepsTransitive
  <2>9. StillFine(G, S, s, v, slot)
    BY <2>4, <2>7, StillFineTransitive
  <2> QED
    BY <2>1, <2>7, <2>8, <2>9
<1>5. Good(L)
  BY <1>1, <1>4
<1> QED
  BY <1>1, <1>2, <1>5

\* What the layout of s has once the frames that waited are painted.
ReplayFine(G, S, old, s, t) ==
    /\ ScanFine(t, G, S) /\ StillComposes(S, s, t)
    /\ \A u \in Slots \cap DOMAIN s.layout.panes :
          Waiting(old, s.layout.revision, u) # <<>> => CursorKnown(t, u)

LEMMA ReplayIsFine ==
  ASSUME NEW G, NEW S, Palettes(G, S), NEW old, NEW s, IsScanout(s), Focused(s), ScanFine(s, G, S),
         \A n \in DOMAIN s.layout.panes : FramesFine(Waiting(old, s.layout.revision, n), s.layout.revision, G),
         NEW nativeScroll, NEW t, t = replay(old, s, nativeScroll)
  PROVE  ReplayFine(G, S, old, s, t)
<1> DEFINE N == Cardinality(Slots)
           Waited(u) == Waiting(old, s.layout.revision, u)
<1>1. N \in Nat /\ Slots = 1 .. N
  BY SlotsAssumption, FS_CardinalityType
<1>2. PICK f : /\ \A n \in 0 .. N : f[n] = ReplayStep(old, s, nativeScroll, f, n)
               /\ replay(old, s, nativeScroll) = f[N]
  BY <1>1, ReplaySteps
<1> HIDE DEF N, Waited
<1> DEFINE Known(n) == \A u \in Slots \cap DOMAIN s.layout.panes : u <= n /\ Waited(u) # <<>> => CursorKnown(f[n], u)
           Good(n) == Keeps(s, f[n]) /\ ScanFine(f[n], G, S) /\ StillComposes(S, s, f[n]) /\ Known(n)
           Bad == {n \in 0 .. N : ~Good(n)}
<1>3. ASSUME Bad # {} PROVE FALSE
  <2>1. PICK m \in Bad : \A k \in Bad : m <= k
    <3>1. Bad \subseteq Nat
      OBVIOUS
    <3> HIDE DEF Bad
    <3> QED
      BY <1>3, <3>1, LeastNat
  <2>2. m # 0
    <3>1. 0 \in 0 .. N /\ \A u \in Slots : ~(u <= 0)
      BY <1>1
    <3>2. f[0] = s
      BY <1>2, <3>1 DEF ReplayStep
    <3>3. Keeps(s, s) /\ StillComposes(S, s, s)
      BY KeepsItself DEF ScanFine, PredictorFine, StillComposes
    <3> QED
      BY <2>1, <3>1, <3>2, <3>3
  <2>3. /\ m - 1 \in 0 .. N /\ m \in 0 .. N /\ m \in Slots /\ m - 1 \notin Bad
        /\ \A u \in Slots : u <= m => u <= m - 1 \/ u = m
        /\ \A u \in Slots : u <= m - 1 => u # m
    BY <1>1, <2>1, <2>2
  <2> PICK u, v : u = f[m - 1] /\ v = f[m]
    OBVIOUS
  <2>4. /\ Keeps(s, u) /\ ScanFine(u, G, S) /\ StillComposes(S, s, u)
        /\ \A x \in Slots \cap DOMAIN s.layout.panes : x <= m - 1 /\ Waited(x) # <<>> => CursorKnown(u, x)
    BY <2>3
  <2>5. v = ReplayStep(old, s, nativeScroll, f, m)
    BY <1>2, <2>3
  <2>6. CASE m \notin DOMAIN s.layout.panes
    <3>1. v = u
      BY <2>2, <2>5, <2>6 DEF ReplayStep
    <3> QED
      BY <2>1, <2>3, <2>4, <2>6, <3>1
  <2>7. CASE m \in DOMAIN s.layout.panes
    <3> PICK frames : frames = Waited(m)
      OBVIOUS
    <3>1. v = emitFrames(u, m, frames, nativeScroll)
      BY <2>2, <2>5, <2>7 DEF ReplayStep, Replayed, Waited
    <3>2. /\ IsScanout(u) /\ Focused(u) /\ u.layout = s.layout
          /\ FramesFine(frames, u.layout.revision, G)
      BY <2>4, <2>7, KeepsFocused DEF Keeps, Waited
    <3>3. Keeps(u, v) /\ StillFine(G, S, u, v, m) /\ (frames # <<>> => CursorKnown(v, m))
      BY <2>3, <2>4, <3>1, <3>2, EmitFramesFine
    <3>4. Keeps(s, v) /\ ScanFine(v, G, S) /\ StillComposes(S, s, v)
      BY <2>4, <3>3, KeepsTransitive, ComposesTransitive DEF StillFine
    <3>5. \A x \in Slots \cap DOMAIN s.layout.panes : x <= m /\ Waited(x) # <<>> => CursorKnown(v, x)
      BY <2>3, <2>4, <3>3 DEF StillFine, CursorKnown
    <3> QED
      BY <2>1, <3>4, <3>5
  <2> QED
    BY <2>6, <2>7
<1>4. Good(N)
  BY <1>1, <1>3
<1>5. \A u \in Slots : u <= N
  BY <1>1
<1> QED
  BY <1>2, <1>4, <1>5 DEF Waited, ReplayFine

-----------------------------------------------------------------------------
(* Predictions that are given up, and new ones, on the screen.                        *)

\* Given up: nothing of them is left.
LEMMA RepairedBack ==
  ASSUME NEW S, Palette(S), NEW grid \in [Cells -> S], NEW drawn \in [Cells -> S], NEW xs \in Seq(OpSet)
  PROVE  /\ Paint(drawn, repairSpans(xs, grid)) \in [Cells -> S]
         /\ Narrow(S) /\ drawn = Composed(grid, xs) => Paint(drawn, repairSpans(xs, grid)) = grid
<1> PICK spans : spans = repairSpans(xs, grid)
  OBVIOUS
<1>1. spans \in SpansOf(S)
  BY RepairSpansAre
<1>2. Paint(drawn, spans) \in [Cells -> S]
  BY <1>1, PaintInk
<1>3. ASSUME Narrow(S), drawn = Composed(grid, xs) PROVE Paint(drawn, spans) = grid
  <2>1. Paint(drawn, spans) = Composed(drawn, spans) /\ Composed(drawn, spans) \in [Cells -> S]
    BY <1>1, <1>2, <1>3, PaintInk
  <2>2. ASSUME NEW c \in Cells PROVE Composed(drawn, spans)[c] = grid[c]
    <3>1. Composed(drawn, spans)[c] = IF \E i \in DOMAIN xs : xs[i].at = c THEN grid[c] ELSE drawn[c]
      BY <1>3, RepairedAt
    <3>2. CASE \E i \in DOMAIN xs : xs[i].at = c
      BY <3>1, <3>2
    <3>3. CASE ~ \E i \in DOMAIN xs : xs[i].at = c
      <4>1. drawn[c] = grid[c]
        BY <1>3, <3>3, OpsAre, ComposedAt
      <4> QED
        BY <3>1, <3>3, <4>1
    <3> QED
      BY <3>2, <3>3
  <2>3. Composed(drawn, spans) = grid
    <3> HIDE DEF Composed
    <3> QED
      BY <2>1, <2>2
  <2> QED
    BY <2>1, <2>3
<1> QED
  BY <1>2, <1>3

\* Operations of which nothing follows on their cells are among those repaired.
LEMMA RemovedAre ==
  ASSUME NEW xs \in Seq(OpSet), NEW ys
  PROVE  /\ RemovedOperations(xs, ys) \in Seq(OpSet)
         /\ \A i \in DOMAIN xs : On(ys, xs[i].at) = {} =>
               \E k \in DOMAIN RemovedOperations(xs, ys) : RemovedOperations(xs, ys)[k] = xs[i]
<1> PICK I : I = {i \in DOMAIN xs : LET c == xs[i].at
                                  IN  On(ys, c) = {} \/ ys[LastOn(ys, c)].what # xs[i].what}
  OBVIOUS
<1>1. RemovedOperations(xs, ys) = Chosen(xs, I)
  BY Zenon DEF RemovedOperations
<1>2. \A i \in DOMAIN xs : On(ys, xs[i].at) = {} => i \in I
  OBVIOUS
<1>3. ChosenPart(OpSet, xs, I, Chosen(xs, I), Len(xs))
  BY ChosenIs
<1>4. DOMAIN xs = 1 .. Len(xs)
  OBVIOUS
<1> QED
  BY <1>1, <1>2, <1>3, <1>4 DEF ChosenPart

InputSpans(xs, ys, grid) == repairSpans(RemovedOperations(xs, ys), grid) \o predictionSpans(ys)

LEMMA InputPainted ==
  ASSUME NEW S, Palette(S), NEW grid \in [Cells -> S], NEW drawn \in [Cells -> S], NEW xs \in Seq(OpSet),
         NEW ys \in Seq(OpSet), Of(ys, S)
  PROVE  /\ Paint(drawn, InputSpans(xs, ys, grid)) \in [Cells -> S]
         /\ Narrow(S) /\ drawn = Composed(grid, xs) => Paint(drawn, InputSpans(xs, ys, grid)) = Composed(grid, ys)
<1> PICK R, repairs, predictions, spans :
       /\ R = RemovedOperations(xs, ys) /\ repairs = repairSpans(R, grid) /\ predictions = predictionSpans(ys)
       /\ spans = InputSpans(xs, ys, grid)
  OBVIOUS
<1>1. /\ R \in Seq(OpSet)
      /\ \A i \in DOMAIN xs : On(ys, xs[i].at) = {} => \E k \in DOMAIN R : R[k] = xs[i]
  BY RemovedAre
<1>2. repairs \in SpansOf(S)
  BY <1>1, RepairSpansAre
<1>3. predictions \in SpansOf(S) /\ \A g : Composed(g, predictions) = Composed(g, ys)
  BY PredictionSpansAre DEF Palette
<1>4. spans = repairs \o predictions
  BY Zenon DEF InputSpans
<1>5. spans \in SpansOf(S)
  BY <1>2, <1>3, <1>4 DEF SpansOf
<1>6. Paint(drawn, spans) \in [Cells -> S]
  BY <1>5, PaintInk
<1>7. ASSUME Narrow(S), drawn = Composed(grid, xs) PROVE Paint(drawn, spans) = Composed(grid, ys)
  <2> PICK mid : mid = Composed(drawn, repairs)
    OBVIOUS
  <2>1. Paint(drawn, spans) = Composed(drawn, spans)
    BY <1>5, <1>7, PaintInk
  <2>2. Composed(drawn, spans) = Composed(mid, predictions)
    <3>1. \E T : repairs \in Seq(T) /\ predictions \in Seq(T)
      BY <1>2, <1>3, Zenon DEF SpansOf
    <3>2. Composed(drawn, spans) = Composed(Composed(drawn, repairs), predictions)
      <4>1. Joined(repairs, predictions, spans)
        BY <1>4, <3>1, JoinedIs
      <4> QED
        BY <4>1, ComposedConcat
    <3> QED
      BY <3>2
  <2>3. ASSUME NEW c \in Cells, \A i \in DOMAIN ys : ys[i].at # c PROVE mid[c] = grid[c]
    <3>1. mid[c] = IF \E i \in DOMAIN R : R[i].at = c THEN grid[c] ELSE drawn[c]
      <4>1. R \in Seq(OpSet) /\ Narrow(S)
        BY <1>1, <1>7
      <4>2. Composed(drawn, repairSpans(R, grid))[c] = IF \E i \in DOMAIN R : R[i].at = c THEN grid[c] ELSE drawn[c]
        BY <4>1, RepairedAt
      <4> QED
        BY <4>2, Zenon
    <3>2. On(ys, c) = {}
      BY <2>3 DEF On
    <3>3. CASE \E i \in DOMAIN xs : xs[i].at = c
      <4>1. PICK i \in DOMAIN xs : xs[i].at = c
        BY <3>3
      <4>2. PICK k \in DOMAIN R : R[k] = xs[i]
        BY <1>1, <3>2, <4>1
      <4> QED
        BY <3>1, <4>1, <4>2
    <3>4. CASE ~ \E i \in DOMAIN xs : xs[i].at = c
      <4>1. drawn[c] = grid[c]
        BY <1>7, <3>4, OpsAre, ComposedAt
      <4> QED
        BY <3>1, <4>1
    <3> QED
      BY <3>3, <3>4
  <2>4. Composed(mid, ys) = Composed(grid, ys)
    BY <2>3, OpsAre, ComposedAgree
  <2> QED
    BY <1>3, <2>1, <2>2, <2>4
<1> QED
  BY <1>6, <1>7

-----------------------------------------------------------------------------
(* The render loop keeps the screen to what was sent and is predicted.                *)

HeldInk(s, G) == \A k \in DOMAIN s.frames : \A i \in DOMAIN s.frames[k] : FrameInk(s.frames[k][i], G)

CursorsKnown(s) == \A slot \in Slots \cap DOMAIN s.layout.panes : CursorKnown(s, slot)

RenderFine(s, G, S) == ScanFine(s, G, S) /\ FramesHeld(s) /\ HeldInk(s, G) /\ CursorsKnown(s)

Rendered(G, S, s, t) == RenderFine(t, G, S) /\ StillComposes(S, s, t)

LEMMA RenderedItself ==
  ASSUME NEW G, NEW S, NEW s, RenderFine(s, G, S)
  PROVE  Rendered(G, S, s, s)
BY DEF Rendered, StillComposes

LEMMA RenderedTransitive ==
  ASSUME NEW G, NEW S, NEW s, NEW t, NEW u, StillComposes(S, s, t), Rendered(G, S, t, u)
  PROVE  Rendered(G, S, s, u)
BY DEF Rendered, StillComposes

LEMMA OneIsSome ==
  ASSUME NEW o
  PROVE  <<o>> # <<>>
<1>1. Len(<<o>>) = 1 /\ Len(<<>>) = 0
  OBVIOUS
<1> QED
  BY <1>1

LEMMA NoTargetFine ==
  ASSUME NEW p, NEW G, NEW S, p = clear(p)
  PROVE  PredictorFine(p) /\ TargetFine(p) /\ Earned(p, G, S) /\ \A slot : SeenIn(p, slot) = <<>>
<1>1. PredictorFine(p) /\ p.scopes = <<>>
  BY ClearFine
<1>2. p.target = None
  BY DEF clear, NoPrediction
<1>3. Earned(p, G, S)
  <2> SUFFICES ASSUME NEW o, ScopeFine(p, o) PROVE FALSE
    BY Zenon DEF Earned
  <2>1. p.scopes = <<o>>
    BY Zenon DEF ScopeFine
  <2> QED
    BY <1>1, <2>1, OneIsSome, Zenon
<1> QED
  BY <1>1, <1>2, <1>3 DEF TargetFine, SeenIn

LEMMA ClearIsClear ==
  ASSUME NEW p
  PROVE  clear(p) = clear(clear(p))
BY DEF clear

\* Predictions are given up, and repaired.
LEMMA ResetFine ==
  ASSUME NEW G, NEW S, Palettes(G, S), NEW s, IsScanout(s), RenderFine(s, G, S)
  PROVE  Rendered(G, S, s, resetPrediction(s))
<1> PICK t, p, q, slot : t = resetPrediction(s) /\ p = s.predictor /\ q = clear(p) /\ slot = p.target.slot
  OBVIOUS
<1>1. PredictorFine(q) /\ TargetFine(q) /\ Earned(q, G, S) /\ \A u : SeenIn(q, u) = <<>>
  BY NoTargetFine, ClearIsClear
<1>2. /\ PredictorFine(p) /\ TargetFine(p) /\ HasTables(s) /\ HasScreens(s) /\ Inked(s, G, S)
      /\ Palette(S) /\ G \subseteq S
  BY DEF RenderFine, ScanFine, Palettes
<1>3. CASE p.target = None
  <2>1. t = [s EXCEPT !.predictor = q]
    <3>1. t = [s EXCEPT !.predictor = clear(@)]
      BY <1>3 DEF resetPrediction
    <3> QED
      BY <3>1
  <2>2. /\ t.predictor = q /\ t.screen = s.screen /\ t.cache = s.cache /\ t.cursors = s.cursors
        /\ t.frames = s.frames /\ t.layout = s.layout
    BY <2>1 DEF IsScanout
  <2>3. RenderFine(t, G, S)
    BY <1>1, <2>2 DEF RenderFine, ScanFine, FramesHeld, HeldInk, CursorsKnown, CursorKnown, HasTables, HasScreens, Inked
  <2>4. \A u \in Slots : SeenIn(p, u) = <<>>
    BY <1>3 DEF SeenIn
  <2>5. StillComposes(S, s, t)
    BY <1>1, <2>2, <2>4 DEF StillComposes, Composes
  <2> QED
    BY <2>3, <2>5 DEF Rendered
<1>4. CASE p.target # None
  <2> PICK drawn, painted : /\ drawn = s.screen[slot]
                             /\ painted = Paint(drawn, repairSpans(visibleOperations(p), s.cache[slot]))
    OBVIOUS
  <2>1. t = [s EXCEPT !.predictor = q, !.screen[slot] = painted]
    BY <1>4, Zenon DEF resetPrediction
  <2>2. /\ t.predictor = q /\ t.screen = [s.screen EXCEPT ![slot] = painted] /\ t.cache = s.cache
        /\ t.cursors = s.cursors /\ t.frames = s.frames /\ t.layout = s.layout
    BY <2>1 DEF IsScanout
  <2>3. slot \in Slots
    BY <1>2, <1>4 DEF TargetFine
  <2>4. t.screen[slot] = painted /\ HasScreens(t) /\ \A u \in Slots : u # slot => t.screen[u] = s.screen[u]
    BY <1>2, <2>2, <2>3 DEF HasScreens
  <2>5. s.cache[slot] \in [Cells -> G] /\ s.cache[slot] \in [Cells -> S] /\ drawn \in [Cells -> S]
    <3>1. s.cache[slot] \in [Cells -> G] /\ drawn \in [Cells -> S]
      BY <1>2, <2>3 DEF Inked
    <3> QED
      BY <1>2, <3>1, InkWithin
  <2>6. visibleOperations(p) \in Seq(OpSet)
    BY <1>2, VisibleAre
  <2>7. /\ painted \in [Cells -> S]
        /\ Narrow(S) /\ drawn = Composed(s.cache[slot], visibleOperations(p)) => painted = s.cache[slot]
    BY <1>2, <2>5, <2>6, RepairedBack
  <2>8. Inked(t, G, S)
    BY <1>2, <2>2, <2>3, <2>4, <2>7 DEF Inked
  <2>9. RenderFine(t, G, S)
    BY <1>1, <2>2, <2>4, <2>8 DEF RenderFine, ScanFine, FramesHeld, HeldInk, CursorsKnown, CursorKnown, HasTables
  <2>10. StillComposes(S, s, t)
    <3> SUFFICES ASSUME Narrow(S), Composes(s), NEW u \in Slots
                 PROVE  t.screen[u] = Composed(t.cache[u], SeenIn(t.predictor, u))
      BY DEF StillComposes, Composes
    <3>1. s.cache[u] \in [Cells -> G] /\ s.screen[u] = Composed(s.cache[u], SeenIn(p, u))
      BY <1>2 DEF Inked, Composes
    <3>2. Composed(s.cache[u], <<>>) = s.cache[u]
      BY <3>1, ComposedNothing
    <3>3. CASE u = slot
      <4>1. SeenIn(p, u) = visibleOperations(p)
        BY <1>4, <3>3 DEF SeenIn
      <4>2. painted = s.cache[u]
        BY <2>7, <3>1, <3>3, <4>1
      <4> QED
        BY <1>1, <2>2, <2>4, <3>2, <3>3, <4>2
    <3>4. CASE u # slot
      <4>1. SeenIn(p, u) = <<>>
        BY <3>4 DEF SeenIn
      <4> QED
        BY <1>1, <2>2, <2>4, <3>1, <3>4, <4>1
    <3> QED
      BY <3>3, <3>4
  <2> QED
    BY <2>9, <2>10 DEF Rendered
<1> QED
  BY <1>3, <1>4

LEMMA WaitingFine ==
  ASSUME NEW G, NEW s, HeldBack(s), FramesHeld(s), HeldInk(s, G), NEW revision, NEW slot
  PROVE  FramesFine(Waiting(s, revision, slot), revision, G)
<1> PICK frames : frames = Waiting(s, revision, slot)
  OBVIOUS
<1>1. FramesFit(frames, revision)
  BY WaitingFits
<1>2. \A i \in DOMAIN frames : FrameInk(frames[i], G)
  <2>1. CASE <<revision, slot>> \in DOMAIN s.frames
    BY <2>1 DEF Waiting, HeldInk
  <2>2. CASE <<revision, slot>> \notin DOMAIN s.frames
    BY <2>2 DEF Waiting
  <2> QED
    BY <2>1, <2>2
<1>3. FramesFine(frames, revision, G)
  BY <1>1, <1>2 DEF FramesFine, FramesFit, FrameFits
<1> QED
  BY <1>3

LEMMA EmptyInk ==
  ASSUME NEW G, Palette(G)
  PROVE  EmptyGrid \in [Cells -> G]
BY DEF EmptyGrid, Palette

\* The state once the screen has been cleared.
IsCleared(s, l, u) ==
    /\ IsScanout(u) /\ u.layout = l /\ u.predictor = clear(s.predictor)
    /\ u.frames = [k \in {j \in DOMAIN s.frames : j[1] > l.revision} |-> s.frames[k]]
    /\ u.cache = [slot \in Slots |-> EmptyGrid] /\ u.cursors = [slot \in Slots |-> None]
    /\ u.screen = [slot \in Slots |-> EmptyGrid]

LEMMA ClearedIs ==
  ASSUME NEW s, IsScanout(s), NEW l
  PROVE  IsCleared(s, l, Cleared(s, l))
<1> PICK u, p, c, v, fs, ls : /\ u = Cleared(s, l) /\ p = clear(s.predictor)
                          /\ c = [slot \in Slots |-> EmptyGrid] /\ v = [slot \in Slots |-> None]
                          /\ fs = [k \in {j \in DOMAIN s.frames : j[1] > l.revision} |-> s.frames[k]]
                          /\ ls = {k \in s.layouts : k.revision > l.revision}
  OBVIOUS
<1>1. u = [s EXCEPT !.layout = l, !.predictor = p, !.cache = c, !.cursors = v, !.screen = c,
                    !.layouts = ls, !.frames = fs]
  BY DEF Cleared, IsScanout
<1>2. /\ u.layout = l /\ u.predictor = p /\ u.cache = c /\ u.cursors = v /\ u.screen = c /\ u.frames = fs
      /\ IsScanout(u)
  BY <1>1 DEF IsScanout
<1> QED
  BY <1>2 DEF IsCleared

LEMMA TryActivateFine ==
  ASSUME NEW G, NEW S, Palettes(G, S), NEW s, ScanoutOK(s), RenderFine(s, G, S), NEW revision, NEW nativeScroll
  PROVE  Rendered(G, S, s, tryActivate(s, revision, nativeScroll))
<1> DEFINE layouts == {l \in s.layouts : l.revision = revision}
           l == CHOOSE l \in layouts : TRUE
           u == Cleared(s, l)
           t == replay(s, u, nativeScroll)
<1>1. CASE layouts = {} \/ ~IsReady(s, l)
  <2>1. tryActivate(s, revision, nativeScroll) = s
    BY <1>1, Zenon DEF tryActivate
  <2> QED
    BY <2>1, RenderedItself
<1>2. CASE layouts # {} /\ IsReady(s, l)
  <2>1. tryActivate(s, revision, nativeScroll) = t
    BY <1>2, Zenon DEF tryActivate
  <2>2. IsReady(s, l)
    BY <1>2
  <2> HIDE DEF layouts, l
  <2>3. IsCleared(s, l, u)
    BY ClearedIs DEF ScanoutOK
  <2> HIDE DEF u
  <2> PICK p, fs : /\ p = clear(s.predictor)
                   /\ fs = [k \in {j \in DOMAIN s.frames : j[1] > l.revision} |-> s.frames[k]]
    OBVIOUS
  <2>4. /\ IsScanout(u) /\ u.layout = l /\ u.predictor = p /\ u.frames = fs
        /\ u.cache = [slot \in Slots |-> EmptyGrid] /\ u.cursors = [slot \in Slots |-> None]
        /\ u.screen = [slot \in Slots |-> EmptyGrid]
    BY <2>3 DEF IsCleared
  <2>5. PredictorFine(p) /\ TargetFine(p) /\ Earned(p, G, S) /\ \A slot : SeenIn(p, slot) = <<>>
    BY NoTargetFine, ClearIsClear
  <2>6. p.target = None
    BY ClearSameTarget
  <2>7. EmptyGrid \in [Cells -> G] /\ EmptyGrid \in [Cells -> S]
    BY EmptyInk DEF Palettes
  <2>8. ScanFine(u, G, S) /\ Composes(u) /\ Focused(u)
    <3>1. HasTables(u) /\ HasScreens(u) /\ Inked(u, G, S)
      BY <2>4, <2>7, EmptyIsGrid DEF HasTables, HasScreens, Inked
    <3>2. \A slot \in Slots : Composed(u.cache[slot], <<>>) = u.cache[slot] /\ u.cache[slot] = u.screen[slot]
      BY <2>4, <2>7, ComposedNothing
    <3> QED
      BY <2>4, <2>5, <2>6, <3>1, <3>2 DEF ScanFine, Composes, Focused
  <2>9. \A n : FramesFine(Waiting(s, l.revision, n), l.revision, G) /\ Len(Waiting(s, l.revision, n)) \in Nat
    BY WaitingFine, WaitingLen DEF ScanoutOK, RenderFine
  <2>10. Keeps(u, t)
    BY <2>4, <2>5, <2>9, ReplayKeeps DEF PredictorFine
  <2>11. ReplayFine(G, S, s, u, t)
    BY <2>4, <2>8, <2>9, ReplayIsFine
  <2> HIDE DEF t
  <2>12. t.layout = l /\ t.frames = fs
    BY <2>4, <2>10 DEF Keeps
  <2>13. FramesHeld(t) /\ HeldInk(t, G)
    BY <2>12 DEF FramesHeld, HeldInk, RenderFine
  <2>14. CursorsKnown(t)
    BY <2>2, <2>4, <2>11, <2>12 DEF ReplayFine, CursorsKnown, IsReady
  <2>15. RenderFine(t, G, S) /\ StillComposes(S, s, t)
    BY <2>8, <2>11, <2>13, <2>14 DEF ReplayFine, RenderFine, StillComposes
  <2> QED
    BY <2>1, <2>15 DEF Rendered
<1> QED
  BY <1>1, <1>2

-----------------------------------------------------------------------------
(* Layouts and frames, as the render loop takes them. *)

\* Nothing changes that is shown.
SameShown(s, t) ==
    /\ t.cache = s.cache /\ t.cursors = s.cursors /\ t.screen = s.screen /\ t.predictor = s.predictor

StillKnown(s, t) == \A slot : CursorKnown(s, slot) => CursorKnown(t, slot)

LEMMA SameShownFine ==
  ASSUME NEW G, NEW S, NEW s, NEW t, SameShown(s, t), ScanFine(s, G, S)
  PROVE  ScanFine(t, G, S) /\ StillComposes(S, s, t) /\ StillKnown(s, t)
<1>1. /\ HasTables(t) <=> HasTables(s)
      /\ HasScreens(t) <=> HasScreens(s)
      /\ Inked(t, G, S) <=> Inked(s, G, S)
      /\ StillKnown(s, t)
  BY DEF SameShown, HasTables, HasScreens, Inked, CursorKnown, StillKnown
<1>2. Composes(t) <=> Composes(s)
  BY DEF SameShown, Composes
<1>3. t.predictor = s.predictor
  BY DEF SameShown
<1> QED
  BY <1>1, <1>2, <1>3 DEF ScanFine, StillComposes

LEMMA SameRendered ==
  ASSUME NEW G, NEW S, NEW s, RenderFine(s, G, S), NEW t, SameShown(s, t), t.layout = s.layout, t.frames = s.frames
  PROVE  Rendered(G, S, s, t)
<1>1. ScanFine(t, G, S) /\ StillComposes(S, s, t) /\ StillKnown(s, t)
  BY SameShownFine DEF RenderFine
<1>2. FramesHeld(t) /\ HeldInk(t, G)
  BY DEF FramesHeld, HeldInk, RenderFine
<1>3. CursorsKnown(t)
  BY <1>1 DEF CursorsKnown, RenderFine, StillKnown
<1> QED
  BY <1>1, <1>2, <1>3 DEF RenderFine, Rendered

\* A layout is held back.
Noticed(s, l) == [s EXCEPT !.layouts = {k \in @ : k.revision # l.revision} \cup {l}]

IsNoticed(s, l, u) ==
    /\ u.layout = s.layout /\ u.frames = s.frames /\ SameShown(s, u) /\ IsScanout(u)
    /\ u.layouts = {k \in s.layouts : k.revision # l.revision} \cup {l}

LEMMA NoticedIs ==
  ASSUME NEW s, IsScanout(s), NEW l
  PROVE  IsNoticed(s, l, Noticed(s, l))
<1> PICK u : u = [s EXCEPT !.layouts = {k \in @ : k.revision # l.revision} \cup {l}]
  OBVIOUS
<1>1. IsNoticed(s, l, u)
  BY DEF IsScanout, SameShown, IsNoticed
<1> QED
  BY <1>1 DEF Noticed

LEMMA RelayoutFine ==
  ASSUME NEW G, NEW S, NEW s, IsScanout(s), RenderFine(s, G, S), NEW l, l.panes = s.layout.panes,
         NEW t, t = [s EXCEPT !.layout = l]
  PROVE  Rendered(G, S, s, t)
<1>1. SameShown(s, t) /\ t.frames = s.frames /\ t.layout = l
  BY DEF IsScanout, SameShown
<1>2. ScanFine(t, G, S) /\ StillComposes(S, s, t) /\ StillKnown(s, t)
  BY <1>1, SameShownFine DEF RenderFine
<1>3. FramesHeld(t) /\ HeldInk(t, G)
  BY <1>1 DEF FramesHeld, HeldInk, RenderFine
<1>4. CursorsKnown(t)
  BY <1>1, <1>2 DEF CursorsKnown, RenderFine, StillKnown
<1> QED
  BY <1>2, <1>3, <1>4 DEF RenderFine, Rendered

LEMMA AcceptLayoutFine ==
  ASSUME NEW G, NEW S, Palettes(G, S), NEW s, ScanoutOK(s), RenderFine(s, G, S), NEW l, NEW nativeScroll,
         Agreeing(LayoutsOf(s) \cup {l}), \A k \in LayoutsOf(s) \cup {l} : IsLayout(k) /\ k.revision \in Nat
  PROVE  Rendered(G, S, s, acceptLayout(s, l, nativeScroll))
<1>1. CASE l.revision < s.layout.revision
  <2>1. acceptLayout(s, l, nativeScroll) = s
    BY <1>1 DEF acceptLayout
  <2> QED
    BY <2>1, RenderedItself
<1>2. CASE l.revision = s.layout.revision
  <2>1. s.layout.revision \in Nat /\ l.panes = s.layout.panes
    BY <1>2 DEF Agreeing, LayoutsOf
  <2> PICK u : u = IF l.focus # s.layout.focus THEN resetPrediction(s) ELSE s
    OBVIOUS
  <2>2. acceptLayout(s, l, nativeScroll) = [u EXCEPT !.layout = l]
    BY <1>2, <2>1 DEF acceptLayout
  <2>3. IsScanout(u) /\ u.layout = s.layout
    BY ResetRenders DEF ScanoutOK
  <2>4. Rendered(G, S, s, u)
    BY ResetFine, RenderedItself DEF ScanoutOK
  <2>5. Rendered(G, S, u, [u EXCEPT !.layout = l])
    BY <2>1, <2>3, <2>4, RelayoutFine DEF Rendered
  <2> QED
    BY <2>2, <2>4, <2>5, RenderedTransitive DEF Rendered
<1>3. CASE l.revision > s.layout.revision
  <2> PICK u : u = Noticed(s, l)
    OBVIOUS
  <2>1. acceptLayout(s, l, nativeScroll) = tryActivate(u, l.revision, nativeScroll)
    <3>1. l.revision \in Nat /\ s.layout.revision \in Nat
      BY DEF LayoutsOf
    <3>2. ~(l.revision < s.layout.revision) /\ l.revision # s.layout.revision
      BY <1>3, <3>1
    <3> QED
      BY <3>2, Zenon DEF acceptLayout, Noticed
  <2>2. IsNoticed(s, l, u)
    BY NoticedIs DEF ScanoutOK
  <2>3. ScanoutOK(u)
    BY <1>3, <2>2 DEF ScanoutOK, Focused, HeldBack, SameShown, IsNoticed
  <2>4. Rendered(G, S, s, u)
    BY <2>2, SameRendered DEF IsNoticed
  <2>5. Rendered(G, S, u, tryActivate(u, l.revision, nativeScroll))
    BY <2>3, <2>4, TryActivateFine DEF Rendered
  <2> QED
    BY <2>1, <2>4, <2>5, RenderedTransitive DEF Rendered
<1> QED
  <2>1. l.revision \in Nat /\ s.layout.revision \in Nat
    BY DEF LayoutsOf
  <2> QED
    BY <1>1, <1>2, <1>3, <2>1

LEMMA WaitFine ==
  ASSUME NEW G, NEW S, NEW s, ScanoutOK(s), RenderFine(s, G, S), NEW slot, NEW frame,
         FrameFits(frame, frame.revision, G)
  PROVE  Rendered(G, S, s, Wait(s, slot, frame))
<1> PICK r, u, fs, w : /\ r = frame.revision /\ u = Wait(s, slot, frame) /\ fs = HeldAfter(s, slot, frame)
                       /\ w = Append(Waiting(s, r, slot), frame)
  OBVIOUS
<1>1. u = [s EXCEPT !.frames = fs]
  BY WaitIs DEF ScanoutOK
<1>2. u.layout = s.layout /\ SameShown(s, u) /\ u.frames = fs
  BY <1>1 DEF ScanoutOK, IsScanout, SameShown
<1>3. ScanFine(u, G, S) /\ StillComposes(S, s, u) /\ StillKnown(s, u)
  BY <1>2, SameShownFine DEF RenderFine
<1>4. \A i \in DOMAIN w : FrameFits(w[i], r, G)
  <2>1. FramesFine(Waiting(s, r, slot), r, G)
    BY WaitingFine DEF ScanoutOK, RenderFine
  <2> QED
    BY <2>1, AppendIsSequence DEF FramesFine
<1>5. /\ DOMAIN fs = DOMAIN s.frames \cup {<<r, slot>>}
      /\ \A k \in DOMAIN fs : fs[k] = IF k = <<r, slot>> THEN w ELSE s.frames[k]
  BY DEF HeldAfter
<1>6. ASSUME NEW k \in DOMAIN fs, NEW i \in DOMAIN fs[k]
      PROVE  fs[k][i].revision = k[1] /\ CellsFit(fs[k][i].cells) /\ FrameInk(fs[k][i], G)
  <2>1. CASE k = <<r, slot>>
    <3>1. fs[k] = w /\ k[1] = r
      BY <1>5, <2>1
    <3> QED
      BY <1>4, <3>1 DEF FrameFits
  <2>2. CASE k # <<r, slot>>
    <3>1. k \in DOMAIN s.frames /\ fs[k] = s.frames[k]
      BY <1>5, <2>2
    <3> QED
      BY <3>1 DEF RenderFine, FramesHeld, HeldInk
  <2> QED
    BY <2>1, <2>2
<1>7. FramesHeld(u) /\ HeldInk(u, G)
  BY <1>2, <1>6 DEF FramesHeld, HeldInk
<1>8. CursorsKnown(u)
  BY <1>2, <1>3 DEF CursorsKnown, RenderFine, StillKnown
<1> QED
  BY <1>3, <1>7, <1>8 DEF RenderFine, Rendered

LEMMA AcceptFrameFine ==
  ASSUME NEW G, NEW S, Palettes(G, S), NEW s, ScanoutOK(s), RenderFine(s, G, S), NEW slot \in Slots, NEW frame,
         frame.revision \in Nat, FrameFits(frame, frame.revision, G), NEW nativeScroll
  PROVE  Rendered(G, S, s, acceptFrame(s, slot, frame, nativeScroll))
<1> PICK r, t : r = frame.revision /\ t = acceptFrame(s, slot, frame, nativeScroll)
  OBVIOUS
<1>1. CASE r < s.layout.revision
  <2>1. t = s
    BY <1>1 DEF acceptFrame
  <2> QED
    BY <2>1, RenderedItself
<1>2. CASE r = s.layout.revision
  <2>1. t = emitFrame(s, slot, frame, nativeScroll)
    BY <1>2 DEF acceptFrame, ScanoutOK
  <2>2. StillFine(G, S, s, t, slot) /\ CursorKnown(t, slot)
    BY <1>2, <2>1, EmitFrameFine DEF ScanoutOK, RenderFine
  <2>3. t.layout = s.layout /\ t.frames = s.frames
    BY <2>1, EmitFrameKeeps DEF ScanoutOK, Keeps
  <2>4. FramesHeld(t) /\ HeldInk(t, G)
    BY <2>3 DEF FramesHeld, HeldInk, RenderFine
  <2>5. CursorsKnown(t)
    BY <2>2, <2>3 DEF CursorsKnown, CursorKnown, StillFine, RenderFine
  <2> QED
    BY <2>2, <2>4, <2>5 DEF StillFine, RenderFine, Rendered
<1>3. CASE r > s.layout.revision
  <2>1. PICK u : u = Wait(s, slot, frame)
    OBVIOUS
  <2>2. t = tryActivate(u, r, nativeScroll)
    <3>1. ~(r < s.layout.revision) /\ r # s.layout.revision
      BY <1>3 DEF ScanoutOK
    <3> QED
      BY <2>1, <3>1, Zenon DEF acceptFrame
  <2>3. ScanoutOK(u)
    BY <1>3, <2>1, WaitRenders
  <2>4. Rendered(G, S, s, u)
    BY <2>1, WaitFine
  <2>5. Rendered(G, S, u, t)
    BY <2>2, <2>3, <2>4, TryActivateFine DEF Rendered
  <2> QED
    BY <2>4, <2>5, RenderedTransitive DEF Rendered
<1> QED
  BY <1>1, <1>2, <1>3 DEF ScanoutOK

-----------------------------------------------------------------------------
(* What is typed: predicted in the scope that is open, or in one of its own, until the *)
(* line ends.                                                                           *)

\* The scope r is o with some more of the characters K.
Lengthens(o, r, K) ==
    /\ r.trusted = o.trusted /\ (o.closed => r.closed)
    /\ \A i \in DOMAIN r.pending :
          \/ r.pending[i].what \in K \cup {Blank} /\ ~o.closed
          \/ \E j \in DOMAIN o.pending : r.pending[i].what = o.pending[j].what

Grows(p, q, K) ==
    \/ q.scopes = <<>>
    \/ \E r : ScopeFine(q, r) /\ ~r.trusted /\ ~r.closed /\ Of(r.pending, K)
    \/ \E o, r : ScopeFine(p, o) /\ ScopeFine(q, r) /\ Lengthens(o, r, K)

\* The line has ended: nothing is open, and nothing is predicted.
Ended(q) == q.awaiting /\ \A r : ScopeFine(q, r) => r.closed

LEMMA ScopeIsOne ==
  ASSUME NEW p, NEW o, NEW r, ScopeFine(p, o), ScopeFine(p, r)
  PROVE  o = r
<1>1. <<o>> = <<r>>
  BY DEF ScopeFine
<1>2. <<o>>[1] = o /\ <<r>>[1] = r
  OBVIOUS
<1> QED
  BY <1>1, <1>2

LEMMA GrowsItself ==
  ASSUME NEW p, NEW K, PredictorFine(p)
  PROVE  Grows(p, p, K)
<1> SUFFICES ASSUME NEW o, ScopeFine(p, o) PROVE Lengthens(o, o, K)
  BY DEF Grows, PredictorFine
<1> QED
  BY DEF Lengthens

LEMMA LengthensFurther ==
  ASSUME NEW o, NEW r, NEW x, NEW K, NEW L, NEW M, K \subseteq M, L \subseteq M, Lengthens(o, r, K), Lengthens(r, x, L)
  PROVE  Lengthens(o, x, M)
BY DEF Lengthens

LEMMA GrowsFurther ==
  ASSUME NEW p, NEW q, NEW u, NEW K, NEW L, NEW M, K \subseteq M, L \subseteq M, Grows(p, q, K), Grows(q, u, L)
  PROVE  Grows(p, u, M)
<1>1. CASE u.scopes = <<>>
  BY <1>1 DEF Grows
<1>2. CASE \E x : ScopeFine(u, x) /\ ~x.trusted /\ ~x.closed /\ Of(x.pending, L)
  <2>1. PICK x : ScopeFine(u, x) /\ ~x.trusted /\ ~x.closed /\ Of(x.pending, L)
    BY <1>2
  <2>2. Of(x.pending, M)
    BY <2>1 DEF Of
  <2> QED
    BY <2>1, <2>2 DEF Grows
<1>3. CASE \E r, x : ScopeFine(q, r) /\ ScopeFine(u, x) /\ Lengthens(r, x, L)
  <2>1. PICK r, x : ScopeFine(q, r) /\ ScopeFine(u, x) /\ Lengthens(r, x, L)
    BY <1>3
  <2>2. q.scopes # <<>>
    BY <2>1, OneIsSome DEF ScopeFine
  <2>3. CASE \E o : ScopeFine(p, o) /\ Lengthens(o, r, K)
    BY <2>1, <2>3, LengthensFurther DEF Grows
  <2>4. CASE ~r.trusted /\ ~r.closed /\ Of(r.pending, K)
    <3>1. ~x.trusted /\ Of(x.pending, M)
      BY <2>1, <2>4 DEF Lengthens, Of
    <3>2. ~x.closed
      BY <2>1, <3>1 DEF ScopeFine
    <3> QED
      BY <2>1, <3>1, <3>2 DEF Grows
  <2>5. \/ \E o : ScopeFine(p, o) /\ Lengthens(o, r, K)
        \/ ~r.trusted /\ ~r.closed /\ Of(r.pending, K)
    BY <2>1, <2>2, ScopeIsOne DEF Grows
  <2> QED
    BY <2>3, <2>4, <2>5
<1> QED
  BY <1>1, <1>2, <1>3 DEF Grows

\* A scope in which more is pending.
More(o, op) == [o EXCEPT !.pending = Append(@, op)]

LEMMA MoreIs ==
  ASSUME NEW o, IsScope(o), ~o.closed, NEW op \in OpSet, NEW K, op.what \in K \cup {Blank}
  PROVE  IsScope(More(o, op)) /\ ~More(o, op).closed /\ Lengthens(o, More(o, op), K)
<1> PICK r, ops, xs : r = More(o, op) /\ ops = o.pending /\ xs = Append(ops, op)
  OBVIOUS
<1>1. r.pending = xs /\ r.trusted = o.trusted /\ r.closed = o.closed /\ IsScopeRecord(r)
  BY DEF More, IsScope, IsScopeRecord
<1>2. ops \in Seq(OpSet)
  BY DEF IsScope
<1>3. xs \in Seq(OpSet) /\ \A i \in DOMAIN xs : xs[i] = op \/ (i \in DOMAIN ops /\ xs[i] = ops[i])
  BY <1>2
<1>4. IsScope(r)
  BY <1>1, <1>3 DEF IsScope
<1>5. Lengthens(o, r, K)
  BY <1>1, <1>3 DEF Lengthens
<1> QED
  BY <1>1, <1>4, <1>5

NewScope == [trusted |-> FALSE, closed |-> FALSE, pending |-> <<>>]

LEMMA NewScopeIs == IsScope(NewScope) /\ ~NewScope.trusted /\ ~NewScope.closed /\ NewScope.pending = <<>>
BY DEF NewScope, IsScope, IsScopeRecord

LEMMA OneMore ==
  ASSUME NEW o, NEW op, NEW xs, xs = <<o>>
  PROVE  [xs EXCEPT ![Len(xs)].pending = Append(@, op)] = <<More(o, op)>>
<1>1. Len(xs) = 1 /\ xs[1] = o /\ DOMAIN xs = {1}
  OBVIOUS
<1> PICK r : r = More(o, op)
  OBVIOUS
<1>2. [xs EXCEPT ![Len(xs)].pending = Append(@, op)] = [xs EXCEPT ![1] = r]
  BY <1>1 DEF More
<1>3. [xs EXCEPT ![1] = r] = <<r>>
  OBVIOUS
<1> QED
  BY <1>2, <1>3

\* The scopes in which the next operation is pending.
Opened(p) == IF CurrentScopeIsOpen(p) THEN p.scopes ELSE Append(p.scopes, NewScope)

LEMMA OpenedIs ==
  ASSUME NEW p, PredictorFine(p), ~p.awaiting
  PROVE  \E o : Opened(p) = <<o>> /\ IsScope(o) /\ ~o.closed /\ (ScopeFine(p, o) \/ o = NewScope)
<1>1. CASE p.scopes = <<>>
  <2>1. ~CurrentScopeIsOpen(p)
    BY <1>1 DEF CurrentScopeIsOpen
  <2>2. Append(<<>>, NewScope) = <<NewScope>>
    OBVIOUS
  <2> QED
    BY <1>1, <2>1, <2>2, NewScopeIs DEF Opened
<1>2. CASE p.scopes # <<>>
  <2>1. PICK o : ScopeFine(p, o)
    BY <1>2 DEF PredictorFine
  <2>2. p.scopes = <<o>> /\ IsScope(o) /\ ~o.closed
    BY <2>1 DEF ScopeFine
  <2>3. Last(p.scopes) = o
    BY <2>2 DEF Last
  <2>4. CurrentScopeIsOpen(p)
    BY <1>2, <2>2, <2>3 DEF CurrentScopeIsOpen
  <2> QED
    BY <2>1, <2>2, <2>4 DEF Opened
<1> QED
  BY <1>1, <1>2

LEMMA PredictFine ==
  ASSUME NEW p, PredictorFine(p), ~p.awaiting, p.target # None, NEW op \in OpSet, NEW K, op.what \in K \cup {Blank}
  PROVE  /\ PredictorFine(Predict(p, op)) /\ Grows(p, Predict(p, op), K)
         /\ Predict(p, op).target = p.target
<1>1. PICK o : Opened(p) = <<o>> /\ IsScope(o) /\ ~o.closed /\ (ScopeFine(p, o) \/ o = NewScope)
  BY OpenedIs
<1> PICK q, r, opened : q = Predict(p, op) /\ r = More(o, op) /\ opened = Opened(p)
  OBVIOUS
<1>2. q = [p EXCEPT !.scopes = [opened EXCEPT ![Len(opened)].pending = Append(@, op)], !.cursor = op.after]
  BY Zenon DEF Predict, Opened, NewScope
<1>3. [opened EXCEPT ![Len(opened)].pending = Append(@, op)] = <<r>>
  BY <1>1, OneMore
<1>4. q = [p EXCEPT !.scopes = <<r>>, !.cursor = op.after]
  BY <1>2, <1>3, Zenon
<1>5. q.scopes = <<r>> /\ q.cursor = op.after /\ q.target = p.target /\ IsPredictor(q)
  BY <1>4 DEF PredictorFine, IsPredictor
<1>6. IsScope(r) /\ ~r.closed /\ Lengthens(o, r, K)
  BY <1>1, MoreIs
<1>7. ScopeFine(q, r)
  BY <1>5, <1>6 DEF ScopeFine
<1>8. op.after \in Cells
  BY OpIs
<1>9. PredictorFine(q)
  BY <1>5, <1>7, <1>8 DEF PredictorFine
<1>10. Grows(p, q, K)
  <2>1. CASE ScopeFine(p, o)
    BY <1>6, <1>7, <2>1 DEF Grows
  <2>2. CASE o = NewScope
    <3>1. ~r.trusted /\ Of(r.pending, K)
      BY <1>6, <2>2, NewScopeIs DEF Lengthens, Of
    <3> QED
      BY <1>6, <1>7, <3>1 DEF Grows
  <2> QED
    BY <1>1, <2>1, <2>2
<1> QED
  BY <1>5, <1>9, <1>10

\* The scope is closed when its line ends.
Close(o) == [o EXCEPT !.closed = TRUE]

LEMMA OneClosed ==
  ASSUME NEW o, NEW xs, xs = <<o>>
  PROVE  /\ [xs EXCEPT ![Len(xs)].closed = TRUE] = <<Close(o)>>
         /\ Front(xs) = <<>> /\ Last(xs) = o
<1>1. Len(xs) = 1 /\ xs[1] = o /\ DOMAIN xs = {1}
  OBVIOUS
<1> PICK r : r = Close(o)
  OBVIOUS
<1>2. [xs EXCEPT ![Len(xs)].closed = TRUE] = [xs EXCEPT ![1] = r]
  BY <1>1 DEF Close
<1>3. [xs EXCEPT ![1] = r] = <<r>>
  OBVIOUS
<1>4. Front(xs) = <<>> /\ Last(xs) = o
  BY <1>1 DEF Front, Last
<1> QED
  BY <1>2, <1>3, <1>4

LEMMA CloseIs ==
  ASSUME NEW o, IsScope(o), NEW K
  PROVE  IsScope(Close(o)) /\ Close(o).closed /\ Lengthens(o, Close(o), K)
<1> PICK r : r = Close(o)
  OBVIOUS
<1>1. r.pending = o.pending /\ r.trusted = o.trusted /\ r.closed = TRUE /\ IsScopeRecord(r)
  BY DEF Close, IsScope, IsScopeRecord
<1> QED
  BY <1>1 DEF IsScope, Lengthens

\* The scopes that outlive the end of a line.
Outlive(p) ==
    IF ~CurrentScopeIsOpen(p) THEN p.scopes
    ELSE IF Last(p.scopes).trusted THEN [p.scopes EXCEPT ![Len(p.scopes)].closed = TRUE]
    ELSE Front(p.scopes)

LEMMA OutliveIs ==
  ASSUME NEW p, PredictorFine(p), NEW K
  PROVE  \/ Outlive(p) = <<>>
         \/ \E o, r : /\ ScopeFine(p, o) /\ Outlive(p) = <<r>> /\ IsScope(r) /\ r.closed /\ o.trusted
                      /\ Lengthens(o, r, K)
<1>1. CASE p.scopes = <<>>
  BY <1>1 DEF Outlive, CurrentScopeIsOpen
<1>2. CASE p.scopes # <<>>
  <2>1. PICK o : ScopeFine(p, o)
    BY <1>2 DEF PredictorFine
  <2>2. p.scopes = <<o>> /\ IsScope(o) /\ (o.closed => o.trusted)
    BY <2>1 DEF ScopeFine
  <2>3. /\ [p.scopes EXCEPT ![Len(p.scopes)].closed = TRUE] = <<Close(o)>>
        /\ Front(p.scopes) = <<>> /\ Last(p.scopes) = o
    BY <2>2, OneClosed
  <2>4. CASE o.closed
    <3>1. Outlive(p) = <<o>>
      BY <2>2, <2>3, <2>4 DEF Outlive, CurrentScopeIsOpen
    <3>2. Lengthens(o, o, K)
      BY DEF Lengthens
    <3> QED
      BY <2>1, <2>2, <2>4, <3>1, <3>2
  <2>5. CASE ~o.closed /\ o.trusted
    <3>1. Outlive(p) = <<Close(o)>>
      BY <1>2, <2>2, <2>3, <2>5 DEF Outlive, CurrentScopeIsOpen
    <3> QED
      BY <2>1, <2>2, <2>5, <3>1, CloseIs
  <2>6. CASE ~o.closed /\ ~o.trusted
    BY <1>2, <2>2, <2>3, <2>6 DEF Outlive, CurrentScopeIsOpen
  <2> QED
    BY <2>2, <2>4, <2>5, <2>6
<1> QED
  BY <1>1, <1>2

LEMMA BoundaryFine ==
  ASSUME NEW p, PredictorFine(p), NEW K
  PROVE  PredictorFine(boundary(p)) /\ Grows(p, boundary(p), K) /\ Ended(boundary(p))
<1> PICK q, scopes : q = boundary(p) /\ scopes = Outlive(p)
  OBVIOUS
<1>1. q = [p EXCEPT !.scopes = scopes, !.hasCursor = FALSE, !.awaiting = TRUE,
                    !.target = IF scopes = <<>> THEN None ELSE @]
  BY Zenon DEF boundary, Outlive
<1>2. /\ IsPredictor(q) /\ q.scopes = scopes /\ q.awaiting = TRUE /\ q.cursor = p.cursor
      /\ q.target = IF scopes = <<>> THEN None ELSE p.target
  BY <1>1 DEF PredictorFine, IsPredictor
<1>3. CASE scopes = <<>>
  <2>1. ASSUME NEW r, ScopeFine(q, r) PROVE FALSE
    BY <1>2, <1>3, <2>1, OneIsSome DEF ScopeFine
  <2> QED
    BY <1>2, <1>3, <2>1 DEF PredictorFine, Grows, Ended
<1>4. CASE \E o, r : /\ ScopeFine(p, o) /\ scopes = <<r>> /\ IsScope(r) /\ r.closed /\ o.trusted
                     /\ Lengthens(o, r, K)
  <2>1. PICK o, r : /\ ScopeFine(p, o) /\ scopes = <<r>> /\ IsScope(r) /\ r.closed /\ o.trusted
                    /\ Lengthens(o, r, K)
    BY <1>4
  <2>2. r.trusted
    BY <2>1 DEF Lengthens
  <2>3. ScopeFine(q, r)
    BY <1>2, <2>1, <2>2 DEF ScopeFine
  <2>4. Ended(q)
    BY <1>2, <2>1, <2>3, ScopeIsOne DEF Ended
  <2>5. Grows(p, q, K)
    BY <2>1, <2>3 DEF Grows
  <2>6. p.target # None
    BY <2>1, OneIsSome DEF ScopeFine, PredictorFine
  <2>7. scopes # <<>>
    BY <2>1, OneIsSome
  <2>8. PredictorFine(q)
    BY <1>2, <2>3, <2>6, <2>7 DEF PredictorFine
  <2> QED
    BY <2>4, <2>5, <2>8
<1> QED
  BY <1>3, <1>4, OutliveIs

\* What a byte makes of the predictor, if K are the characters it may be.
Advances(p, q, K) ==
    /\ PredictorFine(q) /\ Grows(p, q, K) /\ (q.target # None \/ q.awaiting)
    /\ Ended(p) => Ended(q) /\ Grows(p, q, {})

Ends == {Enter, NextPane}

LEMMA KeysDiffer ==
  /\ Enter \notin Characters /\ Backspace \notin Characters /\ NextPane \notin Characters
  /\ Enter # Backspace /\ NextPane # Backspace
BY SizesAssumption DEF Enter, Backspace, NextPane, Characters

LEMMA AdvancesItself ==
  ASSUME NEW p, PredictorFine(p), p.target # None \/ p.awaiting, NEW K
  PROVE  Advances(p, p, K)
BY GrowsItself DEF Advances

LEMMA BoundaryAdvances ==
  ASSUME NEW p, PredictorFine(p), NEW K
  PROVE  Advances(p, boundary(p), K) /\ Ended(boundary(p)) /\ Grows(p, boundary(p), {})
BY BoundaryFine DEF Advances, Ended

LEMMA PredictAdvances ==
  ASSUME NEW p, PredictorFine(p), ~p.awaiting, p.target # None, NEW op \in OpSet, NEW K, op.what \in K \cup {Blank}
  PROVE  Advances(p, Predict(p, op), K)
BY PredictFine DEF Advances, Ended

LEMMA TypedAdvances ==
  ASSUME NEW p, PredictorFine(p), p.target # None \/ p.awaiting, NEW context, NEW grid,
         NEW key \in Characters \cup {Enter, Backspace, NextPane},
         NEW q, q = Typed(p, key, context, grid)
  PROVE  /\ Advances(p, q, {key} \cap Characters)
         /\ key \in Ends => Ended(q) /\ Grows(p, q, {})
<1> PICK K : K = {key} \cap Characters
  OBVIOUS
<1>1. CASE q = boundary(p)
  BY <1>1, BoundaryAdvances
<1>2. p.cursor \in Cells
  BY DEF PredictorFine
<1>3. CASE key = Backspace /\ q # boundary(p)
  <2> PICK op : op = Op("backspace", Blank, p.cursor - 1, p.cursor - 1)
    OBVIOUS
  <2>1. PredictionIsReady(p, context) /\ CanDelete(p, grid) /\ q = Predict(p, op)
    BY <1>3 DEF Typed
  <2>2. ~p.awaiting /\ Column(p.cursor) > 0
    BY <2>1 DEF PredictionIsReady, CanDelete
  <2>3. p.cursor # 0
    BY <2>2, CellsAre DEF Column, LastRow
  <2>4. p.cursor - 1 \in Cells
    BY <1>2, <2>3, CellsAre
  <2>5. op \in OpSet /\ op.what = Blank
    BY <2>4 DEF Op, OpSet
  <2>6. Advances(p, q, K)
    BY <2>1, <2>2, <2>5, PredictAdvances
  <2>7. key \notin Ends
    BY <1>3, KeysDiffer DEF Ends
  <2> QED
    BY <2>6, <2>7
<1>4. CASE key \in Characters /\ q # boundary(p)
  <2> PICK op : op = Op("insert", key, p.cursor, p.cursor + 1)
    OBVIOUS
  <2>1. key # Backspace /\ key \notin {Enter, NextPane}
    BY <1>4, KeysDiffer
  <2>2. \/ q = p
        \/ PredictionIsReady(p, context) /\ CanInsert(p, grid) /\ q = Predict(p, op)
    BY <1>4, <2>1, Zenon DEF Typed
  <2>3. CASE q = p
    BY <2>1, <2>3, AdvancesItself DEF Ends
  <2>4. CASE PredictionIsReady(p, context) /\ CanInsert(p, grid) /\ q = Predict(p, op)
    <3>1. ~p.awaiting /\ Column(p.cursor) < Width - 1
      BY <2>4 DEF PredictionIsReady, CanInsert
    <3>2. p.cursor + 1 \in Cells
      BY <1>2, <3>1, CellsAre
    <3>3. op \in OpSet /\ op.what = key
      BY <1>2, <1>4, <3>2 DEF Op, OpSet
    <3>4. Advances(p, q, K)
      BY <1>4, <2>4, <3>1, <3>3, PredictAdvances
    <3> QED
      BY <2>1, <3>4 DEF Ends
  <2> QED
    BY <2>2, <2>3, <2>4
<1>5. CASE key \in Ends /\ q # boundary(p)
  <2>1. key # Backspace
    BY <1>5, KeysDiffer DEF Ends
  <2> QED
    BY <1>5, <2>1, Zenon DEF Typed, Ends
<1> QED
  BY <1>1, <1>3, <1>4, <1>5 DEF Ends

\* The characters of a read.
CharactersOf(keys) == Characters \cap {keys[i] : i \in DOMAIN keys}

StaysEnded(p, q, u) == Ended(q) /\ Grows(p, q, {}) => Ended(u) /\ Grows(p, u, {})

LEMMA AdvancesFurther ==
  ASSUME NEW p, NEW q, NEW u, NEW K, NEW L, Advances(p, q, K), Advances(q, u, L)
  PROVE  Advances(p, u, K \cup L) /\ StaysEnded(p, q, u)
<1>1. Grows(p, u, K \cup L)
  BY GrowsFurther DEF Advances
<1>2. ASSUME Grows(p, q, {}), Ended(q) PROVE Grows(p, u, {}) /\ Ended(u)
  <2>1. Grows(q, u, {}) /\ Ended(u)
    BY <1>2 DEF Advances
  <2> QED
    BY <1>2, <2>1, GrowsFurther
<1> QED
  BY <1>1, <1>2 DEF Advances, StaysEnded

LEMMA ReadsAre ==
  ASSUME NEW keys \in Reads
  PROVE  /\ Len(keys) \in {1, 2} /\ DOMAIN keys = 1 .. Len(keys)
         /\ \A i \in DOMAIN keys : keys[i] \in Characters \cup {Enter, Backspace, NextPane}
<1>1. CASE keys \in {<<k>> : k \in Characters \cup {Enter, Backspace, NextPane}}
  <2>1. PICK k \in Characters \cup {Enter, Backspace, NextPane} : keys = <<k>>
    BY <1>1
  <2> QED
    BY <2>1
<1>2. CASE keys \in {<<k, c>> : k \in {Enter, Backspace}, c \in Characters}
  <2>1. PICK k \in {Enter, Backspace}, c \in Characters : keys = <<k, c>>
    BY <1>2
  <2> QED
    BY <2>1
<1> QED
  BY <1>1, <1>2 DEF Reads

LEMMA ReadAdvances ==
  ASSUME NEW p, PredictorFine(p), p.target # None \/ p.awaiting, NEW context, NEW grid, NEW keys \in Reads,
         NEW q, q = TypedAll(p, keys, context, grid)
  PROVE  /\ Advances(p, q, CharactersOf(keys))
         /\ keys[1] \in Ends => Ended(q) /\ Grows(p, q, {})
<1>0. /\ Len(keys) \in {1, 2} /\ DOMAIN keys = 1 .. Len(keys)
      /\ \A i \in DOMAIN keys : keys[i] \in Characters \cup {Enter, Backspace, NextPane}
  BY ReadsAre
<1>1. PICK f : /\ \A n \in 0 .. Len(keys) : f[n] = TypedStep(p, keys, context, grid, f, n)
               /\ TypedAll(p, keys, context, grid) = f[Len(keys)]
  BY <1>0, TypedAllSteps
<1> PICK K, first : K = {keys[1]} \cap Characters /\ first = f[1]
  OBVIOUS
<1>2. f[0] = p
  BY <1>0, <1>1 DEF TypedStep
<1>3. first = Typed(p, keys[1], context, grid)
  BY <1>0, <1>1, <1>2 DEF TypedStep
<1>4. /\ Advances(p, first, K)
      /\ keys[1] \in Ends => Ended(first) /\ Grows(p, first, {})
  BY <1>0, <1>3, TypedAdvances
<1>6. CASE Len(keys) = 1
  <2>1. q = first
    BY <1>1, <1>6
  <2>2. K = CharactersOf(keys)
    BY <1>0, <1>6 DEF CharactersOf
  <2> QED
    BY <1>4, <2>1, <2>2
<1>7. CASE Len(keys) = 2
  <2> PICK L : L = {keys[2]} \cap Characters
    OBVIOUS
  <2>1. q = Typed(first, keys[2], context, grid)
    BY <1>1, <1>7 DEF TypedStep
  <2>2. Advances(first, q, L)
    BY <1>0, <1>4, <1>7, <2>1, TypedAdvances DEF Advances
  <2>3. K \cup L = CharactersOf(keys)
    BY <1>0, <1>7 DEF CharactersOf
  <2>4. Advances(p, first, K)
    BY <1>4
  <2>5. Advances(p, q, K \cup L) /\ StaysEnded(p, first, q)
    BY <2>2, <2>4, AdvancesFurther, Zenon
  <2> QED
    BY <1>4, <2>3, <2>5 DEF StaysEnded
<1> QED
  BY <1>0, <1>6, <1>7

-----------------------------------------------------------------------------
(* Local input, as the render loop takes it. *)

ShowsFocus(l) == l.panes \in Arrangements /\ \E slot \in DOMAIN l.panes : l.panes[slot] = l.focus

\* A prediction is for a slot of the layout.
PredictsShown(s) ==
    \/ ShowsFocus(s.layout) /\ (s.predictor.target # None => s.predictor.target.slot \in DOMAIN s.layout.panes)
    \/ s.layout = NoLayout /\ s.predictor.target = None

LEMMA ArrangedSlots ==
  ASSUME NEW panes \in Arrangements
  PROVE  /\ \A slot \in DOMAIN panes : slot \in Slots /\ panes[slot] \in Panes
         /\ \A slot, u \in DOMAIN panes : panes[slot] = panes[u] => slot = u
BY ArrangementsAssumption DEF Slots

\* What the predictor is told of a slot.
IsContext(s, slot, context) ==
    /\ slot \in DOMAIN s.layout.panes /\ s.layout.panes[slot] = s.layout.focus
    /\ context = [target |-> [pane |-> s.layout.focus, slot |-> slot, revision |-> s.layout.revision],
                  cursor |-> s.cursors[slot].cursor, visible |-> s.cursors[slot].visible]

LEMMA ContextIs ==
  ASSUME NEW G, NEW S, NEW s, ScanoutOK(s), RenderFine(s, G, S), PredictsShown(s), NEW slot, NEW context,
         IsContext(s, slot, context)
  PROVE  /\ slot \in Slots /\ context.cursor \in Cells /\ context.target # None /\ context.target.slot = slot
         /\ context.target \in Targets
         /\ s.predictor.target \in {context.target, None}
<1> PICK target, p : target = context.target /\ p = s.predictor
  OBVIOUS
<1>1. target = [pane |-> s.layout.focus, slot |-> slot, revision |-> s.layout.revision]
  BY DEF IsContext
<1>2. ShowsFocus(s.layout) /\ (p.target # None => p.target.slot \in DOMAIN s.layout.panes)
  BY DEF PredictsShown, NoLayout, IsContext
<1>3. slot \in Slots /\ s.layout.focus \in Panes
  BY <1>2, ArrangedSlots DEF ShowsFocus, IsContext
<1>4. target \in Targets /\ target # None
  <2>1. s.layout.revision \in Nat
    BY DEF ScanoutOK
  <2>2. target \in Targets
    BY <1>1, <1>3, <2>1 DEF Targets
  <2> QED
    BY <2>2, NoneIsNothing
<1>5. context.cursor \in Cells
  <2>1. CursorKnown(s, slot)
    BY <1>3 DEF RenderFine, CursorsKnown, IsContext
  <2> QED
    BY <2>1 DEF CursorKnown, IsContext
<1>6. ASSUME p.target # None PROVE p.target = target
  <2>1. p.target.revision = s.layout.revision /\ p.target.pane = s.layout.focus
        /\ s.layout.panes[p.target.slot] = s.layout.focus
    BY <1>6 DEF ScanoutOK, Focused
  <2>2. p.target.slot = slot
    BY <1>2, <1>6, <2>1, ArrangedSlots DEF ShowsFocus, IsContext
  <2>3. p.target = [pane |-> p.target.pane, slot |-> p.target.slot, revision |-> p.target.revision]
    BY <1>6 DEF RenderFine, ScanFine, TargetFine
  <2> QED
    BY <1>1, <2>1, <2>2, <2>3
<1> QED
  BY <1>1, <1>3, <1>4, <1>5, <1>6

\* The predictor once the input starts.
Started(p, context) ==
    IF p.target = context.target THEN p
    ELSE [NoPrediction EXCEPT !.target = context.target, !.cursor = context.cursor, !.hasCursor = context.visible]

LEMMA StartedIs ==
  ASSUME NEW p, PredictorFine(p), NEW context, context.cursor \in Cells, context.target # None,
         p.target \in {context.target, None}
  PROVE  /\ PredictorFine(Started(p, context)) /\ Started(p, context).target = context.target
         /\ \A q, K : Grows(Started(p, context), q, K) => Grows(p, q, K)
<1> PICK r : r = Started(p, context)
  OBVIOUS
<1>1. CASE p.target = context.target
  BY <1>1 DEF Started
<1>2. CASE p.target # context.target
  <2>1. r = [target |-> context.target, scopes |-> <<>>, cursor |-> context.cursor, hasCursor |-> context.visible,
             awaiting |-> FALSE]
    BY <1>2 DEF Started, NoPrediction
  <2>2. r.target = context.target /\ r.scopes = <<>> /\ r.cursor = context.cursor /\ IsPredictor(r)
    BY <2>1 DEF IsPredictor
  <2>3. ASSUME NEW o, ScopeFine(r, o) PROVE FALSE
    BY <2>2, <2>3, OneIsSome DEF ScopeFine
  <2> QED
    BY <2>2, <2>3 DEF PredictorFine, Grows
<1> QED
  BY <1>1, <1>2

IsInput(p, q, keys, target, spans, grid) ==
    /\ PredictorFine(q) /\ q.target \in {target, None}
    /\ Grows(p, q, CharactersOf(keys))
    /\ keys[1] \in Ends => Grows(p, q, {}) /\ Ended(q)
    /\ spans = InputSpans(visibleOperations(p), visibleOperations(q), grid)

LEMMA ApplyLocalInputIs ==
  ASSUME NEW p, PredictorFine(p), NEW context, context.cursor \in Cells, context.target # None,
         p.target \in {context.target, None}, NEW keys \in Reads, NEW grid,
         NEW r, r = applyLocalInput(p, keys, context, grid)
  PROVE  IsInput(p, r.predictor, keys, context.target, r.spans, grid)
<1> PICK q, started, target : /\ q = TypedAll(started, keys, context, grid) /\ started = Started(p, context)
                              /\ target = context.target
  OBVIOUS
<1>1. r = [predictor |-> q, spans |-> InputSpans(visibleOperations(p), visibleOperations(q), grid)]
  BY Zenon DEF applyLocalInput, Started, InputSpans
<1>2. r.predictor = q /\ r.spans = InputSpans(visibleOperations(p), visibleOperations(q), grid)
  BY <1>1
<1>3. PredictorFine(started) /\ started.target = target /\ \A u, K : Grows(started, u, K) => Grows(p, u, K)
  BY StartedIs
<1>4. /\ Advances(started, q, CharactersOf(keys))
      /\ keys[1] \in Ends => Ended(q) /\ Grows(started, q, {})
  BY <1>3, ReadAdvances
<1>5. Len(keys) \in Nat
  BY ReadsAre
<1>6. q.target \in {target, None}
  BY <1>3, <1>5, TypedAllSameTarget DEF SameTarget, PredictorFine
<1>7. PredictorFine(q) /\ Grows(p, q, CharactersOf(keys))
  BY <1>3, <1>4 DEF Advances
<1>8. keys[1] \in Ends => Ended(q) /\ Grows(p, q, {})
  BY <1>3, <1>4
<1> QED
  BY <1>2, <1>6, <1>7, <1>8 DEF IsInput

\* The state with other predictions, and another screen of a slot.
Overwritten(s, slot, q, w) == [s EXCEPT !.predictor = q, !.screen[slot] = w]

InputIn(s, t, keys, slot, context, q, spans) ==
    /\ IsContext(s, slot, context)
    /\ IsInput(s.predictor, q, keys, context.target, spans, s.cache[slot])
    /\ t = Overwritten(s, slot, q, Paint(s.screen[slot], spans))

\* What local input changes: nothing where nothing has the focus.
InputTo(s, t, keys) ==
    \/ t = s /\ s.layout = NoLayout
    \/ \E slot, context, q, spans : InputIn(s, t, keys, slot, context, q, spans)

LEMMA AcceptLocalInputIs ==
  ASSUME NEW G, NEW S, NEW s, ScanoutOK(s), RenderFine(s, G, S), PredictsShown(s), NEW keys \in Reads
  PROVE  InputTo(s, acceptLocalInput(s, keys), keys)
<1> DEFINE focused == {slot \in DOMAIN s.layout.panes : s.layout.panes[slot] = s.layout.focus}
           slot == CHOOSE slot \in focused : TRUE
           context == [target |-> [pane |-> s.layout.focus, slot |-> slot, revision |-> s.layout.revision],
                       cursor |-> s.cursors[slot].cursor, visible |-> s.cursors[slot].visible]
           result == applyLocalInput(s.predictor, keys, context, s.cache[slot])
<1> PICK t : t = acceptLocalInput(s, keys)
  OBVIOUS
<1>1. CASE focused = {}
  <2>1. t = s
    BY <1>1, Zenon DEF acceptLocalInput
  <2>2. ~ShowsFocus(s.layout)
    BY <1>1 DEF ShowsFocus
  <2>3. s.layout = NoLayout
    BY <2>2, Zenon DEF PredictsShown
  <2>4. InputTo(s, t, keys)
    BY <2>1, <2>3, Zenon DEF InputTo
  <2> QED
    BY <2>4
<1>2. CASE focused # {}
  <2>1. t = [s EXCEPT !.predictor = result.predictor, !.screen[slot] = Paint(s.screen[slot], result.spans)]
    BY <1>2, Zenon DEF acceptLocalInput
  <2>2. slot \in focused
    BY <1>2
  <2>3. IsContext(s, slot, context)
    BY <2>2 DEF IsContext
  <2> HIDE DEF focused, slot, context
  <2>4. context.cursor \in Cells /\ context.target # None /\ s.predictor.target \in {context.target, None}
    BY <2>3, ContextIs
  <2>5. PredictorFine(s.predictor)
    BY DEF RenderFine, ScanFine
  <2>6. IsInput(s.predictor, result.predictor, keys, context.target, result.spans, s.cache[slot])
    BY <2>4, <2>5, ApplyLocalInputIs
  <2> PICK q, spans : q = result.predictor /\ spans = result.spans
    OBVIOUS
  <2> HIDE DEF result
  <2>7. InputIn(s, t, keys, slot, context, q, spans)
    BY <2>1, <2>3, <2>6, Zenon DEF InputIn, Overwritten
  <2>8. InputTo(s, t, keys)
    BY <2>7, Zenon DEF InputTo
  <2> QED
    BY <2>8
<1> QED
  BY <1>1, <1>2

IsOverwritten(s, slot, q, w, t) ==
    /\ t.predictor = q /\ t.cache = s.cache /\ t.cursors = s.cursors /\ t.layout = s.layout
    /\ t.frames = s.frames /\ HasScreens(t)
    /\ t.screen[slot] = w /\ \A u \in Slots : u # slot => t.screen[u] = s.screen[u]

LEMMA OverwrittenIs ==
  ASSUME NEW s, IsScanout(s), HasScreens(s), NEW slot \in Slots, NEW q, NEW w
  PROVE  IsOverwritten(s, slot, q, w, Overwritten(s, slot, q, w))
<1> PICK t : t = [s EXCEPT !.predictor = q, !.screen[slot] = w]
  OBVIOUS
<1>1. /\ t.predictor = q /\ t.cache = s.cache /\ t.cursors = s.cursors /\ t.layout = s.layout
      /\ t.frames = s.frames /\ t.screen = [s.screen EXCEPT ![slot] = w]
  BY DEF IsScanout
<1>2. HasScreens(t) /\ t.screen[slot] = w /\ \A u \in Slots : u # slot => t.screen[u] = s.screen[u]
  BY <1>1 DEF HasScreens
<1>3. IsOverwritten(s, slot, q, w, t)
  BY <1>1, <1>2 DEF IsOverwritten
<1> QED
  BY <1>3, Zenon DEF Overwritten

LEMMA InputFine ==
  ASSUME NEW G, NEW S, Palettes(G, S), NEW s, ScanoutOK(s), RenderFine(s, G, S), PredictsShown(s),
         NEW t, NEW keys, NEW slot, NEW context, NEW q, NEW spans, InputIn(s, t, keys, slot, context, q, spans),
         Earned(q, G, S)
  PROVE  Rendered(G, S, s, t)
<1> PICK p, target, grid, old : /\ p = s.predictor /\ target = context.target /\ grid = s.cache[slot]
                                   /\ old = s.screen[slot]
  OBVIOUS
<1>1. /\ slot \in Slots /\ target # None /\ target.slot = slot /\ target \in Targets
      /\ p.target \in {target, None}
  BY ContextIs DEF InputIn
<1>2. /\ PredictorFine(q) /\ q.target \in {target, None}
      /\ spans = InputSpans(visibleOperations(p), visibleOperations(q), grid)
  BY DEF InputIn, IsInput
<1>3. PredictorFine(p) /\ HasTables(s) /\ HasScreens(s) /\ Inked(s, G, S) /\ G \subseteq S /\ Palette(S)
  BY DEF RenderFine, ScanFine, Palettes
<1>4. grid \in [Cells -> S] /\ old \in [Cells -> S]
  BY <1>1, <1>3, InkWithin DEF Inked
<1>5. visibleOperations(p) \in Seq(OpSet) /\ visibleOperations(q) \in Seq(OpSet) /\ Of(visibleOperations(q), S)
  BY <1>2, <1>3, VisibleAre, SeenOf
<1> PICK w : w = Paint(old, spans)
  OBVIOUS
<1>6. /\ w \in [Cells -> S]
      /\ Narrow(S) /\ old = Composed(grid, visibleOperations(p)) => w = Composed(grid, visibleOperations(q))
  BY <1>2, <1>3, <1>4, <1>5, InputPainted
<1>7. IsOverwritten(s, slot, q, w, t)
  BY <1>1, <1>3, OverwrittenIs DEF ScanoutOK, InputIn
<1>8. TargetFine(q)
  BY <1>1, <1>2 DEF TargetFine, Targets
<1>9. HasTables(t) /\ Inked(t, G, S)
  BY <1>1, <1>3, <1>6, <1>7 DEF HasTables, Inked, IsOverwritten
<1>10. RenderFine(t, G, S)
  <2>1. ScanFine(t, G, S)
    BY <1>2, <1>7, <1>8, <1>9 DEF ScanFine, IsOverwritten
  <2>2. FramesHeld(t) /\ HeldInk(t, G) /\ CursorsKnown(t)
    BY <1>7 DEF IsOverwritten, RenderFine, FramesHeld, HeldInk, CursorsKnown, CursorKnown
  <2> QED
    BY <2>1, <2>2 DEF RenderFine
<1>11. SeenIn(p, slot) = visibleOperations(p) /\ SeenIn(q, slot) = visibleOperations(q)
  BY <1>1, <1>2, <1>3, SeenIs
<1>12. \A u \in Slots : u # slot => SeenIn(p, u) = <<>> /\ SeenIn(q, u) = <<>>
  BY <1>1, <1>2 DEF SeenIn
<1>13. StillComposes(S, s, t)
  <2> SUFFICES ASSUME Narrow(S), Composes(s), NEW u \in Slots
               PROVE  t.screen[u] = Composed(t.cache[u], SeenIn(t.predictor, u))
    BY DEF StillComposes, Composes
  <2>1. s.screen[u] = Composed(s.cache[u], SeenIn(p, u))
    BY DEF Composes
  <2>2. CASE u = slot
    BY <1>6, <1>7, <1>11, <2>1, <2>2 DEF IsOverwritten
  <2>3. CASE u # slot
    BY <1>7, <1>12, <2>1, <2>3 DEF IsOverwritten
  <2> QED
    BY <2>2, <2>3
<1> QED
  BY <1>10, <1>13 DEF Rendered

-----------------------------------------------------------------------------
(* Every step of the render loop keeps the screen to what was sent and is predicted, and *)
(* predicts no more than is typed.                                                        *)

LEMMA LessensNothing ==
  ASSUME NEW p, NEW q, q.target = None, PredictorFine(q), NEW G
  PROVE  Lessens(p, q, G)
BY DEF Lessens, PredictorFine

Follows(s, t, G) == Lessens(s.predictor, t.predictor, G) /\ PredictsShown(t)

LEMMA TryActivateShows ==
  ASSUME NEW s, ScanoutOK(s), NEW revision, NEW nativeScroll,
         NEW t, t = tryActivate(s, revision, nativeScroll)
  PROVE  t = s \/ (t.layout \in s.layouts /\ t.predictor.target = None)
<1> DEFINE layouts == {l \in s.layouts : l.revision = revision}
           l == CHOOSE l \in layouts : TRUE
           u == Cleared(s, l)
<1>1. CASE layouts = {} \/ ~IsReady(s, l)
  <2>1. t = s
    BY <1>1, Zenon DEF tryActivate
  <2> QED
    BY <2>1
<1>2. CASE layouts # {} /\ IsReady(s, l)
  <2>1. t = replay(s, u, nativeScroll)
    BY <1>2, Zenon DEF tryActivate
  <2>2. l \in s.layouts
    BY <1>2
  <2> HIDE DEF layouts, l
  <2>3. IsCleared(s, l, u)
    BY ClearedIs DEF ScanoutOK
  <2> HIDE DEF u
  <2>4. IsPredictor(u.predictor) /\ u.predictor.target = None
    BY <2>3, ClearSameTarget DEF SameTarget, IsCleared
  <2>5. \A n \in DOMAIN u.layout.panes : Len(Waiting(s, u.layout.revision, n)) \in Nat
    BY WaitingLen DEF ScanoutOK
  <2>6. Keeps(u, t)
    BY <2>1, <2>3, <2>4, <2>5, ReplayKeeps DEF IsCleared
  <2> QED
    BY <2>2, <2>3, <2>4, <2>6 DEF Keeps, SameTarget, IsCleared
<1> QED
  BY <1>1, <1>2

LEMMA FollowsItself ==
  ASSUME NEW G, NEW S, NEW s, RenderFine(s, G, S), PredictsShown(s)
  PROVE  Follows(s, s, G)
BY LessensItself DEF Follows, RenderFine, ScanFine

LEMMA ActivateFollows ==
  ASSUME NEW G, NEW S, NEW s, PredictsShown(s), NEW u, u.predictor = s.predictor, u.layout = s.layout,
         NEW t, RenderFine(t, G, S), RenderFine(s, G, S), \A l \in u.layouts : ShowsFocus(l),
         t = u \/ (t.layout \in u.layouts /\ t.predictor.target = None)
  PROVE  Follows(s, t, G)
<1>1. PredictorFine(s.predictor) /\ PredictorFine(t.predictor)
  BY DEF RenderFine, ScanFine
<1>2. CASE t = u
  BY <1>1, <1>2, LessensItself DEF Follows, PredictsShown
<1>3. CASE t.layout \in u.layouts /\ t.predictor.target = None
  BY <1>1, <1>3, LessensNothing DEF Follows, PredictsShown
<1> QED
  BY <1>2, <1>3

LEMMA ResetFollows ==
  ASSUME NEW G, NEW S, Palettes(G, S), NEW s, ScanoutOK(s), RenderFine(s, G, S), PredictsShown(s)
  PROVE  Follows(s, resetPrediction(s), G)
<1> PICK t : t = resetPrediction(s)
  OBVIOUS
<1>1. t.predictor.target = None /\ t.layout = s.layout
  BY ResetRenders
<1>2. PredictorFine(t.predictor)
  BY ResetFine DEF Rendered, RenderFine, ScanFine, ScanoutOK
<1> QED
  BY <1>1, <1>2, LessensNothing DEF Follows, PredictsShown

LEMMA AcceptLayoutFollows ==
  ASSUME NEW G, NEW S, Palettes(G, S), NEW s, ScanoutOK(s), RenderFine(s, G, S), PredictsShown(s),
         NEW l, ShowsFocus(l), \A k \in s.layouts : ShowsFocus(k), NEW nativeScroll,
         Agreeing(LayoutsOf(s) \cup {l}), \A k \in LayoutsOf(s) \cup {l} : IsLayout(k) /\ k.revision \in Nat
  PROVE  Follows(s, acceptLayout(s, l, nativeScroll), G)
<1> PICK t : t = acceptLayout(s, l, nativeScroll)
  OBVIOUS
<1>0. RenderFine(t, G, S)
  BY AcceptLayoutFine DEF Rendered
<1>1. CASE l.revision < s.layout.revision
  <2>1. t = s
    BY <1>1 DEF acceptLayout
  <2> QED
    BY <2>1, FollowsItself
<1>2. CASE l.revision = s.layout.revision
  <2>1. s.layout.revision \in Nat /\ l.panes = s.layout.panes
    BY <1>2 DEF Agreeing, LayoutsOf
  <2> PICK u : u = IF l.focus # s.layout.focus THEN resetPrediction(s) ELSE s
    OBVIOUS
  <2>2. t = [u EXCEPT !.layout = l]
    BY <1>2, <2>1 DEF acceptLayout
  <2>3. IsScanout(u) /\ Follows(s, u, G) /\ u.layout = s.layout
    BY ResetRenders, ResetFollows, FollowsItself DEF ScanoutOK
  <2>4. t.layout = l /\ t.predictor = u.predictor
    BY <2>2, <2>3 DEF IsScanout
  <2>5. PredictsShown(t)
    <3>1. u.predictor.target # None => u.predictor.target.slot \in DOMAIN u.layout.panes
      BY <2>3 DEF Follows, PredictsShown
    <3> QED
      BY <2>1, <2>3, <2>4, <3>1 DEF PredictsShown
  <2> QED
    BY <2>3, <2>4, <2>5 DEF Follows
<1>3. CASE l.revision > s.layout.revision
  <2> PICK u : u = Noticed(s, l)
    OBVIOUS
  <2>1. t = tryActivate(u, l.revision, nativeScroll)
    <3>1. l.revision \in Nat /\ s.layout.revision \in Nat
      BY DEF LayoutsOf
    <3>2. ~(l.revision < s.layout.revision) /\ l.revision # s.layout.revision
      BY <1>3, <3>1
    <3> QED
      BY <3>2, Zenon DEF acceptLayout, Noticed
  <2>2. IsNoticed(s, l, u)
    BY NoticedIs DEF ScanoutOK
  <2>3. ScanoutOK(u)
    BY <1>3, <2>2 DEF ScanoutOK, Focused, HeldBack, SameShown, IsNoticed
  <2>4. u.predictor = s.predictor /\ u.layout = s.layout /\ \A k \in u.layouts : ShowsFocus(k)
    BY <2>2 DEF IsNoticed, SameShown
  <2>5. t = u \/ (t.layout \in u.layouts /\ t.predictor.target = None)
    BY <2>1, <2>3, TryActivateShows
  <2> QED
    BY <1>0, <2>4, <2>5, ActivateFollows
<1> QED
  <2>1. l.revision \in Nat /\ s.layout.revision \in Nat
    BY DEF LayoutsOf
  <2> QED
    BY <1>1, <1>2, <1>3, <2>1

LEMMA AcceptFrameFollows ==
  ASSUME NEW G, NEW S, Palettes(G, S), NEW s, ScanoutOK(s), RenderFine(s, G, S), PredictsShown(s),
         \A k \in s.layouts : ShowsFocus(k), NEW slot \in Slots, NEW frame,
         frame.revision \in Nat, FrameFits(frame, frame.revision, G), NEW nativeScroll
  PROVE  Follows(s, acceptFrame(s, slot, frame, nativeScroll), G)
<1> PICK r, t : r = frame.revision /\ t = acceptFrame(s, slot, frame, nativeScroll)
  OBVIOUS
<1>0. RenderFine(t, G, S)
  BY AcceptFrameFine DEF Rendered
<1>1. CASE r < s.layout.revision
  <2>1. t = s
    BY <1>1 DEF acceptFrame
  <2> QED
    BY <2>1, FollowsItself
<1>2. CASE r = s.layout.revision
  <2>1. t = emitFrame(s, slot, frame, nativeScroll)
    BY <1>2 DEF acceptFrame, ScanoutOK
  <2>2. Lessens(s.predictor, t.predictor, G)
    BY <1>2, <2>1, EmitFrameFine DEF ScanoutOK, RenderFine
  <2>3. t.layout = s.layout /\ t.predictor.target \in {s.predictor.target, None}
    BY <2>1, EmitFrameKeeps DEF ScanoutOK, Keeps, SameTarget
  <2> QED
    BY <2>2, <2>3 DEF Follows, PredictsShown
<1>3. CASE r > s.layout.revision
  <2>1. PICK u : u = Wait(s, slot, frame)
    OBVIOUS
  <2>2. t = tryActivate(u, r, nativeScroll)
    <3>1. ~(r < s.layout.revision) /\ r # s.layout.revision
      BY <1>3 DEF ScanoutOK
    <3> QED
      BY <2>1, <3>1, Zenon DEF acceptFrame
  <2>3. ScanoutOK(u)
    BY <1>3, <2>1, WaitRenders
  <2>4. u.predictor = s.predictor /\ u.layout = s.layout /\ u.layouts = s.layouts
    <3> PICK fs : fs = HeldAfter(s, slot, frame)
      OBVIOUS
    <3>1. u = [s EXCEPT !.frames = fs]
      BY <2>1, WaitIs DEF ScanoutOK
    <3> QED
      BY <3>1 DEF ScanoutOK, IsScanout
  <2>5. t = u \/ (t.layout \in u.layouts /\ t.predictor.target = None)
    BY <2>2, <2>3, TryActivateShows
  <2> QED
    BY <1>0, <2>4, <2>5, ActivateFollows
<1> QED
  BY <1>1, <1>2, <1>3 DEF ScanoutOK

LEMMA InputShows ==
  ASSUME NEW G, NEW S, NEW s, ScanoutOK(s), RenderFine(s, G, S), PredictsShown(s),
         NEW t, NEW keys, NEW slot, NEW context, NEW q, NEW spans, InputIn(s, t, keys, slot, context, q, spans)
  PROVE  PredictsShown(t) /\ t.predictor = q
<1>1. slot \in Slots /\ context.target # None /\ context.target.slot = slot
  BY ContextIs DEF InputIn
<1>2. q.target \in {context.target, None} /\ slot \in DOMAIN s.layout.panes
  BY DEF InputIn, IsInput, IsContext
<1>3. t.predictor = q /\ t.layout = s.layout
  BY <1>1, OverwrittenIs DEF InputIn, IsOverwritten, ScanoutOK, RenderFine, ScanFine
<1>4. ShowsFocus(s.layout)
  BY <1>2 DEF PredictsShown, NoLayout
<1> QED
  BY <1>1, <1>2, <1>3, <1>4 DEF PredictsShown

-----------------------------------------------------------------------------
(* What the server holds and sends is on a palette, and so is the screen. *)

TerminalsInk(G) == \A p \in Panes : terminal[p].grid \in [Cells -> G]

StreamsInk(G) == \A slot \in Slots : \A i \in DOMAIN stream[slot] : FrameInk(stream[slot][i], G)

LayoutsShow == \A l \in pendingLayouts \cup Sayings \cup {published} : ShowsFocus(l)

InputsOK == \A i \in DOMAIN local : local[i] \in Reads

Drawn(G, S) == RenderFine(Scanout, G, S) /\ PredictsShown(Scanout)

ScreenInv(G, S) == TerminalsInk(G) /\ StreamsInk(G) /\ LayoutsShow /\ InputsOK /\ Drawn(G, S)

\* A step of the render loop, and what becomes of the predictions.
Draws(G, S) == ScreenInv(G, S)' /\ StillComposes(S, Scanout, Scanout')

LEMMA ShowsHeld ==
  ASSUME NEW s, NEW t, NEW L, ScanoutOK(t), LayoutsOf(t) \subseteq LayoutsOf(s) \cup L, PredictsShown(s),
         \A k \in s.layouts \cup L : ShowsFocus(k)
  PROVE  \A k \in t.layouts : ShowsFocus(k)
<1> SUFFICES ASSUME NEW k \in t.layouts PROVE ShowsFocus(k)
  OBVIOUS
<1>1. k.revision > t.layout.revision /\ t.layout.revision \in Nat
  BY DEF ScanoutOK, HeldBack
<1>2. NoLayout.revision = 0
  BY DEF NoLayout
<1>3. k # NoLayout
  BY <1>1, <1>2
<1> QED
  BY <1>3 DEF LayoutsOf, PredictsShown

LEMMA DrawsTo ==
  ASSUME NEW G, NEW S, ScreenInv(G, S), NEW s, Scanout' = s, Rendered(G, S, Scanout, s), PredictsShown(s),
         UNCHANGED <<terminal, published>>, StreamsInk(G)', InputsOK', Sayings' \subseteq Sayings,
         NEW L, L \subseteq Sayings, ScanoutOK(s), LayoutsOf(s) \subseteq LayoutsOf(Scanout) \cup L
  PROVE  Draws(G, S)
<1>1. TerminalsInk(G)'
  BY DEF ScreenInv, TerminalsInk
<1>2. LayoutsShow'
  <2>1. Scanout.layouts = pendingLayouts /\ s.layouts = pendingLayouts'
    BY DEF Scanout
  <2>2. \A k \in s.layouts : ShowsFocus(k)
    BY <2>1, ShowsHeld DEF ScreenInv, LayoutsShow, Drawn
  <2> QED
    BY <2>1, <2>2 DEF ScreenInv, LayoutsShow
<1>3. Drawn(G, S)'
  BY DEF Drawn, Rendered
<1> QED
  BY <1>1, <1>2, <1>3 DEF ScreenInv, Draws, Rendered

LEMMA RenderLayoutDraws ==
  ASSUME Inv, NEW G, NEW S, Palettes(G, S), ScreenInv(G, S), RenderLayout
  PROVE  Draws(G, S) /\ Lessens(Scanout.predictor, Scanout'.predictor, G)
<1>1. /\ 1 \in DOMAIN control /\ Head(control) = control[1]
      /\ \A i \in DOMAIN Tail(control) : i + 1 \in DOMAIN control /\ Tail(control)[i] = control[i + 1]
  BY TailIsSequence DEF Inv, StreamsOK, RenderLayout
<1> PICK l : l = Head(control)
  OBVIOUS
<1>2. PICK nativeScroll, s : s = acceptLayout(Scanout, l, nativeScroll) /\ SetScanout(s)
  BY DEF RenderLayout
<1>3. l \in Sayings
  BY <1>1 DEF Sayings
<1>4. Agreeing(LayoutsOf(Scanout) \cup {l})
  BY <1>3 DEF Inv, LayoutsOK, Agreeing
<1>5. \A k \in LayoutsOf(Scanout) \cup {l} : IsLayout(k) /\ k.revision \in Nat
  BY <1>3, LayoutsAreKnown DEF Inv
<1>6. ScanoutOK(Scanout) /\ ScanoutOK(s) /\ LayoutsOf(s) \subseteq LayoutsOf(Scanout) \cup {l}
  BY <1>2, <1>4, <1>5, AcceptLayoutRenders DEF Inv
<1>7. Scanout' = s
  BY <1>2, <1>6, SetScanoutIs DEF ScanoutOK
<1>8. RenderFine(Scanout, G, S) /\ PredictsShown(Scanout)
  BY DEF ScreenInv, Drawn
<1>9. ShowsFocus(l) /\ \A k \in Scanout.layouts : ShowsFocus(k)
  BY <1>3 DEF ScreenInv, LayoutsShow, Scanout
<1>10. Rendered(G, S, Scanout, s)
  BY <1>2, <1>4, <1>5, <1>6, <1>8, AcceptLayoutFine
<1>11. Follows(Scanout, s, G)
  BY <1>2, <1>4, <1>5, <1>6, <1>8, <1>9, AcceptLayoutFollows
<1>12. Sayings' \subseteq Sayings
  BY <1>1 DEF RenderLayout, Sayings
<1>13. UNCHANGED <<terminal, published>> /\ StreamsInk(G)' /\ InputsOK'
  BY DEF RenderLayout, ScreenInv, StreamsInk, InputsOK
<1>14. Draws(G, S)
  BY <1>3, <1>6, <1>7, <1>10, <1>11, <1>12, <1>13, DrawsTo DEF Follows
<1> QED
  BY <1>7, <1>11, <1>14 DEF Follows

LEMMA RenderFrameDraws ==
  ASSUME Inv, CacheInv, NEW G, NEW S, Palettes(G, S), ScreenInv(G, S), NEW slot \in Slots, RenderFrame(slot)
  PROVE  Draws(G, S) /\ Lessens(Scanout.predictor, Scanout'.predictor, G)
<1>1. /\ 1 \in DOMAIN stream[slot] /\ Head(stream[slot]) = stream[slot][1]
      /\ \A i \in DOMAIN Tail(stream[slot]) :
            i + 1 \in DOMAIN stream[slot] /\ Tail(stream[slot])[i] = stream[slot][i + 1]
  BY TailIsSequence DEF Inv, StreamsOK, RenderFrame
<1> PICK frame, rest : frame = Head(stream[slot]) /\ rest = Tail(stream[slot])
  OBVIOUS
<1>2. PICK nativeScroll, s : s = acceptFrame(Scanout, slot, frame, nativeScroll) /\ SetScanout(s)
  BY DEF RenderFrame
<1>3. frame.revision \in Nat /\ CellsFit(frame.cells) /\ FrameInk(frame, G)
  BY <1>1 DEF Inv, StreamsOK, CacheInv, FramesOK, ScreenInv, StreamsInk
<1>4. FrameFits(frame, frame.revision, G)
  BY <1>3 DEF FrameFits
<1>5. \A k \in LayoutsOf(Scanout) : IsLayout(k) /\ k.revision \in Nat
  BY LayoutsAreKnown DEF Inv
<1>6. ScanoutOK(Scanout) /\ ScanoutOK(s) /\ LayoutsOf(s) \subseteq LayoutsOf(Scanout)
  BY <1>2, <1>3, <1>5, AcceptFrameRenders DEF Inv
<1>7. Scanout' = s
  BY <1>2, <1>6, SetScanoutIs DEF ScanoutOK
<1>8. RenderFine(Scanout, G, S) /\ PredictsShown(Scanout)
  BY DEF ScreenInv, Drawn
<1>9. \A k \in Scanout.layouts : ShowsFocus(k)
  BY DEF ScreenInv, LayoutsShow, Scanout
<1>10. Rendered(G, S, Scanout, s)
  BY <1>2, <1>3, <1>4, <1>6, <1>8, AcceptFrameFine
<1>11. Follows(Scanout, s, G)
  BY <1>2, <1>3, <1>4, <1>6, <1>8, <1>9, AcceptFrameFollows
<1>12. StreamsInk(G)'
  <2>1. stream = [u \in Slots |-> stream[u]] /\ stream' = [stream EXCEPT ![slot] = rest]
    BY DEF Inv, StreamsOK, RenderFrame
  <2>2. stream'[slot] = rest /\ \A u \in Slots : u # slot => stream'[u] = stream[u]
    BY <2>1
  <2>3. \A i \in DOMAIN rest : FrameInk(rest[i], G)
    BY <1>1 DEF ScreenInv, StreamsInk
  <2> QED
    BY <2>2, <2>3 DEF ScreenInv, StreamsInk
<1>13. UNCHANGED <<terminal, published>> /\ InputsOK' /\ Sayings' = Sayings
  BY DEF RenderFrame, ScreenInv, InputsOK, Sayings
<1>14. Draws(G, S)
  BY <1>6, <1>7, <1>10, <1>11, <1>12, <1>13, DrawsTo DEF Follows
<1> QED
  BY <1>7, <1>11, <1>14 DEF Follows

LEMMA RenderResetDraws ==
  ASSUME Inv, NEW G, NEW S, Palettes(G, S), ScreenInv(G, S), RenderReset
  PROVE  Draws(G, S) /\ Lessens(Scanout.predictor, Scanout'.predictor, G)
<1> PICK s : s = resetPrediction(Scanout)
  OBVIOUS
<1>1. ScanoutOK(Scanout) /\ ScanoutOK(s) /\ LayoutsOf(s) = LayoutsOf(Scanout)
  BY ResetRenders DEF Inv
<1>2. Scanout' = s
  BY <1>1, SetScanoutIs DEF ScanoutOK, RenderReset
<1>3. RenderFine(Scanout, G, S) /\ PredictsShown(Scanout)
  BY DEF ScreenInv, Drawn
<1>4. Rendered(G, S, Scanout, s) /\ Follows(Scanout, s, G)
  BY <1>1, <1>3, ResetFine, ResetFollows DEF ScanoutOK
<1>5. LayoutsOf(s) \subseteq LayoutsOf(Scanout)
  BY <1>1
<1>6. UNCHANGED <<terminal, published>> /\ StreamsInk(G)' /\ InputsOK' /\ Sayings' = Sayings
  BY DEF RenderReset, serverVars, ScreenInv, InputsOK, Sayings, StreamsInk
<1>7. Draws(G, S)
  BY <1>1, <1>2, <1>4, <1>5, <1>6, DrawsTo DEF Follows
<1> QED
  BY <1>2, <1>4, <1>7 DEF Follows

\* What local input makes of the predictions.
Answers(p, q, keys) ==
    /\ Grows(p, q, CharactersOf(keys))
    /\ keys[1] \in Ends => Grows(p, q, {}) /\ \A r : ScopeFine(q, r) => r.closed

LEMMA InputAnswers ==
  ASSUME NEW G, NEW S, NEW s, NEW t, NEW keys, ScanoutOK(s), RenderFine(s, G, S), PredictsShown(s), InputTo(s, t, keys)
  PROVE  Answers(s.predictor, t.predictor, keys)
<1>1. CASE t = s /\ s.layout = NoLayout
  <2>1. ~ShowsFocus(NoLayout)
    <3>1. NoLayout.panes = <<>>
      BY DEF NoLayout
    <3>2. DOMAIN NoLayout.panes = {}
      BY <3>1
    <3> QED
      BY <3>2 DEF ShowsFocus
  <2>2. s.predictor.target = None
    BY <1>1, <2>1 DEF PredictsShown
  <2>3. s.predictor.scopes = <<>>
    BY <2>2 DEF RenderFine, ScanFine, PredictorFine
  <2>4. ASSUME NEW r, ScopeFine(s.predictor, r) PROVE FALSE
    BY <2>3, <2>4, OneIsSome DEF ScopeFine
  <2>5. \A K : Grows(s.predictor, t.predictor, K)
    BY <1>1, <2>3 DEF Grows
  <2> QED
    BY <1>1, <2>4, <2>5 DEF Answers
<1>2. CASE ~(t = s /\ s.layout = NoLayout)
  <2>1. PICK slot, context, q, spans : InputIn(s, t, keys, slot, context, q, spans)
    BY <1>2 DEF InputTo
  <2>2. t.predictor = q
    BY <2>1, InputShows
  <2> QED
    BY <2>1, <2>2 DEF InputIn, IsInput, Answers, Ended
<1> QED
  BY <1>1, <1>2

LEMMA RenderLocalInputIs ==
  ASSUME Inv, NEW G, NEW S, ScreenInv(G, S), RenderLocalInput
  PROVE  /\ local[1] \in Reads /\ InputTo(Scanout, Scanout', local[1])
         /\ Answers(Scanout.predictor, Scanout'.predictor, local[1])
<1>1. 1 \in DOMAIN local /\ Head(local) = local[1]
  BY TailIsSequence DEF Inv, StreamsOK, RenderLocalInput
<1> PICK keys : keys = local[1]
  OBVIOUS
<1>2. PICK s : s = acceptLocalInput(Scanout, keys) /\ SetScanout(s)
  BY <1>1 DEF RenderLocalInput
<1>3. keys \in Reads /\ Len(keys) \in Nat
  BY <1>1 DEF Inv, StreamsOK, ScreenInv, InputsOK
<1>4. ScanoutOK(s) /\ ScanoutOK(Scanout)
  BY <1>2, <1>3, AcceptLocalInputRenders DEF Inv
<1>5. Scanout' = s
  BY <1>2, <1>4, SetScanoutIs DEF ScanoutOK
<1>6. RenderFine(Scanout, G, S) /\ PredictsShown(Scanout)
  BY DEF ScreenInv, Drawn
<1>7. InputTo(Scanout, s, keys)
  BY <1>2, <1>3, <1>4, <1>6, AcceptLocalInputIs
<1>8. Answers(Scanout.predictor, s.predictor, keys)
  BY <1>4, <1>6, <1>7, InputAnswers
<1> QED
  BY <1>3, <1>5, <1>7, <1>8

LEMMA RenderLocalInputDraws ==
  ASSUME Inv, NEW G, NEW S, Palettes(G, S), ScreenInv(G, S), RenderLocalInput, Earned(Scanout'.predictor, G, S)
  PROVE  Draws(G, S)
<1>1. /\ 1 \in DOMAIN local /\ Head(local) = local[1]
      /\ \A i \in DOMAIN Tail(local) : i + 1 \in DOMAIN local /\ Tail(local)[i] = local[i + 1]
  BY TailIsSequence DEF Inv, StreamsOK, RenderLocalInput
<1> PICK keys : keys = local[1]
  OBVIOUS
<1>2. PICK s : s = acceptLocalInput(Scanout, keys) /\ SetScanout(s)
  BY <1>1 DEF RenderLocalInput
<1>3. Len(keys) \in Nat
  BY <1>1 DEF Inv, StreamsOK
<1>4. ScanoutOK(s) /\ ScanoutOK(Scanout) /\ LayoutsOf(s) = LayoutsOf(Scanout)
  BY <1>2, <1>3, AcceptLocalInputRenders DEF Inv
<1>5. Scanout' = s
  BY <1>2, <1>4, SetScanoutIs DEF ScanoutOK
<1>6. RenderFine(Scanout, G, S) /\ PredictsShown(Scanout)
  BY DEF ScreenInv, Drawn
<1>7. InputTo(Scanout, s, keys)
  BY <1>5, RenderLocalInputIs
<1>8. Rendered(G, S, Scanout, s) /\ PredictsShown(s)
  <2>1. CASE s = Scanout
    BY <1>6, <2>1, RenderedItself
  <2>2. CASE s # Scanout
    <3>1. PICK slot, context, q, spans : InputIn(Scanout, s, keys, slot, context, q, spans)
      BY <1>7, <2>2 DEF InputTo
    <3>2. s.predictor = q /\ PredictsShown(s)
      BY <1>4, <1>6, <3>1, InputShows
    <3>3. Earned(q, G, S)
      BY <1>5, <3>2
    <3>4. Rendered(G, S, Scanout, s)
      BY <1>4, <1>6, <3>1, <3>3, InputFine
    <3> QED
      BY <3>2, <3>4
  <2> QED
    BY <2>1, <2>2
<1>9. LayoutsOf(s) \subseteq LayoutsOf(Scanout)
  BY <1>4
<1>10. UNCHANGED <<terminal, published>> /\ StreamsInk(G)' /\ InputsOK' /\ Sayings' = Sayings
  BY <1>1 DEF RenderLocalInput, serverVars, ScreenInv, InputsOK, Sayings, StreamsInk
<1> QED
  BY <1>4, <1>5, <1>8, <1>9, <1>10, DrawsTo

-----------------------------------------------------------------------------
(* The server and its environment leave the screen alone, and may bring other glyphs. *)

LEMMA FrameInkWithin ==
  ASSUME NEW G, NEW H, G \subseteq H, NEW frame, FrameInk(frame, G)
  PROVE  FrameInk(frame, H)
BY DEF FrameInk, CellsInk

LEMMA RenderFineWithin ==
  ASSUME NEW G, NEW S, NEW H, NEW U, G \subseteq H, S \subseteq U, NEW s, RenderFine(s, G, S), Earned(s.predictor, H, U)
  PROVE  RenderFine(s, H, U)
<1>1. Inked(s, H, U)
  <2> SUFFICES ASSUME NEW slot \in Slots PROVE s.cache[slot] \in [Cells -> H] /\ s.screen[slot] \in [Cells -> U]
    BY DEF Inked
  <2>1. s.cache[slot] \in [Cells -> G] /\ s.screen[slot] \in [Cells -> S]
    BY DEF RenderFine, ScanFine, Inked
  <2> QED
    BY <2>1, InkWithin
<1>2. HeldInk(s, H)
  BY FrameInkWithin DEF RenderFine, HeldInk
<1> QED
  BY <1>1, <1>2 DEF RenderFine, ScanFine

LEMMA ServesTo ==
  ASSUME NEW G, NEW S, NEW H, NEW U, G \subseteq H, S \subseteq U, ScreenInv(G, S), UNCHANGED scanoutVars,
         Earned(Scanout.predictor, H, U), TerminalsInk(H)', StreamsInk(H)', LayoutsShow', InputsOK'
  PROVE  ScreenInv(H, U)' /\ Scanout' = Scanout
<1>1. Scanout' = Scanout
  BY DEF scanoutVars, Scanout
<1>2. RenderFine(Scanout, H, U) /\ PredictsShown(Scanout)
  BY RenderFineWithin DEF ScreenInv, Drawn
<1>3. Drawn(H, U)'
  BY <1>1, <1>2 DEF Drawn
<1> QED
  BY <1>1, <1>3 DEF ScreenInv

LEMMA StreamsStayInk ==
  ASSUME NEW G, NEW H, G \subseteq H, StreamsInk(G), UNCHANGED stream
  PROVE  StreamsInk(H)'
BY FrameInkWithin DEF StreamsInk

LEMMA OneTerminalInk ==
  ASSUME NEW G, TerminalsOK, TerminalsInk(G), NEW pane \in Panes, NEW t, t.grid \in [Cells -> G],
         terminal' = [terminal EXCEPT ![pane] = t]
  PROVE  TerminalsInk(G)'
BY DEF TerminalsOK, TerminalsInk

\* An application writes a glyph at a cell.
Writes(pane, c, what, cursor) ==
    terminal' = [terminal EXCEPT ![pane].grid = Write(terminal[pane].grid, c, what), ![pane].cursor = cursor]

LEMMA WritesInk ==
  ASSUME NEW G, Palette(G), TerminalsOK, TerminalsInk(G), NEW pane \in Panes, NEW c \in Cells, NEW what \in G,
         NEW cursor, Writes(pane, c, what, cursor)
  PROVE  TerminalsInk(G)'
<1> PICK t, g : t = terminal[pane] /\ g = Write(terminal[pane].grid, c, what)
  OBVIOUS
<1>1. IsTerminal(t) /\ t.grid \in [Cells -> G]
  BY DEF TerminalsOK, TerminalsInk
<1>2. g \in [Cells -> G]
  BY <1>1, WriteInk
<1> PICK u : u = [t EXCEPT !.grid = g, !.cursor = cursor]
  OBVIOUS
<1>3. u.grid = g
  BY <1>1 DEF IsTerminal
<1>4. terminal' = [terminal EXCEPT ![pane].grid = g, ![pane].cursor = cursor]
  BY DEF Writes
<1>5. terminal = [p \in Panes |-> terminal[p]]
  BY DEF TerminalsOK
<1>6. terminal' = [terminal EXCEPT ![pane] = u]
  BY <1>4, <1>5
<1> QED
  BY <1>2, <1>3, <1>6, OneTerminalInk

LEMMA NewLineInk ==
  ASSUME NEW G, Palette(G), NEW t, IsTerminal(t), t.grid \in [Cells -> G], NEW echo
  PROVE  [NewLine(t) EXCEPT !.echo = echo].grid \in [Cells -> G]
<1> PICK g : g = scrollRegion(t.grid)
  OBVIOUS
<1>1. g \in [Cells -> G]
  BY ScrollInk
<1>2. CASE LastRow(t.cursor)
  <2>1. NewLine(t) = [t EXCEPT !.grid = g, !.cursor = Width, !.rolled = t.rolled + 1]
    BY <1>2 DEF NewLine, IsTerminal
  <2> QED
    BY <1>1, <2>1 DEF IsTerminal
<1>3. CASE ~LastRow(t.cursor)
  <2>1. NewLine(t) = [t EXCEPT !.cursor = Width]
    BY <1>3 DEF NewLine
  <2> QED
    BY <2>1 DEF IsTerminal
<1> QED
  BY <1>2, <1>3

LEMMA TakeInk ==
  ASSUME CacheInv, NEW G, NEW H, TerminalsInk(G), G \subseteq H, Palette(H),
         NEW key \in Characters \cup {Enter, Backspace}, Take(key),
         key \in Characters /\ terminal[published.focus].echo => key \in H
  PROVE  TerminalsInk(H)'
<1> DEFINE pane == published.focus
           t == terminal[pane]
<1>1. pane \in Panes /\ IsTerminal(t) /\ TerminalsOK /\ t.cursor \in Cells
  BY DEF CacheInv, ServerOK, TerminalsOK, IsTerminal
<1>2. TerminalsInk(H)
  BY InkWithin DEF TerminalsInk
<1>3. t.grid \in [Cells -> H]
  BY <1>1, <1>2 DEF TerminalsInk
<1>4. \/ UNCHANGED terminal
      \/ \E echo : terminal' = [terminal EXCEPT ![pane] = [NewLine(t) EXCEPT !.echo = echo]]
      \/ /\ key \in Characters /\ t.echo
         /\ terminal' = [terminal EXCEPT ![pane].grid = Write(t.grid, t.cursor, key), ![pane].cursor = @ + 1]
      \/ /\ Column(t.cursor) > 0
         /\ terminal' = [terminal EXCEPT ![pane].grid = Write(t.grid, t.cursor - 1, Blank), ![pane].cursor = @ - 1]
  BY Zenon DEF Take
<1>5. Column(t.cursor) > 0 => t.cursor - 1 \in Cells
  <2> PICK c : c = t.cursor
    OBVIOUS
  <2>1. c \in Cells /\ Column(0) = 0
    BY <1>1, CellsAre DEF Column, LastRow
  <2>2. Column(c) > 0 => c # 0
    BY <2>1
  <2>3. Column(c) > 0 => c - 1 \in Cells
    BY <2>1, <2>2, CellsAre
  <2> QED
    BY <2>3
<1> HIDE DEF t
<1>6. terminal = [p \in Panes |-> terminal[p]] /\ terminal[pane] = t
  BY <1>1 DEF TerminalsOK, t
<1>7. CASE UNCHANGED terminal
  BY <1>2, <1>7 DEF TerminalsInk
<1>8. ASSUME NEW echo, terminal' = [terminal EXCEPT ![pane] = [NewLine(t) EXCEPT !.echo = echo]]
      PROVE  TerminalsInk(H)'
  <2> PICK u : u = [NewLine(t) EXCEPT !.echo = echo]
    OBVIOUS
  <2>1. u.grid \in [Cells -> H]
    BY <1>1, <1>3, NewLineInk
  <2> QED
    BY <1>1, <1>2, <1>8, <2>1, OneTerminalInk
<1>9. ASSUME NEW c \in Cells, NEW what \in H, NEW cursor, Writes(pane, c, what, cursor)
      PROVE  TerminalsInk(H)'
  BY <1>1, <1>2, <1>9, WritesInk
<1>10. CASE /\ key \in Characters /\ t.echo
            /\ terminal' = [terminal EXCEPT ![pane].grid = Write(t.grid, t.cursor, key), ![pane].cursor = @ + 1]
  <2> PICK g : g = Write(t.grid, t.cursor, key)
    OBVIOUS
  <2>1. terminal' = [terminal EXCEPT ![pane].grid = g, ![pane].cursor = t.cursor + 1]
    <3>1. terminal' = [terminal EXCEPT ![pane].grid = g, ![pane].cursor = @ + 1]
      BY <1>10
    <3> HIDE DEF pane
    <3> QED
      BY <1>1, <1>6, <3>1 DEF IsTerminal
  <2>2. key \in H
    BY <1>10, <1>6
  <2>3. Writes(pane, t.cursor, key, t.cursor + 1)
    BY <1>6, <2>1 DEF Writes
  <2> QED
    BY <1>1, <1>9, <2>2, <2>3
<1>11. CASE /\ Column(t.cursor) > 0
            /\ terminal' = [terminal EXCEPT ![pane].grid = Write(t.grid, t.cursor - 1, Blank), ![pane].cursor = @ - 1]
  <2> PICK g : g = Write(t.grid, t.cursor - 1, Blank)
    OBVIOUS
  <2>1. terminal' = [terminal EXCEPT ![pane].grid = g, ![pane].cursor = t.cursor - 1]
    <3>1. terminal' = [terminal EXCEPT ![pane].grid = g, ![pane].cursor = @ - 1]
      BY <1>11
    <3> HIDE DEF pane
    <3> QED
      BY <1>1, <1>6, <3>1 DEF IsTerminal
  <2>2. Blank \in H /\ t.cursor - 1 \in Cells
    BY <1>5, <1>11 DEF Palette
  <2>3. Writes(pane, t.cursor - 1, Blank, t.cursor - 1)
    BY <1>6, <2>1 DEF Writes
  <2> QED
    BY <1>9, <2>2, <2>3
<1> QED
  BY <1>4, <1>7, <1>8, <1>10, <1>11

LEMMA UnaskedInk ==
  ASSUME CacheInv, NEW G, TerminalsInk(G), Palette(G), Printed \in G, WideOutput => WideLeft \in G,
         NEW pane \in Panes, Unasked(pane)
  PROVE  TerminalsInk(G)'
<1> PICK t : t = terminal[pane]
  OBVIOUS
<1>1. TerminalsOK /\ IsTerminal(t) /\ t.grid \in [Cells -> G] /\ terminal = [p \in Panes |-> terminal[p]]
  BY DEF CacheInv, TerminalsOK, TerminalsInk
<1>2. CASE UNCHANGED terminal
  BY <1>2 DEF TerminalsInk
<1>3. ASSUME terminal' = [terminal EXCEPT ![pane].visible = ~@]
      PROVE  TerminalsInk(G)'
  <2> PICK u : u = [t EXCEPT !.visible = ~@]
    OBVIOUS
  <2>1. u.grid \in [Cells -> G]
    BY <1>1 DEF IsTerminal
  <2>2. terminal' = [terminal EXCEPT ![pane] = u]
    BY <1>1, <1>3
  <2> QED
    BY <1>1, <2>1, <2>2, OneTerminalInk
<1>4. ASSUME NEW c \in PrintedCells, NEW move \in BOOLEAN,
             terminal' = [terminal EXCEPT ![pane].grid = Write(terminal[pane].grid, c, Printed),
                                          ![pane].cursor = IF move /\ Column(c) < Width - 1 THEN c + 1 ELSE @]
      PROVE  TerminalsInk(G)'
  <2> PICK g, n : /\ g = Write(terminal[pane].grid, c, Printed)
                  /\ n = IF move /\ Column(c) < Width - 1 THEN c + 1 ELSE t.cursor
    OBVIOUS
  <2>1. terminal' = [terminal EXCEPT ![pane].grid = g,
                                     ![pane].cursor = IF move /\ Column(c) < Width - 1 THEN c + 1 ELSE @]
    BY <1>4
  <2>2. terminal' = [terminal EXCEPT ![pane].grid = g, ![pane].cursor = n]
    BY <1>1, <2>1 DEF IsTerminal
  <2>3. c \in Cells
    BY SizesAssumption
  <2>4. Writes(pane, c, Printed, n)
    BY <2>2 DEF Writes
  <2> QED
    BY <1>1, <2>3, <2>4, WritesInk
<1>5. ASSUME NEW c \in PrintedCells, WideOutput,
             terminal' = [terminal EXCEPT ![pane].grid = Write(terminal[pane].grid, c, WideLeft), ![pane].cursor = c + 1]
      PROVE  TerminalsInk(G)'
  <2>1. c \in Cells /\ WideLeft \in G
    BY <1>5, SizesAssumption
  <2>2. Writes(pane, c, WideLeft, c + 1)
    BY <1>5 DEF Writes
  <2> QED
    BY <1>1, <2>1, <2>2, WritesInk
<1>6. \/ UNCHANGED terminal
      \/ terminal' = [terminal EXCEPT ![pane].visible = ~@]
      \/ \E c \in PrintedCells, move \in BOOLEAN :
            terminal' = [terminal EXCEPT ![pane].grid = Write(terminal[pane].grid, c, Printed),
                                         ![pane].cursor = IF move /\ Column(c) < Width - 1 THEN c + 1 ELSE @]
      \/ \E c \in PrintedCells :
            /\ WideOutput
            /\ terminal' = [terminal EXCEPT ![pane].grid = Write(terminal[pane].grid, c, WideLeft), ![pane].cursor = c + 1]
  BY Zenon DEF Unasked
<1> QED
  BY <1>2, <1>3, <1>4, <1>5, <1>6

LEMMA PublishInk ==
  ASSUME Inv, CacheInv, NEW G, TerminalsInk(G), StreamsInk(G), NEW slot \in Slots, Publish(slot)
  PROVE  TerminalsInk(G)' /\ StreamsInk(G)'
<1> PICK pane, t, old : pane = published.panes[slot] /\ t = terminal[pane] /\ old = Sent(slot)
  OBVIOUS
<1>1. PICK cells \in SUBSET Cells :
          /\ stream' = [stream EXCEPT ![slot] = Append(@, FrameOf(old, t, cells))]
          /\ terminal' = [terminal EXCEPT ![pane].rolled = 0]
  BY PublishIs
<1>2. pane \in Panes /\ IsTerminal(t) /\ TerminalsOK /\ t.grid \in [Cells -> G]
  <2>1. slot \in DOMAIN published.panes
    BY DEF Publish
  <2> QED
    BY <2>1, PublishedSlots DEF CacheInv, TerminalsOK, TerminalsInk
<1>3. TerminalsInk(G)'
  <2> PICK u : u = [t EXCEPT !.rolled = 0]
    OBVIOUS
  <2>1. u.grid \in [Cells -> G]
    BY <1>2 DEF IsTerminal
  <2>2. terminal' = [terminal EXCEPT ![pane] = u]
    BY <1>1, <1>2 DEF TerminalsOK
  <2> QED
    BY <1>2, <2>1, <2>2, OneTerminalInk
<1> PICK frame, frames : frame = FrameOf(old, t, cells) /\ frames = Append(stream[slot], frame)
  OBVIOUS
<1>4. FrameInk(frame, G)
  <2>1. frame.cells = [c \in cells |-> t.grid[c]] /\ frame.cursor = t.cursor
    BY DEF FrameOf
  <2>2. CellsInk(frame.cells, G)
    BY <1>2, <2>1 DEF CellsInk
  <2> QED
    BY <1>2, <2>1, <2>2 DEF FrameInk, IsTerminal
<1>5. /\ stream'[slot] = frames /\ \A u \in Slots : u # slot => stream'[u] = stream[u]
      /\ IsSequence(stream[slot])
  <2>1. stream = [u \in Slots |-> stream[u]] /\ IsSequence(stream[slot])
    BY DEF Inv, StreamsOK
  <2>2. stream' = [stream EXCEPT ![slot] = frames]
    BY <1>1
  <2> QED
    BY <2>1, <2>2
<1>6. \A i \in DOMAIN frames : frames[i] = frame \/ (i \in DOMAIN stream[slot] /\ frames[i] = stream[slot][i])
  BY <1>5, AppendIsSequence
<1>7. \A i \in DOMAIN frames : FrameInk(frames[i], G)
  BY <1>4, <1>6 DEF StreamsInk
<1>8. StreamsInk(G)'
  BY <1>5, <1>7 DEF StreamsInk
<1> QED
  BY <1>3, <1>8

\* What is said after this shows its focus.
LEMMA SaysShows ==
  ASSUME Inv, LayoutsShow, UNCHANGED pendingLayouts, ShowsFocus(published'), control' = Append(control, published')
  PROVE  LayoutsShow'
<1>1. Sayings' \subseteq Sayings \cup {published'}
  BY AppendIsSequence DEF Inv, StreamsOK, Sayings
<1> QED
  BY <1>1 DEF LayoutsShow

LEMMA RelayoutShows ==
  ASSUME Inv, LayoutsShow, NEW panes, NEW focus, Relayout(panes, focus)
  PROVE  LayoutsShow'
<1>1. published' = [revision |-> published.revision + 1, panes |-> panes, focus |-> focus]
  BY DEF Relayout
<1>2. ShowsFocus(published')
  BY <1>1 DEF ShowsFocus, Relayout
<1> QED
  BY <1>2, SaysShows DEF Relayout, scanoutVars

LEMMA TakeNextPaneShows ==
  ASSUME Inv, LayoutsShow, TakeNextPane
  PROVE  LayoutsShow'
<1>1. UNCHANGED pendingLayouts
  BY DEF TakeNextPane, scanoutVars
<1>2. CASE UNCHANGED <<published, control>>
  BY <1>1, <1>2 DEF LayoutsShow, Sayings
<1>3. CASE ~UNCHANGED <<published, control>>
  <2>1. PICK slot \in DOMAIN published.panes :
            published' = [published EXCEPT !.focus = published.panes[slot]] /\ control' = Append(control, published')
    BY <1>3 DEF TakeNextPane
  <2>2. IsLayout(published) /\ ShowsFocus(published)
    BY LayoutsAreKnown DEF Inv, LayoutsShow
  <2>3. published'.panes = published.panes /\ published'.focus = published.panes[slot]
    BY <2>1, <2>2 DEF IsLayout
  <2>4. ShowsFocus(published')
    BY <2>2, <2>3 DEF ShowsFocus
  <2> QED
    BY <1>1, <2>1, <2>4, SaysShows
<1> QED
  BY <1>2, <1>3

LEMMA TypeInputs ==
  ASSUME Inv, InputsOK, NEW keys \in Reads, Type(keys)
  PROVE  InputsOK'
<1>1. \A i \in DOMAIN local' : local'[i] = keys \/ (i \in DOMAIN local /\ local'[i] = local[i])
  BY AppendIsSequence DEF Type, Inv, StreamsOK
<1> QED
  BY <1>1 DEF InputsOK

-----------------------------------------------------------------------------
(* The server and its environment, all of them *)

Serves ==
    \/ \E keys \in Reads : Type(keys)
    \/ \E key \in Characters \cup {Enter, Backspace} : Take(key)
    \/ TakeNextPane
    \/ \E pane \in Panes : Unasked(pane)
    \/ \E panes \in Arrangements, focus \in Panes : Relayout(panes, focus)
    \/ \E slot \in Slots : Publish(slot)
    \/ UNCHANGED vars

Renders == RenderLayout \/ (\E slot \in Slots : RenderFrame(slot)) \/ RenderReset

LEMMA StepIs == [Next]_vars => Renders \/ RenderLocalInput \/ Serves
BY DEF Next, Renders, Serves

\* Characters that are echoed in this step.
Echoes(key) == Take(key) /\ key \in Characters /\ terminal[published.focus].echo

LEMMA RendersDraws ==
  ASSUME Inv, CacheInv, NEW G, NEW S, Palettes(G, S), ScreenInv(G, S), Renders
  PROVE  Draws(G, S) /\ Lessens(Scanout.predictor, Scanout'.predictor, G)
BY RenderLayoutDraws, RenderFrameDraws, RenderResetDraws DEF Renders

LEMMA ServesInk ==
  ASSUME Inv, CacheInv, NEW G, NEW H, G \subseteq H, Palette(H), Printed \in H, WideOutput => WideLeft \in H,
         TerminalsInk(G), StreamsInk(G), LayoutsShow, InputsOK, Serves, \A key : Echoes(key) => key \in H
  PROVE  TerminalsInk(H)' /\ StreamsInk(H)' /\ LayoutsShow' /\ InputsOK' /\ UNCHANGED scanoutVars
<1>1. TerminalsInk(H) /\ StreamsInk(H)
  BY InkWithin, FrameInkWithin DEF TerminalsInk, StreamsInk
<1> DEFINE Goal == TerminalsInk(H)' /\ StreamsInk(H)' /\ LayoutsShow' /\ InputsOK' /\ UNCHANGED scanoutVars
<1>2. ASSUME UNCHANGED terminal PROVE TerminalsInk(H)'
  BY <1>1, <1>2 DEF TerminalsInk
<1>3. ASSUME UNCHANGED stream PROVE StreamsInk(H)'
  BY <1>1, <1>3, StreamsStayInk
<1>4. ASSUME UNCHANGED <<published, control>>, UNCHANGED scanoutVars PROVE LayoutsShow'
  BY <1>4 DEF LayoutsShow, Sayings, scanoutVars
<1>5. ASSUME UNCHANGED local PROVE InputsOK'
  BY <1>5 DEF InputsOK
<1>6. ASSUME NEW keys \in Reads, Type(keys) PROVE Goal
  <2>1. UNCHANGED <<terminal, stream, published, control>> /\ UNCHANGED scanoutVars
    BY <1>6 DEF Type
  <2> QED
    BY <1>2, <1>3, <1>4, <1>6, <2>1, TypeInputs
<1>7. ASSUME NEW key \in Characters \cup {Enter, Backspace}, Take(key) PROVE Goal
  <2>1. UNCHANGED <<stream, published, control, local>> /\ UNCHANGED scanoutVars
    BY <1>7 DEF Take
  <2>2. TerminalsInk(H)'
    BY <1>7, TakeInk DEF Echoes
  <2> QED
    BY <1>3, <1>4, <1>5, <2>1, <2>2
<1>8. CASE TakeNextPane
  <2>1. UNCHANGED <<terminal, stream, local>> /\ UNCHANGED scanoutVars
    BY <1>8 DEF TakeNextPane
  <2> QED
    BY <1>2, <1>3, <1>5, <1>8, <2>1, TakeNextPaneShows
<1>9. ASSUME NEW pane \in Panes, Unasked(pane) PROVE Goal
  <2>1. UNCHANGED <<stream, published, control, local>> /\ UNCHANGED scanoutVars
    BY <1>9 DEF Unasked
  <2>2. TerminalsInk(H)'
    BY <1>1, <1>9, UnaskedInk
  <2> QED
    BY <1>3, <1>4, <1>5, <2>1, <2>2
<1>10. ASSUME NEW panes, NEW focus, Relayout(panes, focus) PROVE Goal
  <2>1. UNCHANGED <<terminal, stream, local>> /\ UNCHANGED scanoutVars
    BY <1>10 DEF Relayout
  <2> QED
    BY <1>2, <1>3, <1>5, <1>10, <2>1, RelayoutShows
<1>11. ASSUME NEW slot \in Slots, Publish(slot) PROVE Goal
  <2>1. UNCHANGED <<published, control, local>> /\ UNCHANGED scanoutVars
    BY <1>11 DEF Publish
  <2>2. TerminalsInk(H)' /\ StreamsInk(H)'
    BY <1>1, <1>11, PublishInk
  <2> QED
    BY <1>4, <1>5, <2>1, <2>2
<1>12. CASE UNCHANGED vars
  <2>1. UNCHANGED <<terminal, stream, published, control, local>> /\ UNCHANGED scanoutVars
    BY <1>12 DEF vars, serverVars
  <2> QED
    BY <1>2, <1>3, <1>4, <1>5, <2>1
<1> QED
  BY <1>6, <1>7, <1>8, <1>9, <1>10, <1>11, <1>12 DEF Serves

LEMMA ServesScreen ==
  ASSUME Inv, CacheInv, NEW G, NEW S, NEW H, NEW U, G \subseteq H, S \subseteq U, Palettes(H, U), ScreenInv(G, S),
         Printed \in H, WideOutput => WideLeft \in H, Serves, \A key : Echoes(key) => key \in H,
         Earned(Scanout.predictor, H, U)
  PROVE  ScreenInv(H, U)' /\ Scanout' = Scanout
<1>1. Palette(H) /\ TerminalsInk(G) /\ StreamsInk(G) /\ LayoutsShow /\ InputsOK
  BY DEF ScreenInv, Palettes
<1>2. TerminalsInk(H)' /\ StreamsInk(H)' /\ LayoutsShow' /\ InputsOK' /\ UNCHANGED scanoutVars
  BY <1>1, ServesInk
<1> QED
  BY <1>2, ServesTo

LEMMA InitScreen ==
  ASSUME Init, NEW G, NEW S, Palettes(G, S)
  PROVE  ScreenInv(G, S) /\ Composes(Scanout)
<1>1. EmptyGrid \in [Cells -> G] /\ EmptyGrid \in [Cells -> S]
  BY DEF EmptyGrid, Palettes, Palette
<1>2. TerminalsInk(G) /\ StreamsInk(G)
  <2>1. \A p \in Panes : terminal[p].grid = EmptyGrid
    BY DEF Init
  <2>2. \A slot \in Slots : stream[slot] = <<>>
    BY DEF Init
  <2> QED
    BY <1>1, <2>1, <2>2 DEF TerminalsInk, StreamsInk
<1>3. ShowsFocus(published)
  <2>1. budget.panes \in Arrangements
    BY ScenariosAssumption DEF Init
  <2>2. PICK slot \in DOMAIN budget.panes :
            published = [revision |-> 1, panes |-> budget.panes, focus |-> budget.panes[slot]]
    BY DEF Init
  <2> QED
    BY <2>1, <2>2 DEF ShowsFocus
<1>4. LayoutsShow /\ InputsOK
  <2>1. pendingLayouts = {} /\ Sayings = {published} /\ local = <<>>
    BY DEF Init, Sayings
  <2> QED
    BY <1>3, <2>1 DEF LayoutsShow, InputsOK
<1> PICK s : s = Scanout
  OBVIOUS
<1>5. /\ s.layout = NoLayout /\ s.frames = <<>> /\ s.predictor = NoPrediction
      /\ s.cache = [slot \in Slots |-> EmptyGrid] /\ s.cursors = [slot \in Slots |-> None]
      /\ s.screen = [slot \in Slots |-> EmptyGrid]
  BY DEF Init, Scanout
<1>6. PredictsShown(s)
  BY <1>5 DEF PredictsShown, NoPrediction
<1>7. /\ PredictorFine(s.predictor) /\ TargetFine(s.predictor) /\ Earned(s.predictor, G, S)
      /\ \A slot : SeenIn(s.predictor, slot) = <<>>
  <2>1. s.predictor = clear(s.predictor)
    BY <1>5 DEF clear
  <2> QED
    BY <2>1, NoTargetFine
<1>8. HasTables(s) /\ HasScreens(s) /\ Inked(s, G, S)
  BY <1>1, <1>5, EmptyIsGrid DEF HasTables, HasScreens, Inked
<1>9. FramesHeld(s) /\ HeldInk(s, G)
  BY <1>5 DEF FramesHeld, HeldInk
<1>10. CursorsKnown(s)
  <2>1. DOMAIN NoLayout.panes = {}
    <3>1. NoLayout.panes = <<>>
      BY DEF NoLayout
    <3> QED
      BY <3>1
  <2> QED
    BY <1>5, <2>1 DEF CursorsKnown
<1>11. RenderFine(s, G, S)
  BY <1>7, <1>8, <1>9, <1>10 DEF RenderFine, ScanFine
<1>12. Composes(s)
  <2>1. Composed(EmptyGrid, <<>>) = EmptyGrid
    BY <1>1, ComposedNothing
  <2> QED
    BY <1>5, <1>7, <2>1 DEF Composes
<1> QED
  BY <1>2, <1>4, <1>6, <1>11, <1>12 DEF ScreenInv, Drawn

-----------------------------------------------------------------------------
(* What the user sees *)

NarrowInk == {Blank, Printed} \cup Characters

LEMMA NarrowPalette == Palettes(NarrowInk, NarrowInk) /\ Narrow(NarrowInk) /\ Printed \in NarrowInk
<1>1. Palette(NarrowInk) /\ Narrow(NarrowInk)
  BY GlyphsDiffer DEF Palette, Narrow, NarrowInk
<1> QED
  BY <1>1 DEF Palettes, NarrowInk

LEMMA NarrowEarned ==
  ASSUME NEW p
  PROVE  Earned(p, NarrowInk, NarrowInk)
<1> SUFFICES ASSUME NEW o, ScopeFine(p, o) PROVE Of(o.pending, NarrowInk)
  BY DEF Earned
<1>1. o.pending \in Seq(OpSet)
  BY DEF ScopeFine, IsScope
<1>2. \A i \in DOMAIN o.pending : o.pending[i].what \in Characters \cup {Blank}
  BY <1>1, OpsAre
<1> QED
  BY <1>2 DEF Of, NarrowInk

ComposedInv == ScreenInv(NarrowInk, NarrowInk) /\ Composes(Scanout)

LEMMA NextComposed == (~WideOutput /\ Inv /\ CacheInv /\ ComposedInv /\ [Next]_vars) => ComposedInv'
<1> SUFFICES ASSUME ~WideOutput, Inv, CacheInv, ComposedInv, [Next]_vars PROVE ComposedInv'
  OBVIOUS
<1> PICK G : G = NarrowInk
  OBVIOUS
<1>1. /\ Palettes(G, G) /\ Narrow(G) /\ Printed \in G /\ Earned(Scanout.predictor, G, G)
      /\ Earned(Scanout'.predictor, G, G) /\ ScreenInv(G, G)
  BY NarrowPalette, NarrowEarned DEF ComposedInv
<1>2. \A key : Echoes(key) => key \in G
  BY DEF Echoes, NarrowInk
<1>3. CASE Renders \/ RenderLocalInput
  <2>1. Draws(G, G)
    BY <1>1, <1>3, RendersDraws, RenderLocalInputDraws
  <2>2. Composes(Scanout')
    BY <1>1, <2>1 DEF Draws, StillComposes, ComposedInv
  <2> QED
    BY <2>1, <2>2 DEF Draws, ComposedInv
<1>4. CASE Serves
  <2>1. ScreenInv(G, G)' /\ Scanout' = Scanout
    BY <1>1, <1>2, <1>4, ServesScreen
  <2> QED
    BY <2>1 DEF ComposedInv
<1> QED
  BY <1>3, <1>4, StepIs

\* The screen is what the server has sent with the visible predictions on it, in every
\* slot, whatever comes in which order: what a frame confirms, contradicts or scrolls away,
\* and what local input takes back, is repaired from the cache (repairRemovedPredictions
\* prediction.go:655, repairSpans :669, emitFrame client.go:1912).  Of applications that
\* print no wide characters: repairing both halves of one leaves the screen behind.
THEOREM ScreenIsComposed ==
  ASSUME ~WideOutput
  PROVE  Spec => []ScreenShowsComposition
<1>1. Inv /\ ComposedInv => ScreenShowsComposition
  <2> SUFFICES ASSUME ComposedInv, NEW slot \in DOMAIN layout.panes
               PROVE  screen[slot] = Composed(cache[slot], SeenIn(predictor, slot))
    BY Zenon DEF ScreenShowsComposition, SeenIn
  <2>1. /\ Scanout.layout = layout /\ Scanout.cache = cache /\ Scanout.screen = screen
        /\ Scanout.predictor = predictor
    BY DEF Scanout
  <2>2. slot \in Slots
    <3>1. DOMAIN NoLayout.panes = {}
      <4>1. NoLayout.panes = <<>>
        BY DEF NoLayout
      <4> QED
        BY <4>1
    <3>2. layout.panes \in Arrangements
      BY <2>1, <3>1 DEF ComposedInv, ScreenInv, Drawn, PredictsShown, ShowsFocus
    <3> QED
      BY <3>2, ArrangedSlots
  <2> QED
    BY <2>1, <2>2 DEF ComposedInv, Composes
<1>2. Init => ComposedInv
  BY NarrowPalette, InitScreen DEF ComposedInv
<1>3. Inv /\ CacheInv /\ ComposedInv /\ [Next]_vars => ComposedInv'
  BY NextComposed
<1>4. Init => Inv /\ CacheInv
  BY InitInv, InitCacheInv
<1>5. Inv /\ CacheInv /\ [Next]_vars => Inv' /\ CacheInv'
  BY NextInv, NextCacheInv
<1> QED
  BY <1>1, <1>2, <1>3, <1>4, <1>5, PTL DEF Spec

-----------------------------------------------------------------------------
(* The keys on their way to the application, and what it does with them.  Of a world x: *)
(* the keys typed, the characters taken without an echo, whether the application echoes,  *)
(* how many characters have been typed, and the glyphs that have been on its grids.       *)

AllKeys == Characters \cup {Enter, Backspace, NextPane}

Hears(x) == x.echo

At(x, k, i) == i \in DOMAIN x.typed /\ x.typed[i] = k

Flies(x, k) == \E i : At(x, k, i)

\* No line ends among these keys.
Free(x, a, b) == \A i \in DOMAIN x.typed : a <= i /\ i <= b => x.typed[i] \notin Ends

Uncut(x) == \A i \in DOMAIN x.typed : x.typed[i] \notin Ends

\* Every character is typed once, and is on its way, or has been taken.
KeysOK(x) ==
    /\ x.typed \in Seq(AllKeys) /\ x.issued \in Nat
    /\ \A k \in Characters : k \in x.secret \/ k \in x.ink => k <= x.issued /\ ~Flies(x, k)
    /\ \A k \in Characters : k \in x.secret => k \notin x.ink
    /\ \A k \in Characters, i \in DOMAIN x.typed :
          x.typed[i] = k => k <= x.issued /\ \A j \in DOMAIN x.typed : x.typed[j] = k => j = i

\* A character that is echoed, or will be.
Safe(x, k) ==
    /\ k \notin x.secret /\ k <= x.issued
    /\ \A i : At(x, k, i) => Hears(x) /\ Free(x, 1, i)

\* No line has ended since.
Recent(x, k) ==
    /\ k <= x.issued
    /\ \A i : At(x, k, i) => \A j \in DOMAIN x.typed : i <= j => x.typed[j] \notin Ends
    /\ ~Flies(x, k) => Uncut(x) /\ (k \in x.secret => ~Hears(x)) /\ (k \in x.ink => Hears(x))

\* No line ends between them: when j is echoed k is.
Together(x, j, k) ==
    /\ j <= x.issued /\ k <= x.issued
    /\ j \in x.ink => Safe(x, k)
    /\ \A a, b : At(x, j, a) /\ At(x, k, b) => Free(x, a, b)
    /\ ~Flies(x, k) => \A a : At(x, j, a) => Free(x, 1, a) /\ (k \in x.secret => ~Hears(x))

\* The first key is taken, or disregarded.
Popped(x, y) ==
    /\ x.typed # <<>> /\ y.typed = Tail(x.typed) /\ y.issued = x.issued
    /\ x.typed[1] \notin Ends => (Hears(y) <=> Hears(x))
    /\ \A k \in y.secret : k \in x.secret \/ (k = x.typed[1] /\ ~Hears(x))
    /\ \A k \in Characters \cap y.ink : k \in x.ink \/ (k = x.typed[1] /\ Hears(x))

IsTail(t, u) ==
    /\ 1 \in DOMAIN t /\ u \in Seq(AllKeys)
    /\ \A i \in DOMAIN u : i \in Nat /\ i >= 1 /\ i + 1 \in DOMAIN t /\ u[i] = t[i + 1]
    /\ \A i \in DOMAIN t : i \in Nat /\ (i = 1 \/ (i - 1 \in DOMAIN u /\ u[i - 1] = t[i]))

LEMMA TailIs ==
  ASSUME NEW t \in Seq(AllKeys), t # <<>>
  PROVE  IsTail(t, Tail(t))
BY DEF IsTail

LEMMA CharactersGoOn ==
  /\ \A k \in Characters : k \notin Ends /\ k \in Nat /\ k > 0
  /\ MaxTyped \in Nat
BY KeysDiffer, SizesAssumption DEF Ends, Characters

LEMMA PoppedAt ==
  ASSUME NEW x, NEW y, KeysOK(x), Popped(x, y), NEW k
  PROVE  /\ \A i : At(y, k, i) => i \in Nat /\ i >= 1 /\ At(x, k, i + 1)
         /\ \A i : At(x, k, i) => i \in Nat /\ (i = 1 \/ At(y, k, i - 1))
         /\ 1 \in DOMAIN x.typed /\ x.typed[1] \in AllKeys
<1>1. IsTail(x.typed, y.typed)
  BY TailIs DEF KeysOK, Popped
<1>2. x.typed \in Seq(AllKeys)
  BY DEF KeysOK
<1> QED
  BY <1>1, <1>2 DEF IsTail, At

LEMMA PoppedFree ==
  ASSUME NEW x, NEW y, KeysOK(x), Popped(x, y), NEW a \in Int, NEW b \in Int, Free(x, a + 1, b + 1)
  PROVE  Free(y, a, b)
<1>1. IsTail(x.typed, y.typed)
  BY TailIs DEF KeysOK, Popped
<1> SUFFICES ASSUME NEW i \in DOMAIN y.typed, a <= i, i <= b PROVE y.typed[i] \notin Ends
  BY DEF Free
<1>2. i \in Nat /\ i + 1 \in DOMAIN x.typed /\ y.typed[i] = x.typed[i + 1]
  BY <1>1 DEF IsTail
<1>3. a + 1 <= i + 1 /\ i + 1 <= b + 1
  BY <1>2
<1> QED
  BY <1>2, <1>3 DEF Free

LEMMA PoppedUncut ==
  ASSUME NEW x, NEW y, KeysOK(x), Popped(x, y), Uncut(x)
  PROVE  Uncut(y) /\ (Hears(y) <=> Hears(x))
<1>1. IsTail(x.typed, y.typed)
  BY TailIs DEF KeysOK, Popped
<1> QED
  BY <1>1 DEF IsTail, Uncut, Popped

\* A character that comes first is not among the rest.
LEMMA PoppedOnce ==
  ASSUME NEW x, NEW y, KeysOK(x), Popped(x, y), NEW k \in Characters
  PROVE  /\ x.typed[1] = k => ~Flies(y, k) /\ k \notin x.secret /\ k \notin x.ink
         /\ x.typed[1] # k => \A i : At(x, k, i) => i \in Nat /\ At(y, k, i - 1)
         /\ ~Flies(x, k) => x.typed[1] # k /\ ~Flies(y, k)
<1>1. /\ \A i : At(y, k, i) => i \in Nat /\ i >= 1 /\ At(x, k, i + 1)
      /\ \A i : At(x, k, i) => i \in Nat /\ (i = 1 \/ At(y, k, i - 1))
      /\ 1 \in DOMAIN x.typed
  BY PoppedAt
<1>2. ASSUME x.typed[1] = k PROVE ~Flies(y, k) /\ k \notin x.secret /\ k \notin x.ink
  <2>1. At(x, k, 1)
    BY <1>1, <1>2 DEF At
  <2>2. k \notin x.secret /\ k \notin x.ink
    BY <2>1 DEF KeysOK, Flies
  <2>3. \A i : At(x, k, i) => i = 1
    BY <2>1 DEF KeysOK, At
  <2>4. ASSUME NEW i, At(y, k, i) PROVE FALSE
    <3>1. i \in Nat /\ i >= 1 /\ i + 1 = 1
      BY <1>1, <2>3, <2>4
    <3> QED
      BY <3>1
  <2> QED
    BY <2>2, <2>4 DEF Flies
<1>3. ASSUME x.typed[1] # k, NEW i, At(x, k, i) PROVE i \in Nat /\ At(y, k, i - 1)
  BY <1>1, <1>3 DEF At
<1>4. ASSUME ~Flies(x, k) PROVE x.typed[1] # k /\ ~Flies(y, k)
  BY <1>1, <1>4 DEF Flies, At
<1> QED
  BY <1>2, <1>3, <1>4

LEMMA PoppedKeysOK ==
  ASSUME NEW x, NEW y, KeysOK(x), Popped(x, y)
  PROVE  KeysOK(y)
<1>1. y.typed \in Seq(AllKeys) /\ y.issued = x.issued /\ IsTail(x.typed, y.typed)
  BY TailIs DEF KeysOK, Popped, IsTail
<1>2. ASSUME NEW k \in Characters, k \in y.secret \/ k \in y.ink PROVE k <= y.issued /\ ~Flies(y, k)
  <2>1. CASE x.typed[1] = k
    <3>1. At(x, k, 1)
      BY <2>1, PoppedAt DEF At
    <3> QED
      BY <1>1, <2>1, <3>1, PoppedOnce DEF KeysOK, At
  <2>2. CASE x.typed[1] # k
    <3>1. k \in x.secret \/ k \in x.ink
      BY <1>2, <2>2 DEF Popped
    <3> QED
      BY <1>1, <3>1, PoppedOnce DEF KeysOK
  <2> QED
    BY <2>1, <2>2
<1>3. ASSUME NEW k \in Characters, k \in y.secret PROVE k \notin y.ink
  <2>1. x.typed[1] = k => k \notin x.secret /\ k \notin x.ink
    BY PoppedOnce
  <2> QED
    BY <1>3, <2>1 DEF Popped, KeysOK
<1>4. ASSUME NEW k \in Characters, NEW i \in DOMAIN y.typed, y.typed[i] = k
      PROVE  k <= y.issued /\ \A j \in DOMAIN y.typed : y.typed[j] = k => j = i
  <2>1. \A j \in DOMAIN y.typed : j \in Nat /\ j + 1 \in DOMAIN x.typed /\ y.typed[j] = x.typed[j + 1]
    BY <1>1 DEF IsTail
  <2>2. k <= x.issued /\ \A j \in DOMAIN x.typed : x.typed[j] = k => j = i + 1
    BY <1>4, <2>1 DEF KeysOK
  <2>3. ASSUME NEW j \in DOMAIN y.typed, y.typed[j] = k PROVE j = i
    <3>1. i \in Nat /\ j \in Nat /\ j + 1 = i + 1
      BY <2>1, <2>2, <2>3
    <3> QED
      BY <3>1
  <2> QED
    BY <1>1, <2>2, <2>3
<1>5. y.issued \in Nat
  BY <1>1 DEF KeysOK
<1> QED
  BY <1>1, <1>2, <1>3, <1>4, <1>5 DEF KeysOK

LEMMA PoppedSafe ==
  ASSUME NEW x, NEW y, KeysOK(x), Popped(x, y), NEW k \in Characters, Safe(x, k)
  PROVE  Safe(y, k)
<1>1. y.issued = x.issued
  BY DEF Popped
<1>2. CASE x.typed[1] = k
  <2>1. At(x, k, 1)
    BY <1>2, PoppedAt DEF At
  <2>2. Hears(x) /\ k \notin y.secret
    BY <2>1 DEF Safe, Popped
  <2>3. ~Flies(y, k)
    BY <1>2, PoppedOnce
  <2> QED
    BY <1>1, <2>2, <2>3 DEF Safe, Flies
<1>3. CASE x.typed[1] # k
  <2>1. k \notin y.secret
    BY <1>3 DEF Safe, Popped
  <2>2. ASSUME NEW i, At(y, k, i) PROVE Hears(y) /\ Free(y, 1, i)
    <3>1. i \in Nat /\ i >= 1 /\ At(x, k, i + 1) /\ 1 \in DOMAIN x.typed
      BY <2>2, PoppedAt
    <3>2. Hears(x) /\ Free(x, 1, i + 1)
      BY <3>1 DEF Safe
    <3>3. x.typed[1] \notin Ends
      BY <3>1, <3>2 DEF Free
    <3>4. Free(x, 1 + 1, i + 1)
      BY <3>1, <3>2, PoppedAt DEF Free, KeysOK
    <3>5. Free(y, 1, i)
      BY <3>1, <3>4, PoppedFree
    <3> QED
      BY <3>2, <3>3, <3>5 DEF Popped
  <2> QED
    BY <1>1, <2>1, <2>2 DEF Safe
<1> QED
  BY <1>2, <1>3

LEMMA PoppedRecent ==
  ASSUME NEW x, NEW y, KeysOK(x), Popped(x, y), NEW k \in Characters, Recent(x, k)
  PROVE  Recent(y, k)
<1>1. y.issued = x.issued /\ IsTail(x.typed, y.typed)
  BY TailIs DEF KeysOK, Popped
<1>2. ASSUME NEW i, At(y, k, i), NEW j \in DOMAIN y.typed, i <= j PROVE y.typed[j] \notin Ends
  <2>1. i \in Nat /\ At(x, k, i + 1)
    BY <1>2, PoppedAt
  <2>2. j \in Nat /\ j + 1 \in DOMAIN x.typed /\ y.typed[j] = x.typed[j + 1]
    BY <1>1 DEF IsTail
  <2>3. i + 1 <= j + 1
    BY <1>2, <2>1, <2>2
  <2> QED
    BY <2>1, <2>2, <2>3 DEF Recent
<1>3. ASSUME ~Flies(y, k) PROVE Uncut(y) /\ (k \in y.secret => ~Hears(y)) /\ (k \in y.ink => Hears(y))
  <2>1. CASE Flies(x, k)
    <3>1. x.typed[1] = k
      BY <1>3, <2>1, PoppedOnce DEF Flies
    <3>2. At(x, k, 1)
      BY <3>1, PoppedAt DEF At
    <3>3. Uncut(x)
      <4> SUFFICES ASSUME NEW j \in DOMAIN x.typed PROVE x.typed[j] \notin Ends
        BY DEF Uncut
      <4>1. j \in Nat /\ 1 <= j
        BY <1>1 DEF IsTail
      <4> QED
        BY <3>2, <4>1 DEF Recent
    <3>4. Uncut(y) /\ (Hears(y) <=> Hears(x))
      BY <3>3, PoppedUncut
    <3>5. k \notin x.secret /\ k \notin x.ink
      BY <3>1, PoppedOnce
    <3> QED
      BY <3>4, <3>5 DEF Popped
  <2>2. CASE ~Flies(x, k)
    <3>1. Uncut(y) /\ (Hears(y) <=> Hears(x))
      BY <2>2, PoppedUncut DEF Recent
    <3>2. x.typed[1] # k
      BY <2>2, PoppedOnce
    <3> QED
      BY <2>2, <3>1, <3>2 DEF Popped, Recent
  <2> QED
    BY <2>1, <2>2
<1> QED
  BY <1>1, <1>2, <1>3 DEF Recent

LEMMA PoppedTogether ==
  ASSUME NEW x, NEW y, KeysOK(x), Popped(x, y), NEW j \in Characters, NEW k \in Characters,
         Together(x, j, k), Together(x, k, j)
  PROVE  Together(y, j, k)
<1>1. y.issued = x.issued /\ j <= y.issued /\ k <= y.issued
  BY DEF Popped, Together
<1>2. ASSUME j \in y.ink PROVE Safe(y, k)
  <2>1. CASE x.typed[1] = j
    <3>0. j \notin x.secret /\ j \notin x.ink /\ 1 \in DOMAIN x.typed
      BY <2>1, PoppedOnce, PoppedAt
    <3>1. j \notin x.secret /\ j \notin x.ink /\ Hears(x) /\ At(x, j, 1)
      BY <1>2, <2>1, <3>0 DEF Popped, At
    <3>2. k \notin x.secret
      <4>1. CASE Flies(x, k)
        BY <4>1 DEF KeysOK
      <4>2. CASE ~Flies(x, k)
        BY <3>1, <4>2 DEF Together
      <4> QED
        BY <4>1, <4>2
    <3>3. \A b : At(x, k, b) => Free(x, 1, b)
      BY <3>1 DEF Together
    <3>4. Safe(x, k)
      BY <1>1, <3>1, <3>2, <3>3 DEF Safe
    <3> QED
      BY <3>4, PoppedSafe
  <2>2. CASE x.typed[1] # j
    <3>1. j \in x.ink
      BY <1>2, <2>2 DEF Popped
    <3> QED
      BY <3>1, PoppedSafe DEF Together
  <2> QED
    BY <2>1, <2>2
<1>3. ASSUME NEW a, NEW b, At(y, j, a), At(y, k, b) PROVE Free(y, a, b)
  <2>1. a \in Nat /\ b \in Nat /\ At(x, j, a + 1) /\ At(x, k, b + 1)
    BY <1>3, PoppedAt
  <2>2. Free(x, a + 1, b + 1)
    BY <2>1 DEF Together
  <2> QED
    BY <2>1, <2>2, PoppedFree
<1>4. ASSUME ~Flies(y, k), NEW a, At(y, j, a) PROVE Free(y, 1, a) /\ (k \in y.secret => ~Hears(y))
  <2>1. a \in Nat /\ a >= 1 /\ At(x, j, a + 1) /\ IsTail(x.typed, y.typed)
    <3>1. IsTail(x.typed, y.typed)
      BY TailIs DEF KeysOK, Popped
    <3> QED
      BY <1>4, <3>1, PoppedAt
  <2>2. Free(x, 1, a + 1) /\ (k \in y.secret => ~Hears(x))
    <3>1. CASE x.typed[1] = k
      <4>1. At(x, k, 1) /\ k \notin x.secret
        BY <3>1, PoppedAt, PoppedOnce DEF At
      <4>2. Free(x, 1, a + 1)
        BY <2>1, <4>1 DEF Together
      <4> QED
        BY <4>1, <4>2 DEF Popped
    <3>2. CASE x.typed[1] # k
      <4>1. ~Flies(x, k)
        BY <1>4, <3>2, PoppedOnce DEF Flies
      <4>2. k \in y.secret => k \in x.secret
        BY <3>2 DEF Popped
      <4> QED
        BY <2>1, <4>1, <4>2 DEF Together
    <3> QED
      BY <3>1, <3>2
  <2>3. x.typed[1] \notin Ends
    BY <2>1, <2>2 DEF Free, IsTail
  <2>4. Free(x, 1 + 1, a + 1)
    <3> SUFFICES ASSUME NEW i \in DOMAIN x.typed, 1 + 1 <= i, i <= a + 1 PROVE x.typed[i] \notin Ends
      BY DEF Free
    <3>1. i \in Nat /\ 1 <= i
      BY <2>1 DEF IsTail
    <3> QED
      BY <2>2, <3>1 DEF Free
  <2>5. Free(y, 1, a)
    BY <2>1, <2>4, PoppedFree
  <2> QED
    BY <2>2, <2>3, <2>5 DEF Popped
<1> QED
  BY <1>1, <1>2, <1>3, <1>4 DEF Together

\* Characters since whose typing no line has ended share their fate.
LEMMA RecentTogether ==
  ASSUME NEW x, KeysOK(x), NEW j \in Characters, NEW k \in Characters, Recent(x, j), Recent(x, k)
  PROVE  Together(x, j, k)
<1>1. \A i \in DOMAIN x.typed : i \in Nat /\ i >= 1
  BY DEF KeysOK
<1>2. Uncut(x) => \A a, b : Free(x, a, b)
  BY DEF Uncut, Free
<1>3. ASSUME j \in x.ink PROVE Safe(x, k)
  <2>1. ~Flies(x, j) /\ Uncut(x) /\ Hears(x)
    BY <1>3 DEF KeysOK, Recent
  <2>2. k \notin x.secret
    BY <2>1 DEF KeysOK, Recent
  <2> QED
    BY <1>2, <2>1, <2>2 DEF Safe, Recent
<1>4. ASSUME NEW a, NEW b, At(x, j, a), At(x, k, b) PROVE Free(x, a, b)
  BY <1>4 DEF Recent, Free
<1>5. ASSUME ~Flies(x, k), NEW a, At(x, j, a) PROVE Free(x, 1, a) /\ (k \in x.secret => ~Hears(x))
  BY <1>2, <1>5 DEF Recent
<1> QED
  BY <1>3, <1>4, <1>5 DEF Together, Recent

\* A read is typed.
Pushed(x, y, keys) ==
    /\ y.typed = x.typed \o keys /\ y.issued = x.issued + Len(keys) /\ y.secret = x.secret
    /\ Hears(y) <=> Hears(x)
    /\ Characters \cap y.ink \subseteq x.ink
    /\ \A i \in DOMAIN keys : keys[i] \in Characters => keys[i] = x.issued + i

IsPushed(x, y, keys) ==
    /\ y.typed \in Seq(AllKeys) /\ y.issued \in Nat /\ x.issued <= y.issued
    /\ Len(x.typed) \in Nat /\ DOMAIN x.typed = 1 .. Len(x.typed)
    /\ \A i \in DOMAIN y.typed : i \in Nat /\ i >= 1 /\ (i <= Len(x.typed) => i \in DOMAIN x.typed)
    /\ \A i \in DOMAIN x.typed : i \in DOMAIN y.typed /\ y.typed[i] = x.typed[i]
    /\ \A i \in DOMAIN y.typed : i > Len(x.typed) =>
          \E j \in DOMAIN keys : i = Len(x.typed) + j /\ y.typed[i] = keys[j] /\ j \in Nat /\ j >= 1 /\ j <= Len(keys)

LEMMA ReadsAreKeys ==
  ASSUME NEW keys \in Reads
  PROVE  keys \in Seq(AllKeys) /\ Len(keys) \in Nat /\ DOMAIN keys = 1 .. Len(keys)
<1>1. CASE keys \in {<<k>> : k \in Characters \cup {Enter, Backspace, NextPane}}
  <2>1. PICK k \in AllKeys : keys = <<k>>
    BY <1>1 DEF AllKeys
  <2> QED
    BY <2>1
<1>2. CASE keys \in {<<k, c>> : k \in {Enter, Backspace}, c \in Characters}
  <2>1. PICK k \in AllKeys, c \in AllKeys : keys = <<k, c>>
    BY <1>2 DEF AllKeys
  <2> QED
    BY <2>1
<1> QED
  BY <1>1, <1>2 DEF Reads

LEMMA PushedIs ==
  ASSUME NEW x, NEW y, KeysOK(x), NEW keys \in Reads, Pushed(x, y, keys)
  PROVE  IsPushed(x, y, keys)
<1> PICK t, u : t = x.typed /\ u = y.typed
  OBVIOUS
<1>1. t \in Seq(AllKeys) /\ x.issued \in Nat
  BY DEF KeysOK
<1>2. keys \in Seq(AllKeys) /\ Len(keys) \in Nat /\ DOMAIN keys = 1 .. Len(keys)
  BY ReadsAreKeys
<1>3. u = t \o keys /\ y.issued = x.issued + Len(keys)
  BY DEF Pushed
<1>4. u \in Seq(AllKeys) /\ Len(u) = Len(t) + Len(keys) /\ Len(t) \in Nat /\ DOMAIN u = 1 .. Len(u) /\ DOMAIN t = 1 .. Len(t)
  BY <1>1, <1>2, <1>3
<1>5. \A i \in 1 .. Len(u) : u[i] = IF i <= Len(t) THEN t[i] ELSE keys[i - Len(t)]
  BY <1>1, <1>2, <1>3, <1>4
<1>6. ASSUME NEW i \in DOMAIN u, i > Len(t)
      PROVE  \E j \in DOMAIN keys : i = Len(t) + j /\ u[i] = keys[j] /\ j \in Nat /\ j >= 1 /\ j <= Len(keys)
  <2> PICK j : j = i - Len(t)
    OBVIOUS
  <2>1. j \in DOMAIN keys /\ i = Len(t) + j /\ j \in Nat /\ j >= 1 /\ j <= Len(keys)
    BY <1>2, <1>4, <1>6
  <2>2. u[i] = keys[j]
    BY <1>4, <1>5, <1>6
  <2> QED
    BY <2>1, <2>2
<1>7. y.issued \in Nat /\ x.issued <= y.issued
  BY <1>1, <1>2, <1>3
<1> QED
  BY <1>4, <1>5, <1>6, <1>7 DEF IsPushed

LEMMA PushedAt ==
  ASSUME NEW x, NEW y, KeysOK(x), NEW keys \in Reads, Pushed(x, y, keys), NEW k \in Characters, k <= x.issued
  PROVE  /\ \A i : At(y, k, i) => At(x, k, i) /\ i \in Nat /\ i <= Len(x.typed)
         /\ \A i : At(x, k, i) => At(y, k, i)
<1>1. IsPushed(x, y, keys) /\ x.issued \in Nat
  BY PushedIs DEF KeysOK
<1>2. ASSUME NEW i, At(y, k, i) PROVE At(x, k, i) /\ i \in Nat /\ i <= Len(x.typed)
  <2>1. i \in DOMAIN y.typed /\ y.typed[i] = k /\ i \in Nat /\ Len(x.typed) \in Nat
    BY <1>1, <1>2 DEF At, IsPushed
  <2>2. ASSUME i > Len(x.typed) PROVE FALSE
    <3>1. PICK j \in DOMAIN keys : keys[j] = k /\ j \in Nat /\ j >= 1
      BY <1>1, <2>1, <2>2 DEF IsPushed
    <3>2. k = x.issued + j
      BY <3>1 DEF Pushed
    <3> QED
      BY <1>1, <3>1, <3>2
  <2>3. i <= Len(x.typed)
    BY <2>1, <2>2
  <2> QED
    BY <1>1, <2>1, <2>3 DEF IsPushed, At
<1>3. ASSUME NEW i, At(x, k, i) PROVE At(y, k, i)
  BY <1>1, <1>3 DEF IsPushed, At
<1> QED
  BY <1>2, <1>3

LEMMA PushedFree ==
  ASSUME NEW x, NEW y, KeysOK(x), NEW keys \in Reads, Pushed(x, y, keys), NEW a, NEW b \in Nat, b <= Len(x.typed),
         Free(x, a, b)
  PROVE  Free(y, a, b)
<1> SUFFICES ASSUME NEW i \in DOMAIN y.typed, a <= i, i <= b PROVE y.typed[i] \notin Ends
  BY DEF Free
<1>1. IsPushed(x, y, keys)
  BY PushedIs
<1>2. i \in Nat /\ Len(x.typed) \in Nat
  BY <1>1 DEF IsPushed
<1>3. i <= Len(x.typed)
  BY <1>2
<1>4. i \in DOMAIN x.typed /\ y.typed[i] = x.typed[i]
  BY <1>1, <1>3 DEF IsPushed
<1> QED
  BY <1>4 DEF Free

\* At most one character is typed at once, after whatever else.
LEMMA ReadsEnd ==
  ASSUME NEW keys \in Reads
  PROVE  /\ \A i \in DOMAIN keys : keys[i] \in Characters => i = Len(keys)
         /\ keys[1] \notin Ends => \A i \in DOMAIN keys : keys[i] \notin Ends
<1>1. CASE keys \in {<<k>> : k \in Characters \cup {Enter, Backspace, NextPane}}
  <2>1. PICK k \in Characters \cup {Enter, Backspace, NextPane} : keys = <<k>>
    BY <1>1
  <2> QED
    BY <2>1
<1>2. CASE keys \in {<<k, c>> : k \in {Enter, Backspace}, c \in Characters}
  <2>1. PICK k \in {Enter, Backspace}, c \in Characters : keys = <<k, c>>
    BY <1>2
  <2>2. k \notin Characters /\ c \notin Ends
    BY KeysDiffer, CharactersGoOn
  <2>3. keys[1] = k /\ keys[2] = c /\ DOMAIN keys = {1, 2} /\ Len(keys) = 2
    BY <2>1
  <2> QED
    BY <2>2, <2>3
<1> QED
  BY <1>1, <1>2 DEF Reads

LEMMA PushedKeysOK ==
  ASSUME NEW x, NEW y, KeysOK(x), NEW keys \in Reads, Pushed(x, y, keys)
  PROVE  KeysOK(y)
<1>1. IsPushed(x, y, keys) /\ x.issued \in Nat
  BY PushedIs DEF KeysOK
<1>2. y.typed \in Seq(AllKeys) /\ y.issued \in Nat /\ x.issued <= y.issued
  BY <1>1 DEF IsPushed
<1>3. ASSUME NEW k \in Characters, k \in y.secret \/ k \in y.ink PROVE k <= y.issued /\ ~Flies(y, k)
  <2>1. (k \in x.secret \/ k \in x.ink) /\ k \in Nat
    BY <1>3, CharactersGoOn DEF Pushed
  <2>2. k <= x.issued /\ ~Flies(x, k)
    BY <2>1 DEF KeysOK
  <2>3. ~Flies(y, k)
    BY <2>2, PushedAt DEF Flies
  <2> QED
    BY <1>1, <1>2, <2>1, <2>2, <2>3
<1>4. \A k \in Characters : k \in y.secret => k \notin y.ink
  BY DEF Pushed, KeysOK
<1>5. ASSUME NEW k \in Characters, NEW i \in DOMAIN y.typed, y.typed[i] = k
      PROVE  k <= y.issued /\ \A j \in DOMAIN y.typed : y.typed[j] = k => j = i
  <2>1. k \in Nat /\ i \in Nat /\ Len(x.typed) \in Nat
    BY <1>1, CharactersGoOn DEF IsPushed
  <2>2. CASE k <= x.issued
    <3>1. At(y, k, i)
      BY <1>5 DEF At
    <3>2. At(x, k, i)
      BY <2>2, <3>1, PushedAt
    <3>3. ASSUME NEW j \in DOMAIN y.typed, y.typed[j] = k PROVE j = i
      <4>1. At(y, k, j)
        BY <3>3 DEF At
      <4>2. At(x, k, j)
        BY <2>2, <4>1, PushedAt
      <4> QED
        BY <3>2, <4>2 DEF KeysOK, At
    <3>4. k <= y.issued
      BY <1>1, <1>2, <2>1, <2>2
    <3> QED
      BY <3>3, <3>4
  <2>3. CASE k > x.issued
    <3>1. \A j \in DOMAIN y.typed : y.typed[j] = k => j > Len(x.typed)
      <4> SUFFICES ASSUME NEW j \in DOMAIN y.typed, y.typed[j] = k, ~(j > Len(x.typed)) PROVE FALSE
        OBVIOUS
      <4>1. j \in Nat
        BY <1>1 DEF IsPushed
      <4>2. j <= Len(x.typed)
        BY <2>1, <4>1
      <4>3. j \in DOMAIN x.typed /\ x.typed[j] = k
        BY <1>1, <4>2 DEF IsPushed
      <4>4. k <= x.issued
        BY <4>3 DEF KeysOK
      <4> QED
        BY <1>1, <2>1, <2>3, <4>4
    <3>2. \A j \in DOMAIN y.typed : y.typed[j] = k => j = Len(x.typed) + Len(keys) /\ k = x.issued + Len(keys)
      <4> SUFFICES ASSUME NEW j \in DOMAIN y.typed, y.typed[j] = k
                   PROVE  j = Len(x.typed) + Len(keys) /\ k = x.issued + Len(keys)
        OBVIOUS
      <4>1. PICK m \in DOMAIN keys : j = Len(x.typed) + m /\ keys[m] = k
        BY <1>1, <3>1 DEF IsPushed
      <4>2. m = Len(keys) /\ k = x.issued + m
        BY <4>1, ReadsEnd DEF Pushed
      <4> QED
        BY <4>1, <4>2
    <3>3. y.issued = x.issued + Len(keys)
      BY DEF Pushed
    <3> QED
      BY <1>2, <1>5, <2>1, <3>2, <3>3
  <2> QED
    BY <1>1, <2>1, <2>2, <2>3
<1> QED
  BY <1>2, <1>3, <1>4, <1>5 DEF KeysOK

LEMMA PushedSafe ==
  ASSUME NEW x, NEW y, KeysOK(x), NEW keys \in Reads, Pushed(x, y, keys), NEW k \in Characters, Safe(x, k)
  PROVE  Safe(y, k)
<1>1. k <= x.issued /\ k \in Nat /\ x.issued \in Nat /\ IsPushed(x, y, keys)
  BY CharactersGoOn, PushedIs DEF Safe, KeysOK
<1>2. k <= y.issued
  BY <1>1 DEF IsPushed
<1>3. ASSUME NEW i, At(y, k, i) PROVE Hears(y) /\ Free(y, 1, i)
  <2>1. At(x, k, i) /\ i \in Nat /\ i <= Len(x.typed)
    BY <1>1, <1>3, PushedAt
  <2>2. Hears(x) /\ Free(x, 1, i)
    BY <2>1 DEF Safe
  <2> QED
    BY <2>1, <2>2, PushedFree DEF Pushed
<1> QED
  BY <1>2, <1>3 DEF Safe, Pushed

LEMMA PushedTogether ==
  ASSUME NEW x, NEW y, KeysOK(x), NEW keys \in Reads, Pushed(x, y, keys), NEW j \in Characters, NEW k \in Characters,
         Together(x, j, k)
  PROVE  Together(y, j, k)
<1>1. /\ j <= x.issued /\ k <= x.issued /\ j \in Nat /\ k \in Nat /\ x.issued \in Nat
      /\ IsPushed(x, y, keys)
  BY CharactersGoOn, PushedIs DEF Together, KeysOK
<1>2. j <= y.issued /\ k <= y.issued
  BY <1>1 DEF IsPushed
<1>3. ASSUME j \in y.ink PROVE Safe(y, k)
  BY <1>3, PushedSafe DEF Together, Pushed
<1>4. ASSUME NEW a, NEW b, At(y, j, a), At(y, k, b) PROVE Free(y, a, b)
  <2>1. At(x, j, a) /\ At(x, k, b) /\ b \in Nat /\ b <= Len(x.typed)
    BY <1>1, <1>4, PushedAt
  <2>2. Free(x, a, b)
    BY <2>1 DEF Together
  <2> QED
    BY <2>1, <2>2, PushedFree
<1>5. ASSUME ~Flies(y, k), NEW a, At(y, j, a) PROVE Free(y, 1, a) /\ (k \in y.secret => ~Hears(y))
  <2>1. At(x, j, a) /\ a \in Nat /\ a <= Len(x.typed)
    BY <1>1, <1>5, PushedAt
  <2>2. ~Flies(x, k)
    BY <1>1, <1>5, PushedAt DEF Flies
  <2>3. Free(x, 1, a) /\ (k \in x.secret => ~Hears(x))
    BY <2>1, <2>2 DEF Together
  <2> QED
    BY <2>1, <2>3, PushedFree DEF Pushed
<1> QED
  BY <1>2, <1>3, <1>4, <1>5 DEF Together

LEMMA PushedUncut ==
  ASSUME NEW x, NEW y, KeysOK(x), NEW keys \in Reads, Pushed(x, y, keys), keys[1] \notin Ends, Uncut(x)
  PROVE  Uncut(y)
<1> SUFFICES ASSUME NEW i \in DOMAIN y.typed PROVE y.typed[i] \notin Ends
  BY DEF Uncut
<1>1. IsPushed(x, y, keys)
  BY PushedIs
<1>2. i \in Nat /\ Len(x.typed) \in Nat
  BY <1>1 DEF IsPushed
<1>3. CASE i <= Len(x.typed)
  BY <1>1, <1>3 DEF IsPushed, Uncut
<1>4. CASE i > Len(x.typed)
  BY <1>1, <1>4, ReadsEnd DEF IsPushed
<1> QED
  BY <1>2, <1>3, <1>4

LEMMA PushedRecent ==
  ASSUME NEW x, NEW y, KeysOK(x), NEW keys \in Reads, Pushed(x, y, keys), keys[1] \notin Ends,
         NEW k \in Characters, Recent(x, k)
  PROVE  Recent(y, k)
<1>1. k <= x.issued /\ k \in Nat /\ x.issued \in Nat /\ IsPushed(x, y, keys)
  BY CharactersGoOn, PushedIs DEF Recent, KeysOK
<1>2. k <= y.issued
  BY <1>1 DEF IsPushed
<1>3. ASSUME NEW i, At(y, k, i), NEW j \in DOMAIN y.typed, i <= j PROVE y.typed[j] \notin Ends
  <2>1. At(x, k, i)
    BY <1>1, <1>3, PushedAt
  <2>2. j \in Nat /\ Len(x.typed) \in Nat
    BY <1>1 DEF IsPushed
  <2>3. CASE j <= Len(x.typed)
    <3>1. j \in DOMAIN x.typed /\ y.typed[j] = x.typed[j]
      BY <1>1, <2>3 DEF IsPushed
    <3> QED
      BY <1>3, <2>1, <3>1 DEF Recent
  <2>4. CASE j > Len(x.typed)
    BY <1>1, <2>4, ReadsEnd DEF IsPushed
  <2> QED
    BY <2>2, <2>3, <2>4
<1>4. ASSUME ~Flies(y, k) PROVE Uncut(y) /\ (k \in y.secret => ~Hears(y)) /\ (k \in y.ink => Hears(y))
  <2>1. ~Flies(x, k)
    BY <1>1, <1>4, PushedAt DEF Flies
  <2> QED
    BY <2>1, PushedUncut DEF Recent, Pushed
<1> QED
  BY <1>2, <1>3, <1>4 DEF Recent

\* What is typed has no line ended since.
LEMMA PushedIsRecent ==
  ASSUME NEW x, NEW y, KeysOK(x), NEW keys \in Reads, Pushed(x, y, keys), NEW k \in CharactersOf(keys)
  PROVE  k \in Characters /\ Recent(y, k)
<1>1. IsPushed(x, y, keys) /\ KeysOK(y)
  BY PushedIs, PushedKeysOK
<1>2. PICK m \in DOMAIN keys : keys[m] = k /\ k \in Characters
  BY DEF CharactersOf
<1>3. m = Len(keys) /\ k = x.issued + m /\ y.issued = x.issued + Len(keys) /\ y.issued \in Nat /\ x.issued \in Nat
  BY <1>1, <1>2, ReadsEnd DEF Pushed, KeysOK
<1>4. Len(keys) \in Nat /\ DOMAIN keys = 1 .. Len(keys) /\ Len(x.typed) \in Nat
  BY <1>1, ReadsAre DEF IsPushed
<1> PICK n : n = Len(x.typed) + Len(keys)
  OBVIOUS
<1>5. y.typed = x.typed \o keys /\ Len(y.typed) = n /\ DOMAIN y.typed = 1 .. n
  <2>1. y.typed = x.typed \o keys /\ x.typed \in Seq(AllKeys) /\ y.typed \in Seq(AllKeys)
    BY <1>1 DEF Pushed, KeysOK
  <2>2. keys \in Seq(AllKeys)
    BY ReadsAreKeys
  <2> QED
    BY <2>1, <2>2
<1>6. At(y, k, n)
  <2>1. n \in 1 .. n
    BY <1>2, <1>3, <1>4
  <2>2. n > Len(x.typed)
    BY <1>2, <1>3, <1>4
  <2>3. PICK j \in DOMAIN keys : n = Len(x.typed) + j /\ y.typed[n] = keys[j]
    BY <1>1, <1>5, <2>1, <2>2 DEF IsPushed
  <2>4. j = m
    BY <1>3, <1>4, <2>3
  <2> QED
    BY <1>2, <1>5, <2>1, <2>3, <2>4 DEF At
<1>7. ASSUME NEW i, At(y, k, i), NEW j \in DOMAIN y.typed, i <= j PROVE y.typed[j] \notin Ends
  <2>1. i = n
    BY <1>1, <1>2, <1>6, <1>7 DEF KeysOK, At
  <2>2. j = n
    BY <1>4, <1>5, <1>7, <2>1
  <2> QED
    BY <1>2, <1>6, <2>2, CharactersGoOn DEF At
<1>8. k <= y.issued
  BY <1>3
<1> QED
  BY <1>2, <1>6, <1>7, <1>8 DEF Recent, Flies

-----------------------------------------------------------------------------
(* Predictions against what becomes of the keys *)

Chars(o) == Characters \cap {o.pending[i].what : i \in DOMAIN o.pending}

\* When one character of a scope is echoed all of it is, or will be.
Shares(x, o) ==
    /\ \A j, k \in Chars(o) : Together(x, j, k)
    /\ o.trusted => \A k \in Chars(o) : Safe(x, k)

\* An open scope is of the line being typed.
OfLine(x, o) ==
    /\ \A k \in Chars(o) : Recent(x, k)
    /\ o.trusted => Hears(x) /\ Uncut(x)

Scopes(x, p) == \A o : ScopeFine(p, o) => Shares(x, o)

OpenScopes(x, p) == \A o : ScopeFine(p, o) /\ ~o.closed => OfLine(x, o)

LEMMA CharsAre ==
  ASSUME NEW p, NEW o, ScopeFine(p, o)
  PROVE  \A i \in DOMAIN o.pending : o.pending[i].what = Blank \/ o.pending[i].what \in Chars(o)
<1>1. o.pending \in Seq(OpSet)
  BY DEF ScopeFine, IsScope
<1>2. \A i \in DOMAIN o.pending : o.pending[i].what \in Characters \cup {Blank}
  BY <1>1, OpsAre
<1> QED
  BY <1>2 DEF Chars

LEMMA PoppedScopes ==
  ASSUME NEW x, NEW y, KeysOK(x), Popped(x, y), NEW p
  PROVE  (Scopes(x, p) => Scopes(y, p)) /\ (OpenScopes(x, p) => OpenScopes(y, p))
<1>1. ASSUME Scopes(x, p), NEW o, ScopeFine(p, o) PROVE Shares(y, o)
  <2>1. Shares(x, o) /\ \A k \in Chars(o) : k \in Characters
    BY <1>1 DEF Scopes, Chars
  <2>2. ASSUME NEW j \in Chars(o), NEW k \in Chars(o) PROVE Together(y, j, k)
    <3>1. j \in Characters /\ k \in Characters /\ Together(x, j, k) /\ Together(x, k, j)
      BY <2>1 DEF Shares
    <3> QED
      BY <3>1, PoppedTogether
  <2>3. ASSUME o.trusted, NEW k \in Chars(o) PROVE Safe(y, k)
    BY <2>1, <2>3, PoppedSafe DEF Shares
  <2> QED
    BY <2>2, <2>3 DEF Shares
<1>2. ASSUME OpenScopes(x, p), NEW o, ScopeFine(p, o), ~o.closed PROVE OfLine(y, o)
  <2>1. OfLine(x, o) /\ \A k \in Chars(o) : k \in Characters
    BY <1>2 DEF OpenScopes, Chars
  <2>2. ASSUME NEW k \in Chars(o) PROVE Recent(y, k)
    <3>1. Recent(x, k) /\ k \in Characters
      BY <2>1 DEF OfLine
    <3> QED
      BY <3>1, PoppedRecent
  <2>3. ASSUME o.trusted PROVE Hears(y) /\ Uncut(y)
    BY <2>1, <2>3, PoppedUncut DEF OfLine
  <2> QED
    BY <2>2, <2>3 DEF OfLine
<1> QED
  BY <1>1, <1>2 DEF Scopes, OpenScopes

LEMMA PushedScopes ==
  ASSUME NEW x, NEW y, KeysOK(x), NEW keys \in Reads, Pushed(x, y, keys), NEW p
  PROVE  /\ Scopes(x, p) => Scopes(y, p)
         /\ keys[1] \notin Ends /\ OpenScopes(x, p) => OpenScopes(y, p)
<1>1. ASSUME Scopes(x, p), NEW o, ScopeFine(p, o) PROVE Shares(y, o)
  <2>1. Shares(x, o) /\ \A k \in Chars(o) : k \in Characters
    BY <1>1 DEF Scopes, Chars
  <2>2. ASSUME NEW j \in Chars(o), NEW k \in Chars(o) PROVE Together(y, j, k)
    <3>1. j \in Characters /\ k \in Characters /\ Together(x, j, k)
      BY <2>1 DEF Shares
    <3> QED
      BY <3>1, PushedTogether
  <2>3. ASSUME o.trusted, NEW k \in Chars(o) PROVE Safe(y, k)
    <3>1. k \in Characters /\ Safe(x, k)
      BY <2>1, <2>3 DEF Shares
    <3> QED
      BY <3>1, PushedSafe
  <2> QED
    BY <2>2, <2>3 DEF Shares
<1>2. ASSUME keys[1] \notin Ends, OpenScopes(x, p), NEW o, ScopeFine(p, o), ~o.closed PROVE OfLine(y, o)
  <2>1. OfLine(x, o) /\ \A k \in Chars(o) : k \in Characters
    BY <1>2 DEF OpenScopes, Chars
  <2>2. ASSUME NEW k \in Chars(o) PROVE Recent(y, k)
    <3>1. Recent(x, k) /\ k \in Characters
      BY <2>1 DEF OfLine
    <3> QED
      BY <1>2, <3>1, PushedRecent
  <2>3. ASSUME o.trusted PROVE Hears(y) /\ Uncut(y)
    BY <1>2, <2>1, <2>3, PushedUncut DEF OfLine, Pushed
  <2> QED
    BY <2>2, <2>3 DEF OfLine
<1> QED
  BY <1>1, <1>2 DEF Scopes, OpenScopes

\* What a frame makes of the predictions: characters that are confirmed have been echoed.
LEMMA LessensScopes ==
  ASSUME NEW x, KeysOK(x), NEW p, NEW q, Lessens(p, q, x.ink), Scopes(x, p)
  PROVE  Scopes(x, q) /\ (OpenScopes(x, p) => OpenScopes(x, q))
<1> SUFFICES ASSUME NEW r, ScopeFine(q, r)
             PROVE  Shares(x, r) /\ (OpenScopes(x, p) /\ ~r.closed => OfLine(x, r))
  BY DEF Scopes, OpenScopes
<1>1. q.scopes # <<>>
  BY OneIsSome DEF ScopeFine
<1>2. PICK o, u : /\ ScopeFine(p, o) /\ ScopeFine(q, u) /\ u.closed = o.closed
                  /\ \A i \in DOMAIN u.pending : \E j \in DOMAIN o.pending : u.pending[i] = o.pending[j]
                  /\ u.trusted => \/ o.trusted
                                  \/ \E j \in DOMAIN o.pending : o.pending[j].what \in x.ink /\ o.pending[j].what # Blank
  BY <1>1, Zenon DEF Lessens
<1>3. u = r
  BY <1>2, ScopeIsOne
<1>4. Chars(r) \subseteq Chars(o) /\ \A k \in Chars(o) : k \in Characters
  BY <1>2, <1>3 DEF Chars
<1>5. Shares(x, o)
  BY <1>2 DEF Scopes
<1>6. r.trusted => o.trusted \/ \E k \in Chars(o) : k \in x.ink
  BY <1>2, <1>3, CharsAre
<1>7. Shares(x, r)
  <2>1. ASSUME NEW k \in Chars(o), k \in x.ink, NEW j \in Chars(r) PROVE Safe(x, j)
    BY <1>4, <1>5, <2>1 DEF Shares, Together
  <2> QED
    BY <1>4, <1>5, <1>6, <2>1 DEF Shares
<1>8. ASSUME OpenScopes(x, p), ~r.closed PROVE OfLine(x, r)
  <2>1. OfLine(x, o)
    BY <1>2, <1>3, <1>8 DEF OpenScopes
  <2>2. ASSUME NEW k \in Chars(o), k \in x.ink PROVE Hears(x) /\ Uncut(x)
    <3>1. Recent(x, k) /\ k \in Characters
      BY <1>4, <2>1, <2>2 DEF OfLine
    <3>2. ~Flies(x, k)
      BY <2>2, <3>1 DEF KeysOK
    <3> QED
      BY <2>2, <3>1, <3>2 DEF Recent
  <2> QED
    BY <1>4, <1>6, <2>1, <2>2 DEF OfLine
<1> QED
  BY <1>7, <1>8

\* A character of the line being typed is safe when the application echoes the line.
LEMMA RecentIsSafe ==
  ASSUME NEW x, KeysOK(x), NEW k \in Characters, Recent(x, k), Hears(x), Uncut(x)
  PROVE  Safe(x, k)
<1>1. k \notin x.secret
  BY DEF Recent, KeysOK
<1>2. \A i : Free(x, 1, i)
  BY DEF Free, Uncut
<1> QED
  BY <1>1, <1>2 DEF Safe, Recent

\* What local input makes of them.
LEMMA AnswersScopes ==
  ASSUME NEW x, KeysOK(x), NEW p, NEW q, NEW keys, Answers(p, q, keys), Scopes(x, p),
         \/ keys[1] \in Ends
         \/ OpenScopes(x, p) /\ \A k \in CharactersOf(keys) : Recent(x, k)
  PROVE  Scopes(x, q) /\ OpenScopes(x, q)
<1> SUFFICES ASSUME NEW r, ScopeFine(q, r)
             PROVE  Shares(x, r) /\ (~r.closed => OfLine(x, r))
  BY DEF Scopes, OpenScopes
<1>1. q.scopes # <<>>
  BY OneIsSome DEF ScopeFine
<1>2. \A k \in Chars(r) : k \in Characters /\ k # Blank
  BY GlyphsDiffer DEF Chars
<1>3. CASE keys[1] \in Ends
  <2>1. r.closed /\ Grows(p, q, {})
    BY <1>3 DEF Answers
  <2>2. PICK o, u : ScopeFine(p, o) /\ ScopeFine(q, u) /\ Lengthens(o, u, {})
    <3>1. ASSUME NEW u, ScopeFine(q, u), ~u.closed PROVE FALSE
      BY <2>1, <3>1, ScopeIsOne
    <3> QED
      BY <1>1, <2>1, <3>1 DEF Grows
  <2>3. u = r
    BY <2>2, ScopeIsOne
  <2>4. ASSUME NEW k \in Chars(r) PROVE k \in Chars(o)
    <3>1. PICK i \in DOMAIN r.pending : r.pending[i].what = k /\ k \in Characters /\ k # Blank
      BY <1>2 DEF Chars
    <3>2. PICK j \in DOMAIN o.pending : r.pending[i].what = o.pending[j].what
      BY <2>2, <2>3, <3>1 DEF Lengthens
    <3> QED
      BY <3>1, <3>2 DEF Chars
  <2>5. Shares(x, o) /\ r.trusted = o.trusted
    BY <2>2, <2>3 DEF Scopes, Lengthens
  <2> QED
    BY <2>1, <2>4, <2>5 DEF Shares
<1>4. CASE keys[1] \notin Ends
  <2> PICK K : K = CharactersOf(keys)
    OBVIOUS
  <2>1. Grows(p, q, K) /\ OpenScopes(x, p) /\ \A k \in K : Recent(x, k)
    BY <1>4 DEF Answers
  <2>2. ASSUME \A k \in Chars(r) : Recent(x, k), r.trusted => Hears(x) /\ Uncut(x)
        PROVE  Shares(x, r) /\ OfLine(x, r)
    <3>1. \A j, k \in Chars(r) : Together(x, j, k)
      BY <1>2, <2>2, RecentTogether
    <3>2. r.trusted => \A k \in Chars(r) : Safe(x, k)
      BY <1>2, <2>2, RecentIsSafe
    <3> QED
      BY <2>2, <3>1, <3>2 DEF Shares, OfLine
  <2>3. ASSUME NEW u, ScopeFine(q, u), ~u.trusted, ~u.closed, Of(u.pending, K)
        PROVE  Shares(x, r) /\ OfLine(x, r)
    <3>1. u = r
      BY <2>3, ScopeIsOne
    <3>2. \A k \in Chars(r) : k \in K
      BY <1>2, <2>3, <3>1 DEF Of, Chars
    <3> QED
      BY <2>1, <2>2, <2>3, <3>1, <3>2
  <2>4. ASSUME NEW o, NEW u, ScopeFine(p, o), ScopeFine(q, u), Lengthens(o, u, K)
        PROVE  Shares(x, r) /\ (~r.closed => OfLine(x, r))
    <3>1. u = r
      BY <2>4, ScopeIsOne
    <3>2. r.trusted = o.trusted /\ (o.closed => r.closed) /\ Shares(x, o)
      BY <2>4, <3>1 DEF Lengthens, Scopes
    <3>3. ASSUME NEW k \in Chars(r) PROVE k \in Chars(o) \/ (k \in K /\ ~o.closed)
      <4>1. PICK i \in DOMAIN r.pending : r.pending[i].what = k /\ k \in Characters /\ k # Blank
        BY <1>2, <3>3 DEF Chars
      <4>2. \/ k \in K /\ ~o.closed
            \/ \E j \in DOMAIN o.pending : k = o.pending[j].what
        BY <2>4, <3>1, <4>1 DEF Lengthens
      <4> QED
        BY <4>1, <4>2 DEF Chars
    <3>4. CASE o.closed
      <4>1. Chars(r) \subseteq Chars(o)
        BY <3>3, <3>4
      <4> QED
        BY <3>2, <3>4, <4>1 DEF Shares
    <3>5. CASE ~o.closed
      <4>1. OfLine(x, o)
        BY <2>1, <2>4, <3>5 DEF OpenScopes
      <4>2. \A k \in Chars(r) : Recent(x, k)
        BY <2>1, <3>3, <4>1 DEF OfLine
      <4>3. r.trusted => Hears(x) /\ Uncut(x)
        BY <3>2, <4>1 DEF OfLine
      <4> QED
        BY <2>2, <4>2, <4>3
    <3> QED
      BY <3>4, <3>5
  <2> QED
    BY <1>1, <2>1, <2>3, <2>4 DEF Grows
<1> QED
  BY <1>3, <1>4

\* What may be on the screen: what is printed, and characters that are echoed.
PlainInk == {Blank, Printed, WideLeft, WideRight}

SafeInk(x) == PlainInk \cup {k \in Characters : Safe(x, k)}

LEMMA ScopesEarned ==
  ASSUME NEW x, NEW p, Scopes(x, p)
  PROVE  Earned(p, x.ink, SafeInk(x))
<1> SUFFICES ASSUME NEW o, ScopeFine(p, o)
             PROVE  \/ Of(o.pending, SafeInk(x))
                    \/ ~o.trusted /\ \A j \in DOMAIN o.pending : o.pending[j].what \in x.ink => o.pending[j].what = Blank
  BY DEF Earned
<1>1. Shares(x, o) /\ \A k \in Chars(o) : k \in Characters
  BY DEF Scopes, Chars
<1>2. \A i \in DOMAIN o.pending : o.pending[i].what = Blank \/ o.pending[i].what \in Chars(o)
  BY CharsAre
<1>3. ASSUME \A k \in Chars(o) : Safe(x, k) PROVE Of(o.pending, SafeInk(x))
  BY <1>1, <1>2, <1>3 DEF Of, SafeInk
<1>4. CASE o.trusted
  BY <1>1, <1>3, <1>4 DEF Shares
<1>5. ASSUME NEW j \in DOMAIN o.pending, o.pending[j].what \in x.ink, o.pending[j].what # Blank
      PROVE  Of(o.pending, SafeInk(x))
  <2>1. o.pending[j].what \in Chars(o)
    BY <1>2, <1>5
  <2>2. \A k \in Chars(o) : Safe(x, k)
    BY <1>1, <1>5, <2>1 DEF Shares, Together
  <2> QED
    BY <1>3, <2>2
<1> QED
  BY <1>4, <1>5

LEMMA SafePalettes ==
  ASSUME NEW x, KeysOK(x), PlainInk \subseteq x.ink, x.ink \subseteq PlainInk \cup Characters
  PROVE  Palettes(x.ink, SafeInk(x)) /\ Printed \in x.ink /\ WideLeft \in x.ink
<1>1. \A k \in Characters \cap x.ink : Safe(x, k)
  BY DEF KeysOK, Safe, Flies
<1>2. x.ink \subseteq SafeInk(x)
  BY <1>1 DEF SafeInk
<1>3. Palette(x.ink) /\ Palette(SafeInk(x))
  BY DEF Palette, SafeInk, PlainInk
<1> QED
  BY <1>2, <1>3 DEF Palettes, PlainInk

-----------------------------------------------------------------------------
(* The world of a state: whether the application of the focused pane echoes is for what  *)
(* is typed, as long as nothing but a key moves the focus.                                *)

Echo == terminal[published.focus].echo

World(G) ==
    [typed |-> typed, secret |-> secret, echo |-> Echo, issued |-> MaxTyped - budget.typed, ink |-> G]

BudgetOK ==
    /\ budget = [panes |-> budget.panes, typed |-> budget.typed, printed |-> budget.printed,
                 layouts |-> budget.layouts, resets |-> budget.resets]
    /\ budget.typed \in 0 .. MaxTyped

\* The focus is moved by the key that moves it, and by nothing else.
FocusStays == published'.focus # published.focus => TakeNextPane

LEMMA TypeBudget ==
  ASSUME BudgetOK, NEW keys \in Reads, Type(keys)
  PROVE  BudgetOK' /\ MaxTyped - budget'.typed = (MaxTyped - budget.typed) + Len(keys)
<1>1. Len(keys) \in Nat /\ MaxTyped \in Nat
  BY ReadsAreKeys, SizesAssumption
<1> PICK n : n = Len(keys)
  OBVIOUS
<1>2. n <= budget.typed /\ budget' = [budget EXCEPT !.typed = @ - n]
  BY DEF Type
<1>3. budget' = [panes |-> budget.panes, typed |-> budget.typed - n, printed |-> budget.printed,
                 layouts |-> budget.layouts, resets |-> budget.resets]
  BY <1>2 DEF BudgetOK
<1> QED
  BY <1>1, <1>2, <1>3 DEF BudgetOK

LEMMA OtherBudget ==
  ASSUME BudgetOK, NEW n,
         \/ UNCHANGED budget
         \/ budget' = [budget EXCEPT !.printed = n]
         \/ budget' = [budget EXCEPT !.layouts = n]
         \/ budget' = [budget EXCEPT !.resets = n]
  PROVE  BudgetOK' /\ budget'.typed = budget.typed
BY DEF BudgetOK

LEMMA EchoStays ==
  ASSUME CacheInv, NEW pane \in Panes, NEW t, t.echo = terminal[pane].echo,
         terminal' = [terminal EXCEPT ![pane] = t], published'.focus = published.focus
  PROVE  Echo' = Echo
<1>1. terminal = [p \in Panes |-> terminal[p]] /\ published.focus \in Panes
  BY DEF CacheInv, TerminalsOK, ServerOK
<1>2. terminal'[published.focus] = IF published.focus = pane THEN t ELSE terminal[published.focus]
  BY <1>1
<1> QED
  BY <1>2 DEF Echo

LEMMA WritesEcho ==
  ASSUME CacheInv, NEW pane \in Panes, NEW c, NEW what, NEW cursor, Writes(pane, c, what, cursor), UNCHANGED published
  PROVE  Echo' = Echo
<1> PICK t, g : t = terminal[pane] /\ g = Write(terminal[pane].grid, c, what)
  OBVIOUS
<1> PICK u : u = [t EXCEPT !.grid = g, !.cursor = cursor]
  OBVIOUS
<1>1. terminal = [p \in Panes |-> terminal[p]] /\ IsTerminal(t)
  BY DEF CacheInv, TerminalsOK
<1>2. terminal' = [terminal EXCEPT ![pane].grid = g, ![pane].cursor = cursor]
  BY DEF Writes
<1>3. terminal' = [terminal EXCEPT ![pane] = u]
  BY <1>1, <1>2
<1>4. u.echo = terminal[pane].echo /\ published'.focus = published.focus
  BY <1>1 DEF IsTerminal
<1> QED
  BY <1>3, <1>4, EchoStays

LEMMA TakeEcho ==
  ASSUME CacheInv, NEW key \in Characters \cup {Backspace}, Take(key)
  PROVE  Echo' = Echo
<1> DEFINE pane == published.focus
           t == terminal[pane]
<1>1. pane \in Panes /\ IsTerminal(t) /\ terminal = [p \in Panes |-> terminal[p]]
  BY DEF CacheInv, ServerOK, TerminalsOK
<1>2. \/ UNCHANGED terminal
      \/ terminal' = [terminal EXCEPT ![pane].grid = Write(t.grid, t.cursor, key), ![pane].cursor = @ + 1]
      \/ terminal' = [terminal EXCEPT ![pane].grid = Write(t.grid, t.cursor - 1, Blank), ![pane].cursor = @ - 1]
  <2>1. key # Enter
    BY KeysDiffer
  <2> QED
    BY <2>1, Zenon DEF Take
<1>3. UNCHANGED published
  BY DEF Take
<1> HIDE DEF t
<1>4. terminal[pane] = t
  BY DEF t
<1>5. CASE UNCHANGED terminal
  BY <1>3, <1>5 DEF Echo
<1>6. ASSUME NEW c, NEW what, NEW n,
             terminal' = [terminal EXCEPT ![pane].grid = Write(t.grid, c, what), ![pane].cursor = @ + n]
      PROVE  Echo' = Echo
  <2> PICK g : g = Write(t.grid, c, what)
    OBVIOUS
  <2>1. terminal' = [terminal EXCEPT ![pane].grid = g, ![pane].cursor = @ + n]
    BY <1>6
  <2>2. terminal' = [terminal EXCEPT ![pane].grid = g, ![pane].cursor = t.cursor + n]
    <3> HIDE DEF pane
    <3> QED
      BY <1>1, <1>4, <2>1 DEF IsTerminal
  <2>3. Writes(pane, c, what, t.cursor + n)
    BY <1>4, <2>2 DEF Writes
  <2> QED
    BY <1>1, <1>3, <2>3, WritesEcho
<1>7. CASE terminal' = [terminal EXCEPT ![pane].grid = Write(t.grid, t.cursor, key), ![pane].cursor = @ + 1]
  BY <1>6, <1>7
<1>8. CASE terminal' = [terminal EXCEPT ![pane].grid = Write(t.grid, t.cursor - 1, Blank), ![pane].cursor = @ - 1]
  <2> PICK g : g = Write(t.grid, t.cursor - 1, Blank)
    OBVIOUS
  <2>1. terminal' = [terminal EXCEPT ![pane].grid = g, ![pane].cursor = @ - 1]
    BY <1>8
  <2>2. terminal' = [terminal EXCEPT ![pane].grid = g, ![pane].cursor = t.cursor - 1]
    <3> HIDE DEF pane
    <3> QED
      BY <1>1, <1>4, <2>1 DEF IsTerminal
  <2>3. Writes(pane, t.cursor - 1, Blank, t.cursor - 1)
    BY <1>4, <2>2 DEF Writes
  <2> QED
    BY <1>1, <1>3, <2>3, WritesEcho
<1> QED
  BY <1>2, <1>5, <1>7, <1>8

LEMMA UnaskedEcho ==
  ASSUME CacheInv, NEW pane \in Panes, Unasked(pane)
  PROVE  Echo' = Echo
<1> PICK t : t = terminal[pane]
  OBVIOUS
<1>0. UNCHANGED published
  BY Zenon DEF Unasked
<1>1. IsTerminal(t) /\ terminal = [p \in Panes |-> terminal[p]] /\ UNCHANGED published
  BY <1>0 DEF CacheInv, TerminalsOK
<1>2. CASE UNCHANGED terminal
  BY <1>1, <1>2 DEF Echo
<1>3. CASE terminal' = [terminal EXCEPT ![pane].visible = ~@]
  <2> PICK u : u = [t EXCEPT !.visible = ~@]
    OBVIOUS
  <2>1. u.echo = t.echo
    BY <1>1 DEF IsTerminal
  <2>2. terminal' = [terminal EXCEPT ![pane] = u]
    BY <1>1, <1>3
  <2> QED
    BY <1>1, <2>1, <2>2, EchoStays
<1>4. ASSUME NEW c \in PrintedCells, NEW move \in BOOLEAN,
             terminal' = [terminal EXCEPT ![pane].grid = Write(terminal[pane].grid, c, Printed),
                                          ![pane].cursor = IF move /\ Column(c) < Width - 1 THEN c + 1 ELSE @]
      PROVE  Echo' = Echo
  <2> PICK g, n : /\ g = Write(terminal[pane].grid, c, Printed)
                  /\ n = IF move /\ Column(c) < Width - 1 THEN c + 1 ELSE t.cursor
    OBVIOUS
  <2>1. terminal' = [terminal EXCEPT ![pane].grid = g,
                                     ![pane].cursor = IF move /\ Column(c) < Width - 1 THEN c + 1 ELSE @]
    BY <1>4
  <2>2. terminal' = [terminal EXCEPT ![pane].grid = g, ![pane].cursor = n]
    BY <1>1, <2>1 DEF IsTerminal
  <2>3. Writes(pane, c, Printed, n)
    BY <2>2 DEF Writes
  <2> QED
    BY <1>1, <2>3, WritesEcho
<1>5. ASSUME NEW c \in PrintedCells,
             terminal' = [terminal EXCEPT ![pane].grid = Write(terminal[pane].grid, c, WideLeft), ![pane].cursor = c + 1]
      PROVE  Echo' = Echo
  <2>1. Writes(pane, c, WideLeft, c + 1)
    BY <1>5 DEF Writes
  <2> QED
    BY <1>1, <2>1, WritesEcho
<1>6. \/ UNCHANGED terminal
      \/ terminal' = [terminal EXCEPT ![pane].visible = ~@]
      \/ \E c \in PrintedCells, move \in BOOLEAN :
            terminal' = [terminal EXCEPT ![pane].grid = Write(terminal[pane].grid, c, Printed),
                                         ![pane].cursor = IF move /\ Column(c) < Width - 1 THEN c + 1 ELSE @]
      \/ \E c \in PrintedCells :
            terminal' = [terminal EXCEPT ![pane].grid = Write(terminal[pane].grid, c, WideLeft), ![pane].cursor = c + 1]
  BY Zenon DEF Unasked
<1> QED
  BY <1>2, <1>3, <1>4, <1>5, <1>6

LEMMA PublishEcho ==
  ASSUME CacheInv, NEW slot \in Slots, Publish(slot)
  PROVE  Echo' = Echo
<1> PICK pane, t, u : pane = published.panes[slot] /\ t = terminal[pane] /\ u = [t EXCEPT !.rolled = 0]
  OBVIOUS
<1>1. pane \in Panes /\ IsTerminal(t) /\ terminal = [p \in Panes |-> terminal[p]]
  <2>1. slot \in DOMAIN published.panes
    BY DEF Publish
  <2> QED
    BY <2>1, PublishedSlots DEF CacheInv, TerminalsOK
<1>2. terminal' = [terminal EXCEPT ![pane].rolled = 0] /\ UNCHANGED published
  BY DEF Publish
<1>3. u.echo = t.echo
  BY <1>1 DEF IsTerminal
<1>4. terminal' = [terminal EXCEPT ![pane] = u]
  BY <1>1, <1>2
<1>5. u.echo = terminal[pane].echo /\ published'.focus = published.focus
  BY <1>2, <1>3
<1> QED
  BY <1>1, <1>4, <1>5, EchoStays

\* What a step of the server and its environment does to the keys.
KeepsWorld(G) == World(G)' = World(G)

LEMMA KeepsWorldWhen ==
  ASSUME NEW G, UNCHANGED <<typed, secret>>, Echo' = Echo, budget'.typed = budget.typed
  PROVE  KeepsWorld(G)
BY DEF KeepsWorld, World

LEMMA EchoKept ==
  ASSUME UNCHANGED terminal, published'.focus = published.focus
  PROVE  Echo' = Echo
BY DEF Echo

\* The first key goes, and nothing is echoed.
LEMMA DropsKey ==
  ASSUME NEW G, typed # <<>>, typed' = Tail(typed), budget'.typed = budget.typed,
         Head(typed) \notin Ends => Echo' = Echo,
         \A k \in secret' : k \in secret \/ (k = Head(typed) /\ ~Echo)
  PROVE  Popped(World(G), World(G)')
<1>1. Head(typed) = typed[1]
  OBVIOUS
<1> QED
  BY <1>1 DEF Popped, World, Hears

\* The application takes the first key.
LEMMA TakePops ==
  ASSUME CacheInv, NEW G, NEW key \in Characters \cup {Enter, Backspace}, Take(key),
         NEW H, G \subseteq H, \A k \in H : k \in G \/ (k = key /\ Echoes(key))
  PROVE  (\A k : Echoes(k) => k = key) /\ Popped(World(G), World(H)')
<1>1. /\ typed # <<>> /\ key = Head(typed) /\ typed' = Tail(typed) /\ UNCHANGED budget
      /\ secret' = IF key \in Characters /\ ~Echo THEN secret \cup {key} ELSE secret
  BY Zenon DEF Take, Echo
<1>2. key \notin Ends => Echo' = Echo
  <2>1. key \notin Ends => key \in Characters \cup {Backspace}
    BY DEF Ends
  <2> QED
    BY <2>1, TakeEcho
<1>3. \A k : Echoes(k) => k = key
  BY <1>1 DEF Echoes, Take
<1>4. Echoes(key) => key \in Characters /\ Echo
  BY DEF Echoes, Echo
<1>5. Head(typed) = typed[1] /\ World(G).typed = typed
  BY <1>1 DEF World
<1>6. \A k \in Characters \cap H : k \in G \/ (k = key /\ Echo)
  BY <1>4
<1>7. Popped(World(G), World(H)')
  BY <1>1, <1>2, <1>5, <1>6 DEF Popped, World, Hears
<1> QED
  BY <1>3, <1>7

\* What the server and its environment do to the keys.
Keys(G, H) ==
    \/ Popped(World(G), World(H)') /\ UNCHANGED local
    \/ H = G /\ KeepsWorld(G) /\ UNCHANGED local
    \/ H = G /\ \E keys \in Reads : Pushed(World(G), World(G)', keys) /\ local = <<>> /\ local' = <<keys>>

LEMMA TypePushes ==
  ASSUME BudgetOK, NEW G, NEW keys \in Reads, Type(keys)
  PROVE  Pushed(World(G), World(G)', keys) /\ local = <<>> /\ local' = <<keys>>
<1>1. MaxTyped - budget'.typed = (MaxTyped - budget.typed) + Len(keys)
  BY TypeBudget
<1>2. /\ typed' = typed \o keys /\ local = <<>> /\ local' = Append(local, keys) /\ UNCHANGED <<terminal, published, secret>>
      /\ \A i \in DOMAIN keys : keys[i] \in Characters => keys[i] = MaxTyped - budget.typed + i
  BY DEF Type
<1>3. Echo' = Echo
  BY <1>2 DEF Echo
<1>4. local' = <<keys>>
  BY <1>2
<1> QED
  BY <1>1, <1>2, <1>3, <1>4 DEF Pushed, World, Hears

LEMMA ServesBudget ==
  ASSUME BudgetOK, Serves
  PROVE  BudgetOK' /\ ((\E keys \in Reads : Type(keys)) \/ budget'.typed = budget.typed)
<1>1. ASSUME NEW keys \in Reads, Type(keys) PROVE BudgetOK'
  BY <1>1, TypeBudget
<1>2. \/ \E keys \in Reads : Type(keys)
      \/ \E n : \/ UNCHANGED budget
                \/ budget' = [budget EXCEPT !.printed = n]
                \/ budget' = [budget EXCEPT !.layouts = n]
                \/ budget' = [budget EXCEPT !.resets = n]
  <2>1. ASSUME NEW key, Take(key) PROVE UNCHANGED budget
    BY <2>1, Zenon DEF Take
  <2>2. ASSUME TakeNextPane PROVE UNCHANGED budget
    BY <2>2, Zenon DEF TakeNextPane
  <2>3. ASSUME NEW pane, Unasked(pane) PROVE budget' = [budget EXCEPT !.printed = budget.printed - 1]
    <3>1. budget' = [budget EXCEPT !.printed = @ - 1]
      BY <2>3, Zenon DEF Unasked
    <3> QED
      BY <3>1
  <2>4. ASSUME NEW panes, NEW focus, Relayout(panes, focus) PROVE budget' = [budget EXCEPT !.layouts = budget.layouts - 1]
    BY <2>4 DEF Relayout
  <2>5. ASSUME NEW slot, Publish(slot) PROVE UNCHANGED budget
    BY <2>5, Zenon DEF Publish
  <2>6. ASSUME UNCHANGED vars PROVE UNCHANGED budget
    BY <2>6 DEF vars
  <2> QED
    BY <2>1, <2>2, <2>3, <2>4, <2>5, <2>6, Zenon DEF Serves
<1>3. CASE \E keys \in Reads : Type(keys)
  BY <1>1, <1>3
<1>4. CASE \E n : \/ UNCHANGED budget
                  \/ budget' = [budget EXCEPT !.printed = n]
                  \/ budget' = [budget EXCEPT !.layouts = n]
                  \/ budget' = [budget EXCEPT !.resets = n]
  BY <1>4, OtherBudget
<1> QED
  BY <1>2, <1>3, <1>4

LEMMA ServesKeys ==
  ASSUME Inv, CacheInv, BudgetOK, Serves, FocusStays, NEW G
  PROVE  \E H : /\ G \subseteq H /\ H \subseteq G \cup Characters
                /\ \A k : Echoes(k) => k \in H
                /\ Keys(G, H)
<1> DEFINE Goal == \E H : /\ G \subseteq H /\ H \subseteq G \cup Characters
                          /\ \A k : Echoes(k) => k \in H
                          /\ Keys(G, H)
<1>1. ASSUME NEW key \in Characters \cup {Enter, Backspace}, Take(key) PROVE Goal
  <2> PICK H : H = G \cup {k \in {key} : Echoes(k)}
    OBVIOUS
  <2>0. G \subseteq H /\ \A k \in H : k \in G \/ (k = key /\ Echoes(key))
    OBVIOUS
  <2> HIDE DEF Goal
  <2>1. (\A k : Echoes(k) => k = key) /\ Popped(World(G), World(H)')
    BY <1>1, <2>0, TakePops
  <2>2. H \subseteq G \cup Characters
    BY DEF Echoes
  <2>3. UNCHANGED local
    BY <1>1, Zenon DEF Take
  <2>4. Keys(G, H) /\ \A k : Echoes(k) => k \in H
    BY <2>1, <2>3 DEF Keys
  <2> QED
    BY <2>0, <2>2, <2>4 DEF Goal
<1>2. CASE \A key \in Characters \cup {Enter, Backspace} : ~Take(key)
  <2>1. \A k : ~Echoes(k)
    BY <1>2 DEF Echoes
  <2> SUFFICES Keys(G, G)
    BY <2>1
  <2>2. ASSUME NEW keys \in Reads, Type(keys) PROVE Keys(G, G)
    BY <2>2, TypePushes DEF Keys
  <2>3. (\E keys \in Reads : Type(keys)) \/ budget'.typed = budget.typed
    BY ServesBudget
  <2> SUFFICES ASSUME budget'.typed = budget.typed PROVE Keys(G, G)
    BY <2>2, <2>3
  <2>4. CASE TakeNextPane
    <3>1. typed # <<>> /\ Head(typed) = NextPane /\ typed' = Tail(typed) /\ UNCHANGED <<secret, local>>
      BY <2>4 DEF TakeNextPane
    <3>2. Popped(World(G), World(G)')
      BY <3>1, DropsKey DEF Ends
    <3> QED
      BY <3>1, <3>2 DEF Keys
  <2>5. ASSUME NEW pane \in Panes, Unasked(pane) PROVE Keys(G, G)
    <3>1. Echo' = Echo
      BY <2>5, UnaskedEcho
    <3>2. UNCHANGED <<secret, local>> /\ (UNCHANGED typed \/ (typed # <<>> /\ typed' = Tail(typed)))
      BY <2>5, Zenon DEF Unasked
    <3> QED
      BY <3>1, <3>2, DropsKey, KeepsWorldWhen DEF Keys
  <2>6. ASSUME NEW panes, NEW focus, Relayout(panes, focus) PROVE Keys(G, G)
    <3>1. UNCHANGED <<terminal, typed, secret, local>> /\ published'.revision # published.revision
      BY <2>6 DEF Relayout, Inv, LayoutsOK
    <3>2. ~TakeNextPane
      <4>1. ASSUME TakeNextPane PROVE published'.revision = published.revision
        <5>1. IsLayout(published)
          BY LayoutsAreKnown DEF Inv
        <5> QED
          BY <4>1, <5>1 DEF TakeNextPane, IsLayout
      <4> QED
        BY <3>1, <4>1
    <3>3. Echo' = Echo
      BY <3>1, <3>2, EchoKept DEF FocusStays
    <3> QED
      BY <3>1, <3>3, KeepsWorldWhen DEF Keys
  <2>7. ASSUME NEW slot \in Slots, Publish(slot) PROVE Keys(G, G)
    <3>1. UNCHANGED <<typed, secret, local>>
      BY <2>7, Zenon DEF Publish
    <3>2. Echo' = Echo
      BY <2>7, PublishEcho
    <3> QED
      BY <3>1, <3>2, KeepsWorldWhen DEF Keys
  <2>8. CASE UNCHANGED vars
    <3>1. UNCHANGED <<terminal, published, typed, secret, local>>
      BY <2>8 DEF vars, serverVars
    <3>2. Echo' = Echo
      BY <3>1 DEF Echo
    <3> QED
      BY <3>1, <3>2, KeepsWorldWhen DEF Keys
  <2> QED
    BY <1>2, <2>2, <2>4, <2>5, <2>6, <2>7, <2>8 DEF Serves
<1> QED
  BY <1>1, <1>2

-----------------------------------------------------------------------------
(* Characters that are not echoed are never shown. *)

\* Input that ends a line is not yet known to the predictor.
EndPending == local # <<>> /\ local[1][1] \in Ends

OneInput == local = <<>> \/ \E keys \in Reads : local = <<keys>>

PendingRecent(x) == local # <<>> /\ ~EndPending => \A k \in CharactersOf(local[1]) : Recent(x, k)

Glimpsed(x) == \A k \in shown : k \in Characters /\ Safe(x, k)

Knows(x) ==
    /\ KeysOK(x) /\ PendingRecent(x) /\ Glimpsed(x)
    /\ Scopes(x, Scanout.predictor) /\ (~EndPending => OpenScopes(x, Scanout.predictor))

\* The world is that of the state, and as much is known of it.
SecretIn(x, G) ==
    /\ x = World(G) /\ PlainInk \subseteq G /\ G \subseteq PlainInk \cup Characters
    /\ Knows(x) /\ ScreenInv(G, SafeInk(x))

SecretInv == BudgetOK /\ OneInput /\ \E x, G : SecretIn(x, G)

LEMMA SafeInkGrows ==
  ASSUME NEW x, NEW y, KeysOK(x), Popped(x, y) \/ \E keys \in Reads : Pushed(x, y, keys)
  PROVE  KeysOK(y) /\ SafeInk(x) \subseteq SafeInk(y)
<1>1. KeysOK(y)
  BY PoppedKeysOK, PushedKeysOK
<1>2. \A k \in Characters : Safe(x, k) => Safe(y, k)
  BY PoppedSafe, PushedSafe
<1> QED
  BY <1>1, <1>2 DEF SafeInk

LEMMA PoppedKnows ==
  ASSUME NEW x, NEW y, Knows(x), Popped(x, y), UNCHANGED <<local, scanoutVars>>
  PROVE  Knows(y)'
<1>1. KeysOK(y)
  BY SafeInkGrows DEF Knows
<1>2. EndPending' = EndPending /\ local' = local /\ shown' = shown /\ Scanout' = Scanout
  BY DEF EndPending, scanoutVars, Scanout
<1>3. PendingRecent(y)'
  <2>1. ASSUME local # <<>>, ~EndPending, NEW k \in CharactersOf(local[1]) PROVE Recent(y, k)
    <3>1. k \in Characters /\ Recent(x, k)
      BY <2>1 DEF Knows, PendingRecent, CharactersOf
    <3> QED
      BY <3>1, PoppedRecent DEF Knows
  <2> QED
    BY <1>2, <2>1 DEF PendingRecent
<1>4. Glimpsed(y)'
  BY <1>2, PoppedSafe DEF Knows, Glimpsed
<1>5. Scopes(y, Scanout.predictor) /\ (~EndPending => OpenScopes(y, Scanout.predictor))
  BY PoppedScopes DEF Knows
<1> QED
  BY <1>1, <1>2, <1>3, <1>4, <1>5 DEF Knows

LEMMA PushedKnows ==
  ASSUME NEW x, NEW y, Knows(x), NEW keys \in Reads, Pushed(x, y, keys), local = <<>>, local' = <<keys>>,
         UNCHANGED scanoutVars
  PROVE  Knows(y)'
<1>1. KeysOK(y)
  BY SafeInkGrows DEF Knows
<1>2. /\ local' # <<>> /\ local'[1] = keys /\ (EndPending' <=> keys[1] \in Ends) /\ ~EndPending
      /\ shown' = shown /\ Scanout' = Scanout
  BY DEF EndPending, scanoutVars, Scanout
<1>3. PendingRecent(y)'
  BY <1>2, PushedIsRecent DEF PendingRecent, Knows
<1>4. Glimpsed(y)'
  BY <1>2, PushedSafe DEF Knows, Glimpsed
<1>5. Scopes(y, Scanout.predictor) /\ (keys[1] \notin Ends => OpenScopes(y, Scanout.predictor))
  BY <1>2, PushedScopes DEF Knows
<1> QED
  BY <1>1, <1>2, <1>3, <1>4, <1>5 DEF Knows

LEMMA ServesSecretIn ==
  ASSUME Inv, CacheInv, BudgetOK, NEW x, NEW G, SecretIn(x, G), Serves, FocusStays
  PROVE  \E y, H : SecretIn(y, H)'
<1>1. PICK H : G \subseteq H /\ H \subseteq G \cup Characters /\ (\A k : Echoes(k) => k \in H) /\ Keys(G, H)
  BY ServesKeys
<1> PICK y : y = World(H)'
  OBVIOUS
<1>2. \/ Popped(x, y) /\ UNCHANGED local
      \/ H = G /\ y = x /\ UNCHANGED local
      \/ \E keys \in Reads : Pushed(x, y, keys) /\ local = <<>> /\ local' = <<keys>>
  BY <1>1 DEF Keys, KeepsWorld, SecretIn
<1>3. KeysOK(y) /\ SafeInk(x) \subseteq SafeInk(y)
  BY <1>2, SafeInkGrows DEF SecretIn, Knows
<1>4. PlainInk \subseteq H /\ H \subseteq PlainInk \cup Characters /\ y.ink = H
  BY <1>1 DEF SecretIn, World
<1>5. Palettes(H, SafeInk(y)) /\ Printed \in H /\ WideLeft \in H
  BY <1>3, <1>4, SafePalettes
<1>6. UNCHANGED scanoutVars
  <2>1. Palette(H) /\ TerminalsInk(G) /\ StreamsInk(G) /\ LayoutsShow /\ InputsOK
    BY <1>5 DEF SecretIn, ScreenInv, Palettes
  <2> QED
    BY <1>1, <1>5, <2>1, ServesInk
<1>7. Knows(y)'
  <2>1. CASE y = x /\ UNCHANGED local
    BY <1>6, <2>1 DEF SecretIn, Knows, PendingRecent, EndPending, Glimpsed, scanoutVars, Scanout
  <2> QED
    BY <1>2, <1>6, <2>1, PoppedKnows, PushedKnows DEF SecretIn
<1>8. Scopes(y, Scanout.predictor)
  BY <1>6, <1>7 DEF Knows, scanoutVars, Scanout
<1>9. ScreenInv(H, SafeInk(y))'
  <2>1. Earned(Scanout.predictor, H, SafeInk(y))
    BY <1>4, <1>8, ScopesEarned
  <2> QED
    BY <1>1, <1>3, <1>5, <2>1, ServesScreen DEF SecretIn
<1> QED
  BY <1>4, <1>7, <1>9 DEF SecretIn

\* What is painted becomes known to have been seen.
Sees == shown' = shown \cup (Characters \cap {screen'[u][c] : u \in DOMAIN layout'.panes, c \in Cells})

LEMMA RendersSees ==
  ASSUME Renders \/ RenderLocalInput
  PROVE  Sees
<1>1. ASSUME NEW s, SetScanout(s) PROVE Sees
  BY <1>1 DEF SetScanout, Sees
<1>2. \E s : SetScanout(s)
  BY Zenon DEF Renders, RenderLayout, RenderFrame, RenderReset, RenderLocalInput
<1> QED
  BY <1>1, <1>2

LEMMA RendersKeepWorld ==
  ASSUME BudgetOK, Renders \/ RenderLocalInput
  PROVE  /\ BudgetOK' /\ \A G : KeepsWorld(G)
         /\ Renders => UNCHANGED local
<1>1. UNCHANGED <<terminal, typed, published, secret>>
  BY Zenon DEF Renders, RenderLayout, RenderFrame, RenderReset, RenderLocalInput, serverVars
<1>2. BudgetOK' /\ budget'.typed = budget.typed
  <2>1. UNCHANGED budget \/ budget' = [budget EXCEPT !.resets = budget.resets - 1]
    BY DEF Renders, RenderLayout, RenderFrame, RenderReset, RenderLocalInput
  <2> QED
    BY <2>1, OtherBudget
<1>3. Echo' = Echo
  BY <1>1 DEF Echo
<1>4. Renders => UNCHANGED local
  BY Zenon DEF Renders, RenderLayout, RenderFrame, RenderReset
<1> QED
  BY <1>1, <1>2, <1>3, <1>4, KeepsWorldWhen

LEMMA SeesGlimpsed ==
  ASSUME NEW x, NEW G, Glimpsed(x), ScreenInv(G, SafeInk(x))', Sees
  PROVE  Glimpsed(x)'
<1> SUFFICES ASSUME NEW k \in shown' PROVE k \in Characters /\ Safe(x, k)
  BY DEF Glimpsed
<1>1. CASE k \in shown
  BY <1>1 DEF Glimpsed
<1>2. CASE k \notin shown
  <2>1. PICK u \in DOMAIN layout'.panes, c \in Cells : k \in Characters /\ k = screen'[u][c]
    BY <1>2 DEF Sees
  <2>2. u \in Slots
    <3>1. DOMAIN NoLayout.panes = {}
      <4>1. NoLayout.panes = <<>>
        BY DEF NoLayout
      <4> QED
        BY <4>1
    <3>2. layout'.panes \in Arrangements
      BY <2>1, <3>1 DEF ScreenInv, Drawn, PredictsShown, ShowsFocus, Scanout
    <3> QED
      BY <2>1, <3>2, ArrangedSlots
  <2>3. screen'[u] \in [Cells -> SafeInk(x)]
    BY <2>2 DEF ScreenInv, Drawn, RenderFine, ScanFine, Inked, Scanout
  <2>4. k \in SafeInk(x) /\ k \notin PlainInk
    BY <2>1, <2>3, GlyphsDiffer DEF PlainInk
  <2> QED
    BY <2>1, <2>4 DEF SafeInk
<1> QED
  BY <1>1, <1>2

LEMMA WorldPalettes ==
  ASSUME NEW x, NEW G, SecretIn(x, G)
  PROVE  Palettes(G, SafeInk(x)) /\ x.ink = G
<1>1. x.ink = G
  BY DEF SecretIn, World
<1> QED
  BY <1>1, SafePalettes DEF SecretIn, Knows

LEMMA RendersSecretIn ==
  ASSUME Inv, CacheInv, BudgetOK, NEW x, NEW G, SecretIn(x, G), Renders
  PROVE  SecretIn(x, G)'
<1>1. Draws(G, SafeInk(x)) /\ Lessens(Scanout.predictor, Scanout'.predictor, x.ink)
  BY WorldPalettes, RendersDraws DEF SecretIn
<1>2. ScreenInv(G, SafeInk(x))'
  BY <1>1 DEF Draws
<1>3. x = World(G)' /\ UNCHANGED local
  BY RendersKeepWorld DEF KeepsWorld, SecretIn
<1>4. Glimpsed(x)'
  BY <1>2, RendersSees, SeesGlimpsed DEF SecretIn, Knows
<1>5. Scopes(x, Scanout'.predictor) /\ (~EndPending => OpenScopes(x, Scanout'.predictor))
  BY <1>1, LessensScopes DEF SecretIn, Knows
<1>6. Knows(x)'
  <2>1. KeysOK(x) /\ PendingRecent(x)
    BY DEF SecretIn, Knows
  <2>2. EndPending' = EndPending /\ PendingRecent(x)'
    BY <1>3, <2>1 DEF EndPending, PendingRecent
  <2> QED
    BY <1>4, <1>5, <2>1, <2>2 DEF Knows
<1> QED
  BY <1>2, <1>3, <1>6 DEF SecretIn

LEMMA RenderLocalInputSecretIn ==
  ASSUME Inv, BudgetOK, OneInput, NEW x, NEW G, SecretIn(x, G), RenderLocalInput
  PROVE  OneInput' /\ SecretIn(x, G)'
<1>1. local # <<>> /\ local' = <<>> /\ OneInput' /\ ~EndPending'
  <2>1. local # <<>> /\ local' = Tail(local)
    BY DEF RenderLocalInput
  <2>2. local' = <<>>
    <3>1. PICK keys : local = <<keys>>
      BY <2>1, Zenon DEF OneInput
    <3> QED
      BY <2>1, <3>1
  <2> QED
    BY <2>1, <2>2 DEF OneInput, EndPending
<1>2. Knows(x) /\ ScreenInv(G, SafeInk(x)) /\ x.ink = G /\ Palettes(G, SafeInk(x))
  BY WorldPalettes DEF SecretIn
<1>3. Answers(Scanout.predictor, Scanout'.predictor, local[1])
  BY <1>2, RenderLocalInputIs
<1>4. Scopes(x, Scanout'.predictor) /\ OpenScopes(x, Scanout'.predictor)
  <2>2. \/ local[1][1] \in Ends
        \/ OpenScopes(x, Scanout.predictor) /\ \A k \in CharactersOf(local[1]) : Recent(x, k)
    BY <1>1, <1>2 DEF Knows, PendingRecent, EndPending
  <2> QED
    BY <1>2, <1>3, <2>2, AnswersScopes DEF Knows
<1>5. ScreenInv(G, SafeInk(x))'
  <2>1. Earned(Scanout'.predictor, G, SafeInk(x))
    BY <1>2, <1>4, ScopesEarned
  <2>2. Draws(G, SafeInk(x))
    BY <1>2, <2>1, RenderLocalInputDraws
  <2> QED
    BY <2>2 DEF Draws
<1>6. x = World(G)'
  BY RendersKeepWorld DEF KeepsWorld, SecretIn
<1>7. Glimpsed(x)'
  BY <1>2, <1>5, RendersSees, SeesGlimpsed DEF Knows
<1>8. Knows(x)'
  BY <1>1, <1>2, <1>4, <1>7 DEF Knows, PendingRecent
<1> QED
  BY <1>1, <1>5, <1>6, <1>8 DEF SecretIn

LEMMA ServesOneInput ==
  ASSUME Inv, CacheInv, BudgetOK, OneInput, Serves, FocusStays
  PROVE  OneInput'
<1>1. PICK H : Keys({}, H)
  BY ServesKeys
<1>2. UNCHANGED local \/ \E keys \in Reads : local' = <<keys>>
  BY <1>1, Zenon DEF Keys
<1> QED
  BY <1>2 DEF OneInput

LEMMA InitSecret == Init => SecretInv
<1> SUFFICES ASSUME Init PROVE SecretInv
  OBVIOUS
<1>1. BudgetOK
  <2>1. budget \in [panes : Arrangements, typed : 0 .. MaxTyped, printed : Nat, layouts : Nat, resets : Nat]
    BY ScenariosAssumption DEF Init
  <2> QED
    BY <2>1 DEF BudgetOK
<1>2. local = <<>> /\ typed = <<>> /\ secret = {} /\ shown = {} /\ predictor.scopes = <<>>
  BY DEF Init, NoPrediction
<1> PICK G, x : G = PlainInk /\ x = World(PlainInk)
  OBVIOUS
<1>3. KeysOK(x) /\ x.ink = G
  <2>1. MaxTyped - budget.typed \in Nat
    BY <1>1, SizesAssumption DEF BudgetOK
  <2>2. x.typed = <<>> /\ x.secret = {} /\ x.issued \in Nat /\ x.ink = PlainInk
    BY <1>2, <2>1 DEF World
  <2>3. x.typed \in Seq(AllKeys) /\ DOMAIN x.typed = {}
    BY <2>2
  <2>4. \A k \in Characters : k \notin x.ink
    BY <2>2, GlyphsDiffer DEF PlainInk
  <2> QED
    BY <2>2, <2>3, <2>4 DEF KeysOK
<1>4. Knows(x)
  <2>1. \A o : ~ScopeFine(Scanout.predictor, o)
    BY <1>2, OneIsSome DEF ScopeFine, Scanout
  <2> QED
    BY <1>2, <1>3, <2>1 DEF Knows, PendingRecent, Glimpsed, Scopes, OpenScopes
<1>5. ScreenInv(G, SafeInk(x))
  BY <1>3, SafePalettes, InitScreen
<1>6. SecretIn(x, G)
  BY <1>4, <1>5 DEF SecretIn
<1> QED
  BY <1>1, <1>2, <1>6 DEF SecretInv, OneInput

LEMMA NextSecret == Inv /\ CacheInv /\ SecretInv /\ [Next]_vars /\ FocusStays => SecretInv'
<1> SUFFICES ASSUME Inv, CacheInv, SecretInv, [Next]_vars, FocusStays PROVE SecretInv'
  OBVIOUS
<1>1. PICK x, G : SecretIn(x, G)
  BY DEF SecretInv
<1>2. BudgetOK /\ OneInput
  BY DEF SecretInv
<1>3. CASE Renders
  <2>1. BudgetOK' /\ OneInput'
    BY <1>2, <1>3, RendersKeepWorld DEF OneInput
  <2>2. SecretIn(x, G)'
    BY <1>1, <1>2, <1>3, RendersSecretIn
  <2> QED
    BY <2>1, <2>2 DEF SecretInv
<1>4. CASE RenderLocalInput
  <2>1. BudgetOK'
    BY <1>2, <1>4, RendersKeepWorld
  <2>2. OneInput' /\ SecretIn(x, G)'
    BY <1>1, <1>2, <1>4, RenderLocalInputSecretIn
  <2> QED
    BY <2>1, <2>2 DEF SecretInv
<1>5. CASE Serves
  <2>1. BudgetOK' /\ OneInput'
    BY <1>2, <1>5, ServesBudget, ServesOneInput
  <2>2. \E y, H : SecretIn(y, H)'
    BY <1>1, <1>2, <1>5, ServesSecretIn
  <2> QED
    BY <2>1, <2>2 DEF SecretInv
<1> QED
  BY <1>3, <1>4, <1>5, StepIs

\* A character that the application takes without an echo has not been on the screen and
\* never comes there: of what is predicted after the end of a line nothing is shown before
\* one of its characters is confirmed (inputPredictor.boundary, removeConfirmedPrefix), and
\* then all of it is of one line that the application echoes.  As long as the focus is moved
\* only by the key that moves it, of which the predictor knows: when something else moves it
\* while keys are on their way, another application takes them.
THEOREM SecretsStayHidden == Spec /\ [][FocusStays]_vars => []NoSecretShown
<1>1. SecretInv => NoSecretShown
  BY DEF SecretInv, SecretIn, World, Knows, Glimpsed, Safe, NoSecretShown
<1>2. Inv /\ CacheInv /\ SecretInv /\ [Next]_vars /\ [FocusStays]_vars => SecretInv'
  <2>1. UNCHANGED vars => FocusStays
    BY DEF vars, serverVars, FocusStays
  <2> QED
    BY <2>1, NextSecret
<1>3. Init => Inv /\ CacheInv
  BY InitInv, InitCacheInv
<1>4. Inv /\ CacheInv /\ [Next]_vars => Inv' /\ CacheInv'
  BY NextInv, NextCacheInv
<1> QED
  BY <1>1, <1>2, <1>3, <1>4, InitSecret, PTL DEF Spec
=============================================================================
