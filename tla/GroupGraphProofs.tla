-------------------------- MODULE GroupGraphProofs --------------------------
(***************************************************************************)
(* Theorems about GroupGraph, for any sessions, clients and bounds.         *)
(***************************************************************************)
EXTENDS GroupGraph, FiniteSetTheorems, WellFoundedInduction, TLAPS

-----------------------------------------------------------------------------
(* Least elements, which stand for induction *)

LEMMA LeastNat ==
  ASSUME NEW T, T \subseteq Nat, T # {}
  PROVE  \E x \in T : \A y \in T : x <= y
  <1>1. PICK x \in T : \A y \in T : ~ (<<y, x>> \in OpToRel(<, Nat))
    BY NatLessThanWellFounded, WFMin
  <1>2. \A y \in T : y \in Nat /\ x \in Nat /\ ~ (y < x)
    BY <1>1 DEF OpToRel
  <1> QED
    BY <1>2

-----------------------------------------------------------------------------
(* Among: the entries of a sequence in a set *)

Step(seq, S, kept, n) ==
    IF n = 0 THEN <<>> ELSE IF seq[n] \in S THEN Append(kept[n - 1], seq[n]) ELSE kept[n - 1]

LEMMA AmongExists ==
  ASSUME NEW seq, NEW S, NEW N \in Nat
  PROVE  \E f : f = [n \in 0 .. N |-> Step(seq, S, f, n)]
  <1> DEFINE Bad == {m \in Nat : ~ \E f : f = [n \in 0 .. m |-> Step(seq, S, f, n)]}
  <1>1. SUFFICES ASSUME Bad # {} PROVE FALSE
    OBVIOUS
  <1>2. PICK m \in Bad : \A k \in Bad : m <= k
    <2>1. Bad \subseteq Nat
      OBVIOUS
    <2> HIDE DEF Bad
    <2> QED
      BY <1>1, <2>1, LeastNat
  <1>3. CASE m = 0
    <2> DEFINE f == [n \in 0 .. 0 |-> <<>>]
    <2>1. f = [n \in 0 .. 0 |-> Step(seq, S, f, n)]
      BY DEF Step
    <2> QED
      BY <1>2, <1>3, <2>1
  <1>4. CASE m # 0
    <2>1. m - 1 \in Nat /\ m - 1 \notin Bad
      BY <1>2, <1>4
    <2>2. PICK f : f = [n \in 0 .. m - 1 |-> Step(seq, S, f, n)]
      BY <2>1
    <2> DEFINE g == [n \in 0 .. m |-> IF n = m THEN Step(seq, S, f, m) ELSE f[n]]
    <2>3. ASSUME NEW n \in 0 .. m
          PROVE  g[n] = Step(seq, S, g, n)
      <3>1. CASE n = 0
        BY <3>1, <1>4, <2>1, <2>2 DEF Step
      <3>2. CASE n # 0
        <4>1. n - 1 \in 0 .. m - 1 /\ n \in 0 .. m /\ n - 1 # m /\ n - 1 \in 0 .. m
          BY <3>2, <1>2
        <4>2. g[n - 1] = f[n - 1]
          BY <4>1
        <4>3. n = m \/ n \in 0 .. m - 1
          BY <1>2
        <4>4. g[n] = Step(seq, S, f, n)
          BY <4>3, <2>2
        <4> QED
          BY <4>2, <4>4, <3>2 DEF Step
      <3> QED
        BY <3>1, <3>2
    <2>4. g = [n \in 0 .. m |-> Step(seq, S, g, n)]
      BY <2>3
    <2> HIDE DEF g
    <2> QED
      BY <1>2, <2>4
  <1> QED
    BY <1>3, <1>4

LEMMA AmongEntries ==
  ASSUME NEW A, NEW seq \in Seq(A), NEW S
  PROVE  /\ Among(seq, S) \in Seq(A)
         /\ ToSet(Among(seq, S)) = ToSet(seq) \cap S
         /\ IsInjective(seq) => IsInjective(Among(seq, S))
  <1> DEFINE N == Len(seq)
             kept == CHOOSE f : f = [n \in 0 .. N |-> Step(seq, S, f, n)]
             Good(n) == /\ kept[n] \in Seq(A)
                        /\ ToSet(kept[n]) = {seq[i] : i \in 1 .. n} \cap S
                        /\ IsInjective(seq) => IsInjective(kept[n])
             Bad == {n \in 0 .. N : ~ Good(n)}
  <1>1. N \in Nat /\ seq \in [1 .. N -> A]
    OBVIOUS
  <1>2. \A n \in 0 .. N : kept[n] = Step(seq, S, kept, n)
    <2>1. \E f : f = [n \in 0 .. N |-> Step(seq, S, f, n)]
      BY <1>1, AmongExists
    <2>2. kept = [n \in 0 .. N |-> Step(seq, S, kept, n)]
      BY <2>1
    <2> HIDE DEF kept
    <2> QED
      BY <2>2
  <1>3. Among(seq, S) = kept[N]
    BY DEF Among, Step
  <1> HIDE DEF kept, N
  <1>4. Good(0)
    <2>1. kept[0] = <<>>
      BY <1>1, <1>2 DEF Step
    <2> QED
      BY <2>1 DEF ToSet, IsInjective
  <1>5. ASSUME NEW n \in 1 .. N, Good(n - 1)
        PROVE  Good(n)
    <2> DEFINE old == kept[n - 1]
    <2>1. kept[n] = IF seq[n] \in S THEN Append(old, seq[n]) ELSE old
      <3>1. n \in 0 .. N /\ n # 0
        BY <1>1
      <3> QED
        BY <1>2, <3>1 DEF Step
    <2>2. old \in Seq(A) /\ ToSet(old) = {seq[i] : i \in 1 .. n - 1} \cap S
             /\ (IsInjective(seq) => IsInjective(old))
      BY <1>5
    <2>3. {seq[i] : i \in 1 .. n} = {seq[i] : i \in 1 .. n - 1} \cup {seq[n]} /\ seq[n] \in A
      BY <1>1
    <2> HIDE DEF old
    <2>4. CASE seq[n] \in S
      <3> DEFINE new == Append(old, seq[n])
      <3>1. new \in Seq(A) /\ DOMAIN new = 1 .. Len(old) + 1
            /\ DOMAIN old = 1 .. Len(old) /\ Len(old) \in Nat
            /\ new[Len(old) + 1] = seq[n] /\ \A i \in 1 .. Len(old) : new[i] = old[i]
        BY <2>2, <2>3
      <3> HIDE DEF new
      <3>2. ToSet(new) = ToSet(old) \cup {seq[n]}
        BY <3>1 DEF ToSet
      <3>3. ASSUME IsInjective(seq) PROVE IsInjective(new)
        <4>1. seq[n] \notin ToSet(old)
          BY <2>2, <3>3, <1>1 DEF IsInjective
        <4>2. IsInjective(old)
          BY <2>2, <3>3
        <4> QED
          BY <3>1, <4>1, <4>2 DEF IsInjective, ToSet
      <3>4. kept[n] = new
        BY <2>1, <2>4 DEF new
      <3> QED
        BY <2>2, <2>3, <2>4, <3>1, <3>2, <3>3, <3>4
    <2>5. CASE seq[n] \notin S
      BY <2>1, <2>2, <2>3, <2>5
    <2> QED
      BY <2>4, <2>5
  <1>6. Bad = {}
    <2>1. SUFFICES ASSUME Bad # {} PROVE FALSE
      OBVIOUS
    <2>2. Bad \subseteq Nat
      BY <1>1
    <2> HIDE DEF Good
    <2>3. PICK m \in Bad : \A k \in Bad : m <= k
      <3> HIDE DEF Bad
      <3> QED
        BY <2>1, <2>2, LeastNat
    <2>4. m # 0
      BY <1>4
    <2>5. m \in 1 .. N /\ m - 1 \in 0 .. N /\ m - 1 \notin Bad
      BY <1>1, <2>3, <2>4
    <2> QED
      BY <1>5, <2>3, <2>5
  <1>7. Good(N)
    <2> HIDE DEF Good
    <2> QED
      BY <1>1, <1>6
  <1>8. {seq[i] : i \in 1 .. N} = ToSet(seq)
    BY <1>1 DEF ToSet
  <1> QED
    BY <1>3, <1>7, <1>8

-----------------------------------------------------------------------------
(* The inductive invariant *)

\* A window whose own focus and zoom are in its layout.
WellFormed(window) ==
    /\ window \in Window
    /\ window.panes # {} /\ Cardinality(window.panes) <= MaxVisiblePanes
    /\ window.active \in window.panes
    /\ window.zoomed \in window.panes \cup {None}

\* A view that a session may have of a window of these panes.
Fits(view, panes) ==
    /\ view \in WindowView
    /\ view.focused \in panes
    /\ view.zoomed \in panes \cup {None}
    /\ ToSet(view.history) \subseteq panes \ {view.focused}
    /\ IsInjective(view.history)

Apart(window, other) == other.panes \cap window.panes = {} /\ other.index # window.index

\* The graph: GraphIsConsistent and FocusFollowsLayout, and no windows without a member.
GraphOK ==
    /\ members \subseteq Sessions
    /\ windows \in [WindowIDs -> Window \cup {None}]
    /\ views \in [Sessions -> [WindowIDs -> WindowView \cup {None}]]
    /\ \A w \in LiveWindows : WellFormed(windows[w]) /\ members # {}
    /\ \A w \in LiveWindows : \A v \in LiveWindows \ {w} : Apart(windows[w], windows[v])
    /\ \A s \in members, w \in LiveWindows : Fits(views[s][w], windows[w].panes)
    /\ \A s \in Sessions, w \in WindowIDs : views[s][w] # None <=> s \in members /\ w \in LiveWindows

RegistriesOK ==
    /\ fresh \subseteq Sessions \ members
    /\ active \in [Sessions -> WindowIDs \cup {None}]
    /\ previous \in [Sessions -> WindowIDs \cup {None}]
    /\ grouped \in [Sessions -> BOOLEAN]
    /\ nextWindow \in 1 .. MaxWindow + 1
    /\ nextPane \in 1 .. MaxPane + 1
    /\ client \in [Sessions -> Clients \cup {None}]
    /\ sessionOf \in [Clients -> Sessions \cup {None}]
    /\ windowLeases \in [WindowIDs -> Lease \cup {None}]
    /\ dying \subseteq Sessions
    /\ pending \in Command \cup {None}

ToldOK == told \in [Clients -> Told \cup {None}] /\ untold \subseteq Clients

\* A member shows a window there is.
ActiveIsLive == \A s \in members : active[s] \in LiveWindows \cup {None}

\* IDs that have yet to be allocated name nothing, nor does the pane of a start in progress.
IDsAreFresh ==
    /\ \A w \in LiveWindows : w < nextWindow /\ \A p \in windows[w].panes : p < nextPane
    /\ pending # None /\ pending.op # "kill" =>
          /\ pending.pane < nextPane
          /\ \A w \in LiveWindows : pending.pane \notin windows[w].panes

IInv == GraphOK /\ RegistriesOK /\ ToldOK /\ ActiveIsLive /\ IDsAreFresh

LEMMA InvariantImplies == IInv => GroupSeesOneGraph
  <1> SUFFICES ASSUME IInv PROVE GroupSeesOneGraph
    OBVIOUS
  <1> USE DEF IInv
  <1>1. TypeOK
    BY DEF TypeOK, GraphOK, RegistriesOK, ToldOK
  <1>2. GraphIsConsistent
    <2>1. \A w \in LiveWindows : windows[w].panes # {} /\ Cardinality(windows[w].panes) <= MaxVisiblePanes
      BY DEF GraphOK, WellFormed
    <2>2. \A w \in LiveWindows : \A v \in LiveWindows \ {w} :
             windows[v].panes \cap windows[w].panes = {} /\ windows[v].index # windows[w].index
      BY DEF GraphOK, Apart
    <2> QED
      BY <2>1, <2>2 DEF GraphIsConsistent, GraphOK
  <1>3. FocusFollowsLayout
    BY DEF FocusFollowsLayout, GraphOK, WellFormed, Fits
  <1> QED
    BY <1>1, <1>2, <1>3 DEF GroupSeesOneGraph

-----------------------------------------------------------------------------
(* Windows in the order of their indexes *)

LEMMA FirstIsThere ==
  ASSUME GraphOK, NEW S, S \subseteq LiveWindows, S # {}
  PROVE  FirstOf(S) \in S
  <1> DEFINE T == {windows[w].index : w \in S}
  <1>1. \A w \in S : w \in WindowIDs /\ windows[w] \in Window /\ windows[w].index \in Nat
    BY DEF GraphOK, WellFormed, LiveWindows, Window
  <1>2. T \subseteq Nat /\ T # {}
    BY <1>1
  <1>3. PICK i \in T : \A j \in T : i <= j
    <2> HIDE DEF T
    <2> QED
      BY <1>2, LeastNat
  <1>4. PICK w \in S : windows[w].index = i
    BY <1>3
  <1>5. ASSUME NEW v \in S \ {w} PROVE Before(w, v)
    <2>1. windows[v].index # windows[w].index
      BY DEF GraphOK, Apart
    <2>2. windows[w].index <= windows[v].index
      BY <1>3, <1>4
    <2> QED
      BY <1>1, <2>1, <2>2 DEF Before
  <1> QED
    BY <1>4, <1>5 DEF FirstOf

LEMMA ProjectedIsLive ==
  ASSUME GraphOK, ActiveIsLive, NEW s \in members
  PROVE  ProjectedWindow(s) \in LiveWindows \cup {None}
  <1>1. orderedFirst \in LiveWindows \cup {None}
    BY FirstIsThere DEF orderedFirst
  <1> QED
    BY <1>1 DEF ProjectedWindow, ActiveIsLive

\* There are fewer windows than indexes.
LEMMA LowestIndexIsFree ==
  ASSUME GraphOK
  PROVE  /\ lowestAvailableWindowDisplayIndex \in Nat
         /\ \A w \in LiveWindows : windows[w].index # lowestAvailableWindowDisplayIndex
  <1> DEFINE Free == {i \in 0 .. MaxWindow : \A w \in LiveWindows : windows[w].index # i}
             holder == [i \in 0 .. MaxWindow |->
                          CHOOSE w \in LiveWindows : windows[w].index = i]
  <1>1. MaxWindow \in Nat \ {0}
    BY BoundsAssumption
  <1>2. Free # {}
    <2>1. SUFFICES ASSUME Free = {} PROVE FALSE
      OBVIOUS
    <2>2. \A i \in 0 .. MaxWindow : holder[i] \in LiveWindows /\ windows[holder[i]].index = i
      BY <2>1
    <2> HIDE DEF holder
    <2>3. holder \in [0 .. MaxWindow -> WindowIDs]
      BY <2>2 DEF LiveWindows, holder
    <2>4. /\ IsFiniteSet(0 .. MaxWindow) /\ Cardinality(0 .. MaxWindow) = MaxWindow + 1
          /\ IsFiniteSet(WindowIDs) /\ Cardinality(WindowIDs) = MaxWindow
      BY <1>1, FS_Interval DEF WindowIDs
    <2>5. \E i, j \in 0 .. MaxWindow : i # j /\ holder[i] = holder[j]
      BY <1>1, <2>3, <2>4, FS_PigeonHole
    <2> QED
      BY <2>2, <2>5
  <1>3. PICK i \in Free : \A j \in Free : i <= j
    <2>1. Free \subseteq Nat
      BY <1>1
    <2> HIDE DEF Free
    <2> QED
      BY <1>2, <2>1, LeastNat
  <1>4. \A j \in 0 .. i - 1 : \E w \in LiveWindows : windows[w].index = j
    <2>1. \A j \in 0 .. i - 1 : j \in 0 .. MaxWindow /\ j \notin Free
      BY <1>1, <1>3
    <2> QED
      BY <2>1
  <1>5. \E k \in 0 .. MaxWindow :
           /\ \A w \in LiveWindows : windows[w].index # k
           /\ \A j \in 0 .. k - 1 : \E w \in LiveWindows : windows[w].index = j
    BY <1>3, <1>4
  <1>6. /\ lowestAvailableWindowDisplayIndex \in 0 .. MaxWindow
        /\ \A w \in LiveWindows : windows[w].index # lowestAvailableWindowDisplayIndex
    BY <1>5 DEF lowestAvailableWindowDisplayIndex
  <1> QED
    BY <1>1, <1>6

-----------------------------------------------------------------------------
(* Views: focus, zoom and the removal of a pane keep a view in its window *)

LEMMA NewViewFits ==
  ASSUME NEW panes \in SUBSET PaneIDs, NEW p \in panes
  PROVE  Fits(NewView(p), panes)
  BY DEF Fits, NewView, WindowView, ToSet, IsInjective

\* A history is as long as it has panes, which are fewer than the window's.
LEMMA FocusFits ==
  ASSUME NEW panes \in SUBSET PaneIDs, NEW view, Fits(view, panes), NEW p \in panes
  PROVE  Fits(focusPane(view, p), panes)
  <1> DEFINE rest == Among(view.history, PaneIDs \ {p})
             kept == IF Len(rest) = MaxVisiblePanes THEN Tail(rest) ELSE rest
             new == Append(kept, view.focused)
  <1>1. CASE view.focused = p
    BY <1>1 DEF focusPane
  <1>2. CASE view.focused # p
    <2>1. /\ view.history \in Seq(PaneIDs) /\ view.focused \in panes /\ view.focused \in PaneIDs
          /\ ToSet(view.history) \subseteq panes \ {view.focused} /\ IsInjective(view.history)
      BY DEF Fits, WindowView
    <2>2. /\ rest \in Seq(PaneIDs) /\ IsInjective(rest)
          /\ ToSet(rest) \subseteq panes \ {view.focused, p}
      BY <2>1, AmongEntries
    <2> HIDE DEF rest
    <2>3. /\ kept \in Seq(PaneIDs) /\ IsInjective(kept)
          /\ ToSet(kept) \subseteq panes \ {view.focused, p}
      <3>1. CASE Len(rest) = MaxVisiblePanes
        <4>1. rest # <<>>
          BY <2>2, <3>1, BoundsAssumption
        <4>2. /\ Tail(rest) \in Seq(PaneIDs)
              /\ DOMAIN Tail(rest) = 1 .. Len(rest) - 1
              /\ DOMAIN rest = 1 .. Len(rest) /\ Len(rest) \in Nat
              /\ \A i \in 1 .. Len(rest) - 1 : Tail(rest)[i] = rest[i + 1]
          BY <2>2, <4>1
        <4>3. IsInjective(Tail(rest)) /\ ToSet(Tail(rest)) \subseteq ToSet(rest)
          BY <2>2, <4>2 DEF IsInjective, ToSet
        <4> QED
          BY <2>2, <3>1, <4>2, <4>3
      <3>2. CASE Len(rest) # MaxVisiblePanes
        BY <2>2, <3>2
      <3> QED
        BY <3>1, <3>2
    <2> HIDE DEF kept
    <2>4. /\ new \in Seq(PaneIDs) /\ DOMAIN new = 1 .. Len(kept) + 1 /\ Len(kept) \in Nat
          /\ DOMAIN kept = 1 .. Len(kept) /\ new[Len(kept) + 1] = view.focused
          /\ \A i \in 1 .. Len(kept) : new[i] = kept[i]
      BY <2>1, <2>3
    <2> HIDE DEF new
    <2>5. ToSet(new) \subseteq panes \ {p}
      BY <1>2, <2>1, <2>3, <2>4 DEF ToSet
    <2>6. IsInjective(new)
      BY <2>3, <2>4 DEF ToSet, IsInjective
    <2>7. focusPane(view, p) = [view EXCEPT !.focused = p, !.history = new]
      BY <1>2 DEF focusPane, new, kept, rest
    <2>8. view \in WindowView /\ view.zoomed \in panes \cup {None} /\ p \in PaneIDs
      BY DEF Fits
    <2> DEFINE result == [focused |-> p, zoomed |-> view.zoomed, history |-> new]
    <2>9. focusPane(view, p) = result
      BY <2>7, <2>8 DEF WindowView
    <2>10. Fits(result, panes)
      BY <2>4, <2>5, <2>6, <2>8 DEF Fits, WindowView
    <2> QED
      BY <2>9, <2>10
  <1> QED
    BY <1>1, <1>2

LEMMA ZoomFits ==
  ASSUME NEW panes \in SUBSET PaneIDs, NEW view, Fits(view, panes), NEW z \in panes \cup {None}
  PROVE  Fits([view EXCEPT !.zoomed = z], panes)
  BY DEF Fits, WindowView

LEMMA GrowFits ==
  ASSUME NEW panes \in SUBSET PaneIDs, NEW view, Fits(view, panes), NEW p \in PaneIDs
  PROVE  Fits(view, panes \cup {p})
  BY DEF Fits

LEMMA ViewWithoutFits ==
  ASSUME NEW panes \in SUBSET PaneIDs, NEW view, Fits(view, panes), NEW p \in panes,
         NEW fallback \in panes \ {p}
  PROVE  Fits(ViewWithout(view, panes \ {p}, p, fallback), panes \ {p})
  <1> DEFINE left == panes \ {p}
             z == IF Cardinality(left) <= 1 \/ view.zoomed = p THEN None ELSE view.zoomed
             kept == Among(view.history, left \ {p})
             older == Front(kept)
  <1>1. /\ view \in WindowView /\ view.history \in Seq(PaneIDs) /\ view.focused \in panes
        /\ view.zoomed \in panes \cup {None} /\ ToSet(view.history) \subseteq panes \ {view.focused}
        /\ IsInjective(view.history)
    BY DEF Fits, WindowView
  <1>2. z \in left \cup {None} /\ left \subseteq PaneIDs /\ fallback \in left
    BY <1>1
  <1>3. /\ kept \in Seq(PaneIDs) /\ IsInjective(kept)
        /\ ToSet(kept) \subseteq left \ {view.focused}
    BY <1>1, AmongEntries
  <1> DEFINE unzoomed == [focused |-> view.focused, zoomed |-> z, history |-> view.history]
             result == ViewWithout(view, left, p, fallback)
  <1>4. [view EXCEPT !.zoomed = IF Cardinality(left) <= 1 \/ @ = p THEN None ELSE @] = unzoomed
    BY <1>1 DEF WindowView
  <1>5. result = removePane(unzoomed, left, p, fallback)
    BY <1>4 DEF ViewWithout
  <1>6. Fits(result, left)
    <2> HIDE DEF z, left, result
    <2>1. result =
            IF view.focused # p /\ view.focused \in left
              THEN [focused |-> view.focused, zoomed |-> z, history |-> kept]
            ELSE IF kept # <<>>
              THEN [focused |-> Last(kept), zoomed |-> z, history |-> older]
            ELSE [focused |-> fallback, zoomed |-> z, history |-> <<>>]
      <3>1. /\ unzoomed.history = view.history /\ unzoomed.focused = view.focused
            /\ unzoomed.zoomed = z
        OBVIOUS
      <3>2. [unzoomed EXCEPT !.history = kept] = [focused |-> view.focused, zoomed |-> z, history |-> kept]
        OBVIOUS
      <3> HIDE DEF unzoomed
      <3> QED
        BY <1>5, <3>1, <3>2, Zenon DEF removePane
    <2> HIDE DEF kept
    <2>2. CASE view.focused # p /\ view.focused \in left
      <3>1. result = [focused |-> view.focused, zoomed |-> z, history |-> kept]
        BY <2>1, <2>2
      <3> QED
        BY <1>1, <1>2, <1>3, <2>2, <3>1 DEF Fits, WindowView
    <2>3. CASE ~(view.focused # p /\ view.focused \in left) /\ kept # <<>>
      <3>1. result = [focused |-> Last(kept), zoomed |-> z, history |-> older]
        BY <2>1, <2>3
      <3>2. /\ DOMAIN kept = 1 .. Len(kept) /\ Len(kept) \in Nat \ {0}
            /\ older \in Seq(PaneIDs) /\ DOMAIN older = 1 .. Len(kept) - 1
            /\ \A i \in 1 .. Len(kept) - 1 : older[i] = kept[i]
            /\ Last(kept) = kept[Len(kept)]
        BY <1>3, <2>3 DEF Front, Last
      <3> HIDE DEF older
      <3>3. Last(kept) \in ToSet(kept) /\ ToSet(older) \subseteq ToSet(kept) \ {Last(kept)}
            /\ IsInjective(older)
        BY <1>3, <3>2 DEF ToSet, IsInjective
      <3> QED
        BY <1>2, <1>3, <3>1, <3>2, <3>3 DEF Fits, WindowView
    <2>4. CASE ~(view.focused # p /\ view.focused \in left) /\ kept = <<>>
      <3>1. result = [focused |-> fallback, zoomed |-> z, history |-> <<>>]
        BY <2>1, <2>4
      <3>2. ToSet(<<>>) = {} /\ IsInjective(<<>>)
        BY DEF ToSet, IsInjective
      <3> QED
        BY <1>2, <3>1, <3>2 DEF Fits, WindowView
    <2> QED
      BY <2>2, <2>3, <2>4
  <1> QED
    BY <1>6

-----------------------------------------------------------------------------
(* How the graph changes *)

\* No window goes or loses a pane.
Grows ==
    /\ LiveWindows \subseteq LiveWindows'
    /\ \A v \in LiveWindows : windows[v].panes \subseteq windows'[v].panes

LEMMA GraphStep ==
  ASSUME members' \subseteq Sessions,
         windows' \in [WindowIDs -> Window \cup {None}],
         views' \in [Sessions -> [WindowIDs -> WindowView \cup {None}]],
         \A w \in LiveWindows' : WellFormed(windows'[w]) /\ members' # {},
         \A w \in LiveWindows' : \A v \in LiveWindows' \ {w} : Apart(windows'[w], windows'[v]),
         \A s \in members', w \in LiveWindows' : Fits(views'[s][w], windows'[w].panes),
         \A s \in Sessions, w \in WindowIDs : views'[s][w] # None <=> s \in members' /\ w \in LiveWindows'
  PROVE  GraphOK'
  <1>1. \A w \in LiveWindows' : WellFormed(windows[w])'
    BY DEF WellFormed
  <1>2. \A w \in LiveWindows' : \A v \in LiveWindows' \ {w} : Apart(windows[w], windows[v])'
    BY DEF Apart
  <1>3. \A s \in members', w \in LiveWindows' : Fits(views[s][w], windows[w].panes)'
    BY DEF Fits
  <1> QED
    BY <1>1, <1>2, <1>3 DEF GraphOK

LEMMA WindowChanges ==
  ASSUME GraphOK, NEW w \in LiveWindows, NEW window, WellFormed(window),
         window.index = windows[w].index,
         \A v \in LiveWindows \ {w} : windows[v].panes \cap window.panes = {},
         members' = members, windows' = [windows EXCEPT ![w] = window],
         views' \in [Sessions -> [WindowIDs -> WindowView \cup {None}]],
         \A s \in members : Fits(views'[s][w], window.panes),
         \A s \in Sessions, v \in WindowIDs : s \notin members \/ v # w => views'[s][v] = views[s][v]
  PROVE  GraphOK' /\ LiveWindows' = LiveWindows
  <1>1. /\ w \in WindowIDs /\ window \in Window /\ windows \in [WindowIDs -> Window \cup {None}]
        /\ None \notin Window \cup WindowView
    BY NoneIsNothing DEF GraphOK, WellFormed, LiveWindows
  <1>2. /\ windows' \in [WindowIDs -> Window \cup {None}] /\ windows'[w] = window
        /\ \A v \in WindowIDs \ {w} : windows'[v] = windows[v]
    BY <1>1
  <1>3. LiveWindows' = LiveWindows
    BY <1>1, <1>2 DEF LiveWindows
  <1>4. \A v \in LiveWindows : WellFormed(windows'[v]) /\ members' # {}
    BY <1>2 DEF GraphOK, LiveWindows
  <1>5. ASSUME NEW u \in LiveWindows, NEW v \in LiveWindows \ {u}
        PROVE  Apart(windows'[u], windows'[v])
    <2>1. Apart(windows[u], windows[v]) /\ Apart(windows[v], windows[u])
      BY DEF GraphOK, Apart
    <2>2. u \in WindowIDs /\ v \in WindowIDs
      BY DEF LiveWindows
    <2>3. CASE u = w
      BY <1>2, <2>1, <2>2, <2>3 DEF Apart
    <2>4. CASE v = w
      BY <1>2, <2>1, <2>2, <2>4 DEF Apart
    <2>5. CASE u # w /\ v # w
      BY <1>2, <2>1, <2>2, <2>5
    <2> QED
      BY <2>3, <2>4, <2>5
  <1>6. ASSUME NEW s \in members, NEW v \in LiveWindows
        PROVE  Fits(views'[s][v], windows'[v].panes)
    <2>1. s \in Sessions /\ v \in WindowIDs /\ Fits(views[s][v], windows[v].panes)
      BY DEF GraphOK, LiveWindows
    <2> QED
      BY <1>2, <2>1
  <1>7. ASSUME NEW s \in Sessions, NEW v \in WindowIDs
        PROVE  views'[s][v] # None <=> s \in members /\ v \in LiveWindows
    <2>1. views[s][v] # None <=> s \in members /\ v \in LiveWindows
      BY DEF GraphOK
    <2>2. CASE s \in members /\ v = w
      BY <1>1, <2>2 DEF Fits
    <2> QED
      BY <2>1, <2>2
  <1>8. GraphOK'
    <2>1. members' \subseteq Sessions
      BY DEF GraphOK
    <2> QED
      BY <1>2, <1>3, <1>4, <1>5, <1>6, <1>7, <2>1, GraphStep
  <1> QED
    BY <1>3, <1>8

LEMMA OneViewChanges ==
  ASSUME GraphOK, NEW w \in LiveWindows, NEW window, WellFormed(window),
         window.index = windows[w].index,
         \A v \in LiveWindows \ {w} : windows[v].panes \cap window.panes = {},
         windows[w].panes \subseteq window.panes,
         members' = members, windows' = [windows EXCEPT ![w] = window],
         NEW s \in members, NEW view, Fits(view, window.panes),
         views' = [views EXCEPT ![s][w] = view]
  PROVE  GraphOK' /\ LiveWindows' = LiveWindows
  <1>1. /\ s \in Sessions /\ w \in WindowIDs /\ view \in WindowView
        /\ views \in [Sessions -> [WindowIDs -> WindowView \cup {None}]]
    BY DEF GraphOK, LiveWindows, Fits
  <1>2. views' \in [Sessions -> [WindowIDs -> WindowView \cup {None}]]
    BY <1>1
  <1>3. views'[s][w] = view
    BY <1>1
  <1>4. \A t \in Sessions, v \in WindowIDs : t # s \/ v # w => views'[t][v] = views[t][v]
    BY <1>1
  <1>5. ASSUME NEW t \in members PROVE Fits(views'[t][w], window.panes)
    <2>1. CASE t = s
      BY <1>3, <2>1
    <2>2. CASE t # s
      <3>1. t \in Sessions /\ Fits(views[t][w], windows[w].panes)
        BY DEF GraphOK
      <3>2. Fits(views[t][w], window.panes)
        BY <3>1 DEF Fits
      <3> QED
        BY <1>1, <1>4, <2>2, <3>1, <3>2
    <2> QED
      BY <2>1, <2>2
  <1>6. \A t \in Sessions, v \in WindowIDs : t \notin members \/ v # w => views'[t][v] = views[t][v]
    BY <1>4
  <1>7. members' = members /\ windows' = [windows EXCEPT ![w] = window]
    OBVIOUS
  <1> QED
    BY <1>2, <1>5, <1>6, <1>7, WindowChanges

LEMMA WindowGoes ==
  ASSUME GraphOK, NEW w \in LiveWindows, members' = members,
         windows' = [windows EXCEPT ![w] = None],
         views' = [m \in Sessions |-> [views[m] EXCEPT ![w] = None]]
  PROVE  GraphOK' /\ LiveWindows' = LiveWindows \ {w}
  <1>1. /\ w \in WindowIDs /\ windows \in [WindowIDs -> Window \cup {None}]
        /\ views \in [Sessions -> [WindowIDs -> WindowView \cup {None}]]
    BY DEF GraphOK, LiveWindows
  <1>2. /\ windows' \in [WindowIDs -> Window \cup {None}] /\ windows'[w] = None
        /\ \A v \in WindowIDs \ {w} : windows'[v] = windows[v]
    BY <1>1
  <1>3. /\ views' \in [Sessions -> [WindowIDs -> WindowView \cup {None}]]
        /\ \A s \in Sessions : views'[s][w] = None
        /\ \A s \in Sessions, v \in WindowIDs \ {w} : views'[s][v] = views[s][v]
    BY <1>1
  <1>4. LiveWindows' = LiveWindows \ {w}
    BY <1>1, <1>2 DEF LiveWindows
  <1>5. \A v \in LiveWindows \ {w} : v \in WindowIDs \ {w}
    BY DEF LiveWindows
  <1>6. members \subseteq Sessions
    BY DEF GraphOK
  <1>7. \A v \in LiveWindows' : WellFormed(windows'[v]) /\ members' # {}
    BY <1>2, <1>4, <1>5 DEF GraphOK
  <1>8. \A u \in LiveWindows' : \A v \in LiveWindows' \ {u} : Apart(windows'[u], windows'[v])
    BY <1>2, <1>4, <1>5 DEF GraphOK
  <1>9. \A s \in members, v \in LiveWindows' : Fits(views'[s][v], windows'[v].panes)
    BY <1>2, <1>3, <1>4, <1>5, <1>6 DEF GraphOK
  <1>10. \A s \in Sessions, v \in WindowIDs : views'[s][v] # None <=> s \in members /\ v \in LiveWindows'
    BY <1>2, <1>3, <1>4 DEF GraphOK
  <1>11. GraphOK'
    BY <1>2, <1>3, <1>6, <1>7, <1>8, <1>9, <1>10, GraphStep
  <1> QED
    BY <1>4, <1>11

LEMMA WindowAppears ==
  ASSUME GraphOK, NEW w \in WindowIDs \ LiveWindows, NEW window, WellFormed(window),
         \A v \in LiveWindows : Apart(windows[v], window),
         members' = members, members # {}, windows' = [windows EXCEPT ![w] = window],
         NEW view, Fits(view, window.panes),
         views' = [m \in Sessions |->
                     IF m \in members THEN [views[m] EXCEPT ![w] = view] ELSE views[m]]
  PROVE  GraphOK' /\ LiveWindows' = LiveWindows \cup {w}
  <1>1. /\ windows \in [WindowIDs -> Window \cup {None}] /\ window \in Window
        /\ views \in [Sessions -> [WindowIDs -> WindowView \cup {None}]] /\ view \in WindowView
        /\ None \notin Window \cup WindowView
    BY NoneIsNothing DEF GraphOK, WellFormed, Fits
  <1>2. /\ windows' \in [WindowIDs -> Window \cup {None}] /\ windows'[w] = window
        /\ \A v \in WindowIDs \ {w} : windows'[v] = windows[v]
    BY <1>1
  <1>3. /\ views' \in [Sessions -> [WindowIDs -> WindowView \cup {None}]]
        /\ \A s \in Sessions : s \in members => views'[s][w] = view
        /\ \A s \in Sessions : s \notin members => views'[s] = views[s]
        /\ \A s \in Sessions, v \in WindowIDs \ {w} : views'[s][v] = views[s][v]
    BY <1>1
  <1>4. LiveWindows' = LiveWindows \cup {w}
    BY <1>1, <1>2 DEF LiveWindows
  <1>5. \A v \in LiveWindows : v \in WindowIDs \ {w}
    BY DEF LiveWindows
  <1>6. members \subseteq Sessions
    BY DEF GraphOK
  <1>7. \A v \in LiveWindows' : WellFormed(windows'[v]) /\ members' # {}
    BY <1>2, <1>4, <1>5 DEF GraphOK
  <1>8. ASSUME NEW u \in LiveWindows', NEW v \in LiveWindows' \ {u}
        PROVE  Apart(windows'[u], windows'[v])
    <2>1. CASE u = w
      BY <1>2, <1>4, <1>5, <2>1 DEF Apart
    <2>2. CASE v = w
      BY <1>2, <1>4, <1>5, <2>2 DEF Apart
    <2>3. CASE u # w /\ v # w
      BY <1>2, <1>4, <1>5, <2>3 DEF GraphOK
    <2> QED
      BY <2>1, <2>2, <2>3
  <1>9. \A s \in members, v \in LiveWindows' : Fits(views'[s][v], windows'[v].panes)
    BY <1>2, <1>3, <1>4, <1>5, <1>6 DEF GraphOK
  <1>10. ASSUME NEW s \in Sessions, NEW v \in WindowIDs
         PROVE  views'[s][v] # None <=> s \in members /\ v \in LiveWindows'
    <2>1. views[s][v] # None <=> s \in members /\ v \in LiveWindows
      BY DEF GraphOK
    <2> QED
      BY <1>1, <1>3, <1>4, <2>1
  <1>11. GraphOK'
    BY <1>2, <1>3, <1>6, <1>7, <1>8, <1>9, <1>10, GraphStep
  <1> QED
    BY <1>4, <1>11

-----------------------------------------------------------------------------
(* What clients are told *)

LEMMA ShownIsThere ==
  ASSUME GraphOK, ActiveIsLive, NEW s \in members, ProjectedWindow(s) # None
  PROVE  /\ ProjectedWindow(s) \in LiveWindows
         /\ Shown(s) \subseteq windows[ProjectedWindow(s)].panes
         /\ Shown(s) \subseteq PaneIDs
  <1>1. ProjectedWindow(s) \in LiveWindows
    BY ProjectedIsLive
  <1>2. \A w \in LiveWindows : windows[w].panes \subseteq PaneIDs
    BY DEF GraphOK, WellFormed, Window
  <1>3. \A w \in LiveWindows : Visible(s, w) \subseteq windows[w].panes
    BY DEF Visible
  <1> QED
    BY <1>1, <1>2, <1>3 DEF Shown

LEMMA ShownIsThereNext ==
  (GraphOK /\ ActiveIsLive =>
     \A s \in members : ProjectedWindow(s) # None =>
        /\ ProjectedWindow(s) \in LiveWindows
        /\ Shown(s) \subseteq windows[ProjectedWindow(s)].panes
        /\ Shown(s) \subseteq PaneIDs)'
  <1>1. GraphOK /\ ActiveIsLive =>
          \A s \in members : ProjectedWindow(s) # None =>
            /\ ProjectedWindow(s) \in LiveWindows
            /\ Shown(s) \subseteq windows[ProjectedWindow(s)].panes
            /\ Shown(s) \subseteq PaneIDs
    BY ShownIsThere
  <1> QED
    BY <1>1, PTL

LEMMA FullViewIsTold ==
  ASSUME GraphOK', ActiveIsLive', windowLeases' \in [WindowIDs -> Lease \cup {None}],
         NEW c \in Clients, NEW s \in members'
  PROVE  FullView(c, s) \in Told
  <1>1. PICK w : w = ProjectedWindow(s)'
    OBVIOUS
  <1>2. PICK shown : shown = Shown(s)'
    OBVIOUS
  <1>3. w # None => w \in WindowIDs /\ shown \subseteq PaneIDs
    BY <1>1, <1>2, ShownIsThereNext DEF LiveWindows
  <1>4. CASE w = None
    <2>1. FullView(c, s) = NothingTold
      BY <1>1, <1>4 DEF FullView
    <2> QED
      BY <2>1 DEF NothingTold, Told
  <1>5. CASE w # None
    <2>1. PICK g : g = IF windowLeases'[w] # None /\ windowLeases'[w].client = c
                         THEN windowLeases'[w].generation ELSE 0
      OBVIOUS
    <2>2. g \in Nat
      BY <1>3, <1>5, <2>1 DEF Lease
    <2>3. FullView(c, s) = [window |-> w, generation |-> g, placed |-> shown, close |-> FALSE]
      BY <1>1, <1>2, <1>5, <2>1 DEF FullView
    <2> QED
      BY <1>3, <1>5, <2>2, <2>3 DEF Told
  <1> QED
    BY <1>4, <1>5

LEMMA TellClientKeepsType ==
  ASSUME ToldOK, GraphOK', ActiveIsLive', windowLeases' \in [WindowIDs -> Lease \cup {None}],
         NEW c \in Clients, NEW s \in members', TellClient(c, s)
  PROVE  ToldOK' /\ \A d \in Clients : told[d] # None => told'[d] # None
  <1>1. FullView(c, s) \in Told
    BY FullViewIsTold
  <1>2. told' = [told EXCEPT ![c] = IF Hears(c) THEN FullView(c, s) ELSE @] /\ untold' = untold \ {c}
    BY DEF TellClient
  <1> QED
    BY <1>1, <1>2, NoneIsNothing DEF ToldOK

LEMMA TellNobodyKeepsType ==
  ASSUME ToldOK, RegistriesOK, NEW S, S \subseteq Sessions, TellNobody(S)
  PROVE  ToldOK'
  BY DEF TellNobody, ToldOK, RegistriesOK

LEMMA TellAllKeepsType ==
  ASSUME ToldOK, RegistriesOK, GraphOK, GraphOK', ActiveIsLive',
         windowLeases' \in [WindowIDs -> Lease \cup {None}],
         members' = members, NEW S \in SUBSET members, TellAll(S)
  PROVE  ToldOK' /\ \A d \in Clients : told[d] # None => told'[d] # None
  <1>1. untold' \subseteq Clients
    BY DEF TellAll, ToldOK, RegistriesOK, GraphOK
  <1>2. ASSUME NEW c \in Clients
        PROVE  told'[c] \in Told \cup {None} /\ (told[c] # None => told'[c] # None)
    <2> DEFINE Heard == {[FullView(c, s) EXCEPT !.close = @ \/ active'[s] = None] :
                            s \in {t \in S : client[t] = c}}
    <2>1. told'[c] = IF Hears(c) /\ \E s \in S : client[s] = c
                       THEN CHOOSE v \in Heard : TRUE ELSE told[c]
      BY DEF TellAll
    <2>2. Heard \subseteq Told
      <3>1. ASSUME NEW s \in S
            PROVE  [FullView(c, s) EXCEPT !.close = @ \/ active'[s] = None] \in Told
        <4>1. PICK v \in Told : v = FullView(c, s)
          BY FullViewIsTold
        <4>2. PICK b \in BOOLEAN : b = (v.close \/ active'[s] = None)
          OBVIOUS
        <4>3. [v EXCEPT !.close = b] \in Told
          BY DEF Told
        <4> QED
          BY <4>1, <4>2, <4>3
      <3> QED
        BY <3>1
    <2>3. (\E s \in S : client[s] = c) => Heard # {}
      OBVIOUS
    <2> HIDE DEF Heard
    <2> QED
      BY <2>1, <2>2, <2>3, NoneIsNothing DEF ToldOK
  <1> QED
    BY <1>1, <1>2 DEF ToldOK, TellAll

-----------------------------------------------------------------------------
(* Turns: what the loop over the members decides when a window goes *)

Turned(w, left, start, order, turn, n) ==
    IF n = 0 THEN start ELSE FallBack(w, left, order[n], turn[n - 1])

LEMMA TurnsExist ==
  ASSUME NEW w, NEW left, NEW start, NEW order, NEW N \in Nat
  PROVE  \E f : f = [n \in 0 .. N |-> Turned(w, left, start, order, f, n)]
  <1> DEFINE Bad == {m \in Nat : ~ \E f : f = [n \in 0 .. m |-> Turned(w, left, start, order, f, n)]}
  <1>1. SUFFICES ASSUME Bad # {} PROVE FALSE
    OBVIOUS
  <1>2. PICK m \in Bad : \A k \in Bad : m <= k
    <2>1. Bad \subseteq Nat
      OBVIOUS
    <2> HIDE DEF Bad
    <2> QED
      BY <1>1, <2>1, LeastNat
  <1>3. CASE m = 0
    <2> DEFINE f == [n \in 0 .. 0 |-> start]
    <2>1. f = [n \in 0 .. 0 |-> Turned(w, left, start, order, f, n)]
      BY DEF Turned
    <2> QED
      BY <1>2, <1>3, <2>1
  <1>4. CASE m # 0
    <2>1. m - 1 \in Nat /\ m - 1 \notin Bad
      BY <1>2, <1>4
    <2>2. PICK f : f = [n \in 0 .. m - 1 |-> Turned(w, left, start, order, f, n)]
      BY <2>1
    <2> DEFINE g == [n \in 0 .. m |-> IF n = m THEN Turned(w, left, start, order, f, m) ELSE f[n]]
    <2>3. ASSUME NEW n \in 0 .. m
          PROVE  g[n] = Turned(w, left, start, order, g, n)
      <3>1. CASE n = 0
        BY <3>1, <1>4, <2>1, <2>2 DEF Turned
      <3>2. CASE n # 0
        <4>1. n - 1 \in 0 .. m - 1 /\ n \in 0 .. m /\ n - 1 # m /\ n - 1 \in 0 .. m
          BY <3>2, <1>2
        <4>2. g[n - 1] = f[n - 1]
          BY <4>1
        <4>3. n = m \/ n \in 0 .. m - 1
          BY <1>2
        <4>4. g[n] = Turned(w, left, start, order, f, n)
          BY <4>3, <2>2
        <4> QED
          BY <4>2, <4>4, <3>2 DEF Turned
      <3> QED
        BY <3>1, <3>2
    <2>4. g = [n \in 0 .. m |-> Turned(w, left, start, order, g, n)]
      BY <2>3
    <2> HIDE DEF g
    <2> QED
      BY <1>2, <2>4
  <1> QED
    BY <1>3, <1>4

LEMMA TurnByTurn ==
  ASSUME NEW w, NEW left, NEW start, NEW order, Len(order) \in Nat
  PROVE  /\ Turns(w, left, start, order)[0] = start
         /\ \A n \in 1 .. Len(order) :
               Turns(w, left, start, order)[n]
                 = FallBack(w, left, order[n], Turns(w, left, start, order)[n - 1])
  <1> DEFINE N == Len(order)
             turn == CHOOSE f : f = [n \in 0 .. N |-> Turned(w, left, start, order, f, n)]
  <1>0. N \in Nat
    OBVIOUS
  <1>1. \A n \in 0 .. N : turn[n] = Turned(w, left, start, order, turn, n)
    <2>1. \E f : f = [n \in 0 .. N |-> Turned(w, left, start, order, f, n)]
      <3> HIDE DEF N
      <3> QED
        BY <1>0, TurnsExist
    <2>2. turn = [n \in 0 .. N |-> Turned(w, left, start, order, turn, n)]
      BY <2>1
    <2> HIDE DEF turn
    <2> QED
      BY <2>2
  <1>2. Turns(w, left, start, order) = turn
    BY DEF Turns, Turned
  <1> HIDE DEF turn
  <1>3. turn[0] = start
    <2>1. 0 \in 0 .. N
      OBVIOUS
    <2> QED
      BY <1>1, <2>1 DEF Turned
  <1>4. ASSUME NEW n \in 1 .. N
        PROVE  turn[n] = FallBack(w, left, order[n], turn[n - 1])
    <2>1. n \in 0 .. N /\ n # 0
      OBVIOUS
    <2> QED
      BY <1>1, <2>1 DEF Turned
  <1> QED
    BY <1>2, <1>3, <1>4

\* The loop takes every member once.
LEMMA OrderCovers ==
  ASSUME NEW S, IsFiniteSet(S), NEW order \in SetToSeqs(S)
  PROVE  /\ order \in Seq(S) /\ Len(order) \in Nat
         /\ \A x \in S : \E i \in 1 .. Len(order) : order[i] = x
  <1> DEFINE N == Cardinality(S)
  <1>1. N \in Nat
    BY FS_CardinalityType
  <1>2. order \in [1 .. N -> S] /\ \A i, j \in 1 .. N : i # j => order[i] # order[j]
    BY DEF SetToSeqs
  <1>3. order \in Seq(S) /\ Len(order) = N
    BY <1>1, <1>2
  <1>4. ASSUME NEW x \in S, \A i \in 1 .. N : order[i] # x
        PROVE  FALSE
    <2>1. IsFiniteSet(1 .. N) /\ Cardinality(1 .. N) = N
      BY <1>1, FS_Interval
    <2>2. IsFiniteSet(S \ {x}) /\ Cardinality(S \ {x}) = N - 1
      BY FS_RemoveElement
    <2>3. order \in [1 .. N -> S \ {x}]
      BY <1>2, <1>4
    <2>4. N - 1 < N
      BY <1>1
    <2> HIDE DEF N
    <2>5. \E i, j \in 1 .. N : i # j /\ order[i] = order[j]
      BY <2>1, <2>2, <2>3, <2>4, FS_PigeonHole
    <2> QED
      BY <1>2, <2>5
  <1> QED
    BY <1>1, <1>3, <1>4

Decision == [active : [Sessions -> WindowIDs \cup {None}],
             previous : [Sessions -> WindowIDs \cup {None}],
             leases : [WindowIDs -> Lease \cup {None}]]

\* Session m has a window that stays, or none of them may be given to it.
Settled(m, r, left) ==
    \/ r.active[m] \in left
    \/ r.active[m] = None /\ \A v \in left : r.leases[v] # None /\ r.leases[v].client # client[m]

\* The client of a member with a window that stays has the lease of it.
LeasesFit(r, left) ==
    \A s \in members : client[s] # None /\ r.active[s] \in left =>
        /\ r.leases[r.active[s]] # None
        /\ r.leases[r.active[s]].client = client[s]
        /\ r.leases[r.active[s]].session = s

\* A client is in one session, and has the lease of the window that session shows.
OneSession ==
    \A s, t \in members : client[s] # None /\ client[s] = client[t] => s = t

LeasesHeld ==
    \A s \in members : client[s] # None /\ active[s] # None =>
        /\ windowLeases[active[s]] # None
        /\ windowLeases[active[s]].client = client[s]
        /\ windowLeases[active[s]].session = s

\* What a member's turn comes to: it keeps its window, none may be given to it,
\* or it is given another.
Stays(w, left, m, r, q) ==
    /\ r.active[m] \in left
    /\ q = [active |-> r.active,
            previous |-> [r.previous EXCEPT ![m] = IF @ = w THEN None ELSE @],
            leases |-> r.leases]

Blocked(w, left, m, r, q) ==
    /\ \A v \in left : r.leases[v] # None /\ r.leases[v].client # client[m]
    /\ \E p \in {None, w} :
          q = [active |-> [r.active EXCEPT ![m] = None],
               previous |-> [r.previous EXCEPT ![m] = p],
               leases |-> r.leases]

Replaced(left, m, r, q) ==
    \E new \in left :
        /\ client[m] = None \/ r.leases[new] = None \/ r.leases[new].client = client[m]
        /\ q = [active |-> [r.active EXCEPT ![m] = new],
                previous |-> [r.previous EXCEPT ![m] = None],
                leases |-> [r.leases EXCEPT ![new] =
                              IF client[m] = None THEN r.leases[new]
                              ELSE LeaseTo(m, client[m], NextGeneration(r.leases[new]))]]

LEMMA TurnDecides ==
  ASSUME GraphOK, NEW w, NEW left, left \subseteq LiveWindows,
         NEW r \in Decision, NEW m \in members, NEW q, q = FallBack(w, left, m, r)
  PROVE  Stays(w, left, m, r, q) \/ Blocked(w, left, m, r, q) \/ Replaced(left, m, r, q)
  <1> DEFINE viewable == Viewable(r.leases, client[m])
             new == Replacement(left, r.previous[m], viewable)
  <1>1. /\ left \subseteq WindowIDs /\ DOMAIN r.leases = WindowIDs /\ None \notin WindowIDs
    BY SessionsAssumption DEF LiveWindows, Decision, WindowIDs
  <1>2. \A v \in left : v \in viewable <=>
           client[m] = None \/ r.leases[v] = None \/ r.leases[v].client = client[m]
    BY <1>1 DEF Viewable
  <1>3. new \in left \cap viewable \/ (left \cap viewable = {} /\ new = None)
    <2> HIDE DEF viewable
    <2>1. left \cap viewable # {} => FirstOf(left \cap viewable) \in left \cap viewable
      <3>1. left \cap viewable \subseteq LiveWindows
        OBVIOUS
      <3> QED
        BY <3>1, FirstIsThere
    <2> QED
      BY <2>1 DEF Replacement
  <1>4. q = IF r.active[m] \in left
              THEN [r EXCEPT !.previous[m] = IF @ = w THEN None ELSE @]
            ELSE IF left = {} THEN [r EXCEPT !.active[m] = None, !.previous[m] = None]
            ELSE IF new = None THEN [r EXCEPT !.active[m] = None, !.previous[m] = w]
            ELSE [r EXCEPT !.active[m] = new, !.previous[m] = None,
                           !.leases[new] = IF client[m] = None THEN @
                                           ELSE LeaseTo(m, client[m], NextGeneration(@))]
    BY DEF FallBack
  <1>5. PICK a, p, l : r = [active |-> a, previous |-> p, leases |-> l]
    BY DEF Decision
  <1> HIDE DEF viewable, new
  <1>6. CASE r.active[m] \in left
    <2>1. q = [r EXCEPT !.previous[m] = IF @ = w THEN None ELSE @]
      BY <1>4, <1>6
    <2>2. q = [active |-> a, previous |-> [p EXCEPT ![m] = IF @ = w THEN None ELSE @], leases |-> l]
      BY <1>5, <2>1
    <2> QED
      BY <1>5, <1>6, <2>2 DEF Stays
  <1>7. CASE r.active[m] \notin left /\ left \cap viewable = {}
    <2>1. new = None
      BY <1>3, <1>7
    <2>2. PICK z \in {None, w} : q = [r EXCEPT !.active[m] = None, !.previous[m] = z]
      BY <1>4, <1>7, <2>1
    <2>3. q = [active |-> [a EXCEPT ![m] = None], previous |-> [p EXCEPT ![m] = z], leases |-> l]
      BY <1>5, <2>2
    <2>4. \A v \in left : r.leases[v] # None /\ r.leases[v].client # client[m]
      BY <1>2, <1>7
    <2> QED
      BY <1>5, <2>3, <2>4 DEF Blocked
  <1>8. CASE r.active[m] \notin left /\ left \cap viewable # {}
    <2>1. new \in left /\ new \in viewable /\ new # None /\ left # {}
      BY <1>1, <1>3, <1>8
    <2>2. q = [r EXCEPT !.active[m] = new, !.previous[m] = None,
                       !.leases[new] = IF client[m] = None THEN @
                                       ELSE LeaseTo(m, client[m], NextGeneration(@))]
      BY <1>4, <1>8, <2>1
    <2>3. q = [active |-> [a EXCEPT ![m] = new], previous |-> [p EXCEPT ![m] = None],
               leases |-> [l EXCEPT ![new] = IF client[m] = None THEN @
                                             ELSE LeaseTo(m, client[m], NextGeneration(@))]]
      BY <1>5, <2>2
    <2>4. client[m] = None \/ r.leases[new] = None \/ r.leases[new].client = client[m]
      BY <1>2, <2>1
    <2>5. q = [active |-> [a EXCEPT ![m] = new], previous |-> [p EXCEPT ![m] = None],
               leases |-> [l EXCEPT ![new] = IF client[m] = None THEN l[new]
                                             ELSE LeaseTo(m, client[m], NextGeneration(l[new]))]]
      BY <2>3
    <2> QED
      BY <1>5, <2>1, <2>4, <2>5 DEF Replaced
  <1> QED
    BY <1>6, <1>7, <1>8

\* A turn settles its member, and takes no lease from the client that has it.
Follows(left, m, r, q) ==
    /\ q \in Decision
    /\ Settled(m, q, left)
    /\ \A s \in Sessions \ {m} : q.active[s] = r.active[s]
    /\ \A v \in WindowIDs : r.leases[v] # None =>
          q.leases[v] # None /\ q.leases[v].client = r.leases[v].client
    /\ \A v \in WindowIDs \ left : q.leases[v] = r.leases[v]
    /\ OneSession /\ LeasesFit(r, left) => LeasesFit(q, left)

LEMMA TurnKeeps ==
  ASSUME GraphOK, RegistriesOK, NEW w \in WindowIDs, NEW left, left \subseteq LiveWindows,
         NEW r \in Decision, NEW m \in members, NEW q, q = FallBack(w, left, m, r)
  PROVE  Follows(left, m, r, q)
  <1>1. /\ left \subseteq WindowIDs /\ m \in Sessions /\ members \subseteq Sessions
        /\ client \in [Sessions -> Clients \cup {None}] /\ None \notin Lease
    BY NoneIsNothing DEF LiveWindows, GraphOK, RegistriesOK
  <1>2. /\ r.active \in [Sessions -> WindowIDs \cup {None}]
        /\ r.previous \in [Sessions -> WindowIDs \cup {None}]
        /\ r.leases \in [WindowIDs -> Lease \cup {None}]
    BY DEF Decision
  <1>3. CASE Stays(w, left, m, r, q)
    <2>1. q.active = r.active /\ q.leases = r.leases /\ q \in Decision /\ r.active[m] \in left
      BY <1>1, <1>2, <1>3 DEF Decision, Stays
    <2> QED
      BY <2>1 DEF Settled, LeasesFit, Follows
  <1>4. CASE Blocked(w, left, m, r, q)
    <2> PICK p \in {None, w} :
           q = [active |-> [r.active EXCEPT ![m] = None],
                previous |-> [r.previous EXCEPT ![m] = p],
                leases |-> r.leases]
      BY <1>4 DEF Blocked
    <2>1. /\ q \in Decision /\ q.leases = r.leases /\ q.active[m] = None
          /\ \A s \in Sessions \ {m} : q.active[s] = r.active[s]
      BY <1>1, <1>2 DEF Decision
    <2>2. None \notin left
      <3>1. None \notin WindowIDs
        BY SessionsAssumption DEF WindowIDs
      <3> QED
        BY <1>1, <3>1
    <2>3. Settled(m, q, left)
      BY <1>4, <2>1 DEF Settled, Blocked
    <2>4. LeasesFit(r, left) => LeasesFit(q, left)
      BY <1>1, <2>1, <2>2 DEF LeasesFit
    <2> QED
      BY <2>1, <2>3, <2>4 DEF Follows
  <1>5. CASE Replaced(left, m, r, q)
    <2> PICK new \in left :
          /\ client[m] = None \/ r.leases[new] = None \/ r.leases[new].client = client[m]
          /\ q = [active |-> [r.active EXCEPT ![m] = new],
                  previous |-> [r.previous EXCEPT ![m] = None],
                  leases |-> [r.leases EXCEPT ![new] =
                                IF client[m] = None THEN r.leases[new]
                                ELSE LeaseTo(m, client[m], NextGeneration(r.leases[new]))]]
      BY <1>5 DEF Replaced
    <2> DEFINE lease == IF client[m] = None THEN r.leases[new]
                        ELSE LeaseTo(m, client[m], NextGeneration(r.leases[new]))
    <2>1. NextGeneration(r.leases[new]) \in Nat \ {0}
      BY <1>1, <1>2 DEF NextGeneration, Lease
    <2>2. lease \in Lease \cup {None}
      BY <1>1, <1>2, <2>1 DEF LeaseTo, Lease
    <2>3. client[m] # None => lease # None /\ lease.client = client[m] /\ lease.session = m
      BY <1>1, <2>2, <2>1 DEF LeaseTo, Lease
    <2>4. client[m] = None => lease = r.leases[new]
      OBVIOUS
    <2>5. q = [active |-> [r.active EXCEPT ![m] = new],
               previous |-> [r.previous EXCEPT ![m] = None],
               leases |-> [r.leases EXCEPT ![new] = lease]]
      BY <1>5
    <2> HIDE DEF lease
    <2>6. /\ q \in Decision /\ q.active[m] = new /\ q.leases[new] = lease
          /\ \A s \in Sessions \ {m} : q.active[s] = r.active[s]
          /\ \A v \in WindowIDs \ {new} : q.leases[v] = r.leases[v]
      BY <1>1, <1>2, <2>2, <2>5 DEF Decision
    <2>7. \A v \in WindowIDs : r.leases[v] # None =>
             q.leases[v] # None /\ q.leases[v].client = r.leases[v].client
      BY <2>3, <2>4, <2>6
    <2>8. ASSUME OneSession, LeasesFit(r, left),
                 NEW s \in members, client[s] # None, q.active[s] \in left
          PROVE  /\ q.leases[q.active[s]] # None
                 /\ q.leases[q.active[s]].client = client[s]
                 /\ q.leases[q.active[s]].session = s
      <3>1. CASE s = m
        BY <2>3, <2>6, <2>8, <3>1
      <3>2. CASE s # m
        <4>1. s \in Sessions \ {m} /\ q.active[s] = r.active[s]
          BY <1>1, <2>6, <3>2
        <4>2. /\ r.leases[r.active[s]] # None
              /\ r.leases[r.active[s]].client = client[s]
              /\ r.leases[r.active[s]].session = s
          BY <2>8, <4>1 DEF LeasesFit
        <4>3. CASE r.active[s] = new
          <5>1. client[m] = None
            BY <1>5, <2>8, <3>2, <4>2, <4>3 DEF OneSession
          <5> QED
            BY <2>4, <2>6, <4>1, <4>2, <4>3, <5>1
        <4>4. CASE r.active[s] # new
          BY <1>1, <2>6, <2>8, <4>1, <4>2, <4>4
        <4> QED
          BY <4>3, <4>4
      <3> QED
        BY <3>1, <3>2
    <2>9. OneSession /\ LeasesFit(r, left) => LeasesFit(q, left)
      BY <2>8 DEF LeasesFit
    <2> QED
      BY <2>6, <2>7, <2>9 DEF Settled, Follows
  <1> QED
    BY <1>3, <1>4, <1>5, TurnDecides

\* When the loop has had all its turns, every member is settled.
AllSettled(left, start, end) ==
    /\ end \in Decision
    /\ \A s \in members : Settled(s, end, left)
    /\ \A s \in Sessions \ members : end.active[s] = start.active[s]
    /\ \A v \in WindowIDs \ left : end.leases[v] = start.leases[v]
    /\ OneSession /\ LeasesFit(start, left) => LeasesFit(end, left)

LEMMA TurnsSettle ==
  ASSUME GraphOK, RegistriesOK, NEW w \in WindowIDs, NEW left, left \subseteq LiveWindows,
         NEW start \in Decision, NEW order \in SetToSeqs(members),
         NEW end, end = Turns(w, left, start, order)[Len(order)]
  PROVE  AllSettled(left, start, end)
  <1> DEFINE N == Len(order)
             turn == Turns(w, left, start, order)
             Good(n) == /\ turn[n] \in Decision
                        /\ \A i \in 1 .. n : Settled(order[i], turn[n], left)
                        /\ \A s \in Sessions \ members : turn[n].active[s] = start.active[s]
                        /\ \A v \in WindowIDs \ left : turn[n].leases[v] = start.leases[v]
                        /\ OneSession /\ LeasesFit(start, left) => LeasesFit(turn[n], left)
             Bad == {n \in 0 .. N : ~ Good(n)}
  <1>1. IsFiniteSet(members) /\ members \subseteq Sessions /\ left \subseteq WindowIDs
    BY SessionsAssumption, FS_Subset DEF GraphOK, LiveWindows
  <1>2. /\ N \in Nat /\ \A i \in 1 .. N : order[i] \in members
        /\ \A s \in members : \E i \in 1 .. N : order[i] = s
    BY <1>1, OrderCovers
  <1>3. turn[0] = start /\ \A n \in 1 .. N : turn[n] = FallBack(w, left, order[n], turn[n - 1])
    BY <1>2, TurnByTurn
  <1> HIDE DEF turn, N
  <1>4. Good(0)
    BY <1>3
  <1>5. ASSUME NEW n \in 1 .. N, Good(n - 1)
        PROVE  Good(n)
    <2>1. PICK m \in members : m = order[n]
      BY <1>2
    <2>2. PICK r \in Decision : r = turn[n - 1]
      BY <1>5
    <2>3. PICK q : q = turn[n]
      OBVIOUS
    <2>4. q = FallBack(w, left, m, r)
      BY <1>3, <2>1, <2>2, <2>3
    <2>5. /\ q \in Decision
          /\ Settled(m, q, left)
          /\ \A s \in Sessions \ {m} : q.active[s] = r.active[s]
          /\ \A v \in WindowIDs : r.leases[v] # None =>
                q.leases[v] # None /\ q.leases[v].client = r.leases[v].client
          /\ \A v \in WindowIDs \ left : q.leases[v] = r.leases[v]
          /\ OneSession /\ LeasesFit(r, left) => LeasesFit(q, left)
      <3>1. Follows(left, m, r, q)
        BY <2>4, TurnKeeps
      <3> QED
        BY <3>1 DEF Follows
    <2>6. ASSUME NEW i \in 1 .. n
          PROVE  Settled(order[i], q, left)
      <3>1. order[i] \in Sessions
        BY <1>1, <1>2
      <3>2. CASE order[i] = m
        BY <2>5, <3>2
      <3>3. CASE order[i] # m
        <4>1. i \in 1 .. n - 1
          BY <1>2, <2>1, <3>3
        <4>2. Settled(order[i], r, left)
          BY <1>5, <2>2, <4>1
        <4> QED
          BY <1>1, <2>5, <3>1, <3>3, <4>2 DEF Settled
      <3> QED
        BY <3>2, <3>3
    <2>7. \A s \in Sessions \ members : q.active[s] = start.active[s]
      BY <1>5, <2>2, <2>5
    <2>8. OneSession /\ LeasesFit(start, left) => LeasesFit(q, left)
      BY <1>5, <2>2, <2>5
    <2>9. \A v \in WindowIDs \ left : q.leases[v] = start.leases[v]
      BY <1>5, <2>2, <2>5
    <2> QED
      BY <2>3, <2>5, <2>6, <2>7, <2>8, <2>9
  <1>6. Bad = {}
    <2>1. SUFFICES ASSUME Bad # {} PROVE FALSE
      OBVIOUS
    <2>2. Bad \subseteq Nat
      BY <1>2
    <2> HIDE DEF Good
    <2>3. PICK k \in Bad : \A j \in Bad : k <= j
      <3> HIDE DEF Bad
      <3> QED
        BY <2>1, <2>2, LeastNat
    <2>4. k # 0
      BY <1>4
    <2>5. k \in 1 .. N /\ k - 1 \in 0 .. N /\ k - 1 \notin Bad
      BY <1>2, <2>3, <2>4
    <2> QED
      BY <1>5, <2>3, <2>5
  <1>7. Good(N)
    <2> HIDE DEF Good
    <2> QED
      BY <1>2, <1>6
  <1>8. end = turn[N]
    BY DEF turn, N
  <1> QED
    BY <1>2, <1>7, <1>8 DEF AllSettled

\* The commands and exits that take a window's last pane.
LEMMA RemovalSettles ==
  ASSUME GraphOK, RegistriesOK, ActiveIsLive, NEW w \in LiveWindows,
         members' = members, removeGroupWindowNow(w)
  PROVE  /\ GraphOK'
         /\ LiveWindows' = LiveWindows \ {w}
         /\ active' \in [Sessions -> WindowIDs \cup {None}]
         /\ previous' \in [Sessions -> WindowIDs \cup {None}]
         /\ windowLeases' \in [WindowIDs -> Lease \cup {None}]
         /\ \A s \in members : \/ active'[s] \in LiveWindows'
                               \/ /\ active'[s] = None
                                  /\ \A v \in LiveWindows' : /\ windowLeases'[v] # None
                                                             /\ windowLeases'[v].client # client[s]
         /\ \A s \in Sessions \ members : active'[s] = active[s]
         /\ \A v \in WindowIDs : windowLeases'[v] # None => windowLeases[v] # None \/ v \in LiveWindows'
         /\ OneSession /\ LeasesHeld =>
              \A s \in members : client[s] # None /\ active'[s] # None =>
                 /\ windowLeases'[active'[s]] # None
                 /\ windowLeases'[active'[s]].client = client[s]
                 /\ windowLeases'[active'[s]].session = s
  <1> DEFINE left == LiveWindows \ {w}
             start == [active |-> active, previous |-> previous,
                       leases |-> [windowLeases EXCEPT ![w] = None]]
  <1>1. w \in WindowIDs
    BY DEF LiveWindows
  <1>2. GraphOK' /\ LiveWindows' = left
    BY WindowGoes DEF removeGroupWindowNow
  <1>3. PICK order, end :
          /\ order \in SetToSeqs(members) /\ end = Turns(w, left, start, order)[Len(order)]
          /\ active' = end.active /\ previous' = end.previous /\ windowLeases' = end.leases
    BY DEF removeGroupWindowNow
  <1>4. start \in Decision
    BY <1>1 DEF Decision, RegistriesOK
  <1>5. left \subseteq LiveWindows
    OBVIOUS
  <1>6. start.active = active
    OBVIOUS
  <1>14. \A v \in WindowIDs : start.leases[v] # None => windowLeases[v] # None
    BY <1>1 DEF RegistriesOK
  <1>10. LeasesHeld => LeasesFit(start, left)
    <2>1. \A v \in left : v \in WindowIDs /\ v # None /\ start.leases[v] = windowLeases[v]
      BY SessionsAssumption DEF LiveWindows, WindowIDs, RegistriesOK
    <2> HIDE DEF start, left
    <2> QED
      BY <1>6, <2>1 DEF LeasesHeld, LeasesFit
  <1> HIDE DEF start, left
  <1>7. /\ end \in Decision
        /\ \A s \in members : Settled(s, end, left)
        /\ \A s \in Sessions \ members : end.active[s] = start.active[s]
        /\ \A v \in WindowIDs \ left : end.leases[v] = start.leases[v]
        /\ OneSession /\ LeasesFit(start, left) => LeasesFit(end, left)
    <2>1. AllSettled(left, start, end)
      BY <1>1, <1>3, <1>4, <1>5, TurnsSettle
    <2> QED
      BY <2>1 DEF AllSettled
  <1>8. LiveWindows' = LiveWindows \ {w}
    BY <1>2 DEF left
  <1>9. \A s \in members : \/ active'[s] \in left
                           \/ /\ active'[s] = None
                              /\ \A v \in left : /\ windowLeases'[v] # None
                                                 /\ windowLeases'[v].client # client[s]
    BY <1>3, <1>7 DEF Settled
  <1>11. OneSession /\ LeasesHeld =>
           \A s \in members : client[s] # None /\ active'[s] # None =>
              /\ windowLeases'[active'[s]] # None
              /\ windowLeases'[active'[s]].client = client[s]
              /\ windowLeases'[active'[s]].session = s
    <2>1. OneSession /\ LeasesHeld => LeasesFit(end, left)
      BY <1>7, <1>10
    <2>2. \A s \in members : active'[s] # None => end.active[s] \in left
      BY <1>3, <1>9
    <2> QED
      BY <1>3, <2>1, <2>2 DEF LeasesFit
  <1>12. /\ active' \in [Sessions -> WindowIDs \cup {None}]
         /\ previous' \in [Sessions -> WindowIDs \cup {None}]
         /\ windowLeases' \in [WindowIDs -> Lease \cup {None}]
         /\ \A s \in Sessions \ members : active'[s] = active[s]
    BY <1>3, <1>6, <1>7 DEF Decision
  <1>13. \A s \in members : \/ active'[s] \in LiveWindows'
                            \/ /\ active'[s] = None
                               /\ \A v \in LiveWindows' : /\ windowLeases'[v] # None
                                                          /\ windowLeases'[v].client # client[s]
    BY <1>2, <1>9
  <1>15. \A v \in WindowIDs : windowLeases'[v] # None => windowLeases[v] # None \/ v \in LiveWindows'
    BY <1>2, <1>3, <1>7, <1>14
  <1> QED
    BY <1>2, <1>8, <1>11, <1>12, <1>13, <1>15

-----------------------------------------------------------------------------
(* The invariant holds at first and is kept by every command *)

LEMMA InitOK == Init => IInv
  <1> SUFFICES ASSUME Init PROVE IInv
    OBVIOUS
  <1> DEFINE window == [panes |-> {1}, active |-> 1, zoomed |-> None, index |-> 0]
  <1>1. /\ 1 \in WindowIDs /\ 1 \in PaneIDs /\ Base \in Sessions /\ None \notin WindowIDs
        /\ 1 < 2 /\ 2 \in 1 .. MaxWindow + 1 /\ 2 \in 1 .. MaxPane + 1
    BY BoundsAssumption, SessionsAssumption DEF WindowIDs, PaneIDs
  <1>2. WellFormed(window)
    <2>1. Cardinality({1}) = 1
      BY FS_Singleton
    <2>2. 1 <= MaxVisiblePanes
      BY BoundsAssumption
    <2> QED
      BY <1>1, <2>1, <2>2 DEF WellFormed, Window
  <1>3. window # None
    BY <1>2, NoneIsNothing DEF WellFormed
  <1>4. Fits(NewView(1), {1}) /\ NewView(1) # None
    <2>1. {1} \in SUBSET PaneIDs
      BY <1>1
    <2>2. Fits(NewView(1), {1})
      BY <2>1, NewViewFits
    <2> QED
      BY <2>2, NoneIsNothing DEF Fits
  <1> HIDE DEF window
  <1>5. /\ windows \in [WindowIDs -> Window \cup {None}] /\ windows[1] = window
        /\ LiveWindows = {1}
    BY <1>1, <1>2, <1>3 DEF Init, LiveWindows, WellFormed, window
  <1>6. /\ views \in [Sessions -> [WindowIDs -> WindowView \cup {None}]]
        /\ \A s \in Sessions, w \in WindowIDs :
              views[s][w] = IF s = Base /\ w = 1 THEN NewView(1) ELSE None
    BY <1>1, <1>4 DEF Init, Fits
  <1>7. GraphOK
    BY <1>1, <1>2, <1>4, <1>5, <1>6 DEF Init, GraphOK, window
  <1>8. RegistriesOK
    BY <1>1 DEF Init, RegistriesOK
  <1>9. ToldOK /\ ActiveIsLive
    BY <1>1, <1>5 DEF Init, ToldOK, ActiveIsLive
  <1>10. IDsAreFresh
    BY <1>5 DEF Init, IDsAreFresh, window
  <1> QED
    BY <1>7, <1>8, <1>9, <1>10 DEF IInv

\* Commands that leave the graph alone.
LEMMA GraphStays ==
  ASSUME GraphOK, members' = members, windows' = windows, views' = views
  PROVE  GraphOK' /\ LiveWindows' = LiveWindows
  <1>1. LiveWindows' = LiveWindows
    BY DEF LiveWindows
  <1>2. \A w \in LiveWindows : WellFormed(windows[w])
    BY DEF GraphOK
  <1> QED
    BY <1>1 DEF GraphOK, WellFormed, Fits, Apart

LEMMA detachKeeps == ASSUME IInv, NEW c \in Clients, detach(c) PROVE IInv'
  <1> USE DEF IInv
  <1>1. GraphOK' /\ LiveWindows' = LiveWindows
    BY GraphStays DEF detach, sessionVars, graphVars
  <1>2. RegistriesOK'
    <2>1. windowLeases' \in [WindowIDs -> Lease \cup {None}]
      BY DEF detach, RegistriesOK
    <2> QED
      BY <2>1 DEF detach, RegistriesOK, sessionVars, idVars, graphVars
  <1>3. ToldOK'
    BY DEF detach, ToldOK
  <1>4. ActiveIsLive' /\ IDsAreFresh'
    BY <1>1 DEF detach, ActiveIsLive, IDsAreFresh, sessionVars, graphVars, idVars
  <1> QED
    BY <1>1, <1>2, <1>3, <1>4

LEMMA beginStartKeeps ==
  ASSUME IInv, NEW s \in Sessions, NEW op \in {"window", "split"}, beginStart(op, s) PROVE IInv'
  <1> USE DEF IInv
  <1>1. GraphOK' /\ LiveWindows' = LiveWindows
    BY GraphStays DEF beginStart, sessionVars, graphVars
  <1>2. nextPane \in PaneIDs /\ nextPane' \in 1 .. MaxPane + 1 /\ nextPane < nextPane'
    BY BoundsAssumption DEF beginStart, PaneIDs, RegistriesOK
  <1>3. pending' \in Command
    BY <1>2 DEF beginStart, Command, RegistriesOK
  <1>4. RegistriesOK'
    BY <1>2, <1>3 DEF beginStart, RegistriesOK, sessionVars, clientVars, graphVars
  <1>5. ToldOK' /\ ActiveIsLive'
    BY <1>1 DEF beginStart, ToldOK, ActiveIsLive, toldVars, sessionVars, graphVars
  <1>6. IDsAreFresh'
    <2>1. \A w \in LiveWindows : \A p \in windows[w].panes : p \in Nat /\ p < nextPane
      BY DEF GraphOK, WellFormed, Window, PaneIDs, IDsAreFresh
    <2>2. nextPane' = nextPane + 1 /\ nextPane \in Nat /\ pending'.pane = nextPane
      BY <1>2 DEF beginStart, PaneIDs
    <2>3. windows' = windows /\ nextWindow' = nextWindow
      BY DEF beginStart, graphVars
    <2> QED
      BY <1>1, <2>1, <2>2, <2>3 DEF IDsAreFresh
  <1> QED
    BY <1>1, <1>4, <1>5, <1>6

LEMMA beginKillKeeps ==
  ASSUME IInv, NEW s \in Sessions, NEW p \in PaneIDs, beginKill(s, p) PROVE IInv'
  <1> USE DEF IInv
  <1>1. GraphOK' /\ LiveWindows' = LiveWindows
    BY GraphStays DEF beginKill, sessionVars, graphVars
  <1>2. pending' \in Command /\ pending'.op = "kill"
    BY DEF beginKill, Command, RegistriesOK
  <1>3. RegistriesOK'
    BY <1>2 DEF beginKill, RegistriesOK, sessionVars, clientVars, graphVars, idVars
  <1>4. ToldOK' /\ ActiveIsLive'
    BY <1>1 DEF beginKill, ToldOK, ActiveIsLive, toldVars, sessionVars, graphVars
  <1>5. IDsAreFresh'
    BY <1>1, <1>2 DEF beginKill, IDsAreFresh, graphVars, idVars
  <1> QED
    BY <1>1, <1>3, <1>4, <1>5

LEMMA failsKeep == ASSUME IInv, startFails \/ killFails PROVE IInv'
  <1> USE DEF IInv
  <1>1. /\ UNCHANGED <<sessionVars, idVars, clientVars, graphVars, windowLeases, toldVars>>
        /\ pending' = None
    BY DEF startFails, killFails
  <1>2. GraphOK' /\ LiveWindows' = LiveWindows
    BY <1>1, GraphStays DEF sessionVars, graphVars
  <1>3. RegistriesOK'
    BY <1>1 DEF RegistriesOK, sessionVars, clientVars, graphVars, idVars
  <1>4. ToldOK' /\ ActiveIsLive' /\ IDsAreFresh'
    BY <1>1, <1>2 DEF ToldOK, ActiveIsLive, IDsAreFresh, toldVars, sessionVars, graphVars, idVars
  <1> QED
    BY <1>2, <1>3, <1>4

LEMMA groupSessionsKeeps ==
  ASSUME IInv, NEW base \in Sessions, NEW m \in Sessions, groupSessions(base, m) PROVE IInv'
  <1> USE DEF IInv
  <1> DEFINE mirror == [w \in WindowIDs |->
                          IF w \in LiveWindows THEN NewView(windows[w].active) ELSE None]
  <1>1. /\ base \in members /\ m \in fresh /\ m \notin members /\ members' = members \cup {m}
        /\ windows' = windows /\ views' = [views EXCEPT ![m] = mirror]
        /\ members \subseteq Sessions /\ views \in [Sessions -> [WindowIDs -> WindowView \cup {None}]]
    BY DEF groupSessions, GraphOK, RegistriesOK
  <1>2. LiveWindows' = LiveWindows
    BY <1>1 DEF LiveWindows
  <1>3. ASSUME NEW w \in LiveWindows
        PROVE  Fits(NewView(windows[w].active), windows[w].panes)
    <2>1. windows[w].panes \in SUBSET PaneIDs /\ windows[w].active \in windows[w].panes
      BY DEF GraphOK, WellFormed, Window
    <2> QED
      BY <2>1, NewViewFits
  <1>4. /\ mirror \in [WindowIDs -> WindowView \cup {None}]
        /\ \A w \in WindowIDs : mirror[w] # None <=> w \in LiveWindows
    BY <1>3, NoneIsNothing DEF Fits
  <1>5. \A w \in LiveWindows : Fits(mirror[w], windows[w].panes)
    BY <1>3 DEF LiveWindows
  <1> HIDE DEF mirror
  <1>6. /\ views' \in [Sessions -> [WindowIDs -> WindowView \cup {None}]]
        /\ views'[m] = mirror
        /\ \A s \in Sessions \ {m} : views'[s] = views[s]
    BY <1>1, <1>4
  <1>7. \A w \in LiveWindows : WellFormed(windows'[w]) /\ members' # {}
    BY <1>1 DEF GraphOK
  <1>8. \A w \in LiveWindows : \A v \in LiveWindows \ {w} : Apart(windows'[w], windows'[v])
    BY <1>1 DEF GraphOK
  <1>9. \A s \in members', w \in LiveWindows : Fits(views'[s][w], windows'[w].panes)
    BY <1>1, <1>5, <1>6 DEF GraphOK
  <1>10. \A s \in Sessions, w \in WindowIDs : views'[s][w] # None <=> s \in members' /\ w \in LiveWindows
    BY <1>1, <1>4, <1>6 DEF GraphOK
  <1>11. GraphOK'
    <2>1. windows' \in [WindowIDs -> Window \cup {None}] /\ members' \subseteq Sessions
      BY <1>1 DEF GraphOK
    <2> QED
      BY <1>2, <1>6, <1>7, <1>8, <1>9, <1>10, <2>1, GraphStep
  <1>12. /\ active' = [active EXCEPT ![m] = active[base]]
         /\ previous' = [previous EXCEPT ![m] = IF active[base] = None THEN @ ELSE previous[base]]
         /\ grouped' = [s \in Sessions |-> s \in members' \/ grouped[s]]
         /\ fresh' = fresh \ {m}
         /\ UNCHANGED <<dying, nextWindow, nextPane, client, sessionOf, pending, windowLeases, told, untold>>
    BY DEF groupSessions, nextID, idVars, clientVars, toldVars
  <1>13. RegistriesOK'
    BY <1>1, <1>12 DEF RegistriesOK
  <1>14. ToldOK' /\ IDsAreFresh'
    BY <1>1, <1>2, <1>12 DEF ToldOK, IDsAreFresh
  <1>15. ActiveIsLive'
    BY <1>1, <1>2, <1>12 DEF ActiveIsLive, RegistriesOK
  <1> QED
    BY <1>11, <1>13, <1>14, <1>15

LEMMA shutdownSessionKeeps ==
  ASSUME IInv, NEW s \in Sessions, shutdownSession(s) PROVE IInv'
  <1> USE DEF IInv
  <1>1. /\ s \in members /\ members' = members \ {s}
        /\ windows' = IF members' = {} THEN [w \in WindowIDs |-> None] ELSE windows
        /\ views' = [views EXCEPT ![s] = [w \in WindowIDs |-> None]]
        /\ members \subseteq Sessions /\ views \in [Sessions -> [WindowIDs -> WindowView \cup {None}]]
        /\ windows \in [WindowIDs -> Window \cup {None}]
    BY DEF shutdownSession, GraphOK
  <1>2. /\ LiveWindows' = IF members' = {} THEN {} ELSE LiveWindows
        /\ windows' \in [WindowIDs -> Window \cup {None}]
        /\ \A w \in LiveWindows' : windows'[w] = windows[w]
    BY <1>1 DEF LiveWindows
  <1>3. /\ views' \in [Sessions -> [WindowIDs -> WindowView \cup {None}]]
        /\ \A w \in WindowIDs : views'[s][w] = None
        /\ \A t \in Sessions \ {s} : views'[t] = views[t]
    BY <1>1
  <1>4. LiveWindows' \subseteq LiveWindows /\ (members' # {} => LiveWindows' = LiveWindows)
        /\ (LiveWindows' # {} => members' # {})
    BY <1>2
  <1>5. GraphOK'
    <2>1. \A w \in LiveWindows' : WellFormed(windows'[w]) /\ members' # {}
      BY <1>2, <1>4 DEF GraphOK
    <2>2. \A w \in LiveWindows' : \A v \in LiveWindows' \ {w} : Apart(windows'[w], windows'[v])
      BY <1>2, <1>4 DEF GraphOK
    <2>3. \A t \in members', w \in LiveWindows' : Fits(views'[t][w], windows'[w].panes)
      BY <1>1, <1>2, <1>3, <1>4 DEF GraphOK
    <2>4. \A t \in Sessions, w \in WindowIDs : views'[t][w] # None <=> t \in members' /\ w \in LiveWindows'
      BY <1>1, <1>3, <1>4 DEF GraphOK
    <2> QED
      BY <1>1, <1>2, <1>3, <2>1, <2>2, <2>3, <2>4, GraphStep
  <1>6. /\ dying' = dying \ {s}
        /\ grouped' = [t \in Sessions |-> IF t \in members' THEN Cardinality(members') > 1 ELSE FALSE]
        /\ client' = [client EXCEPT ![s] = None]
        /\ active' = [active EXCEPT ![s] = None]
        /\ previous' = [previous EXCEPT ![s] = None]
        /\ UNCHANGED <<fresh, nextWindow, nextPane, sessionOf, pending, untold>>
    BY DEF shutdownSession, idVars
  <1>7. windowLeases' \in [WindowIDs -> Lease \cup {None}]
    BY DEF shutdownSession, removeSession, RegistriesOK
  <1>8. RegistriesOK'
    <2>1. grouped' \in [Sessions -> BOOLEAN]
      <3>1. PICK n : n = Cardinality(members')
        OBVIOUS
      <3>2. \A b : (n > b) \in BOOLEAN
        OBVIOUS
      <3>3. grouped' = [t \in Sessions |-> IF t \in members' THEN n > 1 ELSE FALSE]
        BY <1>6, <3>1, Zenon
      <3>4. ASSUME NEW t \in Sessions PROVE (IF t \in members' THEN n > 1 ELSE FALSE) \in BOOLEAN
        BY <3>2
      <3> QED
        BY <3>3, <3>4
    <2> QED
      BY <1>1, <1>6, <1>7, <2>1 DEF RegistriesOK
  <1>9. ToldOK'
    <2>1. \A v \in Told : [v EXCEPT !.close = TRUE] \in Told
      BY DEF Told
    <2>2. told' = [c \in Clients |->
            IF client[s] = c /\ Hears(c) THEN [told[c] EXCEPT !.close = TRUE] ELSE told[c]]
      BY DEF shutdownSession
    <2>3. \A c \in Clients : Hears(c) => told[c] \in Told
      BY DEF Hears, ToldOK
    <2> QED
      BY <1>6, <2>1, <2>2, <2>3 DEF ToldOK
  <1>10. ActiveIsLive'
    BY <1>1, <1>4, <1>6 DEF ActiveIsLive, RegistriesOK
  <1>11. IDsAreFresh'
    BY <1>2, <1>4, <1>6 DEF IDsAreFresh
  <1> QED
    BY <1>5, <1>8, <1>9, <1>10, <1>11

LEMMA attachKeeps ==
  ASSUME IInv, NEW c \in Clients, NEW s \in Sessions, attach(c, s) PROVE IInv'
  <1> USE DEF IInv
  <1>1. GraphOK' /\ LiveWindows' = LiveWindows
    BY GraphStays DEF attach, sessionVars, graphVars
  <1> DEFINE w == ProjectedWindow(s)
             current == windowLeases[w]
  <1>2. PICK old, g :
          /\ g = IF current = None THEN 1
                 ELSE IF old = w THEN current.generation
                 ELSE NextGeneration(current)
          /\ windowLeases' = [v \in WindowIDs |->
                IF v = w THEN LeaseTo(s, c, g) ELSE IF v = old THEN None ELSE windowLeases[v]]
    BY DEF attach
  <1>3. windowLeases' \in [WindowIDs -> Lease \cup {None}]
    <2>1. w \in WindowIDs
      BY ProjectedIsLive DEF attach, LiveWindows
    <2>2. g \in Nat \ {0}
      BY <1>2, <2>1 DEF RegistriesOK, Lease, NextGeneration
    <2>3. LeaseTo(s, c, g) \in Lease
      BY <2>2 DEF LeaseTo, Lease
    <2> HIDE DEF w
    <2> QED
      BY <1>2, <2>3 DEF RegistriesOK
  <1>4. RegistriesOK'
    BY <1>3 DEF attach, RegistriesOK, sessionVars, idVars, graphVars
  <1>5. ActiveIsLive' /\ IDsAreFresh'
    BY <1>1 DEF attach, ActiveIsLive, IDsAreFresh, sessionVars, graphVars, idVars
  <1>6. s \in members'
    BY DEF attach, sessionVars
  <1>7. FullView(c, s) \in Told
    BY <1>1, <1>3, <1>5, <1>6, FullViewIsTold
  <1>8. ToldOK'
    BY <1>7 DEF attach, ToldOK
  <1> QED
    BY <1>1, <1>4, <1>5, <1>8

LEMMA selectWindowKeeps ==
  ASSUME IInv, NEW c \in Clients, NEW s \in Sessions, NEW w \in WindowIDs, selectWindow(c, s, w)
  PROVE  IInv'
  <1> USE DEF IInv
  <1> DEFINE source == ProjectedWindow(s)
             view == views[s][w]
  <1>1. /\ s \in members /\ s \in Sessions /\ w \in LiveWindows
        /\ members' = members /\ windows' = windows
        /\ views \in [Sessions -> [WindowIDs -> WindowView \cup {None}]]
        /\ Fits(view, windows[w].panes) /\ WellFormed(windows[w])
    BY DEF selectWindow, Drives, sessionVars, GraphOK
  <1>2. view \in WindowView /\ windows[w].active \in windows[w].panes /\ windows[w].panes \subseteq PaneIDs
    BY <1>1 DEF Fits, WellFormed, Window
  <1>3. PICK new : /\ views' = [views EXCEPT ![s][w] = new]
                   /\ new = [view EXCEPT !.focused =
                        IF view.focused \in windows[w].panes THEN @ ELSE windows[w].active]
    BY DEF selectWindow
  <1>4. new = view
    BY <1>1, <1>2, <1>3 DEF Fits, WindowView
  <1>5. views' = views
    BY <1>1, <1>3, <1>4
  <1>6. GraphOK' /\ LiveWindows' = LiveWindows
    BY <1>1, <1>5, GraphStays
  <1>7. source \in WindowIDs \cup {None}
    BY <1>1, ProjectedIsLive DEF LiveWindows
  <1>8. windowLeases' \in [WindowIDs -> Lease \cup {None}]
    <2>1. PICK old, g :
            /\ g = IF source = w /\ windowLeases[w] # None THEN windowLeases[w].generation
                   ELSE NextGeneration(windowLeases[w])
            /\ windowLeases' = [v \in WindowIDs |->
                  IF v = w THEN LeaseTo(s, c, g) ELSE IF v = old THEN None ELSE windowLeases[v]]
      BY DEF selectWindow, selectLeases
    <2>2. g \in Nat \ {0}
      BY <2>1 DEF RegistriesOK, Lease, NextGeneration
    <2>3. LeaseTo(s, c, g) \in Lease
      BY <2>2 DEF LeaseTo, Lease
    <2> QED
      BY <2>1, <2>3 DEF RegistriesOK
  <1>9. /\ previous' = [previous EXCEPT ![s] = IF source = w THEN @ ELSE source]
        /\ active' = [active EXCEPT ![s] = w]
        /\ UNCHANGED <<fresh, grouped, dying, nextWindow, nextPane, client, sessionOf, pending>>
        /\ TellClient(c, s)
    BY DEF selectWindow, sessionVars, idVars, clientVars
  <1>10. RegistriesOK'
    <2> HIDE DEF source
    <2> QED
      BY <1>1, <1>7, <1>8, <1>9 DEF RegistriesOK
  <1>11. ActiveIsLive' /\ IDsAreFresh'
    BY <1>1, <1>6, <1>9 DEF ActiveIsLive, IDsAreFresh, RegistriesOK
  <1>12. ToldOK'
    BY <1>1, <1>6, <1>8, <1>9, <1>11, TellClientKeepsType
  <1> QED
    BY <1>6, <1>10, <1>11, <1>12

\* Commands that change one window and the caller's view of it.
LEMMA ChangeKeeps ==
  ASSUME IInv, NEW c \in Clients, NEW s \in members, NEW w \in LiveWindows,
         NEW window, WellFormed(window), window.index = windows[w].index,
         window.panes = windows[w].panes, windows' = [windows EXCEPT ![w] = window],
         NEW view, Fits(view, window.panes), views' = [views EXCEPT ![s][w] = view],
         UNCHANGED <<active, previous>>,
         UNCHANGED <<sessionVars, idVars, clientVars, pending, windowLeases>>,
         TellClient(c, s)
  PROVE  IInv' /\ Grows
  <1> USE DEF IInv
  <1>1. /\ members' = members
        /\ UNCHANGED <<fresh, grouped, dying, nextWindow, nextPane, client, sessionOf, pending,
                       windowLeases, active, previous>>
    BY DEF sessionVars, idVars, clientVars
  <1>2. \A v \in LiveWindows \ {w} : windows[v].panes \cap window.panes = {}
    BY DEF GraphOK, Apart
  <1>3. windows[w].panes \subseteq window.panes /\ windows' = [windows EXCEPT ![w] = window]
        /\ views' = [views EXCEPT ![s][w] = view]
    OBVIOUS
  <1>4. GraphOK' /\ LiveWindows' = LiveWindows
    BY <1>1, <1>2, <1>3, OneViewChanges
  <1>5. \A v \in LiveWindows : windows'[v].panes = windows[v].panes
    BY DEF GraphOK, LiveWindows
  <1>6. RegistriesOK'
    BY <1>1 DEF RegistriesOK
  <1>7. ActiveIsLive' /\ IDsAreFresh'
    BY <1>1, <1>4, <1>5 DEF ActiveIsLive, IDsAreFresh
  <1>8. windowLeases' \in [WindowIDs -> Lease \cup {None}] /\ s \in members'
    BY <1>1 DEF RegistriesOK
  <1>9. ToldOK'
    BY <1>4, <1>7, <1>8, TellClientKeepsType
  <1> QED
    BY <1>4, <1>5, <1>6, <1>7, <1>9 DEF Grows

LEMMA ZoomedWindowFits ==
  ASSUME NEW window, WellFormed(window), NEW s, NEW z \in window.panes \cup {None}
  PROVE  /\ WellFormed(WithZoom(s, window, z))
         /\ WithZoom(s, window, z).panes = window.panes
         /\ WithZoom(s, window, z).index = window.index
  BY DEF WellFormed, WithZoom, Window

LEMMA focusClientPaneKeeps ==
  ASSUME IInv, NEW c \in Clients, NEW s \in Sessions, NEW p \in PaneIDs, focusClientPane(c, s, p)
  PROVE  IInv' /\ Grows
  <1> DEFINE w == active[s]
             view == views[s][w]
             unzoom == unzoomFor(s, w, p)
             zoomless == IF unzoom THEN WithZoom(s, windows[w], None) ELSE windows[w]
             window == IF grouped[s] THEN zoomless ELSE [zoomless EXCEPT !.active = p]
             unzoomed == IF unzoom THEN [view EXCEPT !.zoomed = None] ELSE view
             new == focusPane(unzoomed, p)
  <1>1. s \in members /\ w \in LiveWindows /\ p \in windows[w].panes
    BY DEF focusClientPane, Drives, IInv, ActiveIsLive
  <1>2. /\ WellFormed(windows[w]) /\ Fits(view, windows[w].panes)
        /\ windows[w].panes \in SUBSET PaneIDs
    BY <1>1 DEF IInv, GraphOK, WellFormed, Window
  <1>3. WellFormed(zoomless) /\ zoomless.panes = windows[w].panes /\ zoomless.index = windows[w].index
    BY <1>2, ZoomedWindowFits
  <1>4. Fits(unzoomed, windows[w].panes)
    BY <1>2, ZoomFits
  <1>5. /\ windows' = [windows EXCEPT ![w] = window]
        /\ views' = [views EXCEPT ![s][w] = new]
        /\ UNCHANGED <<active, previous>>
        /\ UNCHANGED <<sessionVars, idVars, clientVars, pending, windowLeases>>
        /\ TellClient(c, s)
    <2>1. windows' = [windows EXCEPT ![w] = window]
      BY DEF focusClientPane
    <2>2. views' = [views EXCEPT ![s][w] = new]
      BY DEF focusClientPane
    <2> QED
      BY <2>1, <2>2 DEF focusClientPane
  <1>6. WellFormed(window) /\ window.panes = windows[w].panes /\ window.index = windows[w].index
    <2> HIDE DEF zoomless
    <2>1. zoomless \in Window
      BY <1>3 DEF WellFormed
    <2>2. window = zoomless \/ window = [zoomless EXCEPT !.active = p]
      OBVIOUS
    <2> HIDE DEF window
    <2> QED
      BY <1>1, <1>2, <1>3, <2>1, <2>2 DEF WellFormed, Window
  <1>7. Fits(new, windows[w].panes)
    <2> HIDE DEF unzoomed
    <2> QED
      BY <1>1, <1>2, <1>4, FocusFits
  <1> HIDE DEF window, new, w
  <1> QED
    BY <1>1, <1>5, <1>6, <1>7, ChangeKeeps

LEMMA toggleClientZoomKeeps ==
  ASSUME IInv, NEW c \in Clients, NEW s \in Sessions, toggleClientZoom(c, s) PROVE IInv' /\ Grows
  <1> DEFINE w == active[s]
             view == views[s][w]
             z == IF ZoomIn(s, w) # None THEN None ELSE view.focused
             window == WithZoom(s, windows[w], z)
             new == [view EXCEPT !.zoomed = z]
  <1>1. s \in members /\ w \in LiveWindows
    BY DEF toggleClientZoom, Drives, IInv, ActiveIsLive
  <1>2. /\ WellFormed(windows[w]) /\ Fits(view, windows[w].panes)
        /\ windows[w].panes \in SUBSET PaneIDs
        /\ s \in Sessions /\ w \in WindowIDs
        /\ views \in [Sessions -> [WindowIDs -> WindowView \cup {None}]]
    BY <1>1 DEF IInv, GraphOK, WellFormed, Window, LiveWindows
  <1>3. z \in windows[w].panes \cup {None}
    BY <1>2 DEF Fits
  <1>4. windows' = [windows EXCEPT ![w] = window]
    BY DEF toggleClientZoom
  <1>5. views' = [views EXCEPT ![s][w] = new]
    BY DEF toggleClientZoom
  <1> HIDE DEF z
  <1>6. WellFormed(window) /\ window.panes = windows[w].panes /\ window.index = windows[w].index
    BY <1>2, <1>3, ZoomedWindowFits
  <1>7. Fits(new, windows[w].panes)
    BY <1>2, <1>3, ZoomFits
  <1>8. /\ UNCHANGED <<active, previous>>
        /\ UNCHANGED <<sessionVars, idVars, clientVars, pending, windowLeases>>
        /\ TellClient(c, s)
    BY DEF toggleClientZoom
  <1> HIDE DEF window, new, w
  <1> QED
    BY <1>1, <1>4, <1>5, <1>6, <1>7, <1>8, ChangeKeeps

LEMMA rearrangeWindowKeeps ==
  ASSUME IInv, NEW c \in Clients, NEW s \in Sessions, rearrangeWindow(c, s) PROVE IInv' /\ Grows
  <1> DEFINE w == active[s]
             view == views[s][w]
             window == [windows[w] EXCEPT !.zoomed = None]
             new == [view EXCEPT !.zoomed = None]
  <1>1. s \in members /\ w \in LiveWindows
    BY DEF rearrangeWindow, Drives, IInv, ActiveIsLive
  <1>2. /\ WellFormed(windows[w]) /\ Fits(view, windows[w].panes)
        /\ windows[w].panes \in SUBSET PaneIDs
    BY <1>1 DEF IInv, GraphOK, WellFormed, Window
  <1>3. windows' = [windows EXCEPT ![w] = window]
    BY DEF rearrangeWindow, clearGroupWindowZoomNow
  <1>4. views' = [views EXCEPT ![s][w] = new]
    BY DEF rearrangeWindow, clearGroupWindowZoomNow
  <1>5. WellFormed(window) /\ window.panes = windows[w].panes /\ window.index = windows[w].index
    BY <1>2 DEF WellFormed, Window
  <1>6. Fits(new, windows[w].panes)
    BY <1>2, ZoomFits
  <1>7. /\ UNCHANGED <<active, previous>>
        /\ UNCHANGED <<sessionVars, idVars, clientVars, pending, windowLeases>>
        /\ TellClient(c, s)
    BY DEF rearrangeWindow
  <1> HIDE DEF window, new, w
  <1> QED
    BY <1>1, <1>3, <1>4, <1>5, <1>6, <1>7, ChangeKeeps

LEMMA createWindowNowKeeps ==
  ASSUME IInv, NEW s \in members, pending # None, pending.op = "window", nextWindow <= MaxWindow,
         members' = members, nextPane' = nextPane, pending' = None,
         createWindowNow(s, pending.pane), activateCreatedWindowNow(s)
  PROVE  /\ GraphOK' /\ ActiveIsLive' /\ IDsAreFresh' /\ Grows
         /\ active' = [active EXCEPT ![s] = nextWindow]
         /\ active' \in [Sessions -> WindowIDs \cup {None}]
         /\ previous' \in [Sessions -> WindowIDs \cup {None}]
         /\ nextWindow' \in 1 .. MaxWindow + 1
         /\ windowLeases' \in [WindowIDs -> Lease \cup {None}]
  <1> USE DEF IInv
  <1> DEFINE w == nextWindow
             p == pending.pane
             i == lowestAvailableWindowDisplayIndex
             window == [panes |-> {p}, active |-> p, zoomed |-> None, index |-> i]
  <1>1. /\ w \in WindowIDs \ LiveWindows /\ w \in Nat /\ nextWindow' = w + 1
        /\ nextWindow' \in 1 .. MaxWindow + 1
    BY BoundsAssumption DEF RegistriesOK, WindowIDs, IDsAreFresh, createWindowNow
  <1>2. /\ p \in PaneIDs /\ p < nextPane
        /\ \A v \in LiveWindows : p \notin windows[v].panes
    BY DEF RegistriesOK, Command, IDsAreFresh
  <1>3. i \in Nat /\ \A v \in LiveWindows : windows[v].index # i
    BY LowestIndexIsFree
  <1> HIDE DEF i, p
  <1>4. WellFormed(window)
    <2>1. Cardinality({p}) = 1
      BY FS_Singleton
    <2>2. 1 <= MaxVisiblePanes
      BY BoundsAssumption
    <2> QED
      BY <1>2, <1>3, <2>1, <2>2 DEF WellFormed, Window
  <1>5. \A v \in LiveWindows : Apart(windows[v], window)
    BY <1>2, <1>3 DEF Apart
  <1>6. Fits(NewView(p), window.panes)
    <2>1. {p} \in SUBSET PaneIDs
      BY <1>2
    <2> QED
      BY <2>1, NewViewFits
  <1>7. windows' = [windows EXCEPT ![w] = window]
    BY DEF createWindowNow, i, p
  <1>8. views' = [m \in Sessions |->
                    IF m \in members THEN [views[m] EXCEPT ![w] = NewView(p)] ELSE views[m]]
    BY DEF createWindowNow, LinkedIn, p
  <1>9. window.panes = {p} /\ members # {}
    OBVIOUS
  <1> HIDE DEF window, w
  <1>10. GraphOK' /\ LiveWindows' = LiveWindows \cup {w}
    BY <1>1, <1>4, <1>5, <1>6, <1>7, <1>8, <1>9, WindowAppears
  <1>11. /\ active' = [active EXCEPT ![s] = w]
         /\ active' \in [Sessions -> WindowIDs \cup {None}]
         /\ previous' \in [Sessions -> WindowIDs \cup {None}]
    BY <1>1 DEF createWindowNow, RegistriesOK, GraphOK, w
  <1>12. ActiveIsLive'
    BY <1>10, <1>11 DEF ActiveIsLive, RegistriesOK, GraphOK
  <1>13. IDsAreFresh'
    <2>1. /\ windows'[w] = window
          /\ \A v \in LiveWindows : v # w /\ windows'[v] = windows[v] /\ v \in Nat
      BY <1>1, <1>7 DEF GraphOK, LiveWindows, WindowIDs
    <2>2. \A v \in LiveWindows : v < w
      BY DEF IDsAreFresh, w
    <2>3. \A v \in LiveWindows' : v < nextWindow' /\ \A x \in windows'[v].panes : x < nextPane'
      BY <1>1, <1>2, <1>9, <1>10, <2>1, <2>2 DEF IDsAreFresh
    <2> QED
      BY <2>3 DEF IDsAreFresh
  <1>14. windowLeases' \in [WindowIDs -> Lease \cup {None}]
    <2>1. CASE client[s] = None
      BY <2>1 DEF activateCreatedWindowNow, RegistriesOK
    <2>2. CASE client[s] # None
      <3>1. LeaseTo(s, client[s], 1) \in Lease
        BY <2>2 DEF LeaseTo, Lease, RegistriesOK, GraphOK
      <3> QED
        BY <2>2, <3>1 DEF activateCreatedWindowNow, RegistriesOK
    <2> QED
      BY <2>1, <2>2
  <1>15. Grows
    <2>1. \A v \in LiveWindows : windows'[v] = windows[v]
      BY <1>1, <1>7 DEF GraphOK, LiveWindows
    <2> QED
      BY <1>10, <2>1 DEF Grows
  <1> QED
    BY <1>1, <1>10, <1>11, <1>12, <1>13, <1>14, <1>15 DEF w

LEMMA createWindowKeeps ==
  ASSUME IInv,
         (\E c \in Clients, s \in Sessions : createClientWindow(c, s)) \/ createSessionWindow
  PROVE  IInv'
  <1> USE DEF IInv
  <1>1. ASSUME NEW s \in members, pending # None, pending.op = "window", nextWindow <= MaxWindow,
               UNCHANGED <<sessionVars, nextPane, clientVars>>, pending' = None,
               createWindowNow(s, pending.pane), activateCreatedWindowNow(s),
               \/ client[s] \in Clients /\ TellClient(client[s], s)
               \/ UNCHANGED toldVars
               \/ TellNobody({s})
        PROVE  IInv'
    <2>1. /\ members' = members /\ nextPane' = nextPane /\ s \in Sessions
          /\ UNCHANGED <<fresh, grouped, dying, client, sessionOf>>
      BY <1>1 DEF sessionVars, clientVars, GraphOK
    <2>2. /\ GraphOK' /\ ActiveIsLive' /\ IDsAreFresh'
          /\ active' \in [Sessions -> WindowIDs \cup {None}]
          /\ previous' \in [Sessions -> WindowIDs \cup {None}]
          /\ nextWindow' \in 1 .. MaxWindow + 1
          /\ windowLeases' \in [WindowIDs -> Lease \cup {None}]
      BY <1>1, <2>1, createWindowNowKeeps
    <2>3. RegistriesOK'
      BY <1>1, <2>1, <2>2 DEF RegistriesOK
    <2>4. ToldOK'
      <3>1. CASE client[s] \in Clients /\ TellClient(client[s], s)
        BY <2>1, <2>2, <3>1, TellClientKeepsType
      <3>2. CASE UNCHANGED toldVars
        BY <3>2 DEF ToldOK, toldVars
      <3>3. CASE TellNobody({s})
        <4>1. {s} \subseteq Sessions
          BY <2>1
        <4> QED
          BY <3>3, <4>1, TellNobodyKeepsType
      <3> QED
        BY <1>1, <3>1, <3>2, <3>3
    <2> QED
      BY <2>2, <2>3, <2>4
  <1>2. ASSUME NEW c \in Clients, NEW s \in Sessions, createClientWindow(c, s)
        PROVE  IInv'
    BY <1>1, <1>2 DEF createClientWindow, CanCreateWindow
  <1>3. ASSUME createSessionWindow PROVE IInv'
    <2>1. PICK s : s = pending.session
      OBVIOUS
    <2> QED
      BY <1>1, <1>3, <2>1 DEF createSessionWindow, CanCreateWindow
  <1> QED
    BY <1>2, <1>3

LEMMA splitPaneKeeps ==
  ASSUME IInv, (\E c \in Clients, s \in Sessions : splitClientPane(c, s)) \/ splitSessionPane
  PROVE  IInv' /\ Grows
  <1> USE DEF IInv
  <1>1. ASSUME NEW s \in Sessions, pending # None, pending.op = "split", CanSplit(s),
               splitFocusedPaneNow(s, pending.pane), pending' = None,
               UNCHANGED <<sessionVars, idVars, clientVars, windowLeases>>,
               \/ client[s] \in Clients /\ TellClient(client[s], s)
               \/ \E S \in SUBSET members : TellNobody(S)
        PROVE  IInv' /\ Grows
    <2> DEFINE w == active[s]
               p == pending.pane
               view == views[s][w]
               window == [panes |-> windows[w].panes \cup {p}, active |-> p, zoomed |-> None,
                          index |-> windows[w].index]
               unzoomed == [view EXCEPT !.zoomed = None]
               new == focusPane(unzoomed, p)
    <2>1. /\ s \in members /\ w \in LiveWindows
          /\ members' = members
          /\ UNCHANGED <<fresh, grouped, dying, nextWindow, nextPane, client, sessionOf,
                         windowLeases, active, previous>>
      BY <1>1 DEF CanSplit, ActiveIsLive, sessionVars, idVars, clientVars, splitFocusedPaneNow
    <2>2. /\ p \in PaneIDs /\ p < nextPane
          /\ \A v \in LiveWindows : p \notin windows[v].panes
      BY <1>1 DEF RegistriesOK, Command, IDsAreFresh
    <2>3. /\ WellFormed(windows[w]) /\ Fits(view, windows[w].panes)
          /\ windows[w] \in Window /\ windows[w].panes \in SUBSET PaneIDs
          /\ w \in WindowIDs
      BY <2>1 DEF GraphOK, WellFormed, Window, LiveWindows
    <2>4. windows' = [windows EXCEPT ![w] = window]
      BY <1>1 DEF splitFocusedPaneNow
    <2>5. views' = [views EXCEPT ![s][w] = new]
      BY <1>1 DEF splitFocusedPaneNow
    <2>6. Cardinality(windows[w].panes) < MaxVisiblePanes
      BY <1>1 DEF CanSplit
    <2> HIDE DEF p, w
    <2>8. Cardinality(window.panes) <= MaxVisiblePanes
      <3>1. IsFiniteSet(PaneIDs)
        BY FS_Interval, BoundsAssumption DEF PaneIDs
      <3>2. IsFiniteSet(windows[w].panes) /\ Cardinality(windows[w].panes) \in Nat
        BY <2>3, <3>1, FS_Subset, FS_CardinalityType
      <3>3. Cardinality(windows[w].panes \cup {p}) = Cardinality(windows[w].panes) + 1
        BY <2>1, <2>2, <3>2, FS_AddElement
      <3>4. window.panes = windows[w].panes \cup {p}
        OBVIOUS
      <3> HIDE DEF window
      <3> QED
        BY <2>6, <3>2, <3>3, <3>4, BoundsAssumption
    <2>9. WellFormed(window) /\ window.index = windows[w].index
      BY <2>2, <2>3, <2>8 DEF WellFormed, Window
    <2>10. \A v \in LiveWindows \ {w} : windows[v].panes \cap window.panes = {}
      BY <2>1, <2>2 DEF GraphOK, Apart
    <2>11. Fits(new, window.panes)
      <3>1. window.panes \in SUBSET PaneIDs /\ p \in window.panes
        BY <2>2, <2>3
      <3>2. Fits(unzoomed, windows[w].panes)
        BY <2>3, ZoomFits
      <3>3. Fits(unzoomed, window.panes)
        <4> HIDE DEF unzoomed
        <4> QED
          BY <2>2, <2>3, <3>2, GrowFits
      <3> HIDE DEF unzoomed, window
      <3> QED
        BY <3>1, <3>3, FocusFits
    <2>12. windows[w].panes \subseteq window.panes /\ window.panes \subseteq windows[w].panes \cup {p}
      OBVIOUS
    <2> HIDE DEF window, new
    <2>13. GraphOK' /\ LiveWindows' = LiveWindows
      BY <2>1, <2>5, <2>4, <2>9, <2>10, <2>11, <2>12, OneViewChanges
    <2>14. RegistriesOK'
      BY <1>1, <2>1 DEF RegistriesOK
    <2>15. ActiveIsLive'
      BY <2>1, <2>13 DEF ActiveIsLive
    <2>16. IDsAreFresh'
      <3>1. \A v \in LiveWindows : windows'[v].panes \subseteq windows[v].panes \cup {p}
        BY <2>3, <2>4, <2>12 DEF GraphOK, LiveWindows
      <3> QED
        BY <1>1, <2>1, <2>2, <2>13, <3>1 DEF IDsAreFresh
    <2>17. ToldOK'
      <3>1. CASE client[s] \in Clients /\ TellClient(client[s], s)
        <4>1. s \in members' /\ windowLeases' \in [WindowIDs -> Lease \cup {None}]
          BY <2>1 DEF RegistriesOK
        <4> QED
          BY <2>13, <2>15, <3>1, <4>1, TellClientKeepsType
      <3>2. ASSUME NEW S \in SUBSET members, TellNobody(S) PROVE ToldOK'
        <4>1. S \subseteq Sessions
          BY DEF GraphOK
        <4> QED
          BY <3>2, <4>1, TellNobodyKeepsType
      <3> QED
        BY <1>1, <3>1, <3>2
    <2>18. Grows
      <3>1. \A v \in LiveWindows : windows[v].panes \subseteq windows'[v].panes
        BY <2>3, <2>4, <2>12 DEF GraphOK, LiveWindows
      <3> QED
        BY <2>13, <3>1 DEF Grows
    <2> QED
      BY <2>13, <2>14, <2>15, <2>16, <2>17, <2>18
  <1>2. ASSUME NEW c \in Clients, NEW s \in Sessions, splitClientPane(c, s)
        PROVE  IInv' /\ Grows
    BY <1>1, <1>2 DEF splitClientPane
  <1>3. ASSUME splitSessionPane PROVE IInv' /\ Grows
    <2>1. PICK s : s = pending.session
      OBVIOUS
    <2>2. s \in Sessions
      BY <1>3, <2>1 DEF splitSessionPane, CanSplit, GraphOK
    <2>3. {t \in members : ProjectedWindow(t) = active[s]} \in SUBSET members
      OBVIOUS
    <2> QED
      BY <1>1, <1>3, <2>1, <2>2, <2>3 DEF splitSessionPane
  <1> QED
    BY <1>2, <1>3

\* What the removal of a pane comes to, whether its window stays or goes.
Removed ==
    /\ GraphOK' /\ ActiveIsLive'
    /\ LiveWindows' \subseteq LiveWindows
    /\ \A v \in LiveWindows' : windows'[v].panes \subseteq windows[v].panes
    /\ active' \in [Sessions -> WindowIDs \cup {None}]
    /\ previous' \in [Sessions -> WindowIDs \cup {None}]
    /\ windowLeases' \in [WindowIDs -> Lease \cup {None}]
    /\ \A s \in members : active[s] # None /\ active'[s] = None =>
          \A v \in LiveWindows' : windowLeases'[v] # None /\ windowLeases'[v].client # client[s]
    /\ \A s \in Sessions \ members : active'[s] = active[s]
    /\ \A v \in WindowIDs : windowLeases'[v] # None => windowLeases[v] # None \/ v \in LiveWindows'
    /\ OneSession /\ LeasesHeld =>
         \A s \in members : client[s] # None /\ active'[s] # None =>
            /\ windowLeases'[active'[s]] # None
            /\ windowLeases'[active'[s]].client = client[s]
            /\ windowLeases'[active'[s]].session = s

LEMMA PaneIsRemoved ==
  ASSUME GraphOK, RegistriesOK, ActiveIsLive, NEW p \in LivePanes, members' = members,
         removeGroupPaneNow(p)
  PROVE  Removed
  <1> DEFINE w == WindowOfPane(p)
             left == windows[w].panes \ {p}
  <1>1. w \in LiveWindows /\ p \in windows[w].panes
    BY DEF LivePanes, WindowOfPane
  <1>2. /\ WellFormed(windows[w]) /\ windows[w] \in Window /\ windows[w].panes \in SUBSET PaneIDs
        /\ w \in WindowIDs /\ members \subseteq Sessions /\ None \notin WindowIDs
    BY <1>1, SessionsAssumption DEF GraphOK, WellFormed, Window, LiveWindows, WindowIDs
  <1>3. CASE left = {}
    <2>1. removeGroupWindowNow(w)
      BY <1>3 DEF removeGroupPaneNow
    <2> HIDE DEF w
    <2>2. /\ GraphOK'
          /\ LiveWindows' = LiveWindows \ {w}
          /\ active' \in [Sessions -> WindowIDs \cup {None}]
          /\ previous' \in [Sessions -> WindowIDs \cup {None}]
          /\ windowLeases' \in [WindowIDs -> Lease \cup {None}]
      BY <1>1, <2>1, RemovalSettles
    <2>3. /\ \A s \in members : \/ active'[s] \in LiveWindows'
                                \/ /\ active'[s] = None
                                   /\ \A v \in LiveWindows' : /\ windowLeases'[v] # None
                                                              /\ windowLeases'[v].client # client[s]
          /\ \A s \in Sessions \ members : active'[s] = active[s]
          /\ \A v \in WindowIDs : windowLeases'[v] # None => windowLeases[v] # None \/ v \in LiveWindows'
      BY <1>1, <2>1, RemovalSettles
    <2>4. OneSession /\ LeasesHeld =>
            \A s \in members : client[s] # None /\ active'[s] # None =>
               /\ windowLeases'[active'[s]] # None
               /\ windowLeases'[active'[s]].client = client[s]
               /\ windowLeases'[active'[s]].session = s
      BY <1>1, <2>1, RemovalSettles
    <2>5. ActiveIsLive'
      BY <2>3 DEF ActiveIsLive
    <2>6. windows' = [windows EXCEPT ![w] = None]
      BY <2>1 DEF removeGroupWindowNow
    <2>7. \A v \in LiveWindows' : windows'[v].panes \subseteq windows[v].panes
      BY <2>2, <2>6 DEF GraphOK, LiveWindows
    <2>8. \A s \in members : active'[s] = None =>
            \A v \in LiveWindows' : windowLeases'[v] # None /\ windowLeases'[v].client # client[s]
      <3>1. None \notin LiveWindows'
        BY <1>2, <2>2 DEF LiveWindows
      <3> QED
        BY <2>3, <3>1
    <2> QED
      BY <2>2, <2>3, <2>4, <2>5, <2>7, <2>8 DEF Removed
  <1>4. CASE left # {}
    <2>1. PICK fallback \in left :
            /\ windows' = [windows EXCEPT ![w] =
                 [panes |-> left, active |-> fallback, index |-> @.index,
                  zoomed |-> IF Cardinality(left) <= 1 \/ @.zoomed = p THEN None ELSE @.zoomed]]
            /\ views' = [m \in Sessions |->
                 IF m \in members
                   THEN [views[m] EXCEPT ![w] = ViewWithout(@, left, p, fallback)]
                   ELSE views[m]]
            /\ UNCHANGED <<active, previous, windowLeases>>
      BY <1>4 DEF removeGroupPaneNow
    <2> DEFINE z == IF Cardinality(left) <= 1 \/ windows[w].zoomed = p THEN None ELSE windows[w].zoomed
               window == [panes |-> left, active |-> fallback, index |-> windows[w].index, zoomed |-> z]
    <2>2. windows' = [windows EXCEPT ![w] = window]
      BY <2>1
    <2>3. z \in left \cup {None} /\ left \in SUBSET PaneIDs
      BY <1>2 DEF WellFormed
    <2>4. Cardinality(left) <= MaxVisiblePanes
      <3>1. IsFiniteSet(PaneIDs)
        BY FS_Interval, BoundsAssumption DEF PaneIDs
      <3>2. IsFiniteSet(windows[w].panes) /\ Cardinality(windows[w].panes) \in Nat
        BY <1>2, <3>1, FS_Subset, FS_CardinalityType
      <3>3. Cardinality(windows[w].panes \ {p}) = Cardinality(windows[w].panes) - 1
        BY <1>1, <3>2, FS_RemoveElement
      <3>4. Cardinality(windows[w].panes) <= MaxVisiblePanes
        BY <1>2 DEF WellFormed
      <3> HIDE DEF w
      <3> QED
        BY <3>2, <3>3, <3>4, BoundsAssumption
    <2>5. ASSUME NEW m \in members
          PROVE  /\ Fits(ViewWithout(views[m][w], left, p, fallback), left)
                 /\ views'[m] = [views[m] EXCEPT ![w] = ViewWithout(views[m][w], left, p, fallback)]
      <3>1. Fits(views[m][w], windows[w].panes)
        BY <1>1 DEF GraphOK
      <3>2. Fits(ViewWithout(views[m][w], left, p, fallback), left)
        BY <1>1, <1>2, <3>1, ViewWithoutFits
      <3> QED
        BY <1>2, <2>1, <3>2
    <2> HIDE DEF z
    <2>6. WellFormed(window) /\ window.index = windows[w].index
      BY <1>2, <2>3, <2>4 DEF WellFormed, Window
    <2>7. window.panes = left /\ left \subseteq windows[w].panes
      OBVIOUS
    <2> HIDE DEF window, left, w
    <2>8. \A v \in LiveWindows \ {w} : windows[v].panes \cap window.panes = {}
      BY <1>1, <2>7 DEF GraphOK, Apart
    <2>9. views \in [Sessions -> [WindowIDs -> WindowView \cup {None}]]
      BY DEF GraphOK
    <2>10. ASSUME NEW m \in Sessions
           PROVE  /\ views'[m] \in [WindowIDs -> WindowView \cup {None}]
                  /\ m \in members => Fits(views'[m][w], left)
                  /\ \A v \in WindowIDs : m \notin members \/ v # w => views'[m][v] = views[m][v]
      <3>1. CASE m \in members
        <4>1. PICK new : new = ViewWithout(views[m][w], left, p, fallback)
          OBVIOUS
        <4>2. Fits(new, left) /\ views'[m] = [views[m] EXCEPT ![w] = new] /\ new \in WindowView
          BY <2>5, <3>1, <4>1 DEF Fits
        <4> QED
          BY <1>2, <2>9, <3>1, <4>2
      <3>2. CASE m \notin members
        BY <2>1, <2>9, <3>2
      <3> QED
        BY <3>1, <3>2
    <2>11. views' \in [Sessions -> [WindowIDs -> WindowView \cup {None}]]
      <3>1. PICK f : views' = [m \in Sessions |-> f[m]]
        <4> DEFINE g == [m \in Sessions |->
                 IF m \in members
                   THEN [views[m] EXCEPT ![w] = ViewWithout(@, left, p, fallback)]
                   ELSE views[m]]
        <4>1. views' = g /\ g = [m \in Sessions |-> g[m]]
          BY <2>1
        <4> QED
          BY <4>1
      <3> QED
        BY <2>10, <3>1
    <2>12. \A s \in members : Fits(views'[s][w], window.panes)
      BY <1>2, <2>7, <2>10
    <2>13. GraphOK' /\ LiveWindows' = LiveWindows
      BY <1>1, <2>2, <2>6, <2>8, <2>10, <2>11, <2>12, WindowChanges
    <2>14. \A v \in LiveWindows : windows'[v].panes \subseteq windows[v].panes
      BY <2>2, <2>7 DEF GraphOK, LiveWindows
    <2>15. ActiveIsLive'
      BY <2>1, <2>13 DEF ActiveIsLive
    <2>16. UNCHANGED <<active, previous, windowLeases>>
      BY <2>1
    <2>17. /\ active' \in [Sessions -> WindowIDs \cup {None}]
           /\ previous' \in [Sessions -> WindowIDs \cup {None}]
           /\ windowLeases' \in [WindowIDs -> Lease \cup {None}]
      BY <2>16 DEF RegistriesOK
    <2>18. /\ \A s \in Sessions \ members : active'[s] = active[s]
           /\ \A s \in members : ~ (active[s] # None /\ active'[s] = None)
      BY <2>16
    <2>19. LeasesHeld =>
            \A s \in members : client[s] # None /\ active'[s] # None =>
               /\ windowLeases'[active'[s]] # None
               /\ windowLeases'[active'[s]].client = client[s]
               /\ windowLeases'[active'[s]].session = s
      BY <2>16 DEF LeasesHeld
    <2>20. \A v \in WindowIDs : windowLeases'[v] # None => windowLeases[v] # None \/ v \in LiveWindows'
      BY <2>16
    <2> QED
      BY <2>13, <2>14, <2>15, <2>17, <2>18, <2>19, <2>20 DEF Removed
  <1> QED
    BY <1>3, <1>4

LEMMA removePaneKeeps ==
  ASSUME IInv,
         \/ \E p \in PaneIDs : applyPaneExit(p)
         \/ \E c \in Clients, s \in Sessions : removeClientPane(c, s)
         \/ removeSessionPane
  PROVE  IInv'
  <1> USE DEF IInv
  <1>1. PICK p \in LivePanes, S \in SUBSET members :
          /\ removeGroupPaneNow(p)
          /\ TellAll(S)
    <2>1. ASSUME NEW p \in PaneIDs, applyPaneExit(p)
          PROVE  p \in LivePanes /\ removeGroupPaneNow(p) /\ TellAll(members)
      BY <2>1 DEF applyPaneExit
    <2>2. ASSUME NEW c \in Clients, NEW s \in Sessions, removeClientPane(c, s)
          PROVE  pending.pane \in LivePanes /\ removeGroupPaneNow(pending.pane) /\ TellAll(members)
      BY <2>2 DEF removeClientPane
    <2>3. ASSUME removeSessionPane
          PROVE  /\ pending.pane \in LivePanes /\ removeGroupPaneNow(pending.pane)
                 /\ TellAll(members \ {pending.session})
      BY <2>3 DEF removeSessionPane
    <2>4. members \ {pending.session} \in SUBSET members /\ members \in SUBSET members
      OBVIOUS
    <2> QED
      BY <2>1, <2>2, <2>3, <2>4
  <1>2. /\ members' = members
        /\ UNCHANGED <<fresh, grouped, nextWindow, nextPane, client, sessionOf>>
        /\ pending' \in {pending, None}
    BY DEF applyPaneExit, removeClientPane, removeSessionPane, idVars, clientVars
  <1>3. dying' \subseteq Sessions
    BY DEF applyPaneExit, removeClientPane, removeSessionPane, Windowless, Ended,
           RegistriesOK, GraphOK
  <1>4. Removed
    BY <1>1, <1>2, PaneIsRemoved
  <1>5. RegistriesOK'
    BY <1>2, <1>3, <1>4 DEF RegistriesOK, Removed
  <1>6. IDsAreFresh'
    BY <1>2, <1>4 DEF IDsAreFresh, Removed
  <1>7. ToldOK'
    BY <1>1, <1>2, <1>4, TellAllKeepsType DEF Removed
  <1> QED
    BY <1>4, <1>5, <1>6, <1>7 DEF Removed

LEMMA StutterKeeps == IInv /\ UNCHANGED vars => IInv'
  <1> SUFFICES ASSUME IInv, UNCHANGED vars PROVE IInv'
    OBVIOUS
  <1> USE DEF IInv, vars, sessionVars, idVars, clientVars, toldVars, graphVars
  <1>1. GraphOK' /\ LiveWindows' = LiveWindows
    BY GraphStays
  <1>2. RegistriesOK'
    BY DEF RegistriesOK
  <1> QED
    BY <1>1, <1>2 DEF ToldOK, ActiveIsLive, IDsAreFresh

LEMMA NextKeeps == IInv /\ [Next]_vars => IInv'
  <1> SUFFICES ASSUME IInv, [Next]_vars PROVE IInv'
    OBVIOUS
  <1>1. CASE \E base, m \in Sessions : groupSessions(base, m)
    BY <1>1, groupSessionsKeeps
  <1>2. CASE \E s \in Sessions : shutdownSession(s)
    BY <1>2, shutdownSessionKeeps
  <1>3. CASE \E c \in Clients : detach(c)
    BY <1>3, detachKeeps
  <1>4. CASE \E c \in Clients, s \in Sessions :
               \/ attach(c, s)
               \/ \E w \in WindowIDs : selectWindow(c, s, w)
               \/ \E p \in PaneIDs : focusClientPane(c, s, p)
               \/ toggleClientZoom(c, s)
               \/ rearrangeWindow(c, s)
    BY <1>4, attachKeeps, selectWindowKeeps, focusClientPaneKeeps, toggleClientZoomKeeps,
       rearrangeWindowKeeps
  <1>5. CASE (\E c \in Clients, s \in Sessions : createClientWindow(c, s)) \/ createSessionWindow
    BY <1>5, createWindowKeeps
  <1>6. CASE (\E c \in Clients, s \in Sessions : splitClientPane(c, s)) \/ splitSessionPane
    BY <1>6, splitPaneKeeps
  <1>7. CASE \/ \E p \in PaneIDs : applyPaneExit(p)
             \/ \E c \in Clients, s \in Sessions : removeClientPane(c, s)
             \/ removeSessionPane
    BY <1>7, removePaneKeeps
  <1>8. CASE \E s \in Sessions, op \in {"window", "split"} : beginStart(op, s)
    BY <1>8, beginStartKeeps
  <1>9. CASE \E s \in Sessions, p \in PaneIDs : beginKill(s, p)
    BY <1>9, beginKillKeeps
  <1>10. CASE startFails \/ killFails
    BY <1>10, failsKeep
  <1>11. CASE UNCHANGED vars
    BY <1>11, StutterKeeps
  <1> QED
    BY <1>1, <1>2, <1>3, <1>4, <1>5, <1>6, <1>7, <1>8, <1>9, <1>10, <1>11 DEF Next

LEMMA GraphInvariant == Spec => []IInv
  BY InitOK, NextKeeps, PTL DEF Spec

\* Whatever the members of a group, their clients, pane processes and exits do in
\* whatever order, every registry holds what its type can hold, every window has a view
\* in every member, every pane one place, and every focus, zoom and history a pane the
\* window still has (addPaneToWindowGroupNow, removeGroupPaneNow, focusPane, removePane).
THEOREM GroupStaysOneGraph == Spec => []GroupSeesOneGraph
  BY GraphInvariant, InvariantImplies, PTL

-----------------------------------------------------------------------------
(* Leases and what clients are shown *)

NobodyElsewhere == \A s \in Sessions \ members : client[s] = None

ClientsAreTold == \A s \in members : client[s] # None => told[client[s]] # None

\* Session s shows its client what it was told.
ToldTruly(s) ==
    /\ told[client[s]].window = active[s]
    /\ told[client[s]].generation = windowLeases[active[s]].generation
    /\ told[client[s]].placed \subseteq windows[active[s]].panes

ToldTrue ==
    \A s \in members :
        client[s] # None /\ Hears(client[s]) /\ client[s] \notin untold /\ active[s] # None =>
            ToldTruly(s)

LeasesAreOfWindows == \A w \in WindowIDs : windowLeases[w] # None => w < nextWindow

LInv == LeasesAreOfWindows /\ NobodyElsewhere /\ OneSession /\ ClientsAreTold /\ LeasesHeld /\ ToldTrue

LEMMA LeaseInvariantImplies == IInv /\ LInv => ClientShowsItsLease
  <1> SUFFICES ASSUME IInv, LInv, NEW s \in members, client[s] # None, Hears(client[s]),
                      client[s] \notin untold, active[s] # None
               PROVE  /\ told[client[s]].window = active[s]
                      /\ windowLeases[active[s]] = LeaseTo(s, client[s], told[client[s]].generation)
                      /\ told[client[s]].placed \subseteq windows[active[s]].panes
    BY DEF ClientShowsItsLease
  <1>1. ToldTruly(s)
    BY DEF LInv, ToldTrue
  <1>2. PICK lease : lease = windowLeases[active[s]]
    OBVIOUS
  <1>3. lease \in Lease /\ lease.client = client[s] /\ lease.session = s
    BY <1>2 DEF LInv, LeasesHeld, IInv, RegistriesOK, ActiveIsLive, LiveWindows
  <1>4. lease = LeaseTo(s, client[s], lease.generation)
    BY <1>3 DEF Lease, LeaseTo
  <1> QED
    BY <1>1, <1>2, <1>4 DEF ToldTruly

\* A full projection is of the lease its client has.
LEMMA FullViewIsTrue ==
  ASSUME GraphOK', ActiveIsLive', NEW s \in members', NEW c \in Clients, active'[s] # None,
         windowLeases'[active'[s]] # None, windowLeases'[active'[s]].client = c
  PROVE  \E shown \in SUBSET windows'[active'[s]].panes :
            FullView(c, s) = [window |-> active'[s],
                              generation |-> windowLeases'[active'[s]].generation,
                              placed |-> shown, close |-> FALSE]
  <1>1. PICK w : w = ProjectedWindow(s)'
    OBVIOUS
  <1>2. PICK shown : shown = Shown(s)'
    OBVIOUS
  <1>3. w = active'[s]
    BY <1>1 DEF ProjectedWindow
  <1>4. shown \subseteq windows'[w].panes
    BY <1>1, <1>2, <1>3, ShownIsThereNext
  <1>5. FullView(c, s) = [window |-> w, generation |-> windowLeases'[w].generation,
                          placed |-> shown, close |-> FALSE]
    BY <1>1, <1>2, <1>3 DEF FullView
  <1> QED
    BY <1>3, <1>4, <1>5

\* What is still true of a member whose client, window and lease stay.
StillTrue(t) ==
    /\ t \in members
    /\ client'[t] = client[t]
    /\ active'[t] = active[t]
    /\ client[t] \notin untold
    /\ told'[client[t]] = told[client[t]]
    /\ windowLeases'[active[t]].generation = windowLeases[active[t]].generation
    /\ windows[active[t]].panes \subseteq windows'[active[t]].panes

LEMMA TruthStep ==
  ASSUME ToldTrue,
         \A t \in members' :
            client'[t] # None /\ active'[t] # None /\ client'[t] \notin untold'
              /\ told'[client'[t]] # None /\ ~ told'[client'[t]].close =>
            \/ StillTrue(t)
            \/ /\ told'[client'[t]].window = active'[t]
               /\ told'[client'[t]].generation = windowLeases'[active'[t]].generation
               /\ told'[client'[t]].placed \subseteq windows'[active'[t]].panes
  PROVE  ToldTrue'
  <1>1. ASSUME NEW t \in members', client'[t] # None, active'[t] # None, client'[t] \notin untold',
               told'[client'[t]] # None, ~ told'[client'[t]].close
        PROVE  /\ told'[client'[t]].window = active'[t]
               /\ told'[client'[t]].generation = windowLeases'[active'[t]].generation
               /\ told'[client'[t]].placed \subseteq windows'[active'[t]].panes
    <2>1. CASE StillTrue(t)
      <3>1. ToldTruly(t)
        BY <1>1, <2>1 DEF ToldTrue, StillTrue, Hears
      <3> QED
        BY <2>1, <3>1 DEF StillTrue, ToldTruly
    <2> QED
      BY <1>1, <2>1
  <1> QED
    BY <1>1 DEF ToldTrue, ToldTruly, Hears

\* A lease is acquired and another released, both of client c: nobody else's changes.
Moves(s, c, w, old, g) ==
    windowLeases' = [v \in WindowIDs |->
        IF v = w THEN LeaseTo(s, c, g) ELSE IF v = old THEN None ELSE windowLeases[v]]

LEMMA LeaseMoves ==
  ASSUME IInv, LInv, NEW s \in Sessions, NEW c \in Clients, NEW w \in WindowIDs,
         windowLeases[w] # None => windowLeases[w].client = c,
         NEW old \in LeasedBy(c) \cup {None}, NEW g \in Nat \ {0},
         Moves(s, c, w, old, g)
  PROVE  /\ windowLeases'[w] # None
         /\ windowLeases'[w].client = c /\ windowLeases'[w].session = s
         /\ \A t \in members : client[t] # None /\ client[t] # c /\ active[t] # None =>
               windowLeases'[active[t]] = windowLeases[active[t]]
  <1>1. windowLeases'[w] = LeaseTo(s, c, g)
    BY DEF Moves
  <1>2. LeaseTo(s, c, g).client = c /\ LeaseTo(s, c, g).session = s
    BY DEF LeaseTo
  <1>3. LeaseTo(s, c, g) # None
    <2>1. LeaseTo(s, c, g) \in Lease
      BY DEF LeaseTo, Lease
    <2> QED
      BY <2>1, NoneIsNothing
  <1>4. ASSUME NEW t \in members, client[t] # None, client[t] # c, active[t] # None
        PROVE  windowLeases'[active[t]] = windowLeases[active[t]]
    <2>1. active[t] \in WindowIDs
      BY <1>4 DEF IInv, ActiveIsLive, LiveWindows
    <2>2. windowLeases[active[t]] # None /\ windowLeases[active[t]].client # c
      BY <1>4 DEF LInv, LeasesHeld
    <2>3. active[t] # w /\ active[t] # old
      BY <1>4, <2>2 DEF LeasedBy
    <2> QED
      BY <2>1, <2>3 DEF Moves
  <1> QED
    BY <1>1, <1>2, <1>3, <1>4

\* TellClient gives a client that hears the truth of its session.
LEMMA TellClientIsTrue ==
  ASSUME IInv, GraphOK', ActiveIsLive', NEW c \in Clients, NEW s \in members', client'[s] = c, TellClient(c, s),
         active'[s] # None, windowLeases'[active'[s]] # None, windowLeases'[active'[s]].client = c
  PROVE  /\ told'[c] # None /\ ~ told'[c].close =>
              /\ told'[c].window = active'[s]
              /\ told'[c].generation = windowLeases'[active'[s]].generation
              /\ told'[c].placed \subseteq windows'[active'[s]].panes
         /\ \A d \in Clients \ {c} : told'[d] = told[d] /\ (d \notin untold' => d \notin untold)
  <1>1. told' = [told EXCEPT ![c] = IF Hears(c) THEN FullView(c, s) ELSE @] /\ untold' = untold \ {c}
    BY DEF TellClient
  <1>2. PICK shown \in SUBSET windows'[active'[s]].panes :
            FullView(c, s) = [window |-> active'[s],
                              generation |-> windowLeases'[active'[s]].generation,
                              placed |-> shown, close |-> FALSE]
    BY FullViewIsTrue
  <1>3. told'[c] = IF Hears(c) THEN FullView(c, s) ELSE told[c]
    BY <1>1 DEF IInv, ToldOK
  <1> QED
    BY <1>1, <1>2, <1>3 DEF Hears, IInv, ToldOK

LEMMA SameLeases ==
  ASSUME IInv, LInv, IInv', Grows, UNCHANGED <<members, client, active, windowLeases, nextWindow>>,
         \/ \E c \in Clients, s \in members : client[s] = c /\ active[s] # None /\ TellClient(c, s)
         \/ told' = told /\ untold \subseteq untold'
  PROVE  LInv'
  <1>1. /\ members \subseteq Sessions /\ client \in [Sessions -> Clients \cup {None}]
        /\ \A t \in members : active[t] # None => active[t] \in LiveWindows
    BY DEF IInv, GraphOK, RegistriesOK, ActiveIsLive
  <1>2. NobodyElsewhere' /\ OneSession' /\ LeasesHeld' /\ LeasesAreOfWindows'
    BY DEF LInv, LeasesAreOfWindows, NobodyElsewhere, OneSession, LeasesHeld
  <1>3. CASE told' = told /\ untold \subseteq untold'
    <2>1. ClientsAreTold'
      BY <1>3 DEF LInv, ClientsAreTold
    <2>2. \A t \in members' : active'[t] # None /\ client'[t] \notin untold' => StillTrue(t)
      BY <1>1, <1>3 DEF StillTrue, Grows
    <2>3. ToldTrue'
      BY <2>2, TruthStep DEF LInv
    <2> QED
      BY <1>2, <2>1, <2>3 DEF LInv
  <1>4. ASSUME NEW c \in Clients, NEW s \in members, client[s] = c, active[s] # None, TellClient(c, s)
        PROVE  LInv'
    <2>1. /\ s \in members' /\ client'[s] = c /\ active'[s] # None
          /\ windowLeases'[active'[s]] # None /\ windowLeases'[active'[s]].client = c
          /\ GraphOK' /\ ActiveIsLive' /\ windowLeases' \in [WindowIDs -> Lease \cup {None}] /\ ToldOK
      BY <1>4, SessionsAssumption DEF IInv, LInv, LeasesHeld, RegistriesOK
    <2>2. /\ told'[c] # None /\ ~ told'[c].close =>
              /\ told'[c].window = active'[s]
              /\ told'[c].generation = windowLeases'[active'[s]].generation
              /\ told'[c].placed \subseteq windows'[active'[s]].panes
          /\ \A d \in Clients \ {c} : told'[d] = told[d] /\ (d \notin untold' => d \notin untold)
      BY <1>4, <2>1, TellClientIsTrue
    <2>3. \A d \in Clients : told[d] # None => told'[d] # None
      BY <1>4, <2>1, TellClientKeepsType
    <2>4. ClientsAreTold'
      BY <1>1, <2>3 DEF LInv, ClientsAreTold
    <2>5. \A t \in members' : client'[t] # None /\ client'[t] # c /\ active'[t] # None
                                /\ client'[t] \notin untold' => StillTrue(t)
      BY <1>1, <2>2 DEF StillTrue, Grows
    <2>6. \A t \in members' : client'[t] = c => t = s
      BY <1>4, <2>1, SessionsAssumption DEF LInv, OneSession
    <2>7. ToldTrue'
      BY <2>2, <2>5, <2>6, TruthStep DEF LInv
    <2> QED
      BY <1>2, <2>4, <2>7 DEF LInv
  <1> QED
    BY <1>3, <1>4

\* TellAll gives every client that hears the truth of its session; the others are untold.
LEMMA TellAllIsTrue ==
  ASSUME IInv, LInv, GraphOK', ActiveIsLive', LeasesHeld', members' = members, client' = client,
         NEW S \in SUBSET members, TellAll(S)
  PROVE  ToldTrue'
  <1>1. /\ members \subseteq Sessions /\ client \in [Sessions -> Clients \cup {None}]
    BY DEF IInv, GraphOK, RegistriesOK
  <1>2. ASSUME NEW t \in members', client'[t] # None, active'[t] # None, client'[t] \notin untold',
               told'[client'[t]] # None, ~ told'[client'[t]].close
        PROVE  /\ told'[client'[t]].window = active'[t]
               /\ told'[client'[t]].generation = windowLeases'[active'[t]].generation
               /\ told'[client'[t]].placed \subseteq windows'[active'[t]].panes
    <2>1. PICK c \in Clients : c = client[t]
      BY <1>1, <1>2
    <2>2. \A s \in members : client[s] = c => s = t
      BY <1>2, <2>1 DEF LInv, OneSession
    <2>3. t \in S
      BY <1>2, <2>1, <2>2, SessionsAssumption DEF TellAll
    <2>4. {s \in S : client[s] = c} = {t}
      BY <2>1, <2>2, <2>3
    <2>5. told'[c] = IF Hears(c) /\ \E s \in S : client[s] = c
                       THEN CHOOSE v \in {[FullView(c, s) EXCEPT !.close = @ \/ active'[s] = None] :
                                             s \in {s \in S : client[s] = c}} : TRUE
                       ELSE told[c]
      BY DEF TellAll
    <2>6. Hears(c)
      BY <1>2, <2>1, <2>5 DEF Hears
    <2>7. told'[c] = [FullView(c, t) EXCEPT !.close = @ \/ active'[t] = None]
      <3> DEFINE v == [FullView(c, t) EXCEPT !.close = @ \/ active'[t] = None]
                 Heard == {[FullView(c, s) EXCEPT !.close = @ \/ active'[s] = None] :
                              s \in {s \in S : client[s] = c}}
      <3>1. Heard = {v}
        BY <2>4
      <3>2. told'[c] = CHOOSE x \in Heard : TRUE
        BY <2>1, <2>3, <2>5, <2>6
      <3> HIDE DEF Heard, v
      <3>3. told'[c] = v
        BY <3>1, <3>2
      <3> QED
        BY <3>3 DEF v
    <2>8. windowLeases'[active'[t]] # None /\ windowLeases'[active'[t]].client = c
      BY <1>2, <2>1 DEF LeasesHeld
    <2>9. PICK shown \in SUBSET windows'[active'[t]].panes :
            FullView(c, t) = [window |-> active'[t],
                              generation |-> windowLeases'[active'[t]].generation,
                              placed |-> shown, close |-> FALSE]
      BY <1>2, <2>8, FullViewIsTrue
    <2>10. /\ told'[c].window = active'[t] /\ told'[c].placed = shown
           /\ told'[c].generation = windowLeases'[active'[t]].generation
      BY <2>7, <2>9
    <2> QED
      BY <2>1, <2>10
  <1> QED
    BY <1>2, TruthStep DEF LInv

LEMMA InitLeases == Init => LInv
  <1> SUFFICES ASSUME Init PROVE LInv
    OBVIOUS
  <1>1. \A s \in Sessions : client[s] = None
    BY DEF Init
  <1>2. members \subseteq Sessions
    BY SessionsAssumption DEF Init
  <1> QED
    BY <1>1, <1>2 DEF Init, LInv, LeasesAreOfWindows, NobodyElsewhere, OneSession, ClientsAreTold,
       LeasesHeld, ToldTrue

LEMMA groupSessionsLeases ==
  ASSUME IInv, LInv, NEW base \in Sessions, NEW m \in Sessions, groupSessions(base, m) PROVE LInv'
  <1>1. /\ m \notin members /\ members' = members \cup {m} /\ members \subseteq Sessions
        /\ active' = [active EXCEPT ![m] = active[base]]
        /\ active \in [Sessions -> WindowIDs \cup {None}]
        /\ client[m] = None
        /\ UNCHANGED <<client, windowLeases, told, untold, windows, nextWindow>>
    BY DEF idVars, groupSessions, clientVars, toldVars, IInv, LInv, NobodyElsewhere, RegistriesOK, GraphOK
  <1>2. \A t \in members : t # m /\ active'[t] = active[t]
    BY <1>1
  <1>3. LeasesAreOfWindows' /\ NobodyElsewhere' /\ OneSession' /\ ClientsAreTold' /\ LeasesHeld'
    BY <1>1, <1>2 DEF LInv, LeasesAreOfWindows, NobodyElsewhere, OneSession, ClientsAreTold, LeasesHeld
  <1>4. \A t \in members' : client'[t] # None /\ client'[t] \notin untold' => StillTrue(t)
    BY <1>1, <1>2 DEF StillTrue
  <1>5. ToldTrue'
    BY <1>4, TruthStep DEF LInv
  <1> QED
    BY <1>3, <1>5 DEF LInv

LEMMA shutdownSessionLeases ==
  ASSUME IInv, LInv, IInv', NEW s \in Sessions, shutdownSession(s) PROVE LInv'
  <1>1. /\ s \in members /\ members' = members \ {s} /\ members \subseteq Sessions
        /\ client \in [Sessions -> Clients \cup {None}] /\ client' = [client EXCEPT ![s] = None]
        /\ active \in [Sessions -> WindowIDs \cup {None}] /\ active' = [active EXCEPT ![s] = None]
        /\ untold' = untold /\ nextWindow' = nextWindow
        /\ windows' = IF members' = {} THEN [w \in WindowIDs |-> None] ELSE windows
    BY DEF shutdownSession, idVars, IInv, RegistriesOK, GraphOK
  <1>2. \A t \in members' : /\ t \in members /\ t # s /\ client'[t] = client[t] /\ active'[t] = active[t]
                            /\ windows' = windows
    BY <1>1
  <1>3. \A w \in WindowIDs : windowLeases'[w] =
           IF windowLeases[w] # None /\ windowLeases[w].session = s THEN None ELSE windowLeases[w]
    BY DEF shutdownSession, removeSession
  <1>4. \A t \in members' : client[t] # None /\ active[t] # None =>
           windowLeases'[active[t]] = windowLeases[active[t]]
    <2>1. \A t \in members' : active[t] # None => active[t] \in WindowIDs
      BY <1>1
    <2> QED
      BY <1>2, <1>3, <2>1 DEF LInv, LeasesHeld
  <1>5. \A c \in Clients : told'[c] =
           IF client[s] = c /\ Hears(c) THEN [told[c] EXCEPT !.close = TRUE] ELSE told[c]
    BY DEF shutdownSession
  <1>6. \A t \in members' : client[t] # None => client[t] \in Clients /\ told'[client[t]] = told[client[t]]
    <2>1. ASSUME NEW t \in members', client[t] # None
          PROVE  client[t] \in Clients /\ client[s] # client[t]
      BY <1>1, <1>2, <2>1 DEF LInv, OneSession
    <2> QED
      BY <1>5, <2>1
  <1>7. LeasesAreOfWindows' /\ NobodyElsewhere' /\ OneSession' /\ ClientsAreTold' /\ LeasesHeld'
    <2>1. NobodyElsewhere'
      BY <1>1 DEF LInv, NobodyElsewhere
    <2>2. OneSession'
      BY <1>2 DEF LInv, OneSession
    <2>3. ClientsAreTold'
      BY <1>2, <1>6 DEF LInv, ClientsAreTold
    <2>4. LeasesHeld'
      BY <1>2, <1>4 DEF LInv, LeasesHeld
    <2>5. LeasesAreOfWindows'
      BY <1>1, <1>3 DEF LInv, LeasesAreOfWindows, Moves
    <2> QED
      BY <2>1, <2>2, <2>3, <2>4, <2>5
  <1>8. \A t \in members' : client'[t] # None /\ active'[t] # None /\ client'[t] \notin untold' =>
           StillTrue(t)
    BY <1>1, <1>2, <1>4, <1>6 DEF StillTrue
  <1>9. ToldTrue'
    BY <1>8, TruthStep DEF LInv
  <1> QED
    BY <1>7, <1>9 DEF LInv

LEMMA detachLeases ==
  ASSUME IInv, LInv, NEW c \in Clients, detach(c) PROVE LInv'
  <1>1. /\ members' = members /\ active' = active /\ windows' = windows /\ nextWindow' = nextWindow
        /\ members \subseteq Sessions /\ active \in [Sessions -> WindowIDs \cup {None}]
        /\ client \in [Sessions -> Clients \cup {None}] /\ told \in [Clients -> Told \cup {None}]
    BY DEF detach, idVars, sessionVars, graphVars, IInv, GraphOK, RegistriesOK, ToldOK
  <1>2. \A t \in Sessions : client'[t] = IF client[t] = c THEN None ELSE client[t]
    BY DEF detach
  <1>3. told' = [told EXCEPT ![c] = None] /\ untold' = untold \ {c}
    BY DEF detach
  <1>4. \A w \in WindowIDs : windowLeases'[w] = windowLeases[w]
           \/ (windowLeases[w] # None /\ windowLeases[w].client = c /\ windowLeases'[w] = None)
    BY DEF detach
  <1>5. \A t \in members : client'[t] # None =>
           client'[t] = client[t] /\ client[t] \in Clients \ {c} /\ told'[client[t]] = told[client[t]]
    BY <1>1, <1>2, <1>3
  <1>6. \A t \in members : client'[t] # None /\ active[t] # None =>
           windowLeases'[active[t]] = windowLeases[active[t]]
    <2>1. \A t \in members : active[t] # None => active[t] \in WindowIDs
      BY <1>1
    <2> QED
      BY <1>4, <1>5, <2>1 DEF LInv, LeasesHeld
  <1>7. NobodyElsewhere'
    BY <1>1, <1>2 DEF LInv, NobodyElsewhere
  <1>8. OneSession'
    BY <1>1, <1>5, <1>2 DEF LInv, OneSession
  <1>9. ClientsAreTold' /\ LeasesHeld'
    BY <1>1, <1>5, <1>6 DEF LInv, ClientsAreTold, LeasesHeld
  <1>10. \A t \in members' : client'[t] # None /\ active'[t] # None /\ client'[t] \notin untold' =>
           StillTrue(t)
    BY <1>1, <1>3, <1>5, <1>6 DEF StillTrue
  <1>11. ToldTrue'
    BY <1>10, TruthStep DEF LInv
  <1>12. LeasesAreOfWindows'
    BY <1>1, <1>4 DEF LInv, LeasesAreOfWindows
  <1> QED
    BY <1>7, <1>8, <1>9, <1>11, <1>12 DEF LInv

LEMMA attachLeases ==
  ASSUME IInv, LInv, IInv', NEW c \in Clients, NEW s \in Sessions, attach(c, s) PROVE LInv'
  <1> DEFINE w == ProjectedWindow(s)
             current == windowLeases[w]
  <1>1. /\ s \in members /\ client[s] = None /\ told[c] = None /\ w \in WindowIDs
        /\ current # None => current.client = c
        /\ members' = members /\ active' = active /\ windows' = windows /\ nextWindow' = nextWindow
        /\ client' = [client EXCEPT ![s] = c]
        /\ told' = [told EXCEPT ![c] = FullView(c, s)] /\ untold' = untold \ {c}
        /\ members \subseteq Sessions /\ client \in [Sessions -> Clients \cup {None}]
        /\ windowLeases \in [WindowIDs -> Lease \cup {None}] /\ told \in [Clients -> Told \cup {None}]
        /\ None \notin Clients
        /\ w < nextWindow
    BY ProjectedIsLive, SessionsAssumption
       DEF attach, idVars, sessionVars, graphVars, IInv, GraphOK, RegistriesOK, ToldOK, LiveWindows, IDsAreFresh
  <1>2. \A t \in members : client[t] # c
    BY <1>1 DEF LInv, ClientsAreTold
  <1>3. PICK old \in LeasedBy(c) \cup {None}, g \in Nat \ {0} :
          Moves(s, c, w, old, g)
    <2>1. PICK old, g :
            /\ old \in IF LeasedBy(c) = {} THEN {None} ELSE LeasedBy(c)
            /\ g = IF current = None THEN 1
                   ELSE IF old = w THEN current.generation
                   ELSE NextGeneration(current)
            /\ Moves(s, c, w, old, g)
      BY DEF attach, Moves
    <2>2. g \in Nat \ {0}
      BY <1>1, <2>1 DEF Lease, NextGeneration
    <2>3. old \in LeasedBy(c) \cup {None}
      BY <2>1
    <2> QED
      BY <2>1, <2>2, <2>3
  <1>4. active[s] # None => w = active[s]
    BY DEF ProjectedWindow
  <1> HIDE DEF w
  <1>5. /\ windowLeases'[w] # None
        /\ windowLeases'[w].client = c /\ windowLeases'[w].session = s
        /\ \A t \in members : client[t] # None /\ client[t] # c /\ active[t] # None =>
              windowLeases'[active[t]] = windowLeases[active[t]]
    <2>1. w \in WindowIDs /\ (windowLeases[w] # None => windowLeases[w].client = c)
      BY <1>1
    <2> QED
      BY <1>3, <2>1, LeaseMoves
  <1>6. client'[s] = c /\ \A t \in Sessions \ {s} : client'[t] = client[t]
    BY <1>1
  <1>7. NobodyElsewhere' /\ OneSession'
    BY <1>1, <1>2, <1>6 DEF LInv, NobodyElsewhere, OneSession
  <1>8. LeasesHeld'
    BY <1>1, <1>2, <1>4, <1>5, <1>6 DEF LInv, LeasesHeld
  <1>9. FullView(c, s) \in Told
    BY <1>1, FullViewIsTold DEF IInv, RegistriesOK
  <1>10. told'[c] = FullView(c, s) /\ \A d \in Clients \ {c} : told'[d] = told[d]
    BY <1>1
  <1>11. ClientsAreTold'
    <2>1. \A t \in members : t # s /\ client[t] # None => client[t] \in Clients \ {c}
      BY <1>1, <1>2
    <2> QED
      BY <1>1, <1>6, <1>9, <1>10, <2>1, NoneIsNothing DEF LInv, ClientsAreTold
  <1>12. ASSUME NEW t \in members', client'[t] # None, active'[t] # None, client'[t] \notin untold'
         PROVE  \/ StillTrue(t)
                \/ /\ told'[client'[t]].window = active'[t]
                   /\ told'[client'[t]].generation = windowLeases'[active'[t]].generation
                   /\ told'[client'[t]].placed \subseteq windows'[active'[t]].panes
    <2>1. CASE t = s
      <3>1. windowLeases'[active'[s]] # None /\ windowLeases'[active'[s]].client = c
        BY <1>1, <1>4, <1>5, <1>12, <2>1
      <3>2. PICK shown \in SUBSET windows'[active'[s]].panes :
            FullView(c, s) = [window |-> active'[s],
                              generation |-> windowLeases'[active'[s]].generation,
                              placed |-> shown, close |-> FALSE]
        BY <1>1, <1>12, <2>1, <3>1, FullViewIsTrue DEF IInv
      <3> QED
        BY <1>6, <1>10, <2>1, <3>2
    <2>2. CASE t # s
      <3>1. client[t] \in Clients \ {c} /\ t \in members /\ client'[t] = client[t]
        BY <1>1, <1>2, <1>6, <1>12, <2>2
      <3> QED
        BY <1>1, <1>5, <1>10, <1>12, <3>1 DEF StillTrue
    <2> QED
      BY <2>1, <2>2
  <1>13. ToldTrue'
    BY <1>12, TruthStep DEF LInv
  <1>14. LeasesAreOfWindows'
    BY <1>1, <1>3 DEF LInv, LeasesAreOfWindows, Moves
  <1> QED
    BY <1>7, <1>8, <1>11, <1>13, <1>14 DEF LInv

\* A client that drives its session, or has it create a window, takes the lease of the
\* window that its session shows from then on.
LEMMA ActiveMoves ==
  ASSUME IInv, LInv, IInv', NEW s \in members, NEW c \in Clients, client[s] = c, NEW w \in WindowIDs,
         active' = [active EXCEPT ![s] = w], UNCHANGED <<members, client>>, Grows,
         windowLeases[w] # None => windowLeases[w].client = c,
         NEW old \in LeasedBy(c) \cup {None}, NEW g \in Nat \ {0},
         Moves(s, c, w, old, g),
         TellClient(c, s) \/ TellNobody({s}),
         w < nextWindow', nextWindow' \in {nextWindow, nextWindow + 1}
  PROVE  LInv'
  <1>1. /\ members \subseteq Sessions /\ client \in [Sessions -> Clients \cup {None}]
        /\ active \in [Sessions -> WindowIDs \cup {None}]
        /\ None \notin Clients /\ None \notin WindowIDs
        /\ \A t \in members : active[t] # None => active[t] \in LiveWindows
    BY SessionsAssumption DEF IInv, GraphOK, RegistriesOK, ActiveIsLive, WindowIDs
  <1>2. /\ windowLeases'[w] # None
        /\ windowLeases'[w].client = c /\ windowLeases'[w].session = s
        /\ \A t \in members : client[t] # None /\ client[t] # c /\ active[t] # None =>
              windowLeases'[active[t]] = windowLeases[active[t]]
    <2>1. s \in Sessions
      BY <1>1
    <2> QED
      BY <2>1, LeaseMoves
  <1>3. active'[s] = w /\ \A t \in members : t # s => active'[t] = active[t]
    BY <1>1
  <1>4. \A t \in members : client[t] = c => t = s
    BY <1>1 DEF LInv, OneSession
  <1>5. NobodyElsewhere' /\ OneSession'
    BY DEF LInv, NobodyElsewhere, OneSession
  <1>6. LeasesHeld'
    BY <1>2, <1>3, <1>4 DEF LInv, LeasesHeld
  <1>7. /\ s \in members' /\ client'[s] = c /\ active'[s] # None
        /\ windowLeases'[active'[s]] # None /\ windowLeases'[active'[s]].client = c
        /\ GraphOK' /\ ActiveIsLive' /\ windowLeases' \in [WindowIDs -> Lease \cup {None}] /\ ToldOK
    BY <1>1, <1>2, <1>3 DEF IInv, RegistriesOK
  <1>8. LeasesAreOfWindows'
    <2>1. nextWindow \in Nat /\ \A v \in WindowIDs : v \in Nat /\ (v < nextWindow => v < nextWindow')
      BY DEF IInv, RegistriesOK, WindowIDs
    <2> QED
      BY <2>1 DEF LInv, LeasesAreOfWindows, Moves
  <1>9. CASE TellClient(c, s)
    <2>1. /\ told'[c] # None /\ ~ told'[c].close =>
              /\ told'[c].window = active'[s]
              /\ told'[c].generation = windowLeases'[active'[s]].generation
              /\ told'[c].placed \subseteq windows'[active'[s]].panes
          /\ \A d \in Clients \ {c} : told'[d] = told[d] /\ (d \notin untold' => d \notin untold)
      BY <1>7, <1>9, TellClientIsTrue
    <2>2. \A d \in Clients : told[d] # None => told'[d] # None
      BY <1>7, <1>9, TellClientKeepsType
    <2>3. ClientsAreTold'
      BY <1>1, <2>2 DEF LInv, ClientsAreTold
    <2>4. \A t \in members' : client'[t] # None /\ client'[t] # c /\ active'[t] # None
                                 /\ client'[t] \notin untold' => StillTrue(t)
      BY <1>1, <1>2, <1>3, <2>1 DEF StillTrue, Grows
    <2>5. ToldTrue'
      BY <1>4, <2>1, <2>4, TruthStep DEF LInv
    <2> QED
      BY <1>5, <1>6, <1>8, <2>3, <2>5 DEF LInv
  <1>10. CASE TellNobody({s})
    <2>1. told' = told /\ c \in untold' /\ untold \subseteq untold'
      BY <1>1, <1>10 DEF TellNobody
    <2>2. ClientsAreTold'
      BY <2>1 DEF LInv, ClientsAreTold
    <2>3. \A t \in members' : client'[t] # None /\ active'[t] # None /\ client'[t] \notin untold' =>
             StillTrue(t)
      BY <1>1, <1>2, <1>3, <2>1 DEF StillTrue, Grows
    <2>4. ToldTrue'
      BY <2>3, TruthStep DEF LInv
    <2> QED
      BY <1>5, <1>6, <1>8, <2>2, <2>4 DEF LInv
  <1> QED
    BY <1>9, <1>10

LEMMA selectWindowLeases ==
  ASSUME IInv, LInv, IInv', NEW c \in Clients, NEW s \in Sessions, NEW w \in WindowIDs,
         selectWindow(c, s, w)
  PROVE  LInv'
  <1> DEFINE source == ProjectedWindow(s)
  <1>1. /\ s \in members /\ client[s] = c /\ w \in LiveWindows
        /\ windowLeases[w] # None => windowLeases[w].client = c
        /\ active' = [active EXCEPT ![s] = w]
        /\ UNCHANGED <<members, client, windows, nextWindow>>
        /\ TellClient(c, s)
    BY DEF selectWindow, Drives, sessionVars, clientVars, idVars
  <1>2. PICK old \in LeasedBy(c), g \in Nat \ {0} :
          Moves(s, c, w, old, g)
    <2>1. PICK old, g :
            /\ old \in LeasedBy(c)
            /\ g = IF source = w /\ windowLeases[w] # None THEN windowLeases[w].generation
                   ELSE NextGeneration(windowLeases[w])
            /\ Moves(s, c, w, old, g)
      BY DEF selectWindow, selectLeases, Moves
    <2>2. g \in Nat \ {0}
      BY <2>1 DEF IInv, RegistriesOK, Lease, NextGeneration
    <2> QED
      BY <2>1, <2>2
  <1>3. Grows
    BY <1>1 DEF Grows, LiveWindows
  <1>4. w < nextWindow'
    BY <1>1 DEF IInv, IDsAreFresh
  <1>5. old \in LeasedBy(c) \cup {None}
    OBVIOUS
  <1> QED
    BY <1>1, <1>2, <1>3, <1>4, <1>5, ActiveMoves

LEMMA createWindowLeases ==
  ASSUME IInv, LInv, IInv',
         (\E c \in Clients, s \in Sessions : createClientWindow(c, s)) \/ createSessionWindow
  PROVE  LInv'
  <1>1. ASSUME NEW s \in members, pending # None, pending.op = "window", nextWindow <= MaxWindow,
               UNCHANGED <<sessionVars, nextPane, clientVars>>, pending' = None,
               createWindowNow(s, pending.pane), activateCreatedWindowNow(s),
               \/ TellClient(client[s], s) /\ client[s] # None
               \/ told' = told /\ untold \subseteq untold' /\ client[s] = None
               \/ TellNobody({s})
        PROVE  LInv'
    <2>1. /\ members' = members /\ client' = client /\ nextPane' = nextPane
          /\ members \subseteq Sessions /\ client \in [Sessions -> Clients \cup {None}]
          /\ windowLeases \in [WindowIDs -> Lease \cup {None}]
          /\ active \in [Sessions -> WindowIDs \cup {None}]
      BY <1>1 DEF sessionVars, clientVars, IInv, GraphOK, RegistriesOK
    <2>2. /\ Grows /\ active' = [active EXCEPT ![s] = nextWindow]
      BY <1>1, <2>1, createWindowNowKeeps
    <2>3. /\ nextWindow \in WindowIDs /\ nextWindow' = nextWindow + 1 /\ nextWindow < nextWindow'
      BY <1>1, BoundsAssumption DEF createWindowNow, IInv, RegistriesOK, WindowIDs
    <2>4. windowLeases[nextWindow] = None
      BY <2>3 DEF LInv, LeasesAreOfWindows, WindowIDs
    <2>5. CASE client[s] # None
      <3>1. PICK c \in Clients : c = client[s]
        BY <2>1, <2>5
      <3>2. PICK old \in LeasedBy(c) \cup {None} : Moves(s, c, nextWindow, old, 1)
        BY <1>1, <2>5, <3>1 DEF activateCreatedWindowNow, Moves
      <3>3. TellClient(c, s) \/ TellNobody({s})
        BY <1>1, <2>5, <3>1
      <3>4. UNCHANGED <<members, client>> /\ client[s] = c
        BY <2>1, <3>1
      <3>5. nextWindow' \in {nextWindow, nextWindow + 1} /\ 1 \in Nat \ {0}
        BY <2>3
      <3> QED
        BY <2>2, <2>3, <2>4, <3>2, <3>3, <3>4, <3>5, ActiveMoves
    <2>6. CASE client[s] = None
      <3>1. windowLeases' = windowLeases
        BY <1>1, <2>6 DEF activateCreatedWindowNow
      <3>2. told' = told /\ untold \subseteq untold'
        BY <1>1, <2>6 DEF TellNobody
      <3>3. \A t \in members : client[t] # None => t # s /\ active'[t] = active[t]
        BY <2>1, <2>2, <2>6
      <3>4. NobodyElsewhere' /\ OneSession' /\ ClientsAreTold'
        BY <2>1, <3>2 DEF LInv, NobodyElsewhere, OneSession, ClientsAreTold
      <3>5. LeasesHeld'
        BY <2>1, <3>1, <3>3 DEF LInv, LeasesHeld
      <3>6. LeasesAreOfWindows'
        BY <2>3, <3>1 DEF LInv, LeasesAreOfWindows, WindowIDs
      <3>7. \A t \in members' : client'[t] # None /\ active'[t] # None /\ client'[t] \notin untold' =>
               StillTrue(t)
        BY <2>1, <2>2, <3>1, <3>2, <3>3 DEF StillTrue, Grows, IInv, ActiveIsLive
      <3>8. ToldTrue'
        BY <3>7, TruthStep DEF LInv
      <3> QED
        BY <3>4, <3>5, <3>6, <3>8 DEF LInv
    <2> QED
      BY <2>5, <2>6
  <1>2. ASSUME NEW c \in Clients, NEW s \in Sessions, createClientWindow(c, s)
        PROVE  LInv'
    <2>1. \/ TellClient(client[s], s) /\ client[s] # None
          \/ told' = told /\ untold \subseteq untold' /\ client[s] = None
      BY <1>2, SessionsAssumption DEF createClientWindow, toldVars
    <2> QED
      BY <1>1, <1>2, <2>1 DEF createClientWindow, CanCreateWindow
  <1>3. ASSUME createSessionWindow PROVE LInv'
    <2>1. PICK s : s = pending.session
      OBVIOUS
    <2> QED
      BY <1>1, <1>3, <2>1 DEF createSessionWindow, CanCreateWindow
  <1> QED
    BY <1>2, <1>3

LEMMA changeLeases ==
  ASSUME IInv, LInv, IInv', NEW c \in Clients, NEW s \in Sessions,
         \/ \E p \in PaneIDs : focusClientPane(c, s, p)
         \/ toggleClientZoom(c, s)
         \/ rearrangeWindow(c, s)
  PROVE  LInv'
  <1>1. Grows
    BY focusClientPaneKeeps, toggleClientZoomKeeps, rearrangeWindowKeeps
  <1>2. /\ s \in members /\ client[s] = c /\ active[s] # None /\ TellClient(c, s)
        /\ UNCHANGED <<members, client, active, windowLeases, nextWindow>>
    BY DEF focusClientPane, toggleClientZoom, rearrangeWindow, Drives, sessionVars, clientVars, idVars
  <1> QED
    BY <1>1, <1>2, SameLeases

LEMMA splitPaneLeases ==
  ASSUME IInv, LInv, IInv',
         (\E c \in Clients, s \in Sessions : splitClientPane(c, s)) \/ splitSessionPane
  PROVE  LInv'
  <1>1. Grows
    BY splitPaneKeeps
  <1>2. UNCHANGED <<members, client, active, windowLeases, nextWindow>>
    BY DEF splitClientPane, splitSessionPane, splitFocusedPaneNow, sessionVars, clientVars, idVars
  <1>3. ASSUME NEW c \in Clients, NEW s \in Sessions, splitClientPane(c, s)
        PROVE  s \in members /\ client[s] = c /\ active[s] # None /\ TellClient(c, s)
    BY <1>3 DEF splitClientPane, CanSplit
  <1>4. ASSUME splitSessionPane
        PROVE  told' = told /\ untold \subseteq untold'
    BY <1>4 DEF splitSessionPane, TellNobody
  <1> QED
    BY <1>1, <1>2, <1>3, <1>4, SameLeases

LEMMA removePaneLeases ==
  ASSUME IInv, LInv, IInv',
         \/ \E p \in PaneIDs : applyPaneExit(p)
         \/ \E c \in Clients, s \in Sessions : removeClientPane(c, s)
         \/ removeSessionPane
  PROVE  LInv'
  <1>1. PICK p \in LivePanes, S \in SUBSET members : removeGroupPaneNow(p) /\ TellAll(S)
    <2>1. ASSUME NEW p \in PaneIDs, applyPaneExit(p)
          PROVE  p \in LivePanes /\ removeGroupPaneNow(p) /\ TellAll(members)
      BY <2>1 DEF applyPaneExit
    <2>2. ASSUME NEW c \in Clients, NEW s \in Sessions, removeClientPane(c, s)
          PROVE  pending.pane \in LivePanes /\ removeGroupPaneNow(pending.pane) /\ TellAll(members)
      BY <2>2 DEF removeClientPane
    <2>3. ASSUME removeSessionPane
          PROVE  /\ pending.pane \in LivePanes /\ removeGroupPaneNow(pending.pane)
                 /\ TellAll(members \ {pending.session})
      BY <2>3 DEF removeSessionPane
    <2>4. members \ {pending.session} \in SUBSET members /\ members \in SUBSET members
      OBVIOUS
    <2> QED
      BY <2>1, <2>2, <2>3, <2>4
  <1>2. UNCHANGED <<members, client, nextWindow>>
    BY DEF applyPaneExit, removeClientPane, removeSessionPane, idVars, clientVars
  <1>3. Removed
    BY <1>1, <1>2, PaneIsRemoved DEF IInv
  <1>4. NobodyElsewhere' /\ OneSession'
    BY <1>2 DEF LInv, NobodyElsewhere, OneSession
  <1>5. LeasesHeld'
    BY <1>2, <1>3 DEF LInv, LeasesHeld, Removed
  <1>6. LeasesAreOfWindows'
    BY <1>2, <1>3 DEF LInv, LeasesAreOfWindows, Removed, IInv, IDsAreFresh
  <1>7. \A d \in Clients : told[d] # None => told'[d] # None
    BY <1>1, <1>2, <1>3, TellAllKeepsType DEF Removed, IInv
  <1>8. ClientsAreTold'
    BY <1>2, <1>7 DEF LInv, ClientsAreTold, IInv, GraphOK, RegistriesOK
  <1>9. ToldTrue'
    BY <1>1, <1>2, <1>5, TellAllIsTrue DEF IInv
  <1> QED
    BY <1>4, <1>5, <1>6, <1>8, <1>9 DEF LInv

LEMMA NothingChanges ==
  ASSUME IInv, LInv, IInv',
         UNCHANGED <<members, client, active, windows, windowLeases, nextWindow, told, untold>>
  PROVE  LInv'
  <1>1. Grows
    BY DEF Grows, LiveWindows
  <1> QED
    BY <1>1, SameLeases

LEMMA NextKeepsLeases == IInv /\ LInv /\ IInv' /\ [Next]_vars => LInv'
  <1> SUFFICES ASSUME IInv, LInv, IInv', [Next]_vars PROVE LInv'
    OBVIOUS
  <1>1. CASE \E base, m \in Sessions : groupSessions(base, m)
    BY <1>1, groupSessionsLeases
  <1>2. CASE \E s \in Sessions : shutdownSession(s)
    BY <1>2, shutdownSessionLeases
  <1>3. CASE \E c \in Clients : detach(c)
    BY <1>3, detachLeases
  <1>4. CASE \E c \in Clients, s \in Sessions : attach(c, s)
    BY <1>4, attachLeases
  <1>5. CASE \E c \in Clients, s \in Sessions, w \in WindowIDs : selectWindow(c, s, w)
    BY <1>5, selectWindowLeases
  <1>6. CASE \E c \in Clients, s \in Sessions :
               \/ \E p \in PaneIDs : focusClientPane(c, s, p)
               \/ toggleClientZoom(c, s)
               \/ rearrangeWindow(c, s)
    BY <1>6, changeLeases
  <1>7. CASE (\E c \in Clients, s \in Sessions : createClientWindow(c, s)) \/ createSessionWindow
    BY <1>7, createWindowLeases
  <1>8. CASE (\E c \in Clients, s \in Sessions : splitClientPane(c, s)) \/ splitSessionPane
    BY <1>8, splitPaneLeases
  <1>9. CASE \/ \E p \in PaneIDs : applyPaneExit(p)
             \/ \E c \in Clients, s \in Sessions : removeClientPane(c, s)
             \/ removeSessionPane
    BY <1>9, removePaneLeases
  <1>10. CASE \/ \E s \in Sessions, op \in {"window", "split"} : beginStart(op, s)
              \/ \E s \in Sessions, p \in PaneIDs : beginKill(s, p)
              \/ startFails \/ killFails
              \/ UNCHANGED vars
    <2>1. UNCHANGED <<members, client, active, windows, windowLeases, nextWindow, told, untold>>
      BY <1>10 DEF beginStart, beginKill, startFails, killFails, vars, sessionVars, idVars, clientVars,
         graphVars, toldVars
    <2> QED
      BY <2>1, NothingChanges
  <1> QED
    BY <1>1, <1>2, <1>3, <1>4, <1>5, <1>6, <1>7, <1>8, <1>9, <1>10 DEF Next

LEMMA LeaseInvariant == Spec => [](IInv /\ LInv)
  <1>1. IInv /\ LInv /\ [Next]_vars => (IInv /\ LInv)'
    BY NextKeeps, NextKeepsLeases
  <1> QED
    BY <1>1, InitOK, InitLeases, PTL DEF Spec

\* Whatever windows come and go, a client that was told of every change shows the active
\* window of its session, on the lease the daemon holds for it and no other session's,
\* and no pane that has gone (activateWindowView, removeGroupWindowNow, deliverGroupViews).
THEOREM ClientsShowTheirLeases == Spec => []ClientShowsItsLease
  BY LeaseInvariant, LeaseInvariantImplies, PTL

-----------------------------------------------------------------------------
(* The removal of a window *)

\* Every step but a removal or a shutdown leaves the windows and keeps members shown one.
Stranding ==
    \/ \E s \in members : members' = members \ {s} /\ active' = [active EXCEPT ![s] = None]
                          /\ (members' # {} => windows' = windows)
    \/ /\ Removed /\ members' = members
       /\ LiveWindows' = {} => members \subseteq dying'
    \/ /\ LiveWindows \subseteq LiveWindows'
       /\ \A s \in members : active[s] # None => active'[s] # None

LEMMA NextStrands == IInv /\ IInv' /\ [Next]_vars => Stranding
  <1> SUFFICES ASSUME IInv, IInv', [Next]_vars PROVE Stranding
    OBVIOUS
  <1>0. /\ members \subseteq Sessions /\ active \in [Sessions -> WindowIDs \cup {None}]
        /\ None \notin WindowIDs /\ nextWindow \in Nat
    BY SessionsAssumption DEF IInv, GraphOK, RegistriesOK, WindowIDs
  <1>1. ASSUME NEW base \in Sessions, NEW m \in Sessions, groupSessions(base, m) PROVE Stranding
    BY <1>0, <1>1 DEF groupSessions, LiveWindows, IInv, RegistriesOK, Stranding
  <1>2. ASSUME NEW s \in Sessions, shutdownSession(s) PROVE Stranding
    <2>1. /\ s \in members /\ members' = members \ {s} /\ active' = [active EXCEPT ![s] = None]
          /\ members' # {} => windows' = windows
      BY <1>2 DEF shutdownSession
    <2> QED
      BY <2>1 DEF Stranding
  <1>3. ASSUME UNCHANGED <<windows, active>> PROVE Stranding
    BY <1>3 DEF LiveWindows, Stranding
  <1>4. CASE \/ \E c \in Clients : detach(c) \/ \E s \in Sessions : attach(c, s)
             \/ \E s \in Sessions, op \in {"window", "split"} : beginStart(op, s)
             \/ \E s \in Sessions, p \in PaneIDs : beginKill(s, p)
             \/ startFails \/ killFails
             \/ UNCHANGED vars
    <2>1. UNCHANGED <<windows, active>>
      BY <1>4 DEF detach, attach, beginStart, beginKill, startFails, killFails, vars, graphVars
    <2> QED
      BY <1>3, <2>1
  <1>5. ASSUME NEW c \in Clients, NEW s \in Sessions, NEW w \in WindowIDs, selectWindow(c, s, w)
        PROVE  Stranding
    <2>1. windows' = windows /\ active' = [active EXCEPT ![s] = w]
      BY <1>5 DEF selectWindow
    <2> QED
      BY <1>0, <2>1 DEF LiveWindows, Stranding
  <1>6. ASSUME NEW c \in Clients, NEW s \in Sessions,
               \/ \E p \in PaneIDs : focusClientPane(c, s, p)
               \/ toggleClientZoom(c, s)
               \/ rearrangeWindow(c, s)
        PROVE  Stranding
    <2>1. Grows
      BY <1>6, focusClientPaneKeeps, toggleClientZoomKeeps, rearrangeWindowKeeps
    <2>2. active' = active
      BY <1>6 DEF focusClientPane, toggleClientZoom, rearrangeWindow
    <2> QED
      BY <2>1, <2>2 DEF Grows, Stranding
  <1>7. CASE (\E c \in Clients, s \in Sessions : splitClientPane(c, s)) \/ splitSessionPane
    <2>1. Grows
      BY <1>7, splitPaneKeeps
    <2>2. active' = active
      BY <1>7 DEF splitClientPane, splitSessionPane, splitFocusedPaneNow
    <2> QED
      BY <2>1, <2>2 DEF Grows, Stranding
  <1>8. CASE (\E c \in Clients, s \in Sessions : createClientWindow(c, s)) \/ createSessionWindow
    <2>1. PICK s \in members :
            /\ pending # None /\ pending.op = "window" /\ nextWindow <= MaxWindow
            /\ members' = members /\ nextPane' = nextPane /\ pending' = None
            /\ createWindowNow(s, pending.pane) /\ activateCreatedWindowNow(s)
      <3>1. ASSUME NEW c \in Clients, NEW s \in Sessions, createClientWindow(c, s)
            PROVE  /\ s \in members /\ pending # None /\ pending.op = "window" /\ nextWindow <= MaxWindow
                   /\ members' = members /\ nextPane' = nextPane /\ pending' = None
                   /\ createWindowNow(s, pending.pane) /\ activateCreatedWindowNow(s)
        BY <3>1 DEF createClientWindow, CanCreateWindow, sessionVars
      <3>2. ASSUME createSessionWindow
            PROVE  /\ pending.session \in members /\ pending # None /\ pending.op = "window"
                   /\ nextWindow <= MaxWindow
                   /\ members' = members /\ nextPane' = nextPane /\ pending' = None
                   /\ createWindowNow(pending.session, pending.pane)
                   /\ activateCreatedWindowNow(pending.session)
        BY <3>2 DEF createSessionWindow, CanCreateWindow, sessionVars
      <3> QED
        BY <1>8, <3>1, <3>2
    <2>2. Grows /\ active' = [active EXCEPT ![s] = nextWindow]
      BY <2>1, createWindowNowKeeps
    <2>3. nextWindow # None
      BY <1>0, SessionsAssumption
    <2> QED
      BY <1>0, <2>2, <2>3 DEF Grows, Stranding
  <1>9. CASE \/ \E p \in PaneIDs : applyPaneExit(p)
             \/ \E c \in Clients, s \in Sessions : removeClientPane(c, s)
             \/ removeSessionPane
    <2>1. PICK p \in LivePanes : removeGroupPaneNow(p)
      BY <1>9 DEF applyPaneExit, removeClientPane, removeSessionPane
    <2>2. members' = members
      BY <1>9 DEF applyPaneExit, removeClientPane, removeSessionPane
    <2>3. Removed
      BY <2>1, <2>2, PaneIsRemoved DEF IInv
    <2>4. ASSUME LiveWindows' = {} PROVE members \subseteq dying'
      <3>1. \A s \in members : active'[s] = None
        BY <2>2, <2>4 DEF IInv, ActiveIsLive
      <3> QED
        BY <1>9, <2>4, <3>1 DEF applyPaneExit, removeClientPane, removeSessionPane, Windowless, Ended
    <2> QED
      BY <2>2, <2>3, <2>4 DEF Stranding
  <1> QED
    BY <1>1, <1>2, <1>4, <1>5, <1>6, <1>7, <1>8, <1>9 DEF Next

LEMMA StrandsNobody ==
  IInv /\ IInv' /\ [Next]_vars =>
    /\ \A s \in members \cap members' :
          active[s] # None /\ active'[s] = None =>
              \A w \in LiveWindows' :
                  windowLeases'[w] # None /\ windowLeases'[w].client # client[s]
    /\ LiveWindows # {} /\ LiveWindows' = {} => members' \subseteq dying'
  <1> SUFFICES ASSUME IInv, IInv', [Next]_vars
               PROVE  /\ \A s \in members \cap members' :
                            active[s] # None /\ active'[s] = None =>
                              \A w \in LiveWindows' :
                                 windowLeases'[w] # None /\ windowLeases'[w].client # client[s]
                      /\ LiveWindows # {} /\ LiveWindows' = {} => members' \subseteq dying'
    OBVIOUS
  <1>1. ASSUME NEW s \in members, members' = members \ {s}, active' = [active EXCEPT ![s] = None],
               members' # {} => windows' = windows
        PROVE  /\ \A t \in members \cap members' : active'[t] = active[t]
               /\ LiveWindows # {} /\ LiveWindows' = {} => members' = {}
    <2>1. \A t \in members \cap members' : t # s /\ t \in Sessions
      BY <1>1 DEF IInv, GraphOK
    <2> QED
      BY <1>1, <2>1 DEF IInv, RegistriesOK, LiveWindows
  <1>2. CASE \E s \in members : members' = members \ {s} /\ active' = [active EXCEPT ![s] = None]
                                /\ (members' # {} => windows' = windows)
    BY <1>1, <1>2
  <1>3. CASE Removed /\ members' = members /\ (LiveWindows' = {} => members \subseteq dying')
    BY <1>3 DEF Removed
  <1>4. CASE LiveWindows \subseteq LiveWindows' /\ \A s \in members : active[s] # None => active'[s] # None
    BY <1>4
  <1> QED
    BY <1>2, <1>3, <1>4, NextStrands DEF Stranding

\* Whoever removes a window, by a command or because its process ended, a member that
\* showed it shows another one unless other clients view all that stay, and when there is
\* none every member is on its way to its shutdown (removeGroupWindowNow,
\* shutdownWindowlessSessions).
THEOREM RemovalStrandsNobody == Spec => RemovalLeavesNobodyStranded
  <1>1. IInv /\ IInv' /\ [Next]_vars =>
          [\A s \in members \cap members' :
              active[s] # None /\ active'[s] = None =>
                  \A w \in LiveWindows' :
                      windowLeases'[w] # None /\ windowLeases'[w].client # client[s]]_vars
    BY StrandsNobody
  <1>2. IInv /\ IInv' /\ [Next]_vars =>
          [LiveWindows # {} /\ LiveWindows' = {} => members' \subseteq dying']_vars
    BY StrandsNobody
  <1>3. Spec => FallbackIsFound
    BY <1>1, GraphInvariant, PTL DEF Spec, FallbackIsFound
  <1>4. Spec => LastWindowEndsSessions
    BY <1>2, GraphInvariant, PTL DEF Spec, LastWindowEndsSessions
  <1> QED
    BY <1>3, <1>4 DEF RemovalLeavesNobodyStranded
=============================================================================
