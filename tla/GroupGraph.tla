----------------------------- MODULE GroupGraph -----------------------------
(***************************************************************************)
(* The execution graph shared by the sessions of one group: windows with   *)
(* their panes, each member session's own view of every window, and the    *)
(* view leases of the attached clients, under the commands that create,    *)
(* split, focus, zoom, rearrange and remove.  One daemon transaction is one *)
(* action.  A command that starts a pane process, or that resolves its      *)
(* session first, takes two transactions; `pending' holds what it carries     *)
(* from the first to the second, for one such command at a time.            *)
(*                                                                          *)
(* A layout is the set of its panes; the tree, its geometry and its revision *)
(* are WindowLayout's.  Delivery of a prepared view to its client  *)
(* is ClientDelivery's; here `told' is the newest view posted to a client,  *)
(* which its instance installs or, for a close, ends with.                  *)
(***************************************************************************)
EXTENDS Naturals, Sequences, FiniteSets, SequencesExt

CONSTANTS
    Sessions,        \* session IDs; their order is that of Nat
    Base,            \* the session that exists first
    Clients,         \* logical clients
    None,            \* the zero ID, the nil pointer
    MaxWindow,       \* bound: window IDs that are allocated
    MaxPane,         \* bound: pane IDs that are allocated
    KillPanes,       \* bound: panes that a command removes; any pane may exit
    MaxVisiblePanes  \* protocol.MaxVisiblePanes, also the depth of a focus history

ASSUME SessionsAssumption ==
    /\ Base \in Sessions /\ IsFiniteSet(Sessions)
    /\ None \notin Sessions \cup Clients \cup Nat
ASSUME BoundsAssumption ==
    /\ MaxWindow \in Nat \ {0} /\ MaxPane \in Nat \ {0}
    /\ MaxVisiblePanes \in Nat \ {0}

WindowIDs == 1 .. MaxWindow
PaneIDs   == 1 .. MaxPane

VARIABLES
    members,      \* GroupState.SessionIDs, the sessions that exist
    fresh,        \* session IDs not yet allocated
    windows,      \* GroupState.Windows
    views,        \* SessionState.WindowViews
    active,       \* SessionState.ActiveWindowID
    previous,     \* SessionState.PreviousWindowID
    grouped,      \* SessionState.grouped
    nextWindow,   \* Daemon.nextWindowID
    nextPane,     \* Daemon.nextPaneID
    client,       \* SessionState.ClientID
    sessionOf,    \* ClientIdentity.SessionID
    windowLeases, \* Daemon.windowLeases
    told,         \* the view a client's instance was last told to show
    dying,        \* sessions a shutdown is on its way to
    pending,      \* a new-window, split-window or kill-pane between its transactions
    untold        \* history: clients that were not told of a change to what they show

sessionVars == <<members, fresh, grouped, dying>>
idVars      == <<nextWindow, nextPane>>
clientVars  == <<client, sessionOf>>
toldVars    == <<told, untold>>
graphVars   == <<windows, views, active, previous>>
vars == <<sessionVars, idVars, clientVars, pending, graphVars, windowLeases, toldVars>>

-----------------------------------------------------------------------------
(* Types *)

Window == [panes : SUBSET PaneIDs, active : PaneIDs, zoomed : PaneIDs \cup {None}, index : Nat]

WindowView == [focused : PaneIDs, zoomed : PaneIDs \cup {None}, history : Seq(PaneIDs)]

Lease == [session : Sessions, client : Clients, generation : Nat \ {0}]

\* ClientView as far as it matters here: the leased window and the panes placed
\* on the screen.
Told == [window : WindowIDs \cup {None}, generation : Nat, placed : SUBSET PaneIDs,
         close : BOOLEAN]

Command == [op : {"window", "split", "kill"}, session : Sessions,
            client : Clients \cup {None}, pane : PaneIDs]

ASSUME NoneIsNothing == None \notin Window \cup WindowView \cup Lease \cup Told \cup Command

\* Every registry holds what its Go type can hold.
TypeOK ==
    /\ members \subseteq Sessions
    /\ fresh \subseteq Sessions \ members
    /\ windows \in [WindowIDs -> Window \cup {None}]
    /\ views \in [Sessions -> [WindowIDs -> WindowView \cup {None}]]
    /\ active \in [Sessions -> WindowIDs \cup {None}]
    /\ previous \in [Sessions -> WindowIDs \cup {None}]
    /\ grouped \in [Sessions -> BOOLEAN]
    /\ nextWindow \in 1 .. MaxWindow + 1
    /\ nextPane \in 1 .. MaxPane + 1
    /\ client \in [Sessions -> Clients \cup {None}]
    /\ sessionOf \in [Clients -> Sessions \cup {None}]
    /\ windowLeases \in [WindowIDs -> Lease \cup {None}]
    /\ told \in [Clients -> Told \cup {None}]
    /\ dying \subseteq Sessions
    /\ pending \in Command \cup {None}
    /\ untold \subseteq Clients

-----------------------------------------------------------------------------
(* Windows, layouts and views *)

LiveWindows == {w \in WindowIDs : windows[w] # None}

LivePanes == UNION {windows[w].panes : w \in LiveWindows}

WindowOfPane(p) == CHOOSE w \in LiveWindows : p \in windows[w].panes

\* orderedWindowIDs: by display index.  Indexes are distinct (part of GraphIsConsistent).
Before(v, w) ==
    \/ windows[v].index < windows[w].index
    \/ windows[v].index = windows[w].index /\ v < w
FirstOf(S) == CHOOSE w \in S : \A v \in S \ {w} : Before(w, v)
orderedFirst == IF LiveWindows = {} THEN None ELSE FirstOf(LiveWindows)

lowestAvailableWindowDisplayIndex ==
    CHOOSE i \in 0 .. MaxWindow :
        /\ \A w \in LiveWindows : windows[w].index # i
        /\ \A j \in 0 .. i - 1 : \E w \in LiveWindows : windows[w].index = j

NewView(p) == [focused |-> p, zoomed |-> None, history |-> <<>>]

\* The entries of seq in S, in their order: SelectSeq with a set, as a recursive
\* function.
Among(seq, S) ==
    LET kept[n \in 0 .. Len(seq)] ==
            IF n = 0 THEN <<>>
            ELSE IF seq[n] \in S THEN Append(kept[n - 1], seq[n]) ELSE kept[n - 1]
    IN  kept[Len(seq)]

\* SessionWindowView.focusPane; a full history drops its oldest entry.
focusPane(view, p) ==
    LET rest == Among(view.history, PaneIDs \ {p})
        kept == IF Len(rest) = MaxVisiblePanes THEN Tail(rest) ELSE rest
    IN  IF view.focused = p THEN view
        ELSE [view EXCEPT !.focused = p, !.history = Append(kept, view.focused)]

\* SessionWindowView.removePane: the focus returns to the newest pane of the
\* history that is left in the layout.
removePane(view, left, p, fallback) ==
    LET kept == Among(view.history, left \ {p})
    IN  IF view.focused # p /\ view.focused \in left
          THEN [view EXCEPT !.history = kept]
        ELSE IF kept # <<>>
          THEN [focused |-> Last(kept), zoomed |-> view.zoomed, history |-> Front(kept)]
        ELSE [focused |-> fallback, zoomed |-> view.zoomed, history |-> <<>>]

\* The zoom a session sees in a window.
ZoomIn(s, w) ==
    IF ~grouped[s] /\ windows[w].zoomed # None THEN windows[w].zoomed ELSE views[s][w].zoomed

\* visibleWindowPlacementsForSession
Visible(s, w) ==
    IF ZoomIn(s, w) \in windows[w].panes THEN {ZoomIn(s, w)} ELSE windows[w].panes

\* projectionPlanNow falls back to the first window when none is active.
ProjectedWindow(s) == IF active[s] # None THEN active[s] ELSE orderedFirst

Shown(s) == Visible(s, ProjectedWindow(s))

-----------------------------------------------------------------------------
(* Leases and projections *)

LeasedBy(c) == {w \in WindowIDs : windowLeases[w] # None /\ windowLeases[w].client = c}

NextGeneration(lease) == IF lease = None THEN 1 ELSE lease.generation + 1

LeaseTo(s, c, g) == [session |-> s, client |-> c, generation |-> g]

Attached(s) == s \in members /\ client[s] # None

\* A client's instance still applies what it is told.
Hears(c) == told[c] # None /\ ~told[c].close

\* A client whose own commands reach its session.
Drives(c, s) == s \in members /\ client[s] = c /\ Hears(c)

NothingTold == [window |-> None, generation |-> 0, placed |-> {}, close |-> TRUE]

\* The full projection of session s for client c in the state being prepared.
FullView(c, s) ==
    LET w == ProjectedWindow(s)' IN
    IF w = None THEN NothingTold
    ELSE [window |-> w,
          generation |-> IF windowLeases'[w] # None /\ windowLeases'[w].client = c
                           THEN windowLeases'[w].generation ELSE 0,
          placed |-> Shown(s)', close |-> FALSE]

\* Mutated: nothing tells the other members of a group.
TellAll_OnlyCaller(S) == UNCHANGED toldVars

\* Each attached session of S has its client told its full view; one without an
\* active window has its client told to close.
TellAll(S) ==
    /\ untold' = (untold \cup {client[s] : s \in members}) \ ({client[s] : s \in S} \cup {None})
    /\ told' = [c \in Clients |->
         IF Hears(c) /\ \E s \in S : client[s] = c
           THEN CHOOSE v \in {[FullView(c, s) EXCEPT !.close = @ \/ active'[s] = None] :
                                  s \in {t \in S : client[t] = c}} : TRUE
           ELSE told[c]]

TellClient(c, s) ==
    /\ untold' = untold \ {c}
    /\ told' = [told EXCEPT ![c] = IF Hears(c) THEN FullView(c, s) ELSE @]

\* The attached clients of S are not told.
TellNobody(S) ==
    /\ untold' = untold \cup ({client[s] : s \in S} \ {None})
    /\ UNCHANGED told

-----------------------------------------------------------------------------
(* Init: the base session has one window of one pane *)

Init ==
    /\ members = {Base}
    /\ fresh = Sessions \ {Base}
    /\ windows = [w \in WindowIDs |->
                    IF w = 1 THEN [panes |-> {1}, active |-> 1, zoomed |-> None, index |-> 0]
                             ELSE None]
    /\ views = [s \in Sessions |-> [w \in WindowIDs |->
                    IF s = Base /\ w = 1 THEN NewView(1) ELSE None]]
    /\ active = [s \in Sessions |-> IF s = Base THEN 1 ELSE None]
    /\ previous = [s \in Sessions |-> None]
    /\ grouped = [s \in Sessions |-> FALSE]
    /\ nextWindow = 2
    /\ nextPane = 2
    /\ client = [s \in Sessions |-> None]
    /\ sessionOf = [c \in Clients |-> None]
    /\ windowLeases = [w \in WindowIDs |-> None]
    /\ told = [c \in Clients |-> None]
    /\ dying = {}
    /\ pending = None
    /\ untold = {}

-----------------------------------------------------------------------------
(* Members of the group *)

nextID(m) == fresh \ {m}

\* new-session -d -t base -s m: the mirror links every window, with a fresh view
\* of each.
groupSessions(base, m) ==
    /\ base \in members
    /\ m \in fresh
    /\ fresh' = nextID(m)
    /\ members' = members \cup {m}
    /\ grouped' = [s \in Sessions |-> s \in members' \/ grouped[s]]
    /\ views' = [views EXCEPT ![m] = [w \in WindowIDs |->
                    IF w \in LiveWindows THEN NewView(windows[w].active) ELSE None]]
    /\ active' = [active EXCEPT ![m] = active[base]]
    /\ previous' = [previous EXCEPT ![m] = IF active[base] = None THEN @ ELSE previous[base]]
    /\ UNCHANGED <<dying, idVars, clientVars, pending, windows, windowLeases, toldVars>>

\* Daemon.removeSession, as far as leases go.
removeSession(s) ==
    windowLeases' = [w \in WindowIDs |->
        IF windowLeases[w] # None /\ windowLeases[w].session = s THEN None ELSE windowLeases[w]]

\* shutdownSessionInActor.  The session's own state goes with it.  The last member
\* takes the windows too: its panes are terminated and no later exit finds their
\* group.
shutdownSession(s) ==
    /\ s \in members
    /\ dying' = dying \ {s}
    /\ members' = members \ {s}
    /\ grouped' = [t \in Sessions |-> IF t \in members' THEN Cardinality(members') > 1 ELSE FALSE]
    /\ removeSession(s)
    /\ client' = [client EXCEPT ![s] = None]
    /\ told' = [c \in Clients |->
            IF client[s] = c /\ Hears(c) THEN [told[c] EXCEPT !.close = TRUE] ELSE told[c]]
    /\ windows' = IF members' = {} THEN [w \in WindowIDs |-> None] ELSE windows
    /\ views' = [views EXCEPT ![s] = [w \in WindowIDs |-> None]]
    /\ active' = [active EXCEPT ![s] = None]
    /\ previous' = [previous EXCEPT ![s] = None]
    /\ UNCHANGED <<fresh, idVars, sessionOf, pending, untold>>

-----------------------------------------------------------------------------
(* Clients *)

\* prepareAttachedClientViewInActor for a client that is promoted or switched to
\* s.  A window another client views refuses it (the controller it may leave
\* behind is ClientLifecycle's).
attach(c, s) ==
    LET w == ProjectedWindow(s)
        current == windowLeases[w]
    IN  /\ s \in members /\ client[s] = None
        /\ told[c] = None
        /\ w # None
        /\ current # None => current.client = c
        /\ \E old \in IF LeasedBy(c) = {} THEN {None} ELSE LeasedBy(c) :
              windowLeases' = [v \in WindowIDs |->
                IF v = w THEN LeaseTo(s, c, IF current = None THEN 1
                                            ELSE IF old = w THEN current.generation
                                            ELSE NextGeneration(current))
                ELSE IF v = old THEN None ELSE windowLeases[v]]
        /\ client' = [client EXCEPT ![s] = c]
        /\ sessionOf' = [sessionOf EXCEPT ![c] = s]
        /\ untold' = untold \ {c}
        /\ UNCHANGED <<sessionVars, idVars, pending, graphVars>>
        /\ told' = [told EXCEPT ![c] = FullView(c, s)]

\* detachClientInstance and releaseWindowView: the instance gives back the lease
\* it was told of.
detach(c) ==
    LET w == told[c].window IN
    /\ told[c] # None
    /\ client' = [s \in Sessions |-> IF client[s] = c THEN None ELSE client[s]]
    /\ windowLeases' = [v \in WindowIDs |->
            IF v = w /\ windowLeases[v] # None /\ windowLeases[v].client = c
                     /\ windowLeases[v].generation = told[c].generation
              THEN None ELSE windowLeases[v]]
    /\ told' = [told EXCEPT ![c] = None]
    /\ untold' = untold \ {c}
    /\ UNCHANGED <<sessionVars, sessionOf, idVars, pending, graphVars>>

\* Acquire the target, then release the source.
selectLeases(c, s, w, old) ==
    windowLeases' = [v \in WindowIDs |->
        IF v = w
          THEN LeaseTo(s, c, IF ProjectedWindow(s) = w /\ windowLeases[w] # None
                               THEN windowLeases[w].generation
                               ELSE NextGeneration(windowLeases[w]))
        ELSE IF v = old THEN None ELSE windowLeases[v]]

\* Daemon.selectWindow by an attached client; also next, previous and last window.
selectWindow(c, s, w) ==
    LET source == ProjectedWindow(s)
        current == windowLeases[w]
        view == views[s][w]
    IN  /\ Drives(c, s)
        /\ w \in LiveWindows
        /\ current # None => current.client = c
        /\ \E old \in LeasedBy(c) : selectLeases(c, s, w, old)
        /\ previous' = [previous EXCEPT ![s] = IF source = w THEN @ ELSE source]
        /\ active' = [active EXCEPT ![s] = w]
        /\ views' = [views EXCEPT ![s][w].focused =
                IF view.focused \in windows[w].panes THEN @ ELSE windows[w].active]
        /\ UNCHANGED <<sessionVars, idVars, clientVars, pending, windows>>
        /\ TellClient(c, s)

-----------------------------------------------------------------------------
(* Starting a pane process: the first transaction names the session and asks  *)
(* whether a client is attached; the second creates the window or the split  *)

\* createCommandWindow and splitCommandWindow up to startPaneProcess.
beginStart(op, s) ==
    LET w == active[s] IN
    /\ s \in members
    /\ pending = None
    /\ nextPane <= MaxPane
    /\ op = "split" =>
          /\ w # None
          /\ client[s] # None => Cardinality(windows[w].panes) < MaxVisiblePanes
    /\ pending' = [op |-> op, session |-> s, client |-> client[s], pane |-> nextPane]
    /\ nextPane' = nextPane + 1
    /\ UNCHANGED <<sessionVars, nextWindow, clientVars, graphVars, windowLeases, toldVars>>

\* Mutated: the window is linked into the session that asked, not into its peers.
LinkedIn_CallerOnly(s) == {s}

\* addWindowToGroupNow: the members the new window is linked into.
LinkedIn(s) == members

\* createWindowNow with addWindowToGroupNow: every member links the window, the
\* session that asked makes it active.
createWindowNow(s, p) ==
    LET w == nextWindow IN
    /\ windows' = [windows EXCEPT ![w] =
            [panes |-> {p}, active |-> p, zoomed |-> None,
             index |-> lowestAvailableWindowDisplayIndex]]
    /\ views' = [m \in Sessions |->
            IF m \in LinkedIn(s) THEN [views[m] EXCEPT ![w] = NewView(p)] ELSE views[m]]
    /\ previous' = [previous EXCEPT ![s] = active[s]]
    /\ active' = [active EXCEPT ![s] = w]
    /\ nextWindow' = w + 1

\* The lease of the session's client moves to the new window.
activateCreatedWindowNow(s) ==
    IF client[s] = None THEN UNCHANGED windowLeases
    ELSE \E old \in IF LeasedBy(client[s]) = {} THEN {None} ELSE LeasedBy(client[s]) :
            windowLeases' = [v \in WindowIDs |->
                IF v = nextWindow THEN LeaseTo(s, client[s], 1)
                ELSE IF v = old THEN None ELSE windowLeases[v]]

CanCreateWindow(s) == s \in members /\ nextWindow <= MaxWindow

\* createClientWindow: in the session the client is in by now, unless another
\* client controls it.
createClientWindow(c, s) ==
    /\ pending # None /\ pending.op = "window" /\ pending.client = c
    /\ sessionOf[c] = s
    /\ CanCreateWindow(s)
    /\ client[s] \in {c, None}
    /\ createWindowNow(s, pending.pane)
    /\ activateCreatedWindowNow(s)
    /\ pending' = None
    /\ UNCHANGED <<sessionVars, nextPane, clientVars>>
    /\ IF client[s] = c THEN TellClient(c, s) ELSE UNCHANGED toldVars

\* startSessionWindowID: the session was detached when the command looked.
createSessionWindow ==
    LET s == pending.session IN
    /\ pending # None /\ pending.op = "window" /\ pending.client = None
    /\ CanCreateWindow(s)
    /\ createWindowNow(s, pending.pane)
    /\ activateCreatedWindowNow(s)
    /\ pending' = None
    /\ UNCHANGED <<sessionVars, nextPane, clientVars>>
    /\ TellNobody({s})

CanSplit(s) ==
    LET w == active[s] IN
    /\ s \in members /\ w # None
    /\ Cardinality(windows[w].panes) < MaxVisiblePanes

\* splitFocusedPaneNow with addPaneToWindowGroupNow
splitFocusedPaneNow(s, p) ==
    LET w == active[s]
        view == views[s][w]
    IN  /\ windows' = [windows EXCEPT ![w] =
              [panes |-> @.panes \cup {p}, active |-> p, zoomed |-> None, index |-> @.index]]
        /\ views' = [views EXCEPT ![s][w] = focusPane([view EXCEPT !.zoomed = None], p)]
        /\ UNCHANGED <<active, previous>>

\* splitClientPane: only while the client controls its session.
splitClientPane(c, s) ==
    /\ pending # None /\ pending.op = "split" /\ pending.client = c
    /\ client[s] = c
    /\ CanSplit(s)
    /\ splitFocusedPaneNow(s, pending.pane)
    /\ pending' = None
    /\ UNCHANGED <<sessionVars, idVars, clientVars, windowLeases>>
    /\ TellClient(c, s)

\* startSessionSplitID: nobody is told.
splitSessionPane ==
    LET s == pending.session IN
    /\ pending # None /\ pending.op = "split" /\ pending.client = None
    /\ CanSplit(s)
    /\ splitFocusedPaneNow(s, pending.pane)
    /\ pending' = None
    /\ UNCHANGED <<sessionVars, idVars, clientVars, windowLeases>>
    /\ TellNobody({t \in members : ProjectedWindow(t) = active[s]})

\* The process does not start, or the second transaction refuses: the pane is
\* terminated.
startFails ==
    /\ pending # None /\ pending.op # "kill"
    /\ pending' = None
    /\ UNCHANGED <<sessionVars, idVars, clientVars, graphVars, windowLeases, toldVars>>

-----------------------------------------------------------------------------
(* Focus, zoom and arrangement of the active window, by its client *)

\* Focusing another pane than the zoomed one ends the zoom.
unzoomFor(s, w, p) == ZoomIn(s, w) # None /\ views[s][w].zoomed # p

\* The window's own zoom mirrors the view's unless the session is grouped.
WithZoom(s, window, z) == IF grouped[s] THEN window ELSE [window EXCEPT !.zoomed = z]

\* focusClientPane.  Whether the new view is told as a whole or as a change of
\* focus hangs on the window's revision, which is WindowLayout's.
focusClientPane(c, s, p) ==
    LET w == active[s]
        view == views[s][w]
        unzoom == unzoomFor(s, w, p)
    IN  /\ Drives(c, s)
        /\ w # None
        /\ p \in windows[w].panes
        /\ windows' = [windows EXCEPT ![w] =
              LET zoomless == IF unzoom THEN WithZoom(s, @, None) ELSE @
              IN  IF grouped[s] THEN zoomless ELSE [zoomless EXCEPT !.active = p]]
        /\ views' = [views EXCEPT ![s][w] =
              focusPane(IF unzoom THEN [view EXCEPT !.zoomed = None] ELSE view, p)]
        /\ UNCHANGED <<active, previous>>
        /\ UNCHANGED <<sessionVars, idVars, clientVars, pending, windowLeases>>
        /\ TellClient(c, s)

\* A window of several panes is zoomed on its focused pane, or no longer.
toggleClientZoom(c, s) ==
    LET w == active[s]
        z == IF ZoomIn(s, w) # None THEN None ELSE views[s][w].focused
    IN  /\ Drives(c, s)
        /\ w # None
        /\ Cardinality(windows[w].panes) > 1
        /\ windows' = [windows EXCEPT ![w] = WithZoom(s, @, z)]
        /\ views' = [views EXCEPT ![s][w].zoomed = z]
        /\ UNCHANGED <<active, previous>>
        /\ UNCHANGED <<sessionVars, idVars, clientVars, pending, windowLeases>>
        /\ TellClient(c, s)

\* The session's own zoom ends with the window's; the other members keep theirs.
clearGroupWindowZoomNow(s, w) ==
    /\ windows' = [windows EXCEPT ![w].zoomed = None]
    /\ views' = [views EXCEPT ![s][w].zoomed = None]

\* cycleWindowLayoutNow, resizeFocusedPaneNow and swapFocusedPaneNow: another tree
\* of the same panes, and no zoom.
rearrangeWindow(c, s) ==
    LET w == active[s] IN
    /\ Drives(c, s)
    /\ w # None
    /\ Cardinality(windows[w].panes) > 1
    /\ clearGroupWindowZoomNow(s, w)
    /\ UNCHANGED <<active, previous>>
    /\ UNCHANGED <<sessionVars, idVars, clientVars, pending, windowLeases>>
    /\ TellClient(c, s)

-----------------------------------------------------------------------------
(* Removing panes and windows *)

\* The windows a client may be given: no other client views them.
Viewable(leases, c) ==
    {w \in DOMAIN leases : c = None \/ leases[w] = None \/ leases[w].client = c}

\* Mutated: only the previous window is tried.
Replacement_PreviousOnly(left, wasPrevious, viewable) ==
    IF wasPrevious \in left \cap viewable THEN wasPrevious ELSE None

\* The previous window when it may be viewed, else the first that may.
Replacement(left, wasPrevious, viewable) ==
    IF wasPrevious \in left \cap viewable THEN wasPrevious
    ELSE IF left \cap viewable = {} THEN None ELSE FirstOf(left \cap viewable)

\* One turn of removeGroupWindowNow's loop over the members; w has gone, left
\* are the windows that stay.  m is the member, r what was decided so far.
\* A member without a replacement keeps the removed window as its previous one.
FallBack(w, left, m, r) ==
    LET wasPrevious == r.previous[m]
        new == Replacement(left, wasPrevious, Viewable(r.leases, client[m]))
        forgotten == [r EXCEPT !.previous[m] = IF @ = w THEN None ELSE @]
    IN  IF r.active[m] \in left THEN forgotten
        ELSE IF left = {} THEN [r EXCEPT !.active[m] = None, !.previous[m] = None]
        ELSE IF new = None THEN [r EXCEPT !.active[m] = None, !.previous[m] = w]
        ELSE [r EXCEPT !.active[m] = new, !.previous[m] = None,
                       !.leases[new] = IF client[m] = None THEN @
                                       ELSE LeaseTo(m, client[m], NextGeneration(@))]

\* removeGroupWindowNow's loop: what is decided after each turn.
Turns(w, left, start, order) ==
    LET turn[n \in 0 .. Len(order)] ==
            IF n = 0 THEN start ELSE FallBack(w, left, order[n], turn[n - 1])
    IN  turn

\* removeGroupWindowNow; Go ranges over the members in any order.
removeGroupWindowNow(w) ==
    LET start == [active |-> active, previous |-> previous,
                  leases |-> [windowLeases EXCEPT ![w] = None]]
    IN  \E order \in SetToSeqs(members) :
          LET end == Turns(w, LiveWindows \ {w}, start, order)[Len(order)] IN
          /\ active' = end.active
          /\ previous' = end.previous
          /\ windowLeases' = end.leases
          /\ windows' = [windows EXCEPT ![w] = None]
          /\ views' = [m \in Sessions |-> [views[m] EXCEPT ![w] = None]]

\* A member's view of a window that loses pane p.
ViewWithout(view, left, p, fallback) ==
    removePane([view EXCEPT !.zoomed = IF Cardinality(left) <= 1 \/ @ = p THEN None ELSE @],
               left, p, fallback)

\* removeGroupPaneNow: the last pane of a window takes the window with it.
removeGroupPaneNow(p) ==
    LET w == WindowOfPane(p)
        left == windows[w].panes \ {p}
    IN  IF left = {}
          THEN removeGroupWindowNow(w)
          ELSE \E fallback \in left :
                 /\ windows' = [windows EXCEPT ![w] =
                      [panes |-> left, active |-> fallback, index |-> @.index,
                       zoomed |-> IF Cardinality(left) <= 1 \/ @.zoomed = p THEN None ELSE @.zoomed]]
                 /\ views' = [m \in Sessions |->
                      IF m \in members
                        THEN [views[m] EXCEPT ![w] = ViewWithout(@, left, p, fallback)]
                        ELSE views[m]]
                 /\ UNCHANGED <<active, previous, windowLeases>>

\* Members whose last window has gone are shut down afterwards.
Windowless == IF LiveWindows' = {} THEN members ELSE {}

\* applyPaneExit: the child process ended.
applyPaneExit(p) ==
    /\ p \in LivePanes /\ members # {}
    /\ removeGroupPaneNow(p)
    /\ dying' = dying \cup Windowless
    /\ UNCHANGED <<members, fresh, grouped, idVars, clientVars, pending>>
    /\ TellAll(members)

\* killCommandPaneNow and closeCommandPane up to the second transaction.
beginKill(s, p) ==
    /\ s \in members
    /\ pending = None
    /\ p \in LivePanes \cap KillPanes
    /\ pending' = [op |-> "kill", session |-> s, client |-> client[s], pane |-> p]
    /\ UNCHANGED <<sessionVars, idVars, clientVars, graphVars, windowLeases, toldVars>>

\* A session left without an active window is shut down.
Ended(s) == IF active'[s] = None THEN {s} ELSE {}

\* removeClientPane: the caller's own view closes with its session, its peers
\* are told theirs.
removeClientPane(c, s) ==
    /\ pending # None /\ pending.op = "kill" /\ pending.client = c
    /\ s \in members /\ client[s] = c
    /\ pending.pane \in LivePanes
    /\ removeGroupPaneNow(pending.pane)
    /\ dying' = dying \cup Windowless \cup Ended(s)
    /\ pending' = None
    /\ UNCHANGED <<members, fresh, grouped, idVars, clientVars>>
    /\ TellAll(members)

\* killCommandPaneNow of a session that was detached: only its peers are told.
removeSessionPane ==
    LET s == pending.session IN
    /\ pending # None /\ pending.op = "kill" /\ pending.client = None
    /\ s \in members
    /\ pending.pane \in LivePanes
    /\ removeGroupPaneNow(pending.pane)
    /\ dying' = dying \cup (Windowless \ {s}) \cup Ended(s)
    /\ pending' = None
    /\ UNCHANGED <<members, fresh, grouped, idVars, clientVars>>
    /\ TellAll(members \ {s})

\* The pane, the client or the session has gone in between.
killFails ==
    /\ pending # None /\ pending.op = "kill"
    /\ \/ pending.pane \notin LivePanes
       \/ pending.client = None /\ pending.session \notin members
       \/ pending.client # None /\ ~\E s \in members : client[s] = pending.client
    /\ pending' = None
    /\ UNCHANGED <<sessionVars, idVars, clientVars, graphVars, windowLeases, toldVars>>

-----------------------------------------------------------------------------

Next ==
    \/ \E base, m \in Sessions : groupSessions(base, m)
    \/ \E s \in Sessions : shutdownSession(s)
    \/ \E c \in Clients :
          \/ detach(c)
          \/ \E s \in Sessions :
                \/ attach(c, s)
                \/ \E w \in WindowIDs : selectWindow(c, s, w)
                \/ \E p \in PaneIDs : focusClientPane(c, s, p)
                \/ toggleClientZoom(c, s)
                \/ rearrangeWindow(c, s)
                \/ createClientWindow(c, s)
                \/ splitClientPane(c, s)
                \/ removeClientPane(c, s)
    \/ \E s \in Sessions, op \in {"window", "split"} : beginStart(op, s)
    \/ createSessionWindow
    \/ splitSessionPane
    \/ startFails
    \/ \E p \in PaneIDs : applyPaneExit(p)
    \/ \E s \in Sessions, p \in PaneIDs : beginKill(s, p)
    \/ removeSessionPane
    \/ killFails

Spec == Init /\ [][Next]_vars

-----------------------------------------------------------------------------
(* Properties *)

\* The members of a group see one graph: every window has a view in every member
\* and in nobody else, a pane is in one place of one window, and a window never
\* grows beyond the render slots.
GraphIsConsistent ==
    /\ \A s \in Sessions, w \in WindowIDs :
          views[s][w] # None <=> s \in members /\ w \in LiveWindows
    /\ \A w \in LiveWindows :
          /\ windows[w].panes # {} /\ Cardinality(windows[w].panes) <= MaxVisiblePanes
          /\ \A v \in LiveWindows \ {w} :
                /\ windows[v].panes \cap windows[w].panes = {}
                /\ windows[v].index # windows[w].index

\* Whatever is split, swapped or removed by any member, every session's focus,
\* zoom and focus history name panes the window still has, the history without
\* repetition and without the focus, and so never full.
FocusFollowsLayout ==
    \A s \in members, w \in LiveWindows :
        LET view == views[s][w] IN
        /\ windows[w].active \in windows[w].panes
        /\ windows[w].zoomed \in windows[w].panes \cup {None}
        /\ view.focused \in windows[w].panes
        /\ view.zoomed \in windows[w].panes \cup {None}
        /\ ToSet(view.history) \subseteq windows[w].panes \ {view.focused}
        /\ IsInjective(view.history)

\* After every command of any member, the group's windows, the views of each member and
\* the focus in them agree.
GroupSeesOneGraph ==
    /\ TypeOK
    /\ GraphIsConsistent
    /\ FocusFollowsLayout

\* A client that was told of every change shows its session's active window, on
\* the lease the daemon holds for it, and no pane that has gone; so no other
\* client shows that window.
ClientShowsItsLease ==
    \A s \in members :
        LET c == client[s] IN
        c # None /\ Hears(c) /\ c \notin untold /\ active[s] # None =>
            /\ told[c].window = active[s]
            /\ windowLeases[active[s]] = LeaseTo(s, c, told[c].generation)
            /\ told[c].placed \subseteq windows[active[s]].panes

\* ARCHITECTURE.md: each attached client owns one WindowViewLease.
OneLeasePerClient ==
    \A s \in members : client[s] # None => Cardinality(LeasedBy(client[s])) <= 1

\* A window is viewed by at most one attached client at a time.
OneViewerPerWindow ==
    \A c, d \in Clients :
        c # d /\ Hears(c) /\ Hears(d) => told[c].window # told[d].window

\* A session whose active window is removed is left without one only when another
\* client views each of the windows that stay.
FallbackIsFound ==
    [][\A s \in members \cap members' :
          active[s] # None /\ active'[s] = None =>
              \A w \in LiveWindows' :
                  windowLeases'[w] # None /\ windowLeases'[w].client # client[s]]_vars

\* Whoever removes a group's last window, every member is on its way to its
\* shutdown from then on.
LastWindowEndsSessions ==
    [][LiveWindows # {} /\ LiveWindows' = {} => members' \subseteq dying']_vars

\* The removal of a window leaves each member with another one or on its way out.
RemovalLeavesNobodyStranded == FallbackIsFound /\ LastWindowEndsSessions
=============================================================================
