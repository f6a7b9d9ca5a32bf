----------------------------- MODULE PaneOutput -----------------------------
(***************************************************************************)
(* Pane actors, output leases and their confirmers, and the instances that  *)
(* hand leases from pane to pane.                                           *)
(*                                                                         *)
(* A connection has one output lease per render slot.  An instance that     *)
(* applies a view transition has the panes of its old view return their     *)
(* leases and installs a lease, a layout revision and a grid on each pane   *)
(* of the new view.  A pane publishes its damage through the lease it has:  *)
(* it fills one of its two buffers and hands it to the confirmer of the     *)
(* lease, which checks the version chain, compiles the frame, returns the   *)
(* buffer and writes the frame to the stream of the slot.                   *)
(*                                                                         *)
(* A grid is a function from rows to contents, and its size the number of   *)
(* panes that share the window.  The cursor, styles and scrolling stay out. *)
(***************************************************************************)
EXTENDS Naturals, Sequences, FiniteSets

CONSTANTS
    Panes,        \* pane actors
    Conns,        \* client instances, one per transport
    Rows,         \* rows of a grid
    Views,        \* the views the daemon projects: sequences of panes, one per slot
    SessionOf,    \* the session of each connection; sessions may share windows
    Budgets,      \* bounds: how often each thing from outside may happen
    None          \* nil

Slots == 1 .. Cardinality(Panes)
Leases == Conns \X Slots

ASSUME FinitelyMany == IsFiniteSet(Panes) /\ IsFiniteSet(Conns)
ASSUME NoneIsNoID == None \notin Panes \cup Conns \cup Leases
ASSUME ViewsAssumption ==
    \A v \in Views : /\ v \in Seq(Panes) /\ v # <<>> /\ Len(v) \in Slots
                     /\ \A i, j \in DOMAIN v : v[i] = v[j] => i = j

\* What comes from outside: clients attach, the daemon projects, transports fail,
\* processes write and end, users look at the history.
Happenings == {"attach", "project", "loss", "drain", "stop", "history"}
ASSUME BudgetsAssumption == Budgets \subseteq [Happenings -> Nat]

VARIABLES
    \* the daemon: its projections in the order of their revisions
    issued,
    \* ClientInstance: its goroutine, transitions it has yet to apply, the
    \* revision of currentView and of the plan it installs, and the hand-off:
    \* slots to bind, slots still pending, releases unanswered, leases returned
    instance, due, current, applying, todo, still, owed, returned,
    \* conn.Context().Done()
    closed,
    \* Pane: whether it was stopped or has ended, its commands, its terminal,
    \* its view mode, its drain in progress
    stage, commands, size, text, history, draining,
    \* Pane.outputLease and panePublicationState
    lease, revision, epoch, version, snapshot, damage, pending, free,
    \* OutputLease: the worker, ready, failed, terminalError, the confirmer's
    \* base, the record it writes
    worker, ready, failed, broken, base, record,
    \* the frontend: what the decoder of a slot has painted
    screen,
    \* what may still happen
    budget,
    \* history: leases that a stopped pane has published through, or has answered a
    \* release with, after another pane had received them
    intruded

handoffVars == <<applying, todo, still, owed, returned>>
instanceVars == <<instance, due, current, handoffVars>>
terminalVars == <<size, text, history, draining>>
publicationVars == <<lease, revision, epoch, version, snapshot, damage, pending, free>>
workerVars == <<worker, ready, failed, broken, base, record>>
vars == <<budget, issued, instanceVars, closed, stage, commands, terminalVars, publicationVars,
          workerVars, screen, intruded>>

-----------------------------------------------------------------------------
publicationBufferCount == 2

\* The live contents of a row, and what the history shows in its place.
ScrolledBack == 2
Contents == {0, 1, ScrolledBack}
Grid == [Rows -> Contents]

\* What a pane hands to a confirmer: the rows that changed, or all.
Publications ==
    [pane : Panes, epoch : Nat, keyframe : BOOLEAN, barrier : BOOLEAN, base : Nat, target : Nat,
     revision : Nat, size : Slots, rows : UNION {[some -> Contents] : some \in SUBSET Rows}]
ASSUME NoneIsNothing == None \notin Publications \cup Grid

NoDamage == [keyframe |-> FALSE, barrier |-> FALSE, rows |-> {}]
NoBase == [epoch |-> 0, version |-> 0]
NoScreen == [revision |-> 0, size |-> 0, rows |-> [r \in Rows |-> 0]]

Init ==
    /\ issued = <<>>
    /\ instance = [c \in Conns |-> "admitted"]
    /\ due = [c \in Conns |-> {}]
    /\ current = [c \in Conns |-> 0]
    /\ applying = [c \in Conns |-> 0]
    /\ todo = [c \in Conns |-> {}]
    /\ still = [c \in Conns |-> {}]
    /\ owed = [c \in Conns |-> 0]
    /\ returned = [c \in Conns |-> <<>>]
    /\ closed = [c \in Conns |-> FALSE]
    /\ stage = [p \in Panes |-> "running"]
    /\ commands = [p \in Panes |-> <<>>]
    /\ size = [p \in Panes |-> 1]
    /\ text = [p \in Panes |-> [r \in Rows |-> 0]]
    /\ history = [p \in Panes |-> FALSE]
    /\ draining = [p \in Panes |-> "no"]
    /\ budget \in Budgets
    /\ lease = [p \in Panes |-> None]
    /\ revision = [p \in Panes |-> 0]
    /\ epoch = [p \in Panes |-> 1]
    /\ version = [p \in Panes |-> 0]
    /\ snapshot = [p \in Panes |-> None]
    /\ damage = [p \in Panes |-> NoDamage]
    /\ pending = [p \in Panes |-> None]
    /\ free = [p \in Panes |-> publicationBufferCount]
    /\ worker = [l \in Leases |-> "unstarted"]
    /\ ready = [l \in Leases |-> <<>>]
    /\ failed = [l \in Leases |-> FALSE]
    /\ broken = [l \in Leases |-> FALSE]
    /\ base = [l \in Leases |-> NoBase]
    /\ record = [l \in Leases |-> None]
    /\ screen = [l \in Leases |-> NoScreen]
    /\ intruded = {}

-----------------------------------------------------------------------------
(* The daemon                                                               *)

\* Something from outside happens, as often as the budget allows.
Spend(what) == budget[what] > 0 /\ budget' = [budget EXCEPT ![what] = @ - 1]

Attached(c) == instance[c] \in {"serving", "binding"}

ViewAt(r) == IF r = 0 THEN <<>> ELSE issued[r].panes
SlotsOf(r) == DOMAIN ViewAt(r)

\* The view the daemon has granted c last.
Granted(c) ==
    LET mine == {r \in DOMAIN issued : issued[r].conn = c}
    IN  IF mine = {} THEN <<>> ELSE ViewAt(CHOOSE r \in mine : \A q \in mine : q <= r)

PanesOf(view) == {view[i] : i \in DOMAIN view}

\* A window is leased to one client at a time.
Grantable(c, view) ==
    \A d \in Conns \ {c} : Attached(d) => PanesOf(view) \cap PanesOf(Granted(d)) = {}

\* A projection allocates the next layout revision.
Project(c, view) ==
    /\ issued' = Append(issued, [conn |-> c, panes |-> view])
    /\ due' = [due EXCEPT ![c] = @ \cup {Len(issued) + 1}]

\* initializeClient promotes c once the session's active connection is gone from
\* the registry; its instance may not have released its panes yet.
initializeClient(c, view) ==
    /\ instance[c] = "admitted"
    /\ \A d \in Conns : SessionOf[d] = SessionOf[c] => ~Attached(d)
    /\ Grantable(c, view)
    /\ Spend("attach")
    /\ Project(c, view)
    /\ instance' = [instance EXCEPT ![c] = "serving"]
    /\ UNCHANGED <<current, handoffVars, closed, stage, commands, terminalVars,
                   publicationVars, workerVars, screen, intruded>>

\* A command, a layout change, a resize or the removal of a pane projects another
\* view, or the same again.  A pane may be gone before the daemon knows.
prepareViewTransition(c, view) ==
    /\ Attached(c)
    /\ Grantable(c, view)
    /\ Spend("project")
    /\ Project(c, view)
    /\ UNCHANGED <<instance, current, handoffVars, closed, stage, commands,
                   terminalVars, publicationVars, workerVars, screen, intruded>>

\* terminatePane closes p.done; the pane's loop has yet to see it.
stopPane(p) ==
    /\ stage[p] = "running"
    /\ Spend("stop")
    /\ stage' = [stage EXCEPT ![p] = "stopping"]
    /\ UNCHANGED <<issued, instanceVars, closed, commands, terminalVars, publicationVars,
                   workerVars, screen, intruded>>

-----------------------------------------------------------------------------
(* The client instance                                                      *)

\* A pane takes commands until it has ended, and once p.done is closed a sender
\* may as well give up.
Send(p, command) ==
    \/ /\ stage[p] # "exited"
       /\ commands' = [commands EXCEPT ![p] = Append(@, command)]
    \/ /\ stage[p] # "running"
       /\ UNCHANGED commands

\* sendRenderCommand waits for the answer of a pane that was not stopped.
Idle(c) ==
    \A p \in Panes : stage[p] = "running" =>
        \A i \in DOMAIN commands[p] :
            commands[p][i].type \in {"install", "detach"} => commands[p][i].conn # c

\* beginOutputHandoff has the panes of the old view return their leases; those
\* that are gone answer at once.
beginOutputHandoff(c) ==
    LET old == PanesOf(ViewAt(current[c])) IN
    \E told \in SUBSET {p \in old : stage[p] # "exited"} :
        /\ {p \in old : stage[p] = "running"} \subseteq told
        /\ commands' = [p \in Panes |->
              IF p \in told THEN Append(commands[p], [type |-> "release", conn |-> c])
                            ELSE commands[p]]
        /\ owed' = [owed EXCEPT ![c] = Cardinality(told)]
        /\ still' = [still EXCEPT ![c] = SlotsOf(current[c])]

\* Mutated: every slot is bound without waiting for its lease.
FreshSlots_All(c, r) == SlotsOf(r)

\* Slots the old view did not use need no hand-off.
FreshSlots(c, r) == SlotsOf(r) \ SlotsOf(current[c])

\* applyViewTransition drops a stale projection.
applyViewTransition(c) ==
    /\ instance[c] = "serving"
    /\ \E r \in due[c] :
          /\ due' = [due EXCEPT ![c] = @ \ {r}]
          /\ IF r <= current[c]
               THEN UNCHANGED <<instance, handoffVars, commands>>
               ELSE /\ beginOutputHandoff(c)
                    /\ todo' = [todo EXCEPT ![c] = FreshSlots(c, r)]
                    /\ applying' = [applying EXCEPT ![c] = r]
                    /\ instance' = [instance EXCEPT ![c] = "binding"]
                    /\ UNCHANGED returned
    /\ UNCHANGED <<budget, issued, current, closed, stage, terminalVars, publicationVars, workerVars,
                   screen, intruded>>

\* finishOutputHandoff binds the slots at hand, then waits for leases.
installOutputLease(c, s) ==
    /\ instance[c] = "binding" /\ Idle(c)
    /\ s \in todo[c]
    /\ Send(ViewAt(applying[c])[s],
            [type |-> "install", conn |-> c, slot |-> s, revision |-> applying[c],
             size |-> Len(ViewAt(applying[c]))])
    /\ todo' = [todo EXCEPT ![c] = @ \ {s}]
    /\ UNCHANGED <<budget, issued, instance, due, current, applying, still, owed, returned, closed,
                   stage, terminalVars, publicationVars, workerVars, screen, intruded>>

AwaitsLeases(c) == instance[c] = "binding" /\ Idle(c) /\ todo[c] = {}

receiveReleased(c) ==
    /\ AwaitsLeases(c)
    /\ returned[c] # <<>>
    /\ LET s == Head(returned[c])
       IN  /\ still' = [still EXCEPT ![c] = @ \ {s}]
           /\ todo' = [todo EXCEPT ![c] = {s} \cap SlotsOf(applying[c])]
    /\ returned' = [returned EXCEPT ![c] = Tail(@)]
    /\ UNCHANGED <<budget, issued, instance, due, current, applying, owed, closed, commands, stage,
                   terminalVars, publicationVars, workerVars, screen, intruded>>

\* Panes that had no lease, or are gone, leave their slots to be bound last.
UnreturnedSlots(c) == still[c] \cap SlotsOf(applying[c])

bindStillPending(c) ==
    /\ AwaitsLeases(c)
    /\ returned[c] = <<>> /\ owed[c] = 0 /\ still[c] # {}
    /\ todo' = [todo EXCEPT ![c] = UnreturnedSlots(c)]
    /\ still' = [still EXCEPT ![c] = {}]
    /\ UNCHANGED <<budget, issued, instance, due, current, applying, owed, returned, closed, commands,
                   stage, terminalVars, publicationVars, workerVars, screen, intruded>>

\* The layout is queued for the frontend, and the view is the current one.
installClientView(c) ==
    /\ AwaitsLeases(c)
    /\ returned[c] = <<>> /\ owed[c] = 0 /\ still[c] = {}
    /\ current' = [current EXCEPT ![c] = applying[c]]
    /\ applying' = [applying EXCEPT ![c] = 0]
    /\ instance' = [instance EXCEPT ![c] = "serving"]
    /\ UNCHANGED <<budget, issued, due, todo, still, owed, returned, closed, commands, stage,
                   terminalVars, publicationVars, workerVars, screen, intruded>>

transportLost(c) ==
    /\ Attached(c)
    /\ ~closed[c]
    /\ Spend("loss")
    /\ closed' = [closed EXCEPT ![c] = TRUE]
    /\ UNCHANGED <<issued, instanceVars, commands, stage, terminalVars, publicationVars,
                   workerVars, screen, intruded>>

\* Mutated: the instance leaves its leases with the panes.
HeldSlots_Left(c) == {}

\* The slots of the panes an instance leaves behind.
HeldSlots(c) == SlotsOf(current[c])

\* The serve loop ends: the transport is closed and the daemon forgets the
\* connection.
detachClientInstance(c) ==
    /\ instance[c] = "serving"
    /\ instance' = [instance EXCEPT ![c] = "detaching"]
    /\ closed' = [closed EXCEPT ![c] = TRUE]
    /\ due' = [due EXCEPT ![c] = {}]
    /\ todo' = [todo EXCEPT ![c] = HeldSlots(c)]
    /\ UNCHANGED <<budget, issued, current, applying, still, owed, returned, commands, stage,
                   terminalVars, publicationVars, workerVars, screen, intruded>>

\* releaseFrontendResources then detaches the leases from the panes of the view.
detachOutputLease(c, s) ==
    /\ instance[c] = "detaching" /\ Idle(c)
    /\ s \in todo[c]
    /\ Send(ViewAt(current[c])[s], [type |-> "detach", conn |-> c])
    /\ todo' = [todo EXCEPT ![c] = @ \ {s}]
    /\ UNCHANGED <<budget, issued, instance, due, current, applying, still, owed, returned, closed,
                   stage, terminalVars, publicationVars, workerVars, screen, intruded>>

lifetimeDone(c) ==
    /\ instance[c] = "detaching" /\ Idle(c) /\ todo[c] = {}
    /\ instance' = [instance EXCEPT ![c] = "done"]
    /\ current' = [current EXCEPT ![c] = 0]
    /\ UNCHANGED <<budget, issued, due, handoffVars, closed, commands, stage, terminalVars,
                   publicationVars, workerVars, screen, intruded>>

-----------------------------------------------------------------------------
(* The pane                                                                 *)

\* Until it sees p.done the loop may choose any other case of its select.
Looping(p) == stage[p] # "exited"

\* What the pane shows: its live terminal, or its history.
Shown(p) == IF history[p] THEN [r \in Rows |-> ScrolledBack] ELSE text[p]

HasMutation(p) ==
    lease[p] # None /\ (damage[p].keyframe \/ damage[p].barrier \/ damage[p].rows # {})

\* A drain starts only when nothing waits to be published.
BlocksPTY(p) == pending[p] # None \/ HasMutation(p)

\* The buffers of abandoned publications return to the panes they belong to.
Released(abandoned) ==
    [q \in Panes |-> free[q] + Cardinality({i \in DOMAIN abandoned : abandoned[i].pane = q})]

\* reclaimAbandoned: what was handed to a worker that has ended.
Abandoned(l) == IF l # None /\ worker[l] = "exited" THEN ready[l] ELSE <<>>

\* Mutated: the pending publication is dropped, and its buffer with it.
Cancelled_Leaking(p) == <<>>

\* cancelPending
Cancelled(p) == IF pending[p] = None THEN <<>> ELSE <<pending[p]>>

\* Mutated: a cancelled START_RENDER is forgotten.
BarrierIsDue_Unpublished(p) == damage[p].barrier

\* A barrier that was prepared but not published is still due.
BarrierIsDue(p) == damage[p].barrier \/ (pending[p] # None /\ pending[p].barrier)

\* What the end of a binding, or another one, does to the publication state.
Unbind(p) ==
    /\ free' = Released(Cancelled(p) \o Abandoned(lease[p]))
    /\ ready' = [l \in Leases |-> IF l = lease[p] /\ worker[l] = "exited" THEN <<>> ELSE ready[l]]
    /\ pending' = [pending EXCEPT ![p] = None]
    /\ snapshot' = [snapshot EXCEPT ![p] = None]

Forget(p) ==
    /\ Unbind(p)
    /\ lease' = [lease EXCEPT ![p] = None]
    /\ revision' = [revision EXCEPT ![p] = 0]
    /\ damage' = [damage EXCEPT ![p] = NoDamage]
    /\ UNCHANGED <<epoch, version>>

FullDamage(barrier) == [keyframe |-> TRUE, barrier |-> barrier, rows |-> Rows]

\* One turn detaches the old renderer, resizes the grid and attaches the new one.
runInstall(p, command) ==
    LET l == <<command.conn, command.slot>> IN
    /\ Unbind(p)
    /\ size' = [size EXCEPT ![p] = command.size]
    /\ lease' = [lease EXCEPT ![p] = l]
    /\ revision' = [revision EXCEPT ![p] = command.revision]
    /\ epoch' = [epoch EXCEPT ![p] = @ + 1]
    /\ version' = [version EXCEPT ![p] = 0]
    /\ damage' = [damage EXCEPT ![p] = FullDamage(TRUE)]
    /\ worker' = [worker EXCEPT ![l] = IF @ = "unstarted" THEN "idle" ELSE @]
    /\ UNCHANGED <<owed, returned, intruded>>

\* The leases that other panes have.
OtherLeases(p) == {lease[q] : q \in Panes \ {p}} \ {None}

\* The lease is returned to whoever asked, whosever it is.
runRelease(p, command) ==
    /\ Forget(p)
    /\ intruded' = IF stage[p] = "running" \/ lease[p] = None THEN intruded
                   ELSE intruded \cup ({<<command.conn, lease[p][2]>>} \cap OtherLeases(p))
    /\ owed' = [owed EXCEPT ![command.conn] = @ - 1]
    /\ returned' = [returned EXCEPT ![command.conn] =
                        IF lease[p] = None THEN @ ELSE Append(@, lease[p][2])]
    /\ UNCHANGED <<size, worker>>

\* Mutated: a detach takes the lease the pane has, whosever it is.
Detaches_Whatever(p, command) == lease[p] # None

Detaches(p, command) == lease[p] # None /\ lease[p][1] = command.conn

runDetach(p, command) ==
    /\ IF Detaches(p, command) THEN Forget(p) ELSE UNCHANGED <<publicationVars, ready>>
    /\ UNCHANGED <<owed, returned, size, worker, intruded>>

runCommand(p) ==
    /\ Looping(p)
    /\ commands[p] # <<>>
    /\ LET command == Head(commands[p]) IN
          \/ command.type = "install" /\ runInstall(p, command)
          \/ command.type = "release" /\ runRelease(p, command)
          \/ command.type = "detach" /\ runDetach(p, command)
    /\ commands' = [commands EXCEPT ![p] = Tail(@)]
    /\ UNCHANGED <<budget, issued, instance, due, current, applying, todo, still, closed, stage,
                   text, history, draining, failed, broken, base, record, screen>>

\* The frontend enters or leaves the history: another picture, so another epoch.
toggleHistory(p) ==
    /\ Looping(p)
    /\ Spend("history")
    /\ history' = [history EXCEPT ![p] = ~@]
    /\ IF lease[p] = None
         THEN UNCHANGED publicationVars
         ELSE /\ free' = Released(Cancelled(p))
              /\ pending' = [pending EXCEPT ![p] = None]
              /\ snapshot' = [snapshot EXCEPT ![p] = None]
              /\ epoch' = [epoch EXCEPT ![p] = @ + 1]
              /\ version' = [version EXCEPT ![p] = 0]
              /\ damage' = [damage EXCEPT ![p] = FullDamage(BarrierIsDue(p))]
              /\ UNCHANGED <<lease, revision>>
    /\ UNCHANGED <<issued, instanceVars, closed, stage, commands, size, text, draining,
                   workerVars, screen, intruded>>

\* A drain opportunity in which the reader finds something.
startDrain(p) ==
    /\ Looping(p)
    /\ draining[p] = "no" /\ ~BlocksPTY(p)
    /\ Spend("drain")
    /\ draining' = [draining EXCEPT ![p] = "reading"]
    /\ UNCHANGED <<issued, instanceVars, closed, stage, commands, size, text, history,
                   publicationVars, workerVars, screen, intruded>>

\* A chunk changes a row of the terminal.  Only a live view of an attached pane is
\* damaged.
applyPTYChunk(p) ==
    /\ Looping(p)
    /\ draining[p] = "reading"
    /\ draining' = [draining EXCEPT ![p] = "read"]
    /\ \E r \in Rows :
          /\ text' = [text EXCEPT ![p][r] = 1 - @]
          /\ damage' = IF lease[p] # None /\ ~history[p]
                         THEN [damage EXCEPT ![p].rows = @ \cup {r}] ELSE damage
    /\ UNCHANGED <<budget, issued, instanceVars, closed, stage, commands, size, history,
                   lease, revision, epoch, version, snapshot, pending, free, workerVars, screen,
                   intruded>>

completeDrain(p) ==
    /\ Looping(p)
    /\ draining[p] = "read"
    /\ draining' = [draining EXCEPT ![p] = "no"]
    /\ UNCHANGED <<budget, issued, instanceVars, closed, stage, commands, size, text, history,
                   publicationVars, workerVars, screen, intruded>>

Changed(p) == {r \in damage[p].rows : Shown(p)[r] # snapshot[p][r]}

\* The differences to the snapshot, or a keyframe: when one is due, when it is
\* no larger, or at every anchor.
Publication(p, keyframe) ==
    [pane |-> p, epoch |-> epoch[p], keyframe |-> keyframe, barrier |-> damage[p].barrier,
     base |-> IF keyframe THEN 0 ELSE version[p], target |-> version[p] + 1,
     revision |-> revision[p], size |-> size[p],
     rows |-> [r \in IF keyframe THEN Rows ELSE Changed(p) |-> Shown(p)[r]]]

prepare(p) ==
    /\ Looping(p)
    /\ draining[p] = "no"
    /\ HasMutation(p) /\ pending[p] = None /\ free[p] > 0
    /\ \E keyframe \in BOOLEAN :
          /\ damage[p].keyframe \/ damage[p].barrier \/ snapshot[p] = None => keyframe
          /\ IF ~keyframe /\ Changed(p) = {}
               THEN UNCHANGED <<pending, free>>
               ELSE /\ pending' = [pending EXCEPT ![p] = Publication(p, keyframe)]
                    /\ free' = [free EXCEPT ![p] = @ - 1]
    /\ damage' = [damage EXCEPT ![p] = NoDamage]
    /\ UNCHANGED <<budget, issued, instanceVars, closed, stage, commands, terminalVars, lease, revision,
                   epoch, version, snapshot, workerVars, screen, intruded>>

Overlaid(rows, over) == [r \in Rows |-> IF r \in DOMAIN over THEN over[r] ELSE rows[r]]

\* Mutated: what was handed off leaves the snapshot as it was.
SnapshotAfter_Stale(p) ==
    IF pending[p].keyframe THEN Overlaid(snapshot[p], pending[p].rows) ELSE snapshot[p]

\* The snapshot follows what was handed off, not what was prepared.
SnapshotAfter(p) == Overlaid(snapshot[p], pending[p].rows)

handedOff(p) ==
    /\ Looping(p)
    /\ pending[p] # None /\ lease[p] # None
    /\ ready[lease[p]] = <<>>
    /\ ready' = [ready EXCEPT ![lease[p]] = <<pending[p]>>]
    /\ version' = [version EXCEPT ![p] = pending[p].target]
    /\ snapshot' = [snapshot EXCEPT ![p] = SnapshotAfter(p)]
    /\ pending' = [pending EXCEPT ![p] = None]
    /\ intruded' = intruded \cup ({lease[p]} \cap OtherLeases(p))
    /\ UNCHANGED <<budget, issued, instanceVars, closed, stage, commands, terminalVars, lease, revision,
                   epoch, damage, free, worker, failed, broken, base, record, screen>>

seeFailure(p) ==
    /\ Looping(p)
    /\ lease[p] # None /\ failed[lease[p]]
    /\ failed' = [failed EXCEPT ![lease[p]] = FALSE]
    /\ Forget(p)
    /\ UNCHANGED <<budget, issued, instanceVars, closed, stage, commands, terminalVars, worker, broken,
                   base, record, screen, intruded>>

\* Mutated: releases still in the channel are not answered.
Unanswered_Lost(p, c) == 0

\* The releases c asked of p that its loop has not run.
Unanswered(p, c) ==
    Cardinality({i \in DOMAIN commands[p] :
                    commands[p][i].type = "release" /\ commands[p][i].conn = c})

\* The loop ends, and mainDone answers the releases it has not run.  Nothing
\* refers to the rest of the pane any more.
mainDone(p) ==
    /\ stage[p] = "stopping"
    /\ stage' = [stage EXCEPT ![p] = "exited"]
    /\ owed' = [c \in Conns |-> owed[c] - Unanswered(p, c)]
    /\ commands' = [commands EXCEPT ![p] = <<>>]
    /\ lease' = [lease EXCEPT ![p] = None]
    /\ revision' = [revision EXCEPT ![p] = 0]
    /\ epoch' = [epoch EXCEPT ![p] = 1]
    /\ version' = [version EXCEPT ![p] = 0]
    /\ snapshot' = [snapshot EXCEPT ![p] = None]
    /\ damage' = [damage EXCEPT ![p] = NoDamage]
    /\ pending' = [pending EXCEPT ![p] = None]
    /\ draining' = [draining EXCEPT ![p] = "no"]
    /\ UNCHANGED <<budget, issued, instance, due, current, applying, todo, still, returned, closed, size,
                   text, history, free, workerVars, screen, intruded>>

-----------------------------------------------------------------------------
(* The confirmer of a lease                                                 *)

\* compile: does the publication follow the confirmer's base?  An epoch starts
\* with a keyframe, and a stream with a barrier.
Follows(l, pub) ==
    LET based == base[l] # NoBase
        sameEpoch == based /\ pub.epoch = base[l].epoch
    IN  IF pub.keyframe
          THEN /\ pub.barrier \/ based
               /\ pub.target = IF pub.barrier \/ ~sameEpoch THEN 1 ELSE base[l].version + 1
          ELSE /\ ~pub.barrier /\ sameEpoch
               /\ pub.base = base[l].version /\ pub.target = pub.base + 1

\* reportFailure: the pane is told and the transport is closed.
ReportFailure(l) ==
    /\ broken' = [broken EXCEPT ![l] = TRUE]
    /\ failed' = [failed EXCEPT ![l] = TRUE]
    /\ closed' = [closed EXCEPT ![l[1]] = TRUE]

\* The worker compiles a publication and returns its buffer before it writes the
\* record.  After an error it returns the buffers only.
takePublication(l) ==
    /\ worker[l] = "idle"
    /\ ready[l] # <<>>
    /\ ready' = [ready EXCEPT ![l] = <<>>]
    /\ free' = Released(ready[l])
    /\ LET pub == Head(ready[l]) IN
       IF broken[l] THEN UNCHANGED <<worker, base, record, broken, failed, closed>>
       ELSE IF Follows(l, pub)
         THEN /\ base' = [base EXCEPT ![l] = [epoch |-> pub.epoch, version |-> pub.target]]
              /\ record' = [record EXCEPT ![l] = pub]
              /\ worker' = [worker EXCEPT ![l] = "writing"]
              /\ UNCHANGED <<broken, failed, closed>>
         ELSE ReportFailure(l) /\ UNCHANGED <<worker, base, record>>
    /\ UNCHANGED <<budget, issued, instanceVars, stage, commands, terminalVars, lease, revision, epoch,
                   version, snapshot, damage, pending, screen, intruded>>

\* START_RENDER gives the slot a new picture; other frames paint over it.
Painted(picture, pub) ==
    IF pub.barrier THEN [revision |-> pub.revision, size |-> pub.size, rows |-> pub.rows]
    ELSE [picture EXCEPT !.rows = Overlaid(@, pub.rows)]

writeFrame(l) ==
    /\ worker[l] = "writing"
    /\ screen' = [screen EXCEPT ![l] = Painted(@, record[l])]
    /\ worker' = [worker EXCEPT ![l] = "idle"]
    /\ record' = [record EXCEPT ![l] = None]
    /\ UNCHANGED <<budget, issued, instanceVars, closed, stage, commands, terminalVars, publicationVars,
                   ready, failed, broken, base, intruded>>

\* The stream is closed.  (A write that runs into its deadline closes the
\* transport itself; that is a transportLost before this step.)
writeFails(l) ==
    /\ worker[l] = "writing" /\ closed[l[1]]
    /\ ReportFailure(l)
    /\ worker' = [worker EXCEPT ![l] = "idle"]
    /\ record' = [record EXCEPT ![l] = None]
    /\ UNCHANGED <<budget, issued, instanceVars, stage, commands, terminalVars, publicationVars, ready,
                   base, screen, intruded>>

\* The worker leaves its loop and drains what is ready; only then does it close
\* workerDone, and a pane may hand off in between.
drainAbandoned(l) ==
    /\ worker[l] = "idle" /\ closed[l[1]]
    /\ free' = Released(ready[l])
    /\ ready' = [ready EXCEPT ![l] = <<>>]
    /\ worker' = [worker EXCEPT ![l] = "drained"]
    /\ UNCHANGED <<budget, issued, instanceVars, closed, stage, commands, terminalVars, lease, revision,
                   epoch, version, snapshot, damage, pending, failed, broken, base, record,
                   screen, intruded>>

\* The frontend has lost the transport, and the picture with it.
closeWorkerDone(l) ==
    /\ worker[l] = "drained"
    /\ worker' = [worker EXCEPT ![l] = "exited"]
    /\ base' = [base EXCEPT ![l] = NoBase]
    /\ screen' = [screen EXCEPT ![l] = NoScreen]
    /\ UNCHANGED <<budget, issued, instanceVars, closed, stage, commands, terminalVars, publicationVars,
                   ready, failed, broken, record, intruded>>

-----------------------------------------------------------------------------
DaemonStep ==
    \/ \E c \in Conns, view \in Views : initializeClient(c, view) \/ prepareViewTransition(c, view)
    \/ \E p \in Panes : stopPane(p)

InstanceProgress(c) ==
    \/ applyViewTransition(c)
    \/ \E s \in Slots : installOutputLease(c, s) \/ detachOutputLease(c, s)
    \/ receiveReleased(c)
    \/ bindStillPending(c)
    \/ installClientView(c)
    \/ lifetimeDone(c)

PaneLoop(p) ==
    \/ runCommand(p)
    \/ toggleHistory(p)
    \/ startDrain(p)
    \/ applyPTYChunk(p)
    \/ completeDrain(p)
    \/ prepare(p)
    \/ handedOff(p)
    \/ seeFailure(p)
    \/ mainDone(p)

runConfirmer(l) ==
    \/ takePublication(l)
    \/ writeFrame(l)
    \/ writeFails(l)
    \/ drainAbandoned(l)
    \/ closeWorkerDone(l)

Next ==
    \/ DaemonStep
    \/ \E c \in Conns : InstanceProgress(c) \/ transportLost(c) \/ detachClientInstance(c)
    \/ \E p \in Panes : PaneLoop(p)
    \/ \E l \in Leases : runConfirmer(l)

\* Goroutines are scheduled, and a select takes every case that stays ready.
Fairness ==
    /\ \A c \in Conns : WF_vars(InstanceProgress(c)) /\ WF_vars(closed[c] /\ detachClientInstance(c))
    /\ \A p \in Panes : /\ WF_vars(runCommand(p)) /\ WF_vars(applyPTYChunk(p) \/ completeDrain(p)) /\ WF_vars(prepare(p))
                        /\ WF_vars(handedOff(p)) /\ WF_vars(seeFailure(p)) /\ WF_vars(mainDone(p))
    /\ \A l \in Leases : /\ WF_vars(takePublication(l)) /\ WF_vars(writeFrame(l) \/ writeFails(l))
                         /\ WF_vars(drainAbandoned(l) \/ closeWorkerDone(l))

Spec == Init /\ [][Next]_vars
FairSpec == Spec /\ Fairness

-----------------------------------------------------------------------------
(* Properties                                                               *)

Command ==
    [type : {"release", "detach"}, conn : Conns]
    \cup [type : {"install"}, conn : Conns, slot : Slots, revision : 1 .. Len(issued), size : Slots]

\* Every variable keeps its type.
TypeOK ==
    /\ issued \in Seq([conn : Conns, panes : Views]) /\ budget \in [Happenings -> Nat]
    /\ instance \in [Conns -> {"admitted", "serving", "binding", "detaching", "done"}]
    /\ due \in [Conns -> SUBSET (1 .. Len(issued))]
    /\ current \in [Conns -> 0 .. Len(issued)] /\ applying \in [Conns -> 0 .. Len(issued)]
    /\ todo \in [Conns -> SUBSET Slots] /\ still \in [Conns -> SUBSET Slots]
    /\ owed \in [Conns -> Nat]
    /\ \A c \in Conns : returned[c] \in Seq(Slots)
    /\ closed \in [Conns -> BOOLEAN]
    /\ stage \in [Panes -> {"running", "stopping", "exited"}]
    /\ \A p \in Panes : commands[p] \in Seq(Command)
    /\ size \in [Panes -> Slots] /\ text \in [Panes -> Grid]
    /\ history \in [Panes -> BOOLEAN] /\ draining \in [Panes -> {"no", "reading", "read"}]
    /\ lease \in [Panes -> Leases \cup {None}]
    /\ revision \in [Panes -> 0 .. Len(issued)]
    /\ epoch \in [Panes -> Nat] /\ version \in [Panes -> Nat]
    /\ \A p \in Panes : snapshot[p] = None \/ snapshot[p] \in Grid
    /\ damage \in [Panes -> [keyframe : BOOLEAN, barrier : BOOLEAN, rows : SUBSET Rows]]
    /\ free \in [Panes -> 0 .. publicationBufferCount]
    /\ worker \in [Leases -> {"unstarted", "idle", "writing", "drained", "exited"}]
    /\ failed \in [Leases -> BOOLEAN] /\ broken \in [Leases -> BOOLEAN]
    /\ base \in [Leases -> [epoch : Nat, version : Nat]]
    /\ screen \in [Leases -> [revision : 0 .. Len(issued), size : 0 .. Cardinality(Panes), rows : Grid]]
    /\ intruded \subseteq Leases

\* A lease is used by one pane at a time: whatever is handed from pane to pane,
\* no two panes that were not stopped publish through the same stream, unless one
\* that was stopped has meddled with it.
LeaseHasOneOwner ==
    \A p, q \in Panes :
        p # q /\ stage[p] = "running" /\ stage[q] = "running"
              /\ lease[p] # None /\ lease[p] \notin intruded
            => lease[p] # lease[q]

\* Each of a pane's buffers is free, pending, or on its way to a confirmer: no
\* cancellation, failure or drain loses or duplicates one.
Queued(p) == Cardinality({l \in Leases : ready[l] # <<>> /\ Head(ready[l]).pane = p})

BuffersConserved ==
    \A p \in Panes : stage[p] # "exited" =>
        free[p] + (IF pending[p] = None THEN 0 ELSE 1) + Queued(p) = publicationBufferCount

\* TypeOK bounds the two free buffers, and BuffersConserved accounts for the others.
BuffersAccountedFor == TypeOK /\ BuffersConserved

\* A confirmer never meets a publication it cannot compile: the version chain
\* survives detaching, rebinding, epochs and cancelled publications.
ChainUnbroken ==
    \A l \in Leases \ intruded :
        worker[l] = "idle" /\ ready[l] # <<>> /\ ~broken[l] => Follows(l, Head(ready[l]))

\* A picture has the grid that the projection of its revision gives the slot.
PictureFitsLayout ==
    \A l \in Leases : screen[l].revision # 0 =>
        LET plan == issued[screen[l].revision]
        IN  plan.conn = l[1] /\ l[2] \in DOMAIN plan.panes /\ screen[l].size = Len(plan.panes)

\* When nothing is under way between a pane and the frontend, the slot shows
\* the pane, for the revision the lease was installed with.
NothingUnderWay(p) ==
    /\ stage[p] = "running" /\ lease[p] # None
    /\ ~HasMutation(p) /\ pending[p] = None
    /\ worker[lease[p]] = "idle" /\ ready[lease[p]] = <<>> /\ ~broken[lease[p]]

QuietSlotShowsPane ==
    \A p \in Panes : NothingUnderWay(p) /\ lease[p] \notin intruded =>
        /\ screen[lease[p]].rows = Shown(p)
        /\ screen[lease[p]].revision = revision[p]

\* A picture is never of another grid than its layout's, and in the end is the pane's.
PictureFollowsPane == PictureFitsLayout /\ QuietSlotShowsPane

\* Each pane of an installed view has the lease of its slot while the transport
\* is alive and no other projection is due.
VisiblePaneHasLease ==
    \A c \in Conns : instance[c] = "serving" /\ ~closed[c] /\ due[c] = {} =>
        \A s \in SlotsOf(current[c]) :
            LET p == ViewAt(current[c])[s] IN
            stage[p] = "running" => lease[p] = <<c, s>>

\* An instance that starts a hand-off finishes it, whatever its panes do.
HandoffCompletes == \A c \in Conns : instance[c] = "binding" ~> instance[c] # "binding"

\* A pane does not keep the lease of a lost transport, behind which its output
\* would be held back for good.
DeadLeaseIsDropped ==
    \A p \in Panes, c \in Conns :
        (closed[c] /\ lease[p] # None /\ lease[p][1] = c) ~> (lease[p] = None \/ lease[p][1] # c)

=============================================================================
