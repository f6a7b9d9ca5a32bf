-------------------------- MODULE ClientLifecycle --------------------------
(***************************************************************************)
(* Admission, promotion, takeover, session switching and teardown of        *)
(* client connections, as daemon transactions (one d.call is one atomic     *)
(* action) interleaved with one serveClientInstance goroutine per QUIC      *)
(* connection.  The daemon owns the registries (first group of variables);  *)
(* pc, view, plan, waitOn and startedIn are local to the goroutines; mail   *)
(* is the required-delivery mailbox between them.                           *)
(***************************************************************************)
EXTENDS Naturals, Sequences, FiniteSets, SequencesExt

CONSTANTS
    Clients,      \* ClientIDs the daemon may allocate
    Conns,        \* QUIC connections (clientConnection addresses)
    Sessions,     \* session IDs
    Windows,      \* canonical window IDs
    WindowsOf,    \* [Sessions -> SUBSET Windows]: grouped sessions share windows
    None,         \* the zero ID, the nil pointer
    MaxGrants,    \* bound: live attach grants per session
    MaxRevision,  \* bound: no further select or switch beyond this revision
    MaxMail       \* bound: reserved view deliveries per connection

ASSUME NoneIsNoID == None \notin Clients \cup Conns \cup Sessions \cup Windows
ASSUME WindowsAssumption ==
    /\ WindowsOf \in [Sessions -> SUBSET Windows]
    /\ \A s \in Sessions : WindowsOf[s] # {}
ASSUME BoundsAssumption == MaxGrants \in Nat /\ MaxRevision \in Nat /\ MaxMail \in Nat

VARIABLES
    \* Daemon.sessions, SessionState.ClientID and .ActiveWindowID, attachGrants
    sessions, controller, activeWindow, attachGrants,
    \* Daemon.clients: ClientIdentity with its clientLifecycle
    registered, sessionOf, phase, active, pending, waitFor, terminal, revision,
    \* Daemon.windowLeases
    windowLeases,
    \* external select-window commands between resolving and selecting;
    \* panicked once the daemon goroutine has dereferenced a nil session
    resolved, panicked,
    \* serveClientInstance goroutines and their transports
    pc, owner, waitOn, startedIn, view, plan, mail, lost

registryVars == <<sessions, controller, activeWindow, attachGrants>>
identityVars == <<registered, sessionOf, phase, active, pending, waitFor, terminal, revision>>
commandVars  == <<resolved, panicked>>
connVars     == <<pc, owner, waitOn, startedIn, view, plan, mail, lost>>
vars == <<registryVars, identityVars, windowLeases, commandVars, connVars>>

-----------------------------------------------------------------------------
(* Types *)

Phase == {"detached", "pending", "active", "replacing", "closing"}

Stage == {"idle", "notifying", "admitted", "waiting", "installing", "attached", "applying",
          "resizing", "exiting", "detaching", "releasing", "discarding", "done"}

Lease == [session : Sessions, client : Clients, generation : Nat \ {0}]

ASSUME NoneIsNoLease == None \notin Lease

\* What a ClientProjectionPlan tells the instance, and what the instance keeps
\* of it: sessionID, ViewLeaseWindowID, ViewLeaseGeneration, applied revision.
View == [session : Sessions \cup {None}, window : Windows \cup {None},
         generation : Nat, revision : Nat]

Delivery == [type : {"view"}, view : View] \cup
            [type : {"close"}, code : {"replaced", "exited"}, by : Conns \cup {None}]

\* Every registry and every instance holds what its Go type can hold, and an
\* instance between its admission and its end is some client's.
TypeOK ==
    /\ sessions \subseteq Sessions
    /\ controller \in [Sessions -> Clients \cup {None}]
    /\ activeWindow \in [Sessions -> Windows]
    /\ attachGrants \in [Sessions -> Nat]
    /\ registered \subseteq Clients
    /\ sessionOf \in [Clients -> Sessions \cup {None}]
    /\ phase \in [Clients -> Phase]
    /\ active \in [Clients -> Conns \cup {None}]
    /\ pending \in [Clients -> Conns \cup {None}]
    /\ waitFor \in [Clients -> Conns \cup {None}]
    /\ terminal \in [Clients -> BOOLEAN]
    /\ revision \in [Clients -> Nat]
    /\ windowLeases \in [Windows -> Lease \cup {None}]
    /\ resolved \in [Sessions -> Clients \cup {None}]
    /\ panicked \in BOOLEAN
    /\ pc \in [Conns -> Stage]
    /\ owner \in [Conns -> Clients \cup {None}]
    /\ \A k \in Conns : pc[k] \notin {"idle", "done"} => owner[k] # None
    /\ waitOn \in [Conns -> Conns \cup {None}]
    /\ startedIn \in [Conns -> Sessions \cup {None}]
    /\ view \in [Conns -> View]
    /\ plan \in [Conns -> View]
    /\ mail \in [Conns -> Seq(Delivery)]
    /\ lost \subseteq Conns

NoView == [session |-> None, window |-> None, generation |-> 0, revision |-> 0]

Init ==
    /\ sessions = Sessions
    /\ controller = [s \in Sessions |-> None]
    /\ activeWindow \in {f \in [Sessions -> Windows] : \A s \in Sessions : f[s] \in WindowsOf[s]}
    /\ attachGrants = [s \in Sessions |-> 0]
    /\ registered = {}
    /\ sessionOf = [c \in Clients |-> None]
    /\ phase = [c \in Clients |-> "detached"]
    /\ active = [c \in Clients |-> None]
    /\ pending = [c \in Clients |-> None]
    /\ waitFor = [c \in Clients |-> None]
    /\ terminal = [c \in Clients |-> FALSE]
    /\ revision = [c \in Clients |-> 0]
    /\ windowLeases = [w \in Windows |-> None]
    /\ resolved = [s \in Sessions |-> None]
    /\ panicked = FALSE
    /\ pc = [k \in Conns |-> "idle"]
    /\ owner = [k \in Conns |-> None]
    /\ waitOn = [k \in Conns |-> None]
    /\ startedIn = [k \in Conns |-> None]
    /\ view = [k \in Conns |-> NoView]
    /\ plan = [k \in Conns |-> NoView]
    /\ mail = [k \in Conns |-> <<>>]
    /\ lost = {}

-----------------------------------------------------------------------------
(* Helpers *)

\* The windows whose lease names c; windowForClientNow returns one of them.
LeasedBy(c) == {w \in Windows : windowLeases[w] # None /\ windowLeases[w].client = c}

windowForClientNow(c) == IF LeasedBy(c) = {} THEN {None} ELSE LeasedBy(c)

LeaseTo(s, c, g) == [session |-> s, client |-> c, generation |-> g]

\* Acquire window w, then release the window old if it is another one.
AcquireThenRelease(w, lease, old) ==
    [x \in Windows |-> IF x = w THEN lease ELSE IF x = old THEN None ELSE windowLeases[x]]

\* The projection prepared for client c in session s once its lease is `lease`.
Projection(c, s, w, lease) ==
    [session |-> s, window |-> w, revision |-> revision[c] + 1,
     generation |-> IF lease # None /\ lease.client = c THEN lease.generation ELSE 0]

ViewDelivery(v) == [type |-> "view", view |-> v]
ReplacedBy(k) == [type |-> "close", code |-> "replaced", by |-> k]
Exited == [type |-> "close", code |-> "exited", by |-> None]

\* Reserve a delivery on connection k.  A nil connection has no mailbox, and
\* the worker of a finished one has returned.
Reserved(k, delivery) ==
    [x \in Conns |-> IF x = k /\ pc[x] # "done" THEN Append(mail[x], delivery) ELSE mail[x]]

MailboxHasRoom(k) == k # None => Len(mail[k]) < MaxMail

Goto(k, stage) == pc' = [pc EXCEPT ![k] = stage]

\* The frontend of c resumes once every connection it had was lost to it.
FrontendIsDisconnected(c) == \A k \in Conns : owner[k] = c => k \in lost

-----------------------------------------------------------------------------
(* Attach grants *)

issueAttachGrant(s) ==
    /\ s \in sessions
    /\ attachGrants[s] < MaxGrants
    /\ attachGrants' = [attachGrants EXCEPT ![s] = @ + 1]
    /\ UNCHANGED <<sessions, controller, activeWindow, identityVars, windowLeases,
                   commandVars, connVars>>

\* Expiry of a grant, or discardAttachGrant when an attached client is moved
\* instead of bootstrapping a new one.
discardAttachGrant(s) ==
    /\ attachGrants[s] > 0
    /\ attachGrants' = [attachGrants EXCEPT ![s] = @ - 1]
    /\ UNCHANGED <<sessions, controller, activeWindow, identityVars, windowLeases,
                   commandVars, connVars>>

-----------------------------------------------------------------------------
(* Admission *)

\* The admitting goroutine blocks in sendReservedClientCommand when it
\* displaces a live connection, and goes on at once otherwise.
EnterAdmission(k, c, displaced) ==
    /\ owner' = [owner EXCEPT ![k] = c]
    /\ view' = [view EXCEPT ![k].session = sessionOf'[c]]
    /\ waitOn' = [waitOn EXCEPT ![k] = displaced]
    /\ Goto(k, IF displaced = None THEN "admitted" ELSE "notifying")
    /\ mail' = Reserved(displaced, ReplacedBy(k))
    /\ UNCHANGED <<startedIn, plan, lost>>

\* The connection a takeover, or a resume, closes and waits for.
Displaced(previous) == IF previous = None THEN None ELSE active[previous]

admitSessionConnection(k, c, s) ==
    LET previous == controller[s]
        displaced == Displaced(previous)
    IN  /\ pc[k] = "idle"
        /\ c \notin registered
        /\ attachGrants[s] > 0
        /\ s \in sessions
        /\ attachGrants' = [attachGrants EXCEPT ![s] = @ - 1]
        /\ registered' = registered \cup {c}
        /\ sessionOf' = [sessionOf EXCEPT ![c] = s]
        /\ pending' = [pending EXCEPT ![c] = k]
        /\ waitFor' = [waitFor EXCEPT ![c] = displaced]
        /\ terminal' = [x \in Clients |-> x = previous \/ terminal[x]]
        /\ phase' = [x \in Clients |->
                        IF x = c THEN "pending"
                        ELSE IF x = previous /\ displaced # None THEN "closing" ELSE phase[x]]
        /\ EnterAdmission(k, c, displaced)
        /\ UNCHANGED <<sessions, controller, activeWindow, active, revision,
                       windowLeases, commandVars>>

admitResumedConnection(k, c) ==
    LET previous == Displaced(c)
    IN  /\ pc[k] = "idle"
        /\ c \in registered
        /\ FrontendIsDisconnected(c)
        /\ ~terminal[c]
        /\ sessionOf[c] \in sessions
        /\ pending' = [pending EXCEPT ![c] = k]
        /\ waitFor' = [waitFor EXCEPT ![c] = None]
        /\ phase' = [phase EXCEPT ![c] = IF previous = None THEN "pending" ELSE "replacing"]
        /\ UNCHANGED sessionOf
        /\ EnterAdmission(k, c, previous)
        /\ UNCHANGED <<registryVars, registered, active, terminal, revision,
                       windowLeases, commandVars>>

\* Mutated: a displaced instance that ends is not taken for an answer.
CloseIsAnswered_OnlyByResult(k, j) == pc[j] # "done" /\ ReplacedBy(k) \notin ToSet(mail[j])

\* The Close was run by the displaced instance, or that instance is gone.
CloseIsAnswered(k, j) == pc[j] = "done" \/ ReplacedBy(k) \notin ToSet(mail[j])

displacedNotified(k) ==
    /\ pc[k] = "notifying"
    /\ CloseIsAnswered(k, waitOn[k])
    /\ waitOn' = [waitOn EXCEPT ![k] = None]
    /\ Goto(k, "admitted")
    /\ UNCHANGED <<registryVars, identityVars, windowLeases, commandVars,
                   owner, startedIn, view, plan, mail, lost>>

-----------------------------------------------------------------------------
(* initializeClient: validate, wait for the previous connection, promote *)

StillPending(k, c) == pending[c] = k /\ ~terminal[c] /\ sessionOf[c] \in sessions

\* Opening the eight output streams fails on a lost transport.
openStreamsFails(k) ==
    /\ pc[k] = "admitted"
    /\ k \in lost
    /\ Goto(k, "discarding")
    /\ UNCHANGED <<registryVars, identityVars, windowLeases, commandVars,
                   owner, waitOn, startedIn, view, plan, mail, lost>>

initializeBegin(k) ==
    LET c == owner[k] IN
    /\ pc[k] = "admitted"
    /\ IF StillPending(k, c)
         THEN /\ startedIn' = [startedIn EXCEPT ![k] = sessionOf[c]]
              /\ waitOn' = [waitOn EXCEPT ![k] = IF active[c] # None THEN active[c]
                                                                     ELSE waitFor[c]]
              /\ Goto(k, "waiting")
         ELSE /\ Goto(k, "discarding")
              /\ UNCHANGED <<startedIn, waitOn>>
    /\ UNCHANGED <<registryVars, identityVars, windowLeases, commandVars,
                   owner, view, plan, mail, lost>>

\* Mutated: the previous connection is not waited for.
PreviousIsDone_Unwaited(k) == TRUE

PreviousIsDone(k) == waitOn[k] # None => pc[waitOn[k]] = "done"

\* "session is still attached to another client"
OccupiedByAnother(c, s) ==
    /\ controller[s] \notin {None, c}
    /\ phase[controller[s]] # "detached"

initializeRefused(k) ==
    LET c == owner[k] IN
    /\ pc[k] = "waiting"
    /\ PreviousIsDone(k)
    /\ \/ ~StillPending(k, c)
       \/ sessionOf[c] # startedIn[k]
       \/ OccupiedByAnother(c, sessionOf[c])
    /\ Goto(k, "discarding")
    /\ UNCHANGED <<registryVars, identityVars, windowLeases, commandVars,
                   owner, waitOn, startedIn, view, plan, mail, lost>>

\* The identity and the session name each other from here on, whatever
\* becomes of the view.
CommitPromotion(k, c, s) ==
    /\ active' = [active EXCEPT ![c] = k]
    /\ pending' = [pending EXCEPT ![c] = None]
    /\ waitFor' = [waitFor EXCEPT ![c] = None]
    /\ phase' = [phase EXCEPT ![c] = "active"]
    /\ controller' = [controller EXCEPT ![s] = c]
    /\ UNCHANGED <<sessions, activeWindow, attachGrants, registered, sessionOf, terminal>>

initializePromotes(k) ==
    LET c == owner[k]
        s == sessionOf[c]
        w == activeWindow[s]
        current == windowLeases[w]
    IN  /\ pc[k] = "waiting"
        /\ PreviousIsDone(k)
        /\ StillPending(k, c)
        /\ s = startedIn[k]
        /\ ~OccupiedByAnother(c, s)
        /\ CommitPromotion(k, c, s)
        /\ IF current # None /\ current.client # c
             THEN \* "window is currently viewed by another client"
                  /\ Goto(k, "discarding")
                  /\ UNCHANGED <<windowLeases, revision, plan>>
             ELSE \E old \in windowForClientNow(c) :
                    LET generation == IF current = None THEN 1
                                      ELSE IF old = w THEN current.generation
                                      ELSE current.generation + 1
                        lease == LeaseTo(s, c, generation)
                    IN  /\ windowLeases' = AcquireThenRelease(w, lease, old)
                        /\ plan' = [plan EXCEPT ![k] = Projection(c, s, w, lease)]
                        /\ revision' = [revision EXCEPT ![c] = @ + 1]
                        /\ Goto(k, "installing")
        /\ waitOn' = [waitOn EXCEPT ![k] = None]
        /\ startedIn' = [startedIn EXCEPT ![k] = None]
        /\ UNCHANGED <<commandVars, owner, view, mail, lost>>

-----------------------------------------------------------------------------
(* applyViewTransition *)

\* adoptTransitionSession: a projection of another session needs the daemon's
\* word that the session is still this connection's.
Adopts(k, v) ==
    \/ v.session = view[k].session
    \/ /\ v.session \in sessions
       /\ controller[v.session] = owner[k]
       /\ active[owner[k]] = k

\* Mutated: projection revisions are not compared.
Stale_LeaseOnly(k, v) == v.window = view[k].window /\ v.generation < view[k].generation

\* validateProjectionPlan
Stale(k, v) ==
    \/ v.window = view[k].window /\ v.generation < view[k].generation
    \/ v.revision <= view[k].revision

\* The session is adopted before the plan is validated.
Applied(k, v) ==
    IF ~Adopts(k, v) THEN view[k]
    ELSE IF Stale(k, v) THEN [view[k] EXCEPT !.session = v.session]
    ELSE v

\* Does applyViewTransition install v on k, or return an error?
Installs(k, v) == Adopts(k, v) /\ ~Stale(k, v)

ApplyPlan(k, stage) ==
    /\ view' = [view EXCEPT ![k] = Applied(k, plan[k])]
    /\ plan' = [plan EXCEPT ![k] = NoView]
    /\ Goto(k, stage)
    /\ UNCHANGED <<registryVars, identityVars, windowLeases, commandVars,
                   owner, waitOn, startedIn, mail, lost>>

installInitialView(k) ==
    /\ pc[k] = "installing"
    /\ ApplyPlan(k, IF Installs(k, plan[k]) THEN "attached" ELSE "discarding")

\* The outcome of a command of the instance's own.  clientConnectionIsCurrent
\* comes first, and never fails (ServingIsActive); an error is only shown.
applyOwnTransition(k) ==
    /\ pc[k] = "applying"
    /\ active[owner[k]] = k
    /\ ApplyPlan(k, "attached")

\* A resize has no such check, and its error ends the serve loop.
applyResize(k) ==
    /\ pc[k] = "resizing"
    /\ ApplyPlan(k, IF Installs(k, plan[k]) THEN "attached" ELSE "detaching")

\* The serve loop takes deliveries also while the frontend is told to exit.
Serving(k) == pc[k] \in {"attached", "exiting"}

applyDeliveredTransition(k) ==
    /\ Serving(k)
    /\ mail[k] # <<>>
    /\ Head(mail[k]).type = "view"
    /\ view' = [view EXCEPT ![k] = Applied(k, Head(mail[k]).view)]
    /\ mail' = [mail EXCEPT ![k] = Tail(@)]
    /\ UNCHANGED <<registryVars, identityVars, windowLeases, commandVars,
                   pc, owner, waitOn, startedIn, plan, lost>>

\* applyExternalCommandAction looks its target up again before it finishes
\* the reservation, and cancels it when the session has another client now.
cancelDelivery(k, i) ==
    LET c == owner[k] IN
    /\ i \in DOMAIN mail[k]
    /\ mail[k][i].type = "view"
    /\ LET s == mail[k][i].view.session IN
         s \notin sessions \/ controller[s] # c \/ active[c] = None
    /\ mail' = [mail EXCEPT ![k] = RemoveAt(@, i)]
    /\ UNCHANGED <<registryVars, identityVars, windowLeases, commandVars,
                   pc, owner, waitOn, startedIn, view, plan, lost>>

-----------------------------------------------------------------------------
(* selectWindow and transitionClientToSession.  Both are issued either by    *)
(* the attached instance itself, which applies the transition before its     *)
(* next event, or by an external command, which posts it to the mailbox.     *)

\* The instance k goes on to apply v itself; its reservation is cancelled.
ApplyItself(k, v, stage, mail2) ==
    /\ pc[k] = "attached"
    /\ Goto(k, stage)
    /\ plan' = [plan EXCEPT ![k] = v]
    /\ mail' = mail2

\* v is appended to the mailbox of connection k.
PostToMailbox(k, v, mail2) ==
    /\ MailboxHasRoom(k)
    /\ mail' = [x \in Conns |-> IF x = k /\ pc[x] # "done"
                                  THEN Append(mail2[x], ViewDelivery(v)) ELSE mail2[x]]
    /\ UNCHANGED <<pc, plan>>

Selectable(c, s, w) ==
    /\ controller[s] = c
    /\ w \in WindowsOf[s]
    /\ windowLeases[w] # None => windowLeases[w].client = c
    /\ LeasedBy(c) # {}     \* otherwise "stale client window lease"

SelectedLease(c, s, w) ==
    LeaseTo(s, c, IF windowLeases[w] = None THEN 1
                  ELSE IF activeWindow[s] = w THEN windowLeases[w].generation
                  ELSE windowLeases[w].generation + 1)

CommitSelection(c, s, w) ==
    /\ \E old \in LeasedBy(c) :
          windowLeases' = AcquireThenRelease(w, SelectedLease(c, s, w), old)
    /\ activeWindow' = [activeWindow EXCEPT ![s] = w]
    /\ revision' = [revision EXCEPT ![c] = @ + 1]
    /\ UNCHANGED <<sessions, controller, attachGrants, registered, sessionOf, phase,
                   active, pending, waitFor, terminal, panicked, owner, waitOn,
                   startedIn, view, lost>>

selectWindowItself(k, w) ==
    LET c == owner[k]
        s == view[k].session
    IN  /\ pc[k] = "attached"
        /\ revision[c] < MaxRevision
        /\ s \in sessions
        /\ Selectable(c, s, w)
        /\ CommitSelection(c, s, w)
        /\ ApplyItself(k, Projection(c, s, w, SelectedLease(c, s, w)), "applying", mail)
        /\ UNCHANGED resolved

\* transitionCommandTarget captures the session and its client in a
\* transaction of its own.
resolveSelect(s) ==
    /\ s \in sessions
    /\ controller[s] # None
    /\ revision[controller[s]] < MaxRevision
    /\ resolved[s] = None
    /\ resolved' = [resolved EXCEPT ![s] = controller[s]]
    /\ UNCHANGED <<registryVars, identityVars, windowLeases, panicked, connVars>>

selectResolvedWindow(s, w) ==
    LET c == resolved[s] IN
    /\ c # None
    /\ s \in sessions
    /\ Selectable(c, s, w)
    /\ CommitSelection(c, s, w)
    /\ PostToMailbox(active[c], Projection(c, s, w, SelectedLease(c, s, w)), mail)
    /\ resolved' = [resolved EXCEPT ![s] = None]

selectRejected(s) ==
    /\ resolved[s] # None
    /\ s \in sessions
    /\ \E w \in WindowsOf[s] : ~Selectable(resolved[s], s, w)
    /\ resolved' = [resolved EXCEPT ![s] = None]
    /\ UNCHANGED <<registryVars, identityVars, windowLeases, panicked, connVars>>

\* selectWindow reads state.ClientID before it tests state for nil.  Nothing
\* recovers the panic: the daemon process dies, and its memory with it.
selectPanics(s) ==
    /\ resolved[s] # None
    /\ s \notin sessions
    /\ panicked' = TRUE
    /\ sessions' = {}
    /\ controller' = [t \in Sessions |-> None]
    /\ attachGrants' = [t \in Sessions |-> 0]
    /\ windowLeases' = [w \in Windows |-> None]
    /\ resolved' = [t \in Sessions |-> None]
    /\ pc' = [k \in Conns |-> "done"]
    /\ waitOn' = [k \in Conns |-> None]
    /\ startedIn' = [k \in Conns |-> None]
    /\ view' = [k \in Conns |-> NoView]
    /\ plan' = [k \in Conns |-> NoView]
    /\ mail' = [k \in Conns |-> <<>>]
    /\ UNCHANGED <<activeWindow, identityVars, owner, lost>>

\* The client that must make room when c, active elsewhere, enters session t.
DisplacedBy(c, t) ==
    IF windowLeases[activeWindow[t]] # None /\ windowLeases[activeWindow[t]].client # c
      THEN controller[t] ELSE None

Switchable(c, s, t) ==
    LET targetLease == windowLeases[activeWindow[t]]
        sourceLease == windowLeases[activeWindow[s]]
    IN  /\ ~terminal[c]
        /\ controller[s] = c
        /\ sourceLease # None /\ sourceLease.client = c
        /\ targetLease # None /\ targetLease.client # c =>
              /\ controller[t] \notin {None, c}
              /\ active[controller[t]] # None

EnteredLease(c, t) ==
    LET targetLease == windowLeases[activeWindow[t]] IN
    LeaseTo(t, c, IF targetLease = None THEN 1
                  ELSE IF targetLease.client = c THEN targetLease.generation
                  ELSE targetLease.generation + 1)

\* Mutated: the source session keeps its client.
ControllerAfterSwitch_KeepingSource(c, s, t) == [controller EXCEPT ![t] = c]

ControllerAfterSwitch(c, s, t) == [controller EXCEPT ![s] = None, ![t] = c]

CommitSwitch(c, s, t) ==
    /\ windowLeases' = AcquireThenRelease(activeWindow[t], EnteredLease(c, t), activeWindow[s])
    /\ controller' = ControllerAfterSwitch(c, s, t)
    /\ sessionOf' = [sessionOf EXCEPT ![c] = t]
    /\ terminal' = [x \in Clients |-> x = DisplacedBy(c, t) \/ terminal[x]]
    /\ phase' = [x \in Clients |-> IF x = DisplacedBy(c, t) THEN "closing" ELSE phase[x]]
    /\ revision' = [revision EXCEPT ![c] = @ + 1]
    /\ UNCHANGED <<sessions, activeWindow, attachGrants, registered, active, pending,
                   waitFor, commandVars, owner, waitOn, startedIn, view, lost>>

MailAfterDisplacing(c, t) ==
    IF DisplacedBy(c, t) = None THEN mail
    ELSE Reserved(active[DisplacedBy(c, t)], ReplacedBy(None))

\* Switching to the session the client is in only refreshes its projection.
CommitRefresh(c) ==
    /\ revision' = [revision EXCEPT ![c] = @ + 1]
    /\ UNCHANGED <<registryVars, registered, sessionOf, phase, active, pending, waitFor,
                   terminal, windowLeases, commandVars, owner, waitOn, startedIn, view, lost>>

transitionClientToSession(k, t) ==
    LET c == owner[k]
        s == sessionOf[c]
        v == Projection(c, t, activeWindow[t], EnteredLease(c, t))
    IN  /\ c # None
        /\ active[c] = k
        /\ revision[c] < MaxRevision
        /\ s \in sessions
        /\ t \in sessions
        /\ s # t
        /\ Switchable(c, s, t)
        /\ CommitSwitch(c, s, t)
        /\ \/ ApplyItself(k, v, "applying", MailAfterDisplacing(c, t))
           \/ PostToMailbox(k, v, MailAfterDisplacing(c, t))

Refreshed(c) ==
    LET s == sessionOf[c] IN Projection(c, s, activeWindow[s], windowLeases[activeWindow[s]])

refreshSession(k) ==
    LET c == owner[k] IN
    /\ c # None
    /\ active[c] = k
    /\ revision[c] < MaxRevision
    /\ sessionOf[c] \in sessions
    /\ CommitRefresh(c)
    /\ \/ ApplyItself(k, Refreshed(c), "applying", mail)
       \/ PostToMailbox(k, Refreshed(c), mail)

\* A frontend resize, accepted only from the controller of the session.
resizeClientView(k) ==
    LET c == owner[k] IN
    /\ pc[k] = "attached"
    /\ revision[c] < MaxRevision
    /\ IF active[c] = k /\ sessionOf[c] \in sessions /\ controller[sessionOf[c]] = c
         THEN CommitRefresh(c) /\ ApplyItself(k, Refreshed(c), "resizing", mail)
         ELSE /\ Goto(k, "detaching")
              /\ UNCHANGED <<registryVars, identityVars, windowLeases, commandVars,
                             owner, waitOn, startedIn, view, plan, mail, lost>>

-----------------------------------------------------------------------------
(* Ending a session, a connection, an instance *)

\* Mutated: the client of the session is not told.
MailAfterShutdown_Silent(c) == mail

MailAfterShutdown(c) == IF c = None THEN mail ELSE Reserved(active[c], Exited)

shutdownSession(s) ==
    LET c == controller[s] IN
    /\ s \in sessions
    /\ sessions' = sessions \ {s}
    /\ controller' = [controller EXCEPT ![s] = None]
    /\ attachGrants' = [attachGrants EXCEPT ![s] = 0]
    /\ terminal' = [x \in Clients |-> x = c \/ terminal[x]]
    /\ phase' = [x \in Clients |-> IF x = c THEN "closing" ELSE phase[x]]
    /\ mail' = MailAfterShutdown(c)
    /\ windowLeases' = [w \in Windows |->
            IF windowLeases[w] # None /\ windowLeases[w].session = s THEN None
            ELSE windowLeases[w]]
    /\ UNCHANGED <<activeWindow, registered, sessionOf, active, pending, waitFor, revision,
                   commandVars, pc, owner, waitOn, startedIn, view, plan, lost>>

\* The frontend's transport fails.  The server notices later, at its own pace.
\* A frontend that has not got its resume token yet has nothing to come back with.
transportLost(k) ==
    /\ pc[k] \notin {"idle", "detaching", "releasing", "discarding", "done"}
    /\ pc[k] = "notifying" => \E j \in Conns \ {k} : owner[j] = owner[k]
    /\ k \notin lost
    /\ lost' = lost \cup {k}
    /\ UNCHANGED <<registryVars, identityVars, windowLeases, commandVars,
                   pc, owner, waitOn, startedIn, view, plan, mail>>

\* The mailbox delivers a Close: the transport is closed with a code, or the
\* frontend is asked to leave.  The connection is revoked, so either way the
\* instance acts on no further frame of its frontend.
runClose(k) ==
    /\ Serving(k)
    /\ mail[k] # <<>>
    /\ Head(mail[k]).type = "close"
    /\ mail' = [mail EXCEPT ![k] = Tail(@)]
    /\ lost' = IF Head(mail[k]).code = "replaced" THEN lost \cup {k} ELSE lost
    /\ Goto(k, "exiting")
    /\ UNCHANGED <<registryVars, identityVars, windowLeases, commandVars,
                   owner, waitOn, startedIn, view, plan>>

LeaveFor(k, stage) ==
    /\ Goto(k, stage)
    /\ UNCHANGED <<registryVars, identityVars, windowLeases, commandVars,
                   owner, waitOn, startedIn, view, plan, mail, lost>>

\* The user detaches: the frontend is asked to leave.
userDetaches(k) == pc[k] = "attached" /\ LeaveFor(k, "exiting")

\* MsgFrontendTerminalExitComplete
exitCompleted(k) == pc[k] = "exiting" /\ k \notin lost /\ LeaveFor(k, "detaching")

\* conn.Context().Done() ends the serve loop.
noticeLoss(k) == Serving(k) /\ k \in lost /\ LeaveFor(k, "detaching")

\* close(lifetimeDone): the instance's state and its mailbox go with it.
EndOfLifetime(k) ==
    /\ Goto(k, "done")
    /\ waitOn' = [waitOn EXCEPT ![k] = None]
    /\ startedIn' = [startedIn EXCEPT ![k] = None]
    /\ view' = [view EXCEPT ![k] = NoView]
    /\ mail' = [mail EXCEPT ![k] = <<>>]
    /\ UNCHANGED <<owner, plan, lost>>

PhaseAfterDetach(c) == IF pending[c] # None THEN "pending" ELSE "detached"

\* detachClientInstance, first transaction.  The session it clears is the
\* one the instance last installed.
detachClientInstance(k) ==
    LET c == owner[k]
        s == view[k].session
    IN  /\ pc[k] = "detaching"
        /\ IF active[c] = k
             THEN /\ active' = [active EXCEPT ![c] = None]
                  /\ phase' = [phase EXCEPT ![c] = PhaseAfterDetach(c)]
                  /\ controller' = [x \in Sessions |->
                        IF x = s /\ s \in sessions /\ controller[x] = c
                          THEN None ELSE controller[x]]
                  /\ Goto(k, "releasing")
                  /\ UNCHANGED <<owner, waitOn, startedIn, view, plan, mail, lost>>
             ELSE /\ EndOfLifetime(k)
                  /\ UNCHANGED <<active, phase, controller>>
        /\ UNCHANGED <<sessions, activeWindow, attachGrants, registered, sessionOf, pending,
                       waitFor, terminal, revision, windowLeases, commandVars>>

\* detachClientInstance, second transaction, and the end of the goroutine.
releaseWindowView(k) ==
    LET matches(w) == /\ w = view[k].window
                      /\ windowLeases[w] # None
                      /\ windowLeases[w].client = owner[k]
                      /\ windowLeases[w].generation = view[k].generation
    IN  /\ pc[k] = "releasing"
        /\ windowLeases' = [w \in Windows |-> IF matches(w) THEN None ELSE windowLeases[w]]
        /\ EndOfLifetime(k)
        /\ UNCHANGED <<registryVars, identityVars, commandVars>>

\* An instance that never reached its serve loop.
discardPendingClientInstance(k) ==
    LET c == owner[k] IN
    /\ pc[k] = "discarding"
    /\ IF pending[c] = k
         THEN /\ pending' = [pending EXCEPT ![c] = None]
              /\ phase' = [phase EXCEPT ![c] = IF active[c] # None THEN "active" ELSE "detached"]
         ELSE UNCHANGED <<pending, phase>>
    /\ EndOfLifetime(k)
    /\ UNCHANGED <<registryVars, registered, sessionOf, active, waitFor, terminal, revision,
                   windowLeases, commandVars>>

-----------------------------------------------------------------------------
(* The steps connection k's goroutines take without outside help.  A frontend *)
(* told to leave (FrontendExecuteTerminalExitCommand) acknowledges it.        *)
Progress(k) ==
    \/ displacedNotified(k)
    \/ openStreamsFails(k)
    \/ initializeBegin(k)
    \/ initializeRefused(k)
    \/ initializePromotes(k)
    \/ installInitialView(k)
    \/ applyOwnTransition(k)
    \/ applyResize(k)
    \/ applyDeliveredTransition(k)
    \/ noticeLoss(k)
    \/ runClose(k)
    \/ exitCompleted(k)
    \/ detachClientInstance(k)
    \/ releaseWindowView(k)
    \/ discardPendingClientInstance(k)

FrontendStep(k) ==
    \/ \E c \in Clients, s \in Sessions : admitSessionConnection(k, c, s)
    \/ \E c \in Clients : admitResumedConnection(k, c)
    \/ \E w \in Windows : selectWindowItself(k, w)
    \/ \E t \in Sessions : transitionClientToSession(k, t)
    \/ refreshSession(k)
    \/ resizeClientView(k)
    \/ transportLost(k)
    \/ userDetaches(k)

CommandStep(s) ==
    \/ issueAttachGrant(s)
    \/ discardAttachGrant(s)
    \/ resolveSelect(s)
    \/ \E w \in Windows : selectResolvedWindow(s, w)
    \/ selectRejected(s)
    \/ selectPanics(s)
    \/ shutdownSession(s)

Next ==
    \/ \E k \in Conns : Progress(k) \/ FrontendStep(k)
    \/ \E k \in Conns : \E i \in DOMAIN mail[k] : cancelDelivery(k, i)
    \/ \E s \in Sessions : CommandStep(s)

Fairness == \A k \in Conns : WF_vars(Progress(k))

Spec == Init /\ [][Next]_vars
FairSpec == Spec /\ Fairness
-----------------------------------------------------------------------------
(* Safety *)

\* A client controls no session but the one it is assigned to: the daemon
\* moves SessionState.ClientID and ClientIdentity.SessionID together, across
\* takeover, switch, shutdown and a detach that looks at the instance's copy.
ControllerAssigned ==
    \A s \in Sessions : controller[s] # None =>
        controller[s] \in registered /\ sessionOf[controller[s]] = s

\* Every window lease was granted to a client assigned to the lease's session,
\* which still lives and has that window as its active one, however selections,
\* switches and resumes interleave.
LeaseMatchesAssignment ==
    \A w \in Windows : windowLeases[w] # None =>
        /\ windowLeases[w].session \in sessions
        /\ activeWindow[windowLeases[w].session] = w
        /\ sessionOf[windowLeases[w].client] = windowLeases[w].session

\* A client holds at most one lease: every acquire releases the one before.
OneLeasePerClient ==
    \A v, w \in Windows :
        /\ windowLeases[v] # None
        /\ windowLeases[w] # None
        /\ windowLeases[v].client = windowLeases[w].client
        => v = w

\* Who controls a session, who is assigned to it and who has the lease of its window
\* say the same after every handler, although each is kept in a place of its own.
AssignmentAgrees ==
    /\ TypeOK
    /\ ControllerAssigned
    /\ LeaseMatchesAssignment
    /\ OneLeasePerClient

\* Phase, which decides whether a session counts as occupied, agrees with the
\* connections the identity has: a detached client has none.
PhaseAgrees ==
    \A c \in registered :
        /\ phase[c] = "detached" => active[c] = None /\ pending[c] = None
        /\ phase[c] = "pending" => active[c] = None /\ pending[c] # None
        /\ phase[c] \in {"active", "replacing"} => active[c] # None
        /\ phase[c] = "replacing" => pending[c] # None

\* initializeClient blocks only on a connection that has been promoted, which
\* itself waits for nobody: admissions cannot wait for each other in a circle.
WaitsForPromotedOnly ==
    \A k \in Conns : waitOn[k] # None =>
        pc[waitOn[k]] \notin {"idle", "notifying", "admitted", "waiting"}

\* An instance that serves a frontend is its client's active connection: no
\* resume or takeover is promoted beside it, so what the instance prepared with
\* the daemon is still its own when it applies it.
ServingIsActive ==
    \A k \in Conns :
        pc[k] \in {"installing", "attached", "applying", "resizing", "exiting"} =>
            active[owner[k]] = k

\* The connections of a client take turns: its phase tells which it has, none waits in
\* a circle, and none serves but the promoted one.
ConnectionsTakeTurns ==
    /\ PhaseAgrees
    /\ WaitsForPromotedOnly
    /\ ServingIsActive

\* Once the mailbox of the active connection is drained, the view the
\* instance installed is the daemon's: same session, its active window, and
\* the generation of the lease.
Settled(k) ==
    /\ pc[k] = "attached"
    /\ active[owner[k]] = k
    /\ controller[sessionOf[owner[k]]] = owner[k]
    /\ \A i \in DOMAIN mail[k] : mail[k][i].type # "view"

SettledViewIsCanonical ==
    \A k \in Conns : Settled(k) =>
        LET w == activeWindow[sessionOf[owner[k]]] IN
        /\ view[k].session = sessionOf[owner[k]]
        /\ view[k].window = w
        /\ windowLeases[w] # None /\ windowLeases[w].client = owner[k] =>
              view[k].generation = windowLeases[w].generation

-----------------------------------------------------------------------------
(* Actions *)

\* No client that was told a terminal reason is promoted again.
TerminalIsFinal ==
    [][\A c \in Clients : terminal[c] => terminal'[c] /\ active'[c] \in {active[c], None}]_vars

\* A lease passes from one client to another only by ending the first one.
LeaseIsNotStolen ==
    [][\A w \in Windows :
          windowLeases[w] # None /\ windowLeases'[w] # None =>
              \/ windowLeases'[w].client = windowLeases[w].client
              \/ terminal'[windowLeases[w].client]]_vars

-----------------------------------------------------------------------------
(* Liveness *)

\* Every admission is decided: the displaced connection is told, has gone,
\* and the new one is attached or turned away.
AdmissionIsDecided ==
    \A k \in Conns :
        pc[k] \in {"notifying", "admitted", "waiting"} ~>
            pc[k] \notin {"notifying", "admitted", "waiting"}

\* A connection displaced by a takeover or a shutdown comes to its end.
TerminalClientLeaves ==
    \A k \in Conns :
        owner[k] # None /\ terminal[owner[k]] ~> pc[k] = "done"

-----------------------------------------------------------------------------
(* What the documents promise and the code does not keep *)

\* ARCHITECTURE.md: each attached client owns one WindowViewLease.
AttachedClientOwnsLease ==
    \A k \in Conns : Settled(k) =>
        \E w \in Windows : windowLeases[w] # None /\ windowLeases[w].client = owner[k]

\* ARCHITECTURE.md: a second client displaces the first, so what occupies a
\* session is a client that can be displaced.
OccupantIsLive ==
    \A s \in sessions : OccupiedByAnother(None, s) =>
        \E k \in Conns : owner[k] = controller[s] /\ pc[k] # "done"

\* selectWindow answers errSessionUnavailable for a session that is gone.
NeverPanics == ~panicked

=============================================================================
