----------------------- MODULE ClientLifecycleProofs -----------------------
(***************************************************************************)
(* Theorems about ClientLifecycle, for any clients, connections, sessions,  *)
(* windows and group structure.                                             *)
(***************************************************************************)
EXTENDS ClientLifecycle, TLAPS

USE NoneIsNoID, WindowsAssumption, BoundsAssumption

-----------------------------------------------------------------------------
(* Values the actions build *)

\* The absence of a view is one of the values a view variable takes.
LEMMA NoViewIsView == NoView \in View
BY DEF NoView, View

\* A projection the daemon plans is a view.
LEMMA ProjectionIsView ==
    ASSUME TypeOK, NEW c \in Clients, NEW s \in Sessions, NEW w \in Windows,
           NEW lease \in Lease \cup {None}
    PROVE  Projection(c, s, w, lease) \in View
BY DEF TypeOK, Projection, View, Lease

\* What an instance installs from a plan is a view.
LEMMA AppliedIsView ==
    ASSUME TypeOK, NEW k \in Conns, NEW v \in View
    PROVE  Applied(k, v) \in View
BY DEF TypeOK, Applied, View

\* The deliveries handlers post are deliveries.
LEMMA DeliveriesAreDeliveries ==
    /\ \A v \in View : ViewDelivery(v) \in Delivery
    /\ \A k \in Conns : ReplacedBy(k) \in Delivery
    /\ ReplacedBy(None) \in Delivery
    /\ Exited \in Delivery
BY DEF Delivery, ViewDelivery, ReplacedBy, Exited

\* A mailbox that reserved a delivery is a mailbox.
LEMMA ReservedIsMail ==
    ASSUME mail \in [Conns -> Seq(Delivery)], NEW k, NEW d \in Delivery
    PROVE  Reserved(k, d) \in [Conns -> Seq(Delivery)]
BY DEF Reserved

\* A mailbox that lost a cancelled delivery is a mailbox.
LEMMA RemoveAtIsSeq ==
    ASSUME NEW S, NEW q \in Seq(S), NEW i \in DOMAIN q
    PROVE  RemoveAt(q, i) \in Seq(S)
BY DEF RemoveAt

\* Moving a client's lease yields a lease table.
LEMMA AcquireThenReleaseIsLeases ==
    ASSUME TypeOK, NEW w \in Windows, NEW lease \in Lease, NEW old
    PROVE  AcquireThenRelease(w, lease, old) \in [Windows -> Lease \cup {None}]
BY DEF TypeOK, AcquireThenRelease

\* What the lease helpers return is typed.
LEMMA LeaseTypes ==
    ASSUME TypeOK, NEW c \in Clients, NEW s \in Sessions, NEW w \in Windows
    PROVE  /\ SelectedLease(c, s, w) \in Lease
           /\ EnteredLease(c, s) \in Lease
           /\ \A g \in Nat \ {0} : LeaseTo(s, c, g) \in Lease
BY DEF TypeOK, SelectedLease, EnteredLease, LeaseTo, Lease

\* The end of a connection goroutine keeps the types.
LEMMA EndOfLifetimeIsTyped ==
    ASSUME TypeOK, NEW k \in Conns, EndOfLifetime(k)
    PROVE  /\ pc' \in [Conns -> Stage]
           /\ \A j \in Conns : pc'[j] \notin {"idle", "done"} => owner'[j] # None
           /\ waitOn' \in [Conns -> Conns \cup {None}]
           /\ startedIn' \in [Conns -> Sessions \cup {None}]
           /\ view' \in [Conns -> View]
           /\ mail' \in [Conns -> Seq(Delivery)]
BY NoViewIsView DEF TypeOK, EndOfLifetime, Goto, Stage

\* A connection that enters admission keeps the types.
LEMMA EnterAdmissionIsTyped ==
    ASSUME TypeOK, NEW k \in Conns, NEW c \in Clients, NEW displaced \in Conns \cup {None},
           sessionOf' \in [Clients -> Sessions \cup {None}], EnterAdmission(k, c, displaced)
    PROVE  /\ owner' \in [Conns -> Clients \cup {None}]
           /\ pc' \in [Conns -> Stage]
           /\ \A j \in Conns : pc'[j] \notin {"idle", "done"} => owner'[j] # None
           /\ waitOn' \in [Conns -> Conns \cup {None}]
           /\ view' \in [Conns -> View]
           /\ mail' \in [Conns -> Seq(Delivery)]
<1>1. owner' = [owner EXCEPT ![k] = c]
  BY DEF EnterAdmission
<1>2. pc' \in [Conns -> Stage]
  BY DEF TypeOK, EnterAdmission, Goto, Stage
<1>3. \A j \in Conns : pc'[j] \notin {"idle", "done"} => owner'[j] # None
  BY <1>1 DEF TypeOK, EnterAdmission, Goto
<1>4. view' \in [Conns -> View]
  <2>1. sessionOf'[c] \in Sessions \cup {None} /\ view[k] \in View
    BY DEF TypeOK
  <2>2. [view[k] EXCEPT !.session = sessionOf'[c]] \in View
    BY <2>1 DEF View
  <2>3. view' = [view EXCEPT ![k] = [view[k] EXCEPT !.session = sessionOf'[c]]]
    BY DEF TypeOK, EnterAdmission
  <2> QED BY <2>2, <2>3 DEF TypeOK
<1>5. ReplacedBy(k) \in Delivery
  BY DeliveriesAreDeliveries
<1>6. mail' \in [Conns -> Seq(Delivery)]
  BY <1>5, ReservedIsMail DEF TypeOK, EnterAdmission
<1> QED BY <1>1, <1>2, <1>3, <1>4, <1>6 DEF TypeOK, EnterAdmission

\* An instance that holds its own transition keeps the types.
LEMMA ApplyItselfIsTyped ==
    ASSUME TypeOK, NEW k \in Conns, NEW v \in View, NEW stage \in Stage,
           NEW mail2 \in [Conns -> Seq(Delivery)], ApplyItself(k, v, stage, mail2)
    PROVE  /\ pc' \in [Conns -> Stage]
           /\ \A j \in Conns : pc'[j] \notin {"idle", "done"} => owner[j] # None
           /\ plan' \in [Conns -> View]
           /\ mail' \in [Conns -> Seq(Delivery)]
BY DEF TypeOK, ApplyItself, Goto

\* A delivery put in a mailbox keeps the types.
LEMMA PostToMailboxIsTyped ==
    ASSUME TypeOK, NEW k, NEW v \in View,
           NEW mail2 \in [Conns -> Seq(Delivery)], PostToMailbox(k, v, mail2)
    PROVE  /\ pc' \in [Conns -> Stage]
           /\ \A j \in Conns : pc'[j] \notin {"idle", "done"} => owner[j] # None
           /\ plan' \in [Conns -> View]
           /\ mail' \in [Conns -> Seq(Delivery)]
BY DeliveriesAreDeliveries DEF TypeOK, PostToMailbox

\* The daemon starts with every variable typed.
LEMMA InitTypeOK == Init => TypeOK
<1> SUFFICES ASSUME Init PROVE TypeOK
  OBVIOUS
<1>1. /\ sessions \subseteq Sessions
      /\ controller \in [Sessions -> Clients \cup {None}]
      /\ activeWindow \in [Sessions -> Windows]
      /\ attachGrants \in [Sessions -> Nat]
      /\ resolved \in [Sessions -> Clients \cup {None}]
  BY DEF Init
<1>2. /\ registered \subseteq Clients
      /\ sessionOf \in [Clients -> Sessions \cup {None}]
      /\ phase \in [Clients -> Phase]
      /\ active \in [Clients -> Conns \cup {None}]
      /\ pending \in [Clients -> Conns \cup {None}]
      /\ waitFor \in [Clients -> Conns \cup {None}]
      /\ revision \in [Clients -> Nat]
  BY DEF Init, Phase
<1>3. /\ terminal \in [Clients -> BOOLEAN]
      /\ panicked \in BOOLEAN
  BY DEF Init
<1>4. windowLeases \in [Windows -> Lease \cup {None}]
  BY DEF Init
<1>5. /\ pc \in [Conns -> Stage]
      /\ owner \in [Conns -> Clients \cup {None}]
      /\ waitOn \in [Conns -> Conns \cup {None}]
      /\ startedIn \in [Conns -> Sessions \cup {None}]
      /\ lost \subseteq Conns
      /\ \A k \in Conns : pc[k] \notin {"idle", "done"} => owner[k] # None
  BY DEF Init, Stage
<1>6. view \in [Conns -> View] /\ plan \in [Conns -> View]
  BY NoViewIsView DEF Init
<1>7. mail \in [Conns -> Seq(Delivery)]
  BY DEF Init
<1> QED BY <1>1, <1>2, <1>3, <1>4, <1>5, <1>6, <1>7 DEF TypeOK

\* issueAttachGrant keeps every variable's type.
LEMMA issueAttachGrant_Type ==
    ASSUME TypeOK, NEW s \in Sessions, issueAttachGrant(s)
    PROVE  TypeOK'
BY DEF TypeOK, issueAttachGrant, registryVars, identityVars, commandVars, connVars

\* discardAttachGrant keeps every variable's type.
LEMMA discardAttachGrant_Type ==
    ASSUME TypeOK, NEW s \in Sessions, discardAttachGrant(s)
    PROVE  TypeOK'
BY DEF TypeOK, discardAttachGrant, registryVars, identityVars, commandVars, connVars

\* admitSessionConnection keeps every variable's type.
LEMMA admitSessionConnection_Type ==
    ASSUME TypeOK, NEW k \in Conns, NEW c \in Clients, NEW s \in Sessions, admitSessionConnection(k, c, s)
    PROVE  TypeOK'
<1> DEFINE displaced == Displaced(controller[s])
<1>1. displaced \in Conns \cup {None}
  BY DEF TypeOK, Displaced
<1>2. sessionOf' \in [Clients -> Sessions \cup {None}]
  BY DEF TypeOK, admitSessionConnection
<1>3. /\ pending' \in [Clients -> Conns \cup {None}]
      /\ waitFor' \in [Clients -> Conns \cup {None}]
      /\ registered' \subseteq Clients
      /\ attachGrants' \in [Sessions -> Nat]
  BY <1>1 DEF TypeOK, admitSessionConnection
<1>4. EnterAdmission(k, c, displaced)
  BY DEF admitSessionConnection
<1>5. /\ owner' \in [Conns -> Clients \cup {None}]
      /\ pc' \in [Conns -> Stage]
      /\ \A j \in Conns : pc'[j] \notin {"idle", "done"} => owner'[j] # None
      /\ waitOn' \in [Conns -> Conns \cup {None}]
      /\ view' \in [Conns -> View]
      /\ mail' \in [Conns -> Seq(Delivery)]
  BY <1>1, <1>2, <1>4, EnterAdmissionIsTyped
<1>6. phase' \in [Clients -> Phase]
  BY DEF TypeOK, admitSessionConnection, Phase
<1>7. terminal' \in [Clients -> BOOLEAN]
  <2>1. terminal' = [x \in Clients |-> x = controller[s] \/ terminal[x]]
    BY DEF admitSessionConnection
  <2> QED BY <2>1
<1> QED BY <1>2, <1>3, <1>4, <1>5, <1>6, <1>7 DEF TypeOK, admitSessionConnection, EnterAdmission, registryVars, identityVars, commandVars, connVars

\* admitResumedConnection keeps every variable's type.
LEMMA admitResumedConnection_Type ==
    ASSUME TypeOK, NEW k \in Conns, NEW c \in Clients, admitResumedConnection(k, c)
    PROVE  TypeOK'
<1>1. active[c] \in Conns \cup {None}
  BY DEF TypeOK
<1>2. sessionOf' \in [Clients -> Sessions \cup {None}]
  BY DEF TypeOK, admitResumedConnection, Displaced
<1>3. /\ pending' \in [Clients -> Conns \cup {None}]
      /\ waitFor' \in [Clients -> Conns \cup {None}]
      /\ phase' \in [Clients -> Phase]
  BY DEF TypeOK, admitResumedConnection, Displaced, Phase
<1>4. EnterAdmission(k, c, active[c])
  BY NoneIsNoID DEF admitResumedConnection, Displaced
<1>5. /\ owner' \in [Conns -> Clients \cup {None}]
      /\ pc' \in [Conns -> Stage]
      /\ \A j \in Conns : pc'[j] \notin {"idle", "done"} => owner'[j] # None
      /\ waitOn' \in [Conns -> Conns \cup {None}]
      /\ view' \in [Conns -> View]
      /\ mail' \in [Conns -> Seq(Delivery)]
  BY <1>1, <1>2, <1>4, EnterAdmissionIsTyped
<1> QED BY <1>2, <1>3, <1>4, <1>5 DEF TypeOK, admitResumedConnection, EnterAdmission, registryVars, identityVars, commandVars, connVars

\* displacedNotified keeps every variable's type.
LEMMA displacedNotified_Type ==
    ASSUME TypeOK, NEW k \in Conns, displacedNotified(k)
    PROVE  TypeOK'
BY DEF TypeOK, displacedNotified, Goto, Stage, registryVars, identityVars, commandVars, connVars

\* openStreamsFails keeps every variable's type.
LEMMA openStreamsFails_Type ==
    ASSUME TypeOK, NEW k \in Conns, openStreamsFails(k)
    PROVE  TypeOK'
BY DEF TypeOK, openStreamsFails, Goto, Stage, registryVars, identityVars, commandVars, connVars

\* initializeBegin keeps every variable's type.
LEMMA initializeBegin_Type ==
    ASSUME TypeOK, NEW k \in Conns, initializeBegin(k)
    PROVE  TypeOK'
<1>1. owner[k] \in Clients
  BY DEF TypeOK, initializeBegin
<1>2. CASE StillPending(k, owner[k])
  <2>1. pc' = [pc EXCEPT ![k] = "waiting"]
    BY <1>2 DEF initializeBegin, Goto
  <2>2. pc' \in [Conns -> Stage] /\ \A j \in Conns : pc'[j] \notin {"idle", "done"} => owner[j] # None
    BY <1>1, <2>1 DEF TypeOK, Stage
  <2>3. startedIn' \in [Conns -> Sessions \cup {None}]
    <3>1. sessionOf[owner[k]] \in Sessions \cup {None}
      BY <1>1 DEF TypeOK
    <3>2. startedIn' = [startedIn EXCEPT ![k] = sessionOf[owner[k]]]
      BY <1>2 DEF initializeBegin
    <3> QED BY <3>1, <3>2 DEF TypeOK
  <2>4. waitOn' \in [Conns -> Conns \cup {None}]
    <3> DEFINE previous == IF active[owner[k]] # None THEN active[owner[k]] ELSE waitFor[owner[k]]
    <3>1. previous \in Conns \cup {None}
      BY <1>1 DEF TypeOK
    <3>2. waitOn' = [waitOn EXCEPT ![k] = previous]
      BY <1>2 DEF initializeBegin
    <3> QED BY <3>1, <3>2 DEF TypeOK
  <2> QED BY <2>2, <2>3, <2>4 DEF TypeOK, initializeBegin, registryVars, identityVars, commandVars, connVars
<1>3. CASE ~StillPending(k, owner[k])
  BY <1>1, <1>3 DEF TypeOK, initializeBegin, Goto, Stage, registryVars, identityVars, commandVars, connVars
<1> QED BY <1>2, <1>3

\* initializeRefused keeps every variable's type.
LEMMA initializeRefused_Type ==
    ASSUME TypeOK, NEW k \in Conns, initializeRefused(k)
    PROVE  TypeOK'
BY DEF TypeOK, initializeRefused, Goto, Stage, registryVars, identityVars, commandVars, connVars

\* initializePromotes keeps every variable's type.
LEMMA initializePromotes_Type ==
    ASSUME TypeOK, NEW k \in Conns, initializePromotes(k)
    PROVE  TypeOK'
<1> DEFINE c == owner[k]
           s == sessionOf[c]
           w == activeWindow[s]
           current == windowLeases[w]
<1>1. c \in Clients /\ s \in Sessions /\ w \in Windows /\ current \in Lease \cup {None}
  BY DEF TypeOK, initializePromotes, StillPending
<1>2. /\ active' \in [Clients -> Conns \cup {None}]
      /\ pending' \in [Clients -> Conns \cup {None}]
      /\ waitFor' \in [Clients -> Conns \cup {None}]
      /\ phase' \in [Clients -> Phase]
      /\ controller' \in [Sessions -> Clients \cup {None}]
  BY <1>1 DEF TypeOK, initializePromotes, CommitPromotion, Phase
<1>3. /\ waitOn' \in [Conns -> Conns \cup {None}]
      /\ startedIn' \in [Conns -> Sessions \cup {None}]
  BY DEF TypeOK, initializePromotes
<1>4. /\ pc' \in [Conns -> Stage]
      /\ \A j \in Conns : pc'[j] \notin {"idle", "done"} => owner[j] # None
  <2>1. \E stage \in {"discarding", "installing"} : pc' = [pc EXCEPT ![k] = stage]
    BY DEF initializePromotes, Goto
  <2> QED BY <1>1, <2>1 DEF TypeOK, Stage
<1>5. /\ windowLeases' \in [Windows -> Lease \cup {None}]
      /\ plan' \in [Conns -> View]
      /\ revision' \in [Clients -> Nat]
  <2>1. CASE current # None /\ current.client # c
    BY <2>1 DEF TypeOK, initializePromotes
  <2>2. CASE ~(current # None /\ current.client # c)
    <3> DEFINE generation(old) == IF current = None THEN 1
                                  ELSE IF old = w THEN current.generation
                                  ELSE current.generation + 1
               lease(old) == LeaseTo(s, c, generation(old))
    <3>1. PICK old \in windowForClientNow(c) :
            /\ windowLeases' = AcquireThenRelease(w, lease(old), old)
            /\ plan' = [plan EXCEPT ![k] = Projection(c, s, w, lease(old))]
            /\ revision' = [revision EXCEPT ![c] = @ + 1]
      BY <2>2 DEF initializePromotes
    <3>2. generation(old) \in Nat \ {0}
      BY <1>1 DEF Lease
    <3>3. lease(old) \in Lease
      BY <1>1, <3>2, LeaseTypes
    <3>4. windowLeases' \in [Windows -> Lease \cup {None}]
      BY <1>1, <3>1, <3>3, AcquireThenReleaseIsLeases
    <3>5. Projection(c, s, w, lease(old)) \in View
      BY <1>1, <3>3, ProjectionIsView
    <3> HIDE DEF lease
    <3> QED BY <1>1, <3>1, <3>4, <3>5 DEF TypeOK
  <2> QED BY <2>1, <2>2
<1> QED BY <1>2, <1>3, <1>4, <1>5 DEF TypeOK, initializePromotes, CommitPromotion, registryVars, identityVars, commandVars, connVars

\* installInitialView keeps every variable's type.
LEMMA installInitialView_Type ==
    ASSUME TypeOK, NEW k \in Conns, installInitialView(k)
    PROVE  TypeOK'
BY AppliedIsView, NoViewIsView DEF TypeOK, installInitialView, ApplyPlan, Goto, Stage, registryVars, identityVars, commandVars, connVars

\* applyOwnTransition keeps every variable's type.
LEMMA applyOwnTransition_Type ==
    ASSUME TypeOK, NEW k \in Conns, applyOwnTransition(k)
    PROVE  TypeOK'
BY AppliedIsView, NoViewIsView DEF TypeOK, applyOwnTransition, ApplyPlan, Goto, Stage, registryVars, identityVars, commandVars, connVars

\* applyResize keeps every variable's type.
LEMMA applyResize_Type ==
    ASSUME TypeOK, NEW k \in Conns, applyResize(k)
    PROVE  TypeOK'
BY AppliedIsView, NoViewIsView DEF TypeOK, applyResize, ApplyPlan, Goto, Stage, registryVars, identityVars, commandVars, connVars

\* applyDeliveredTransition keeps every variable's type.
LEMMA applyDeliveredTransition_Type ==
    ASSUME TypeOK, NEW k \in Conns, applyDeliveredTransition(k)
    PROVE  TypeOK'
<1>1. Head(mail[k]).view \in View
  BY DEF TypeOK, applyDeliveredTransition, Delivery
<1>2. view' \in [Conns -> View]
  BY <1>1, AppliedIsView DEF TypeOK, applyDeliveredTransition
<1>3. mail' \in [Conns -> Seq(Delivery)]
  BY DEF TypeOK, applyDeliveredTransition
<1> QED BY <1>2, <1>3 DEF TypeOK, applyDeliveredTransition, registryVars, identityVars, commandVars, connVars

\* cancelDelivery keeps every variable's type.
LEMMA cancelDelivery_Type ==
    ASSUME TypeOK, NEW k \in Conns, NEW i \in DOMAIN mail[k], cancelDelivery(k, i)
    PROVE  TypeOK'
BY RemoveAtIsSeq DEF TypeOK, cancelDelivery, registryVars, identityVars, commandVars, connVars

\* selectWindowItself keeps every variable's type.
LEMMA selectWindowItself_Type ==
    ASSUME TypeOK, NEW k \in Conns, NEW w \in Windows, selectWindowItself(k, w)
    PROVE  TypeOK'
<1> DEFINE c == owner[k]
           s == view[k].session
           lease == SelectedLease(c, s, w)
           v == Projection(c, s, w, lease)
<1>1. c \in Clients /\ s \in Sessions
  BY DEF TypeOK, selectWindowItself
<1>2. lease \in Lease
  BY <1>1, LeaseTypes
<1>3. v \in View
  BY <1>1, <1>2, ProjectionIsView
<1>4. CommitSelection(c, s, w) /\ ApplyItself(k, v, "applying", mail) /\ resolved' = resolved
  BY DEF selectWindowItself
<1> HIDE DEF v
<1>5. plan' \in [Conns -> View]
  BY <1>3, <1>4 DEF TypeOK, ApplyItself
<1>6. pc' \in [Conns -> Stage] /\ \A j \in Conns : pc'[j] \notin {"idle", "done"} => owner[j] # None
  BY <1>1, <1>4 DEF TypeOK, ApplyItself, Goto, Stage
<1>7. /\ windowLeases' \in [Windows -> Lease \cup {None}]
      /\ activeWindow' \in [Sessions -> Windows]
      /\ revision' \in [Clients -> Nat]
  BY <1>1, <1>2, <1>4, AcquireThenReleaseIsLeases DEF TypeOK, CommitSelection
<1> QED BY <1>4, <1>5, <1>6, <1>7 DEF TypeOK, ApplyItself, CommitSelection

\* resolveSelect keeps every variable's type.
LEMMA resolveSelect_Type ==
    ASSUME TypeOK, NEW s \in Sessions, resolveSelect(s)
    PROVE  TypeOK'
BY DEF TypeOK, resolveSelect, registryVars, identityVars, commandVars, connVars

\* selectResolvedWindow keeps every variable's type.
LEMMA selectResolvedWindow_Type ==
    ASSUME TypeOK, NEW s \in Sessions, NEW w \in Windows, selectResolvedWindow(s, w)
    PROVE  TypeOK'
BY ProjectionIsView, AcquireThenReleaseIsLeases, LeaseTypes, DeliveriesAreDeliveries DEF TypeOK, selectResolvedWindow, CommitSelection, PostToMailbox, Selectable, registryVars, identityVars, commandVars, connVars

\* selectRejected keeps every variable's type.
LEMMA selectRejected_Type ==
    ASSUME TypeOK, NEW s \in Sessions, selectRejected(s)
    PROVE  TypeOK'
BY DEF TypeOK, selectRejected, registryVars, identityVars, commandVars, connVars

\* selectPanics keeps every variable's type.
LEMMA selectPanics_Type ==
    ASSUME TypeOK, NEW s \in Sessions, selectPanics(s)
    PROVE  TypeOK'
BY NoViewIsView DEF TypeOK, selectPanics, Stage, registryVars, identityVars, commandVars, connVars

\* transitionClientToSession keeps every variable's type.
LEMMA transitionClientToSession_Type ==
    ASSUME TypeOK, NEW k \in Conns, NEW t \in Sessions, transitionClientToSession(k, t)
    PROVE  TypeOK'
<1> DEFINE c == owner[k]
           s == sessionOf[c]
           v == Projection(c, t, activeWindow[t], EnteredLease(c, t))
           posted == MailAfterDisplacing(c, t)
<1>1. c \in Clients /\ s \in Sessions /\ activeWindow[t] \in Windows
  BY DEF TypeOK, transitionClientToSession
<1>2. EnteredLease(c, t) \in Lease
  BY <1>1, LeaseTypes
<1>3. v \in View
  BY <1>1, <1>2, ProjectionIsView
<1>4. posted \in [Conns -> Seq(Delivery)]
  BY DeliveriesAreDeliveries, ReservedIsMail DEF TypeOK, MailAfterDisplacing
<1>5. CommitSwitch(c, s, t)
  BY DEF transitionClientToSession
<1>6. /\ windowLeases' \in [Windows -> Lease \cup {None}]
      /\ controller' \in [Sessions -> Clients \cup {None}]
      /\ sessionOf' \in [Clients -> Sessions \cup {None}]
      /\ phase' \in [Clients -> Phase]
      /\ revision' \in [Clients -> Nat]
  <2>1. windowLeases' \in [Windows -> Lease \cup {None}]
    BY <1>1, <1>2, <1>5, AcquireThenReleaseIsLeases DEF CommitSwitch
  <2>2. controller' \in [Sessions -> Clients \cup {None}]
    BY <1>1, <1>5 DEF TypeOK, CommitSwitch, ControllerAfterSwitch
  <2>3. sessionOf' \in [Clients -> Sessions \cup {None}] /\ revision' \in [Clients -> Nat]
    BY <1>1, <1>5 DEF TypeOK, CommitSwitch
  <2>4. phase' \in [Clients -> Phase]
    BY <1>5 DEF TypeOK, CommitSwitch, Phase
  <2> QED BY <2>1, <2>2, <2>3, <2>4
<1>7. terminal' \in [Clients -> BOOLEAN]
  <2>1. terminal' = [x \in Clients |-> x = DisplacedBy(c, t) \/ terminal[x]]
    BY <1>5 DEF CommitSwitch
  <2> QED BY <2>1
<1>8. ApplyItself(k, v, "applying", posted) \/ PostToMailbox(k, v, posted)
  BY DEF transitionClientToSession
<1> HIDE DEF v, posted
<1>9. /\ pc' \in [Conns -> Stage]
      /\ \A j \in Conns : pc'[j] \notin {"idle", "done"} => owner[j] # None
      /\ plan' \in [Conns -> View]
      /\ mail' \in [Conns -> Seq(Delivery)]
  <2>1. CASE ApplyItself(k, v, "applying", posted)
    BY <1>1, <1>3, <1>4, <2>1, ApplyItselfIsTyped DEF Stage
  <2>2. CASE PostToMailbox(k, v, posted)
    BY <1>3, <1>4, <2>2, PostToMailboxIsTyped
  <2> QED BY <1>8, <2>1, <2>2
<1> QED BY <1>5, <1>6, <1>7, <1>9 DEF TypeOK, CommitSwitch, registryVars, identityVars, commandVars, connVars

\* refreshSession keeps every variable's type.
LEMMA refreshSession_Type ==
    ASSUME TypeOK, NEW k \in Conns, refreshSession(k)
    PROVE  TypeOK'
<1> DEFINE c == owner[k]
<1>1. c \in Clients /\ sessionOf[c] \in Sessions /\ activeWindow[sessionOf[c]] \in Windows
  BY DEF TypeOK, refreshSession
<1>2. Refreshed(c) \in View
  BY <1>1, ProjectionIsView DEF Refreshed, TypeOK
<1>3. CommitRefresh(c) /\ revision' \in [Clients -> Nat]
  BY <1>1 DEF TypeOK, refreshSession, CommitRefresh
<1>4. CASE ApplyItself(k, Refreshed(c), "applying", mail)
  BY <1>1, <1>2, <1>3, <1>4, ApplyItselfIsTyped DEF TypeOK, ApplyItself, CommitRefresh, Stage, registryVars, identityVars, commandVars, connVars
<1>5. CASE PostToMailbox(k, Refreshed(c), mail)
  <2>1. /\ pc' \in [Conns -> Stage]
        /\ \A j \in Conns : pc'[j] \notin {"idle", "done"} => owner[j] # None
        /\ plan' \in [Conns -> View]
        /\ mail' \in [Conns -> Seq(Delivery)]
    <3>1. mail \in [Conns -> Seq(Delivery)]
      BY DEF TypeOK
    <3> QED BY <1>2, <1>5, <3>1, PostToMailboxIsTyped
  <2> QED BY <1>3, <2>1 DEF TypeOK, CommitRefresh, registryVars, identityVars, commandVars, connVars
<1> QED BY <1>4, <1>5 DEF refreshSession

\* resizeClientView keeps every variable's type.
LEMMA resizeClientView_Type ==
    ASSUME TypeOK, NEW k \in Conns, resizeClientView(k)
    PROVE  TypeOK'
<1> DEFINE c == owner[k]
           accepted == active[c] = k /\ sessionOf[c] \in sessions /\ controller[sessionOf[c]] = c
<1>1. c \in Clients
  BY DEF TypeOK, resizeClientView
<1>2. CASE accepted
  <2>1. CommitRefresh(c) /\ ApplyItself(k, Refreshed(c), "resizing", mail)
    BY <1>2 DEF resizeClientView
  <2>2. sessionOf[c] \in Sessions /\ activeWindow[sessionOf[c]] \in Windows
    BY <1>1, <1>2 DEF TypeOK
  <2>3. Refreshed(c) \in View
    BY <1>1, <2>2, ProjectionIsView DEF Refreshed, TypeOK
  <2>4. revision' \in [Clients -> Nat]
    BY <1>1, <2>1 DEF TypeOK, CommitRefresh
  <2> QED BY <1>1, <2>1, <2>3, <2>4, ApplyItselfIsTyped DEF TypeOK, ApplyItself, CommitRefresh, Stage, registryVars, identityVars, commandVars, connVars
<1>3. CASE ~accepted
  BY <1>1, <1>3 DEF TypeOK, resizeClientView, Goto, Stage, registryVars, identityVars, commandVars, connVars
<1> QED BY <1>2, <1>3

\* shutdownSession keeps every variable's type.
LEMMA shutdownSession_Type ==
    ASSUME TypeOK, NEW s \in Sessions, shutdownSession(s)
    PROVE  TypeOK'
BY DeliveriesAreDeliveries, ReservedIsMail DEF TypeOK, shutdownSession, MailAfterShutdown, Phase, registryVars, identityVars, commandVars, connVars

\* transportLost keeps every variable's type.
LEMMA transportLost_Type ==
    ASSUME TypeOK, NEW k \in Conns, transportLost(k)
    PROVE  TypeOK'
BY DEF TypeOK, transportLost, registryVars, identityVars, commandVars, connVars

\* runClose keeps every variable's type.
LEMMA runClose_Type ==
    ASSUME TypeOK, NEW k \in Conns, runClose(k)
    PROVE  TypeOK'
<1>1. owner[k] # None
  BY DEF TypeOK, runClose, Serving
<1>2. mail' \in [Conns -> Seq(Delivery)] /\ lost' \subseteq Conns
  BY DEF TypeOK, runClose
<1>3. pc' \in [Conns -> Stage] /\ \A j \in Conns : pc'[j] \notin {"idle", "done"} => owner[j] # None
  BY <1>1 DEF TypeOK, runClose, Goto, Stage
<1> QED BY <1>2, <1>3 DEF TypeOK, runClose, registryVars, identityVars, commandVars, connVars

\* userDetaches keeps every variable's type.
LEMMA userDetaches_Type ==
    ASSUME TypeOK, NEW k \in Conns, userDetaches(k)
    PROVE  TypeOK'
BY DEF TypeOK, userDetaches, LeaveFor, Goto, Stage, registryVars, identityVars, commandVars, connVars

\* exitCompleted keeps every variable's type.
LEMMA exitCompleted_Type ==
    ASSUME TypeOK, NEW k \in Conns, exitCompleted(k)
    PROVE  TypeOK'
BY DEF TypeOK, exitCompleted, LeaveFor, Goto, Stage, registryVars, identityVars, commandVars, connVars

\* noticeLoss keeps every variable's type.
LEMMA noticeLoss_Type ==
    ASSUME TypeOK, NEW k \in Conns, noticeLoss(k)
    PROVE  TypeOK'
BY DEF TypeOK, noticeLoss, Serving, LeaveFor, Goto, Stage, registryVars, identityVars, commandVars, connVars

\* detachClientInstance keeps every variable's type.
LEMMA detachClientInstance_Type ==
    ASSUME TypeOK, NEW k \in Conns, detachClientInstance(k)
    PROVE  TypeOK'
<1> DEFINE c == owner[k]
<1>1. c \in Clients
  BY DEF TypeOK, detachClientInstance
<1>2. CASE active[c] = k
  <2>1. active' \in [Clients -> Conns \cup {None}]
    BY <1>1, <1>2 DEF TypeOK, detachClientInstance
  <2>2. phase' \in [Clients -> Phase]
    BY <1>1, <1>2 DEF TypeOK, detachClientInstance, PhaseAfterDetach, Phase
  <2>3. controller' \in [Sessions -> Clients \cup {None}]
    BY <1>1, <1>2 DEF TypeOK, detachClientInstance
  <2>4. pc' \in [Conns -> Stage] /\ \A j \in Conns : pc'[j] \notin {"idle", "done"} => owner'[j] # None
    BY <1>1, <1>2 DEF TypeOK, detachClientInstance, Goto, Stage
  <2> QED BY <1>1, <1>2, <2>1, <2>2, <2>3, <2>4 DEF TypeOK, detachClientInstance, registryVars, identityVars, commandVars, connVars
<1>3. CASE active[c] # k
  BY <1>3, EndOfLifetimeIsTyped DEF TypeOK, detachClientInstance, EndOfLifetime, registryVars, identityVars, commandVars, connVars
<1> QED BY <1>2, <1>3

\* releaseWindowView keeps every variable's type.
LEMMA releaseWindowView_Type ==
    ASSUME TypeOK, NEW k \in Conns, releaseWindowView(k)
    PROVE  TypeOK'
BY EndOfLifetimeIsTyped DEF TypeOK, releaseWindowView, EndOfLifetime, registryVars, identityVars, commandVars, connVars

\* discardPendingClientInstance keeps every variable's type.
LEMMA discardPendingClientInstance_Type ==
    ASSUME TypeOK, NEW k \in Conns, discardPendingClientInstance(k)
    PROVE  TypeOK'
<1> DEFINE c == owner[k]
<1>1. c \in Clients
  BY DEF TypeOK, discardPendingClientInstance
<1>2. pending' \in [Clients -> Conns \cup {None}] /\ phase' \in [Clients -> Phase]
  BY <1>1 DEF TypeOK, discardPendingClientInstance, Phase
<1>3. EndOfLifetime(k)
  BY DEF discardPendingClientInstance
<1> QED BY <1>2, <1>3, EndOfLifetimeIsTyped DEF TypeOK, discardPendingClientInstance, EndOfLifetime, registryVars, identityVars, commandVars, connVars

-----------------------------------------------------------------------------
(* Type correctness *)

\* Every step keeps the types.
LEMMA TypeOKStep == TypeOK /\ [Next]_vars => TypeOK'
<1> SUFFICES ASSUME TypeOK, [Next]_vars PROVE TypeOK'
  OBVIOUS
<1>1. ASSUME NEW k \in Conns, Progress(k) PROVE TypeOK'
  BY <1>1, displacedNotified_Type, openStreamsFails_Type, initializeBegin_Type,
     initializeRefused_Type, initializePromotes_Type, installInitialView_Type,
     applyOwnTransition_Type, applyResize_Type,
     applyDeliveredTransition_Type, noticeLoss_Type, runClose_Type, exitCompleted_Type,
     detachClientInstance_Type, releaseWindowView_Type, discardPendingClientInstance_Type
     DEF Progress
<1>2. ASSUME NEW k \in Conns, FrontendStep(k) PROVE TypeOK'
  BY <1>2, admitSessionConnection_Type, admitResumedConnection_Type, selectWindowItself_Type,
     transitionClientToSession_Type, refreshSession_Type, resizeClientView_Type,
     transportLost_Type, userDetaches_Type DEF FrontendStep
<1>3. ASSUME NEW k \in Conns, NEW i \in DOMAIN mail[k], cancelDelivery(k, i) PROVE TypeOK'
  BY <1>3, cancelDelivery_Type
<1>4. ASSUME NEW s \in Sessions, CommandStep(s) PROVE TypeOK'
  BY <1>4, issueAttachGrant_Type, discardAttachGrant_Type, resolveSelect_Type,
     selectResolvedWindow_Type, selectRejected_Type, selectPanics_Type, shutdownSession_Type
     DEF CommandStep
<1>5. CASE UNCHANGED vars
  BY <1>5 DEF TypeOK, vars, registryVars, identityVars, commandVars, connVars
<1> QED BY <1>1, <1>2, <1>3, <1>4, <1>5 DEF Next

\* Every variable keeps its type, and an instance between its admission and
\* its end is some client's.
THEOREM TypeCorrect == Spec => []TypeOK
<1>1. Init => TypeOK
  BY InitTypeOK
<1>2. TypeOK /\ [Next]_vars => TypeOK'
  BY TypeOKStep
<1> QED BY <1>1, <1>2, PTL DEF Spec

-----------------------------------------------------------------------------
(* Leases and assignments.  The three invariants hold each other up: that a   *)
(* select releases the right lease needs OneLeasePerClient and the assignment *)
(* of the controller, and only an identity that was registered is assigned.   *)

AssignedIsRegistered ==
    \A c \in Clients : sessionOf[c] # None => c \in registered

LeaseInv ==
    ControllerAssigned /\ LeaseMatchesAssignment /\ OneLeasePerClient /\ AssignedIsRegistered

leaseVars == <<sessions, controller, activeWindow, registered, sessionOf, windowLeases>>

\* The lease invariant holds when the daemon starts: no leases, no sessions with clients.
LEMMA InitLeaseInv == Init => LeaseInv
BY DEF Init, LeaseInv, ControllerAssigned, LeaseMatchesAssignment, OneLeasePerClient,
       AssignedIsRegistered

\* A step that leaves the registry alone keeps the lease invariant.
LEMMA LeaseInvUnchanged ==
    ASSUME LeaseInv, UNCHANGED leaseVars
    PROVE  LeaseInv'
BY DEF LeaseInv, ControllerAssigned, LeaseMatchesAssignment, OneLeasePerClient,
       AssignedIsRegistered, leaseVars

\* Only an unregistered client is admitted to a session, and it holds nothing.
LEMMA admitSessionConnection_Lease ==
    ASSUME TypeOK, LeaseInv, NEW k \in Conns, NEW c \in Clients, NEW s \in Sessions,
           admitSessionConnection(k, c, s)
    PROVE  LeaseInv'
<1>1. c \notin registered /\ sessionOf[c] = None
  BY DEF admitSessionConnection, LeaseInv, AssignedIsRegistered
<1>2. /\ registered' = registered \cup {c}
      /\ sessionOf' = [sessionOf EXCEPT ![c] = s]
      /\ UNCHANGED <<sessions, controller, activeWindow, windowLeases>>
  BY DEF admitSessionConnection
<1>3. ControllerAssigned'
  BY <1>1, <1>2 DEF LeaseInv, ControllerAssigned, TypeOK
<1>4. LeaseMatchesAssignment'
  BY <1>1, <1>2 DEF LeaseInv, LeaseMatchesAssignment, TypeOK, Lease
<1>5. OneLeasePerClient'
  BY <1>2 DEF LeaseInv, OneLeasePerClient
<1>6. AssignedIsRegistered'
  BY <1>2 DEF LeaseInv, AssignedIsRegistered, TypeOK
<1> QED BY <1>3, <1>4, <1>5, <1>6 DEF LeaseInv

\* What acquiring w for c and releasing c's only other lease leaves behind.
LEMMA AcquireKeepsOneLease ==
    ASSUME TypeOK, OneLeasePerClient, NEW c \in Clients, NEW w \in Windows,
           NEW lease \in Lease, lease.client = c,
           NEW old, \A x \in LeasedBy(c) : x = old,
           windowLeases' = AcquireThenRelease(w, lease, old)
    PROVE  /\ OneLeasePerClient'
           /\ windowLeases'[w] = lease
           /\ \A x \in Windows \ {w} :
                 windowLeases'[x] # None =>
                    windowLeases'[x] = windowLeases[x] /\ windowLeases[x].client # c
<1>1. \A x \in Windows : windowLeases'[x] =
          IF x = w THEN lease ELSE IF x = old THEN None ELSE windowLeases[x]
  BY DEF AcquireThenRelease
<1>2. windowLeases'[w] = lease
  BY <1>1
<1>3. \A x \in Windows \ {w} :
          windowLeases'[x] # None =>
             windowLeases'[x] = windowLeases[x] /\ windowLeases[x].client # c
  BY <1>1 DEF LeasedBy
<1>4. OneLeasePerClient'
  BY <1>2, <1>3 DEF OneLeasePerClient
<1> QED BY <1>2, <1>3, <1>4

\* A promotion leases the active window of the session it makes its own, and
\* gives up whatever the client held before.
LEMMA initializePromotes_Lease ==
    ASSUME TypeOK, LeaseInv, NEW k \in Conns, initializePromotes(k)
    PROVE  LeaseInv'
<1> DEFINE c == owner[k]
           s == sessionOf[c]
           w == activeWindow[s]
           current == windowLeases[w]
<1>1. c \in Clients /\ s \in Sessions /\ s \in sessions /\ w \in Windows
      /\ current \in Lease \cup {None}
  BY DEF TypeOK, initializePromotes, StillPending
<1>2. /\ controller' = [controller EXCEPT ![s] = c]
      /\ UNCHANGED <<sessions, activeWindow, registered, sessionOf>>
  BY DEF initializePromotes, CommitPromotion
<1>3. c \in registered
  BY <1>1 DEF LeaseInv, AssignedIsRegistered
<1>4. ControllerAssigned'
  BY <1>1, <1>2, <1>3 DEF LeaseInv, ControllerAssigned, TypeOK
<1>5. AssignedIsRegistered'
  BY <1>2 DEF LeaseInv, AssignedIsRegistered
<1>6. LeaseMatchesAssignment' /\ OneLeasePerClient'
  <2>1. CASE current # None /\ current.client # c
    <3>1. windowLeases' = windowLeases
      BY <2>1 DEF initializePromotes
    <3> QED BY <1>2, <3>1 DEF LeaseInv, LeaseMatchesAssignment, OneLeasePerClient
  <2>2. CASE ~(current # None /\ current.client # c)
    <3> DEFINE generation(old) == IF current = None THEN 1
                                  ELSE IF old = w THEN current.generation
                                  ELSE current.generation + 1
               lease(old) == LeaseTo(s, c, generation(old))
    <3>1. PICK old \in windowForClientNow(c) :
            windowLeases' = AcquireThenRelease(w, lease(old), old)
      BY <2>2 DEF initializePromotes
    <3>2. generation(old) \in Nat \ {0}
      BY <1>1 DEF Lease
    <3>3. lease(old) \in Lease /\ lease(old).client = c /\ lease(old).session = s
      BY <1>1, <3>2, LeaseTypes DEF LeaseTo
    <3>4. \A x \in LeasedBy(c) : x = old
      BY DEF windowForClientNow, LeasedBy, LeaseInv, OneLeasePerClient
    <3> HIDE DEF lease
    <3>5. /\ OneLeasePerClient'
          /\ windowLeases'[w] = lease(old)
          /\ \A x \in Windows \ {w} :
                windowLeases'[x] # None =>
                   windowLeases'[x] = windowLeases[x] /\ windowLeases[x].client # c
      BY <1>1, <3>1, <3>3, <3>4, AcquireKeepsOneLease DEF LeaseInv
    <3>6. LeaseMatchesAssignment'
      BY <1>1, <1>2, <3>3, <3>5 DEF LeaseInv, LeaseMatchesAssignment
    <3> QED BY <3>5, <3>6
  <2> QED BY <2>1, <2>2
<1> QED BY <1>4, <1>5, <1>6 DEF LeaseInv

\* A select moves the lease of the session's controller along with the
\* session's active window, whoever asked for it.
LEMMA CommitSelection_Lease ==
    ASSUME TypeOK, LeaseInv, NEW c \in Clients, NEW s \in Sessions, NEW w \in Windows,
           s \in sessions, Selectable(c, s, w), CommitSelection(c, s, w)
    PROVE  LeaseInv'
<1> DEFINE lease == SelectedLease(c, s, w)
<1>1. controller[s] = c /\ sessionOf[c] = s /\ c \in registered
  BY DEF Selectable, LeaseInv, ControllerAssigned, TypeOK
<1>2. lease \in Lease /\ lease.client = c /\ lease.session = s
  BY LeaseTypes DEF SelectedLease, LeaseTo
<1>3. PICK old \in LeasedBy(c) : windowLeases' = AcquireThenRelease(w, lease, old)
  BY DEF CommitSelection
<1>4. \A x \in LeasedBy(c) : x = old
  BY DEF LeasedBy, LeaseInv, OneLeasePerClient
<1>5. old \in Windows /\ activeWindow[s] = old
  BY <1>1 DEF LeasedBy, LeaseInv, LeaseMatchesAssignment
<1>6. /\ activeWindow' = [activeWindow EXCEPT ![s] = w]
      /\ UNCHANGED <<sessions, controller, registered, sessionOf>>
  BY DEF CommitSelection
<1> HIDE DEF lease
<1>7. /\ OneLeasePerClient'
      /\ windowLeases'[w] = lease
      /\ \A x \in Windows \ {w} :
            windowLeases'[x] # None =>
               windowLeases'[x] = windowLeases[x] /\ windowLeases[x].client # c
  BY <1>2, <1>3, <1>4, AcquireKeepsOneLease DEF LeaseInv
<1>8. LeaseMatchesAssignment'
  <2> SUFFICES ASSUME NEW x \in Windows, windowLeases'[x] # None
               PROVE  /\ windowLeases'[x].session \in sessions
                      /\ activeWindow'[windowLeases'[x].session] = x
                      /\ sessionOf[windowLeases'[x].client] = windowLeases'[x].session
    BY <1>6 DEF LeaseMatchesAssignment
  <2>1. CASE x = w
    BY <1>1, <1>2, <1>6, <1>7, <2>1 DEF TypeOK
  <2>2. CASE x # w
    <3>1. windowLeases[x] # None /\ windowLeases'[x] = windowLeases[x] /\ windowLeases[x].client # c
      BY <1>7, <2>2
    <3>2. windowLeases[x].session # s
      BY <1>4, <1>5, <3>1 DEF LeasedBy, LeaseInv, LeaseMatchesAssignment
    <3> QED BY <1>6, <3>1, <3>2 DEF TypeOK, LeaseInv, LeaseMatchesAssignment
  <2> QED BY <2>1, <2>2
<1> QED BY <1>6, <1>7, <1>8 DEF LeaseInv, ControllerAssigned, AssignedIsRegistered

\* A switch moves the identity, both sessions' controllers and the lease in
\* one transaction, also into a session that shares the source's window.
LEMMA transitionClientToSession_Lease ==
    ASSUME TypeOK, LeaseInv, NEW k \in Conns, NEW t \in Sessions, transitionClientToSession(k, t)
    PROVE  LeaseInv'
<1> DEFINE c == owner[k]
           s == sessionOf[c]
           w == activeWindow[t]
           old == activeWindow[s]
           lease == EnteredLease(c, t)
<1>1. c \in Clients /\ s \in Sessions /\ t \in sessions /\ s # t /\ w \in Windows /\ old \in Windows
  BY DEF TypeOK, transitionClientToSession
<1>2. /\ controller[s] = c
      /\ windowLeases[old] # None /\ windowLeases[old].client = c
  BY DEF transitionClientToSession, Switchable
<1>3. /\ windowLeases' = AcquireThenRelease(w, lease, old)
      /\ controller' = [controller EXCEPT ![s] = None, ![t] = c]
      /\ sessionOf' = [sessionOf EXCEPT ![c] = t]
      /\ UNCHANGED <<sessions, activeWindow, registered>>
  BY DEF transitionClientToSession, CommitSwitch, ControllerAfterSwitch
<1>4. lease \in Lease /\ lease.client = c /\ lease.session = t
  BY <1>1, LeaseTypes DEF EnteredLease, LeaseTo
<1>5. \A x \in LeasedBy(c) : x = old
  BY <1>1, <1>2 DEF LeasedBy, LeaseInv, OneLeasePerClient
<1> HIDE DEF lease
<1>6. /\ OneLeasePerClient'
      /\ windowLeases'[w] = lease
      /\ \A x \in Windows \ {w} :
            windowLeases'[x] # None =>
               windowLeases'[x] = windowLeases[x] /\ windowLeases[x].client # c
  BY <1>1, <1>3, <1>4, <1>5, AcquireKeepsOneLease DEF LeaseInv
<1>7. c \in registered /\ AssignedIsRegistered'
  BY <1>1, <1>2, <1>3 DEF TypeOK, LeaseInv, ControllerAssigned, AssignedIsRegistered
<1>8. ControllerAssigned'
  <2> SUFFICES ASSUME NEW x \in Sessions, controller'[x] # None
               PROVE  controller'[x] \in registered' /\ sessionOf'[controller'[x]] = x
    BY DEF ControllerAssigned
  <2>1. CASE x = t
    BY <1>1, <1>3, <1>7, <2>1 DEF TypeOK
  <2>2. CASE x = s
    BY <1>1, <1>3, <2>2 DEF TypeOK
  <2>3. CASE x # t /\ x # s
    <3>1. controller'[x] = controller[x]
      BY <1>1, <1>3, <2>3 DEF TypeOK
    <3>2. controller[x] \in registered /\ sessionOf[controller[x]] = x /\ controller[x] \in Clients
      BY <3>1 DEF TypeOK, LeaseInv, ControllerAssigned
    <3>3. controller[x] # c
      BY <2>3, <3>2
    <3> QED BY <1>3, <3>1, <3>2, <3>3 DEF TypeOK
  <2> QED BY <2>1, <2>2, <2>3
<1>9. LeaseMatchesAssignment'
  <2> SUFFICES ASSUME NEW x \in Windows, windowLeases'[x] # None
               PROVE  /\ windowLeases'[x].session \in sessions
                      /\ activeWindow[windowLeases'[x].session] = x
                      /\ sessionOf'[windowLeases'[x].client] = windowLeases'[x].session
    BY <1>3 DEF LeaseMatchesAssignment
  <2>1. CASE x = w
    BY <1>1, <1>3, <1>4, <1>6, <2>1 DEF TypeOK
  <2>2. CASE x # w
    <3>1. /\ windowLeases[x] # None /\ windowLeases[x].client \in Clients
          /\ windowLeases'[x] = windowLeases[x] /\ windowLeases[x].client # c
      BY <1>6, <2>2 DEF TypeOK, Lease
    <3> QED BY <1>1, <1>3, <3>1 DEF TypeOK, LeaseInv, LeaseMatchesAssignment
  <2> QED BY <2>1, <2>2
<1> QED BY <1>6, <1>7, <1>8, <1>9 DEF LeaseInv

\* selectWindowItself keeps assignment, controller and lease together.
LEMMA selectWindowItself_Lease ==
    ASSUME TypeOK, LeaseInv, NEW k \in Conns, NEW w \in Windows, selectWindowItself(k, w)
    PROVE  LeaseInv'
<1> DEFINE c == owner[k]
           s == view[k].session
<1>1. c \in Clients /\ s \in Sessions
  BY DEF TypeOK, selectWindowItself
<1> QED BY <1>1, CommitSelection_Lease DEF selectWindowItself

\* selectResolvedWindow keeps assignment, controller and lease together.
LEMMA selectResolvedWindow_Lease ==
    ASSUME TypeOK, LeaseInv, NEW s \in Sessions, NEW w \in Windows, selectResolvedWindow(s, w)
    PROVE  LeaseInv'
<1>1. resolved[s] \in Clients
  BY DEF TypeOK, selectResolvedWindow
<1> QED BY <1>1, CommitSelection_Lease DEF selectResolvedWindow

\* A session that ends takes its leases and its controller with it.
LEMMA shutdownSession_Lease ==
    ASSUME TypeOK, LeaseInv, NEW s \in Sessions, shutdownSession(s)
    PROVE  LeaseInv'
<1>1. /\ sessions' = sessions \ {s}
      /\ controller' = [controller EXCEPT ![s] = None]
      /\ UNCHANGED <<activeWindow, registered, sessionOf>>
  BY DEF shutdownSession
<1>2. \A w \in Windows : windowLeases'[w] # None =>
          windowLeases'[w] = windowLeases[w] /\ windowLeases[w].session # s
  BY DEF shutdownSession
<1>3. ControllerAssigned' /\ AssignedIsRegistered'
  BY <1>1 DEF TypeOK, LeaseInv, ControllerAssigned, AssignedIsRegistered
<1>4. LeaseMatchesAssignment'
  BY <1>1, <1>2 DEF LeaseInv, LeaseMatchesAssignment
<1>5. OneLeasePerClient'
  BY <1>2 DEF LeaseInv, OneLeasePerClient
<1> QED BY <1>3, <1>4, <1>5 DEF LeaseInv

\* detachClientInstance keeps assignment, controller and lease together.
LEMMA detachClientInstance_Lease ==
    ASSUME TypeOK, LeaseInv, NEW k \in Conns, detachClientInstance(k)
    PROVE  LeaseInv'
<1>1. /\ \A x \in Sessions : controller'[x] # None => controller'[x] = controller[x]
      /\ UNCHANGED <<sessions, activeWindow, registered, sessionOf, windowLeases>>
  BY DEF TypeOK, detachClientInstance
<1> QED BY <1>1 DEF LeaseInv, ControllerAssigned, LeaseMatchesAssignment, OneLeasePerClient,
                   AssignedIsRegistered

\* releaseWindowView keeps assignment, controller and lease together.
LEMMA releaseWindowView_Lease ==
    ASSUME TypeOK, LeaseInv, NEW k \in Conns, releaseWindowView(k)
    PROVE  LeaseInv'
<1>1. /\ \A w \in Windows : windowLeases'[w] # None => windowLeases'[w] = windowLeases[w]
      /\ UNCHANGED <<sessions, controller, activeWindow, registered, sessionOf>>
  BY DEF releaseWindowView, registryVars, identityVars
<1> QED BY <1>1 DEF LeaseInv, ControllerAssigned, LeaseMatchesAssignment, OneLeasePerClient,
                   AssignedIsRegistered

\* selectPanics keeps assignment, controller and lease together.
LEMMA selectPanics_Lease ==
    ASSUME LeaseInv, NEW s \in Sessions, selectPanics(s)
    PROVE  LeaseInv'
BY DEF LeaseInv, ControllerAssigned, LeaseMatchesAssignment, OneLeasePerClient,
       AssignedIsRegistered, selectPanics, identityVars

\* Every step keeps the lease invariant.
LEMMA LeaseInvStep == TypeOK /\ LeaseInv /\ [Next]_vars => LeaseInv'
<1> SUFFICES ASSUME TypeOK, LeaseInv, [Next]_vars PROVE LeaseInv'
  OBVIOUS
<1> USE DEF leaseVars, registryVars, identityVars
<1>1. ASSUME NEW k \in Conns, Progress(k) PROVE LeaseInv'
  <2>1. CASE displacedNotified(k)
    BY <2>1, LeaseInvUnchanged DEF displacedNotified
  <2>2. CASE openStreamsFails(k)
    BY <2>2, LeaseInvUnchanged DEF openStreamsFails
  <2>3. CASE initializeBegin(k)
    BY <2>3, LeaseInvUnchanged DEF initializeBegin
  <2>4. CASE initializeRefused(k)
    BY <2>4, LeaseInvUnchanged DEF initializeRefused
  <2>5. CASE initializePromotes(k)
    BY <2>5, initializePromotes_Lease
  <2>6. CASE installInitialView(k) \/ applyOwnTransition(k) \/ applyResize(k)
    BY <2>6, LeaseInvUnchanged DEF installInitialView, applyOwnTransition, applyResize, ApplyPlan
  <2>8. CASE applyDeliveredTransition(k)
    BY <2>8, LeaseInvUnchanged DEF applyDeliveredTransition
  <2>9. CASE noticeLoss(k) \/ exitCompleted(k)
    BY <2>9, LeaseInvUnchanged DEF noticeLoss, exitCompleted, LeaveFor
  <2>10. CASE runClose(k)
    BY <2>10, LeaseInvUnchanged DEF runClose
  <2>11. CASE detachClientInstance(k)
    BY <2>11, detachClientInstance_Lease
  <2>12. CASE releaseWindowView(k)
    BY <2>12, releaseWindowView_Lease
  <2>13. CASE discardPendingClientInstance(k)
    BY <2>13, LeaseInvUnchanged DEF discardPendingClientInstance
  <2> QED BY <1>1, <2>1, <2>2, <2>3, <2>4, <2>5, <2>6, <2>8, <2>9, <2>10, <2>11, <2>12,
             <2>13 DEF Progress
<1>2. ASSUME NEW k \in Conns, FrontendStep(k) PROVE LeaseInv'
  <2>1. ASSUME NEW c \in Clients, NEW s \in Sessions, admitSessionConnection(k, c, s)
        PROVE  LeaseInv'
    BY <2>1, admitSessionConnection_Lease
  <2>2. ASSUME NEW c \in Clients, admitResumedConnection(k, c) PROVE LeaseInv'
    BY <2>2, LeaseInvUnchanged DEF admitResumedConnection
  <2>3. ASSUME NEW w \in Windows, selectWindowItself(k, w) PROVE LeaseInv'
    BY <2>3, selectWindowItself_Lease
  <2>4. ASSUME NEW t \in Sessions, transitionClientToSession(k, t) PROVE LeaseInv'
    BY <2>4, transitionClientToSession_Lease
  <2>5. CASE refreshSession(k)
    BY <2>5, LeaseInvUnchanged DEF refreshSession, CommitRefresh
  <2>6. CASE resizeClientView(k)
    BY <2>6, LeaseInvUnchanged DEF resizeClientView, CommitRefresh
  <2>7. CASE transportLost(k)
    BY <2>7, LeaseInvUnchanged DEF transportLost
  <2>8. CASE userDetaches(k)
    BY <2>8, LeaseInvUnchanged DEF userDetaches, LeaveFor
  <2> QED BY <1>2, <2>1, <2>2, <2>3, <2>4, <2>5, <2>6, <2>7, <2>8 DEF FrontendStep
<1>3. ASSUME NEW k \in Conns, NEW i \in DOMAIN mail[k], cancelDelivery(k, i) PROVE LeaseInv'
  BY <1>3, LeaseInvUnchanged DEF cancelDelivery
<1>4. ASSUME NEW s \in Sessions, CommandStep(s) PROVE LeaseInv'
  <2>1. CASE issueAttachGrant(s) \/ discardAttachGrant(s)
    BY <2>1, LeaseInvUnchanged DEF issueAttachGrant, discardAttachGrant
  <2>2. CASE resolveSelect(s) \/ selectRejected(s)
    BY <2>2, LeaseInvUnchanged DEF resolveSelect, selectRejected
  <2>3. ASSUME NEW w \in Windows, selectResolvedWindow(s, w) PROVE LeaseInv'
    BY <2>3, selectResolvedWindow_Lease
  <2>4. CASE selectPanics(s)
    BY <2>4, selectPanics_Lease
  <2>5. CASE shutdownSession(s)
    BY <2>5, shutdownSession_Lease
  <2> QED BY <1>4, <2>1, <2>2, <2>3, <2>4, <2>5 DEF CommandStep
<1>5. CASE UNCHANGED vars
  BY <1>5, LeaseInvUnchanged DEF vars
<1> QED BY <1>1, <1>2, <1>3, <1>4, <1>5 DEF Next

\* Types and the lease invariant together are invariant.
LEMMA LeaseInvariant == Spec => [](TypeOK /\ LeaseInv)
<1>1. Init => TypeOK /\ LeaseInv
  BY InitTypeOK, InitLeaseInv
<1>2. TypeOK /\ LeaseInv /\ [Next]_vars => (TypeOK /\ LeaseInv)'
  BY TypeOKStep, LeaseInvStep
<1> QED BY <1>1, <1>2, PTL DEF Spec

\* A client controls no session but the one it is assigned to, whatever
\* takeovers, switches, shutdowns and detaches interleave.
THEOREM ControllerIsAssigned == Spec => []ControllerAssigned
<1>1. LeaseInv => ControllerAssigned
  BY DEF LeaseInv
<1> QED BY <1>1, LeaseInvariant, PTL

\* A lease always belongs to a client assigned to a live session whose active
\* window is the leased one.
THEOREM LeaseIsAssigned == Spec => []LeaseMatchesAssignment
<1>1. LeaseInv => LeaseMatchesAssignment
  BY DEF LeaseInv
<1> QED BY <1>1, LeaseInvariant, PTL

\* No client holds two window leases.
THEOREM ClientHasOneLease == Spec => []OneLeasePerClient
<1>1. LeaseInv => OneLeasePerClient
  BY DEF LeaseInv
<1> QED BY <1>1, LeaseInvariant, PTL

-----------------------------------------------------------------------------
(* Terminal clients *)

\* No step takes back a terminal reason or promotes a terminal client.
LEMMA TerminalIsFinalStep ==
    ASSUME TypeOK, [Next]_vars
    PROVE  \A c \in Clients : terminal[c] => terminal'[c] /\ active'[c] \in {active[c], None}
<1> DEFINE Final == \A d \in Clients :
                       terminal[d] => terminal'[d] /\ active'[d] \in {active[d], None}
<1> SUFFICES Final
  OBVIOUS
<1> USE DEF TypeOK, registryVars, identityVars
<1>1. ASSUME NEW k \in Conns, Progress(k) PROVE Final
  <2>1. CASE displacedNotified(k)
    BY <2>1 DEF displacedNotified
  <2>2. CASE openStreamsFails(k)
    BY <2>2 DEF openStreamsFails
  <2>3. CASE initializeBegin(k)
    BY <2>3 DEF initializeBegin
  <2>4. CASE initializeRefused(k)
    BY <2>4 DEF initializeRefused
  <2>5. CASE initializePromotes(k)
    BY <2>5 DEF initializePromotes, CommitPromotion, StillPending
  <2>6. CASE installInitialView(k) \/ applyOwnTransition(k) \/ applyResize(k)
    BY <2>6 DEF installInitialView, applyOwnTransition, applyResize, ApplyPlan
  <2>8. CASE applyDeliveredTransition(k)
    BY <2>8 DEF applyDeliveredTransition
  <2>9. CASE noticeLoss(k) \/ exitCompleted(k)
    BY <2>9 DEF noticeLoss, exitCompleted, LeaveFor
  <2>10. CASE runClose(k)
    BY <2>10 DEF runClose
  <2>11. CASE detachClientInstance(k)
    BY <2>11 DEF detachClientInstance, EndOfLifetime
  <2>12. CASE releaseWindowView(k)
    BY <2>12 DEF releaseWindowView, EndOfLifetime
  <2>13. CASE discardPendingClientInstance(k)
    BY <2>13 DEF discardPendingClientInstance, EndOfLifetime
  <2> QED BY <1>1, <2>1, <2>2, <2>3, <2>4, <2>5, <2>6,
             <2>8, <2>9, <2>10, <2>11, <2>12, <2>13 DEF Progress
<1>2. ASSUME NEW k \in Conns, FrontendStep(k) PROVE Final
  <2>1. ASSUME NEW c \in Clients, NEW s \in Sessions, admitSessionConnection(k, c, s) PROVE Final
    BY <2>1 DEF admitSessionConnection, EnterAdmission
  <2>2. ASSUME NEW c \in Clients, admitResumedConnection(k, c) PROVE Final
    BY <2>2 DEF admitResumedConnection, EnterAdmission
  <2>3. ASSUME NEW w \in Windows, selectWindowItself(k, w) PROVE Final
    BY <2>3 DEF selectWindowItself, CommitSelection, ApplyItself
  <2>4. ASSUME NEW t \in Sessions, transitionClientToSession(k, t) PROVE Final
    BY <2>4 DEF transitionClientToSession, CommitSwitch, ApplyItself, PostToMailbox
  <2>5. CASE refreshSession(k)
    BY <2>5 DEF refreshSession, CommitRefresh, ApplyItself, PostToMailbox
  <2>6. CASE resizeClientView(k)
    BY <2>6 DEF resizeClientView, CommitRefresh, ApplyItself
  <2>7. CASE transportLost(k)
    BY <2>7 DEF transportLost
  <2>8. CASE userDetaches(k)
    BY <2>8 DEF userDetaches, LeaveFor
  <2> QED BY <1>2, <2>1, <2>2, <2>3, <2>4, <2>5, <2>6, <2>7, <2>8 DEF FrontendStep
<1>3. ASSUME NEW k \in Conns, NEW i \in DOMAIN mail[k], cancelDelivery(k, i) PROVE Final
  BY <1>3 DEF cancelDelivery
<1>4. ASSUME NEW s \in Sessions, CommandStep(s) PROVE Final
  <2>1. CASE issueAttachGrant(s) \/ discardAttachGrant(s)
    BY <2>1 DEF issueAttachGrant, discardAttachGrant
  <2>2. CASE resolveSelect(s) \/ selectRejected(s)
    BY <2>2 DEF resolveSelect, selectRejected
  <2>3. ASSUME NEW w \in Windows, selectResolvedWindow(s, w) PROVE Final
    BY <2>3 DEF selectResolvedWindow, CommitSelection, PostToMailbox
  <2>4. CASE selectPanics(s)
    BY <2>4 DEF selectPanics
  <2>5. CASE shutdownSession(s)
    BY <2>5 DEF shutdownSession
  <2> QED BY <1>4, <2>1, <2>2, <2>3, <2>4, <2>5 DEF CommandStep
<1>5. CASE UNCHANGED vars
  BY <1>5 DEF vars
<1> QED BY <1>1, <1>2, <1>3, <1>4, <1>5 DEF Next

\* A client that was displaced or whose session was shut down is never
\* promoted again, however late its resume arrives.
THEOREM TerminalForGood == Spec => TerminalIsFinal
<1>1. TypeOK /\ [Next]_vars =>
         \A c \in Clients : terminal[c] => terminal'[c] /\ active'[c] \in {active[c], None}
  BY TerminalIsFinalStep
<1> QED BY <1>1, TypeCorrect, PTL DEF Spec, TerminalIsFinal

-----------------------------------------------------------------------------
(* Whom an admission waits for *)

Unpromoted == {"idle", "notifying", "admitted", "waiting"}

\* Besides the connections waited on, the two places initializeClient takes
\* one from hold connections that were promoted.
PromotedRefs ==
    /\ \A k \in Conns : waitOn[k] # None => pc[waitOn[k]] \notin Unpromoted
    /\ \A c \in Clients : active[c] # None => pc[active[c]] \notin Unpromoted
    /\ \A c \in Clients : waitFor[c] # None => pc[waitFor[c]] \notin Unpromoted

\* A promoted connection stays one, and no step makes anybody refer to a
\* connection that was neither referred to before nor is promoted now.
ReferencesGrow ==
    /\ \A k \in Conns : pc[k] \notin Unpromoted => pc'[k] \notin Unpromoted
    /\ \A k \in Conns : \/ waitOn'[k] \in {waitOn[k], None}
                        \/ \E c \in Clients : waitOn'[k] \in {active[c], waitFor[c]}
    /\ \A c \in Clients : \/ active'[c] \in {active[c], None}
                          \/ active'[c] \in Conns /\ pc'[active'[c]] \notin Unpromoted
    /\ \A c \in Clients : \/ waitFor'[c] \in {waitFor[c], None}
                          \/ \E d \in Clients : waitFor'[c] = active[d]

\* Every step keeps promoted connections promoted and refers to no other new one.
LEMMA ReferencesGrowStep == TypeOK /\ [Next]_vars => ReferencesGrow
<1> SUFFICES ASSUME TypeOK, [Next]_vars PROVE ReferencesGrow
  OBVIOUS
<1> USE DEF TypeOK, ReferencesGrow, Unpromoted, registryVars, identityVars, commandVars, connVars
<1>1. ASSUME NEW k \in Conns, Progress(k) PROVE ReferencesGrow
  <2>1. CASE displacedNotified(k)
    BY <2>1 DEF displacedNotified, Goto
  <2>2. CASE openStreamsFails(k)
    BY <2>2 DEF openStreamsFails, Goto
  <2>3. CASE initializeBegin(k)
    BY <2>3 DEF initializeBegin, Goto
  <2>4. CASE initializeRefused(k)
    BY <2>4 DEF initializeRefused, Goto
  <2>5. CASE initializePromotes(k)
    BY <2>5 DEF initializePromotes, CommitPromotion, Goto
  <2>6. CASE installInitialView(k) \/ applyOwnTransition(k) \/ applyResize(k)
    BY <2>6 DEF installInitialView, applyOwnTransition, applyResize, ApplyPlan, Goto
  <2>8. CASE applyDeliveredTransition(k)
    BY <2>8 DEF applyDeliveredTransition
  <2>9. CASE noticeLoss(k) \/ exitCompleted(k)
    BY <2>9 DEF noticeLoss, exitCompleted, LeaveFor, Goto
  <2>10. CASE runClose(k)
    BY <2>10 DEF runClose, Goto
  <2>11. CASE detachClientInstance(k)
    BY <2>11 DEF detachClientInstance, EndOfLifetime, Goto
  <2>12. CASE releaseWindowView(k)
    BY <2>12 DEF releaseWindowView, EndOfLifetime, Goto
  <2>13. CASE discardPendingClientInstance(k)
    BY <2>13 DEF discardPendingClientInstance, EndOfLifetime, Goto
  <2> QED BY <1>1, <2>1, <2>2, <2>3, <2>4, <2>5, <2>6,
             <2>8, <2>9, <2>10, <2>11, <2>12, <2>13 DEF Progress
<1>2. ASSUME NEW k \in Conns, FrontendStep(k) PROVE ReferencesGrow
  <2>1. ASSUME NEW c \in Clients, NEW s \in Sessions, admitSessionConnection(k, c, s) PROVE ReferencesGrow
    BY <2>1 DEF admitSessionConnection, EnterAdmission, Displaced, Goto
  <2>2. ASSUME NEW c \in Clients, admitResumedConnection(k, c) PROVE ReferencesGrow
    BY <2>2 DEF admitResumedConnection, EnterAdmission, Displaced, Goto
  <2>3. ASSUME NEW w \in Windows, selectWindowItself(k, w) PROVE ReferencesGrow
    BY <2>3 DEF selectWindowItself, CommitSelection, ApplyItself, Goto
  <2>4. ASSUME NEW t \in Sessions, transitionClientToSession(k, t) PROVE ReferencesGrow
    BY <2>4 DEF transitionClientToSession, CommitSwitch, ApplyItself, PostToMailbox, Goto
  <2>5. CASE refreshSession(k)
    BY <2>5 DEF refreshSession, CommitRefresh, ApplyItself, PostToMailbox, Goto
  <2>6. CASE resizeClientView(k)
    BY <2>6 DEF resizeClientView, CommitRefresh, ApplyItself, Goto
  <2>7. CASE transportLost(k)
    BY <2>7 DEF transportLost
  <2>8. CASE userDetaches(k)
    BY <2>8 DEF userDetaches, LeaveFor, Goto
  <2> QED BY <1>2, <2>1, <2>2, <2>3, <2>4, <2>5, <2>6, <2>7, <2>8 DEF FrontendStep
<1>3. ASSUME NEW k \in Conns, NEW i \in DOMAIN mail[k], cancelDelivery(k, i) PROVE ReferencesGrow
  BY <1>3 DEF cancelDelivery
<1>4. ASSUME NEW s \in Sessions, CommandStep(s) PROVE ReferencesGrow
  <2>1. CASE issueAttachGrant(s) \/ discardAttachGrant(s)
    BY <2>1 DEF issueAttachGrant, discardAttachGrant
  <2>2. CASE resolveSelect(s) \/ selectRejected(s)
    BY <2>2 DEF resolveSelect, selectRejected
  <2>3. ASSUME NEW w \in Windows, selectResolvedWindow(s, w) PROVE ReferencesGrow
    BY <2>3 DEF selectResolvedWindow, CommitSelection, PostToMailbox
  <2>4. CASE selectPanics(s)
    BY <2>4 DEF selectPanics
  <2>5. CASE shutdownSession(s)
    BY <2>5 DEF shutdownSession
  <2> QED BY <1>4, <2>1, <2>2, <2>3, <2>4, <2>5 DEF CommandStep
<1>5. CASE UNCHANGED vars
  BY <1>5 DEF vars
<1> QED BY <1>1, <1>2, <1>3, <1>4, <1>5 DEF Next

\* Every step keeps the references of admissions to promoted connections.
LEMMA PromotedRefsStep ==
    ASSUME TypeOK, PromotedRefs, [Next]_vars
    PROVE  PromotedRefs'
<1>0. /\ waitOn \in [Conns -> Conns \cup {None}]
      /\ active \in [Clients -> Conns \cup {None}]
      /\ waitFor \in [Clients -> Conns \cup {None}]
  BY DEF TypeOK
<1>1. ReferencesGrow
  BY ReferencesGrowStep
<1>2. ASSUME NEW k \in Conns, waitOn'[k] # None PROVE pc'[waitOn'[k]] \notin Unpromoted
  <2>1. CASE waitOn'[k] = waitOn[k]
    BY <1>0, <1>1, <1>2, <2>1 DEF PromotedRefs, ReferencesGrow
  <2>2. CASE \E c \in Clients : waitOn'[k] \in {active[c], waitFor[c]}
    BY <1>0, <1>1, <1>2, <2>2 DEF PromotedRefs, ReferencesGrow
  <2> QED BY <1>1, <1>2, <2>1, <2>2 DEF ReferencesGrow
<1>3. \A c \in Clients : active'[c] # None => pc'[active'[c]] \notin Unpromoted
  BY <1>1 DEF TypeOK, PromotedRefs, ReferencesGrow
<1>4. ASSUME NEW c \in Clients, waitFor'[c] # None PROVE pc'[waitFor'[c]] \notin Unpromoted
  <2>1. CASE waitFor'[c] = waitFor[c]
    BY <1>0, <1>1, <1>4, <2>1 DEF PromotedRefs, ReferencesGrow
  <2>2. CASE \E d \in Clients : waitFor'[c] = active[d]
    BY <1>0, <1>1, <1>4, <2>2 DEF PromotedRefs, ReferencesGrow
  <2> QED BY <1>1, <1>4, <2>1, <2>2 DEF ReferencesGrow
<1> QED BY <1>2, <1>3, <1>4 DEF PromotedRefs

\* An admission waits only for a connection that has been promoted, which
\* itself waits for nobody: no circle of admissions can form.
THEOREM NoCircularWait == Spec => []WaitsForPromotedOnly
<1>1. Init => TypeOK /\ PromotedRefs
  BY InitTypeOK DEF Init, PromotedRefs
<1>2. TypeOK /\ PromotedRefs /\ [Next]_vars => (TypeOK /\ PromotedRefs)'
  BY TypeOKStep, PromotedRefsStep
<1>3. PromotedRefs => WaitsForPromotedOnly
  BY DEF PromotedRefs, WaitsForPromotedOnly, Unpromoted
<1> QED BY <1>1, <1>2, <1>3, PTL DEF Spec

-----------------------------------------------------------------------------
(* Phases *)

PhaseMatches(c) ==
    /\ phase[c] = "detached" => active[c] = None /\ pending[c] = None
    /\ phase[c] = "pending" => active[c] = None /\ pending[c] # None
    /\ phase[c] \in {"active", "replacing"} => active[c] # None
    /\ phase[c] = "replacing" => pending[c] # None

\* An identity that was never registered has no connection to begin with.
PhaseInv ==
    \A c \in Clients : PhaseMatches(c) /\ (c \notin registered => phase[c] = "detached")

phaseVars == <<registered, phase, active, pending>>

\* A step that leaves the identities alone keeps the phase invariant.
LEMMA PhaseInvUnchanged ==
    ASSUME PhaseInv, UNCHANGED phaseVars
    PROVE  PhaseInv'
BY DEF PhaseInv, PhaseMatches, phaseVars

\* admitSessionConnection keeps the phase in agreement with the connections.
LEMMA admitSessionConnection_Phase ==
    ASSUME TypeOK, LeaseInv, PhaseInv, NEW k \in Conns, NEW c \in Clients, NEW s \in Sessions,
           admitSessionConnection(k, c, s)
    PROVE  PhaseInv'
<1> DEFINE previous == controller[s]
<1>1. c \notin registered /\ active[c] = None
  BY DEF admitSessionConnection, PhaseInv, PhaseMatches
<1>2. previous # None => previous \in registered
  BY DEF LeaseInv, ControllerAssigned
<1>3. /\ registered' = registered \cup {c}
      /\ pending' = [pending EXCEPT ![c] = k]
      /\ active' = active
      /\ \A x \in Clients : phase'[x] = IF x = c THEN "pending"
                ELSE IF x = previous /\ Displaced(previous) # None THEN "closing" ELSE phase[x]
  BY DEF admitSessionConnection
<1> SUFFICES ASSUME NEW x \in Clients
             PROVE  PhaseMatches(x)' /\ (x \notin registered' => phase'[x] = "detached")
  BY DEF PhaseInv
<1>4. CASE x = c
  BY <1>1, <1>3, <1>4 DEF PhaseMatches, TypeOK
<1>5. CASE x # c
  BY <1>2, <1>3, <1>5 DEF PhaseMatches, PhaseInv, TypeOK
<1> QED BY <1>4, <1>5

\* admitResumedConnection keeps the phase in agreement with the connections.
LEMMA admitResumedConnection_Phase ==
    ASSUME TypeOK, PhaseInv, NEW k \in Conns, NEW c \in Clients, admitResumedConnection(k, c)
    PROVE  PhaseInv'
BY NoneIsNoID DEF PhaseInv, PhaseMatches, TypeOK, admitResumedConnection, Displaced

\* initializePromotes keeps the phase in agreement with the connections.
LEMMA initializePromotes_Phase ==
    ASSUME TypeOK, LeaseInv, PhaseInv, NEW k \in Conns, initializePromotes(k)
    PROVE  PhaseInv'
<1> DEFINE c == owner[k]
<1>1. c \in Clients /\ sessionOf[c] # None
  BY DEF TypeOK, initializePromotes, StillPending
<1>2. c \in registered
  BY <1>1 DEF LeaseInv, AssignedIsRegistered
<1>3. /\ active' = [active EXCEPT ![c] = k]
      /\ pending' = [pending EXCEPT ![c] = None]
      /\ phase' = [phase EXCEPT ![c] = "active"]
      /\ registered' = registered
  BY DEF initializePromotes, CommitPromotion
<1> QED BY <1>1, <1>2, <1>3 DEF PhaseInv, PhaseMatches, TypeOK

\* detachClientInstance keeps the phase in agreement with the connections.
LEMMA detachClientInstance_Phase ==
    ASSUME TypeOK, PhaseInv, NEW k \in Conns, detachClientInstance(k)
    PROVE  PhaseInv'
<1> DEFINE c == owner[k]
<1>1. c \in Clients /\ registered' = registered /\ pending' = pending
  BY DEF TypeOK, detachClientInstance
<1>2. CASE active[c] = k
  <2>1. c \in registered
    BY <1>1, <1>2 DEF PhaseInv, PhaseMatches
  <2>2. /\ active' = [active EXCEPT ![c] = None]
        /\ phase' = [phase EXCEPT ![c] = IF pending[c] # None THEN "pending" ELSE "detached"]
    BY <1>2 DEF detachClientInstance, PhaseAfterDetach
  <2> QED BY <1>1, <2>1, <2>2 DEF PhaseInv, PhaseMatches, TypeOK
<1>3. CASE active[c] # k
  <2>1. UNCHANGED phaseVars
    BY <1>1, <1>3 DEF detachClientInstance, phaseVars
  <2> QED BY <2>1, PhaseInvUnchanged
<1> QED BY <1>2, <1>3

\* discardPendingClientInstance keeps the phase in agreement with the connections.
LEMMA discardPendingClientInstance_Phase ==
    ASSUME TypeOK, PhaseInv, NEW k \in Conns, discardPendingClientInstance(k)
    PROVE  PhaseInv'
<1> DEFINE c == owner[k]
<1>1. c \in Clients /\ registered' = registered /\ active' = active
  BY DEF TypeOK, discardPendingClientInstance
<1>2. CASE pending[c] = k
  <2>1. c \in registered
    BY <1>1, <1>2 DEF PhaseInv, PhaseMatches
  <2>2. /\ pending' = [pending EXCEPT ![c] = None]
        /\ phase' = [phase EXCEPT ![c] = IF active[c] # None THEN "active" ELSE "detached"]
    BY <1>2 DEF discardPendingClientInstance
  <2> QED BY <1>1, <2>1, <2>2 DEF PhaseInv, PhaseMatches, TypeOK
<1>3. CASE pending[c] # k
  <2>1. UNCHANGED phaseVars
    BY <1>1, <1>3 DEF discardPendingClientInstance, phaseVars
  <2> QED BY <2>1, PhaseInvUnchanged
<1> QED BY <1>2, <1>3

\* Closing says nothing about the connections; only a controller is put there.
LEMMA ClosingKeepsPhaseInv ==
    ASSUME PhaseInv, NEW d, d # None => d \in registered,
           phase' = [x \in Clients |-> IF x = d THEN "closing" ELSE phase[x]],
           UNCHANGED <<registered, active, pending>>, None \notin Clients
    PROVE  PhaseInv'
BY DEF PhaseInv, PhaseMatches

\* transitionClientToSession keeps the phase in agreement with the connections.
LEMMA transitionClientToSession_Phase ==
    ASSUME TypeOK, LeaseInv, PhaseInv, NEW k \in Conns, NEW t \in Sessions,
           transitionClientToSession(k, t)
    PROVE  PhaseInv'
<1> DEFINE d == DisplacedBy(owner[k], t)
<1>1. d # None => d \in registered
  BY DEF DisplacedBy, LeaseInv, ControllerAssigned
<1>2. /\ phase' = [x \in Clients |-> IF x = d THEN "closing" ELSE phase[x]]
      /\ UNCHANGED <<registered, active, pending>>
  BY DEF transitionClientToSession, CommitSwitch
<1> HIDE DEF d
<1> QED BY <1>1, <1>2, ClosingKeepsPhaseInv

\* shutdownSession keeps the phase in agreement with the connections.
LEMMA shutdownSession_Phase ==
    ASSUME TypeOK, LeaseInv, PhaseInv, NEW s \in Sessions, shutdownSession(s)
    PROVE  PhaseInv'
<1> DEFINE d == controller[s]
<1>1. d # None => d \in registered
  BY DEF LeaseInv, ControllerAssigned
<1>2. /\ phase' = [x \in Clients |-> IF x = d THEN "closing" ELSE phase[x]]
      /\ UNCHANGED <<registered, active, pending>>
  BY DEF shutdownSession
<1> HIDE DEF d
<1> QED BY <1>1, <1>2, ClosingKeepsPhaseInv

\* Every step keeps the phase invariant.
LEMMA PhaseInvStep == TypeOK /\ LeaseInv /\ PhaseInv /\ [Next]_vars => PhaseInv'
<1> SUFFICES ASSUME TypeOK, LeaseInv, PhaseInv, [Next]_vars PROVE PhaseInv'
  OBVIOUS
<1> USE DEF phaseVars, registryVars, identityVars
<1>1. ASSUME NEW k \in Conns, Progress(k) PROVE PhaseInv'
  <2>1. CASE displacedNotified(k)
    BY <2>1, PhaseInvUnchanged DEF displacedNotified
  <2>2. CASE openStreamsFails(k)
    BY <2>2, PhaseInvUnchanged DEF openStreamsFails
  <2>3. CASE initializeBegin(k)
    BY <2>3, PhaseInvUnchanged DEF initializeBegin
  <2>4. CASE initializeRefused(k)
    BY <2>4, PhaseInvUnchanged DEF initializeRefused
  <2>5. CASE initializePromotes(k)
    BY <2>5, initializePromotes_Phase
  <2>6. CASE installInitialView(k) \/ applyOwnTransition(k) \/ applyResize(k)
    BY <2>6, PhaseInvUnchanged DEF installInitialView, applyOwnTransition, applyResize, ApplyPlan
  <2>8. CASE applyDeliveredTransition(k)
    BY <2>8, PhaseInvUnchanged DEF applyDeliveredTransition
  <2>9. CASE noticeLoss(k) \/ exitCompleted(k)
    BY <2>9, PhaseInvUnchanged DEF noticeLoss, exitCompleted, LeaveFor
  <2>10. CASE runClose(k)
    BY <2>10, PhaseInvUnchanged DEF runClose
  <2>11. CASE detachClientInstance(k)
    BY <2>11, detachClientInstance_Phase
  <2>12. CASE releaseWindowView(k)
    BY <2>12, PhaseInvUnchanged DEF releaseWindowView, EndOfLifetime
  <2>13. CASE discardPendingClientInstance(k)
    BY <2>13, discardPendingClientInstance_Phase
  <2> QED BY <1>1, <2>1, <2>2, <2>3, <2>4, <2>5, <2>6,
             <2>8, <2>9, <2>10, <2>11, <2>12, <2>13 DEF Progress
<1>2. ASSUME NEW k \in Conns, FrontendStep(k) PROVE PhaseInv'
  <2>1. ASSUME NEW c \in Clients, NEW s \in Sessions, admitSessionConnection(k, c, s) PROVE PhaseInv'
    BY <2>1, admitSessionConnection_Phase
  <2>2. ASSUME NEW c \in Clients, admitResumedConnection(k, c) PROVE PhaseInv'
    BY <2>2, admitResumedConnection_Phase
  <2>3. ASSUME NEW w \in Windows, selectWindowItself(k, w) PROVE PhaseInv'
    BY <2>3, PhaseInvUnchanged DEF selectWindowItself, CommitSelection, ApplyItself
  <2>4. ASSUME NEW t \in Sessions, transitionClientToSession(k, t) PROVE PhaseInv'
    BY <2>4, transitionClientToSession_Phase
  <2>5. CASE refreshSession(k)
    BY <2>5, PhaseInvUnchanged DEF refreshSession, CommitRefresh, ApplyItself, PostToMailbox
  <2>6. CASE resizeClientView(k)
    BY <2>6, PhaseInvUnchanged DEF resizeClientView, CommitRefresh, ApplyItself
  <2>7. CASE transportLost(k)
    BY <2>7, PhaseInvUnchanged DEF transportLost
  <2>8. CASE userDetaches(k)
    BY <2>8, PhaseInvUnchanged DEF userDetaches, LeaveFor
  <2> QED BY <1>2, <2>1, <2>2, <2>3, <2>4, <2>5, <2>6, <2>7, <2>8 DEF FrontendStep
<1>3. ASSUME NEW k \in Conns, NEW i \in DOMAIN mail[k], cancelDelivery(k, i) PROVE PhaseInv'
  BY <1>3, PhaseInvUnchanged DEF cancelDelivery
<1>4. ASSUME NEW s \in Sessions, CommandStep(s) PROVE PhaseInv'
  <2>1. CASE issueAttachGrant(s) \/ discardAttachGrant(s)
    BY <2>1, PhaseInvUnchanged DEF issueAttachGrant, discardAttachGrant
  <2>2. CASE resolveSelect(s) \/ selectRejected(s)
    BY <2>2, PhaseInvUnchanged DEF resolveSelect, selectRejected
  <2>3. ASSUME NEW w \in Windows, selectResolvedWindow(s, w) PROVE PhaseInv'
    BY <2>3, PhaseInvUnchanged DEF selectResolvedWindow, CommitSelection, PostToMailbox
  <2>4. CASE selectPanics(s)
    BY <2>4, PhaseInvUnchanged DEF selectPanics
  <2>5. CASE shutdownSession(s)
    BY <2>5, shutdownSession_Phase
  <2> QED BY <1>4, <2>1, <2>2, <2>3, <2>4, <2>5 DEF CommandStep
<1>5. CASE UNCHANGED vars
  BY <1>5, PhaseInvUnchanged DEF vars
<1> QED BY <1>1, <1>2, <1>3, <1>4, <1>5 DEF Next

\* The phase, which decides whether a session is occupied, always agrees with
\* the connections the identity has.
THEOREM PhaseIsExact == Spec => []PhaseAgrees
<1>1. Init => PhaseInv
  BY DEF Init, PhaseInv, PhaseMatches
<1>2. TypeOK /\ LeaseInv /\ PhaseInv /\ [Next]_vars => PhaseInv'
  BY PhaseInvStep
<1>3. TypeOK /\ PhaseInv => PhaseAgrees
  BY DEF TypeOK, PhaseInv, PhaseMatches, PhaseAgrees
<1> QED BY <1>1, <1>2, <1>3, LeaseInvariant, PTL DEF Spec

-----------------------------------------------------------------------------
(* Who serves *)

ServingStage == {"installing", "attached", "applying", "resizing", "exiting"}

\* A waiting instance that may still be promoted waits for whoever serves its
\* client now.
ServeInv ==
    /\ ServingIsActive
    /\ \A k \in Conns :
          pc[k] = "waiting" /\ pending[owner[k]] = k /\ active[owner[k]] # None
             => waitOn[k] = active[owner[k]]

\* No instance starts to serve or to wait, and no client's active connection changes.
Quiet ==
    /\ active' = active
    /\ \A k \in Conns :
          /\ pc'[k] \in ServingStage => pc[k] \in ServingStage
          /\ pc'[k] = "waiting" => pc[k] = "waiting" /\ waitOn'[k] = waitOn[k]
          /\ pc'[k] \in ServingStage \cup {"waiting"} =>
                /\ owner'[k] = owner[k]
                /\ pending'[owner[k]] = k => pending[owner[k]] = k

\* A quiet step keeps the invariant.
LEMMA QuietKeepsServeInv == ASSUME ServeInv, Quiet PROVE ServeInv'
BY DEF ServeInv, ServingIsActive, Quiet, ServingStage

\* initializeBegin waits for the connection that is active now.
LEMMA initializeBegin_Serve ==
    ASSUME TypeOK, ServeInv, NEW k \in Conns, initializeBegin(k)
    PROVE  ServeInv'
<1>1. /\ UNCHANGED <<active, owner, pending>>
      /\ \A j \in Conns \ {k} : pc'[j] = pc[j] /\ waitOn'[j] = waitOn[j]
      /\ pc'[k] \in {"waiting", "discarding"}
      /\ pc'[k] = "waiting" /\ active[owner[k]] # None => waitOn'[k] = active[owner[k]]
  BY DEF TypeOK, initializeBegin, Goto, identityVars
<1> QED BY <1>1 DEF ServeInv, ServingIsActive

\* initializePromotes finds the client's other connections ended.
LEMMA initializePromotes_Serve ==
    ASSUME TypeOK, ServeInv, NEW k \in Conns, initializePromotes(k)
    PROVE  ServeInv'
<1> DEFINE c == owner[k]
<1>1. c \in Clients /\ pending[c] = k /\ pc[k] = "waiting" /\ PreviousIsDone(k)
  BY NoneIsNoID DEF TypeOK, initializePromotes, StillPending
<1>2. /\ UNCHANGED owner
      /\ active' = [active EXCEPT ![c] = k]
      /\ pending' = [pending EXCEPT ![c] = None]
      /\ \A j \in Conns \ {k} : pc'[j] = pc[j] /\ waitOn'[j] = waitOn[j]
      /\ pc'[k] \in {"installing", "discarding"}
  BY DEF TypeOK, initializePromotes, CommitPromotion, Goto
<1>3. active[c] # None => pc[active[c]] = "done"
  BY <1>1 DEF ServeInv, PreviousIsDone
<1>4. ASSUME NEW j \in Conns, pc'[j] \in ServingStage PROVE active'[owner'[j]] = j
  <2>1. CASE j = k
    BY <1>1, <1>2, <2>1 DEF TypeOK
  <2>2. CASE j # k
    <3>1. pc[j] \in ServingStage /\ active[owner[j]] = j
      BY <1>2, <1>4, <2>2 DEF ServeInv, ServingIsActive, ServingStage
    <3>2. owner[j] # c
      BY <1>3, <3>1, NoneIsNoID DEF ServingStage
    <3>3. owner[j] \in Clients
      BY <3>1 DEF TypeOK, ServingStage
    <3> QED BY <1>1, <1>2, <3>1, <3>2, <3>3 DEF TypeOK
  <2> QED BY <2>1, <2>2
<1>5. ASSUME NEW j \in Conns, pc'[j] = "waiting", pending'[owner'[j]] = j, active'[owner'[j]] # None
      PROVE  waitOn'[j] = active'[owner'[j]]
  <2>1. j # k /\ pc[j] = "waiting" /\ waitOn'[j] = waitOn[j] /\ owner[j] \in Clients
    BY <1>2, <1>5 DEF TypeOK
  <2>2. owner[j] # c
    BY <1>1, <1>2, <1>5, NoneIsNoID DEF TypeOK
  <2>3. pending'[owner[j]] = pending[owner[j]] /\ active'[owner[j]] = active[owner[j]]
    BY <1>1, <1>2, <2>1, <2>2 DEF TypeOK
  <2> QED BY <1>2, <1>5, <2>1, <2>3 DEF ServeInv
<1> QED BY <1>4, <1>5 DEF ServeInv, ServingIsActive, ServingStage

\* detachClientInstance clears only the connection that ends.
LEMMA detachClientInstance_Serve ==
    ASSUME TypeOK, ServeInv, NEW k \in Conns, detachClientInstance(k)
    PROVE  ServeInv'
<1>1. /\ UNCHANGED <<owner, pending>>
      /\ \A j \in Conns \ {k} : pc'[j] = pc[j] /\ waitOn'[j] = waitOn[j]
      /\ pc'[k] \in {"releasing", "done"}
      /\ \A c \in Clients : active'[c] # active[c] => active[c] = k /\ active'[c] = None
  <2>1. /\ pc \in [Conns -> Stage]
        /\ waitOn \in [Conns -> Conns \cup {None}]
        /\ active \in [Clients -> Conns \cup {None}]
    BY DEF TypeOK
  <2>2. CASE active[owner[k]] = k
    <3>1. /\ active' = [active EXCEPT ![owner[k]] = None]
          /\ pc' = [pc EXCEPT ![k] = "releasing"]
          /\ UNCHANGED <<owner, pending, waitOn>>
      BY <2>2 DEF detachClientInstance, Goto
    <3> QED BY <2>1, <2>2, <3>1
  <2>3. CASE active[owner[k]] # k
    <3>1. /\ pc' = [pc EXCEPT ![k] = "done"]
          /\ waitOn' = [waitOn EXCEPT ![k] = None]
          /\ UNCHANGED <<active, owner, pending>>
      BY <2>3 DEF detachClientInstance, EndOfLifetime, Goto
    <3> QED BY <2>1, <3>1
  <2> QED BY <2>2, <2>3
<1>2. ASSUME NEW j \in Conns, pc'[j] \in ServingStage PROVE active'[owner'[j]] = j
  <2>1. j # k /\ pc[j] \in ServingStage
    BY <1>1, <1>2 DEF ServingStage
  <2>2. owner[j] \in Clients
    BY <2>1 DEF TypeOK, ServingStage
  <2>3. active[owner[j]] = j
    BY <2>1 DEF ServeInv, ServingIsActive, ServingStage
  <2> QED BY <1>1, <2>1, <2>2, <2>3
<1>3. ASSUME NEW j \in Conns, pc'[j] = "waiting", pending'[owner'[j]] = j, active'[owner'[j]] # None
      PROVE  waitOn'[j] = active'[owner'[j]]
  <2>1. j # k /\ pc[j] = "waiting" /\ owner[j] \in Clients
    BY <1>1, <1>3 DEF TypeOK
  <2> QED BY <1>1, <1>3, <2>1 DEF ServeInv
<1> QED BY <1>2, <1>3 DEF ServeInv, ServingIsActive, ServingStage

\* Every step keeps the invariant.
LEMMA ServeInvStep == TypeOK /\ ServeInv /\ [Next]_vars => ServeInv'
<1> SUFFICES ASSUME TypeOK, ServeInv, [Next]_vars PROVE ServeInv'
  OBVIOUS
<1> USE DEF TypeOK, Quiet, ServingStage, Goto, registryVars, identityVars, commandVars, connVars
<1>1. ASSUME NEW k \in Conns, Progress(k) PROVE ServeInv'
  <2>1. CASE displacedNotified(k)
    BY <2>1, QuietKeepsServeInv DEF displacedNotified
  <2>2. CASE openStreamsFails(k)
    BY <2>2, QuietKeepsServeInv DEF openStreamsFails
  <2>3. CASE initializeBegin(k)
    BY <2>3, initializeBegin_Serve
  <2>4. CASE initializeRefused(k)
    BY <2>4, QuietKeepsServeInv DEF initializeRefused
  <2>5. CASE initializePromotes(k)
    BY <2>5, initializePromotes_Serve
  <2>6. CASE installInitialView(k) \/ applyOwnTransition(k) \/ applyResize(k)
    BY <2>6, QuietKeepsServeInv DEF installInitialView, applyOwnTransition, applyResize, ApplyPlan
  <2>7. CASE applyDeliveredTransition(k)
    BY <2>7, QuietKeepsServeInv DEF applyDeliveredTransition
  <2>8. CASE noticeLoss(k) \/ exitCompleted(k)
    BY <2>8, QuietKeepsServeInv DEF noticeLoss, exitCompleted, LeaveFor
  <2>9. CASE runClose(k)
    BY <2>9, QuietKeepsServeInv DEF runClose, Serving
  <2>10. CASE detachClientInstance(k)
    BY <2>10, detachClientInstance_Serve
  <2>11. CASE releaseWindowView(k)
    BY <2>11, QuietKeepsServeInv DEF releaseWindowView, EndOfLifetime
  <2>12. CASE discardPendingClientInstance(k)
    <3>1. owner[k] \in Clients
      BY <2>12 DEF discardPendingClientInstance
    <3>2. /\ UNCHANGED <<active, owner>>
          /\ pc' = [pc EXCEPT ![k] = "done"]
          /\ waitOn' = [waitOn EXCEPT ![k] = None]
          /\ \A c \in Clients : pending'[c] \in {pending[c], None}
      BY <2>12, <3>1 DEF discardPendingClientInstance, EndOfLifetime
    <3> QED BY <3>2, QuietKeepsServeInv, NoneIsNoID
  <2> QED BY <1>1, <2>1, <2>2, <2>3, <2>4, <2>5, <2>6,
             <2>7, <2>8, <2>9, <2>10, <2>11, <2>12 DEF Progress
<1>2. ASSUME NEW k \in Conns, FrontendStep(k) PROVE ServeInv'
  <2>1. ASSUME NEW c \in Clients, NEW s \in Sessions, admitSessionConnection(k, c, s) PROVE ServeInv'
    BY <2>1, QuietKeepsServeInv DEF admitSessionConnection, EnterAdmission
  <2>2. ASSUME NEW c \in Clients, admitResumedConnection(k, c) PROVE ServeInv'
    BY <2>2, QuietKeepsServeInv DEF admitResumedConnection, EnterAdmission
  <2>3. ASSUME NEW w \in Windows, selectWindowItself(k, w) PROVE ServeInv'
    BY <2>3, QuietKeepsServeInv DEF selectWindowItself, CommitSelection, ApplyItself
  <2>4. ASSUME NEW t \in Sessions, transitionClientToSession(k, t) PROVE ServeInv'
    BY <2>4, QuietKeepsServeInv DEF transitionClientToSession, CommitSwitch, ApplyItself, PostToMailbox
  <2>5. CASE refreshSession(k)
    BY <2>5, QuietKeepsServeInv DEF refreshSession, CommitRefresh, ApplyItself, PostToMailbox
  <2>6. CASE resizeClientView(k)
    BY <2>6, QuietKeepsServeInv DEF resizeClientView, CommitRefresh, ApplyItself
  <2>7. CASE transportLost(k)
    BY <2>7, QuietKeepsServeInv DEF transportLost
  <2>8. CASE userDetaches(k)
    BY <2>8, QuietKeepsServeInv DEF userDetaches, LeaveFor
  <2> QED BY <1>2, <2>1, <2>2, <2>3, <2>4, <2>5, <2>6, <2>7, <2>8 DEF FrontendStep
<1>3. ASSUME NEW k \in Conns, NEW i \in DOMAIN mail[k], cancelDelivery(k, i) PROVE ServeInv'
  BY <1>3, QuietKeepsServeInv DEF cancelDelivery
<1>4. ASSUME NEW s \in Sessions, CommandStep(s) PROVE ServeInv'
  <2>1. CASE issueAttachGrant(s) \/ discardAttachGrant(s)
    BY <2>1, QuietKeepsServeInv DEF issueAttachGrant, discardAttachGrant
  <2>2. CASE resolveSelect(s) \/ selectRejected(s)
    BY <2>2, QuietKeepsServeInv DEF resolveSelect, selectRejected
  <2>3. ASSUME NEW w \in Windows, selectResolvedWindow(s, w) PROVE ServeInv'
    BY <2>3, QuietKeepsServeInv DEF selectResolvedWindow, CommitSelection, PostToMailbox
  <2>4. CASE selectPanics(s)
    BY <2>4, QuietKeepsServeInv DEF selectPanics
  <2>5. CASE shutdownSession(s)
    BY <2>5, QuietKeepsServeInv DEF shutdownSession
  <2> QED BY <1>4, <2>1, <2>2, <2>3, <2>4, <2>5 DEF CommandStep
<1>5. CASE UNCHANGED vars
  BY <1>5, QuietKeepsServeInv DEF vars
<1> QED BY <1>1, <1>2, <1>3, <1>4, <1>5 DEF Next

\* At most one instance serves a client, and it is the one the daemon knows as
\* active: no resume is promoted beside a connection that still serves.
THEOREM ServedByActive == Spec => []ServingIsActive
<1>1. Init => ServeInv
  BY DEF Init, ServeInv, ServingIsActive
<1>2. TypeOK /\ ServeInv /\ [Next]_vars => ServeInv'
  BY ServeInvStep
<1>3. ServeInv => ServingIsActive
  BY DEF ServeInv
<1> QED BY <1>1, <1>2, <1>3, TypeCorrect, PTL DEF Spec

-----------------------------------------------------------------------------
(* What an instance shows.  A transition reaches its instance either at once,  *)
(* when the instance asked for it, or through the mailbox, where older ones    *)
(* may still wait: the argument is about everything that is on its way.        *)

\* The views among the deliveries of a mailbox.
PostedIn(q) == {q[i].view : i \in {j \in DOMAIN q : q[j].type = "view"}}

\* The instance holds a plan that it goes on to apply.
HoldsPlan(k) == pc[k] \in {"installing", "applying", "resizing"}

Planned(k) == IF HoldsPlan(k) THEN {plan[k]} ELSE {}

\* What the instance shows, is about to apply, and will be delivered.
Projections(k) == {view[k]} \cup Planned(k) \cup PostedIn(mail[k])

\* It serves the frontend of the client that has the session.
Serves(k) == pc[k] \in ServingStage /\ controller[sessionOf[owner[k]]] = owner[k]

CurrentWindow(k) == activeWindow[sessionOf[owner[k]]]

\* A projection after which nothing older can matter: it is of the canonical window and
\* so is whatever is newer.  It is not rejected, for its lease is the client's.
IsNewest(k, x) ==
    /\ x = view[k] \/ x.generation = 1
    /\ \A y \in Projections(k) : y.revision >= x.revision => y.window = CurrentWindow(k)

KnownProjection(k, x) ==
    /\ x.session = sessionOf[owner[k]]
    /\ x.revision <= revision[owner[k]]
    /\ x.generation <= 1

\* A client that has its lease is told of no other generation.
LeaseIsTold(k) ==
    LeasedBy(owner[k]) # {} =>
        \A x \in Projections(k) : x.window # None => x.generation = 1

ShowsNewest(k) ==
    Serves(k) =>
        /\ \A x \in Projections(k) : KnownProjection(k, x)
        /\ \E x \in Projections(k) : IsNewest(k, x)
        /\ LeaseIsTold(k)

\* Nothing was projected for a connection before it is promoted.
UnpromotedIsBlank ==
    \A k \in Conns : pc[k] \in Unpromoted =>
        /\ view[k].window = None /\ view[k].generation = 0 /\ view[k].revision = 0
        /\ pc[k] # "idle" => view[k].session = sessionOf[owner[k]]
        /\ PostedIn(mail[k]) = {}

\* Generations count how a lease is passed on; who stays in a session never passes one.
LeasesStartAtOne ==
    \A w \in Windows : windowLeases[w] # None => windowLeases[w].generation = 1

ControlledLives == \A s \in Sessions : controller[s] # None => s \in sessions

\* From its admission on a connection is some session's.
AdmittedIsAssigned ==
    \A k \in Conns : pc[k] \notin {"idle", "done"} => sessionOf[owner[k]] \in Sessions

\* The active connection of a client was promoted for it.
ActiveIsOwned ==
    \A c \in Clients : active[c] # None => owner[active[c]] = c /\ pc[active[c]] \notin Unpromoted

ViewInv ==
    /\ LeasesStartAtOne /\ ControlledLives /\ ActiveIsOwned /\ AdmittedIsAssigned /\ UnpromotedIsBlank
    /\ \A k \in Conns : ShowsNewest(k)

\* No client is moved to another session.
ClientsStay == \A c \in Clients : sessionOf[c] # None => sessionOf'[c] = sessionOf[c]

-----------------------------------------------------------------------------
(* How what is on its way changes *)

\* A delivery that is reserved is on its way, unless it is a Close.
LEMMA PostedAppended ==
    ASSUME NEW q \in Seq(Delivery), NEW d \in Delivery
    PROVE  PostedIn(Append(q, d)) = PostedIn(q) \cup (IF d.type = "view" THEN {d.view} ELSE {})
<1> DEFINE r == Append(q, d)
<1>1. /\ DOMAIN r = DOMAIN q \cup {Len(q) + 1} /\ Len(q) + 1 \notin DOMAIN q
      /\ r[Len(q) + 1] = d /\ \A i \in DOMAIN q : r[i] = q[i]
  OBVIOUS
<1> HIDE DEF r
<1>2. PostedIn(r) \subseteq PostedIn(q) \cup (IF d.type = "view" THEN {d.view} ELSE {})
  BY <1>1 DEF PostedIn
<1>3. ASSUME NEW x \in PostedIn(q) PROVE x \in PostedIn(r)
  BY <1>1, <1>3 DEF PostedIn
<1>4. d.type = "view" => d.view \in PostedIn(r)
  BY <1>1 DEF PostedIn
<1> QED BY <1>2, <1>3, <1>4 DEF r

\* A delivery that is taken is no longer on its way.
LEMMA PostedTaken ==
    ASSUME NEW q \in Seq(Delivery), q # <<>>
    PROVE  PostedIn(q) = PostedIn(Tail(q)) \cup (IF Head(q).type = "view" THEN {Head(q).view} ELSE {})
<1> DEFINE r == Tail(q)
<1>1. /\ Head(q) = q[1] /\ 1 \in DOMAIN q
      /\ \A i \in DOMAIN r : i + 1 \in DOMAIN q /\ r[i] = q[i + 1]
      /\ \A i \in DOMAIN q : i = 1 \/ (i - 1 \in DOMAIN r /\ r[i - 1] = q[i])
  OBVIOUS
<1> HIDE DEF r
<1>2. ASSUME NEW x \in PostedIn(q) PROVE x \in PostedIn(r) \cup (IF q[1].type = "view" THEN {q[1].view} ELSE {})
  <2>1. PICK i \in DOMAIN q : q[i].type = "view" /\ x = q[i].view
    BY <1>2 DEF PostedIn
  <2>2. CASE i = 1
    BY <2>1, <2>2
  <2>3. CASE i # 1
    BY <1>1, <2>1, <2>3 DEF PostedIn
  <2> QED BY <2>2, <2>3
<1>3. ASSUME NEW x \in PostedIn(r) PROVE x \in PostedIn(q)
  BY <1>1, <1>3 DEF PostedIn
<1>4. q[1].type = "view" => q[1].view \in PostedIn(q)
  BY <1>1 DEF PostedIn
<1> QED BY <1>1, <1>2, <1>3, <1>4 DEF r

\* What is posted is a view.
LEMMA PostedAreViews ==
    ASSUME NEW q \in Seq(Delivery)
    PROVE  PostedIn(q) \subseteq View
<1>1. \A i \in DOMAIN q : q[i] \in Delivery
  OBVIOUS
<1> QED BY <1>1 DEF PostedIn, Delivery

LEMMA ProjectionsAreViews ==
    ASSUME TypeOK, NEW k \in Conns
    PROVE  Projections(k) \subseteq View
BY PostedAreViews DEF TypeOK, Projections, Planned

\* A Close tells nothing of a view.
LEMMA ReservedCloses ==
    ASSUME TypeOK, NEW j, NEW d \in Delivery, d.type = "close", NEW k \in Conns
    PROVE  PostedIn(Reserved(j, d)[k]) = PostedIn(mail[k])
BY PostedAppended DEF TypeOK, Reserved

-----------------------------------------------------------------------------
(* How an instance stays the one that shows the newest *)

\* Nothing of a connection changes, except that it may stop to serve or lose its lease.
LEMMA SameProjections ==
    ASSUME NEW k \in Conns, ShowsNewest(k),
           Serves(k)' =>
              /\ Serves(k)
              /\ UNCHANGED <<owner[k], sessionOf[owner[k]], revision[owner[k]],
                             activeWindow[sessionOf[owner[k]]], view[k]>>
              /\ Planned(k)' = Planned(k)
              /\ PostedIn(mail[k])' = PostedIn(mail[k])
              /\ LeasedBy(owner[k])' # {} => LeasedBy(owner[k]) # {}
    PROVE  ShowsNewest(k)'
<1> SUFFICES ASSUME Serves(k)' PROVE ShowsNewest(k)'
  BY DEF ShowsNewest
<1>1. Projections(k)' = Projections(k)
  BY DEF Projections
<1> QED BY <1>1 DEF ShowsNewest, KnownProjection, IsNewest, LeaseIsTold, CurrentWindow

\* One more projection is on its way, newer than all others.  Either it comes with the
\* lease or the canonical window has not changed.
LEMMA OneMoreProjection ==
    ASSUME TypeOK, NEW k \in Conns, ShowsNewest(k), Serves(k), NEW v \in View,
           UNCHANGED <<owner[k], sessionOf[owner[k]], view[k]>>,
           revision'[owner[k]] = revision[owner[k]] + 1,
           Projections(k)' = Projections(k) \cup {v},
           v.session = sessionOf[owner[k]], v.revision = revision[owner[k]] + 1,
           v.generation \in {0, 1}, v.window = CurrentWindow(k)',
           v.generation = 1 \/ CurrentWindow(k)' = CurrentWindow(k),
           LeasedBy(owner[k])' # {} => LeasedBy(owner[k]) # {} /\ v.generation = 1
    PROVE  ShowsNewest(k)'
<1>1. revision[owner[k]] \in Nat /\ \A x \in Projections(k) : x.revision \in Nat /\ x.generation \in Nat
  <2>1. revision[owner[k]] \in Nat
    BY DEF TypeOK, Serves, ServingStage
  <2> QED BY <2>1, ProjectionsAreViews DEF View
<1>2. \A x \in Projections(k)' : KnownProjection(k, x)'
  BY <1>1 DEF ShowsNewest, KnownProjection
<1>3. LeaseIsTold(k)'
  BY DEF ShowsNewest, LeaseIsTold
<1>4. \E x \in Projections(k)' : IsNewest(k, x)'
  <2>1. CASE v.generation = 1
    <3>1. \A y \in Projections(k)' : y.revision >= v.revision => y = v
      BY <1>1 DEF ShowsNewest, KnownProjection
    <3> QED BY <2>1, <3>1 DEF IsNewest
  <2>2. CASE CurrentWindow(k)' = CurrentWindow(k)
    <3>1. PICK x \in Projections(k) : IsNewest(k, x)
      BY DEF ShowsNewest
    <3> QED BY <2>2, <3>1 DEF IsNewest
  <2> QED BY <2>1, <2>2
<1> QED BY <1>2, <1>3, <1>4 DEF ShowsNewest

\* One that was on its way is applied, or rejected.
LEMMA ProjectionIsApplied ==
    ASSUME TypeOK, NEW k \in Conns, ShowsNewest(k), Serves(k), NEW v \in Projections(k),
           UNCHANGED <<owner[k], sessionOf[owner[k]], revision[owner[k]],
                       activeWindow[sessionOf[owner[k]]], LeasedBy(owner[k])>>,
           view'[k] = Applied(k, v),
           Projections(k) = {view[k], v} \cup Planned(k)' \cup PostedIn(mail[k])'
    PROVE  ShowsNewest(k)'
<1> DEFINE rest == Planned(k)' \cup PostedIn(mail[k])'
<1>1. \A x \in Projections(k) : x \in View /\ x.revision \in Nat /\ x.generation \in Nat
  BY ProjectionsAreViews DEF TypeOK, View
<1>2. /\ view[k] \in Projections(k) /\ v.session = view[k].session
      /\ view'[k] = IF Stale(k, v) THEN view[k] ELSE v
  <2>1. view[k] \in Projections(k) /\ v.session = view[k].session
    BY DEF Projections, ShowsNewest, KnownProjection
  <2>2. [view[k] EXCEPT !.session = v.session] = view[k]
    BY <1>1, <2>1 DEF View
  <2> QED BY <2>1, <2>2 DEF Applied, Adopts
<1>3. Projections(k)' = {view'[k]} \cup rest /\ Projections(k)' \subseteq Projections(k)
  BY <1>2 DEF Projections
<1>4. \A x \in Projections(k)' : KnownProjection(k, x)'
  BY <1>3 DEF ShowsNewest, KnownProjection
<1>5. LeaseIsTold(k)'
  BY <1>3 DEF ShowsNewest, LeaseIsTold
<1>6. \E x \in Projections(k)' : IsNewest(k, x)'
  <2>1. PICK x \in Projections(k) : IsNewest(k, x)
    BY DEF ShowsNewest
  <2>2. CurrentWindow(k)' = CurrentWindow(k)
    BY DEF CurrentWindow
  <2>3. ASSUME view'[k].revision >= x.revision PROVE IsNewest(k, view[k])'
    BY <1>1, <1>2, <1>3, <2>1, <2>2, <2>3 DEF IsNewest
  <2>4. CASE x = view[k]
    BY <1>1, <1>2, <1>3, <2>3, <2>4 DEF Stale
  <2>5. CASE x # view[k] /\ x \in rest
    BY <1>3, <2>1, <2>2, <2>5 DEF IsNewest
  <2>6. CASE x # view[k] /\ x = v
    <3>1. x.generation = 1 /\ view[k].generation <= 1
      BY <1>2, <2>1, <2>6 DEF IsNewest, ShowsNewest, KnownProjection
    <3>2. view'[k].revision >= x.revision
      BY <1>1, <1>2, <2>6, <3>1 DEF Stale
    <3> QED BY <1>3, <2>3, <3>2
  <2> QED BY <2>4, <2>5, <2>6
<1> QED BY <1>4, <1>5, <1>6 DEF ShowsNewest

\* Nothing older than what is shown matters once all has been delivered.
LEMMA SettledShowsCanonical ==
    ASSUME TypeOK, LeaseInv, ViewInv
    PROVE  SettledViewIsCanonical
<1> SUFFICES ASSUME NEW k \in Conns, Settled(k)
             PROVE  /\ view[k].session = sessionOf[owner[k]]
                    /\ view[k].window = CurrentWindow(k)
                    /\ LET w == CurrentWindow(k) IN
                       windowLeases[w] # None /\ windowLeases[w].client = owner[k] =>
                          view[k].generation = windowLeases[w].generation
  BY DEF SettledViewIsCanonical, CurrentWindow
<1>1. Serves(k) /\ owner[k] \in Clients /\ sessionOf[owner[k]] \in Sessions
  BY DEF TypeOK, Settled, Serves, ServingStage, ViewInv, AdmittedIsAssigned
<1>2. Projections(k) = {view[k]}
  BY DEF Projections, Planned, HoldsPlan, PostedIn, Settled
<1>3. KnownProjection(k, view[k]) /\ IsNewest(k, view[k]) /\ LeaseIsTold(k)
  BY <1>1, <1>2 DEF ViewInv, ShowsNewest
<1>4. view[k].revision \in Nat
  BY DEF TypeOK, View
<1>5. view[k].window = CurrentWindow(k) /\ CurrentWindow(k) \in Windows
  BY <1>1, <1>2, <1>3, <1>4 DEF IsNewest, CurrentWindow, TypeOK
<1>6. ASSUME windowLeases[CurrentWindow(k)] # None, windowLeases[CurrentWindow(k)].client = owner[k]
      PROVE  view[k].generation = windowLeases[CurrentWindow(k)].generation
  BY <1>2, <1>3, <1>5, <1>6 DEF LeaseIsTold, LeasedBy, ViewInv, LeasesStartAtOne
<1> QED BY <1>3, <1>5, <1>6 DEF KnownProjection

-----------------------------------------------------------------------------
(* The registries behind it *)

\* No connection but one that is unpromoted is blank, and what the registries say
\* of controllers and generations changes nowhere else.
RegistriesAlone ==
    /\ \A w \in Windows : windowLeases'[w] \in {windowLeases[w], None}
    /\ \A s \in Sessions : controller'[s] # None => controller'[s] = controller[s] /\ s \in sessions'
    /\ \A c \in Clients : active'[c] \in {active[c], None}

\* A connection stays as blank as it was.
StaysBlank(k) ==
    /\ pc'[k] \in Unpromoted => pc[k] \in Unpromoted
    /\ pc[k] \notin Unpromoted => UNCHANGED owner[k]
    /\ pc'[k] \notin {"idle", "done"} =>
          /\ pc[k] \notin {"idle", "done"}
          /\ UNCHANGED <<owner[k], sessionOf[owner[k]]>>
    /\ pc'[k] \in Unpromoted => UNCHANGED view[k] /\ PostedIn(mail[k])' = PostedIn(mail[k])

\* What the view invariant says beside the projections.
RegistryPart ==
    LeasesStartAtOne /\ ControlledLives /\ ActiveIsOwned /\ AdmittedIsAssigned /\ UnpromotedIsBlank

LEMMA RegistriesStay ==
    ASSUME TypeOK, RegistryPart, RegistriesAlone, \A k \in Conns : StaysBlank(k)
    PROVE  RegistryPart'
<1>1. LeasesStartAtOne'
  BY DEF RegistryPart, LeasesStartAtOne, RegistriesAlone
<1>2. ControlledLives'
  BY DEF RegistryPart, ControlledLives, RegistriesAlone
<1>3. AdmittedIsAssigned'
  BY DEF RegistryPart, AdmittedIsAssigned, StaysBlank
<1>4. UnpromotedIsBlank'
  BY DEF RegistryPart, UnpromotedIsBlank, StaysBlank, Unpromoted
<1>5. ActiveIsOwned'
  BY DEF TypeOK, RegistryPart, ActiveIsOwned, RegistriesAlone, StaysBlank
<1> QED BY <1>1, <1>2, <1>3, <1>4, <1>5 DEF RegistryPart

LEMMA ViewInvIs == ViewInv <=> RegistryPart /\ \A k \in Conns : ShowsNewest(k)
BY DEF ViewInv, RegistryPart

\* An instance that serves is a client's, in a session.
LEMMA ServesSomebody ==
    ASSUME TypeOK, ViewInv, NEW k \in Conns, pc[k] \in ServingStage
    PROVE  owner[k] \in Clients /\ sessionOf[owner[k]] \in Sessions
<1>1. pc[k] \notin {"idle", "done"}
  BY DEF ServingStage
<1>2. owner[k] \in Clients
  BY <1>1 DEF TypeOK
<1>3. AdmittedIsAssigned
  BY DEF ViewInv
<1> QED BY <1>1, <1>2, <1>3 DEF AdmittedIsAssigned

\* An instance that serves is the only one of its client.
LEMMA ServesAlone ==
    ASSUME TypeOK, ServingIsActive, NEW k \in Conns, Serves(k)
    PROVE  /\ owner[k] \in Clients /\ active[owner[k]] = k
           /\ \A j \in Conns : Serves(j) /\ owner[j] = owner[k] => j = k
BY DEF TypeOK, ServingIsActive, Serves, ServingStage

\* What a client has leased is the window its session has active.
LEMMA LeasedIsActive ==
    ASSUME TypeOK, LeaseInv, NEW c \in Clients, NEW w \in LeasedBy(c)
    PROVE  /\ sessionOf[c] \in Sessions /\ sessionOf[c] \in sessions
           /\ w = activeWindow[sessionOf[c]] /\ LeasedBy(c) = {w}
BY DEF TypeOK, LeaseInv, LeaseMatchesAssignment, OneLeasePerClient, LeasedBy, Lease

\* An unchanged instance, as long as its session, client and lease do.
Undisturbed(k) ==
    Serves(k)' =>
      /\ Serves(k)
      /\ UNCHANGED <<owner[k], sessionOf[owner[k]], revision[owner[k]],
                     activeWindow[sessionOf[owner[k]]], view[k]>>
      /\ Planned(k)' = Planned(k)
      /\ PostedIn(mail[k])' = PostedIn(mail[k])
      /\ LeasedBy(owner[k])' # {} => LeasedBy(owner[k]) # {}

LEMMA UndisturbedShows ==
    ASSUME NEW k \in Conns, ShowsNewest(k), Undisturbed(k)
    PROVE  ShowsNewest(k)'
BY SameProjections DEF Undisturbed

\* A step that takes nothing from those who serve, and gives nothing.
LEMMA UndisturbedStep ==
    ASSUME TypeOK, ViewInv, RegistriesAlone,
           \A k \in Conns : StaysBlank(k) /\ Undisturbed(k)
    PROVE  ViewInv'
<1>1. RegistryPart'
  BY RegistriesStay, ViewInvIs
<1>2. \A k \in Conns : ShowsNewest(k)'
  BY UndisturbedShows, ViewInvIs
<1> QED BY <1>1, <1>2 DEF ViewInv, RegistryPart

\* The daemon's side is untouched.
canonicalVars == <<sessions, controller, activeWindow, sessionOf, active, revision, windowLeases>>

\* A connection that goes on, at most to another stage of the same kind.
GoesOn(k) ==
    /\ UNCHANGED <<owner[k], view[k]>>
    /\ PostedIn(mail[k])' = PostedIn(mail[k])
    /\ pc'[k] \in ServingStage => pc[k] \in ServingStage /\ Planned(k)' = Planned(k)
    /\ pc'[k] \in Unpromoted => pc[k] \in Unpromoted
    /\ pc[k] \in {"idle", "done"} => pc'[k] \in {"idle", "done"}

\* A step of connections alone, after which each goes on or is at its end.
LEMMA GoingOnStep ==
    ASSUME TypeOK, ViewInv, UNCHANGED canonicalVars,
           \A k \in Conns : GoesOn(k) \/ pc'[k] \in {"detaching", "releasing", "discarding", "done"},
           \A k \in Conns : pc[k] \in {"idle", "done"} => pc'[k] \in {"idle", "done"},
           UNCHANGED owner
    PROVE  ViewInv'
<1>1. RegistriesAlone
  BY DEF RegistriesAlone, canonicalVars, ViewInv, ControlledLives
<1>2. ASSUME NEW k \in Conns PROVE StaysBlank(k) /\ Undisturbed(k)
  <2>1. CASE GoesOn(k)
    BY <2>1 DEF GoesOn, StaysBlank, Undisturbed, Serves, canonicalVars, LeasedBy, Unpromoted
  <2>2. CASE pc'[k] \in {"detaching", "releasing", "discarding", "done"}
    BY <2>2 DEF StaysBlank, Undisturbed, Serves, ServingStage, Unpromoted, canonicalVars
  <2> QED BY <2>1, <2>2
<1> QED BY <1>1, <1>2, UndisturbedStep

\* A lease is not the absence of one.
LEMMA LeaseIsSomething ==
    ASSUME NEW c \in Clients, NEW s \in Sessions
    PROVE  LeaseTo(s, c, 1) # None /\ LeaseTo(s, c, 1).client = c /\ LeaseTo(s, c, 1).generation = 1
BY NoneIsNoLease DEF LeaseTo, Lease

-----------------------------------------------------------------------------
(* Step by step *)

\* A connection enters admission: nothing is projected for it yet.
LEMMA admission_View ==
    ASSUME TypeOK, ViewInv, LeaseInv, NEW k \in Conns, NEW c \in Clients, NEW displaced,
           pc[k] = "idle", EnterAdmission(k, c, displaced),
           UNCHANGED <<sessions, controller, activeWindow, active, revision, windowLeases>>,
           sessionOf'[c] \in Sessions,
           \A x \in Clients : sessionOf[x] # None => sessionOf'[x] = sessionOf[x]
    PROVE  ViewInv'
<1>1. /\ owner' = [owner EXCEPT ![k] = c]
      /\ view' = [view EXCEPT ![k].session = sessionOf'[c]]
      /\ mail' = Reserved(displaced, ReplacedBy(k))
      /\ plan' = plan
      /\ \A j \in Conns \ {k} : pc'[j] = pc[j]
      /\ pc'[k] \in {"admitted", "notifying"}
  BY DEF EnterAdmission, Goto, TypeOK
<1>2. \A j \in Conns : PostedIn(mail[j])' = PostedIn(mail[j])
  <2>1. ReplacedBy(k) \in Delivery /\ ReplacedBy(k).type = "close"
    BY DEF ReplacedBy, Delivery
  <2> QED BY <1>1, <2>1, ReservedCloses
<1>3. RegistriesAlone
  BY DEF RegistriesAlone, ViewInv, ControlledLives
<1>4. ASSUME NEW j \in Conns \ {k}, pc[j] \notin {"idle", "done"}
      PROVE  UNCHANGED <<owner[j], sessionOf[owner[j]], view[j]>> /\ owner[j] \in Clients
  <2>1. owner[j] \in Clients /\ sessionOf[owner[j]] \in Sessions
    BY <1>4 DEF TypeOK, ViewInv, AdmittedIsAssigned
  <2> QED BY <1>1, <2>1 DEF TypeOK
<1>5. ASSUME NEW j \in Conns \ {k} PROVE Undisturbed(j)
  <2> SUFFICES ASSUME Serves(j)' PROVE Undisturbed(j)
    BY DEF Undisturbed
  <2>1. pc[j] \in ServingStage /\ pc[j] \notin {"idle", "done"}
    BY <1>1 DEF Serves, ServingStage
  <2>2. UNCHANGED <<owner[j], sessionOf[owner[j]], view[j]>> /\ owner[j] \in Clients
    BY <1>4, <2>1
  <2> QED BY <1>1, <1>2, <2>1, <2>2 DEF Undisturbed, Serves, Planned, HoldsPlan, LeasedBy
<1>6. \A j \in Conns : ShowsNewest(j)'
  <2>1. ShowsNewest(k)'
    BY <1>1 DEF ShowsNewest, Serves, ServingStage
  <2> QED BY <1>5, <2>1, UndisturbedShows DEF ViewInv
<1>7. LeasesStartAtOne' /\ ControlledLives'
  BY <1>3 DEF ViewInv, LeasesStartAtOne, ControlledLives, RegistriesAlone
<1>8. AdmittedIsAssigned'
  BY <1>1, <1>4 DEF TypeOK, ViewInv, AdmittedIsAssigned
<1>9. UnpromotedIsBlank'
  <2>1. ASSUME NEW j \in Conns \ {k}, pc'[j] \in Unpromoted
        PROVE  /\ view'[j].window = None /\ view'[j].generation = 0 /\ view'[j].revision = 0
               /\ pc'[j] # "idle" => view'[j].session = sessionOf'[owner'[j]]
    <3>1. view'[j] = view[j] /\ pc[j] \in Unpromoted
      BY <1>1, <2>1 DEF TypeOK
    <3>2. CASE pc[j] = "idle"
      BY <1>1, <3>1, <3>2 DEF ViewInv, UnpromotedIsBlank
    <3>3. CASE pc[j] # "idle"
      BY <1>1, <1>4, <3>1, <3>3 DEF ViewInv, UnpromotedIsBlank, Unpromoted
    <3> QED BY <3>2, <3>3
  <2>2. /\ view'[k].window = None /\ view'[k].generation = 0 /\ view'[k].revision = 0
        /\ view'[k].session = sessionOf'[owner'[k]]
    <3>1. view[k].window = None /\ view[k].generation = 0 /\ view[k].revision = 0 /\ view[k] \in View
      BY DEF ViewInv, UnpromotedIsBlank, Unpromoted, TypeOK
    <3> QED BY <1>1, <3>1 DEF TypeOK, View
  <2>3. ASSUME NEW j \in Conns, pc'[j] \in Unpromoted PROVE PostedIn(mail[j])' = {}
    BY <1>1, <1>2, <2>3 DEF ViewInv, UnpromotedIsBlank, Unpromoted
  <2> QED BY <2>1, <2>2, <2>3 DEF UnpromotedIsBlank
<1>10. ActiveIsOwned'
  BY <1>1 DEF TypeOK, ViewInv, ActiveIsOwned, Unpromoted
<1> QED BY <1>6, <1>7, <1>8, <1>9, <1>10 DEF ViewInv

\* A promotion is the first that is projected for a connection, and its lease starts.
LEMMA initializePromotes_View ==
    ASSUME TypeOK, ViewInv, LeaseInv, ServingIsActive, TypeOK', ServingIsActive',
           NEW k \in Conns, initializePromotes(k)
    PROVE  ViewInv'
<1> DEFINE c == owner[k]
           s == sessionOf[c]
           w == activeWindow[s]
<1>1. /\ c = owner[k] /\ c \in Clients /\ s \in Sessions /\ s \in sessions /\ w \in Windows /\ pc[k] = "waiting"
      /\ UNCHANGED <<sessions, activeWindow, sessionOf, owner, view, mail>>
      /\ controller' = [controller EXCEPT ![s] = c]
      /\ \A j \in Conns \ {k} : pc'[j] = pc[j] /\ plan'[j] = plan[j]
      /\ \A x \in Clients \ {c} : revision'[x] = revision[x]
      /\ active' = [active EXCEPT ![c] = k]
  BY DEF TypeOK, initializePromotes, StillPending, CommitPromotion, Goto
<1>2. /\ view[k].window = None /\ view[k].generation = 0 /\ view[k].revision = 0
      /\ view[k].session = s /\ PostedIn(mail[k]) = {}
  BY <1>1 DEF ViewInv, UnpromotedIsBlank, Unpromoted
<1> HIDE DEF c, s, w
<1>3. \/ pc'[k] = "discarding" /\ windowLeases' = windowLeases
      \/ /\ pc'[k] = "installing"
         /\ \E old \in windowForClientNow(c) :
              windowLeases' = AcquireThenRelease(w, LeaseTo(s, c, 1), old)
         /\ plan'[k] = Projection(c, s, w, LeaseTo(s, c, 1))
         /\ revision'[c] = revision[c] + 1
  <2>1. CASE windowLeases[w] # None /\ windowLeases[w].client # c
    BY <2>1 DEF TypeOK, initializePromotes, Goto, c, s, w
  <2>2. CASE ~(windowLeases[w] # None /\ windowLeases[w].client # c)
    <3> DEFINE generation(old) == IF windowLeases[w] = None THEN 1
                                  ELSE IF old = w THEN windowLeases[w].generation
                                  ELSE windowLeases[w].generation + 1
    <3>1. PICK old \in windowForClientNow(c) :
             /\ windowLeases' = AcquireThenRelease(w, LeaseTo(s, c, generation(old)), old)
             /\ plan' = [plan EXCEPT ![k] = Projection(c, s, w, LeaseTo(s, c, generation(old)))]
             /\ revision' = [revision EXCEPT ![c] = @ + 1]
             /\ pc' = [pc EXCEPT ![k] = "installing"]
      BY <2>2 DEF initializePromotes, Goto, c, s, w
    <3>2. generation(old) = 1
      <4>1. CASE windowLeases[w] = None
        BY <4>1
      <4>2. CASE windowLeases[w] # None
        <5>1. w \in LeasedBy(c)
          BY <1>1, <2>2, <4>2 DEF LeasedBy
        <5>2. old = w
          BY <1>1, <5>1, LeasedIsActive DEF windowForClientNow
        <5> QED BY <1>1, <4>2, <5>2 DEF ViewInv, LeasesStartAtOne
      <4> QED BY <4>1, <4>2
    <3> QED BY <1>1, <3>1, <3>2 DEF TypeOK
  <2> QED BY <2>1, <2>2
<1>4. \A x \in Windows : windowLeases'[x] \in {windowLeases[x], None, LeaseTo(s, c, 1)}
  BY <1>3 DEF AcquireThenRelease
<1>5. LeasesStartAtOne'
  BY <1>4 DEF ViewInv, LeasesStartAtOne, LeaseTo
<1>6. ControlledLives'
  BY <1>1 DEF ViewInv, ControlledLives, TypeOK
<1>7. AdmittedIsAssigned' /\ UnpromotedIsBlank'
  <2>1. \A j \in Conns : pc'[j] \notin {"idle", "done"} => pc[j] \notin {"idle", "done"}
    BY <1>1
  <2>2. \A j \in Conns : pc'[j] \in Unpromoted => pc[j] \in Unpromoted /\ pc'[j] = pc[j]
    BY <1>1, <1>3 DEF Unpromoted
  <2> QED BY <1>1, <2>1, <2>2 DEF ViewInv, AdmittedIsAssigned, UnpromotedIsBlank
<1>8. ASSUME NEW j \in Conns \ {k} PROVE ShowsNewest(j)'
  <2>1. Undisturbed(j)
    <3> SUFFICES ASSUME Serves(j)' PROVE Undisturbed(j)
      BY DEF Undisturbed
    <3>1. pc[j] \in ServingStage /\ owner[j] \in Clients /\ owner[j] # c
      <4>1. pc'[j] \in ServingStage /\ pc[j] \in ServingStage
        BY <1>1 DEF Serves
      <4>2. owner[j] \in Clients
        BY <4>1 DEF TypeOK, ServingStage
      <4>3. active'[owner'[j]] = j
        BY <4>1 DEF ServingStage, ServingIsActive
      <4> QED BY <1>1, <4>1, <4>2, <4>3 DEF TypeOK
    <3>2. sessionOf[owner[j]] \in Sessions
      BY <3>1 DEF ViewInv, AdmittedIsAssigned, ServingStage
    <3>3. controller[sessionOf[owner[j]]] = owner[j]
      BY <1>1, <3>1, <3>2 DEF Serves, TypeOK
    <3>4. LeasedBy(owner[j])' # {} => LeasedBy(owner[j]) # {}
      BY <1>1, <1>4, <3>1 DEF LeasedBy, LeaseTo
    <3> QED BY <1>1, <3>1, <3>3, <3>4 DEF Undisturbed, Serves, Planned, HoldsPlan
  <2> QED BY <2>1, UndisturbedShows DEF ViewInv
<1>9. ShowsNewest(k)'
  <2>1. CASE pc'[k] = "discarding"
    BY <2>1 DEF ShowsNewest, Serves, ServingStage
  <2>2. CASE pc'[k] # "discarding"
    <3>1. PICK v : v = plan'[k]
      OBVIOUS
    <3>7. v = [session |-> s, window |-> w, revision |-> revision[c] + 1, generation |-> 1]
      BY <1>1, <1>3, <2>2, <3>1, LeaseIsSomething DEF Projection
    <3>2. Projections(k)' = {view[k], v}
      BY <1>1, <1>2, <1>3, <2>2, <3>1 DEF Projections, Planned, HoldsPlan
    <3>3. revision[c] \in Nat /\ revision'[c] = revision[c] + 1 /\ owner'[k] = c /\ sessionOf'[c] = s
      BY <1>1, <1>3, <2>2 DEF TypeOK, c, s
    <3>4. \A x \in Projections(k)' : KnownProjection(k, x)'
      BY <1>2, <3>2, <3>3, <3>7 DEF KnownProjection
    <3>5. IsNewest(k, v)'
      BY <1>1, <1>2, <3>2, <3>3, <3>7 DEF IsNewest, CurrentWindow, w
    <3>6. LeaseIsTold(k)'
      BY <1>2, <3>2, <3>7 DEF LeaseIsTold
    <3> QED BY <3>2, <3>4, <3>5, <3>6 DEF ShowsNewest
  <2> QED BY <2>1, <2>2
<1>10. ActiveIsOwned'
  <2>1. pc'[k] \notin Unpromoted
    BY <1>3 DEF Unpromoted
  <2>2. ASSUME NEW x \in Clients \ {c}, active[x] # None
        PROVE  active[x] \in Conns \ {k} /\ active'[x] = active[x]
    BY <1>1, <2>2 DEF TypeOK, ViewInv, ActiveIsOwned, Unpromoted
  <2>3. active'[c] = k
    BY <1>1 DEF TypeOK
  <2>4. \A x \in Clients \ {c} : active'[x] = active[x]
    BY <1>1 DEF TypeOK
  <2> QED BY <1>1, <2>1, <2>2, <2>3, <2>4 DEF ViewInv, ActiveIsOwned
<1> QED BY <1>5, <1>6, <1>7, <1>8, <1>9, <1>10 DEF ViewInv

\* A plan that an instance holds is applied, or ends it.
LEMMA ApplyPlan_View ==
    ASSUME TypeOK, ViewInv, NEW k \in Conns, HoldsPlan(k), NEW stage, ApplyPlan(k, stage),
           stage \in {"attached", "detaching", "discarding"}
    PROVE  ViewInv'
<1>1. /\ UNCHANGED <<canonicalVars, owner, mail>>
      /\ pc' = [pc EXCEPT ![k] = stage]
      /\ view' = [view EXCEPT ![k] = Applied(k, plan[k])]
      /\ plan' = [plan EXCEPT ![k] = NoView]
  BY DEF ApplyPlan, registryVars, identityVars, canonicalVars, Goto
<1>2. RegistriesAlone /\ \A j \in Conns : StaysBlank(j)
  BY <1>1 DEF TypeOK, RegistriesAlone, ViewInv, ControlledLives, StaysBlank, canonicalVars, Unpromoted, HoldsPlan
<1>3. RegistryPart'
  BY <1>2, RegistriesStay, ViewInvIs
<1>4. ASSUME NEW j \in Conns \ {k} PROVE ShowsNewest(j)'
  <2>1. Undisturbed(j)
    BY <1>1 DEF TypeOK, Undisturbed, Serves, Planned, HoldsPlan, canonicalVars, LeasedBy
  <2> QED BY <2>1, UndisturbedShows DEF ViewInv
<1>5. ShowsNewest(k)'
  <2>1. CASE stage # "attached" \/ ~Serves(k)
    BY <1>1, <2>1 DEF TypeOK, ShowsNewest, Serves, ServingStage, canonicalVars, HoldsPlan
  <2>2. CASE stage = "attached" /\ Serves(k)
    <3>1. /\ plan[k] \in Projections(k)
          /\ Planned(k)' = {} /\ PostedIn(mail[k])' = PostedIn(mail[k])
          /\ Projections(k) = {view[k], plan[k]} \cup PostedIn(mail[k])
          /\ view'[k] = Applied(k, plan[k])
      BY <1>1, <2>2 DEF TypeOK, Projections, Planned, HoldsPlan
    <3>2. UNCHANGED <<owner[k], sessionOf[owner[k]], revision[owner[k]],
                       activeWindow[sessionOf[owner[k]]], LeasedBy(owner[k])>>
      BY <1>1 DEF canonicalVars, LeasedBy
    <3> QED BY <2>2, <3>1, <3>2, ProjectionIsApplied DEF ViewInv
  <2> QED BY <2>1, <2>2
<1> QED BY <1>3, <1>4, <1>5, ViewInvIs DEF RegistryPart, ViewInv

\* A delivery is applied, or rejected.
LEMMA applyDeliveredTransition_View ==
    ASSUME TypeOK, ViewInv, NEW k \in Conns, applyDeliveredTransition(k)
    PROVE  ViewInv'
<1> DEFINE v == Head(mail[k]).view
<1>1. /\ UNCHANGED <<canonicalVars, owner, pc, plan>> /\ Serving(k)
      /\ mail[k] # <<>> /\ Head(mail[k]).type = "view"
      /\ view' = [view EXCEPT ![k] = Applied(k, v)]
      /\ mail' = [mail EXCEPT ![k] = Tail(@)]
  BY DEF applyDeliveredTransition, registryVars, identityVars, canonicalVars
<1>2. PostedIn(mail[k]) = PostedIn(mail[k])' \cup {v}
  BY <1>1, PostedTaken DEF TypeOK
<1> HIDE DEF v
<1>3. RegistriesAlone /\ \A j \in Conns : StaysBlank(j)
  BY <1>1 DEF TypeOK, RegistriesAlone, ViewInv, ControlledLives, StaysBlank, canonicalVars, Unpromoted, Serving
<1>4. RegistryPart'
  BY <1>3, RegistriesStay, ViewInvIs
<1>5. ASSUME NEW j \in Conns \ {k} PROVE ShowsNewest(j)'
  <2>1. Undisturbed(j)
    BY <1>1 DEF TypeOK, Undisturbed, Serves, Planned, HoldsPlan, canonicalVars, LeasedBy
  <2> QED BY <2>1, UndisturbedShows DEF ViewInv
<1>6. ShowsNewest(k)'
  <2>1. CASE ~Serves(k)
    BY <1>1, <2>1 DEF ShowsNewest, Serves, canonicalVars
  <2>2. CASE Serves(k)
    <3>1. /\ v \in Projections(k) /\ Planned(k) = {} /\ Planned(k)' = {}
          /\ Projections(k) = {view[k], v} \cup PostedIn(mail[k])'
          /\ view'[k] = Applied(k, v)
      BY <1>1, <1>2 DEF TypeOK, Projections, Planned, HoldsPlan, Serving
    <3>2. UNCHANGED <<owner[k], sessionOf[owner[k]], revision[owner[k]],
                       activeWindow[sessionOf[owner[k]]], LeasedBy(owner[k])>>
      BY <1>1 DEF canonicalVars, LeasedBy
    <3> QED BY <2>2, <3>1, <3>2, ProjectionIsApplied DEF ViewInv
  <2> QED BY <2>1, <2>2
<1> QED BY <1>4, <1>5, <1>6, ViewInvIs DEF RegistryPart, ViewInv

\* The end of an instance, whatever it takes from the registries.
LEMMA ending_View ==
    ASSUME TypeOK, ViewInv, NEW k \in Conns, pc[k] \in {"detaching", "releasing", "discarding"},
           pc' = [pc EXCEPT ![k] = pc'[k]], pc'[k] \in {"releasing", "done"},
           \A j \in Conns \ {k} : UNCHANGED <<view[j], mail[j], plan[j]>>,
           UNCHANGED <<owner, sessions, activeWindow, sessionOf, revision>>,
           \A w \in Windows : windowLeases'[w] \in {windowLeases[w], None},
           \A s \in Sessions : controller'[s] \in {controller[s], None},
           \A c \in Clients : active'[c] \in {active[c], None}
    PROVE  ViewInv'
<1>1. RegistriesAlone
  BY DEF RegistriesAlone, ViewInv, ControlledLives
<1>2. ASSUME NEW j \in Conns PROVE StaysBlank(j)
  BY DEF TypeOK, StaysBlank, Unpromoted
<1>3. ASSUME NEW j \in Conns PROVE Undisturbed(j)
  <2> SUFFICES ASSUME Serves(j)' PROVE Undisturbed(j)
    BY DEF Undisturbed
  <2>1. j # k /\ pc'[j] = pc[j] /\ pc[j] \in ServingStage
    BY DEF TypeOK, Serves, ServingStage
  <2>2. owner[j] \in Clients /\ sessionOf[owner[j]] \in Sessions
    BY <2>1, ServesSomebody
  <2>3. controller[sessionOf[owner[j]]] = owner[j]
    BY <2>2, NoneIsNoID DEF Serves
  <2>4. LeasedBy(owner[j])' # {} => LeasedBy(owner[j]) # {}
    BY DEF LeasedBy
  <2> QED BY <2>1, <2>3, <2>4 DEF Undisturbed, Serves, Planned, HoldsPlan
<1> QED BY <1>1, <1>2, <1>3, UndisturbedStep

\* Window w is selected for a client that has a lease; the projection goes to the
\* client's active connection, on its way or at once.
LEMMA selection_View ==
    ASSUME TypeOK, ViewInv, LeaseInv, ServingIsActive, NEW c \in Clients, NEW s \in Sessions,
           NEW w \in Windows, Selectable(c, s, w), CommitSelection(c, s, w),
           LET v == Projection(c, s, w, SelectedLease(c, s, w))
           IN  /\ v \in View
               /\ \A k \in Conns :
                    /\ pc'[k] = pc[k] \/ (pc[k] = "attached" /\ pc'[k] = "applying")
                    /\ IF k = active[c] /\ pc[k] # "done"
                         THEN Projections(k)' = Projections(k) \cup {v}
                         ELSE mail'[k] = mail[k] /\ Planned(k)' = Planned(k)
    PROVE  ViewInv'
<1> DEFINE v == Projection(c, s, w, SelectedLease(c, s, w))
<1>1. /\ c # None /\ controller[s] = c /\ sessionOf[c] = s /\ LeasedBy(c) # {}
      /\ windowLeases[w] # None => windowLeases[w].client = c
  BY NoneIsNoID DEF Selectable, LeaseInv, ControllerAssigned
<1>2. PICK old \in LeasedBy(c) : windowLeases' = AcquireThenRelease(w, SelectedLease(c, s, w), old)
  BY DEF CommitSelection
<1>3. SelectedLease(c, s, w) = LeaseTo(s, c, 1)
  <2>1. CASE windowLeases[w] = None
    BY <2>1 DEF SelectedLease
  <2>2. CASE windowLeases[w] # None
    <3>1. w \in LeasedBy(c)
      BY <1>1, <2>2 DEF LeasedBy
    <3>2. activeWindow[s] = w
      BY <1>1, <3>1, LeasedIsActive
    <3> QED BY <2>2, <3>2 DEF SelectedLease, ViewInv, LeasesStartAtOne
  <2> QED BY <2>1, <2>2
<1>4. v = [session |-> s, window |-> w, revision |-> revision[c] + 1, generation |-> 1]
  BY <1>3, LeaseIsSomething DEF Projection
<1>5. /\ UNCHANGED <<sessions, controller, sessionOf, owner, view>>
      /\ activeWindow' = [activeWindow EXCEPT ![s] = w]
      /\ revision' = [revision EXCEPT ![c] = @ + 1]
  BY DEF CommitSelection
<1>6. \A x \in Windows : windowLeases'[x] \in {windowLeases[x], None, LeaseTo(s, c, 1)}
  BY <1>2, <1>3 DEF AcquireThenRelease
<1> HIDE DEF v
<1>7. LeasesStartAtOne' /\ ControlledLives'
  BY <1>5, <1>6 DEF ViewInv, LeasesStartAtOne, LeaseTo, ControlledLives
<1>8. AdmittedIsAssigned' /\ UnpromotedIsBlank'
  <2>1. \A k \in Conns : pc'[k] \notin {"idle", "done"} => pc[k] \notin {"idle", "done"}
    OBVIOUS
  <2>2. \A k \in Conns : pc'[k] \in Unpromoted => pc'[k] = pc[k] /\ mail'[k] = mail[k]
    BY DEF Unpromoted, ViewInv, ActiveIsOwned
  <2>3. AdmittedIsAssigned'
    BY <1>5, <2>1 DEF ViewInv, AdmittedIsAssigned
  <2>4. UnpromotedIsBlank'
    BY <1>5, <2>2 DEF ViewInv, UnpromotedIsBlank
  <2> QED BY <2>3, <2>4
<1>9. ASSUME NEW k \in Conns PROVE ShowsNewest(k)'
  <2> SUFFICES ASSUME Serves(k)' PROVE ShowsNewest(k)'
    BY DEF ShowsNewest
  <2>1. Serves(k) /\ pc[k] \in ServingStage
    BY <1>5 DEF Serves, ServingStage
  <2>2. owner[k] \in Clients /\ sessionOf[owner[k]] \in Sessions /\ active[owner[k]] = k
    BY <2>1, ServesSomebody, ServesAlone
  <2>3. CASE owner[k] = c
    <3>1. Projections(k)' = Projections(k) \cup {v} /\ v \in View
      BY <2>1, <2>2, <2>3 DEF v, ServingStage
    <3>2. /\ v.session = sessionOf[owner[k]] /\ v.revision = revision[owner[k]] + 1
          /\ v.generation = 1 /\ v.window = CurrentWindow(k)'
          /\ revision'[owner[k]] = revision[owner[k]] + 1
      BY <1>1, <1>4, <1>5, <2>2, <2>3 DEF CurrentWindow, TypeOK
    <3>3. UNCHANGED <<owner[k], sessionOf[owner[k]], view[k]>>
      BY <1>5
    <3> QED BY <1>1, <2>1, <2>3, <3>1, <3>2, <3>3, OneMoreProjection DEF ViewInv
  <2>4. CASE owner[k] # c
    <3>1. sessionOf[owner[k]] \in Sessions \ {s}
      BY <1>1, <2>1, <2>2, <2>4 DEF Serves
    <3>2. k # active[c]
      BY <2>4, NoneIsNoID DEF ViewInv, ActiveIsOwned
    <3>3. mail'[k] = mail[k] /\ Planned(k)' = Planned(k)
      BY <3>2
    <3>4. LeasedBy(owner[k])' # {} => LeasedBy(owner[k]) # {}
      <4>1. ASSUME NEW x \in LeasedBy(owner[k])' PROVE x \in LeasedBy(owner[k])
        BY <1>5, <1>6, <2>4, <4>1 DEF LeasedBy, LeaseTo
      <4> QED BY <4>1
    <3>5. Undisturbed(k)
      BY <1>5, <2>1, <2>2, <2>4, <3>1, <3>3, <3>4 DEF Undisturbed, TypeOK
    <3> QED BY <3>5, UndisturbedShows DEF ViewInv
  <2> QED BY <2>3, <2>4
<1>10. ActiveIsOwned'
  BY <1>5 DEF TypeOK, ViewInv, ActiveIsOwned, CommitSelection, Unpromoted
<1> QED BY <1>7, <1>8, <1>9, <1>10 DEF ViewInv

\* A client is projected again what it shows: its session's active window, with its
\* lease if it has it.
LEMMA refresh_View ==
    ASSUME TypeOK, ViewInv, LeaseInv, ServingIsActive, NEW c \in Clients, sessionOf[c] \in sessions,
           UNCHANGED <<sessions, controller, activeWindow, sessionOf, active, windowLeases, owner, view>>,
           revision' = [revision EXCEPT ![c] = @ + 1],
           \A k \in Conns :
              /\ pc'[k] = pc[k] \/ (pc[k] = "attached" /\ pc'[k] \in {"applying", "resizing"})
              /\ IF k = active[c] /\ pc[k] # "done"
                   THEN Projections(k)' = Projections(k) \cup {Refreshed(c)}
                   ELSE mail'[k] = mail[k] /\ Planned(k)' = Planned(k)
    PROVE  ViewInv'
<1> DEFINE s == sessionOf[c]
           w == activeWindow[s]
<1>1. s \in Sessions /\ w \in Windows
  BY DEF TypeOK
<1>2. PICK v : v = Refreshed(c)
  OBVIOUS
<1>3. /\ v \in View
      /\ v.session = s /\ v.window = w /\ v.revision = revision[c] + 1 /\ v.generation \in {0, 1}
      /\ LeasedBy(c) # {} => v.generation = 1
  <2>1. v = Projection(c, s, w, windowLeases[w])
    BY <1>2 DEF Refreshed
  <2>2. windowLeases[w] \in Lease \cup {None}
    BY <1>1 DEF TypeOK
  <2>3. v \in View
    BY <1>1, <2>1, <2>2, ProjectionIsView
  <2>4. windowLeases[w] # None => windowLeases[w].generation = 1
    BY <1>1 DEF ViewInv, LeasesStartAtOne
  <2>5. ASSUME NEW x \in LeasedBy(c) PROVE windowLeases[w] # None /\ windowLeases[w].client = c
    BY <2>5, LeasedIsActive DEF LeasedBy
  <2> QED BY <2>1, <2>3, <2>4, <2>5 DEF Projection
<1> HIDE DEF s, w
<1>4. RegistryPart'
  <2>1. RegistriesAlone
    BY DEF RegistriesAlone, ViewInv, ControlledLives
  <2>2. \A k \in Conns : StaysBlank(k)
    BY DEF StaysBlank, Unpromoted, ViewInv, ActiveIsOwned
  <2> QED BY <2>1, <2>2, RegistriesStay, ViewInvIs
<1>5. ASSUME NEW k \in Conns PROVE ShowsNewest(k)'
  <2> SUFFICES ASSUME Serves(k)' PROVE ShowsNewest(k)'
    BY DEF ShowsNewest
  <2>1. Serves(k) /\ pc[k] \in ServingStage
    BY DEF Serves, ServingStage
  <2>2. owner[k] \in Clients /\ sessionOf[owner[k]] \in Sessions /\ active[owner[k]] = k
    BY <2>1, ServesSomebody, ServesAlone
  <2>3. CASE owner[k] = c
    <3>1. Projections(k)' = Projections(k) \cup {v}
      BY <1>2, <2>1, <2>2, <2>3 DEF ServingStage
    <3>2. revision'[owner[k]] = revision[owner[k]] + 1
      BY <2>3 DEF TypeOK
    <3>3. /\ v.session = sessionOf[owner[k]] /\ v.revision = revision[owner[k]] + 1
          /\ v.window = CurrentWindow(k)' /\ CurrentWindow(k)' = CurrentWindow(k)
      BY <1>3, <2>3 DEF CurrentWindow, s, w
    <3>4. LeasedBy(owner[k])' = LeasedBy(owner[k])
      BY DEF LeasedBy
    <3> QED BY <1>3, <2>1, <2>3, <3>1, <3>2, <3>3, <3>4, OneMoreProjection DEF ViewInv
  <2>4. CASE owner[k] # c
    <3>1. k # active[c]
      BY <2>4, NoneIsNoID DEF ViewInv, ActiveIsOwned
    <3>2. mail'[k] = mail[k] /\ Planned(k)' = Planned(k) /\ revision'[owner[k]] = revision[owner[k]]
      BY <2>2, <2>4, <3>1 DEF TypeOK
    <3>3. LeasedBy(owner[k])' = LeasedBy(owner[k])
      BY DEF LeasedBy
    <3>4. Undisturbed(k)
      BY <2>1, <3>2, <3>3 DEF Undisturbed
    <3> QED BY <3>4, UndisturbedShows DEF ViewInv
  <2> QED BY <2>3, <2>4
<1> QED BY <1>4, <1>5 DEF ViewInv, RegistryPart

\* A plan the instance goes on to apply itself is one more projection.
LEMMA ApplyItselfProjects ==
    ASSUME TypeOK, NEW k \in Conns, NEW v, NEW stage, stage \in {"applying", "resizing"},
           ApplyItself(k, v, stage, mail), view' = view
    PROVE  /\ \A j \in Conns : pc'[j] = pc[j] \/ (pc[j] = "attached" /\ pc'[j] = stage)
           /\ Projections(k)' = Projections(k) \cup {v}
           /\ \A j \in Conns \ {k} : mail'[j] = mail[j] /\ Planned(j)' = Planned(j)
           /\ pc[k] = "attached"
BY DEF TypeOK, ApplyItself, Goto, Projections, Planned, HoldsPlan

\* A posted delivery is one more projection.
LEMMA PostToMailboxProjects ==
    ASSUME TypeOK, NEW k, NEW v \in View, PostToMailbox(k, v, mail), view' = view
    PROVE  /\ pc' = pc
           /\ \A j \in Conns : IF j = k /\ pc[j] # "done"
                                THEN Projections(j)' = Projections(j) \cup {v}
                                ELSE mail'[j] = mail[j] /\ Planned(j)' = Planned(j)
<1>1. /\ UNCHANGED <<pc, plan>>
      /\ mail' = [x \in Conns |-> IF x = k /\ pc[x] # "done"
                                    THEN Append(mail[x], ViewDelivery(v)) ELSE mail[x]]
  BY DEF PostToMailbox
<1>2. ViewDelivery(v) \in Delivery /\ ViewDelivery(v).type = "view" /\ ViewDelivery(v).view = v
  BY DEF ViewDelivery, Delivery
<1>3. ASSUME NEW j \in Conns PROVE Planned(j)' = Planned(j)
  BY <1>1 DEF Planned, HoldsPlan
<1>4. ASSUME NEW j \in Conns, j = k, pc[j] # "done" PROVE Projections(j)' = Projections(j) \cup {v}
  <2>1. mail[j] \in Seq(Delivery)
    BY DEF TypeOK
  <2>2. PostedIn(mail'[j]) = PostedIn(mail[j]) \cup {v}
    BY <1>1, <1>2, <1>4, <2>1, PostedAppended
  <2> QED BY <1>3, <2>2 DEF Projections
<1> QED BY <1>1, <1>3, <1>4

\* A selection the instance asked for itself.
LEMMA selectWindowItself_View ==
    ASSUME TypeOK, ViewInv, LeaseInv, ServingIsActive, NEW k \in Conns, NEW w \in Windows,
           selectWindowItself(k, w)
    PROVE  ViewInv'
<1> DEFINE c == owner[k]
           s == view[k].session
           v == Projection(c, s, w, SelectedLease(c, s, w))
<1>1. /\ pc[k] = "attached" /\ s \in sessions /\ Selectable(c, s, w) /\ CommitSelection(c, s, w)
      /\ ApplyItself(k, v, "applying", mail) /\ view' = view
  BY DEF selectWindowItself, CommitSelection
<1>2. c \in Clients /\ s \in Sessions /\ active[c] = k
  BY <1>1 DEF TypeOK, ServingIsActive
<1>3. v \in View
  BY <1>2, LeaseTypes, ProjectionIsView
<1> HIDE DEF v, c, s
<1>4. \A j \in Conns : /\ pc'[j] = pc[j] \/ (pc[j] = "attached" /\ pc'[j] = "applying")
                       /\ IF j = active[c] /\ pc[j] # "done"
                            THEN Projections(j)' = Projections(j) \cup {v}
                            ELSE mail'[j] = mail[j] /\ Planned(j)' = Planned(j)
  BY <1>1, <1>2, ApplyItselfProjects
<1> QED BY <1>1, <1>2, <1>3, <1>4, selection_View DEF v

\* A selection that a command asked for.
LEMMA selectResolvedWindow_View ==
    ASSUME TypeOK, ViewInv, LeaseInv, ServingIsActive, NEW s \in Sessions, NEW w \in Windows,
           selectResolvedWindow(s, w)
    PROVE  ViewInv'
<1> DEFINE c == resolved[s]
           v == Projection(c, s, w, SelectedLease(c, s, w))
<1>1. /\ Selectable(c, s, w) /\ CommitSelection(c, s, w) /\ PostToMailbox(active[c], v, mail)
      /\ view' = view /\ c # None
  BY DEF selectResolvedWindow, CommitSelection
<1>2. c \in Clients
  BY <1>1 DEF TypeOK
<1>3. v \in View
  BY <1>2, LeaseTypes, ProjectionIsView
<1> HIDE DEF v, c
<1>4. \A j \in Conns : /\ pc'[j] = pc[j] \/ (pc[j] = "attached" /\ pc'[j] = "applying")
                       /\ IF j = active[c] /\ pc[j] # "done"
                            THEN Projections(j)' = Projections(j) \cup {v}
                            ELSE mail'[j] = mail[j] /\ Planned(j)' = Planned(j)
  BY <1>1, <1>3, PostToMailboxProjects
<1> QED BY <1>1, <1>2, <1>3, <1>4, selection_View DEF v

\* A refresh, for the instance itself or through its mailbox, and a resize.
LEMMA refreshSession_View ==
    ASSUME TypeOK, ViewInv, LeaseInv, ServingIsActive, NEW k \in Conns,
           refreshSession(k) \/ resizeClientView(k)
    PROVE  ViewInv'
<1> DEFINE c == owner[k]
           v == Refreshed(c)
<1>1. CASE CommitRefresh(c) /\ c \in Clients /\ active[c] = k /\ sessionOf[c] \in sessions
           /\ \/ \E stage \in {"applying", "resizing"} : ApplyItself(k, v, stage, mail)
              \/ PostToMailbox(k, v, mail)
  <2>1. /\ UNCHANGED <<sessions, controller, activeWindow, sessionOf, active, windowLeases, owner, view>>
        /\ revision' = [revision EXCEPT ![c] = @ + 1]
    BY <1>1 DEF CommitRefresh, registryVars
  <2>2. v \in View
    <3>1. sessionOf[c] \in Sessions /\ activeWindow[sessionOf[c]] \in Windows
      BY <1>1 DEF TypeOK
    <3>2. windowLeases[activeWindow[sessionOf[c]]] \in Lease \cup {None}
      BY <3>1 DEF TypeOK
    <3> QED BY <1>1, <3>1, <3>2, ProjectionIsView DEF Refreshed
  <2> HIDE DEF c, v
  <2>3. \A j \in Conns :
          /\ pc'[j] = pc[j] \/ (pc[j] = "attached" /\ pc'[j] \in {"applying", "resizing"})
          /\ IF j = active[c] /\ pc[j] # "done"
               THEN Projections(j)' = Projections(j) \cup {v}
               ELSE mail'[j] = mail[j] /\ Planned(j)' = Planned(j)
    <3>1. ASSUME NEW stage \in {"applying", "resizing"}, ApplyItself(k, v, stage, mail)
          PROVE  \A j \in Conns :
                    /\ pc'[j] = pc[j] \/ (pc[j] = "attached" /\ pc'[j] \in {"applying", "resizing"})
                    /\ IF j = active[c] /\ pc[j] # "done"
                         THEN Projections(j)' = Projections(j) \cup {v}
                         ELSE mail'[j] = mail[j] /\ Planned(j)' = Planned(j)
      BY <1>1, <2>1, <3>1, ApplyItselfProjects
    <3>2. CASE PostToMailbox(k, v, mail)
      BY <1>1, <2>1, <2>2, <3>2, PostToMailboxProjects
    <3> QED BY <1>1, <3>1, <3>2
  <2> QED BY <1>1, <2>1, <2>3, refresh_View DEF v
<1>2. CASE refreshSession(k)
  <2>1. c \in Clients
    BY <1>2 DEF refreshSession, TypeOK
  <2> QED BY <1>1, <1>2, <2>1 DEF refreshSession
<1>3. CASE resizeClientView(k)
  <2>1. c \in Clients /\ pc[k] = "attached"
    BY <1>3 DEF resizeClientView, TypeOK
  <2>2. CASE active[c] = k /\ sessionOf[c] \in sessions /\ controller[sessionOf[c]] = c
    BY <1>1, <1>3, <2>1, <2>2 DEF resizeClientView
  <2>3. CASE ~(active[c] = k /\ sessionOf[c] \in sessions /\ controller[sessionOf[c]] = c)
    <3>1. /\ pc' = [pc EXCEPT ![k] = "detaching"]
          /\ UNCHANGED <<canonicalVars, owner, view, plan, mail>>
      BY <1>3, <2>3 DEF resizeClientView, Goto, canonicalVars, registryVars, identityVars
    <3>2. \A j \in Conns : j # k => pc'[j] = pc[j]
      BY <3>1 DEF TypeOK
    <3>3. \A j \in Conns : GoesOn(j) \/ pc'[j] = "detaching"
      BY <2>1, <3>1, <3>2 DEF GoesOn, Planned, HoldsPlan, TypeOK
    <3> QED BY <2>1, <3>1, <3>2, <3>3, GoingOnStep
  <2> QED BY <2>2, <2>3
<1> QED BY <1>2, <1>3

\* A Close is no projection: the mailbox with one more, or one less, tells the same.
LEMMA runClose_View ==
    ASSUME TypeOK, ViewInv, NEW k \in Conns, runClose(k)
    PROVE  ViewInv'
<1>1. /\ UNCHANGED <<canonicalVars, owner, view, plan>> /\ Serving(k)
      /\ mail[k] # <<>> /\ Head(mail[k]).type # "view"
      /\ mail' = [mail EXCEPT ![k] = Tail(@)]
      /\ pc' = [pc EXCEPT ![k] = "exiting"]
  BY DEF runClose, Goto, canonicalVars, registryVars, identityVars
<1>2. ASSUME NEW j \in Conns PROVE PostedIn(mail[j])' = PostedIn(mail[j])
  <2>1. mail'[j] = IF j = k THEN Tail(mail[k]) ELSE mail[j]
    BY <1>1 DEF TypeOK
  <2>2. mail[k] \in Seq(Delivery)
    BY DEF TypeOK
  <2>3. PostedIn(mail[k]) = PostedIn(Tail(mail[k]))
    BY <1>1, <2>2, PostedTaken
  <2>4. PostedIn(mail[j])' = PostedIn(mail'[j])
    BY DEF PostedIn
  <2> QED BY <2>1, <2>3, <2>4
<1>3. \A j \in Conns : GoesOn(j)
  BY <1>1, <1>2 DEF TypeOK, GoesOn, Serving, Planned, HoldsPlan, ServingStage, Unpromoted
<1> QED BY <1>1, <1>3, GoingOnStep DEF GoesOn

\* A delivery is cancelled only when its client no longer has the session, or has gone.
LEMMA cancelDelivery_View ==
    ASSUME TypeOK, ViewInv, ServingIsActive, NEW k \in Conns, NEW i \in DOMAIN mail[k],
           cancelDelivery(k, i)
    PROVE  ViewInv'
<1>1. /\ UNCHANGED <<canonicalVars, owner, view, plan, pc>>
      /\ mail' = [mail EXCEPT ![k] = RemoveAt(@, i)]
      /\ mail[k][i].type = "view"
  BY DEF cancelDelivery, canonicalVars, registryVars, identityVars
<1>2. mail[k][i].view \in PostedIn(mail[k])
  BY <1>1 DEF PostedIn
<1>3. ~Serves(k)
  <2> SUFFICES ASSUME Serves(k) PROVE FALSE
    OBVIOUS
  <2>1. mail[k][i].view.session = sessionOf[owner[k]]
    BY <1>2 DEF ViewInv, ShowsNewest, Projections, KnownProjection
  <2>2. /\ owner[k] \in Clients /\ active[owner[k]] = k /\ controller[sessionOf[owner[k]]] = owner[k]
        /\ sessionOf[owner[k]] \in Sessions
    BY ServesSomebody, ServesAlone DEF Serves
  <2>3. sessionOf[owner[k]] \in sessions
    BY <2>2, NoneIsNoID DEF ViewInv, ControlledLives
  <2> QED BY <2>1, <2>2, <2>3, NoneIsNoID DEF cancelDelivery
<1>4. pc[k] \notin Unpromoted
  BY <1>2 DEF ViewInv, UnpromotedIsBlank
<1>5. ASSUME NEW j \in Conns PROVE StaysBlank(j) /\ Undisturbed(j)
  <2>1. j # k => mail'[j] = mail[j]
    BY <1>1 DEF TypeOK
  <2> QED BY <1>1, <1>3, <1>4, <2>1
          DEF StaysBlank, Undisturbed, Serves, canonicalVars, Planned, HoldsPlan, LeasedBy
<1>6. RegistriesAlone
  BY <1>1 DEF RegistriesAlone, canonicalVars, ViewInv, ControlledLives
<1> QED BY <1>5, <1>6, UndisturbedStep

\* A session that is shut down has no client.
LEMMA shutdownSession_View ==
    ASSUME TypeOK, ViewInv, NEW s \in Sessions, shutdownSession(s)
    PROVE  ViewInv'
<1>1. /\ UNCHANGED <<activeWindow, sessionOf, active, revision, owner, view, plan, pc>>
      /\ sessions' = sessions \ {s}
      /\ controller' = [controller EXCEPT ![s] = None]
      /\ \A w \in Windows : windowLeases'[w] \in {windowLeases[w], None}
      /\ mail' = mail \/ mail' = Reserved(active[controller[s]], Exited)
  BY DEF shutdownSession, MailAfterShutdown
<1>2. \A j \in Conns : PostedIn(mail[j])' = PostedIn(mail[j])
  <2>1. Exited \in Delivery /\ Exited.type = "close"
    BY DEF Exited, Delivery
  <2> QED BY <1>1, <2>1, ReservedCloses
<1>3. \A t \in Sessions : controller'[t] # None => controller'[t] = controller[t] /\ t # s
  BY <1>1 DEF TypeOK
<1>4. RegistriesAlone
  BY <1>1, <1>3 DEF RegistriesAlone, ViewInv, ControlledLives
<1>5. ASSUME NEW j \in Conns PROVE StaysBlank(j)
  BY <1>1, <1>2 DEF StaysBlank
<1>6. ASSUME NEW j \in Conns PROVE Undisturbed(j)
  <2> SUFFICES ASSUME Serves(j)' PROVE Undisturbed(j)
    BY DEF Undisturbed
  <2>1. pc[j] \in ServingStage
    BY <1>1 DEF Serves
  <2>2. owner[j] \in Clients /\ sessionOf[owner[j]] \in Sessions
    BY <2>1, ServesSomebody
  <2>3. Serves(j)
    BY <1>1, <1>3, <2>1, <2>2, NoneIsNoID DEF Serves
  <2>4. LeasedBy(owner[j])' # {} => LeasedBy(owner[j]) # {}
    BY <1>1 DEF LeasedBy
  <2> QED BY <1>1, <1>2, <2>3, <2>4 DEF Undisturbed, Planned, HoldsPlan
<1> QED BY <1>4, <1>5, <1>6, UndisturbedStep

\* Every step of the daemon's that moves no client to another session.
LEMMA ViewInvStep ==
    TypeOK /\ TypeOK' /\ LeaseInv /\ ServingIsActive /\ ServingIsActive' /\ ViewInv
      /\ [Next]_vars /\ [ClientsStay]_vars => ViewInv'
<1> SUFFICES ASSUME TypeOK, TypeOK', LeaseInv, ServingIsActive, ServingIsActive', ViewInv, [Next]_vars, [ClientsStay]_vars
             PROVE  ViewInv'
  OBVIOUS
<1> USE DEF Goto, registryVars, identityVars, commandVars, connVars, canonicalVars
<1>1. ASSUME NEW k \in Conns, Progress(k) PROVE ViewInv'
  <2>1. CASE displacedNotified(k)
    <3>1. \A j \in Conns : GoesOn(j)
      BY <2>1 DEF TypeOK, displacedNotified, GoesOn, Planned, HoldsPlan, ServingStage, Unpromoted
    <3> QED BY <2>1, <3>1, GoingOnStep DEF displacedNotified, GoesOn
  <2>2. CASE openStreamsFails(k) \/ initializeBegin(k) \/ initializeRefused(k)
    <3>1. /\ UNCHANGED <<canonicalVars, owner, view, plan, mail>>
          /\ \A j \in Conns \ {k} : pc'[j] = pc[j]
          /\ pc'[k] \in {"discarding", "waiting"} /\ pc[k] \in {"admitted", "waiting"}
      BY <2>2 DEF TypeOK, openStreamsFails, initializeBegin, initializeRefused
    <3>2. \A j \in Conns : GoesOn(j)
      BY <3>1 DEF GoesOn, Planned, HoldsPlan, ServingStage, Unpromoted
    <3> QED BY <3>1, <3>2, GoingOnStep DEF GoesOn
  <2>3. CASE initializePromotes(k)
    BY <2>3, initializePromotes_View
  <2>4. CASE installInitialView(k)
    BY <2>4, ApplyPlan_View DEF installInitialView, HoldsPlan
  <2>5. CASE applyOwnTransition(k)
    BY <2>5, ApplyPlan_View DEF applyOwnTransition, HoldsPlan
  <2>6. CASE applyResize(k)
    BY <2>6, ApplyPlan_View DEF applyResize, HoldsPlan
  <2>7. CASE applyDeliveredTransition(k)
    BY <2>7, applyDeliveredTransition_View
  <2>8. CASE noticeLoss(k) \/ exitCompleted(k)
    <3>1. /\ UNCHANGED <<canonicalVars, owner, view, plan, mail>>
          /\ \A j \in Conns \ {k} : pc'[j] = pc[j]
          /\ pc'[k] = "detaching" /\ pc[k] \in {"attached", "exiting"}
      BY <2>8 DEF TypeOK, noticeLoss, exitCompleted, LeaveFor, Serving
    <3>2. \A j \in Conns : GoesOn(j) \/ pc'[j] = "detaching"
      BY <3>1 DEF GoesOn, Planned, HoldsPlan, ServingStage
    <3> QED BY <3>1, <3>2, GoingOnStep
  <2>9. CASE runClose(k)
    BY <2>9, runClose_View
  <2>10. CASE detachClientInstance(k)
    <3>1. /\ pc[k] = "detaching" /\ pc' = [pc EXCEPT ![k] = pc'[k]] /\ pc'[k] \in {"releasing", "done"}
      BY <2>10 DEF TypeOK, detachClientInstance, EndOfLifetime
    <3>2. /\ UNCHANGED <<owner, sessions, activeWindow, sessionOf, revision, windowLeases>>
          /\ \A j \in Conns \ {k} : UNCHANGED <<view[j], mail[j], plan[j]>>
      BY <2>10 DEF TypeOK, detachClientInstance, EndOfLifetime
    <3>3. /\ \A s \in Sessions : controller'[s] \in {controller[s], None}
          /\ \A c \in Clients : active'[c] \in {active[c], None}
      BY <2>10 DEF TypeOK, detachClientInstance
    <3> QED BY <3>1, <3>2, <3>3, ending_View
  <2>11. CASE releaseWindowView(k)
    <3>1. /\ pc[k] = "releasing" /\ pc' = [pc EXCEPT ![k] = pc'[k]] /\ pc'[k] = "done"
      BY <2>11 DEF TypeOK, releaseWindowView, EndOfLifetime
    <3>2. /\ UNCHANGED <<owner, sessions, controller, activeWindow, sessionOf, active, revision>>
          /\ \A j \in Conns \ {k} : UNCHANGED <<view[j], mail[j], plan[j]>>
          /\ \A w \in Windows : windowLeases'[w] \in {windowLeases[w], None}
      BY <2>11 DEF TypeOK, releaseWindowView, EndOfLifetime
    <3> QED BY <3>1, <3>2, ending_View
  <2>12. CASE discardPendingClientInstance(k)
    <3>1. /\ pc[k] = "discarding" /\ pc' = [pc EXCEPT ![k] = pc'[k]] /\ pc'[k] = "done"
      BY <2>12 DEF TypeOK, discardPendingClientInstance, EndOfLifetime
    <3>2. /\ UNCHANGED <<owner, sessions, controller, activeWindow, sessionOf, active, revision, windowLeases>>
          /\ \A j \in Conns \ {k} : UNCHANGED <<view[j], mail[j], plan[j]>>
      BY <2>12 DEF TypeOK, discardPendingClientInstance, EndOfLifetime
    <3> QED BY <3>1, <3>2, ending_View
  <2> QED BY <1>1, <2>1, <2>2, <2>3, <2>4, <2>5, <2>6,
             <2>7, <2>8, <2>9, <2>10, <2>11, <2>12 DEF Progress
<1>2. ASSUME NEW k \in Conns, FrontendStep(k) PROVE ViewInv'
  <2>1. ASSUME NEW c \in Clients, NEW s \in Sessions, admitSessionConnection(k, c, s) PROVE ViewInv'
    <3>1. sessionOf[c] = None
      BY <2>1 DEF admitSessionConnection, LeaseInv, AssignedIsRegistered
    <3>2. sessionOf'[c] = s /\ \A x \in Clients : sessionOf[x] # None => sessionOf'[x] = sessionOf[x]
      BY <2>1, <3>1 DEF admitSessionConnection, TypeOK
    <3> QED BY <2>1, <3>2, admission_View DEF admitSessionConnection
  <2>2. ASSUME NEW c \in Clients, admitResumedConnection(k, c) PROVE ViewInv'
    <3>1. sessionOf'[c] \in Sessions /\ sessionOf' = sessionOf
      BY <2>2 DEF admitResumedConnection, TypeOK
    <3> QED BY <2>2, <3>1, admission_View DEF admitResumedConnection
  <2>3. ASSUME NEW w \in Windows, selectWindowItself(k, w) PROVE ViewInv'
    BY <2>3, selectWindowItself_View
  <2>4. ASSUME NEW t \in Sessions, transitionClientToSession(k, t) PROVE ViewInv'
    <3>1. owner[k] \in Clients /\ sessionOf[owner[k]] \in Sessions /\ sessionOf[owner[k]] # t
      BY <2>4 DEF TypeOK, transitionClientToSession
    <3>2. sessionOf'[owner[k]] = t
      BY <2>4, <3>1 DEF TypeOK, transitionClientToSession, CommitSwitch
    <3>3. ClientsStay
      BY <3>1, <3>2 DEF vars
    <3> QED BY <3>1, <3>2, <3>3, NoneIsNoID DEF ClientsStay
  <2>5. CASE refreshSession(k) \/ resizeClientView(k)
    BY <2>5, refreshSession_View
  <2>6. CASE transportLost(k)
    <3>1. UNCHANGED <<canonicalVars, owner, view, plan, mail, pc>>
      BY <2>6 DEF transportLost
    <3>2. \A j \in Conns : GoesOn(j)
      BY <3>1 DEF GoesOn, Planned, HoldsPlan
    <3> QED BY <3>1, <3>2, GoingOnStep
  <2>7. CASE userDetaches(k)
    <3>1. /\ UNCHANGED <<canonicalVars, owner, view, plan, mail>>
          /\ \A j \in Conns \ {k} : pc'[j] = pc[j]
          /\ pc'[k] = "exiting" /\ pc[k] = "attached"
      BY <2>7 DEF TypeOK, userDetaches, LeaveFor
    <3>2. \A j \in Conns : GoesOn(j)
      BY <3>1 DEF GoesOn, Planned, HoldsPlan, ServingStage, Unpromoted
    <3> QED BY <3>1, <3>2, GoingOnStep DEF GoesOn
  <2> QED BY <1>2, <2>1, <2>2, <2>3, <2>4, <2>5, <2>6, <2>7 DEF FrontendStep
<1>3. ASSUME NEW k \in Conns, NEW i \in DOMAIN mail[k], cancelDelivery(k, i) PROVE ViewInv'
  BY <1>3, cancelDelivery_View
<1>4. ASSUME NEW s \in Sessions, CommandStep(s) PROVE ViewInv'
  <2>1. CASE issueAttachGrant(s) \/ discardAttachGrant(s) \/ resolveSelect(s) \/ selectRejected(s)
    <3>1. UNCHANGED <<canonicalVars, owner, view, plan, mail, pc>>
      BY <2>1 DEF issueAttachGrant, discardAttachGrant, resolveSelect, selectRejected
    <3>2. \A j \in Conns : GoesOn(j)
      BY <3>1 DEF GoesOn, Planned, HoldsPlan
    <3> QED BY <3>1, <3>2, GoingOnStep
  <2>2. ASSUME NEW w \in Windows, selectResolvedWindow(s, w) PROVE ViewInv'
    BY <2>2, selectResolvedWindow_View
  <2>3. CASE selectPanics(s)
    <3>1. \A k \in Conns : pc'[k] = "done"
      BY <2>3 DEF selectPanics
    <3>2. RegistriesAlone /\ UNCHANGED owner
      BY <2>3 DEF selectPanics, RegistriesAlone
    <3>3. \A k \in Conns : StaysBlank(k) /\ Undisturbed(k)
      BY <3>1, <3>2 DEF StaysBlank, Undisturbed, Serves, ServingStage, Unpromoted
    <3> QED BY <3>2, <3>3, UndisturbedStep
  <2>4. CASE shutdownSession(s)
    BY <2>4, shutdownSession_View
  <2> QED BY <1>4, <2>1, <2>2, <2>3, <2>4 DEF CommandStep
<1>5. CASE UNCHANGED vars
  <2>1. UNCHANGED <<canonicalVars, owner, view, plan, mail, pc>>
    BY <1>5 DEF vars
  <2>2. \A j \in Conns : GoesOn(j)
    BY <2>1 DEF GoesOn, Planned, HoldsPlan
  <2> QED BY <2>1, <2>2, GoingOnStep
<1> QED BY <1>1, <1>2, <1>3, <1>4, <1>5 DEF Next

LEMMA InitViewInv == Init => ViewInv
<1> SUFFICES ASSUME Init PROVE ViewInv
  OBVIOUS
<1>1. \A k \in Conns : pc[k] = "idle" /\ view[k] = NoView /\ PostedIn(mail[k]) = {}
  BY DEF Init, PostedIn
<1>2. LeasesStartAtOne /\ ControlledLives /\ ActiveIsOwned /\ AdmittedIsAssigned
  BY <1>1 DEF Init, LeasesStartAtOne, ControlledLives, ActiveIsOwned, AdmittedIsAssigned
<1>3. UnpromotedIsBlank
  BY <1>1 DEF UnpromotedIsBlank, NoView
<1>4. \A k \in Conns : ShowsNewest(k)
  BY <1>1 DEF ShowsNewest, Serves, ServingStage
<1> QED BY <1>2, <1>3, <1>4 DEF ViewInv

\* As long as no client is moved to another session, an instance that has taken all
\* its deliveries shows the daemon's view: its session, the window that is active there
\* and the generation of the lease.  Own and posted transitions overtake each other, a
\* lease may be lost on the way and sessions may share windows.
THEOREM SettledViewsAreCanonical == Spec /\ [][ClientsStay]_vars => []SettledViewIsCanonical
<1>1. Init => ViewInv
  BY InitViewInv
<1>2. TypeOK /\ TypeOK' /\ LeaseInv /\ ServingIsActive /\ ServingIsActive' /\ ViewInv
        /\ [Next]_vars /\ [ClientsStay]_vars => ViewInv'
  BY ViewInvStep
<1>3. TypeOK /\ LeaseInv /\ ViewInv => SettledViewIsCanonical
  BY SettledShowsCanonical
<1> QED BY <1>1, <1>2, <1>3, TypeCorrect, LeaseInvariant, ServedByActive, PTL DEF Spec

\* Assignment, controller and lease say the same after every handler: what the runs
\* check as one property follows from the theorems about its parts.
THEOREM AssignmentIsConsistent == Spec => []AssignmentAgrees
BY TypeCorrect, ControllerIsAssigned, LeaseIsAssigned, ClientHasOneLease, PTL DEF AssignmentAgrees

\* A client's connections follow one another without overlap and without a circle of
\* waits, and the phase by which a session counts as occupied tells which there are.
THEOREM ConnectionsInTurn == Spec => []ConnectionsTakeTurns
BY PhaseIsExact, NoCircularWait, ServedByActive, PTL DEF ConnectionsTakeTurns

=============================================================================
