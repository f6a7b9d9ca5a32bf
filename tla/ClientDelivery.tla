--------------------------- MODULE ClientDelivery ---------------------------
(***************************************************************************)
(* The delivery mailbox between the daemon and a client instance.  A        *)
(* producer (a command, a pane exit, a takeover, a shutdown) reserves a     *)
(* clientRequiredDelivery in its daemon turn and completes or cancels it    *)
(* after the turn; one worker per connection hands completed deliveries to  *)
(* the instance in reservation order, lets a saturation fence overtake them *)
(* and coalesces status refreshes behind them.                              *)
(*                                                                         *)
(* One logical client with its successive connections.  A producer performs *)
(* one effect, so a producer names its effect, too.                         *)
(***************************************************************************)
EXTENDS Naturals, Sequences, FiniteSets

CONSTANTS
    Conns,      \* connections (clientConnection)
    Producers,  \* goroutines that address the client, one effect each
    Slots,      \* the clientRequiredDelivery objects of a connection
    Kinds,      \* the kinds of effect the producers choose from
    None        \* nil

AllKinds == {"apply",     \* view transition of an external command: sent, answered
             "keys",      \* other reserved command: sent, answered
             "post",      \* view transition of a pane exit: posted
             "own",       \* view transition of the instance's own command
             "takeover",  \* Close by an admission: sent, answered
             "shutdown",  \* Close by the end of the session: posted
             "status"}    \* advisory status refresh

ASSUME NoneIsNoID == None \notin Conns \cup Producers \cup Slots
ASSUME KindsAssumption == Kinds \subseteq AllKinds
ASSUME SlotsAssumption == IsFiniteSet(Slots) /\ Slots # {}

VARIABLES
    \* ClientIdentity.State.Active and .statusRevision
    active, statusRevision,
    \* clientConnection: revoked, available, required, the completion channels,
    \* fence, refresh (0 when empty)
    revoked, available, required, completion, fence, refresh,
    \* runDeliveryWorker: where it is, the delivery it waits on, the command it offers
    worker, held, offered,
    \* serveClientInstance, and ClientInstance.currentView.Status.Revision
    stage, installed,
    \* producers: where they are, their effect, the connection and the delivery
    \* they reserved (slot is ViewTransition.delivery, shared with the worker and
    \* the instance), the connection whose end they watch, their status snapshot
    pc, kind, target, slot, rejected, waitsOn, snapshot,
    \* history: whom a delivery is reserved for; effects run from the mailbox
    bookedBy, ran

clientVars == <<active, statusRevision>>
mailboxVars == <<revoked, available, required, completion, fence, refresh, bookedBy>>
workerVars == <<worker, held, offered>>
instanceVars == <<stage, installed, ran>>
producerVars == <<pc, kind, target, slot, rejected, waitsOn, snapshot>>
vars == <<clientVars, mailboxVars, workerVars, instanceVars, producerVars>>

-----------------------------------------------------------------------------
Sends == {"apply", "keys", "takeover"}
Closes == {"takeover", "shutdown"}
Transitions == {"apply", "post", "own"}

\* Of a connection's capacity one delivery is held by the worker.
clientRequiredQueueCapacity == Cardinality(Slots) - 1

Completion == [of : Producers, skip : BOOLEAN]
Command == [type : {"effect"}, of : Producers] \cup
           [type : {"status"}, revision : Nat] \cup
           [type : {"fence"}]

Fence == [type |-> "fence"]

ASSUME NoneIsNoCommand == None \notin Command

HasConnection(p) ==
    /\ \/ pc[p] \in {"finishing", "awaiting"}
       \/ pc[p] = "looking" /\ kind[p] # "apply"
       => waitsOn[p] # None
    /\ pc[p] \in {"applying", "posting", "draining", "retrying"} => target[p] # None
    /\ slot[p] # None => target[p] # None

WaitsOrOffers(k) ==
    /\ worker[k] = "wait" => held[k] # None
    /\ worker[k] \in {"offer", "offerFence"} => offered[k] # None

ClientOK == active \in Conns \cup {None} /\ statusRevision \in Nat

MailboxOK ==
    /\ revoked \subseteq Conns
    /\ available \in [Conns -> SUBSET Slots]
    /\ required \in [Conns -> Seq(Slots)]
    /\ completion \in [Conns -> [Slots -> Completion \cup {None}]]
    /\ fence \in [Conns -> BOOLEAN]
    /\ refresh \in [Conns -> Nat]
    /\ bookedBy \in [Conns -> [Slots -> Producers \cup {None}]]

WorkerOK ==
    /\ worker \in [Conns -> {"fenceFirst", "requiredFirst", "any", "wait",
                             "offer", "offerFence", "returned"}]
    /\ held \in [Conns -> Slots \cup {None}]
    /\ offered \in [Conns -> Command \cup {None}]
    /\ \A k \in Conns : WaitsOrOffers(k)

InstanceOK ==
    /\ stage \in [Conns -> {"idle", "serving", "busy", "closing", "detached", "done"}]
    /\ installed \in [Conns -> Nat]
    /\ ran \in [Conns -> Seq(Producers)]

ProducersOK ==
    /\ pc \in [Producers -> {"idle", "looking", "finishing", "awaiting", "applying",
                             "posting", "draining", "retrying", "withdrawn", "returned"}]
    /\ kind \in [Producers -> AllKinds \cup {None}]
    /\ target \in [Producers -> Conns \cup {None}]
    /\ slot \in [Producers -> Slots \cup {None}]
    /\ rejected \subseteq Producers
    /\ waitsOn \in [Producers -> Conns \cup {None}]
    /\ snapshot \in [Producers -> Nat]
    /\ \A p \in Producers : HasConnection(p)

\* Every channel, registry and goroutine holds what its Go type can hold; a
\* worker waits on a delivery and offers a command, and a producer that is about
\* to complete an effect has a connection to watch.
TypeOK == ClientOK /\ MailboxOK /\ WorkerOK /\ InstanceOK /\ ProducersOK

Init ==
    /\ active = None
    /\ statusRevision = 0
    /\ revoked = {}
    /\ available = [k \in Conns |-> Slots]
    /\ required = [k \in Conns |-> <<>>]
    /\ completion = [k \in Conns |-> [x \in Slots |-> None]]
    /\ fence = [k \in Conns |-> FALSE]
    /\ refresh = [k \in Conns |-> 0]
    /\ worker = [k \in Conns |-> "fenceFirst"]
    /\ held = [k \in Conns |-> None]
    /\ offered = [k \in Conns |-> None]
    /\ stage = [k \in Conns |-> "idle"]
    /\ installed = [k \in Conns |-> 0]
    /\ pc = [p \in Producers |-> "idle"]
    /\ kind = [p \in Producers |-> None]
    /\ target = [p \in Producers |-> None]
    /\ slot = [p \in Producers |-> None]
    /\ rejected = {}
    /\ waitsOn = [p \in Producers |-> None]
    /\ snapshot = [p \in Producers |-> 0]
    /\ bookedBy = [k \in Conns |-> [x \in Slots |-> None]]
    /\ ran = [k \in Conns |-> <<>>]

-----------------------------------------------------------------------------
(* clientRequiredDelivery.finish and .cancel: a send that never blocks.     *)
finish(k, x, p, skip) ==
    completion' = IF x = None \/ completion[k][x] # None THEN completion
                  ELSE [completion EXCEPT ![k][x] = [of |-> p, skip |-> skip]]

\* clientConnection.reserveRequired for producer p.  Its two channel operations
\* are one step: a worker that pops or recycles in between could have done so
\* before, and a delivery that finds no room goes straight back.
HasRoom(k) == available[k] # {} /\ Len(required[k]) < clientRequiredQueueCapacity

Book(k, p, x) ==
    /\ x \in available[k]
    /\ available' = [available EXCEPT ![k] = @ \ {x}]
    /\ required' = [required EXCEPT ![k] = Append(@, x)]
    /\ bookedBy' = [bookedBy EXCEPT ![k][x] = p]
    /\ UNCHANGED <<fence, refresh>>

\* Mutated: the connection is revoked and nothing ends it.
fenceSaturatedDelivery_Silent(k) ==
    /\ revoked' = revoked \cup {k}
    /\ UNCHANGED <<available, required, fence, refresh, bookedBy>>

fenceSaturatedDelivery(k) ==
    /\ revoked' = revoked \cup {k}
    /\ fence' = [fence EXCEPT ![k] = TRUE]
    /\ UNCHANGED <<available, required, refresh, bookedBy>>

-----------------------------------------------------------------------------
(* Daemon turns *)

\* A turn that finds the client attached reserves on its connection.
ReserveInTurn(p) ==
    /\ target' = [target EXCEPT ![p] = active]
    /\ \/ /\ HasRoom(active)
          /\ \E x \in Slots : Book(active, p, x) /\ slot' = [slot EXCEPT ![p] = x]
          /\ UNCHANGED <<revoked, rejected>>
       \/ /\ ~HasRoom(active)
          /\ fenceSaturatedDelivery(active)
          /\ rejected' = rejected \cup {p}
          /\ UNCHANGED slot
    /\ UNCHANGED completion

\* The status revision of a projection is allocated with it.
TakesSnapshot(p) ==
    /\ statusRevision' = statusRevision + 1
    /\ snapshot' = [snapshot EXCEPT ![p] = statusRevision + 1]

NoSnapshot == UNCHANGED <<statusRevision, snapshot>>

NextStep(p, step) == pc' = [pc EXCEPT ![p] = step]

\* reserveViewTransitionDeliveryNow, reserveConnectionDeliveryNow and
\* reserveCommandTargetDelivery, for a client with a connection.
reserveDelivery(p, k) ==
    /\ pc[p] = "idle"
    /\ active # None
    /\ k \in Kinds \ {"own", "status"}
    /\ kind' = [kind EXCEPT ![p] = k]
    /\ ReserveInTurn(p)
    /\ IF k \in Transitions THEN TakesSnapshot(p) ELSE NoSnapshot
    /\ NextStep(p, IF k \in {"apply", "keys"} THEN "looking" ELSE "finishing")
    /\ waitsOn' = [waitsOn EXCEPT ![p] = active]
    /\ UNCHANGED <<active, workerVars, instanceVars>>

\* Without a connection only an external view transition goes on, unreserved.
reserveWithoutConnection(p) ==
    /\ pc[p] = "idle"
    /\ active = None
    /\ "apply" \in Kinds
    /\ kind' = [kind EXCEPT ![p] = "apply"]
    /\ TakesSnapshot(p)
    /\ NextStep(p, "looking")
    /\ UNCHANGED <<active, mailboxVars, workerVars, instanceVars,
                   target, slot, rejected, waitsOn>>

\* The instance itself runs a command; it is busy until it applied the outcome.
reserveOwn(p) ==
    /\ pc[p] = "idle"
    /\ "own" \in Kinds
    /\ active # None
    /\ stage[active] = "serving"
    /\ active \notin revoked
    /\ kind' = [kind EXCEPT ![p] = "own"]
    /\ ReserveInTurn(p)
    /\ TakesSnapshot(p)
    /\ NextStep(p, "applying")
    /\ stage' = [stage EXCEPT ![active] = "busy"]
    /\ UNCHANGED <<active, workerVars, installed, ran, waitsOn>>

\* clientStatusSnapshotNow for a refresh.
snapshotStatus(p) ==
    /\ pc[p] = "idle"
    /\ "status" \in Kinds
    /\ active # None
    /\ kind' = [kind EXCEPT ![p] = "status"]
    /\ target' = [target EXCEPT ![p] = active]
    /\ TakesSnapshot(p)
    /\ NextStep(p, "posting")
    /\ UNCHANGED <<active, mailboxVars, workerVars, instanceVars, slot, rejected, waitsOn>>

-----------------------------------------------------------------------------
(* After the turn *)

Reachable == active # None

\* applyExternalCommandAction looks the client up again.  A transition watches
\* the connection found now, other commands the one they reserved on.
findTarget(p) ==
    /\ pc[p] = "looking"
    /\ IF kind[p] = "apply"
         THEN /\ Reachable
              /\ waitsOn' = [waitsOn EXCEPT ![p] = active]
         ELSE UNCHANGED waitsOn
    /\ NextStep(p, "finishing")
    /\ UNCHANGED <<clientVars, mailboxVars, workerVars, instanceVars,
                   kind, target, slot, rejected, snapshot>>

\* It finds no connection, or the session has another client by now.
missTarget(p) ==
    /\ pc[p] = "looking"
    /\ IF target[p] = None THEN UNCHANGED completion
       ELSE finish(target[p], slot[p], p, TRUE)
    /\ NextStep(p, "withdrawn")
    /\ UNCHANGED <<clientVars, revoked, available, required, fence, refresh, bookedBy,
                   workerVars, instanceVars, kind, target, slot, rejected, waitsOn, snapshot>>

AfterFinish(p) == IF kind[p] \in Sends THEN "awaiting" ELSE "returned"

\* A reservation that was refused is an error for its producer.
reportRejected(p) ==
    /\ pc[p] = "finishing"
    /\ p \in rejected
    /\ NextStep(p, "returned")
    /\ UNCHANGED <<clientVars, mailboxVars, workerVars, instanceVars,
                   kind, target, slot, rejected, waitsOn, snapshot>>

\* postClientCommand, sendClientCommand, sendReservedClientCommand,
\* postReservedClientCommand: complete the reservation; a Close revokes first.
finishReserved(p) ==
    /\ pc[p] = "finishing"
    /\ p \notin rejected
    /\ slot[p] # None
    /\ finish(target[p], slot[p], p, FALSE)
    /\ revoked' = IF kind[p] \in Closes THEN revoked \cup {target[p]} ELSE revoked
    /\ NextStep(p, AfterFinish(p))
    /\ UNCHANGED <<clientVars, available, required, fence, refresh, bookedBy, workerVars,
                   instanceVars, kind, target, slot, rejected, waitsOn, snapshot>>

\* clientConnection.enqueueRequired: a transition prepared while the client had
\* no connection reserves and completes at once, on the connection found since.
enqueueRequired(p) ==
    LET k == waitsOn[p] IN
    /\ pc[p] = "finishing"
    /\ p \notin rejected
    /\ slot[p] = None
    /\ target' = [target EXCEPT ![p] = k]
    /\ \/ /\ HasRoom(k)
          /\ \E x \in Slots :
                /\ Book(k, p, x)
                /\ finish(k, x, p, FALSE)
          /\ NextStep(p, "awaiting")
          /\ UNCHANGED <<revoked, rejected>>
       \/ /\ ~HasRoom(k)
          /\ fenceSaturatedDelivery(k)
          /\ rejected' = rejected \cup {p}
          /\ NextStep(p, "returned")
          /\ UNCHANGED completion
    /\ UNCHANGED <<clientVars, workerVars, instanceVars, kind, slot, waitsOn, snapshot>>

HasRun(p) == \E k \in Conns : \E i \in DOMAIN ran[k] : ran[k][i] = p

\* The result arrives, or the watched connection is done.
Answered(p) == HasRun(p) \/ stage[waitsOn[p]] = "done"

receiveResult(p) ==
    /\ pc[p] = "awaiting"
    /\ Answered(p)
    /\ NextStep(p, "returned")
    /\ UNCHANGED <<clientVars, mailboxVars, workerVars, instanceVars,
                   kind, target, slot, rejected, waitsOn, snapshot>>

-----------------------------------------------------------------------------
(* clientConnection.enqueueStatusRefresh: three channel operations *)

FinishStatus(p, k, revision, step) ==
    /\ refresh' = [refresh EXCEPT ![k] = revision]
    /\ NextStep(p, step)
    /\ UNCHANGED <<clientVars, revoked, available, required, completion, fence, bookedBy,
                   workerVars, instanceVars, kind, target, slot, rejected, waitsOn, snapshot>>

postStatus(p) ==
    /\ pc[p] = "posting"
    /\ LET k == target[p] IN
       IF refresh[k] = 0 THEN FinishStatus(p, k, snapshot[p], "returned")
       ELSE FinishStatus(p, k, refresh[k], "draining")

drainStatus(p) == pc[p] = "draining" /\ FinishStatus(p, target[p], 0, "retrying")

repostStatus(p) ==
    /\ pc[p] = "retrying"
    /\ LET k == target[p] IN
       FinishStatus(p, k, IF refresh[k] = 0 THEN snapshot[p] ELSE refresh[k], "returned")

-----------------------------------------------------------------------------
(* clientConnection.runDeliveryWorker: three selects, each with fewer       *)
(* alternatives than the next, then the wait for a completion, then the     *)
(* handoff.                                                                 *)

Selecting(k) == stage[k] # "idle" /\ worker[k] \in {"fenceFirst", "requiredFirst", "any"}

WorkerAt(k, step) == worker' = [worker EXCEPT ![k] = step]
Offers(k, command) == offered' = [offered EXCEPT ![k] = command]

\* Mutated: the delivery the worker waits on is recycled.
AvailableAfterFence_Recycled(k) == [available EXCEPT ![k] = @ \cup ({held[k]} \ {None})]

\* The delivery the worker waits on is abandoned: its producer may still
\* complete it.
AvailableAfterFence(k) == available

\* A fence overtakes whatever the worker waits on or offers.
takeFence(k) ==
    /\ Selecting(k) \/ worker[k] \in {"wait", "offer"}
    /\ fence[k]
    /\ fence' = [fence EXCEPT ![k] = FALSE]
    /\ held' = [held EXCEPT ![k] = None]
    /\ Offers(k, Fence)
    /\ WorkerAt(k, IF worker[k] = "offer" THEN "offerFence" ELSE "offer")
    /\ available' = AvailableAfterFence(k)
    /\ UNCHANGED <<clientVars, revoked, required, completion, refresh, bookedBy,
                   instanceVars, producerVars>>

takeRequired(k) ==
    /\ Selecting(k)
    /\ worker[k] # "fenceFirst"
    /\ required[k] # <<>>
    /\ held' = [held EXCEPT ![k] = Head(required[k])]
    /\ required' = [required EXCEPT ![k] = Tail(@)]
    /\ WorkerAt(k, "wait")
    /\ UNCHANGED <<clientVars, revoked, available, completion, fence, refresh, bookedBy, offered,
                   instanceVars, producerVars>>

takeRefresh(k) ==
    /\ Selecting(k)
    /\ worker[k] = "any"
    /\ refresh[k] # 0
    /\ refresh' = [refresh EXCEPT ![k] = 0]
    /\ Offers(k, [type |-> "status", revision |-> refresh[k]])
    /\ WorkerAt(k, "offer")
    /\ UNCHANGED <<clientVars, revoked, available, required, completion, fence, bookedBy, held,
                   instanceVars, producerVars>>

\* The default cases of the first two selects.
selectMore(k) ==
    /\ Selecting(k)
    /\ ~fence[k]
    /\ \/ worker[k] = "fenceFirst" /\ WorkerAt(k, "requiredFirst")
       \/ worker[k] = "requiredFirst" /\ required[k] = <<>> /\ WorkerAt(k, "any")
    /\ UNCHANGED <<clientVars, mailboxVars, held, offered, instanceVars, producerVars>>

\* The transition forgets the delivery before that is recycled.
Released(p) == IF kind[p] \in Transitions THEN [slot EXCEPT ![p] = None] ELSE slot

\* Mutated: a cancelled reservation is handed on like a completed one.
Skips_Never(done) == FALSE

Skips(done) == done.skip

takeCompletion(k) ==
    LET x == held[k]
        done == completion[k][x]
    IN  /\ worker[k] = "wait"
        /\ done # None
        /\ completion' = [completion EXCEPT ![k][x] = None]
        /\ slot' = IF done.skip THEN slot ELSE Released(done.of)
        /\ available' = [available EXCEPT ![k] = @ \cup {x}]
        /\ bookedBy' = [bookedBy EXCEPT ![k][x] = None]
        /\ held' = [held EXCEPT ![k] = None]
        /\ IF Skips(done)
             THEN WorkerAt(k, "fenceFirst") /\ UNCHANGED offered
             ELSE WorkerAt(k, "offer") /\ Offers(k, [type |-> "effect", of |-> done.of])
        /\ UNCHANGED <<clientVars, revoked, required, fence, refresh, instanceVars,
                       pc, kind, target, rejected, waitsOn, snapshot>>

workerReturns(k) ==
    /\ stage[k] = "done"
    /\ worker[k] \in {"any", "wait", "offer", "offerFence"}
    /\ WorkerAt(k, "returned")
    /\ UNCHANGED <<clientVars, mailboxVars, held, offered, instanceVars, producerVars>>

-----------------------------------------------------------------------------
(* The instance takes an offered command: ClientInstance.runClientCommand   *)

HandedOff(k) ==
    /\ worker[k] \in {"offer", "offerFence"}
    /\ stage[k] \in {"serving", "closing"}
    /\ WorkerAt(k, "fenceFirst")
    /\ Offers(k, None)

\* Mutated: whatever arrives last is shown.
Newer_Last(k, revision) == revision

\* installStatusSnapshot and orderedViewStatus keep the newer revision.
Newer(k, revision) == IF revision < installed[k] THEN installed[k] ELSE revision

runEffect(k) ==
    LET p == offered[k].of IN
    /\ HandedOff(k)
    /\ offered[k].type = "effect"
    /\ ran' = [ran EXCEPT ![k] = Append(@, p)]
    /\ stage' = IF kind[p] \in Closes THEN [stage EXCEPT ![k] = "closing"] ELSE stage
    /\ IF kind[p] \in Transitions
         THEN \* applyViewTransition cancels a delivery the transition still names
              /\ installed' = [installed EXCEPT ![k] = Newer(k, snapshot[p])]
              /\ finish(k, slot[p], p, TRUE)
         ELSE UNCHANGED <<installed, completion>>
    /\ UNCHANGED <<clientVars, revoked, available, required, fence, refresh, bookedBy, held,
                   producerVars>>

runStatus(k) ==
    /\ HandedOff(k)
    /\ offered[k].type = "status"
    /\ installed' = [installed EXCEPT ![k] = Newer(k, offered[k].revision)]
    /\ UNCHANGED <<clientVars, mailboxVars, held, stage, ran, producerVars>>

\* The fence closes the transport.
runFence(k) ==
    /\ HandedOff(k)
    /\ offered[k].type = "fence"
    /\ stage' = [stage EXCEPT ![k] = "closing"]
    /\ UNCHANGED <<clientVars, mailboxVars, held, installed, ran, producerVars>>

\* Mutated: the instance applies its own transition and leaves the reservation.
CancelOwn_Forgotten(p) == UNCHANGED completion

\* applyViewTransition, or cancelCommandActionDelivery when the connection is
\* not current any more.
CancelOwn(p) == finish(target[p], slot[p], p, TRUE)

applyOwn(p) ==
    LET k == target[p] IN
    /\ pc[p] = "applying"
    /\ CancelOwn(p)
    /\ installed' = [installed EXCEPT ![k] =
                        IF active = k THEN Newer(k, snapshot[p]) ELSE @]
    /\ stage' = [stage EXCEPT ![k] = "serving"]
    /\ NextStep(p, "withdrawn")
    /\ UNCHANGED <<clientVars, revoked, available, required, fence, refresh, bookedBy, workerVars,
                   ran, kind, target, slot, rejected, waitsOn, snapshot>>

-----------------------------------------------------------------------------
(* Connections *)

\* initializeClient promotes k, with every earlier connection detached.
attach(k) ==
    /\ stage[k] = "idle"
    /\ active = None
    /\ active' = k
    /\ stage' = [stage EXCEPT ![k] = "serving"]
    /\ UNCHANGED <<statusRevision, mailboxVars, workerVars, installed, ran, producerVars>>

\* The serve loop ends and detachClientInstance takes its first turn.
detach(k) ==
    /\ stage[k] \in {"serving", "closing"}
    /\ active' = IF active = k THEN None ELSE active
    /\ stage' = [stage EXCEPT ![k] = "detached"]
    /\ UNCHANGED <<statusRevision, mailboxVars, workerVars, installed, ran, producerVars>>

\* close(lifetimeDone)
endLifetime(k) ==
    /\ stage[k] = "detached"
    /\ stage' = [stage EXCEPT ![k] = "done"]
    /\ UNCHANGED <<clientVars, mailboxVars, workerVars, installed, ran, producerVars>>

-----------------------------------------------------------------------------
Reserve(p) ==
    \/ \E k \in AllKinds : reserveDelivery(p, k)
    \/ reserveWithoutConnection(p)
    \/ reserveOwn(p)
    \/ snapshotStatus(p)

Complete(p) ==
    \/ findTarget(p)
    \/ missTarget(p)
    \/ reportRejected(p)
    \/ finishReserved(p)
    \/ enqueueRequired(p)
    \/ receiveResult(p)
    \/ postStatus(p)
    \/ drainStatus(p)
    \/ repostStatus(p)
    \/ applyOwn(p)

runDeliveryWorker(k) ==
    \/ takeFence(k)
    \/ takeRequired(k)
    \/ takeRefresh(k)
    \/ selectMore(k)
    \/ takeCompletion(k)
    \/ workerReturns(k)
    \/ runEffect(k)
    \/ runStatus(k)
    \/ runFence(k)

Next ==
    \/ \E p \in Producers : Reserve(p) \/ Complete(p)
    \/ \E k \in Conns : runDeliveryWorker(k) \/ attach(k) \/ detach(k) \/ endLifetime(k)

\* Producers, workers and instances are goroutines; an instance told to close,
\* or detached, goes on to its end.
Fairness ==
    /\ \A p \in Producers : WF_vars(Complete(p))
    /\ \A k \in Conns :
          /\ WF_vars(runDeliveryWorker(k))
          /\ WF_vars(stage[k] = "closing" /\ detach(k))
          /\ WF_vars(endLifetime(k))

Spec == Init /\ [][Next]_vars
FairSpec == Spec /\ Fairness

-----------------------------------------------------------------------------
(* Safety *)

\* A delivery that can be reserved carries no completion and is not queued: a
\* late cancel of an effect that has been delivered never reaches the effect
\* that reserved the recycled delivery next.
RecycledIsClean ==
    \A k \in Conns : \A x \in available[k] :
        /\ completion[k][x] = None
        /\ held[k] # x
        /\ \A i \in DOMAIN required[k] : required[k][i] # x

\* What a delivery was completed with is the effect it was reserved for.
CompletedAsBooked ==
    \A k \in Conns, x \in Slots :
        completion[k][x] # None => completion[k][x].of = bookedBy[k][x]

\* A recycled delivery has one owner at a time: nothing that an earlier owner still does
\* with it, nor the fence that takes it away, touches the effect of the next.
DeliveryHasOneOwner ==
    /\ TypeOK
    /\ RecycledIsClean
    /\ CompletedAsBooked

\* ARCHITECTURE.md: the total required backlog is bounded by the capacity, the
\* delivery held by the worker, and the command it offers, included.
BacklogIsBounded ==
    \A k \in Conns :
        Len(required[k]) + Cardinality({held[k], offered[k]} \ {None}) <= Cardinality(Slots)

\* The status an instance shows never goes back to an older revision, although
\* refreshes and transitions overtake each other on the way to it.
StatusNeverRegresses ==
    [][\A k \in Conns : installed'[k] >= installed[k]]_vars

-----------------------------------------------------------------------------
(* The mailbox implements ordered delivery *)

\* The effects connection k owes: the one offered or waited for, the queued ones.
IsEffect(k) == offered[k] # None /\ offered[k].type = "effect"

AtHead(k) ==
    IF IsEffect(k) THEN <<offered[k].of>>
    ELSE IF held[k] # None THEN <<bookedBy[k][held[k]]>>
    ELSE <<>>

Queued(k) == [i \in DOMAIN required[k] |-> bookedBy[k][required[k][i]]]

Promised(k) == AtHead(k) \o Queued(k)

Withdrawn == {p \in Producers : pc[p] = "withdrawn"}

Ordered == INSTANCE OrderedDelivery WITH
    Effects <- Producers,
    promised <- [k \in Conns |-> Promised(k)],
    withdrawn <- Withdrawn

\* Effects reach the instance in the order of their daemon turns, each at most
\* once, and only a cancelled effect or a revoked connection loses one.
DeliversInOrder == Ordered!Spec

-----------------------------------------------------------------------------
(* Liveness *)

Owes(k, p) == \E i \in DOMAIN Promised(k) : Promised(k)[i] = p

\* An effect a connection owes is run, or given up, unless the connection ends:
\* no reservation ahead of it stays open.
PromiseIsKept ==
    \A k \in Conns, p \in Producers :
        Owes(k, p) ~> ~Owes(k, p) \/ stage[k] \in {"detached", "done"}

\* A saturated connection does not live on without the effect it refused.
SaturationEndsConnection ==
    \A p \in Producers, k \in Conns :
        p \in rejected /\ target[p] = k ~> stage[k] = "done"
=============================================================================
