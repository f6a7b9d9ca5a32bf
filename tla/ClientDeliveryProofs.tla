------------------------ MODULE ClientDeliveryProofs ------------------------
(***************************************************************************)
(* Proofs about ClientDelivery, for any connections, producers and          *)
(* delivery capacity.                                                       *)
(***************************************************************************)
EXTENDS ClientDelivery, SequenceTheorems, FiniteSetTheorems, TLAPS

-----------------------------------------------------------------------------
(* Types *)

\* A step that leaves a part of the state alone keeps its types.
LEMMA Preserved ==
    /\ ClientOK /\ UNCHANGED clientVars => ClientOK'
    /\ MailboxOK /\ UNCHANGED mailboxVars => MailboxOK'
    /\ WorkerOK /\ UNCHANGED workerVars => WorkerOK'
    /\ InstanceOK /\ UNCHANGED instanceVars => InstanceOK'
    /\ ProducersOK /\ UNCHANGED producerVars => ProducersOK'
BY DEF ClientOK, MailboxOK, WorkerOK, InstanceOK, ProducersOK, WaitsOrOffers, HasConnection,
       clientVars, mailboxVars, workerVars, instanceVars, producerVars

USE DEF AllKinds, ClientOK, MailboxOK, WorkerOK, InstanceOK, ProducersOK, WaitsOrOffers

\* finish writes completions only.
LEMMA FinishIsTyped ==
    ASSUME TypeOK, NEW k \in Conns, NEW x \in Slots \cup {None}, NEW p \in Producers,
           NEW skip \in BOOLEAN, finish(k, x, p, skip)
    PROVE  completion' \in [Conns -> [Slots -> Completion \cup {None}]]
BY DEF TypeOK, finish, Completion

\* A reservation puts a delivery of the connection at the end of its queue.
LEMMA BookIsTyped ==
    ASSUME TypeOK, NEW k \in Conns, NEW x \in Slots, NEW p \in Producers, Book(k, p, x)
    PROVE  /\ available' \in [Conns -> SUBSET Slots]
           /\ required' \in [Conns -> Seq(Slots)]
           /\ bookedBy' \in [Conns -> [Slots -> Producers \cup {None}]]
           /\ fence' = fence
           /\ refresh' = refresh
BY DEF TypeOK, Book

\* What a reservation writes, and that it touches no other producer's delivery.
LEMMA ReserveIsTyped ==
    ASSUME TypeOK, NEW p \in Producers, active # None, ReserveInTurn(p)
    PROVE  /\ revoked' \subseteq Conns
           /\ available' \in [Conns -> SUBSET Slots]
           /\ required' \in [Conns -> Seq(Slots)]
           /\ completion' = completion
           /\ fence' \in [Conns -> BOOLEAN]
           /\ refresh' = refresh
           /\ target' = [target EXCEPT ![p] = active]
           /\ slot' \in [Producers -> Slots \cup {None}]
           /\ \A q \in Producers : q # p => slot'[q] = slot[q]
           /\ rejected' \subseteq Producers
           /\ bookedBy' \in [Conns -> [Slots -> Producers \cup {None}]]
<1>1. active \in Conns
  BY DEF TypeOK
<1>2. CASE HasRoom(active)
  <2>1. PICK x \in Slots : Book(active, p, x) /\ slot' = [slot EXCEPT ![p] = x]
    BY <1>2 DEF ReserveInTurn
  <2> QED BY <1>1, <1>2, <2>1, BookIsTyped DEF ReserveInTurn, TypeOK
<1>3. CASE ~HasRoom(active)
  BY <1>1, <1>3 DEF ReserveInTurn, fenceSaturatedDelivery, TypeOK
<1> QED BY <1>2, <1>3

\* Every daemon turn that addresses the client keeps the types.
LEMMA ReserveStepIsTyped ==
    ASSUME TypeOK, NEW p \in Producers, Reserve(p)
    PROVE  TypeOK'
<1>1. ASSUME NEW k \in AllKinds, reserveDelivery(p, k) PROVE TypeOK'
  <2>1. ReserveInTurn(p) /\ active # None
    BY <1>1 DEF reserveDelivery
  <2>2. statusRevision' \in Nat /\ snapshot' \in [Producers -> Nat]
    <3>1. CASE TakesSnapshot(p)
      BY <3>1 DEF TakesSnapshot, TypeOK
    <3>2. CASE NoSnapshot
      BY <3>2 DEF NoSnapshot, TypeOK
    <3> QED BY <1>1, <3>1, <3>2 DEF reserveDelivery
  <2>3. /\ pc' \in [Producers -> {"idle", "looking", "finishing", "awaiting", "applying",
                                 "posting", "draining", "retrying", "withdrawn", "returned"}]
        /\ pc'[p] \in {"looking", "finishing"}
        /\ \A q \in Producers : q # p => pc'[q] = pc[q]
    <3>1. CASE k \in {"apply", "keys"}
      BY <1>1, <3>1 DEF reserveDelivery, NextStep, TypeOK
    <3>2. CASE k \notin {"apply", "keys"}
      BY <1>1, <3>2 DEF reserveDelivery, NextStep, TypeOK
    <3> QED BY <3>1, <3>2
  <2>4. /\ kind' \in [Producers -> AllKinds \cup {None}]
        /\ waitsOn' = [waitsOn EXCEPT ![p] = active]
        /\ UNCHANGED <<active, worker, held, offered, stage, installed, ran>>
    BY <1>1 DEF reserveDelivery, TypeOK, workerVars, instanceVars
  <2>5. \A q \in Producers : HasConnection(q)'
    <3>1. kind' = [kind EXCEPT ![p] = k]
      BY <1>1 DEF reserveDelivery
    <3>2. target' = [target EXCEPT ![p] = active] /\ active # None
          /\ \A q \in Producers : q # p => slot'[q] = slot[q]
      BY <2>1, ReserveIsTyped
    <3> QED BY <2>3, <2>4, <3>1, <3>2 DEF TypeOK, HasConnection
  <2>6. /\ revoked' \subseteq Conns
        /\ available' \in [Conns -> SUBSET Slots]
        /\ required' \in [Conns -> Seq(Slots)]
        /\ fence' \in [Conns -> BOOLEAN]
        /\ target' \in [Producers -> Conns \cup {None}]
        /\ slot' \in [Producers -> Slots \cup {None}]
        /\ rejected' \subseteq Producers
        /\ bookedBy' \in [Conns -> [Slots -> Producers \cup {None}]]
        /\ UNCHANGED <<completion, refresh>>
    BY <2>1, ReserveIsTyped DEF TypeOK
  <2> QED BY <2>2, <2>3, <2>4, <2>5, <2>6 DEF TypeOK
<1>2. CASE reserveWithoutConnection(p)
  BY <1>2 DEF reserveWithoutConnection, TakesSnapshot, NextStep, TypeOK, HasConnection,
              mailboxVars, workerVars, instanceVars
<1>3. CASE reserveOwn(p)
  <2>1. ReserveInTurn(p) /\ active # None
    BY <1>3 DEF reserveOwn
  <2>2. /\ statusRevision' \in Nat
        /\ snapshot' \in [Producers -> Nat]
        /\ kind' \in [Producers -> AllKinds \cup {None}]
        /\ pc' = [pc EXCEPT ![p] = "applying"]
        /\ stage' = [stage EXCEPT ![active] = "busy"]
        /\ UNCHANGED <<active, worker, held, offered, installed, ran, waitsOn>>
    BY <1>3 DEF reserveOwn, TakesSnapshot, NextStep, TypeOK, workerVars
  <2>3. \A q \in Producers : HasConnection(q)'
    <3>1. kind' = [kind EXCEPT ![p] = "own"]
      BY <1>3 DEF reserveOwn
    <3>2. target' = [target EXCEPT ![p] = active] /\ active # None
          /\ \A q \in Producers : q # p => slot'[q] = slot[q]
      BY <2>1, ReserveIsTyped
    <3> QED BY <2>2, <3>1, <3>2 DEF TypeOK, HasConnection
  <2> QED BY <2>1, <2>2, <2>3, ReserveIsTyped DEF TypeOK
<1>4. CASE snapshotStatus(p)
  BY <1>4 DEF snapshotStatus, TakesSnapshot, NextStep, TypeOK, HasConnection,
              mailboxVars, workerVars, instanceVars
<1> QED BY <1>1, <1>2, <1>3, <1>4 DEF Reserve

USE DEF HasConnection

\* Each of the three channel operations of a status refresh keeps the types.
LEMMA FinishStatusIsTyped ==
    ASSUME TypeOK, NEW p \in Producers, NEW k \in Conns, NEW r \in Nat,
           NEW step \in {"draining", "retrying", "returned"}, target[p] # None,
           FinishStatus(p, k, r, step)
    PROVE  TypeOK'
<1>1. /\ pc' = [pc EXCEPT ![p] = step]
      /\ refresh' = [refresh EXCEPT ![k] = r]
      /\ UNCHANGED <<active, statusRevision, revoked, available, required, completion, fence,
                     bookedBy, worker, held, offered, stage, installed, ran,
                     kind, target, slot, rejected, waitsOn, snapshot>>
  BY DEF FinishStatus, NextStep, clientVars, workerVars, instanceVars
<1>2. CASE step = "draining"
  BY <1>1, <1>2 DEF TypeOK
<1>3. CASE step = "retrying"
  BY <1>1, <1>3 DEF TypeOK
<1>4. CASE step = "returned"
  BY <1>1, <1>4 DEF TypeOK
<1> QED BY <1>2, <1>3, <1>4

\* Everything a producer does after its turn keeps the types.
LEMMA CompleteStepIsTyped ==
    ASSUME TypeOK, NEW p \in Producers, Complete(p)
    PROVE  TypeOK'
<1>1. CASE findTarget(p)
  <2>1. /\ pc[p] = "looking"
        /\ pc' = [pc EXCEPT ![p] = "finishing"]
        /\ UNCHANGED <<clientVars, mailboxVars, workerVars, instanceVars,
                       kind, target, slot, rejected, snapshot>>
    BY <1>1 DEF findTarget, NextStep
  <2>2. waitsOn' \in [Producers -> Conns \cup {None}] /\ waitsOn'[p] # None
        /\ \A q \in Producers : q # p => waitsOn'[q] = waitsOn[q]
    <3>1. CASE kind[p] = "apply"
      BY <1>1, <3>1 DEF findTarget, Reachable, TypeOK
    <3>2. CASE kind[p] # "apply"
      BY <1>1, <2>1, <3>2 DEF findTarget, TypeOK
    <3> QED BY <3>1, <3>2
  <2> QED BY <2>1, <2>2 DEF TypeOK, clientVars, mailboxVars, workerVars, instanceVars
<1>2. CASE missTarget(p)
  BY <1>2, FinishIsTyped DEF missTarget, NextStep, TypeOK, clientVars, workerVars, instanceVars
<1>3. CASE reportRejected(p)
  BY <1>3 DEF reportRejected, NextStep, TypeOK, clientVars, mailboxVars, workerVars, instanceVars
<1>4. CASE finishReserved(p)
  <2>1. target[p] \in Conns /\ slot[p] \in Slots
    BY <1>4 DEF finishReserved, TypeOK
  <2> QED BY <1>4, <2>1, FinishIsTyped
          DEF finishReserved, AfterFinish, NextStep, TypeOK, clientVars, workerVars, instanceVars
<1>5. CASE enqueueRequired(p)
  <2>1. waitsOn[p] \in Conns
    BY <1>5 DEF enqueueRequired, TypeOK
  <2>2. CASE HasRoom(waitsOn[p])
    <3>1. PICK x \in Slots : Book(waitsOn[p], p, x) /\ finish(waitsOn[p], x, p, FALSE)
      BY <1>5, <2>2 DEF enqueueRequired
    <3>2. completion' \in [Conns -> [Slots -> Completion \cup {None}]]
      BY <2>1, <3>1, FinishIsTyped
    <3> QED BY <1>5, <2>1, <2>2, <3>1, <3>2, BookIsTyped
            DEF enqueueRequired, NextStep, TypeOK, clientVars, workerVars, instanceVars
  <2>3. CASE ~HasRoom(waitsOn[p])
    BY <1>5, <2>1, <2>3 DEF enqueueRequired, fenceSaturatedDelivery, NextStep, TypeOK,
                            clientVars, workerVars, instanceVars
  <2> QED BY <2>2, <2>3
<1>6. CASE receiveResult(p)
  BY <1>6 DEF receiveResult, NextStep, TypeOK, clientVars, mailboxVars, workerVars, instanceVars
<1>7. CASE postStatus(p) \/ drainStatus(p) \/ repostStatus(p)
  BY <1>7, FinishStatusIsTyped DEF postStatus, drainStatus, repostStatus, TypeOK
<1>8. CASE applyOwn(p)
  <2>1. target[p] \in Conns
    BY <1>8 DEF applyOwn, TypeOK
  <2>2. completion' \in [Conns -> [Slots -> Completion \cup {None}]]
    BY <1>8, <2>1, FinishIsTyped DEF applyOwn, CancelOwn, TypeOK
  <2> QED BY <1>8, <2>1, <2>2 DEF applyOwn, Newer, NextStep, TypeOK, clientVars, workerVars
<1> QED BY <1>1, <1>2, <1>3, <1>4, <1>5, <1>6, <1>7, <1>8 DEF Complete

HIDE DEF ClientOK, MailboxOK, WorkerOK, InstanceOK, ProducersOK, WaitsOrOffers, HasConnection

\* What the worker takes from a channel, and what the instance does with a
\* command, keeps every type.
LEMMA WorkerStepIsTyped ==
    ASSUME TypeOK, NEW k \in Conns, runDeliveryWorker(k)
    PROVE  TypeOK'
<1>1. CASE takeFence(k)
  <2>1. Fence \in Command
    BY DEF Fence, Command
  <2>2. WorkerOK'
    <3>1. CASE worker[k] = "offer"
      BY <1>1, <2>1, <3>1, NoneIsNoCommand DEF takeFence, WorkerAt, Offers, TypeOK, WorkerOK, WaitsOrOffers
    <3>2. CASE worker[k] # "offer"
      BY <1>1, <2>1, <3>2, NoneIsNoCommand DEF takeFence, WorkerAt, Offers, TypeOK, WorkerOK, WaitsOrOffers
    <3> QED BY <3>1, <3>2
  <2> QED BY <1>1, <2>2, Preserved
          DEF takeFence, AvailableAfterFence, TypeOK, MailboxOK
<1>2. CASE takeRequired(k)
  <2>1. Head(required[k]) \in Slots /\ Tail(required[k]) \in Seq(Slots)
    BY <1>2 DEF takeRequired, TypeOK, MailboxOK
  <2>2. WorkerOK'
    BY <1>2, <2>1, NoneIsNoID DEF takeRequired, WorkerAt, TypeOK, WorkerOK, WaitsOrOffers
  <2>3. MailboxOK'
    BY <1>2, <2>1 DEF takeRequired, TypeOK, MailboxOK
  <2> QED BY <1>2, <2>2, <2>3, Preserved DEF takeRequired, TypeOK
<1>3. CASE takeRefresh(k)
  <2>1. [type |-> "status", revision |-> refresh[k]] \in Command
    BY DEF TypeOK, MailboxOK, Command
  <2>2. WorkerOK'
    BY <1>3, <2>1, NoneIsNoCommand DEF takeRefresh, WorkerAt, Offers, TypeOK, WorkerOK, WaitsOrOffers
  <2>3. MailboxOK'
    BY <1>3 DEF takeRefresh, TypeOK, MailboxOK
  <2> QED BY <1>3, <2>2, <2>3, Preserved DEF takeRefresh, TypeOK
<1>4. CASE selectMore(k)
  <2>1. WorkerOK'
    BY <1>4 DEF selectMore, WorkerAt, TypeOK, WorkerOK, WaitsOrOffers
  <2> QED BY <1>4, <2>1, Preserved DEF selectMore, TypeOK
<1>5. CASE takeCompletion(k)
  <2> DEFINE x == held[k]
             done == completion[k][x]
  <2>1. x \in Slots /\ done \in Completion
    BY <1>5 DEF takeCompletion, TypeOK, WorkerOK, WaitsOrOffers, MailboxOK
  <2>2. done.of \in Producers /\ [type |-> "effect", of |-> done.of] \in Command
    BY <2>1 DEF Completion, Command
  <2>3. WorkerOK'
    <3>1. CASE Skips(done)
      BY <1>5, <3>1 DEF takeCompletion, WorkerAt, TypeOK, WorkerOK, WaitsOrOffers
    <3>2. CASE ~Skips(done)
      BY <1>5, <2>2, <3>2, NoneIsNoCommand
         DEF takeCompletion, WorkerAt, Offers, TypeOK, WorkerOK, WaitsOrOffers
    <3> QED BY <3>1, <3>2
  <2>4. MailboxOK'
    BY <1>5, <2>1 DEF takeCompletion, TypeOK, MailboxOK
  <2>5. ProducersOK'
    BY <1>5, <2>2 DEF takeCompletion, Released, TypeOK, ProducersOK, HasConnection
  <2> QED BY <1>5, <2>3, <2>4, <2>5, Preserved DEF takeCompletion, TypeOK
<1>6. CASE workerReturns(k)
  <2>1. WorkerOK'
    BY <1>6 DEF workerReturns, WorkerAt, TypeOK, WorkerOK, WaitsOrOffers
  <2> QED BY <1>6, <2>1, Preserved DEF workerReturns, TypeOK
<1>7. ASSUME HandedOff(k), UNCHANGED held
      PROVE  offered[k] \in Command /\ WorkerOK'
  BY <1>7 DEF HandedOff, WorkerAt, Offers, TypeOK, WorkerOK, WaitsOrOffers
<1>8. CASE runEffect(k)
  <2> DEFINE p == offered[k].of
  <2>1. p \in Producers /\ WorkerOK'
    BY <1>7, <1>8 DEF runEffect, Command
  <2>2. MailboxOK'
    <3>1. completion' \in [Conns -> [Slots -> Completion \cup {None}]]
      <4>1. slot[p] \in Slots \cup {None} /\ (finish(k, slot[p], p, TRUE) \/ completion' = completion)
        BY <1>8, <2>1 DEF runEffect, TypeOK, ProducersOK
      <4> QED BY <2>1, <4>1, FinishIsTyped DEF TypeOK, MailboxOK
    <3> QED BY <1>8, <3>1 DEF runEffect, TypeOK, MailboxOK
  <2>3. InstanceOK'
    <3>1. installed' \in [Conns -> Nat]
      BY <1>8, <2>1 DEF runEffect, Newer, TypeOK, InstanceOK, ProducersOK
    <3>2. ran' \in [Conns -> Seq(Producers)]
      BY <1>8, <2>1 DEF runEffect, TypeOK, InstanceOK
    <3>3. stage' = stage \/ stage' = [stage EXCEPT ![k] = "closing"]
      BY <1>8 DEF runEffect
    <3> QED BY <3>1, <3>2, <3>3 DEF TypeOK, InstanceOK
  <2> QED BY <1>8, <2>1, <2>2, <2>3, Preserved DEF runEffect, TypeOK
<1>9. CASE runStatus(k)
  <2>1. offered[k].revision \in Nat /\ WorkerOK'
    BY <1>7, <1>9 DEF runStatus, Command
  <2>2. InstanceOK'
    BY <1>9, <2>1 DEF runStatus, Newer, TypeOK, InstanceOK
  <2> QED BY <1>9, <2>1, <2>2, Preserved DEF runStatus, TypeOK
<1>10. CASE runFence(k)
  <2>1. WorkerOK' /\ InstanceOK'
    BY <1>7, <1>10 DEF runFence, TypeOK, InstanceOK
  <2> QED BY <1>10, <2>1, Preserved DEF runFence, TypeOK
<1> QED BY <1>1, <1>2, <1>3, <1>4, <1>5, <1>6, <1>8, <1>9, <1>10 DEF runDeliveryWorker

\* Attaching, detaching and ending write the registry and the serve loop.
LEMMA ConnectionStepIsTyped ==
    ASSUME TypeOK, NEW k \in Conns, attach(k) \/ detach(k) \/ endLifetime(k)
    PROVE  TypeOK'
<1>1. ClientOK' /\ InstanceOK'
  BY DEF attach, detach, endLifetime, TypeOK, ClientOK, InstanceOK, clientVars
<1> QED BY <1>1, Preserved DEF attach, detach, endLifetime, TypeOK

\* Every channel and every goroutine holds what its Go type can hold, for any
\* number of connections, producers and deliveries.
THEOREM TypeCorrect == Spec => []TypeOK
<1>1. Init => TypeOK
  BY DEF Init, TypeOK, ClientOK, MailboxOK, WorkerOK, WaitsOrOffers, InstanceOK,
         ProducersOK, HasConnection
<1>2. TypeOK /\ [Next]_vars => TypeOK'
  <2> SUFFICES ASSUME TypeOK, [Next]_vars PROVE TypeOK'
    OBVIOUS
  <2>1. CASE UNCHANGED vars
    BY <2>1, Preserved DEF vars, TypeOK
  <2>2. CASE Next
    BY <2>2, ReserveStepIsTyped, CompleteStepIsTyped, WorkerStepIsTyped, ConnectionStepIsTyped
       DEF Next
  <2> QED BY <2>1, <2>2
<1> QED BY <1>1, <1>2, PTL DEF Spec

-----------------------------------------------------------------------------
(* Status *)

\* A status installed by an effect, by a refresh or by the instance's own
\* command is never older than the one it replaces.
LEMMA InstallIsMonotone ==
    ASSUME TypeOK, [Next]_vars, NEW k \in Conns
    PROVE  installed'[k] >= installed[k]
<1>1. installed[k] \in Nat /\ installed \in [Conns -> Nat]
  BY DEF TypeOK, InstanceOK
<1>2. ASSUME NEW j \in Conns, NEW r \in Nat, installed' = [installed EXCEPT ![j] = Newer(j, r)]
      PROVE  installed'[k] >= installed[k]
  BY <1>1, <1>2 DEF Newer, TypeOK, InstanceOK
<1>3. CASE UNCHANGED installed
  BY <1>1, <1>3
<1>4. ASSUME NEW p \in Producers, Reserve(p) \/ Complete(p)
      PROVE  installed'[k] >= installed[k]
  <2>1. CASE applyOwn(p)
    <3> DEFINE j == target[p]
    <3>1. j \in Conns /\ snapshot[p] \in Nat
      BY <2>1 DEF applyOwn, TypeOK, ProducersOK, HasConnection
    <3>2. CASE active = j
      <4>1. installed' = [installed EXCEPT ![j] = Newer(j, snapshot[p])]
        BY <2>1, <3>2 DEF applyOwn
      <4> QED BY <3>1, <4>1, <1>2
    <3>3. CASE active # j
      BY <1>1, <2>1, <3>1, <3>3 DEF applyOwn
    <3> QED BY <3>2, <3>3
  <2>2. CASE ~applyOwn(p)
    <3>1. UNCHANGED installed
      BY <1>4, <2>2 DEF Reserve, Complete, reserveDelivery, reserveWithoutConnection, reserveOwn,
         snapshotStatus, findTarget, missTarget, reportRejected, finishReserved,
         enqueueRequired, receiveResult, postStatus, drainStatus, repostStatus,
         FinishStatus, instanceVars
    <3> QED BY <1>3, <3>1
  <2> QED BY <2>1, <2>2
<1>5. ASSUME NEW j \in Conns, runDeliveryWorker(j)
      PROVE  installed'[k] >= installed[k]
  <2>1. CASE runEffect(j)
    <3> DEFINE p == offered[j].of
    <3>1. CASE kind[p] \in Transitions
      <4>1. p \in Producers
        BY <2>1 DEF runEffect, HandedOff, TypeOK, WorkerOK, WaitsOrOffers, Command
      <4>2. snapshot[p] \in Nat /\ installed' = [installed EXCEPT ![j] = Newer(j, snapshot[p])]
        BY <2>1, <3>1, <4>1 DEF runEffect, TypeOK, ProducersOK
      <4> QED BY <4>2, <1>2
    <3>2. CASE kind[p] \notin Transitions
      BY <2>1, <3>2, <1>3 DEF runEffect
    <3> QED BY <3>1, <3>2
  <2>2. CASE runStatus(j)
    <3>1. offered[j].revision \in Nat
      BY <2>2 DEF runStatus, HandedOff, TypeOK, WorkerOK, WaitsOrOffers, Command
    <3>2. installed' = [installed EXCEPT ![j] = Newer(j, offered[j].revision)]
      BY <2>2 DEF runStatus
    <3> QED BY <3>1, <3>2, <1>2
  <2>3. CASE ~runEffect(j) /\ ~runStatus(j)
    <3>1. UNCHANGED installed
      BY <1>5, <2>3 DEF runDeliveryWorker, takeFence, takeRequired, takeRefresh, selectMore,
         takeCompletion, workerReturns, runFence, instanceVars
    <3> QED BY <1>3, <3>1
  <2> QED BY <2>1, <2>2, <2>3
<1>6. ASSUME NEW j \in Conns, attach(j) \/ detach(j) \/ endLifetime(j)
      PROVE  installed'[k] >= installed[k]
  BY <1>3, <1>6 DEF attach, detach, endLifetime
<1>7. CASE UNCHANGED vars
  BY <1>3, <1>7 DEF vars, instanceVars
<1> QED BY <1>4, <1>5, <1>6, <1>7 DEF Next

\* The status an instance shows never goes back, in whatever order refreshes and
\* transitions reach it.
THEOREM StatusIsMonotone == Spec => StatusNeverRegresses
<1>1. TypeOK /\ [Next]_vars => [\A k \in Conns : installed'[k] >= installed[k]]_vars
  BY InstallIsMonotone
<1> QED BY <1>1, TypeCorrect, PTL DEF Spec, StatusNeverRegresses

-----------------------------------------------------------------------------
(* Whose a delivery is *)

\* A producer that may still complete the delivery it reserved.
Open(p) == slot[p] # None /\ pc[p] \in {"looking", "finishing", "applying"}

\* It is the only one, and it has not completed it.
OpenIsOwn ==
    \A p \in Producers :
        /\ Open(p) => /\ bookedBy[target[p]][slot[p]] = p
                      /\ completion[target[p]][slot[p]] = None
                      /\ slot[p] \notin available[target[p]]
        /\ pc[p] = "idle" => slot[p] = None

QueuedOnce ==
    \A k \in Conns :
        /\ \A i, j \in DOMAIN required[k] : required[k][i] = required[k][j] => i = j
        /\ \A i \in DOMAIN required[k] : required[k][i] # held[k]

\* A cancelled delivery has a producer that withdrew, another one a producer
\* that waits for the effect or is done with it.
CompletedBy ==
    \A k \in Conns, x \in Slots :
        LET done == completion[k][x] IN
        done # None => pc[done.of] \in IF done.skip THEN {"withdrawn"} ELSE {"awaiting", "returned"}

\* A transition that is offered names no delivery any more.
OfferedBy ==
    \A k \in Conns : IsEffect(k) =>
        LET p == offered[k].of IN
        /\ pc[p] \in {"awaiting", "returned"}
        /\ kind[p] \in Transitions => slot[p] = None

\* The worker holds a delivery or offers a command.
WorkerHolds ==
    \A k \in Conns :
        /\ worker[k] \notin {"wait", "returned"} => held[k] = None
        /\ worker[k] \notin {"offer", "offerFence", "returned"} => offered[k] = None
        /\ held[k] = None \/ offered[k] = None
        /\ Len(required[k]) <= clientRequiredQueueCapacity

SlotInv == /\ RecycledIsClean /\ CompletedAsBooked /\ OpenIsOwn /\ QueuedOnce
           /\ CompletedBy /\ OfferedBy /\ WorkerHolds

\* A producer that has not reserved, or was refused.
Unbooked(p) == pc[p] = "idle" \/ (pc[p] \in {"looking", "finishing"} /\ slot[p] = None)

\* Nothing of its is in a mailbox or was run.
UnbookedIsNew ==
    \A p \in Producers : Unbooked(p) =>
        \A k \in Conns :
            /\ \A x \in Slots : bookedBy[k][x] # p
            /\ IsEffect(k) => offered[k].of # p
            /\ \A i \in DOMAIN ran[k] : ran[k][i] # p

\* A fence is raised on a revoked connection.
FenceIsRevoked == \A k \in Conns : fence[k] => k \in revoked

OrderInv == UnbookedIsNew /\ FenceIsRevoked

\* The positions of a queue that grew by one delivery.
LEMMA AppendIndexes ==
    ASSUME NEW s \in Seq(Slots), NEW x \in Slots
    PROVE  /\ DOMAIN Append(s, x) = DOMAIN s \cup {Len(s) + 1}
           /\ \A i \in DOMAIN s : Append(s, x)[i] = s[i]
           /\ Append(s, x)[Len(s) + 1] = x
           /\ Len(s) + 1 \notin DOMAIN s
           /\ Len(Append(s, x)) = Len(s) + 1
BY AppendProperties

\* The positions of a queue that lost its first delivery.
LEMMA TailIndexes ==
    ASSUME NEW s \in Seq(Slots), s # <<>>
    PROVE  /\ 1 \in DOMAIN s /\ Head(s) = s[1]
           /\ \A i \in DOMAIN Tail(s) : i + 1 \in DOMAIN s /\ Tail(s)[i] = s[i + 1] /\ i + 1 # 1
           /\ \A i, j \in DOMAIN Tail(s) : i + 1 = j + 1 => i = j
           /\ Len(Tail(s)) = Len(s) - 1
BY HeadTailProperties

\* The room left for the delivery the worker holds.
LEMMA CapacityIsNat == Cardinality(Slots) \in Nat /\ clientRequiredQueueCapacity \in Nat
<1>1. Cardinality(Slots) \in Nat /\ Cardinality(Slots) # 0
  BY SlotsAssumption, FS_CardinalityType, FS_EmptySet
<1> QED BY <1>1 DEF clientRequiredQueueCapacity

\* A step of a producer that touches no mailbox.
LEMMA MoveKeepsSlots ==
    ASSUME TypeOK, SlotInv, NEW p \in Producers,
           UNCHANGED <<available, required, completion, bookedBy, workerVars>>,
           \A q \in Producers \ {p} : UNCHANGED <<pc[q], kind[q], target[q], slot[q]>>,
           slot'[p] = slot[p],
           pc'[p] # "idle",
           Open(p)' => Open(p) /\ target'[p] = target[p],
           pc[p] \in {"awaiting", "returned"} =>
               pc'[p] \in {"awaiting", "returned"} /\ kind'[p] = kind[p],
           pc[p] # "withdrawn"
    PROVE  SlotInv'
<1>1. RecycledIsClean' /\ CompletedAsBooked' /\ QueuedOnce' /\ WorkerHolds'
  BY DEF SlotInv, RecycledIsClean, CompletedAsBooked, QueuedOnce, WorkerHolds, workerVars,
         clientRequiredQueueCapacity
<1>2. OpenIsOwn'
  BY DEF SlotInv, OpenIsOwn, Open
<1>3. CompletedBy'
  <2> SUFFICES ASSUME NEW k \in Conns, NEW x \in Slots, completion[k][x] # None
               PROVE  pc'[completion[k][x].of] \in IF completion[k][x].skip
                                                   THEN {"withdrawn"} ELSE {"awaiting", "returned"}
    BY DEF CompletedBy
  <2>1. completion[k][x].of \in Producers /\ completion[k][x].skip \in BOOLEAN
    BY DEF TypeOK, MailboxOK, Completion
  <2> QED BY <2>1 DEF SlotInv, CompletedBy
<1>4. OfferedBy'
  <2> SUFFICES ASSUME NEW k \in Conns, IsEffect(k)
               PROVE  /\ pc'[offered[k].of] \in {"awaiting", "returned"}
                      /\ kind'[offered[k].of] \in Transitions => slot'[offered[k].of] = None
    BY DEF OfferedBy, IsEffect, workerVars
  <2>1. offered[k].of \in Producers
    BY DEF TypeOK, WorkerOK, Command, IsEffect
  <2> QED BY <2>1 DEF SlotInv, OfferedBy
<1> QED BY <1>1, <1>2, <1>3, <1>4 DEF SlotInv

\* A producer completes or cancels the delivery it has open.
LEMMA FinishKeepsSlots ==
    ASSUME TypeOK, SlotInv, NEW p \in Producers, NEW skip \in BOOLEAN, Open(p),
           completion' = [completion EXCEPT ![target[p]][slot[p]] = [of |-> p, skip |-> skip]],
           NEW step \in IF skip THEN {"withdrawn"} ELSE {"awaiting", "returned"},
           pc' = [pc EXCEPT ![p] = step],
           UNCHANGED <<available, required, bookedBy, workerVars, kind, target, slot>>
    PROVE  SlotInv'
<1> DEFINE k == target[p]
           x == slot[p]
<1>1. /\ k \in Conns /\ x \in Slots /\ x \notin available[k] /\ bookedBy[k][x] = p
      /\ completion[k][x] = None /\ pc[p] \in {"looking", "finishing", "applying"}
  BY DEF Open, SlotInv, OpenIsOwn, TypeOK, ProducersOK, HasConnection
<1>2. /\ completion'[k][x] = [of |-> p, skip |-> skip]
      /\ \A j \in Conns, y \in Slots : j # k \/ y # x => completion'[j][y] = completion[j][y]
      /\ pc'[p] = step /\ \A q \in Producers : q # p => pc'[q] = pc[q]
      /\ pc'[p] \in IF skip THEN {"withdrawn"} ELSE {"awaiting", "returned"}
  BY <1>1 DEF TypeOK, MailboxOK, ProducersOK
<1>3. RecycledIsClean'
  BY <1>1, <1>2 DEF SlotInv, RecycledIsClean, workerVars, TypeOK, MailboxOK
<1>4. CompletedAsBooked'
  BY <1>1, <1>2 DEF SlotInv, CompletedAsBooked
<1>5. OpenIsOwn'
  BY <1>1, <1>2 DEF SlotInv, OpenIsOwn, Open, TypeOK, ProducersOK, HasConnection
<1>6. QueuedOnce' /\ WorkerHolds'
  BY DEF SlotInv, QueuedOnce, WorkerHolds, workerVars, clientRequiredQueueCapacity
<1>7. CompletedBy'
  <2> SUFFICES ASSUME NEW j \in Conns, NEW y \in Slots, completion'[j][y] # None
               PROVE  pc'[completion'[j][y].of] \in IF completion'[j][y].skip
                                                   THEN {"withdrawn"} ELSE {"awaiting", "returned"}
    BY DEF CompletedBy
  <2>1. CASE j = k /\ y = x
    BY <1>2, <2>1
  <2>2. CASE j # k \/ y # x
    <3>1. completion[j][y] # None /\ completion'[j][y] = completion[j][y]
      BY <1>2, <2>2
    <3>2. completion[j][y].of \in Producers /\ completion[j][y].skip \in BOOLEAN
      BY <3>1 DEF TypeOK, MailboxOK, Completion
    <3>3. completion[j][y].of # p
      BY <1>1, <3>1, <3>2 DEF SlotInv, CompletedBy
    <3> QED BY <1>2, <3>1, <3>2, <3>3 DEF SlotInv, CompletedBy
  <2> QED BY <2>1, <2>2
<1>8. OfferedBy'
  <2> SUFFICES ASSUME NEW j \in Conns, IsEffect(j)
               PROVE  /\ pc'[offered[j].of] \in {"awaiting", "returned"}
                      /\ kind[offered[j].of] \in Transitions => slot[offered[j].of] = None
    BY DEF OfferedBy, IsEffect, workerVars
  <2>1. offered[j].of \in Producers
    BY DEF TypeOK, WorkerOK, Command, IsEffect
  <2>2. offered[j].of # p
    BY <1>1 DEF SlotInv, OfferedBy
  <2> QED BY <1>2, <2>1, <2>2 DEF SlotInv, OfferedBy
<1> QED BY <1>3, <1>4, <1>5, <1>6, <1>7, <1>8 DEF SlotInv

\* A reservation, completed later or at once.
LEMMA BookKeepsSlots ==
    ASSUME TypeOK, SlotInv, NEW p \in Producers, NEW k \in Conns, NEW x \in Slots,
           HasRoom(k), Book(k, p, x),
           pc[p] \in {"idle", "finishing"}, slot[p] = None,
           UNCHANGED workerVars,
           \A q \in Producers \ {p} : UNCHANGED <<pc[q], kind[q], target[q], slot[q]>>,
           \/ /\ completion' = completion
              /\ pc'[p] \in {"looking", "finishing", "applying"}
              /\ target'[p] = k
              /\ slot'[p] = x
           \/ /\ completion' = [completion EXCEPT ![k][x] = [of |-> p, skip |-> FALSE]]
              /\ pc'[p] = "awaiting"
    PROVE  SlotInv'
<1>1. /\ x \in available[k] /\ completion[k][x] = None /\ held[k] # x
      /\ \A i \in DOMAIN required[k] : required[k][i] # x
  BY DEF Book, SlotInv, RecycledIsClean
<1>2. /\ available'[k] = available[k] \ {x}
      /\ \A j \in Conns : j # k => available'[j] = available[j]
      /\ required'[k] = Append(required[k], x)
      /\ \A j \in Conns : j # k => required'[j] = required[j]
      /\ bookedBy'[k][x] = p
      /\ \A j \in Conns, y \in Slots : j # k \/ y # x => bookedBy'[j][y] = bookedBy[j][y]
      /\ completion'[k][x] \in {None, [of |-> p, skip |-> FALSE]}
      /\ \A j \in Conns, y \in Slots : j # k \/ y # x => completion'[j][y] = completion[j][y]
      /\ held' = held /\ offered' = offered /\ worker' = worker
  BY <1>1 DEF Book, TypeOK, MailboxOK, workerVars
<1>3. /\ DOMAIN required'[k] = DOMAIN required[k] \cup {Len(required[k]) + 1}
      /\ \A i \in DOMAIN required[k] : required'[k][i] = required[k][i]
      /\ required'[k][Len(required[k]) + 1] = x
      /\ Len(required[k]) + 1 \notin DOMAIN required[k]
      /\ Len(required'[k]) = Len(required[k]) + 1
  BY <1>2, AppendIndexes DEF TypeOK, MailboxOK
<1>4. RecycledIsClean'
  <2> SUFFICES ASSUME NEW j \in Conns, NEW y \in available'[j]
               PROVE  /\ completion'[j][y] = None /\ held'[j] # y
                      /\ \A i \in DOMAIN required'[j] : required'[j][i] # y
    BY DEF RecycledIsClean
  <2>1. y \in available[j] /\ y \in Slots /\ (j # k \/ y # x)
    BY <1>2 DEF TypeOK, MailboxOK
  <2>2. /\ completion[j][y] = None /\ held[j] # y
        /\ \A i \in DOMAIN required[j] : required[j][i] # y
    BY <2>1 DEF SlotInv, RecycledIsClean
  <2> QED BY <1>2, <1>3, <2>1, <2>2
<1>5. CompletedAsBooked'
  BY <1>2, NoneIsNoID DEF SlotInv, CompletedAsBooked
<1>6. OpenIsOwn'
  <2> SUFFICES ASSUME NEW q \in Producers
               PROVE  /\ Open(q)' => /\ bookedBy'[target'[q]][slot'[q]] = q
                                     /\ completion'[target'[q]][slot'[q]] = None
                                     /\ slot'[q] \notin available'[target'[q]]
                      /\ pc'[q] = "idle" => slot'[q] = None
    BY DEF OpenIsOwn
  <2>1. CASE q = p
    BY <1>1, <1>2, <2>1 DEF Open
  <2>2. CASE q # p
    <3>1. /\ Open(q)' = Open(q) /\ target'[q] = target[q] /\ slot'[q] = slot[q] /\ pc'[q] = pc[q]
          /\ Open(q) => target[q] \in Conns /\ slot[q] \in Slots
      BY <2>2 DEF Open, TypeOK, ProducersOK, HasConnection
    <3>2. Open(q) => target[q] # k \/ slot[q] # x
      BY <1>1, <3>1 DEF SlotInv, OpenIsOwn
    <3> QED BY <1>2, <3>1, <3>2 DEF SlotInv, OpenIsOwn
  <2> QED BY <2>1, <2>2
<1>7. QueuedOnce'
  <2> SUFFICES ASSUME NEW j \in Conns
               PROVE  /\ \A i, l \in DOMAIN required'[j] :
                             required'[j][i] = required'[j][l] => i = l
                      /\ \A i \in DOMAIN required'[j] : required'[j][i] # held[j]
    BY <1>2 DEF QueuedOnce
  <2>1. /\ \A i, l \in DOMAIN required[j] : required[j][i] = required[j][l] => i = l
        /\ \A i \in DOMAIN required[j] : required[j][i] # held[j]
    BY DEF SlotInv, QueuedOnce
  <2>2. CASE j = k
    BY <1>1, <1>3, <2>1, <2>2
  <2>3. CASE j # k
    BY <1>2, <2>1, <2>3
  <2> QED BY <2>2, <2>3
<1>8. CompletedBy'
  <2> SUFFICES ASSUME NEW j \in Conns, NEW y \in Slots, completion'[j][y] # None
               PROVE  pc'[completion'[j][y].of] \in IF completion'[j][y].skip
                                                   THEN {"withdrawn"} ELSE {"awaiting", "returned"}
    BY DEF CompletedBy
  <2>1. CASE j = k /\ y = x
    BY <1>1, <1>2, <2>1
  <2>2. CASE j # k \/ y # x
    <3>1. completion[j][y] # None /\ completion'[j][y] = completion[j][y]
      BY <1>2, <2>2
    <3>2. completion[j][y].of \in Producers /\ completion[j][y].skip \in BOOLEAN
      BY <3>1 DEF TypeOK, MailboxOK, Completion
    <3>3. completion[j][y].of # p
      BY <3>1, <3>2 DEF SlotInv, CompletedBy
    <3> QED BY <3>1, <3>2, <3>3 DEF SlotInv, CompletedBy
  <2> QED BY <2>1, <2>2
<1>9. OfferedBy'
  <2> SUFFICES ASSUME NEW j \in Conns, IsEffect(j)
               PROVE  /\ pc'[offered[j].of] \in {"awaiting", "returned"}
                      /\ kind'[offered[j].of] \in Transitions => slot'[offered[j].of] = None
    BY <1>2 DEF OfferedBy, IsEffect
  <2>1. offered[j].of \in Producers
    BY DEF TypeOK, WorkerOK, Command, IsEffect
  <2>2. offered[j].of # p
    BY DEF SlotInv, OfferedBy
  <2> QED BY <2>1, <2>2 DEF SlotInv, OfferedBy
<1>10. WorkerHolds'
  <2>1. ASSUME NEW j \in Conns PROVE Len(required'[j]) <= clientRequiredQueueCapacity
    <3>1. Len(required[k]) \in Nat
      BY LenProperties DEF TypeOK, MailboxOK
    <3>2. CASE j = k
      BY <1>3, <3>1, <3>2, CapacityIsNat DEF HasRoom
    <3>3. CASE j # k
      BY <1>2, <3>3 DEF SlotInv, WorkerHolds
    <3> QED BY <3>2, <3>3
  <2> QED BY <1>2, <2>1 DEF SlotInv, WorkerHolds, clientRequiredQueueCapacity
<1> QED BY <1>4, <1>5, <1>6, <1>7, <1>8, <1>9, <1>10 DEF SlotInv

\* A worker that moves on, drops the delivery it waits on, or offers a command
\* that is no effect.
LEMMA WorkerMoveKeepsSlots ==
    ASSUME TypeOK, SlotInv, NEW k \in Conns,
           UNCHANGED <<available, required, completion, bookedBy, pc, kind, target, slot>>,
           \A j \in Conns \ {k} : UNCHANGED <<worker[j], held[j], offered[j]>>,
           held'[k] \in {held[k], None},
           IsEffect(k)' => offered'[k] = offered[k],
           worker'[k] \notin {"wait", "returned"} => held'[k] = None,
           worker'[k] \notin {"offer", "offerFence", "returned"} => offered'[k] = None,
           held'[k] = None \/ offered'[k] = None
    PROVE  SlotInv'
<1>1. RecycledIsClean'
  <2> SUFFICES ASSUME NEW j \in Conns, NEW y \in available[j]
               PROVE  /\ completion[j][y] = None /\ held'[j] # y
                      /\ \A i \in DOMAIN required[j] : required[j][i] # y
    BY DEF RecycledIsClean
  <2>1. y \in Slots /\ held'[j] \in {held[j], None}
    BY DEF TypeOK, MailboxOK
  <2> QED BY <2>1, NoneIsNoID DEF SlotInv, RecycledIsClean
<1>2. CompletedAsBooked' /\ OpenIsOwn' /\ CompletedBy'
  BY DEF SlotInv, CompletedAsBooked, OpenIsOwn, Open, CompletedBy
<1>3. QueuedOnce'
  <2> SUFFICES ASSUME NEW j \in Conns, NEW i \in DOMAIN required[j]
               PROVE  required[j][i] # held'[j]
    BY DEF SlotInv, QueuedOnce
  <2>1. required[j][i] \in Slots
    BY ElementOfSeq DEF TypeOK, MailboxOK
  <2>2. held'[j] \in {held[j], None}
    OBVIOUS
  <2> QED BY <2>1, <2>2, NoneIsNoID DEF SlotInv, QueuedOnce
<1>4. OfferedBy'
  <2> SUFFICES ASSUME NEW j \in Conns, IsEffect(j)'
               PROVE  /\ pc[offered'[j].of] \in {"awaiting", "returned"}
                      /\ kind[offered'[j].of] \in Transitions => slot[offered'[j].of] = None
    BY DEF OfferedBy
  <2>1. offered'[j] = offered[j]
    OBVIOUS
  <2> QED BY <2>1 DEF SlotInv, OfferedBy, IsEffect
<1>5. WorkerHolds'
  <2> SUFFICES ASSUME NEW j \in Conns
               PROVE  /\ worker'[j] \notin {"wait", "returned"} => held'[j] = None
                      /\ worker'[j] \notin {"offer", "offerFence", "returned"} => offered'[j] = None
                      /\ held'[j] = None \/ offered'[j] = None
                      /\ Len(required[j]) <= clientRequiredQueueCapacity
    BY DEF WorkerHolds, clientRequiredQueueCapacity
  <2> QED BY DEF SlotInv, WorkerHolds
<1> QED BY <1>1, <1>2, <1>3, <1>4, <1>5 DEF SlotInv

\* The worker pops a delivery: it is the held one now and queued no more.
LEMMA TakeRequiredKeepsSlots ==
    ASSUME TypeOK, SlotInv, NEW k \in Conns, takeRequired(k)
    PROVE  SlotInv'
<1> DEFINE q == required[k]
<1>1. /\ q \in Seq(Slots) /\ q # <<>>
      /\ held'[k] = Head(q) /\ required'[k] = Tail(q) /\ worker'[k] = "wait"
      /\ held[k] = None /\ offered[k] = None
      /\ \A j \in Conns \ {k} : UNCHANGED <<worker[j], held[j], required[j]>>
      /\ UNCHANGED <<available, completion, bookedBy, offered, pc, kind, target, slot>>
  BY DEF takeRequired, Selecting, WorkerAt, TypeOK, MailboxOK, WorkerOK, producerVars,
         SlotInv, WorkerHolds
<1>2. /\ 1 \in DOMAIN q /\ Head(q) = q[1]
      /\ \A i \in DOMAIN Tail(q) : i + 1 \in DOMAIN q /\ Tail(q)[i] = q[i + 1] /\ i + 1 # 1
      /\ \A i, j \in DOMAIN Tail(q) : i + 1 = j + 1 => i = j
      /\ Len(Tail(q)) = Len(q) - 1
  BY <1>1, TailIndexes
<1>3. RecycledIsClean'
  <2> SUFFICES ASSUME NEW j \in Conns, NEW y \in available[j]
               PROVE  /\ completion[j][y] = None /\ held'[j] # y
                      /\ \A i \in DOMAIN required'[j] : required'[j][i] # y
    BY <1>1 DEF RecycledIsClean
  <2>1. /\ completion[j][y] = None /\ held[j] # y
        /\ \A i \in DOMAIN required[j] : required[j][i] # y
    BY DEF SlotInv, RecycledIsClean
  <2>2. CASE j = k
    <3>1. q[1] # y /\ \A i \in DOMAIN Tail(q) : Tail(q)[i] # y
      BY <1>2, <2>1, <2>2
    <3>2. held'[j] = q[1] /\ required'[j] = Tail(q)
      BY <1>1, <1>2, <2>2
    <3> QED BY <2>1, <3>1, <3>2
  <2>3. CASE j # k
    BY <1>1, <2>1, <2>3
  <2> QED BY <2>2, <2>3
<1>4. CompletedAsBooked' /\ OpenIsOwn' /\ CompletedBy' /\ OfferedBy'
  BY <1>1 DEF SlotInv, CompletedAsBooked, OpenIsOwn, Open, CompletedBy, OfferedBy, IsEffect
<1>5. QueuedOnce'
  <2> SUFFICES ASSUME NEW j \in Conns
               PROVE  /\ \A i, l \in DOMAIN required'[j] :
                             required'[j][i] = required'[j][l] => i = l
                      /\ \A i \in DOMAIN required'[j] : required'[j][i] # held'[j]
    BY DEF QueuedOnce
  <2>1. /\ \A i, l \in DOMAIN required[j] : required[j][i] = required[j][l] => i = l
        /\ \A i \in DOMAIN required[j] : required[j][i] # held[j]
    BY DEF SlotInv, QueuedOnce
  <2>2. CASE j = k
    <3>1. \A i \in DOMAIN Tail(q) : Tail(q)[i] # Head(q)
      BY <1>2, <2>1, <2>2
    <3>2. ASSUME NEW i \in DOMAIN Tail(q), NEW l \in DOMAIN Tail(q), Tail(q)[i] = Tail(q)[l]
          PROVE  i = l
      <4>1. i + 1 = l + 1
        BY <1>2, <2>1, <2>2, <3>2
      <4> QED BY <1>2, <4>1
    <3> QED BY <1>1, <2>2, <3>1, <3>2
  <2>3. CASE j # k
    BY <1>1, <2>1, <2>3
  <2> QED BY <2>2, <2>3
<1>6. WorkerHolds'
  <2>1. ASSUME NEW j \in Conns PROVE Len(required'[j]) <= clientRequiredQueueCapacity
    <3>1. Len(q) \in Nat /\ Len(q) <= clientRequiredQueueCapacity
      BY <1>1, LenProperties DEF SlotInv, WorkerHolds
    <3>2. CASE j = k
      <4>1. required'[j] = Tail(q)
        BY <1>1, <3>2
      <4>2. Len(Tail(q)) <= clientRequiredQueueCapacity
        BY <1>2, <3>1, CapacityIsNat
      <4> QED BY <4>1, <4>2
    <3>3. CASE j # k
      BY <1>1, <3>3 DEF SlotInv, WorkerHolds
    <3> QED BY <3>2, <3>3
  <2> QED BY <1>1, <2>1 DEF SlotInv, WorkerHolds, clientRequiredQueueCapacity
<1> QED BY <1>3, <1>4, <1>5, <1>6 DEF SlotInv

\* The worker recycles a delivery whose completion it has taken.
LEMMA TakeCompletionKeepsSlots ==
    ASSUME TypeOK, SlotInv, NEW k \in Conns, takeCompletion(k)
    PROVE  SlotInv'
<1> DEFINE x == held[k]
           done == completion[k][x]
           p == done.of
<1>1. /\ worker[k] = "wait" /\ x \in Slots /\ offered[k] = None
      /\ done \in Completion /\ p \in Producers /\ done.skip \in BOOLEAN
      /\ \A i \in DOMAIN required[k] : required[k][i] # x
      /\ done # None
      /\ pc[p] \in IF done.skip THEN {"withdrawn"} ELSE {"awaiting", "returned"}
  BY DEF takeCompletion, TypeOK, WorkerOK, WaitsOrOffers, MailboxOK, SlotInv, WorkerHolds,
         QueuedOnce, CompletedBy, Completion
<1>2. /\ completion'[k][x] = None /\ bookedBy'[k][x] = None
      /\ \A j \in Conns, y \in Slots : j # k \/ y # x =>
             completion'[j][y] = completion[j][y] /\ bookedBy'[j][y] = bookedBy[j][y]
      /\ available'[k] = available[k] \cup {x}
      /\ held'[k] = None
      /\ \A j \in Conns \ {k} : UNCHANGED <<available[j], held[j], worker[j], offered[j]>>
      /\ UNCHANGED <<required, pc, kind, target>>
  BY <1>1 DEF takeCompletion, TypeOK, MailboxOK, WorkerOK, WorkerAt, Offers
<1>3. /\ \A q \in Producers : q # p => slot'[q] = slot[q]
      /\ slot'[p] \in {slot[p], None}
      /\ ~done.skip /\ kind[p] \in Transitions => slot'[p] = None
  BY <1>1 DEF takeCompletion, Released, TypeOK, ProducersOK
<1>4. \/ done.skip /\ worker'[k] = "fenceFirst" /\ offered'[k] = None
      \/ ~done.skip /\ worker'[k] = "offer" /\ offered'[k] = [type |-> "effect", of |-> p]
  BY <1>1 DEF takeCompletion, Skips, WorkerAt, Offers, TypeOK, WorkerOK
<1>5. RecycledIsClean'
  <2> SUFFICES ASSUME NEW j \in Conns, NEW y \in available'[j]
               PROVE  /\ completion'[j][y] = None /\ held'[j] # y
                      /\ \A i \in DOMAIN required[j] : required[j][i] # y
    BY <1>2 DEF RecycledIsClean
  <2>1. CASE j = k /\ y = x
    BY <1>1, <1>2, <2>1, NoneIsNoID
  <2>2. CASE j # k \/ y # x
    <3>1. y \in available[j] /\ y \in Slots
      BY <1>2, <2>2 DEF TypeOK, MailboxOK
    <3>2. /\ completion[j][y] = None /\ held[j] # y
          /\ \A i \in DOMAIN required[j] : required[j][i] # y
      BY <3>1 DEF SlotInv, RecycledIsClean
    <3> QED BY <1>2, <2>2, <3>1, <3>2, NoneIsNoID
  <2> QED BY <2>1, <2>2
<1>6. CompletedAsBooked'
  BY <1>2 DEF SlotInv, CompletedAsBooked
<1>7. OpenIsOwn'
  <2> SUFFICES ASSUME NEW q \in Producers
               PROVE  /\ Open(q)' => /\ bookedBy'[target[q]][slot'[q]] = q
                                     /\ completion'[target[q]][slot'[q]] = None
                                     /\ slot'[q] \notin available'[target[q]]
                      /\ pc[q] = "idle" => slot'[q] = None
    BY <1>2 DEF OpenIsOwn
  <2>1. CASE q = p
    BY <1>1, <1>2, <2>1 DEF Open
  <2>2. CASE q # p
    <3>1. /\ Open(q)' = Open(q) /\ slot'[q] = slot[q]
          /\ Open(q) => target[q] \in Conns /\ slot[q] \in Slots
      BY <1>2, <1>3, <2>2 DEF Open, TypeOK, ProducersOK, HasConnection
    <3>2. Open(q) => target[q] # k \/ slot[q] # x
      BY <1>1 DEF SlotInv, OpenIsOwn
    <3> QED BY <1>2, <3>1, <3>2 DEF SlotInv, OpenIsOwn
  <2> QED BY <2>1, <2>2
<1>8. QueuedOnce'
  <2> SUFFICES ASSUME NEW j \in Conns, NEW i \in DOMAIN required[j]
               PROVE  required[j][i] # held'[j]
    BY <1>2 DEF SlotInv, QueuedOnce
  <2>1. required[j][i] \in Slots
    BY ElementOfSeq DEF TypeOK, MailboxOK
  <2> QED BY <1>2, <2>1, NoneIsNoID DEF SlotInv, QueuedOnce
<1>9. CompletedBy'
  BY <1>2 DEF SlotInv, CompletedBy
<1>10. OfferedBy'
  <2> SUFFICES ASSUME NEW j \in Conns, IsEffect(j)'
               PROVE  /\ pc[offered'[j].of] \in {"awaiting", "returned"}
                      /\ kind[offered'[j].of] \in Transitions => slot'[offered'[j].of] = None
    BY <1>2 DEF OfferedBy
  <2>1. CASE j = k
    BY <1>1, <1>3, <1>4, <2>1 DEF IsEffect
  <2>2. CASE j # k
    <3>1. offered'[j] = offered[j] /\ IsEffect(j)
      BY <1>2, <2>2 DEF IsEffect
    <3>2. offered[j].of \in Producers
      BY <3>1 DEF TypeOK, WorkerOK, Command, IsEffect
    <3> QED BY <1>3, <3>1, <3>2 DEF SlotInv, OfferedBy
  <2> QED BY <2>1, <2>2
<1>11. WorkerHolds'
  BY <1>2, <1>4 DEF SlotInv, WorkerHolds, clientRequiredQueueCapacity
<1> QED BY <1>5, <1>6, <1>7, <1>8, <1>9, <1>10, <1>11 DEF SlotInv

\* A daemon turn that reserves for p, which had not reserved before.
LEMMA ReserveKeepsSlots ==
    ASSUME TypeOK, SlotInv, NEW p \in Producers, active # None, ReserveInTurn(p),
           pc[p] = "idle",
           NEW step \in {"looking", "finishing", "applying"}, pc' = [pc EXCEPT ![p] = step],
           NEW k \in AllKinds, kind' = [kind EXCEPT ![p] = k],
           UNCHANGED workerVars
    PROVE  SlotInv'
<1>1. active \in Conns /\ slot[p] = None
  BY DEF TypeOK, ClientOK, SlotInv, OpenIsOwn
<1>2. /\ pc'[p] = step /\ target'[p] = active
      /\ \A q \in Producers \ {p} : UNCHANGED <<pc[q], kind[q], target[q]>>
      /\ completion' = completion
  BY <1>1 DEF ReserveInTurn, TypeOK, ProducersOK
<1>3. CASE HasRoom(active)
  <2>1. PICK x \in Slots : Book(active, p, x) /\ slot' = [slot EXCEPT ![p] = x]
    BY <1>3 DEF ReserveInTurn
  <2>2. slot'[p] = x /\ \A q \in Producers \ {p} : slot'[q] = slot[q]
    BY <2>1 DEF TypeOK, ProducersOK
  <2> QED BY <1>1, <1>2, <1>3, <2>1, <2>2, BookKeepsSlots
<1>4. CASE ~HasRoom(active)
  <2>1. UNCHANGED <<available, required, bookedBy, slot>>
    BY <1>4 DEF ReserveInTurn, fenceSaturatedDelivery
  <2> QED BY <1>1, <1>2, <2>1, MoveKeepsSlots DEF Open
<1> QED BY <1>3, <1>4

\* Every step of a producer keeps deliveries with their owners.
LEMMA ProducerStepKeepsSlots ==
    ASSUME TypeOK, SlotInv, NEW p \in Producers, Reserve(p) \/ Complete(p)
    PROVE  SlotInv'
<1>1. ASSUME NEW k \in AllKinds, reserveDelivery(p, k) PROVE SlotInv'
  <2>1. CASE k \in {"apply", "keys"}
    BY <1>1, <2>1, ReserveKeepsSlots DEF reserveDelivery, NextStep
  <2>2. CASE k \notin {"apply", "keys"}
    BY <1>1, <2>2, ReserveKeepsSlots DEF reserveDelivery, NextStep
  <2> QED BY <2>1, <2>2
<1>2. CASE reserveOwn(p)
  BY <1>2, ReserveKeepsSlots DEF reserveOwn, NextStep
<1>3. CASE reserveWithoutConnection(p) \/ snapshotStatus(p)
  <2>1. slot[p] = None /\ pc[p] = "idle"
    BY <1>3 DEF reserveWithoutConnection, snapshotStatus, SlotInv, OpenIsOwn
  <2>2. /\ UNCHANGED <<available, required, completion, bookedBy, workerVars, slot>>
        /\ \E step \in {"looking", "posting"} : pc' = [pc EXCEPT ![p] = step]
        /\ \A q \in Producers \ {p} : UNCHANGED <<pc[q], kind[q], target[q]>>
    BY <1>3 DEF reserveWithoutConnection, snapshotStatus, NextStep, mailboxVars,
                TypeOK, ProducersOK
  <2> QED BY <2>1, <2>2, MoveKeepsSlots DEF Open, TypeOK, ProducersOK
<1>4. CASE findTarget(p) \/ reportRejected(p) \/ receiveResult(p)
           \/ postStatus(p) \/ drainStatus(p) \/ repostStatus(p)
  <2>1. /\ UNCHANGED <<available, required, completion, bookedBy, workerVars, kind, target, slot>>
        /\ \/ pc[p] = "looking" /\ pc' = [pc EXCEPT ![p] = "finishing"]
           \/ /\ pc[p] \in {"finishing", "awaiting", "posting", "draining", "retrying"}
              /\ \E step \in {"draining", "retrying", "returned"} : pc' = [pc EXCEPT ![p] = step]
              /\ pc[p] = "awaiting" => pc' = [pc EXCEPT ![p] = "returned"]
    BY <1>4 DEF findTarget, reportRejected, receiveResult, postStatus, drainStatus, repostStatus,
                FinishStatus, NextStep, mailboxVars
  <2>2. /\ \A q \in Producers \ {p} : pc'[q] = pc[q]
        /\ pc'[p] # "idle" /\ pc[p] \notin {"withdrawn", "returned"}
        /\ pc[p] = "awaiting" => pc'[p] = "returned"
        /\ Open(p)' => Open(p)
    BY <2>1 DEF TypeOK, ProducersOK, Open
  <2> QED BY <2>1, <2>2, MoveKeepsSlots
<1>5. CASE missTarget(p)
  <2>1. /\ pc' = [pc EXCEPT ![p] = "withdrawn"] /\ pc[p] = "looking"
        /\ UNCHANGED <<available, required, bookedBy, workerVars, kind, target, slot>>
    BY <1>5 DEF missTarget, NextStep
  <2>2. CASE slot[p] = None
    <3>1. completion' = completion
      BY <1>5, <2>2 DEF missTarget, finish
    <3> QED BY <2>1, <2>2, <3>1, MoveKeepsSlots DEF Open, TypeOK, ProducersOK
  <2>3. CASE slot[p] # None
    <3>1. Open(p) /\ completion[target[p]][slot[p]] = None /\ target[p] # None
      BY <2>1, <2>3 DEF Open, SlotInv, OpenIsOwn, TypeOK, ProducersOK, HasConnection
    <3>2. completion' = [completion EXCEPT ![target[p]][slot[p]] = [of |-> p, skip |-> TRUE]]
      BY <1>5, <2>3, <3>1 DEF missTarget, finish
    <3> QED BY <2>1, <3>1, <3>2, FinishKeepsSlots
  <2> QED BY <2>2, <2>3
<1>6. CASE finishReserved(p)
  <2>1. /\ \E step \in {"awaiting", "returned"} : pc' = [pc EXCEPT ![p] = step]
        /\ UNCHANGED <<available, required, bookedBy, workerVars, kind, target, slot>>
    BY <1>6 DEF finishReserved, AfterFinish, NextStep
  <2>2. Open(p) /\ completion[target[p]][slot[p]] = None
    BY <1>6 DEF finishReserved, Open, SlotInv, OpenIsOwn
  <2>3. completion' = [completion EXCEPT ![target[p]][slot[p]] = [of |-> p, skip |-> FALSE]]
    BY <1>6, <2>2 DEF finishReserved, finish
  <2> QED BY <2>1, <2>2, <2>3, FinishKeepsSlots
<1>7. CASE enqueueRequired(p)
  <2> DEFINE k == waitsOn[p]
  <2>1. k \in Conns /\ slot[p] = None /\ pc[p] = "finishing"
    BY <1>7 DEF enqueueRequired, TypeOK, ProducersOK, HasConnection
  <2>2. CASE HasRoom(k)
    <3>1. PICK x \in Slots : Book(k, p, x) /\ finish(k, x, p, FALSE)
      BY <1>7, <2>2 DEF enqueueRequired
    <3>2. completion[k][x] = None
      BY <2>1, <3>1 DEF Book, SlotInv, RecycledIsClean
    <3>3. completion' = [completion EXCEPT ![k][x] = [of |-> p, skip |-> FALSE]]
      BY <3>1, <3>2, NoneIsNoID DEF finish
    <3>4. /\ pc'[p] = "awaiting" /\ UNCHANGED workerVars
          /\ \A q \in Producers \ {p} : UNCHANGED <<pc[q], kind[q], target[q], slot[q]>>
      BY <1>7, <2>2 DEF enqueueRequired, NextStep, TypeOK, ProducersOK
    <3> QED BY <2>1, <2>2, <3>1, <3>3, <3>4, BookKeepsSlots
  <2>3. CASE ~HasRoom(k)
    <3>1. /\ pc'[p] = "returned"
          /\ UNCHANGED <<available, required, completion, bookedBy, workerVars, kind, slot>>
          /\ \A q \in Producers \ {p} : UNCHANGED <<pc[q], target[q]>>
      BY <1>7, <2>3 DEF enqueueRequired, fenceSaturatedDelivery, NextStep, TypeOK, ProducersOK
    <3> QED BY <2>1, <3>1, MoveKeepsSlots DEF Open
  <2> QED BY <2>2, <2>3
<1>8. CASE applyOwn(p)
  <2>1. /\ pc' = [pc EXCEPT ![p] = "withdrawn"] /\ pc[p] = "applying"
        /\ UNCHANGED <<available, required, bookedBy, workerVars, kind, target, slot>>
    BY <1>8 DEF applyOwn, NextStep
  <2>2. CASE slot[p] = None
    <3>1. completion' = completion
      BY <1>8, <2>2 DEF applyOwn, CancelOwn, finish
    <3> QED BY <2>1, <2>2, <3>1, MoveKeepsSlots DEF Open, TypeOK, ProducersOK
  <2>3. CASE slot[p] # None
    <3>1. Open(p) /\ completion[target[p]][slot[p]] = None
      BY <2>1, <2>3 DEF Open, SlotInv, OpenIsOwn
    <3>2. completion' = [completion EXCEPT ![target[p]][slot[p]] = [of |-> p, skip |-> TRUE]]
      BY <1>8, <2>3, <3>1 DEF applyOwn, CancelOwn, finish
    <3> QED BY <2>1, <3>1, <3>2, FinishKeepsSlots
  <2> QED BY <2>2, <2>3
<1> QED BY <1>1, <1>2, <1>3, <1>4, <1>5, <1>6, <1>7, <1>8 DEF Reserve, Complete

\* Every step of a worker keeps deliveries with their owners.
LEMMA WorkerStepKeepsSlots ==
    ASSUME TypeOK, SlotInv, NEW k \in Conns, runDeliveryWorker(k)
    PROVE  SlotInv'
<1>1. CASE takeFence(k)
  <2>1. /\ UNCHANGED <<available, required, completion, bookedBy, pc, kind, target, slot>>
        /\ \A j \in Conns \ {k} : UNCHANGED <<worker[j], held[j], offered[j]>>
        /\ held'[k] = None /\ offered'[k] = Fence /\ worker'[k] \in {"offer", "offerFence"}
    BY <1>1 DEF takeFence, AvailableAfterFence, WorkerAt, Offers, producerVars, TypeOK, WorkerOK
  <2> QED BY <2>1, WorkerMoveKeepsSlots DEF IsEffect, Fence
<1>2. CASE takeRefresh(k)
  <2>1. /\ UNCHANGED <<available, required, completion, bookedBy, pc, kind, target, slot>>
        /\ \A j \in Conns \ {k} : UNCHANGED <<worker[j], held[j], offered[j]>>
        /\ held'[k] = held[k] /\ held[k] = None
        /\ offered'[k] = [type |-> "status", revision |-> refresh[k]] /\ worker'[k] = "offer"
    BY <1>2 DEF takeRefresh, WorkerAt, Offers, producerVars, TypeOK, WorkerOK, SlotInv, WorkerHolds
  <2> QED BY <2>1, WorkerMoveKeepsSlots DEF IsEffect
<1>3. CASE selectMore(k)
  <2>1. /\ UNCHANGED <<available, required, completion, bookedBy, pc, kind, target, slot,
                       held, offered>>
        /\ \A j \in Conns \ {k} : worker'[j] = worker[j]
        /\ held[k] = None /\ offered[k] = None
    BY <1>3 DEF selectMore, WorkerAt, mailboxVars, producerVars, TypeOK, WorkerOK, SlotInv, WorkerHolds
  <2> QED BY <2>1, WorkerMoveKeepsSlots
<1>4. CASE workerReturns(k)
  <2>1. /\ UNCHANGED <<available, required, completion, bookedBy, pc, kind, target, slot,
                       held, offered>>
        /\ worker'[k] = "returned"
        /\ \A j \in Conns \ {k} : worker'[j] = worker[j]
        /\ held[k] = None \/ offered[k] = None
    BY <1>4 DEF workerReturns, WorkerAt, mailboxVars, producerVars, TypeOK, WorkerOK, SlotInv, WorkerHolds
  <2> QED BY <2>1, WorkerMoveKeepsSlots
<1>5. ASSUME HandedOff(k), UNCHANGED held,
             UNCHANGED <<available, required, completion, bookedBy, producerVars>>
      PROVE  SlotInv'
  <2>1. /\ offered'[k] = None /\ worker'[k] = "fenceFirst" /\ held[k] = None
        /\ \A j \in Conns \ {k} : UNCHANGED <<worker[j], offered[j]>>
    BY <1>5 DEF HandedOff, WorkerAt, Offers, TypeOK, WorkerOK, SlotInv, WorkerHolds
  <2> QED BY <1>5, <2>1, WorkerMoveKeepsSlots DEF IsEffect, producerVars
<1>6. CASE runEffect(k)
  <2> DEFINE p == offered[k].of
  <2>1. kind[p] \in Transitions => slot[p] = None
    BY <1>6 DEF runEffect, HandedOff, TypeOK, WorkerOK, WaitsOrOffers, SlotInv, OfferedBy, IsEffect
  <2>2. completion' = completion
    BY <1>6, <2>1 DEF runEffect, finish
  <2> QED BY <1>5, <1>6, <2>2 DEF runEffect
<1>7. CASE runStatus(k) \/ runFence(k)
  BY <1>5, <1>7 DEF runStatus, runFence, mailboxVars
<1> QED BY <1>1, <1>2, <1>3, <1>4, <1>6, <1>7, TakeRequiredKeepsSlots, TakeCompletionKeepsSlots
        DEF runDeliveryWorker

\* Each delivery belongs to the producer that reserved it until its completion
\* has been taken.
LEMMA SlotsAreKept == Spec => []SlotInv
<1>1. Init => SlotInv
  <2> SUFFICES ASSUME Init PROVE SlotInv
    OBVIOUS
  <2>1. RecycledIsClean /\ CompletedAsBooked /\ OpenIsOwn /\ QueuedOnce /\ CompletedBy /\ OfferedBy
    BY NoneIsNoID DEF Init, RecycledIsClean, CompletedAsBooked, OpenIsOwn, Open, QueuedOnce,
       CompletedBy, OfferedBy, IsEffect
  <2>2. WorkerHolds
    BY CapacityIsNat, EmptySeq DEF Init, WorkerHolds
  <2> QED BY <2>1, <2>2 DEF SlotInv
<1>2. TypeOK /\ SlotInv /\ [Next]_vars => SlotInv'
  <2> SUFFICES ASSUME TypeOK, SlotInv, [Next]_vars PROVE SlotInv'
    OBVIOUS
  <2>1. ASSUME NEW k \in Conns, attach(k) \/ detach(k) \/ endLifetime(k)
        PROVE  UNCHANGED <<mailboxVars, workerVars, producerVars>>
    BY <2>1 DEF attach, detach, endLifetime
  <2>2. ASSUME UNCHANGED <<mailboxVars, workerVars, producerVars>>
        PROVE  SlotInv'
    BY <2>2 DEF SlotInv, RecycledIsClean, CompletedAsBooked, OpenIsOwn, Open, QueuedOnce,
       CompletedBy, OfferedBy, IsEffect, WorkerHolds, mailboxVars, workerVars, producerVars
  <2> QED BY <2>1, <2>2, ProducerStepKeepsSlots, WorkerStepKeepsSlots DEF Next, vars
<1> QED BY <1>1, <1>2, TypeCorrect, PTL DEF Spec

\* A delivery that can be reserved carries no completion and is nowhere in use.
THEOREM RecycledClean == Spec => []RecycledIsClean
BY SlotsAreKept, PTL DEF SlotInv

\* A completion is that of the effect the delivery was reserved for.
THEOREM CompletedByOwner == Spec => []CompletedAsBooked
BY SlotsAreKept, PTL DEF SlotInv

\* A delivery is recycled between effects, never shared by two: a late completion, a
\* late cancel or the fence of a saturated mailbox finds only what it owns.
THEOREM DeliveryIsOwned == Spec => []DeliveryHasOneOwner
BY TypeCorrect, RecycledClean, CompletedByOwner, PTL DEF DeliveryHasOneOwner

\* No more deliveries are in the mailbox, waited for or offered than the
\* connection owns.
THEOREM BacklogBounded == Spec => []BacklogIsBounded
<1>1. TypeOK /\ SlotInv => BacklogIsBounded
  <2> SUFFICES ASSUME TypeOK, SlotInv, NEW k \in Conns
               PROVE  Len(required[k]) + Cardinality({held[k], offered[k]} \ {None}) <= Cardinality(Slots)
    BY DEF BacklogIsBounded
  <2>1. Len(required[k]) \in Nat /\ Len(required[k]) <= Cardinality(Slots) - 1
    BY LenProperties DEF TypeOK, MailboxOK, SlotInv, WorkerHolds, clientRequiredQueueCapacity
  <2>2. Cardinality({held[k], offered[k]} \ {None}) \in {0, 1}
    <3>1. \/ {held[k], offered[k]} \ {None} = {}
          \/ {held[k], offered[k]} \ {None} = {held[k]}
          \/ {held[k], offered[k]} \ {None} = {offered[k]}
      BY DEF SlotInv, WorkerHolds
    <3> QED BY <3>1, FS_EmptySet, FS_Singleton
  <2> QED BY <2>1, <2>2, CapacityIsNat
<1> QED BY <1>1, TypeCorrect, SlotsAreKept, PTL

-----------------------------------------------------------------------------
(* Order *)

\* A step of a producer reserves, or it leaves what is promised in place, or it
\* revokes a connection as well.
Reserves(p) ==
    /\ \E k \in Conns, x \in Slots : Book(k, p, x)
    /\ Unbooked(p) /\ ~Unbooked(p)'
    /\ pc'[p] # "withdrawn"
    /\ UNCHANGED revoked

Keeps(p) ==
    /\ UNCHANGED <<required, bookedBy>>
    /\ Unbooked(p)' => Unbooked(p)

KeepsAll(p) == Keeps(p) /\ UNCHANGED <<fence, revoked>>

Revokes(p) ==
    /\ Keeps(p)
    /\ pc'[p] # "withdrawn"
    /\ \E k \in Conns : /\ revoked' = revoked \cup {k}
                       /\ fence' \in {fence, [fence EXCEPT ![k] = TRUE]}

InOrder(p) ==
    /\ UNCHANGED <<held, offered, ran>>
    /\ \A q \in Producers \ {p} : UNCHANGED <<pc[q], slot[q]>>
    /\ pc[p] # "withdrawn"
    /\ Reserves(p) \/ KeepsAll(p) \/ Revokes(p)

\* A daemon turn reserves, or it fences the connection.
LEMMA ReserveInOrder ==
    ASSUME TypeOK, SlotInv, NEW p \in Producers, active # None, ReserveInTurn(p),
           pc[p] = "idle",
           NEW step \in {"looking", "finishing", "applying"}, pc' = [pc EXCEPT ![p] = step],
           UNCHANGED <<held, offered, ran>>
    PROVE  InOrder(p)
<1>1. active \in Conns /\ slot[p] = None /\ pc'[p] = step /\ Unbooked(p)
      /\ \A q \in Producers \ {p} : pc'[q] = pc[q]
  BY DEF TypeOK, ClientOK, ProducersOK, SlotInv, OpenIsOwn, Unbooked
<1>2. CASE HasRoom(active)
  <2>1. PICK x \in Slots : Book(active, p, x) /\ slot' = [slot EXCEPT ![p] = x]
    BY <1>2 DEF ReserveInTurn
  <2>2. slot'[p] # None /\ \A q \in Producers \ {p} : slot'[q] = slot[q]
    BY <2>1, NoneIsNoID DEF TypeOK, ProducersOK
  <2>3. UNCHANGED revoked
    BY <1>2 DEF ReserveInTurn
  <2>4. Reserves(p)
    BY <1>1, <2>1, <2>2, <2>3 DEF Reserves, Unbooked
  <2> QED BY <1>1, <2>2, <2>4 DEF InOrder
<1>3. CASE ~HasRoom(active)
  <2>1. fenceSaturatedDelivery(active) /\ UNCHANGED slot
    BY <1>3 DEF ReserveInTurn
  <2>2. Revokes(p)
    BY <1>1, <2>1 DEF fenceSaturatedDelivery, Revokes, Keeps
  <2> QED BY <1>1, <2>1, <2>2 DEF InOrder
<1> QED BY <1>2, <1>3

\* Every step of a producer is of one of the three forms.
LEMMA ProducerStepInOrder ==
    ASSUME TypeOK, SlotInv, NEW p \in Producers, Reserve(p) \/ Complete(p)
    PROVE  InOrder(p)
<1>1. ASSUME NEW k \in AllKinds, reserveDelivery(p, k) PROVE InOrder(p)
  <2>1. /\ pc[p] = "idle" /\ active # None /\ ReserveInTurn(p)
        /\ UNCHANGED <<held, offered, ran>>
        /\ \E step \in {"looking", "finishing", "applying"} : pc' = [pc EXCEPT ![p] = step]
    BY <1>1 DEF reserveDelivery, NextStep, workerVars, instanceVars
  <2> QED BY <2>1, ReserveInOrder
<1>2. CASE reserveOwn(p)
  <2>1. /\ pc[p] = "idle" /\ active # None /\ ReserveInTurn(p)
        /\ UNCHANGED <<held, offered, ran>>
        /\ \E step \in {"looking", "finishing", "applying"} : pc' = [pc EXCEPT ![p] = step]
    BY <1>2 DEF reserveOwn, NextStep, workerVars
  <2> QED BY <2>1, ReserveInOrder
<1>3. ASSUME NEW step \in {"looking", "finishing", "awaiting", "posting", "draining", "retrying",
                           "withdrawn", "returned"},
             pc' = [pc EXCEPT ![p] = step], pc[p] # "withdrawn",
             Unbooked(p)' => Unbooked(p),
             UNCHANGED <<required, bookedBy, fence, revoked, held, offered, ran, slot>>
      PROVE  InOrder(p)
  BY <1>3 DEF InOrder, KeepsAll, Keeps, TypeOK, ProducersOK
<1>4. CASE reserveWithoutConnection(p)
  BY <1>3, <1>4 DEF reserveWithoutConnection, NextStep, mailboxVars, workerVars, instanceVars, Unbooked
<1>5. CASE snapshotStatus(p)
  BY <1>3, <1>5 DEF snapshotStatus, NextStep, mailboxVars, workerVars, instanceVars, Unbooked
<1>6. CASE findTarget(p)
  <2>1. Unbooked(p)' => Unbooked(p)
    BY <1>6 DEF findTarget, NextStep, Unbooked, TypeOK, ProducersOK
  <2> QED BY <1>3, <1>6, <2>1 DEF findTarget, NextStep, mailboxVars, workerVars, instanceVars
<1>7. ASSUME NEW step \in {"awaiting", "draining", "retrying", "withdrawn", "returned"},
             pc' = [pc EXCEPT ![p] = step]
      PROVE  pc'[p] = step /\ ~Unbooked(p)'
  BY <1>7 DEF Unbooked, TypeOK, ProducersOK
<1>8. CASE missTarget(p)
  BY <1>3, <1>7, <1>8 DEF missTarget, NextStep, workerVars, instanceVars
<1>9. CASE reportRejected(p)
  BY <1>3, <1>7, <1>9 DEF reportRejected, NextStep, mailboxVars, workerVars, instanceVars
<1>10. CASE finishReserved(p)
  <2>1. PICK step \in {"awaiting", "returned"} : pc' = [pc EXCEPT ![p] = step]
    BY <1>10 DEF finishReserved, AfterFinish, NextStep
  <2>2. /\ pc[p] = "finishing" /\ target[p] \in Conns
        /\ UNCHANGED <<required, bookedBy, fence, held, offered, ran, slot>>
        /\ \A q \in Producers \ {p} : pc'[q] = pc[q]
    BY <1>10, <2>1 DEF finishReserved, workerVars, instanceVars, TypeOK, ProducersOK, HasConnection
  <2>3. CASE kind[p] \in Closes
    <3>1. revoked' = revoked \cup {target[p]}
      BY <1>10, <2>3 DEF finishReserved
    <3>2. Revokes(p)
      BY <1>7, <2>1, <2>2, <3>1 DEF Revokes, Keeps
    <3> QED BY <2>2, <3>2 DEF InOrder
  <2>4. CASE kind[p] \notin Closes
    <3>1. UNCHANGED revoked
      BY <1>10, <2>4 DEF finishReserved
    <3> QED BY <1>3, <1>7, <2>1, <2>2, <3>1
  <2> QED BY <2>3, <2>4
<1>11. CASE enqueueRequired(p)
  <2> DEFINE k == waitsOn[p]
  <2>1. k \in Conns /\ slot[p] = None /\ pc[p] = "finishing" /\ Unbooked(p)
        /\ UNCHANGED <<held, offered, ran, slot>>
    BY <1>11 DEF enqueueRequired, TypeOK, ProducersOK, HasConnection, Unbooked, workerVars, instanceVars
  <2>2. CASE HasRoom(k)
    <3>1. PICK x \in Slots : Book(k, p, x)
      BY <1>11, <2>2 DEF enqueueRequired
    <3>2. pc' = [pc EXCEPT ![p] = "awaiting"] /\ UNCHANGED revoked
      BY <1>11, <2>2 DEF enqueueRequired, NextStep
    <3>3. Reserves(p)
      BY <1>7, <2>1, <3>1, <3>2 DEF Reserves
    <3> QED BY <2>1, <3>2, <3>3 DEF InOrder, TypeOK, ProducersOK
  <2>3. CASE ~HasRoom(k)
    <3>1. pc' = [pc EXCEPT ![p] = "returned"] /\ fenceSaturatedDelivery(k)
      BY <1>11, <2>3 DEF enqueueRequired, NextStep
    <3>2. Revokes(p)
      BY <1>7, <2>1, <3>1 DEF Revokes, Keeps, fenceSaturatedDelivery
    <3> QED BY <2>1, <3>1, <3>2 DEF InOrder, TypeOK, ProducersOK
  <2> QED BY <2>2, <2>3
<1>12. CASE receiveResult(p)
  BY <1>3, <1>7, <1>12 DEF receiveResult, NextStep, mailboxVars, workerVars, instanceVars
<1>13. CASE postStatus(p) \/ drainStatus(p) \/ repostStatus(p)
  <2>1. /\ \E step \in {"draining", "retrying", "returned"} : pc' = [pc EXCEPT ![p] = step]
        /\ pc[p] # "withdrawn"
        /\ UNCHANGED <<required, bookedBy, fence, revoked, held, offered, ran, slot>>
    BY <1>13 DEF postStatus, drainStatus, repostStatus, FinishStatus, NextStep,
                 workerVars, instanceVars
  <2> QED BY <1>3, <1>7, <2>1
<1>14. CASE applyOwn(p)
  BY <1>3, <1>7, <1>14 DEF applyOwn, NextStep, workerVars
<1> QED BY <1>1, <1>2, <1>4, <1>5, <1>6, <1>8, <1>9, <1>10, <1>11, <1>12, <1>13, <1>14
        DEF Reserve, Complete

\* A worker step that puts no new effect anywhere.
LEMMA WorkerMoveKeepsOrder ==
    ASSUME OrderInv,
           UNCHANGED <<pc, slot, bookedBy, revoked, ran>>,
           \A j \in Conns : fence'[j] => fence[j],
           \A j \in Conns : IsEffect(j)' => IsEffect(j) /\ offered'[j] = offered[j]
    PROVE  OrderInv'
<1>1. UnbookedIsNew'
  BY DEF OrderInv, UnbookedIsNew, Unbooked
<1>2. FenceIsRevoked'
  BY DEF OrderInv, FenceIsRevoked
<1> QED BY <1>1, <1>2 DEF OrderInv

\* A producer that can still reserve is in no mailbox, and a fenced connection
\* is revoked.
LEMMA OrderIsKept == Spec => []OrderInv
<1>1. Init => OrderInv
  BY NoneIsNoID DEF Init, OrderInv, UnbookedIsNew, IsEffect, FenceIsRevoked
<1>2. ASSUME TypeOK, SlotInv, OrderInv, NEW p \in Producers, InOrder(p)
      PROVE  OrderInv'
  <2>1. CASE Reserves(p)
    <3>1. PICK k \in Conns, x \in Slots : Book(k, p, x)
      BY <2>1 DEF Reserves
    <3>2. /\ bookedBy'[k][x] = p
          /\ \A j \in Conns, y \in Slots : j # k \/ y # x => bookedBy'[j][y] = bookedBy[j][y]
      BY <1>2, <3>1 DEF Book, TypeOK, MailboxOK
    <3>3. FenceIsRevoked'
      BY <1>2, <2>1, <3>1 DEF Book, Reserves, OrderInv, FenceIsRevoked
    <3>4. ASSUME NEW q \in Producers, Unbooked(q)'
          PROVE  q # p /\ Unbooked(q)
      BY <1>2, <2>1, <3>4 DEF InOrder, Reserves, Unbooked
    <3>5. UnbookedIsNew'
      BY <1>2, <3>2, <3>4 DEF InOrder, OrderInv, UnbookedIsNew, IsEffect
    <3> QED BY <3>3, <3>5 DEF OrderInv
  <2>2. CASE KeepsAll(p) \/ Revokes(p)
    <3>1. ASSUME NEW q \in Producers, Unbooked(q)'
          PROVE  Unbooked(q)
      BY <1>2, <2>2, <3>1 DEF InOrder, KeepsAll, Revokes, Keeps, Unbooked
    <3>2. UnbookedIsNew'
      BY <1>2, <2>2, <3>1 DEF InOrder, KeepsAll, Revokes, Keeps, OrderInv, UnbookedIsNew, IsEffect
    <3>3. FenceIsRevoked'
      <4>1. CASE KeepsAll(p)
        BY <1>2, <4>1 DEF KeepsAll, OrderInv, FenceIsRevoked
      <4>2. CASE Revokes(p)
        BY <1>2, <4>2 DEF Revokes, OrderInv, FenceIsRevoked, TypeOK, MailboxOK
      <4> QED BY <2>2, <4>1, <4>2
    <3> QED BY <3>2, <3>3 DEF OrderInv
  <2> QED BY <1>2, <2>1, <2>2 DEF InOrder
<1>3. ASSUME TypeOK, SlotInv, OrderInv, NEW k \in Conns, runDeliveryWorker(k)
      PROVE  OrderInv'
  <2>2. CASE takeFence(k)
    <3>1. /\ offered'[k] = Fence /\ ~fence'[k]
          /\ \A j \in Conns \ {k} : offered'[j] = offered[j] /\ fence'[j] = fence[j]
          /\ UNCHANGED <<pc, slot, bookedBy, revoked, ran>>
      BY <1>3, <2>2 DEF takeFence, Offers, TypeOK, MailboxOK, WorkerOK, producerVars, instanceVars
    <3> QED BY WorkerMoveKeepsOrder, <1>3, <3>1 DEF IsEffect, Fence
  <2>3. CASE takeRequired(k) \/ selectMore(k) \/ workerReturns(k)
    <3>1. UNCHANGED <<pc, slot, bookedBy, revoked, ran, fence, offered>>
      BY <2>3 DEF takeRequired, selectMore, workerReturns, mailboxVars, producerVars, instanceVars
    <3> QED BY <1>3, <3>1, WorkerMoveKeepsOrder DEF IsEffect
  <2>4. CASE takeRefresh(k)
    <3>1. /\ offered'[k] = [type |-> "status", revision |-> refresh[k]]
          /\ \A j \in Conns \ {k} : offered'[j] = offered[j]
          /\ UNCHANGED <<pc, slot, bookedBy, revoked, fence, ran>>
      BY <1>3, <2>4 DEF takeRefresh, Offers, TypeOK, WorkerOK, producerVars, instanceVars
    <3> QED BY WorkerMoveKeepsOrder, <1>3, <3>1 DEF IsEffect
  <2>5. CASE takeCompletion(k)
    <3> DEFINE x == held[k]
               done == completion[k][x]
               p == done.of
    <3>1. /\ x \in Slots /\ done # None /\ p \in Producers /\ done.skip \in BOOLEAN
          /\ pc[p] \in {"withdrawn", "awaiting", "returned"} /\ offered[k] = None
      BY <1>3, <2>5 DEF takeCompletion, TypeOK, WorkerOK, WaitsOrOffers, MailboxOK, SlotInv, WorkerHolds,
         CompletedBy, Completion
    <3>2. /\ \A j \in Conns, y \in Slots : bookedBy'[j][y] \in {bookedBy[j][y], None}
          /\ IsEffect(k)' => offered'[k].of = p
          /\ \A j \in Conns \ {k} : offered'[j] = offered[j]
          /\ UNCHANGED <<pc, revoked, fence, ran>>
      BY <1>3, <2>5, <3>1 DEF takeCompletion, Skips, Offers, TypeOK, MailboxOK, WorkerOK,
         instanceVars, IsEffect
    <3>3. \A q \in Producers : q # p => slot'[q] = slot[q]
      BY <1>3, <2>5, <3>1 DEF takeCompletion, Released, TypeOK, ProducersOK
    <3>4. ASSUME NEW q \in Producers, Unbooked(q)'
          PROVE  Unbooked(q) /\ q # p
      BY <3>1, <3>2, <3>3, <3>4 DEF Unbooked
    <3>5. UnbookedIsNew'
      BY <1>3, <3>2, <3>4, NoneIsNoID DEF OrderInv, UnbookedIsNew, IsEffect
    <3> QED BY <1>3, <3>2, <3>5 DEF OrderInv, FenceIsRevoked
  <2>6. ASSUME HandedOff(k)
        PROVE  /\ offered[k] \in Command /\ offered'[k] = None
               /\ \A j \in Conns \ {k} : offered'[j] = offered[j]
    BY <1>3, <2>6 DEF HandedOff, Offers, TypeOK, WorkerOK, WaitsOrOffers
  <2>7. CASE runEffect(k)
    <3> DEFINE p == offered[k].of
    <3>1. p \in Producers /\ ~Unbooked(p) /\ ran'[k] = Append(ran[k], p) /\ ran[k] \in Seq(Producers)
          /\ \A j \in Conns \ {k} : ran'[j] = ran[j]
      BY <1>3, <2>6, <2>7 DEF runEffect, Command, SlotInv, OfferedBy, IsEffect, Unbooked,
         TypeOK, InstanceOK, WorkerOK, HandedOff, WaitsOrOffers
    <3>2. \A i \in DOMAIN ran'[k] : ran'[k][i] = p \/ (i \in DOMAIN ran[k] /\ ran'[k][i] = ran[k][i])
      BY <3>1, AppendProperties
    <3>3. UNCHANGED <<pc, slot, bookedBy, revoked, fence>>
      BY <2>7 DEF runEffect, producerVars
    <3>4. UnbookedIsNew'
      <4> SUFFICES ASSUME NEW q \in Producers, Unbooked(q)', NEW j \in Conns
                   PROVE  /\ \A y \in Slots : bookedBy'[j][y] # q
                          /\ IsEffect(j)' => offered'[j].of # q
                          /\ \A i \in DOMAIN ran'[j] : ran'[j][i] # q
        BY DEF UnbookedIsNew
      <4>1. Unbooked(q) /\ q # p
        BY <3>1, <3>3 DEF Unbooked
      <4>2. /\ \A y \in Slots : bookedBy[j][y] # q
            /\ IsEffect(j) => offered[j].of # q
            /\ \A i \in DOMAIN ran[j] : ran[j][i] # q
        BY <1>3, <4>1 DEF OrderInv, UnbookedIsNew
      <4>3. CASE j = k
        BY <2>6, <2>7, <3>2, <3>3, <4>1, <4>2, <4>3 DEF runEffect, IsEffect
      <4>4. CASE j # k
        BY <2>6, <2>7, <3>1, <3>3, <4>2, <4>4 DEF runEffect, IsEffect
      <4> QED BY <4>3, <4>4
    <3> QED BY <1>3, <3>3, <3>4 DEF OrderInv, FenceIsRevoked
  <2>8. CASE runStatus(k) \/ runFence(k)
    <3>1. UNCHANGED <<pc, slot, bookedBy, revoked, fence, ran>> /\ HandedOff(k)
      BY <2>8 DEF runStatus, runFence, mailboxVars, producerVars
    <3> QED BY <1>3, <2>6, <3>1, WorkerMoveKeepsOrder DEF IsEffect
  <2> QED BY <1>3, <2>2, <2>3, <2>4, <2>5, <2>7, <2>8 DEF runDeliveryWorker
<1>4. ASSUME OrderInv, UNCHANGED <<mailboxVars, workerVars, ran, producerVars>>
      PROVE  OrderInv'
  BY <1>4 DEF OrderInv, UnbookedIsNew, FenceIsRevoked, Unbooked, IsEffect,
              mailboxVars, workerVars, producerVars
<1>5. TypeOK /\ SlotInv /\ OrderInv /\ [Next]_vars => OrderInv'
  <2> SUFFICES ASSUME TypeOK, SlotInv, OrderInv, [Next]_vars PROVE OrderInv'
    OBVIOUS
  <2>1. ASSUME NEW k \in Conns, attach(k) \/ detach(k) \/ endLifetime(k)
        PROVE  UNCHANGED <<mailboxVars, workerVars, ran, producerVars>>
    BY <2>1 DEF attach, detach, endLifetime
  <2> QED BY <1>2, <1>3, <1>4, <2>1, ProducerStepInOrder DEF Next, vars, instanceVars
<1> QED BY <1>1, <1>5, TypeCorrect, SlotsAreKept, PTL DEF Spec

-----------------------------------------------------------------------------
(* Refinement *)

Owners == Producers \cup {None}

\* The owners of queued deliveries.
LEMMA OwnersOfQueue ==
    ASSUME NEW q \in Seq(Slots), NEW b \in [Slots -> Owners]
    PROVE  /\ [i \in DOMAIN q |-> b[q[i]]] \in Seq(Owners)
           /\ Len([i \in DOMAIN q |-> b[q[i]]]) = Len(q)
           /\ \A i \in 1 .. Len(q) : [j \in DOMAIN q |-> b[q[j]]][i] = b[q[i]]
<1>1. DOMAIN q = 1 .. Len(q) /\ Len(q) \in Nat
  BY LenProperties
<1>2. \A i \in 1 .. Len(q) : b[q[i]] \in Owners
  BY <1>1, ElementOfSeq
<1> QED BY <1>1, <1>2

\* The effect at the head of what a connection owes, if any, has an owner.
LEMMA AtHeadTyped ==
    ASSUME TypeOK, NEW k \in Conns
    PROVE  AtHead(k) = <<>> \/ \E e \in Owners : AtHead(k) = <<e>>
<1>1. CASE IsEffect(k)
  <2>1. offered[k].of \in Owners
    BY <1>1 DEF IsEffect, Command, Owners, TypeOK, WorkerOK
  <2>2. AtHead(k) = <<offered[k].of>>
    BY <1>1 DEF AtHead
  <2> QED BY <2>1, <2>2
<1>2. CASE ~IsEffect(k) /\ held[k] # None
  <2>1. bookedBy[k][held[k]] \in Owners
    BY <1>2 DEF Owners, TypeOK, WorkerOK, MailboxOK
  <2>2. AtHead(k) = <<bookedBy[k][held[k]]>>
    BY <1>2 DEF AtHead
  <2> QED BY <2>1, <2>2
<1>3. CASE ~IsEffect(k) /\ held[k] = None
  BY <1>3 DEF AtHead
<1> QED BY <1>1, <1>2, <1>3

\* The parts of what a connection owes are sequences of owners.
LEMMA PromisedTyped ==
    ASSUME TypeOK, NEW k \in Conns
    PROVE  /\ AtHead(k) \in Seq(Owners)
           /\ Queued(k) \in Seq(Owners)
           /\ Len(Queued(k)) = Len(required[k])
           /\ \A i \in 1 .. Len(required[k]) : Queued(k)[i] = bookedBy[k][required[k][i]]
<1>1. AtHead(k) \in Seq(Owners)
  <2>1. CASE IsEffect(k)
    <3>1. offered[k].of \in Owners
      BY <2>1 DEF IsEffect, Command, Owners, TypeOK, WorkerOK
    <3> QED BY <2>1, <3>1 DEF AtHead
  <2>2. CASE ~IsEffect(k) /\ held[k] # None
    <3>1. bookedBy[k][held[k]] \in Owners
      BY <2>2 DEF Owners, TypeOK, WorkerOK, MailboxOK
    <3> QED BY <2>2, <3>1 DEF AtHead
  <2>3. CASE ~IsEffect(k) /\ held[k] = None
    BY <2>3 DEF AtHead
  <2> QED BY <2>1, <2>2, <2>3
<1> QED BY <1>1, OwnersOfQueue DEF Queued, Owners, TypeOK, MailboxOK

\* Nothing changes in what a connection owes when its queue, what it waits for
\* and what it offers stay and their owners with them.
LEMMA PromisedKept ==
    ASSUME NEW k \in Conns,
           UNCHANGED <<required[k], held[k], offered[k]>>,
           \A i \in DOMAIN required[k] :
               bookedBy'[k][required[k][i]] = bookedBy[k][required[k][i]],
           held[k] # None => bookedBy'[k][held[k]] = bookedBy[k][held[k]]
    PROVE  Promised(k)' = Promised(k)
<1>1. AtHead(k)' = AtHead(k)
  BY DEF AtHead, IsEffect
<1>2. Queued(k)' = Queued(k)
  BY DEF Queued
<1> QED BY <1>1, <1>2 DEF Promised

\* A reservation is the last thing its connection owes.
LEMMA BookPromises ==
    ASSUME TypeOK, TypeOK', SlotInv, NEW p \in Producers, NEW k \in Conns, NEW x \in Slots,
           Book(k, p, x), UNCHANGED <<held, offered>>
    PROVE  /\ Promised(k)' = Append(Promised(k), p)
           /\ \A j \in Conns \ {k} : Promised(j)' = Promised(j)
<1>1. /\ held[k] # x /\ \A i \in DOMAIN required[k] : required[k][i] # x
      /\ required[k] \in Seq(Slots) /\ required'[k] = Append(required[k], x)
      /\ \A j \in Conns \ {k} : required'[j] = required[j] /\ bookedBy'[j] = bookedBy[j]
      /\ bookedBy'[k][x] = p /\ \A y \in Slots \ {x} : bookedBy'[k][y] = bookedBy[k][y]
  BY DEF Book, SlotInv, RecycledIsClean, TypeOK, MailboxOK
<1>2. AtHead(k)' = AtHead(k)
  BY <1>1 DEF AtHead, IsEffect, TypeOK, WorkerOK
<1>3. Queued(k)' = Append(Queued(k), p)
  <2> DEFINE n == Len(required[k])
  <2>1. /\ Len(required'[k]) = n + 1 /\ n \in Nat
        /\ \A i \in 1 .. n : required'[k][i] = required[k][i] /\ required[k][i] \in Slots \ {x}
        /\ required'[k][n + 1] = x
    BY <1>1, AppendProperties, LenProperties, ElementOfSeq
  <2>2. /\ Queued(k)' \in Seq(Owners) /\ Len(Queued(k)') = n + 1
        /\ \A i \in 1 .. n + 1 : Queued(k)'[i] = bookedBy'[k][required'[k][i]]
    BY <2>1, OwnersOfQueue DEF Queued, Owners, TypeOK, MailboxOK
  <2>3. /\ Queued(k) \in Seq(Owners) /\ Len(Queued(k)) = n /\ p \in Owners
        /\ \A i \in 1 .. n : Queued(k)[i] = bookedBy[k][required[k][i]]
    BY PromisedTyped DEF Owners
  <2>4. /\ Append(Queued(k), p) \in Seq(Owners) /\ Len(Append(Queued(k), p)) = n + 1
        /\ \A i \in 1 .. n : Append(Queued(k), p)[i] = Queued(k)[i]
        /\ Append(Queued(k), p)[n + 1] = p
    BY <2>1, <2>3, AppendProperties
  <2>5. ASSUME NEW i \in 1 .. n + 1 PROVE Queued(k)'[i] = Append(Queued(k), p)[i]
    <3>1. CASE i = n + 1
      BY <1>1, <2>1, <2>2, <2>4, <3>1
    <3>2. CASE i # n + 1
      <4>1. i \in 1 .. n
        BY <2>1, <3>2
      <4> QED BY <1>1, <2>1, <2>2, <2>3, <2>4, <4>1
    <3> QED BY <3>1, <3>2
  <2> QED BY <2>2, <2>4, <2>5, SeqEqual
<1>4. Promised(k)' = Append(Promised(k), p)
  <2>1. AtHead(k) \in Seq(Owners) /\ Queued(k) \in Seq(Owners) /\ p \in Owners /\ <<p>> \in Seq(Owners)
    BY PromisedTyped DEF Owners
  <2>2. Promised(k)' = AtHead(k) \o (Queued(k) \o <<p>>)
    BY <1>2, <1>3, <2>1, AppendIsConcat DEF Promised
  <2>3. Promised(k)' = (AtHead(k) \o Queued(k)) \o <<p>>
    BY <2>1, <2>2, ConcatAssociative
  <2>4. Promised(k) \in Seq(Owners)
    BY <2>1, ConcatProperties DEF Promised
  <2> QED BY <2>1, <2>3, <2>4, AppendIsConcat DEF Promised
<1>5. ASSUME NEW j \in Conns \ {k} PROVE Promised(j)' = Promised(j)
  BY <1>1, PromisedKept
<1> QED BY <1>4, <1>5

\* A producer that can still reserve is owed nothing.
LEMMA UnbookedIsNotPromised ==
    ASSUME TypeOK, OrderInv, NEW p \in Producers, Unbooked(p), NEW k \in Conns
    PROVE  /\ \A i \in DOMAIN Promised(k) : Promised(k)[i] # p
           /\ \A i \in DOMAIN ran[k] : ran[k][i] # p
<1> DEFINE a == AtHead(k)
           q == Queued(k)
<1>1. /\ a \in Seq(Owners) /\ q \in Seq(Owners)
      /\ Len(q) = Len(required[k]) /\ Len(required[k]) \in Nat
      /\ \A i \in 1 .. Len(required[k]) : q[i] = bookedBy[k][required[k][i]] /\ required[k][i] \in Slots
  BY PromisedTyped, LenProperties, ElementOfSeq DEF TypeOK, MailboxOK
<1>2. \A i \in 1 .. Len(q) : q[i] # p
  BY <1>1 DEF OrderInv, UnbookedIsNew
<1>3. \A i \in 1 .. Len(a) : a[i] # p
  BY DEF AtHead, OrderInv, UnbookedIsNew, TypeOK, WorkerOK
<1>4. /\ a \o q \in Seq(Owners) /\ Len(a \o q) = Len(a) + Len(q)
      /\ \A i \in 1 .. Len(a) + Len(q) : (a \o q)[i] = IF i <= Len(a) THEN a[i] ELSE q[i - Len(a)]
  <2> HIDE DEF a, q
  <2> QED BY <1>1, ConcatProperties
<1>5. /\ Len(a) \in Nat /\ Len(q) \in Nat
      /\ Promised(k) = a \o q /\ DOMAIN Promised(k) = 1 .. Len(a) + Len(q)
  BY <1>1, <1>4, LenProperties DEF Promised
<1> HIDE DEF a, q
<1>6. ASSUME NEW i \in DOMAIN Promised(k) PROVE Promised(k)[i] # p
  <2>1. CASE i <= Len(a)
    BY <1>3, <1>4, <1>5, <2>1
  <2>2. CASE ~(i <= Len(a))
    <3>1. i - Len(a) \in 1 .. Len(q)
      BY <1>4, <1>5, <2>2
    <3> QED BY <1>2, <1>4, <1>5, <2>2, <3>1
  <2> QED BY <2>1, <2>2
<1> QED BY <1>6 DEF OrderInv, UnbookedIsNew

\* An effect at the head of what is promised: offered, or the owner of the
\* delivery that is waited for.
LEMMA PromisedAtHead ==
    ASSUME TypeOK, NEW k \in Conns, NEW e \in Owners, AtHead(k) = <<e>>
    PROVE  Promised(k) # <<>> /\ Head(Promised(k)) = e /\ Tail(Promised(k)) = Queued(k)
BY PromisedTyped DEF Promised

\* With nothing at the head, what is promised is what is queued.
LEMMA PromisedInQueue ==
    ASSUME TypeOK, NEW k \in Conns, AtHead(k) = <<>>
    PROVE  Promised(k) = Queued(k)
BY PromisedTyped, ConcatEmptySeq DEF Promised

\* Taking a delivery from the queue moves its effect to the head.
LEMMA TakeRequiredKeepsPromises ==
    ASSUME TypeOK, TypeOK', SlotInv, NEW k \in Conns, takeRequired(k)
    PROVE  Promised(k)' = Promised(k)
<1> DEFINE q == required[k]
           b == bookedBy[k]
<1>1. /\ q \in Seq(Slots) /\ q # <<>> /\ b \in [Slots -> Owners]
      /\ held'[k] = Head(q) /\ required'[k] = Tail(q)
      /\ held[k] = None /\ offered[k] = None
      /\ UNCHANGED <<bookedBy, offered>>
  BY DEF takeRequired, Selecting, TypeOK, MailboxOK, WorkerOK, Owners, SlotInv, WorkerHolds
<1>2. /\ Head(q) \in Slots /\ Tail(q) \in Seq(Slots) /\ Len(Tail(q)) = Len(q) - 1
      /\ Len(q) \in Nat /\ Len(q) # 0 /\ Head(q) = q[1]
      /\ \A i \in 1 .. Len(q) - 1 : Tail(q)[i] = q[i + 1]
  BY <1>1, HeadTailProperties, LenProperties, EmptySeq
<1> DEFINE s == [i \in DOMAIN q |-> b[q[i]]]
           t == [i \in DOMAIN Tail(q) |-> b[Tail(q)[i]]]
           h == <<b[Head(q)]>>
<1>3. /\ s \in Seq(Owners) /\ Len(s) = Len(q) /\ \A i \in 1 .. Len(q) : s[i] = b[q[i]]
  BY <1>1, OwnersOfQueue
<1>4. /\ t \in Seq(Owners) /\ Len(t) = Len(q) - 1
      /\ \A i \in 1 .. Len(q) - 1 : t[i] = b[Tail(q)[i]]
  BY <1>1, <1>2, OwnersOfQueue
<1>5. h \in Seq(Owners) /\ Len(h) = 1 /\ h[1] = b[Head(q)]
  BY <1>1, <1>2
<1>6. AtHead(k) = <<>> /\ Queued(k) = s
  BY <1>1 DEF AtHead, IsEffect, Queued
<1>7. AtHead(k)' = h /\ Queued(k)' = t
  BY <1>1, <1>2, NoneIsNoID DEF AtHead, IsEffect, Queued
<1> HIDE DEF s, t, h
<1>8. /\ h \o t \in Seq(Owners) /\ Len(h \o t) = Len(q)
      /\ \A i \in 1 .. Len(q) : (h \o t)[i] = IF i <= 1 THEN h[i] ELSE t[i - 1]
  <2>1. Len(h) + Len(t) = Len(q)
    BY <1>2, <1>4, <1>5
  <2>2. /\ h \o t \in Seq(Owners) /\ Len(h \o t) = Len(h) + Len(t)
        /\ \A i \in 1 .. Len(h) + Len(t) : (h \o t)[i] = IF i <= Len(h) THEN h[i] ELSE t[i - Len(h)]
    BY <1>4, <1>5, ConcatProperties
  <2> QED BY <1>5, <2>1, <2>2
<1>9. ASSUME NEW i \in 1 .. Len(q) PROVE s[i] = (h \o t)[i]
  <2>1. CASE i = 1
    BY <1>2, <1>3, <1>5, <1>8, <2>1
  <2>2. CASE i # 1
    <3>1. i - 1 \in 1 .. Len(q) - 1 /\ (i - 1) + 1 = i
      BY <1>2, <2>2
    <3>2. t[i - 1] = b[q[i]]
      BY <1>2, <1>4, <3>1
    <3> QED BY <1>2, <1>3, <1>8, <2>2, <3>2
  <2> QED BY <2>1, <2>2
<1>10. s = h \o t
  BY <1>2, <1>3, <1>8, <1>9, SeqEqual
<1> QED BY <1>3, <1>6, <1>7, <1>10, ConcatEmptySeq DEF Promised

\* A step of a producer is a promise, a withdrawal, a revocation or a stutter.
LEMMA ProducerStepRefines ==
    ASSUME TypeOK, TypeOK', SlotInv, OrderInv, NEW p \in Producers, InOrder(p)
    PROVE  [Ordered!Next]_(Ordered!vars)
<1>1. UNCHANGED <<held, offered, ran>> /\ pc[p] # "withdrawn"
      /\ \A q \in Producers \ {p} : pc'[q] = pc[q]
  BY DEF InOrder
<1>2. CASE Reserves(p)
  <2>1. PICK k \in Conns, x \in Slots : Book(k, p, x)
    BY <1>2 DEF Reserves
  <2>2. Withdrawn' = Withdrawn /\ p \notin Withdrawn /\ UNCHANGED revoked
    BY <1>1, <1>2 DEF Reserves, Withdrawn
  <2>3. [j \in Conns |-> Promised(j)]' = [[j \in Conns |-> Promised(j)] EXCEPT ![k] = Append(@, p)]
    BY <1>1, <2>1, BookPromises
  <2>4. Ordered!IsNew(p)
    BY <1>2, UnbookedIsNotPromised DEF Ordered!IsNew, Reserves
  <2>5. Ordered!Promise(k, p)
    BY <1>1, <2>2, <2>3, <2>4 DEF Ordered!Promise
  <2> QED BY <2>5 DEF Ordered!Next
<1>3. ASSUME Keeps(p)
      PROVE  UNCHANGED [j \in Conns |-> Promised(j)]
  BY <1>1, <1>3, PromisedKept DEF Keeps
<1>4. CASE KeepsAll(p)
  <2>1. UNCHANGED <<[j \in Conns |-> Promised(j)], ran, revoked>>
    BY <1>1, <1>3, <1>4 DEF KeepsAll
  <2>2. CASE pc'[p] = "withdrawn"
    <3>1. Withdrawn' = Withdrawn \cup {p}
      BY <1>1, <2>2 DEF Withdrawn
    <3> QED BY <2>1, <3>1 DEF Ordered!Next, Ordered!Withdraw
  <2>3. CASE pc'[p] # "withdrawn"
    <3>1. Withdrawn' = Withdrawn
      BY <1>1, <2>3 DEF Withdrawn
    <3> QED BY <2>1, <3>1 DEF Ordered!vars
  <2> QED BY <2>2, <2>3
<1>5. CASE Revokes(p)
  <2>1. UNCHANGED <<[j \in Conns |-> Promised(j)], ran>>
    BY <1>1, <1>3, <1>5 DEF Revokes
  <2>2. Withdrawn' = Withdrawn /\ \E k \in Conns : revoked' = revoked \cup {k}
    BY <1>1, <1>5 DEF Revokes, Withdrawn
  <2> QED BY <2>1, <2>2 DEF Ordered!Next, Ordered!Revoke
<1> QED BY <1>2, <1>4, <1>5 DEF InOrder

\* A step of the worker, or of the instance it hands to, runs or skips the head
\* of what is promised, or it is a stutter.
LEMMA WorkerStepRefines ==
    ASSUME TypeOK, TypeOK', SlotInv, OrderInv, NEW k \in Conns, runDeliveryWorker(k)
    PROVE  [Ordered!Next]_(Ordered!vars)
<1> DEFINE promised == [j \in Conns |-> Promised(j)]
<1>1. Withdrawn' = Withdrawn /\ UNCHANGED revoked
  BY DEF runDeliveryWorker, takeFence, takeRequired, takeRefresh, selectMore, takeCompletion,
     workerReturns, runEffect, runStatus, runFence, mailboxVars, producerVars, Withdrawn
<1>2. ASSUME promised' = promised, UNCHANGED ran
      PROVE  [Ordered!Next]_(Ordered!vars)
  BY <1>1, <1>2 DEF Ordered!vars
<1>3. ASSUME Promised(k) # <<>>, Promised(k)' = Tail(Promised(k)),
             \A j \in Conns \ {k} : Promised(j)' = Promised(j)
      PROVE  promised[k] # <<>> /\ promised' = [promised EXCEPT ![k] = Tail(@)]
  BY <1>3
<1>4. ASSUME Promised(k) # <<>>, Promised(k)' = Tail(Promised(k)),
             \A j \in Conns \ {k} : Promised(j)' = Promised(j),
             Head(Promised(k)) \in Withdrawn \/ k \in revoked, UNCHANGED ran
      PROVE  Ordered!Next
  BY <1>1, <1>3, <1>4 DEF Ordered!Next, Ordered!Skip
<1>5. CASE takeFence(k)
  <2>1. /\ offered'[k] = Fence /\ held'[k] = None /\ k \in revoked
        /\ \A j \in Conns \ {k} : UNCHANGED <<offered[j], held[j]>>
        /\ UNCHANGED <<required, bookedBy, ran>>
    BY <1>5 DEF takeFence, Offers, TypeOK, WorkerOK, instanceVars, OrderInv, FenceIsRevoked
  <2>2. \A j \in Conns \ {k} : Promised(j)' = Promised(j)
    BY <2>1, PromisedKept
  <2>3. AtHead(k)' = <<>> /\ Queued(k)' = Queued(k)
    BY <2>1 DEF AtHead, IsEffect, Fence, Queued
  <2>4. Promised(k)' = Queued(k)
    BY <2>3, PromisedTyped, ConcatEmptySeq DEF Promised
  <2>5. CASE AtHead(k) = <<>>
    BY <1>2, <2>1, <2>2, <2>4, <2>5, PromisedInQueue
  <2>6. ASSUME NEW e \in Owners, AtHead(k) = <<e>> PROVE Ordered!Next
    BY <1>4, <2>1, <2>2, <2>4, <2>6, PromisedAtHead
  <2>7. AtHead(k) = <<>> \/ \E e \in Owners : AtHead(k) = <<e>>
    BY AtHeadTyped
  <2> QED BY <2>5, <2>6, <2>7
<1>6. CASE takeRequired(k)
  <2>1. /\ \A j \in Conns \ {k} : UNCHANGED <<required[j], offered[j], held[j]>>
        /\ UNCHANGED <<bookedBy, ran>>
    BY <1>6 DEF takeRequired, instanceVars, TypeOK, MailboxOK, WorkerOK
  <2>2. \A j \in Conns \ {k} : Promised(j)' = Promised(j)
    BY <2>1, PromisedKept
  <2> QED BY <1>2, <1>6, <2>1, <2>2, TakeRequiredKeepsPromises
<1>7. CASE takeRefresh(k)
  <2>1. /\ offered'[k] = [type |-> "status", revision |-> refresh[k]] /\ offered[k] = None
        /\ \A j \in Conns \ {k} : offered'[j] = offered[j]
        /\ UNCHANGED <<required, bookedBy, held, ran>>
    BY <1>7 DEF takeRefresh, Selecting, Offers, instanceVars, TypeOK, WorkerOK, SlotInv, WorkerHolds
  <2>2. \A j \in Conns : AtHead(j)' = AtHead(j) /\ Queued(j)' = Queued(j)
    BY <2>1 DEF AtHead, IsEffect, Queued
  <2> QED BY <1>2, <2>1, <2>2 DEF Promised
<1>8. CASE selectMore(k) \/ workerReturns(k)
  <2>1. UNCHANGED <<required, bookedBy, held, offered, ran>>
    BY <1>8 DEF selectMore, workerReturns, mailboxVars, instanceVars
  <2> QED BY <1>2, <2>1 DEF Promised, AtHead, IsEffect, Queued
<1>9. CASE takeCompletion(k)
  <2> DEFINE x == held[k]
             done == completion[k][x]
             p == done.of
  <2>1. /\ worker[k] = "wait" /\ x \in Slots /\ x # None /\ offered[k] = None
        /\ done # None /\ done \in Completion /\ p \in Producers /\ done.skip \in BOOLEAN
        /\ bookedBy[k][x] = p
        /\ \A i \in DOMAIN required[k] : required[k][i] # x /\ required[k][i] \in Slots
        /\ done.skip => pc[p] = "withdrawn"
    BY <1>9, NoneIsNoID, ElementOfSeq DEF takeCompletion, TypeOK, WorkerOK, WaitsOrOffers, MailboxOK,
       SlotInv, WorkerHolds, QueuedOnce, CompletedBy, CompletedAsBooked, Completion
  <2>2. /\ \A y \in Slots \ {x} : bookedBy'[k][y] = bookedBy[k][y]
        /\ held'[k] = None
        /\ \A j \in Conns \ {k} : UNCHANGED <<bookedBy[j], held[j], offered[j]>>
        /\ UNCHANGED <<required, ran>>
    BY <1>9, <2>1 DEF takeCompletion, Offers, instanceVars, TypeOK, MailboxOK, WorkerOK
  <2>3. \A j \in Conns \ {k} : Promised(j)' = Promised(j)
    BY <2>2, PromisedKept
  <2>4. AtHead(k) = <<p>> /\ Queued(k)' = Queued(k)
    BY <2>1, <2>2 DEF AtHead, IsEffect, Queued
  <2>5. CASE done.skip
    <3>1. AtHead(k)' = <<>>
      BY <1>9, <2>1, <2>2, <2>5 DEF takeCompletion, Skips, AtHead, IsEffect
    <3>2. Promised(k)' = Queued(k)
      BY <2>4, <3>1, PromisedTyped, ConcatEmptySeq DEF Promised
    <3>3. p \in Withdrawn /\ p \in Owners
      BY <2>1, <2>5 DEF Withdrawn, Owners
    <3> QED BY <1>4, <2>2, <2>3, <2>4, <3>2, <3>3, PromisedAtHead
  <2>6. CASE ~done.skip
    <3>1. offered'[k] = [type |-> "effect", of |-> p]
      BY <1>9, <2>1, <2>6 DEF takeCompletion, Skips, Offers, TypeOK, WorkerOK
    <3>2. offered'[k] # None
      BY <2>1, <3>1, NoneIsNoCommand DEF Command
    <3>3. AtHead(k)' = <<p>>
      BY <3>1, <3>2 DEF AtHead, IsEffect
    <3> QED BY <1>2, <2>2, <2>3, <2>4, <3>3 DEF Promised
  <2> QED BY <2>1, <2>5, <2>6
<1>10. ASSUME HandedOff(k), UNCHANGED <<held, required, bookedBy>>
       PROVE  /\ \A j \in Conns \ {k} : Promised(j)' = Promised(j)
              /\ held[k] = None /\ offered[k] # None
              /\ Promised(k)' = Queued(k)
  <2>1. /\ offered'[k] = None /\ held[k] = None /\ offered[k] # None
        /\ \A j \in Conns \ {k} : offered'[j] = offered[j]
    BY <1>10 DEF HandedOff, Offers, TypeOK, WorkerOK, WaitsOrOffers, SlotInv, WorkerHolds
  <2>2. AtHead(k)' = <<>> /\ Queued(k)' = Queued(k)
    BY <1>10, <2>1 DEF AtHead, IsEffect, Queued
  <2>3. \A j \in Conns \ {k} : Promised(j)' = Promised(j)
    BY <1>10, <2>1, PromisedKept
  <2>4. Promised(k)' = Queued(k)
    BY <2>2, PromisedTyped, ConcatEmptySeq DEF Promised
  <2> QED BY <2>1, <2>3, <2>4
<1>11. CASE runEffect(k)
  <2> DEFINE p == offered[k].of
  <2>1. HandedOff(k) /\ UNCHANGED <<held, required, bookedBy>>
        /\ offered[k].type = "effect" /\ ran' = [ran EXCEPT ![k] = Append(@, p)]
    BY <1>11 DEF runEffect
  <2>2. AtHead(k) = <<p>> /\ p \in Owners /\ p \notin Withdrawn
    BY <1>10, <2>1 DEF AtHead, IsEffect, Command, Owners, TypeOK, WorkerOK, SlotInv, OfferedBy, Withdrawn
  <2>3. Promised(k) # <<>> /\ Head(Promised(k)) = p /\ Promised(k)' = Tail(Promised(k))
    BY <1>10, <2>1, <2>2, PromisedAtHead
  <2>4. promised[k] # <<>> /\ promised' = [promised EXCEPT ![k] = Tail(@)] /\ Head(promised[k]) = p
    BY <1>3, <1>10, <2>1, <2>3
  <2>5. Ordered!Run(k)
    BY <1>1, <2>1, <2>2, <2>4 DEF Ordered!Run
  <2> QED BY <2>5 DEF Ordered!Next
<1>12. CASE runStatus(k) \/ runFence(k)
  <2>1. HandedOff(k) /\ UNCHANGED <<held, required, bookedBy, ran>> /\ ~IsEffect(k)
    BY <1>12 DEF runStatus, runFence, mailboxVars, IsEffect
  <2>2. AtHead(k) = <<>>
    BY <1>10, <2>1 DEF AtHead
  <2>3. Promised(k)' = Promised(k)
    BY <1>10, <2>1, <2>2, PromisedInQueue
  <2> QED BY <1>2, <1>10, <2>1, <2>3
<1> QED BY <1>5, <1>6, <1>7, <1>8, <1>9, <1>11, <1>12 DEF runDeliveryWorker

\* The mailbox, its worker and its producers implement ordered delivery: effects
\* run in the order of the daemon turns that promised them, each at most once,
\* and only a withdrawn effect or a revoked connection loses one.
THEOREM RefinesOrderedDelivery == Spec => DeliversInOrder
<1>1. Init => Ordered!Init
  <2> SUFFICES ASSUME Init PROVE Ordered!Init
    OBVIOUS
  <2>1. ASSUME NEW k \in Conns PROVE Promised(k) = <<>>
    <3>1. AtHead(k) = <<>> /\ Queued(k) = <<>>
      BY DEF Init, AtHead, IsEffect, Queued
    <3> QED BY <3>1 DEF Promised
  <2>2. Withdrawn = {}
    BY DEF Init, Withdrawn
  <2> QED BY <2>1, <2>2 DEF Init, Ordered!Init
<1>2. TypeOK /\ TypeOK' /\ SlotInv /\ OrderInv /\ [Next]_vars => [Ordered!Next]_(Ordered!vars)
  <2> SUFFICES ASSUME TypeOK, TypeOK', SlotInv, OrderInv, [Next]_vars
               PROVE  [Ordered!Next]_(Ordered!vars)
    OBVIOUS
  <2>1. ASSUME NEW k \in Conns, attach(k) \/ detach(k) \/ endLifetime(k)
        PROVE  UNCHANGED <<mailboxVars, workerVars, ran, producerVars>>
    BY <2>1 DEF attach, detach, endLifetime
  <2>2. ASSUME UNCHANGED <<mailboxVars, workerVars, ran, producerVars>>
        PROVE  [Ordered!Next]_(Ordered!vars)
    BY <2>2 DEF Ordered!vars, Promised, AtHead, IsEffect, Queued, Withdrawn,
                mailboxVars, workerVars, producerVars
  <2> QED BY <2>1, <2>2, ProducerStepInOrder, ProducerStepRefines, WorkerStepRefines
          DEF Next, vars, instanceVars
<1> QED BY <1>1, <1>2, TypeCorrect, SlotsAreKept, OrderIsKept, PTL
        DEF Spec, DeliversInOrder, Ordered!Spec
=============================================================================
