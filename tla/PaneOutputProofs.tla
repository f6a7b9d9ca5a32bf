--------------------------- MODULE PaneOutputProofs ---------------------------
(***************************************************************************)
(* Theorems about PaneOutput, for any panes, connections, views, rows and     *)
(* budgets: every variable keeps its type, each of a pane's buffers is         *)
(* accounted for, a confirmer never meets a publication it cannot compile, a  *)
(* picture follows its pane; and, for the clients of one session, a visible   *)
(* pane has the lease of its slot and a lease has one owner.                  *)
(***************************************************************************)
EXTENDS PaneOutput, FiniteSetTheorems, SequenceTheorems, TLAPS

USE NoneIsNoID, FinitelyMany

-----------------------------------------------------------------------------
(* The inductive invariant *)

Projections == [conn : Conns, panes : Views]
Revisions == 0 .. Len(issued)

InstancesOK ==
    /\ issued \in Seq(Projections) /\ budget \in [Happenings -> Nat]
    /\ instance \in [Conns -> {"admitted", "serving", "binding", "detaching", "done"}]
    /\ due \in [Conns -> SUBSET (1 .. Len(issued))]
    /\ current \in [Conns -> Revisions] /\ applying \in [Conns -> Revisions]
    /\ todo \in [Conns -> SUBSET Slots] /\ still \in [Conns -> SUBSET Slots]
    /\ DOMAIN returned = Conns /\ \A c \in Conns : returned[c] \in Seq(Slots)
    /\ closed \in [Conns -> BOOLEAN]
    /\ stage \in [Panes -> {"running", "stopping", "exited"}]
    /\ \A c \in Conns : instance[c] = "binding" => applying[c] # 0

CommandsOK == DOMAIN commands = Panes /\ \A p \in Panes : commands[p] \in Seq(Command)

\* The releases that are owed are the ones in the channels of panes, one in each at most.
IsReleaseOf(command, c) == command.type = "release" /\ command.conn = c
Asked(c) == {p \in Panes : \E i \in DOMAIN commands[p] : IsReleaseOf(commands[p][i], c)}

ReleasesOK ==
    /\ owed \in [Conns -> Nat]
    /\ \A c \in Conns : owed[c] = Cardinality(Asked(c)) /\ (instance[c] # "binding" => owed[c] = 0)
    /\ \A p \in Panes : \A i, j \in DOMAIN commands[p] :
          commands[p][i].type = "release" /\ commands[p][j].type = "release"
            /\ commands[p][i].conn = commands[p][j].conn => i = j

TerminalsOK ==
    /\ size \in [Panes -> Slots] /\ text \in [Panes -> [Rows -> {0, 1}]]
    /\ history \in [Panes -> BOOLEAN] /\ draining \in [Panes -> {"no", "reading", "read"}]

\* A publication of all rows or of some, for a revision there is.
IsPublication(pub) ==
    /\ pub \in Publications /\ pub.revision \in Revisions
    /\ pub.barrier => pub.keyframe
    /\ pub.keyframe => DOMAIN pub.rows = Rows

PublicationsOK ==
    /\ lease \in [Panes -> Leases \cup {None}] /\ revision \in [Panes -> Revisions]
    /\ epoch \in [Panes -> Nat] /\ version \in [Panes -> Nat]
    /\ DOMAIN snapshot = Panes /\ \A p \in Panes : snapshot[p] = None \/ snapshot[p] \in Grid
    /\ damage \in [Panes -> [keyframe : BOOLEAN, barrier : BOOLEAN, rows : SUBSET Rows]]
    /\ DOMAIN pending = Panes
    /\ \A p \in Panes : pending[p] # None =>
          /\ IsPublication(pending[p]) /\ pending[p].pane = p
          /\ snapshot[p] = None => pending[p].keyframe

WorkersOK ==
    /\ worker \in [Leases -> {"unstarted", "idle", "writing", "drained", "exited"}]
    /\ DOMAIN ready = Leases
    /\ \A l \in Leases : ready[l] # <<>> => ready[l] = <<ready[l][1]>> /\ IsPublication(ready[l][1])
    /\ failed \in [Leases -> BOOLEAN] /\ broken \in [Leases -> BOOLEAN]
    /\ base \in [Leases -> [epoch : Nat, version : Nat]]
    /\ DOMAIN record = Leases /\ \A l \in Leases : worker[l] = "writing" => IsPublication(record[l])
    /\ screen \in [Leases -> [revision : Revisions, size : 0 .. Cardinality(Panes), rows : Grid]]
    /\ intruded \subseteq Leases

\* Where the buffers of a pane are: an ended pane has lost its pending one.
Prepared(p) == IF pending[p] = None THEN 0 ELSE 1
Buffers(p) == free[p] + Prepared(p) + Queued(p)

BuffersOK ==
    /\ free \in [Panes -> Nat]
    /\ \A p \in Panes : /\ Buffers(p) <= publicationBufferCount
                        /\ stage[p] # "exited" => Buffers(p) = publicationBufferCount

IInv ==
    /\ InstancesOK /\ CommandsOK /\ ReleasesOK /\ TerminalsOK /\ PublicationsOK /\ WorkersOK
    /\ BuffersOK

-----------------------------------------------------------------------------
(* Views and revisions *)

\* A view has a slot for each of its panes.
LEMMA ViewsArePlanes ==
    ASSUME NEW v \in Views
    PROVE  v \in Seq(Panes) /\ Len(v) \in Slots /\ DOMAIN v = 1 .. Len(v) /\ DOMAIN v \subseteq Slots
<1>1. v \in Seq(Panes) /\ Len(v) \in Slots
  BY ViewsAssumption
<1>2. Cardinality(Panes) \in Nat
  BY FS_CardinalityType
<1> QED
  BY <1>1, <1>2 DEF Slots

\* The slots of a revision.
LEMMA RevisionHasSlots ==
    ASSUME InstancesOK, NEW r \in Revisions
    PROVE  /\ SlotsOf(r) \subseteq Slots
           /\ r # 0 => /\ r \in 1 .. Len(issued) /\ issued[r].panes \in Views /\ issued[r].conn \in Conns
                       /\ ViewAt(r) = issued[r].panes /\ Len(ViewAt(r)) \in Slots
<1>1. Len(issued) \in Nat /\ \A q \in 1 .. Len(issued) : issued[q] \in Projections
  BY DEF InstancesOK
<1>2. CASE r = 0
  BY <1>2 DEF SlotsOf, ViewAt
<1>3. CASE r # 0
  <2>1. r \in 1 .. Len(issued)
    BY <1>1, <1>3 DEF Revisions
  <2>2. issued[r].panes \in Views /\ issued[r].conn \in Conns
    BY <1>1, <2>1 DEF Projections
  <2> QED
    BY <1>3, <2>1, <2>2, ViewsArePlanes DEF SlotsOf, ViewAt
<1> QED
  BY <1>2, <1>3

\* A projection gives one more revision.
LEMMA ProjectionGrows ==
    ASSUME InstancesOK, NEW c \in Conns, NEW view \in Views, Project(c, view)
    PROVE  /\ issued' \in Seq(Projections) /\ Len(issued') = Len(issued) + 1 /\ Len(issued) \in Nat
           /\ \A r \in 1 .. Len(issued) : issued'[r] = issued[r]
           /\ issued'[Len(issued')] = [conn |-> c, panes |-> view]
BY DEF InstancesOK, Project, Projections

\* There are the revisions there were.
LEMMA RevisionsStay ==
    ASSUME Len(issued) \in Nat, Len(issued') \in Nat, Len(issued) <= Len(issued')
    PROVE  /\ Revisions \subseteq Revisions' /\ 1 .. Len(issued) \subseteq 1 .. Len(issued')
           /\ Command \subseteq Command' /\ \A pub : IsPublication(pub) => IsPublication(pub)'
<1>1. Revisions \subseteq Revisions' /\ 1 .. Len(issued) \subseteq 1 .. Len(issued')
  BY DEF Revisions
<1>2. Command \subseteq Command'
  BY <1>1 DEF Command
<1>3. \A pub : IsPublication(pub) => IsPublication(pub)'
  BY <1>1 DEF IsPublication
<1> QED
  BY <1>1, <1>2, <1>3

-----------------------------------------------------------------------------
(* What a step leaves alone *)

LEMMA CommandsStay ==
    ASSUME CommandsOK, UNCHANGED <<commands, issued>>
    PROVE  CommandsOK'
BY DEF CommandsOK, Command

LEMMA ReleasesStay ==
    ASSUME ReleasesOK, UNCHANGED <<commands, owed>>,
           \A c \in Conns : instance'[c] # "binding" => instance[c] # "binding" \/ owed[c] = 0
    PROVE  ReleasesOK'
<1>1. \A c \in Conns : Asked(c)' = Asked(c)
  BY DEF Asked
<1> QED
  BY <1>1 DEF ReleasesOK

LEMMA TerminalsStay ==
    ASSUME TerminalsOK, UNCHANGED terminalVars
    PROVE  TerminalsOK'
BY DEF TerminalsOK, terminalVars

LEMMA PublicationsStay ==
    ASSUME PublicationsOK, UNCHANGED <<lease, revision, epoch, version, snapshot, damage, pending, issued>>
    PROVE  PublicationsOK'
BY DEF PublicationsOK, IsPublication, Revisions

LEMMA WorkersStay ==
    ASSUME WorkersOK, UNCHANGED <<workerVars, screen, intruded, issued>>
    PROVE  WorkersOK'
BY DEF WorkersOK, IsPublication, Revisions, workerVars

LEMMA BuffersStay ==
    ASSUME BuffersOK, UNCHANGED <<free, pending, ready>>,
           \A p \in Panes : stage'[p] # "exited" => stage[p] # "exited"
    PROVE  BuffersOK'
<1>1. \A p \in Panes : Buffers(p)' = Buffers(p)
  BY DEF Buffers, Prepared, Queued
<1> QED
  BY <1>1 DEF BuffersOK

\* More revisions leave what the panes and the workers have as it was.
LEMMA MoreRevisions ==
    ASSUME IInv, Len(issued) \in Nat, Len(issued') \in Nat, Len(issued) <= Len(issued'),
           UNCHANGED <<commands, terminalVars, publicationVars, workerVars, screen, intruded, stage>>
    PROVE  CommandsOK' /\ TerminalsOK' /\ PublicationsOK' /\ WorkersOK' /\ BuffersOK'
<1> USE DEF terminalVars, publicationVars, workerVars
<1>1. /\ Revisions \subseteq Revisions' /\ Command \subseteq Command'
      /\ \A pub : IsPublication(pub) => IsPublication(pub)'
  BY RevisionsStay
<1>2. CommandsOK'
  BY <1>1 DEF IInv, CommandsOK
<1>3. TerminalsOK'
  BY DEF IInv, TerminalsOK
<1>4. PublicationsOK'
  BY <1>1 DEF IInv, PublicationsOK
<1>5. WorkersOK'
  <2>1. screen \in [Leases -> [revision : Revisions', size : 0 .. Cardinality(Panes), rows : Grid]]
    BY <1>1 DEF IInv, WorkersOK
  <2> QED
    BY <1>1, <2>1 DEF IInv, WorkersOK
<1>6. BuffersOK'
  BY BuffersStay DEF IInv
<1> QED
  BY <1>2, <1>3, <1>4, <1>5, <1>6

\* Something from outside happens.
LEMMA SpendKeepsBudget ==
    ASSUME budget \in [Happenings -> Nat], NEW what \in Happenings, Spend(what)
    PROVE  budget' \in [Happenings -> Nat]
BY DEF Spend

-----------------------------------------------------------------------------
(* The daemon *)

LEMMA ProjectionsKeep ==
    ASSUME IInv, NEW c \in Conns, NEW view \in Views,
           initializeClient(c, view) \/ prepareViewTransition(c, view)
    PROVE  IInv'
<1> USE DEF instanceVars, handoffVars
<1>1. Project(c, view) /\ UNCHANGED <<commands, terminalVars, publicationVars, workerVars, screen, intruded,
         stage, current, applying, todo, still, owed, returned, closed>>
  BY DEF initializeClient, prepareViewTransition
<1>2. /\ issued' \in Seq(Projections) /\ Len(issued') = Len(issued) + 1 /\ Len(issued) \in Nat
      /\ InstancesOK
  BY <1>1, ProjectionGrows DEF IInv
<1>3. CommandsOK' /\ TerminalsOK' /\ PublicationsOK' /\ WorkersOK' /\ BuffersOK'
  BY <1>1, <1>2, MoreRevisions
<1>4. Revisions \subseteq Revisions' /\ 1 .. Len(issued) \subseteq 1 .. Len(issued')
  BY <1>2, RevisionsStay
<1>5. instance' = instance \/ (instance[c] = "admitted" /\ instance' = [instance EXCEPT ![c] = "serving"])
  BY DEF initializeClient, prepareViewTransition
<1>6. budget' \in [Happenings -> Nat]
  BY <1>2, SpendKeepsBudget DEF initializeClient, prepareViewTransition, Happenings, InstancesOK
<1>7. due' \in [Conns -> SUBSET (1 .. Len(issued'))]
  <2>1. due' = [due EXCEPT ![c] = @ \cup {Len(issued) + 1}] /\ Len(issued) + 1 \in 1 .. Len(issued')
    BY <1>1, <1>2 DEF Project
  <2>2. due \in [Conns -> SUBSET (1 .. Len(issued'))]
    BY <1>2, <1>4 DEF InstancesOK
  <2> QED
    BY <2>1, <2>2
<1>8. InstancesOK'
  BY <1>1, <1>2, <1>4, <1>5, <1>6, <1>7 DEF InstancesOK
<1>9. ReleasesOK'
  BY <1>1, <1>2, <1>5, ReleasesStay DEF IInv, InstancesOK
<1> QED
  BY <1>3, <1>8, <1>9 DEF IInv

LEMMA StopsKeep ==
    ASSUME IInv, NEW p \in Panes, stopPane(p)
    PROVE  IInv'
<1> USE DEF instanceVars, handoffVars, terminalVars, publicationVars, workerVars
<1>1. budget' \in [Happenings -> Nat]
  BY SpendKeepsBudget DEF stopPane, Happenings, IInv, InstancesOK
<1>2. InstancesOK'
  BY <1>1 DEF IInv, InstancesOK, stopPane, Revisions
<1>3. UNCHANGED <<issued, instance, commands, owed, terminalVars, publicationVars, workerVars, screen, intruded>>
  BY DEF stopPane
<1>4. CommandsOK' /\ ReleasesOK' /\ TerminalsOK' /\ PublicationsOK' /\ WorkersOK'
  BY <1>3, CommandsStay, ReleasesStay, TerminalsStay, PublicationsStay, WorkersStay DEF IInv
<1>5. \A q \in Panes : stage'[q] # "exited" => stage[q] # "exited"
  BY DEF IInv, InstancesOK, stopPane
<1>6. BuffersOK'
  BY <1>3, <1>5, BuffersStay DEF IInv
<1> QED
  BY <1>2, <1>4, <1>6 DEF IInv

-----------------------------------------------------------------------------
(* The commands of a pane *)

LEMMA Appended ==
    ASSUME NEW S, NEW q \in Seq(S), NEW x \in S
    PROVE  /\ Append(q, x) \in Seq(S) /\ Len(q) \in Nat /\ DOMAIN q = 1 .. Len(q)
           /\ DOMAIN Append(q, x) = 1 .. Len(q) + 1
           /\ \A i \in DOMAIN q : i \in DOMAIN Append(q, x) /\ Append(q, x)[i] = q[i]
           /\ Append(q, x)[Len(q) + 1] = x
           /\ \A i \in DOMAIN Append(q, x) : i \in DOMAIN q \/ i = Len(q) + 1
OBVIOUS

LEMMA Rest ==
    ASSUME NEW S, NEW q \in Seq(S), q # <<>>
    PROVE  /\ Tail(q) \in Seq(S) /\ Head(q) = q[1] /\ q[1] \in S /\ 1 \in DOMAIN q /\ Len(q) \in Nat
           /\ DOMAIN q = 1 .. Len(q)
           /\ \A i \in DOMAIN Tail(q) : i \in Nat /\ i + 1 \in DOMAIN q /\ Tail(q)[i] = q[i + 1] /\ i + 1 # 1
           /\ \A i \in DOMAIN q : i # 1 => i - 1 \in DOMAIN Tail(q) /\ Tail(q)[i - 1] = q[i]
<1>1. Len(q) \in Nat /\ Len(q) > 0 /\ DOMAIN q = 1 .. Len(q)
  OBVIOUS
<1>2. Tail(q) \in Seq(S) /\ Len(Tail(q)) = Len(q) - 1 /\ \A i \in 1 .. Len(Tail(q)) : Tail(q)[i] = q[i + 1]
  BY HeadTailProperties
<1>3. DOMAIN Tail(q) = 1 .. Len(q) - 1
  BY <1>1, <1>2
<1> QED
  BY <1>1, <1>2, <1>3

\* Panes are sent a command that asks for no release.
LEMMA CommandsGrow ==
    ASSUME CommandsOK, ReleasesOK, UNCHANGED <<owed, issued, instance>>,
           NEW command \in Command, command.type # "release",
           DOMAIN commands' = Panes,
           \A p \in Panes : commands'[p] = commands[p] \/ commands'[p] = Append(commands[p], command)
    PROVE  CommandsOK' /\ ReleasesOK'
<1>1. \A p \in Panes : /\ commands'[p] \in Seq(Command)
                       /\ \A i \in DOMAIN commands[p] : i \in DOMAIN commands'[p] /\ commands'[p][i] = commands[p][i]
                       /\ \A i \in DOMAIN commands'[p] : commands'[p][i].type = "release" =>
                             i \in DOMAIN commands[p] /\ commands'[p][i] = commands[p][i]
  <2> SUFFICES ASSUME NEW p \in Panes
               PROVE  /\ commands'[p] \in Seq(Command)
                      /\ \A i \in DOMAIN commands[p] : i \in DOMAIN commands'[p] /\ commands'[p][i] = commands[p][i]
                      /\ \A i \in DOMAIN commands'[p] : commands'[p][i].type = "release" =>
                            i \in DOMAIN commands[p] /\ commands'[p][i] = commands[p][i]
    OBVIOUS
  <2>1. commands[p] \in Seq(Command)
    BY DEF CommandsOK
  <2> QED
    BY <2>1, Appended
<1>2. CommandsOK'
  BY <1>1 DEF CommandsOK, Command
<1>3. \A c \in Conns : Asked(c)' = Asked(c)
  BY <1>1 DEF Asked, IsReleaseOf
<1>4. \A p \in Panes : \A i, j \in DOMAIN commands'[p] :
         commands'[p][i].type = "release" /\ commands'[p][j].type = "release"
           /\ commands'[p][i].conn = commands'[p][j].conn => i = j
  BY <1>1 DEF ReleasesOK
<1> QED
  BY <1>2, <1>3, <1>4 DEF ReleasesOK

LEMMA SendKeeps ==
    ASSUME CommandsOK, ReleasesOK, UNCHANGED <<owed, issued, instance>>,
           NEW command \in Command, command.type # "release", NEW p, Send(p, command)
    PROVE  CommandsOK' /\ ReleasesOK'
<1>1. /\ DOMAIN commands' = Panes
      /\ \A q \in Panes : commands'[q] = commands[q] \/ commands'[q] = Append(commands[q], command)
  BY DEF Send, CommandsOK
<1> QED
  BY <1>1, CommandsGrow

\* A connection that is owed nothing asks some panes to release what it has.
LEMMA HandoffBegins ==
    ASSUME IInv, NEW c \in Conns, instance[c] = "serving", beginOutputHandoff(c),
           instance' = [instance EXCEPT ![c] = "binding"], UNCHANGED issued
    PROVE  CommandsOK' /\ ReleasesOK' /\ still' \in [Conns -> SUBSET Slots]
<1> DEFINE ask == [type |-> "release", conn |-> c]
<1>1. PICK told \in SUBSET Panes :
        /\ commands' = [p \in Panes |-> IF p \in told THEN Append(commands[p], ask) ELSE commands[p]]
        /\ owed' = [owed EXCEPT ![c] = Cardinality(told)]
        /\ still' = [still EXCEPT ![c] = SlotsOf(current[c])]
  <2> DEFINE old == PanesOf(ViewAt(current[c]))
  <2>1. old \subseteq Panes
    <3>1. CASE current[c] = 0
      <4>1. ViewAt(current[c]) \in Seq(Panes) /\ DOMAIN ViewAt(current[c]) = {}
        BY <3>1 DEF ViewAt
      <4> QED
        BY <4>1 DEF PanesOf
    <3>2. CASE current[c] # 0
      <4>0. InstancesOK /\ current[c] \in Revisions
        BY DEF IInv, InstancesOK
      <4>1. ViewAt(current[c]) \in Views
        BY <3>2, <4>0, RevisionHasSlots
      <4>2. ViewAt(current[c]) \in Seq(Panes)
        BY <4>1, ViewsArePlanes
      <4> QED
        BY <4>2 DEF PanesOf
    <3> QED
      BY <3>1, <3>2
  <2> QED
    BY <2>1 DEF beginOutputHandoff
<1>2. CommandsOK /\ ReleasesOK /\ ask \in Command
  BY DEF IInv, Command
<1>3. owed[c] = 0 /\ Asked(c) = {}
  <2>1. owed[c] = 0 /\ Cardinality(Asked(c)) = 0
    BY <1>2 DEF ReleasesOK
  <2>2. IsFiniteSet(Asked(c))
    BY FS_Subset DEF Asked
  <2> QED
    BY <2>1, <2>2, FS_EmptySet
<1>4. \A p \in Panes : /\ commands[p] \in Seq(Command)
                       /\ commands'[p] = IF p \in told THEN Append(commands[p], ask) ELSE commands[p]
                       /\ \A i \in DOMAIN commands[p] : ~IsReleaseOf(commands[p][i], c)
  BY <1>1, <1>2, <1>3 DEF CommandsOK, Asked
<1>5. CommandsOK'
  BY <1>1, <1>2, <1>4, Appended DEF CommandsOK, Command
<1>6. \A p \in Panes :
         /\ \A i \in DOMAIN commands[p] : i \in DOMAIN commands'[p] /\ commands'[p][i] = commands[p][i]
         /\ \A i \in DOMAIN commands'[p] :
               \/ i \in DOMAIN commands[p] /\ commands'[p][i] = commands[p][i]
               \/ p \in told /\ i = Len(commands[p]) + 1 /\ commands'[p][i] = ask
         /\ p \in told => \E i \in DOMAIN commands'[p] : commands'[p][i] = ask
  <2> SUFFICES ASSUME NEW p \in Panes
               PROVE  /\ \A i \in DOMAIN commands[p] : i \in DOMAIN commands'[p] /\ commands'[p][i] = commands[p][i]
                      /\ \A i \in DOMAIN commands'[p] :
                            \/ i \in DOMAIN commands[p] /\ commands'[p][i] = commands[p][i]
                            \/ p \in told /\ i = Len(commands[p]) + 1 /\ commands'[p][i] = ask
                      /\ p \in told => \E i \in DOMAIN commands'[p] : commands'[p][i] = ask
    OBVIOUS
  <2>1. CASE p \in told
    <3>1. commands[p] \in Seq(Command) /\ commands'[p] = Append(commands[p], ask)
      BY <1>4, <2>1
    <3> HIDE DEF ask
    <3>2. Len(commands[p]) + 1 \in DOMAIN Append(commands[p], ask)
      BY <1>2, <3>1, Appended
    <3> QED
      BY <1>2, <2>1, <3>1, <3>2, Appended
  <2>2. CASE p \notin told
    BY <1>4, <2>2
  <2> QED
    BY <2>1, <2>2
<1>7. \A d \in Conns : Asked(d)' = IF d = c THEN told ELSE Asked(d)
  <2> SUFFICES ASSUME NEW d \in Conns
               PROVE  Asked(d)' = IF d = c THEN told ELSE Asked(d)
    OBVIOUS
  <2>1. CASE d = c
    BY <1>4, <1>6, <2>1 DEF Asked, IsReleaseOf
  <2>2. CASE d # c
    BY <1>6, <2>2 DEF Asked, IsReleaseOf
  <2> QED
    BY <2>1, <2>2
<1>8. \A p \in Panes : \A i, j \in DOMAIN commands'[p] :
         commands'[p][i].type = "release" /\ commands'[p][j].type = "release"
           /\ commands'[p][i].conn = commands'[p][j].conn => i = j
  BY <1>2, <1>4, <1>6 DEF ReleasesOK, IsReleaseOf
<1>9. Cardinality(told) \in Nat
  BY FS_Subset, FS_CardinalityType
<1>10. owed' \in [Conns -> Nat] /\ \A d \in Conns : owed'[d] = Cardinality(Asked(d)')
  BY <1>1, <1>2, <1>7, <1>9 DEF ReleasesOK
<1>11. \A d \in Conns : instance'[d] # "binding" => owed'[d] = 0
  BY <1>1, <1>2 DEF ReleasesOK, IInv, InstancesOK
<1>12. ReleasesOK'
  BY <1>8, <1>10, <1>11 DEF ReleasesOK
<1>13. still' \in [Conns -> SUBSET Slots]
  BY <1>1, RevisionHasSlots DEF IInv, InstancesOK
<1> QED
  BY <1>5, <1>12, <1>13

-----------------------------------------------------------------------------
(* The instances *)

\* What only the instances have to do with.
LEMMA InstancesGoOn ==
    ASSUME IInv, InstancesOK', UNCHANGED <<terminalVars, publicationVars, workerVars, screen, intruded, issued>>,
           CommandsOK', ReleasesOK', UNCHANGED stage
    PROVE  IInv'
<1>1. TerminalsOK' /\ PublicationsOK' /\ WorkersOK'
  BY TerminalsStay, PublicationsStay, WorkersStay DEF IInv, publicationVars
<1>2. BuffersOK'
  BY BuffersStay DEF IInv, publicationVars, workerVars
<1> QED
  BY <1>1, <1>2 DEF IInv

LEMMA TransitionsKeep ==
    ASSUME IInv, NEW c \in Conns, applyViewTransition(c)
    PROVE  IInv'
<1>1. /\ UNCHANGED <<budget, issued, current, closed, stage, terminalVars, publicationVars, workerVars,
                     screen, intruded>>
      /\ instance[c] = "serving"
  BY DEF applyViewTransition
<1>2. PICK r \in due[c] :
        /\ due' = [due EXCEPT ![c] = @ \ {r}]
        /\ IF r <= current[c]
             THEN UNCHANGED <<instance, handoffVars, commands>>
             ELSE /\ beginOutputHandoff(c)
                  /\ todo' = [todo EXCEPT ![c] = FreshSlots(c, r)]
                  /\ applying' = [applying EXCEPT ![c] = r]
                  /\ instance' = [instance EXCEPT ![c] = "binding"]
                  /\ UNCHANGED returned
  BY DEF applyViewTransition
<1>3. InstancesOK
  BY DEF IInv
<1>4. due' \in [Conns -> SUBSET (1 .. Len(issued))] /\ r \in 1 .. Len(issued)
  BY <1>2, <1>3 DEF InstancesOK
<1>5. CASE r <= current[c]
  <2>1. UNCHANGED <<instance, commands, applying, todo, still, owed, returned>>
    BY <1>2, <1>5 DEF handoffVars
  <2>2. InstancesOK'
    BY <1>1, <1>3, <1>4, <2>1 DEF InstancesOK, Revisions
  <2>3. CommandsOK' /\ ReleasesOK'
    BY <1>1, <2>1, CommandsStay, ReleasesStay DEF IInv
  <2> QED
    BY <1>1, <2>2, <2>3, InstancesGoOn
<1>6. CASE ~(r <= current[c])
  <2>1. CommandsOK' /\ ReleasesOK' /\ still' \in [Conns -> SUBSET Slots]
    BY <1>1, <1>2, <1>6, HandoffBegins
  <2>2. r \in Revisions /\ r # 0
    BY <1>3, <1>4 DEF InstancesOK, Revisions
  <2>3. FreshSlots(c, r) \subseteq Slots
    BY <1>3, <2>2, RevisionHasSlots DEF FreshSlots
  <2>4. InstancesOK'
    <3>1. /\ todo' = [todo EXCEPT ![c] = FreshSlots(c, r)] /\ applying' = [applying EXCEPT ![c] = r]
          /\ instance' = [instance EXCEPT ![c] = "binding"] /\ UNCHANGED returned
      BY <1>2, <1>6
    <3>2. todo' \in [Conns -> SUBSET Slots] /\ applying' \in [Conns -> Revisions]
      BY <1>3, <2>2, <2>3, <3>1 DEF InstancesOK
    <3>3. instance' \in [Conns -> {"admitted", "serving", "binding", "detaching", "done"}]
      BY <1>3, <3>1 DEF InstancesOK
    <3>4. \A d \in Conns : instance'[d] = "binding" => applying'[d] # 0
      BY <1>3, <2>2, <3>1 DEF InstancesOK
    <3> QED
      BY <1>1, <1>3, <1>4, <2>1, <3>1, <3>2, <3>3, <3>4 DEF InstancesOK, Revisions
  <2> QED
    BY <1>1, <2>1, <2>4, InstancesGoOn
<1> QED
  BY <1>5, <1>6

LEMMA InstallationsKeep ==
    ASSUME IInv, NEW c \in Conns, NEW s \in Slots, installOutputLease(c, s)
    PROVE  IInv'
<1> DEFINE command == [type |-> "install", conn |-> c, slot |-> s, revision |-> applying[c],
                       size |-> Len(ViewAt(applying[c]))]
<1>1. /\ UNCHANGED <<budget, issued, instance, due, current, applying, still, owed, returned, closed,
                     stage, terminalVars, publicationVars, workerVars, screen, intruded>>
      /\ instance[c] = "binding" /\ todo' = [todo EXCEPT ![c] = @ \ {s}]
      /\ Send(ViewAt(applying[c])[s], command)
  BY DEF installOutputLease
<1>2. applying[c] \in Revisions /\ applying[c] # 0
  BY <1>1 DEF IInv, InstancesOK
<1>3. applying[c] \in 1 .. Len(issued) /\ Len(ViewAt(applying[c])) \in Slots
  BY <1>2, RevisionHasSlots DEF IInv
<1>4. command \in Command /\ command.type # "release"
  BY <1>3 DEF Command
<1>5. CommandsOK' /\ ReleasesOK'
  <2> HIDE DEF command
  <2> QED
    BY <1>1, <1>4, SendKeeps DEF IInv
<1>6. InstancesOK'
  BY <1>1 DEF IInv, InstancesOK, Revisions
<1> QED
  BY <1>1, <1>5, <1>6, InstancesGoOn

LEMMA DetachmentsKeep ==
    ASSUME IInv, NEW c \in Conns, NEW s \in Slots, detachOutputLease(c, s)
    PROVE  IInv'
<1> DEFINE command == [type |-> "detach", conn |-> c]
<1>1. /\ UNCHANGED <<budget, issued, instance, due, current, applying, still, owed, returned, closed,
                     stage, terminalVars, publicationVars, workerVars, screen, intruded>>
      /\ todo' = [todo EXCEPT ![c] = @ \ {s}]
      /\ Send(ViewAt(current[c])[s], command)
  BY DEF detachOutputLease
<1>2. command \in Command /\ command.type # "release"
  BY DEF Command
<1>3. CommandsOK' /\ ReleasesOK'
  <2> HIDE DEF command
  <2> QED
    BY <1>1, <1>2, SendKeeps DEF IInv
<1>4. InstancesOK'
  BY <1>1 DEF IInv, InstancesOK, Revisions
<1> QED
  BY <1>1, <1>3, <1>4, InstancesGoOn

\* The rest of a hand-off, the loss of a transport and the end of an instance.
LEMMA HandoffsKeep ==
    ASSUME IInv, NEW c \in Conns,
           receiveReleased(c) \/ bindStillPending(c) \/ installClientView(c) \/ transportLost(c)
             \/ detachClientInstance(c) \/ lifetimeDone(c)
    PROVE  IInv'
<1> USE DEF handoffVars
<1>1. UNCHANGED <<issued, owed, commands, stage, terminalVars, publicationVars, workerVars, screen, intruded>>
  BY DEF receiveReleased, bindStillPending, installClientView, transportLost, detachClientInstance, lifetimeDone,
         instanceVars
<1>2. InstancesOK
  BY DEF IInv
<1>3. InstancesOK'
  <2>1. CASE receiveReleased(c)
    <3>1. returned[c] \in Seq(Slots) /\ returned[c] # <<>>
      BY <1>2, <2>1 DEF receiveReleased, InstancesOK
    <3>2. Tail(returned[c]) \in Seq(Slots)
      BY <3>1, Rest
    <3>3. SlotsOf(applying[c]) \subseteq Slots
      BY <1>2, RevisionHasSlots DEF InstancesOK
    <3>4. still' \in [Conns -> SUBSET Slots] /\ todo' \in [Conns -> SUBSET Slots]
      BY <1>2, <2>1, <3>3 DEF receiveReleased, InstancesOK
    <3>5. UNCHANGED <<budget, instance, due, current, applying, closed>> /\ returned' = [returned EXCEPT ![c] = Tail(@)]
      BY <2>1 DEF receiveReleased
    <3> QED
      BY <1>1, <1>2, <3>2, <3>4, <3>5 DEF InstancesOK, Revisions
  <2>2. CASE bindStillPending(c)
    <3>1. still' \in [Conns -> SUBSET Slots] /\ todo' \in [Conns -> SUBSET Slots]
      BY <1>2, <2>2 DEF bindStillPending, InstancesOK, UnreturnedSlots
    <3>2. UNCHANGED <<budget, instance, due, current, applying, closed, returned>>
      BY <2>2 DEF bindStillPending
    <3> QED
      BY <1>1, <1>2, <3>1, <3>2 DEF InstancesOK, Revisions
  <2>3. CASE installClientView(c)
    BY <1>1, <1>2, <2>3 DEF installClientView, InstancesOK, Revisions
  <2>4. CASE transportLost(c)
    <3>1. budget' \in [Happenings -> Nat]
      BY <1>2, <2>4, SpendKeepsBudget DEF transportLost, Happenings, InstancesOK
    <3>2. UNCHANGED <<instance, due, current, applying, todo, still, returned>> /\ closed' = [closed EXCEPT ![c] = TRUE]
      BY <2>4 DEF transportLost, instanceVars
    <3> QED
      BY <1>1, <1>2, <3>1, <3>2 DEF InstancesOK, Revisions
  <2>5. CASE detachClientInstance(c)
    <3>1. HeldSlots(c) \subseteq Slots
      BY <1>2, RevisionHasSlots DEF InstancesOK, HeldSlots
    <3> QED
      BY <1>1, <1>2, <2>5, <3>1 DEF detachClientInstance, InstancesOK, Revisions
  <2>6. CASE lifetimeDone(c)
    BY <1>1, <1>2, <2>6 DEF lifetimeDone, InstancesOK, Revisions
  <2> QED
    BY <2>1, <2>2, <2>3, <2>4, <2>5, <2>6
<1>4. \A d \in Conns : instance'[d] # "binding" => instance[d] # "binding" \/ owed[d] = 0
  BY <1>2 DEF InstancesOK, receiveReleased, bindStillPending, installClientView, transportLost,
              detachClientInstance, lifetimeDone, instanceVars
<1>5. CommandsOK' /\ ReleasesOK'
  BY <1>1, <1>4, CommandsStay, ReleasesStay DEF IInv
<1> QED
  BY <1>1, <1>3, <1>5, InstancesGoOn

-----------------------------------------------------------------------------
(* Buffers *)

\* Whether a queue of one place at most holds a publication of pane q.
Holds(queue, q) == IF queue # <<>> /\ queue[1].pane = q THEN 1 ELSE 0

\* The places of a sequence that hold one.
PlacesOf(s, q) == {i \in DOMAIN s : s[i].pane = q}

LEMMA CountNone ==
    ASSUME NEW s, s = <<>>, NEW q
    PROVE  Cardinality(PlacesOf(s, q)) = 0
<1>1. DOMAIN s = {}
  OBVIOUS
<1>2. PlacesOf(s, q) = {}
  BY <1>1 DEF PlacesOf
<1> QED
  BY <1>2, FS_EmptySet

LEMMA CountOne ==
    ASSUME NEW s, NEW x, s = <<x>>, NEW q
    PROVE  Cardinality(PlacesOf(s, q)) = IF x.pane = q THEN 1 ELSE 0
<1>1. DOMAIN s = {1} /\ s[1] = x
  OBVIOUS
<1>2. PlacesOf(s, q) = IF x.pane = q THEN {1} ELSE {}
  BY <1>1 DEF PlacesOf
<1>3. Cardinality({1}) = 1
  BY FS_Singleton
<1>4. Cardinality({}) = 0
  BY FS_EmptySet
<1>5. CASE x.pane = q
  BY <1>2, <1>3, <1>5
<1>6. CASE x.pane # q
  <2>1. PlacesOf(s, q) = {}
    BY <1>2, <1>6
  <2> QED
    BY <1>4, <1>6, <2>1
<1> QED
  BY <1>5, <1>6

LEMMA CountTwo ==
    ASSUME NEW s, NEW x, NEW y, DOMAIN s = {1, 2}, s[1] = x, s[2] = y, NEW q
    PROVE  Cardinality(PlacesOf(s, q)) = (IF x.pane = q THEN 1 ELSE 0) + (IF y.pane = q THEN 1 ELSE 0)
<1>2. Cardinality({1}) = 1 /\ Cardinality({2}) = 1 /\ IsFiniteSet({1})
  BY FS_Singleton
<1>3. Cardinality({}) = 0
  BY FS_EmptySet
<1>4. Cardinality({1} \cup {2}) = 2
  <2>1. PICK T : T = {1}
    OBVIOUS
  <2>2. IsFiniteSet(T) /\ 2 \notin T /\ Cardinality(T) = 1
    BY <1>2, <2>1
  <2>3. Cardinality(T \cup {2}) = 2
    BY ONLY <2>2, FS_AddElement
  <2> QED
    BY <2>1, <2>3, Zenon
<1>5. CASE x.pane = q /\ y.pane = q
  <2>1. PlacesOf(s, q) = {1} \cup {2}
    BY <1>5 DEF PlacesOf
  <2> QED
    BY <1>4, <1>5, <2>1
<1>6. CASE x.pane = q /\ y.pane # q
  <2>1. PlacesOf(s, q) = {1}
    BY <1>6 DEF PlacesOf
  <2> QED
    BY <1>2, <1>6, <2>1
<1>7. CASE x.pane # q /\ y.pane = q
  <2>1. PlacesOf(s, q) = {2}
    BY <1>7 DEF PlacesOf
  <2> QED
    BY <1>2, <1>7, <2>1
<1>8. CASE x.pane # q /\ y.pane # q
  <2>1. PlacesOf(s, q) = {}
    BY <1>8 DEF PlacesOf
  <2> QED
    BY <1>3, <1>8, <2>1
<1> QED
  BY <1>5, <1>6, <1>7, <1>8

LEMMA ReleasedCounts ==
    ASSUME NEW s, NEW q \in Panes
    PROVE  Released(s)[q] = free[q] + Cardinality(PlacesOf(s, q))
BY DEF Released, PlacesOf

LEMMA Joined ==
    ASSUME NEW s, NEW t, NEW x, NEW y, s = <<x>>, t = <<y>>
    PROVE  DOMAIN (s \o t) = {1, 2} /\ (s \o t)[1] = x /\ (s \o t)[2] = y
<1>1. /\ s \in Seq({x, y}) /\ Len(s) = 1 /\ s[1] = x
      /\ t \in Seq({x, y}) /\ Len(t) = 1 /\ t[1] = y
  OBVIOUS
<1>2. s \o t \in Seq({x, y}) /\ Len(s \o t) = 2 /\ (s \o t)[1] = x /\ (s \o t)[2] = y
  <2>1. PICK S : s \in Seq(S) /\ t \in Seq(S) /\ S = {x, y}
    BY <1>1
  <2>2. /\ s \o t \in Seq(S) /\ Len(s \o t) = Len(s) + Len(t)
        /\ \A i \in 1 .. Len(s) + Len(t) : (s \o t)[i] = IF i <= Len(s) THEN s[i] ELSE t[i - Len(s)]
    BY ONLY <2>1, ConcatProperties
  <2>3. Len(s \o t) = 2 /\ 1 \in 1 .. 1 + 1 /\ 2 \in 1 .. 1 + 1
    BY ONLY <1>1, <2>2
  <2>4. (s \o t)[1] = s[1] /\ (s \o t)[2] = t[1]
    BY ONLY <1>1, <2>2, <2>3
  <2> QED
    BY ONLY <1>1, <2>1, <2>2, <2>3, <2>4, Zenon
<1>3. DOMAIN (s \o t) = 1 .. 2
  BY ONLY <1>2
<1> QED
  BY <1>2, <1>3

\* The buffers of two queues return to their panes.
LEMMA ReleasedFromTwo ==
    ASSUME NEW c, c = <<>> \/ c = <<c[1]>>, NEW a, a = <<>> \/ a = <<a[1]>>, NEW q \in Panes,
           free[q] \in Nat
    PROVE  Released(c \o a)[q] = free[q] + Holds(c, q) + Holds(a, q)
<1>1. Cardinality(PlacesOf(c \o a, q)) = Holds(c, q) + Holds(a, q)
  <2>1. CASE c = <<>> /\ a = <<>>
    <3>1. c \o a = <<>>
      BY <2>1
    <3> QED
      BY <2>1, <3>1, CountNone DEF Holds
  <2>2. CASE c = <<>> /\ a # <<>>
    <3>1. a = <<a[1]>>
      BY <2>2
    <3>2. c \o a = <<a[1]>>
      BY <2>2, <3>1
    <3>3. Cardinality(PlacesOf(c \o a, q)) = IF a[1].pane = q THEN 1 ELSE 0
      BY ONLY <3>2, CountOne
    <3> QED
      BY <2>2, <3>3 DEF Holds
  <2>3. CASE c # <<>> /\ a = <<>>
    <3>1. c = <<c[1]>>
      BY <2>3
    <3>2. c \o a = <<c[1]>>
      BY <2>3, <3>1
    <3>3. Cardinality(PlacesOf(c \o a, q)) = IF c[1].pane = q THEN 1 ELSE 0
      BY ONLY <3>2, CountOne
    <3> QED
      BY <2>3, <3>3 DEF Holds
  <2>4. CASE c # <<>> /\ a # <<>>
    <3>1. c = <<c[1]>> /\ a = <<a[1]>>
      BY <2>4
    <3>3. DOMAIN (c \o a) = {1, 2} /\ (c \o a)[1] = c[1] /\ (c \o a)[2] = a[1]
      BY ONLY <3>1, Joined
    <3>4. Cardinality(PlacesOf(c \o a, q)) = (IF c[1].pane = q THEN 1 ELSE 0) + (IF a[1].pane = q THEN 1 ELSE 0)
      BY ONLY <3>3, CountTwo
    <3> QED
      BY <2>4, <3>4 DEF Holds
  <2> QED
    BY <2>1, <2>2, <2>3, <2>4
<1>2. Holds(c, q) \in Nat /\ Holds(a, q) \in Nat
  BY DEF Holds
<1> QED
  BY <1>1, <1>2, ReleasedCounts

\* The buffer of one queue returns to its pane.
LEMMA ReleasedFromOne ==
    ASSUME NEW c, c = <<>> \/ c = <<c[1]>>, NEW q \in Panes
    PROVE  Released(c)[q] = free[q] + Holds(c, q)
<1>1. Cardinality(PlacesOf(c, q)) = Holds(c, q)
  <2>1. CASE c = <<>>
    BY <2>1, CountNone DEF Holds
  <2>2. CASE c # <<>>
    <3>1. c = <<c[1]>>
      BY <2>2
    <3>2. Cardinality(PlacesOf(c, q)) = IF c[1].pane = q THEN 1 ELSE 0
      BY ONLY <3>1, CountOne
    <3> QED
      BY <2>2, <3>2 DEF Holds
  <2> QED
    BY <2>1, <2>2
<1> QED
  BY <1>1, ReleasedCounts

\* There are finitely many leases, so what is queued can be counted.
QueuedAt(q) == {l \in Leases : ready[l] # <<>> /\ Head(ready[l]).pane = q}

LEMMA QueuesAreCounted ==
    ASSUME NEW q
    PROVE  IsFiniteSet(QueuedAt(q)) /\ Queued(q) = Cardinality(QueuedAt(q)) /\ Queued(q) \in Nat
<1>1. IsFiniteSet(Slots)
  BY FS_CardinalityType, FS_Interval DEF Slots
<1>2. IsFiniteSet(Leases)
  BY <1>1, FS_Product DEF Leases
<1>3. IsFiniteSet(QueuedAt(q))
  BY <1>2, FS_Subset DEF QueuedAt
<1> QED
  BY <1>3, FS_CardinalityType DEF Queued, QueuedAt

\* A confirmer's queue is emptied.
LEMMA QueueEmptied ==
    ASSUME WorkersOK, NEW l \in Leases, DOMAIN ready' = Leases,
           \A m \in Leases : ready'[m] = IF m = l THEN <<>> ELSE ready[m], NEW q
    PROVE  Queued(q)' \in Nat /\ Queued(q) = Queued(q)' + Holds(ready[l], q)
<1>1. Head(ready[l]) = ready[l][1]
  OBVIOUS
<1>2. QueuedAt(q)' = QueuedAt(q) \ {l}
  BY DEF QueuedAt
<1>3. l \in QueuedAt(q) <=> Holds(ready[l], q) = 1
  BY <1>1 DEF QueuedAt, Holds
<1>4. /\ IsFiniteSet(QueuedAt(q)) /\ Queued(q) = Cardinality(QueuedAt(q)) /\ Queued(q) \in Nat
      /\ Queued(q)' = Cardinality(QueuedAt(q) \ {l})
  BY <1>2, QueuesAreCounted DEF Queued, QueuedAt
<1>5. CASE l \in QueuedAt(q)
  <2>1. Queued(q)' = Queued(q) - 1 /\ IsFiniteSet(QueuedAt(q) \ {l})
    BY <1>4, <1>5, FS_RemoveElement
  <2>2. Queued(q)' \in Nat
    BY <1>4, <2>1, FS_CardinalityType
  <2> QED
    BY <1>3, <1>4, <1>5, <2>1, <2>2
<1>6. CASE l \notin QueuedAt(q)
  <2>1. QueuedAt(q) \ {l} = QueuedAt(q) /\ Holds(ready[l], q) = 0
    BY <1>3, <1>6 DEF Holds
  <2>2. Cardinality(QueuedAt(q) \ {l}) = Cardinality(QueuedAt(q))
    BY <2>1, Zenon
  <2> QED
    BY <1>4, <2>1, <2>2
<1> QED
  BY <1>5, <1>6

\* A confirmer that has nothing queued is handed a publication.
LEMMA QueueFilled ==
    ASSUME WorkersOK, NEW l \in Leases, ready[l] = <<>>, NEW pub, DOMAIN ready' = Leases,
           \A m \in Leases : ready'[m] = IF m = l THEN <<pub>> ELSE ready[m], NEW q
    PROVE  Queued(q)' = Queued(q) + (IF pub.pane = q THEN 1 ELSE 0)
<1>1. Head(<<pub>>) = pub /\ <<pub>> # <<>>
  OBVIOUS
<1>2. QueuedAt(q)' = QueuedAt(q) \cup (IF pub.pane = q THEN {l} ELSE {}) /\ l \notin QueuedAt(q)
  BY <1>1 DEF QueuedAt
<1>3. /\ IsFiniteSet(QueuedAt(q)) /\ Queued(q) = Cardinality(QueuedAt(q)) /\ Queued(q) \in Nat
      /\ Queued(q)' = Cardinality(QueuedAt(q)')
  BY QueuesAreCounted DEF Queued, QueuedAt
<1>4. Cardinality(QueuedAt(q) \cup {l}) = Cardinality(QueuedAt(q)) + 1
  BY <1>2, <1>3, FS_AddElement
<1> QED
  BY <1>2, <1>3, <1>4

\* What goes in and out of queues is not counted where nothing is in them.
LEMMA QueuesStay ==
    ASSUME \A m \in Leases : ready'[m] = ready[m], NEW q
    PROVE  Queued(q)' = Queued(q)
<1>1. QueuedAt(q)' = QueuedAt(q)
  BY DEF QueuedAt
<1>2. Queued(q) = Cardinality(QueuedAt(q)) /\ Queued(q)' = Cardinality(QueuedAt(q)')
  BY DEF Queued, QueuedAt
<1> QED
  BY <1>1, <1>2, Zenon

\* The buffers of a pane are where they are, or elsewhere.
LEMMA BuffersMove ==
    ASSUME BuffersOK, free' \in [Panes -> Nat], UNCHANGED stage,
           \A q \in Panes : Buffers(q)' = Buffers(q)
    PROVE  BuffersOK'
BY DEF BuffersOK

\* What was prepared is dropped.
LEMMA PreparedDrops ==
    ASSUME PublicationsOK, NEW p \in Panes, pending' = [pending EXCEPT ![p] = None], NEW q \in Panes
    PROVE  Prepared(q)' + Holds(Cancelled(p), q) = Prepared(q) /\ Prepared(q)' \in Nat
<1>1. CASE pending[p] = None
  <2>1. Cancelled(p) = <<>>
    BY <1>1 DEF Cancelled
  <2>2. pending'[q] = pending[q]
    BY <1>1 DEF PublicationsOK
  <2> QED
    BY <2>1, <2>2 DEF Prepared, Holds
<1>2. CASE pending[p] # None
  <2>1. Cancelled(p) # <<>> /\ Cancelled(p)[1] = pending[p]
    BY <1>2 DEF Cancelled
  <2>2. pending[p].pane = p
    BY <1>2 DEF PublicationsOK
  <2>3. pending'[q] = IF q = p THEN None ELSE pending[q]
    BY DEF PublicationsOK
  <2> QED
    BY <1>2, <2>1, <2>2, <2>3 DEF Prepared, Holds
<1> QED
  BY <1>1, <1>2

\* The end of a binding returns what was prepared and what was abandoned.
LEMMA UnbindKeeps ==
    ASSUME PublicationsOK, WorkersOK, BuffersOK, NEW p \in Panes, Unbind(p), UNCHANGED stage
    PROVE  /\ BuffersOK'
           /\ DOMAIN ready' = Leases /\ \A l \in Leases : ready'[l] = <<>> \/ ready'[l] = ready[l]
<1> DEFINE c == Cancelled(p)
           a == Abandoned(lease[p])
<1>1. /\ free' = Released(c \o a)
      /\ ready' = [l \in Leases |-> IF l = lease[p] /\ worker[l] = "exited" THEN <<>> ELSE ready[l]]
      /\ pending' = [pending EXCEPT ![p] = None]
  BY DEF Unbind
<1>2. c = <<>> \/ c = <<c[1]>>
  BY DEF Cancelled
<1>3. a = <<>> \/ a = <<a[1]>>
  BY DEF Abandoned, WorkersOK, PublicationsOK
<1>4. \A q \in Panes : Prepared(q)' + Holds(c, q) = Prepared(q) /\ Prepared(q)' \in Nat
  BY <1>1, PreparedDrops
<1>5. \A q \in Panes : Queued(q)' + Holds(a, q) = Queued(q) /\ Queued(q)' \in Nat
  <2> SUFFICES ASSUME NEW q \in Panes
               PROVE  Queued(q)' + Holds(a, q) = Queued(q) /\ Queued(q)' \in Nat
    OBVIOUS
  <2>1. CASE lease[p] # None /\ worker[lease[p]] = "exited"
    <3>1. a = ready[lease[p]] /\ lease[p] \in Leases
      BY <2>1 DEF Abandoned, PublicationsOK
    <3>2. DOMAIN ready' = Leases /\ \A m \in Leases : ready'[m] = IF m = lease[p] THEN <<>> ELSE ready[m]
      BY <1>1, <2>1
    <3>3. Queued(q)' \in Nat /\ Queued(q) = Queued(q)' + Holds(ready[lease[p]], q)
      BY <3>1, <3>2, QueueEmptied
    <3>4. Holds(a, q) \in Nat
      BY DEF Holds
    <3> HIDE DEF a
    <3> QED
      BY <3>1, <3>3
  <2>2. CASE ~(lease[p] # None /\ worker[lease[p]] = "exited")
    <3>1. a = <<>>
      BY <2>2 DEF Abandoned
    <3>2. \A m \in Leases : ready'[m] = ready[m]
      BY <1>1, <2>2
    <3>3. Queued(q)' = Queued(q) /\ Queued(q) \in Nat
      BY <3>2, QueuesStay, QueuesAreCounted
    <3>4. Holds(a, q) = 0
      BY <3>1 DEF Holds
    <3> QED
      BY <3>3, <3>4
  <2> QED
    BY <2>1, <2>2
<1>6. \A q \in Panes : free[q] \in Nat
  BY DEF BuffersOK
<1>7. \A q \in Panes : Holds(c, q) \in Nat /\ Holds(a, q) \in Nat
  BY DEF Holds
<1>8. \A q \in Panes : Released(c \o a)[q] = free[q] + Holds(c, q) + Holds(a, q)
  <2> HIDE DEF c, a
  <2> QED
    BY <1>2, <1>3, <1>6, ReleasedFromTwo
<1>9. free' \in [Panes -> Nat]
  <2>1. DOMAIN Released(c \o a) = Panes /\ Released(c \o a) = [q \in Panes |-> Released(c \o a)[q]]
    BY DEF Released
  <2> HIDE DEF c, a
  <2> QED
    BY <1>1, <1>6, <1>7, <1>8, <2>1
<1>10. \A q \in Panes : Buffers(q)' = Buffers(q)
  <2> HIDE DEF c, a
  <2> QED
    BY <1>1, <1>4, <1>5, <1>6, <1>7, <1>8 DEF Buffers
<1> QED
  BY <1>1, <1>9, <1>10, BuffersMove

-----------------------------------------------------------------------------
(* The commands a pane runs *)

LEMMA CommandTaken ==
    ASSUME CommandsOK, ReleasesOK, NEW p \in Panes, commands[p] # <<>>,
           commands' = [commands EXCEPT ![p] = Tail(@)], UNCHANGED <<issued, instance>>,
           NEW command, command = Head(commands[p]),
           owed' = IF command.type = "release" THEN [owed EXCEPT ![command.conn] = @ - 1] ELSE owed
    PROVE  CommandsOK' /\ ReleasesOK' /\ command \in Command
<1>1. /\ Tail(commands[p]) \in Seq(Command) /\ command = commands[p][1] /\ command \in Command /\ 1 \in DOMAIN commands[p]
      /\ \A i \in DOMAIN Tail(commands[p]) :
            i \in Nat /\ i + 1 \in DOMAIN commands[p] /\ Tail(commands[p])[i] = commands[p][i + 1] /\ i + 1 # 1
      /\ \A i \in DOMAIN commands[p] : i # 1 => i - 1 \in DOMAIN Tail(commands[p]) /\ Tail(commands[p])[i - 1] = commands[p][i]
  <2>1. commands[p] \in Seq(Command)
    BY DEF CommandsOK
  <2> QED
    BY <2>1, Rest
<1>2. \A q \in Panes : commands'[q] = IF q = p THEN Tail(commands[p]) ELSE commands[q]
  BY DEF CommandsOK
<1>3. CommandsOK'
  BY <1>1, <1>2 DEF CommandsOK, Command
<1>4. \A d \in Conns : Asked(d)' = IF IsReleaseOf(command, d) THEN Asked(d) \ {p} ELSE Asked(d)
  <2> SUFFICES ASSUME NEW d \in Conns
               PROVE  Asked(d)' = IF IsReleaseOf(command, d) THEN Asked(d) \ {p} ELSE Asked(d)
    OBVIOUS
  <2>1. \A q \in Panes \ {p} : q \in Asked(d)' <=> q \in Asked(d)
    BY <1>2 DEF Asked
  <2>2. CASE IsReleaseOf(command, d)
    <3>1. \A i \in DOMAIN Tail(commands[p]) : ~IsReleaseOf(Tail(commands[p])[i], d)
      BY <1>1, <2>2 DEF ReleasesOK, IsReleaseOf
    <3>2. p \notin Asked(d)'
      BY <1>2, <3>1 DEF Asked
    <3> QED
      BY <2>1, <2>2, <3>2 DEF Asked
  <2>3. CASE ~IsReleaseOf(command, d)
    <3>1. p \in Asked(d)' <=> p \in Asked(d)
      <4>1. ASSUME p \in Asked(d) PROVE p \in Asked(d)'
        <5>1. PICK i \in DOMAIN commands[p] : IsReleaseOf(commands[p][i], d)
          BY <4>1 DEF Asked
        <5>2. i # 1
          BY <1>1, <2>3, <5>1
        <5>3. i - 1 \in DOMAIN Tail(commands[p]) /\ Tail(commands[p])[i - 1] = commands[p][i]
          BY <1>1, <5>2
        <5>4. i - 1 \in DOMAIN commands'[p] /\ IsReleaseOf(commands'[p][i - 1], d)
          BY <1>2, <5>1, <5>3
        <5> QED
          BY <5>4 DEF Asked
      <4>2. ASSUME p \in Asked(d)' PROVE p \in Asked(d)
        BY <1>1, <1>2, <4>2 DEF Asked
      <4> QED
        BY <4>1, <4>2
    <3> QED
      BY <2>1, <2>3, <3>1 DEF Asked
  <2> QED
    BY <2>2, <2>3
<1>5. \A d \in Conns : IsReleaseOf(command, d) => p \in Asked(d)
  BY <1>1 DEF Asked
<1>6. \A d \in Conns : owed[d] \in Nat /\ owed[d] = Cardinality(Asked(d)) /\ IsFiniteSet(Asked(d))
  BY FS_Subset DEF ReleasesOK, Asked
<1>7. command.conn \in Conns
  BY <1>1 DEF Command
<1>8. \A d \in Conns : /\ owed'[d] \in Nat /\ owed'[d] = Cardinality(Asked(d)')
                       /\ instance'[d] # "binding" => owed'[d] = 0
  <2> SUFFICES ASSUME NEW d \in Conns
               PROVE  /\ owed'[d] \in Nat /\ owed'[d] = Cardinality(Asked(d)')
                      /\ instance'[d] # "binding" => owed'[d] = 0
    OBVIOUS
  <2>1. CASE IsReleaseOf(command, d)
    <3>1. owed'[d] = owed[d] - 1
      BY <1>7, <2>1 DEF IsReleaseOf, ReleasesOK
    <3>2. Asked(d)' = Asked(d) \ {p} /\ p \in Asked(d)
      BY <1>4, <1>5, <2>1
    <3>3. Cardinality(Asked(d) \ {p}) = Cardinality(Asked(d)) - 1 /\ IsFiniteSet(Asked(d) \ {p})
      BY <1>6, <3>2, FS_RemoveElement
    <3>4. Cardinality(Asked(d)') = owed'[d]
      BY <1>6, <3>1, <3>2, <3>3
    <3>5. Cardinality(Asked(d) \ {p}) \in Nat
      BY <3>3, FS_CardinalityType
    <3>6. owed[d] # 0
      BY <1>6, <3>3, <3>5
    <3> QED
      BY <3>1, <3>3, <3>4, <3>5, <3>6, <1>6 DEF ReleasesOK
  <2>2. CASE ~IsReleaseOf(command, d)
    <3>1. owed'[d] = owed[d]
      BY <1>7, <2>2 DEF IsReleaseOf, ReleasesOK
    <3>2. Cardinality(Asked(d)') = Cardinality(Asked(d))
      BY <1>4, <2>2, Zenon
    <3> QED
      BY <1>6, <3>1, <3>2 DEF ReleasesOK
  <2> QED
    BY <2>1, <2>2
<1>9. owed' \in [Conns -> Nat]
  BY <1>7, <1>8 DEF ReleasesOK
<1>10. \A q \in Panes : \A i, j \in DOMAIN commands'[q] :
          commands'[q][i].type = "release" /\ commands'[q][j].type = "release"
            /\ commands'[q][i].conn = commands'[q][j].conn => i = j
  <2> SUFFICES ASSUME NEW q \in Panes, NEW i \in DOMAIN commands'[q], NEW j \in DOMAIN commands'[q],
                      commands'[q][i].type = "release" /\ commands'[q][j].type = "release",
                      commands'[q][i].conn = commands'[q][j].conn
               PROVE  i = j
    OBVIOUS
  <2>1. CASE q = p
    <3>1. i \in Nat /\ j \in Nat /\ i + 1 = j + 1
      BY <1>1, <1>2, <2>1 DEF ReleasesOK
    <3> QED
      BY <3>1
  <2>2. CASE q # p
    BY <1>2, <2>2 DEF ReleasesOK
  <2> QED
    BY <2>1, <2>2
<1>11. ReleasesOK'
  BY <1>8, <1>9, <1>10 DEF ReleasesOK
<1> QED
  BY <1>1, <1>3, <1>11

\* The workers of other leases go on, and nothing is handed to one that has nothing.
LEMMA WorkersGoOn ==
    ASSUME WorkersOK, UNCHANGED <<issued, broken, base, record, screen>>, failed' \in [Leases -> BOOLEAN], intruded' \subseteq Leases,
           worker' \in [Leases -> {"unstarted", "idle", "writing", "drained", "exited"}],
           \A l \in Leases : worker'[l] = "writing" => worker[l] = "writing",
           DOMAIN ready' = Leases, \A l \in Leases : ready'[l] = <<>> \/ ready'[l] = ready[l]
    PROVE  WorkersOK'
<1>1. Revisions' = Revisions /\ \A pub : IsPublication(pub) => IsPublication(pub)'
  BY DEF Revisions, IsPublication
<1>2. \A l \in Leases : ready'[l] # <<>> => ready'[l] = <<ready'[l][1]>> /\ IsPublication(ready[l][1])'
  BY <1>1 DEF WorkersOK
<1>3. \A l \in Leases : worker'[l] = "writing" => IsPublication(record[l])'
  BY <1>1 DEF WorkersOK
<1> QED
  BY <1>1, <1>2, <1>3 DEF WorkersOK

LEMMA DamageTyped ==
    /\ NoDamage \in [keyframe : BOOLEAN, barrier : BOOLEAN, rows : SUBSET Rows]
    /\ \A b \in BOOLEAN : FullDamage(b) \in [keyframe : BOOLEAN, barrier : BOOLEAN, rows : SUBSET Rows]
BY DEF NoDamage, FullDamage

\* A pane that publishes nothing any more, or to another lease or for another epoch.
LEMMA PublicationsEnd ==
    ASSUME PublicationsOK, UNCHANGED issued, NEW p \in Panes,
           lease' \in [Panes -> Leases \cup {None}], revision' \in [Panes -> Revisions],
           epoch' \in [Panes -> Nat], version' \in [Panes -> Nat],
           damage' \in [Panes -> [keyframe : BOOLEAN, barrier : BOOLEAN, rows : SUBSET Rows]],
           pending' = [pending EXCEPT ![p] = None], snapshot' = [snapshot EXCEPT ![p] = None]
    PROVE  PublicationsOK'
<1>1. Revisions' = Revisions /\ \A pub : IsPublication(pub) => IsPublication(pub)'
  BY DEF Revisions, IsPublication
<1>2. DOMAIN snapshot' = Panes /\ \A q \in Panes : snapshot'[q] = IF q = p THEN None ELSE snapshot[q]
  BY DEF PublicationsOK
<1>3. DOMAIN pending' = Panes /\ \A q \in Panes : pending'[q] = IF q = p THEN None ELSE pending[q]
  BY DEF PublicationsOK
<1> QED
  BY <1>1, <1>2, <1>3 DEF PublicationsOK

LEMMA ForgetKeeps ==
    ASSUME PublicationsOK, WorkersOK, BuffersOK, NEW p \in Panes, Forget(p),
           UNCHANGED <<issued, broken, base, record, screen, worker, stage>>, failed' \in [Leases -> BOOLEAN],
           intruded' \subseteq Leases
    PROVE  PublicationsOK' /\ WorkersOK' /\ BuffersOK'
<1>1. Unbind(p) /\ UNCHANGED <<epoch, version>>
  BY DEF Forget
<1>2. lease' \in [Panes -> Leases \cup {None}] /\ revision' \in [Panes -> Revisions]
  BY DEF Forget, PublicationsOK, Revisions
<1>3. damage' \in [Panes -> [keyframe : BOOLEAN, barrier : BOOLEAN, rows : SUBSET Rows]]
  BY DamageTyped DEF Forget, PublicationsOK
<1>4. PublicationsOK'
  BY <1>1, <1>2, <1>3, PublicationsEnd DEF PublicationsOK, Unbind
<1>5. BuffersOK' /\ DOMAIN ready' = Leases /\ \A l \in Leases : ready'[l] = <<>> \/ ready'[l] = ready[l]
  BY <1>1, UnbindKeeps
<1>6. WorkersOK'
  BY <1>5, WorkersGoOn DEF WorkersOK
<1> QED
  BY <1>4, <1>5, <1>6

LEMMA InstallKeeps ==
    ASSUME PublicationsOK, WorkersOK, BuffersOK, TerminalsOK, NEW p \in Panes, NEW command \in Command,
           command.type = "install", runInstall(p, command),
           UNCHANGED <<issued, failed, broken, base, record, screen, stage, text, history, draining>>
    PROVE  PublicationsOK' /\ WorkersOK' /\ BuffersOK' /\ TerminalsOK'
<1> DEFINE l == <<command.conn, command.slot>>
<1>1. /\ Unbind(p) /\ size' = [size EXCEPT ![p] = command.size] /\ lease' = [lease EXCEPT ![p] = l]
      /\ revision' = [revision EXCEPT ![p] = command.revision] /\ epoch' = [epoch EXCEPT ![p] = @ + 1]
      /\ version' = [version EXCEPT ![p] = 0] /\ damage' = [damage EXCEPT ![p] = FullDamage(TRUE)]
      /\ worker' = [worker EXCEPT ![l] = IF @ = "unstarted" THEN "idle" ELSE @] /\ UNCHANGED intruded
  BY DEF runInstall
<1>2. l \in Leases /\ command.revision \in Revisions /\ command.size \in Slots
  BY DEF Command, Leases, Revisions
<1> HIDE DEF l
<1>3. lease' \in [Panes -> Leases \cup {None}]
  BY <1>1, <1>2 DEF PublicationsOK
<1>4. revision' \in [Panes -> Revisions] /\ epoch' \in [Panes -> Nat] /\ version' \in [Panes -> Nat]
  BY <1>1, <1>2 DEF PublicationsOK, Revisions
<1>5. damage' \in [Panes -> [keyframe : BOOLEAN, barrier : BOOLEAN, rows : SUBSET Rows]]
  BY <1>1, DamageTyped DEF PublicationsOK
<1>6. PublicationsOK'
  BY <1>1, <1>3, <1>4, <1>5, PublicationsEnd DEF Unbind
<1>7. BuffersOK' /\ DOMAIN ready' = Leases /\ \A m \in Leases : ready'[m] = <<>> \/ ready'[m] = ready[m]
  BY <1>1, UnbindKeeps
<1>8. /\ worker' \in [Leases -> {"unstarted", "idle", "writing", "drained", "exited"}]
      /\ \A m \in Leases : worker'[m] = "writing" => worker[m] = "writing"
  BY <1>1, <1>2 DEF WorkersOK
<1>9. WorkersOK'
  BY <1>1, <1>7, <1>8, WorkersGoOn DEF WorkersOK
<1>10. TerminalsOK'
  BY <1>1, <1>2 DEF TerminalsOK
<1> QED
  BY <1>6, <1>7, <1>9, <1>10

LEMMA RunsKeep ==
    ASSUME IInv, NEW p \in Panes, runCommand(p)
    PROVE  IInv'
<1> DEFINE command == Head(commands[p])
<1>1. /\ commands[p] # <<>> /\ commands' = [commands EXCEPT ![p] = Tail(@)]
      /\ UNCHANGED <<budget, issued, instance, due, current, applying, todo, still, closed, stage,
                     text, history, draining, failed, broken, base, record, screen>>
      /\ \/ command.type = "install" /\ runInstall(p, command)
         \/ command.type = "release" /\ runRelease(p, command)
         \/ command.type = "detach" /\ runDetach(p, command)
  BY DEF runCommand
<1>2. InstancesOK /\ CommandsOK /\ ReleasesOK /\ TerminalsOK /\ PublicationsOK /\ WorkersOK /\ BuffersOK
  BY DEF IInv
<1> HIDE DEF command
<1>3. command = Head(commands[p])
  BY DEF command
<1>4. CommandsOK' /\ ReleasesOK' /\ command \in Command
  <2>1. owed' = IF command.type = "release" THEN [owed EXCEPT ![command.conn] = @ - 1] ELSE owed
    BY <1>1 DEF runInstall, runRelease, runDetach
  <2> QED
    BY <1>1, <1>2, <1>3, <2>1, CommandTaken
<1>5. failed' \in [Leases -> BOOLEAN]
  BY <1>1, <1>2 DEF WorkersOK
<1>8. intruded' \subseteq Leases
  <2>1. intruded \subseteq Leases /\ OtherLeases(p) \subseteq Leases
    BY <1>2 DEF OtherLeases, PublicationsOK, WorkersOK
  <2>2. intruded' \subseteq intruded \cup OtherLeases(p)
    BY <1>1 DEF runInstall, runRelease, runDetach
  <2> QED
    BY <2>1, <2>2
<1>6. /\ DOMAIN returned' = Conns /\ \A d \in Conns : returned'[d] \in Seq(Slots)
      /\ PublicationsOK' /\ WorkersOK' /\ BuffersOK' /\ TerminalsOK'
  <2>1. CASE command.type = "install" /\ runInstall(p, command)
    <3>1. PublicationsOK' /\ WorkersOK' /\ BuffersOK' /\ TerminalsOK'
      BY <1>1, <1>2, <1>4, <2>1, InstallKeeps
    <3> QED
      BY <1>2, <2>1, <3>1 DEF runInstall, InstancesOK
  <2>2. CASE command.type = "release" /\ runRelease(p, command)
    <3>1. Forget(p) /\ UNCHANGED <<size, worker>>
      BY <2>2 DEF runRelease
    <3>2. PublicationsOK' /\ WorkersOK' /\ BuffersOK' /\ TerminalsOK'
      BY <1>1, <1>2, <1>5, <1>8, <3>1, ForgetKeeps, TerminalsStay DEF terminalVars
    <3>3. command.conn \in Conns
      BY <1>4 DEF Command
    <3>4. returned' = [returned EXCEPT ![command.conn] = IF lease[p] = None THEN @ ELSE Append(@, lease[p][2])]
      BY <2>2 DEF runRelease
    <3>5. lease[p] # None => Append(returned[command.conn], lease[p][2]) \in Seq(Slots)
      BY <1>2, <3>3 DEF InstancesOK, PublicationsOK, Leases
    <3> QED
      BY <1>2, <3>2, <3>3, <3>4, <3>5 DEF InstancesOK
  <2>3. CASE command.type = "detach" /\ runDetach(p, command)
    <3>1. UNCHANGED <<returned, size, worker, intruded>> /\ (Forget(p) \/ UNCHANGED <<publicationVars, ready>>)
      BY <2>3 DEF runDetach
    <3>2. TerminalsOK'
      BY <1>1, <1>2, <3>1, TerminalsStay DEF terminalVars
    <3>3. PublicationsOK' /\ WorkersOK' /\ BuffersOK'
      <4>1. CASE Forget(p)
        BY <1>1, <1>2, <1>5, <1>8, <3>1, <4>1, ForgetKeeps
      <4>2. CASE UNCHANGED <<publicationVars, ready>>
        BY <1>1, <1>2, <3>1, <4>2, PublicationsStay, WorkersStay, BuffersStay DEF publicationVars, workerVars
      <4> QED
        BY <3>1, <4>1, <4>2
    <3> QED
      BY <1>2, <3>1, <3>2, <3>3 DEF InstancesOK
  <2> QED
    BY <1>1, <2>1, <2>2, <2>3
<1>7. InstancesOK'
  BY <1>1, <1>2, <1>6 DEF InstancesOK, Revisions
<1> QED
  BY <1>4, <1>6, <1>7 DEF IInv

-----------------------------------------------------------------------------
(* The rest of a pane *)

LEMMA InstancesStay ==
    ASSUME InstancesOK, UNCHANGED <<issued, instance, due, current, applying, todo, still, returned>>,
           budget' \in [Happenings -> Nat], closed' \in [Conns -> BOOLEAN],
           stage' \in [Panes -> {"running", "stopping", "exited"}]
    PROVE  InstancesOK'
BY DEF InstancesOK, Revisions

\* A step that leaves the instances and the channels alone.
LEMMA OthersStay ==
    ASSUME IInv, UNCHANGED <<issued, instanceVars, commands, stage>>,
           budget' \in [Happenings -> Nat], closed' \in [Conns -> BOOLEAN]
    PROVE  InstancesOK' /\ CommandsOK' /\ ReleasesOK'
<1>1. InstancesOK /\ CommandsOK /\ ReleasesOK /\ UNCHANGED <<instance, due, current, applying, todo, still, owed, returned>>
  BY DEF IInv, instanceVars, handoffVars
<1>2. stage' \in [Panes -> {"running", "stopping", "exited"}]
  BY <1>1 DEF InstancesOK
<1> QED
  BY <1>1, <1>2, InstancesStay, CommandsStay, ReleasesStay

\* The buffers stay if what was prepared is cancelled.
LEMMA CancelKeeps ==
    ASSUME PublicationsOK, WorkersOK, BuffersOK, NEW p \in Panes, free' = Released(Cancelled(p)),
           pending' = [pending EXCEPT ![p] = None], UNCHANGED <<ready, stage>>
    PROVE  BuffersOK'
<1> DEFINE c == Cancelled(p)
<1>1. c = <<>> \/ c = <<c[1]>>
  BY DEF Cancelled
<1>2. \A q \in Panes : Prepared(q)' + Holds(c, q) = Prepared(q) /\ Prepared(q)' \in Nat
  BY PreparedDrops
<1>3. \A q \in Panes : Queued(q)' = Queued(q) /\ Queued(q) \in Nat
  BY QueuesStay, QueuesAreCounted
<1>4. \A q \in Panes : free[q] \in Nat /\ Holds(c, q) \in Nat
  BY DEF BuffersOK, Holds
<1>5. \A q \in Panes : Released(c)[q] = free[q] + Holds(c, q)
  <2> HIDE DEF c
  <2> QED
    BY <1>1, ReleasedFromOne
<1>6. free' = Released(c) /\ DOMAIN Released(c) = Panes /\ Released(c) = [q \in Panes |-> Released(c)[q]]
  BY DEF Released
<1> HIDE DEF c
<1>7. free' \in [Panes -> Nat]
  BY <1>4, <1>5, <1>6
<1>8. \A q \in Panes : Buffers(q)' = Buffers(q)
  BY <1>2, <1>3, <1>4, <1>5, <1>6 DEF Buffers
<1> QED
  BY <1>7, <1>8, BuffersMove

LEMMA TogglesKeep ==
    ASSUME IInv, NEW p \in Panes, toggleHistory(p)
    PROVE  IInv'
<1>1. /\ Spend("history") /\ history' = [history EXCEPT ![p] = ~@]
      /\ UNCHANGED <<issued, instanceVars, closed, stage, commands, size, text, draining,
                     workerVars, screen, intruded>>
  BY DEF toggleHistory
<1>2. PublicationsOK /\ WorkersOK /\ BuffersOK /\ TerminalsOK /\ InstancesOK
  BY DEF IInv
<1>3. budget' \in [Happenings -> Nat] /\ closed' \in [Conns -> BOOLEAN]
  BY <1>1, <1>2, SpendKeepsBudget DEF Happenings, InstancesOK
<1>4. InstancesOK' /\ CommandsOK' /\ ReleasesOK'
  BY <1>1, <1>3, OthersStay
<1>5. TerminalsOK' /\ WorkersOK'
  BY <1>1, <1>2, WorkersStay DEF TerminalsOK
<1>6. CASE UNCHANGED publicationVars
  <2>1. PublicationsOK' /\ BuffersOK'
    BY <1>1, <1>2, <1>6, PublicationsStay, BuffersStay DEF publicationVars, workerVars
  <2> QED
    BY <1>4, <1>5, <2>1 DEF IInv
<1>7. CASE /\ free' = Released(Cancelled(p))
           /\ pending' = [pending EXCEPT ![p] = None]
           /\ snapshot' = [snapshot EXCEPT ![p] = None]
           /\ epoch' = [epoch EXCEPT ![p] = @ + 1]
           /\ version' = [version EXCEPT ![p] = 0]
           /\ damage' = [damage EXCEPT ![p] = FullDamage(BarrierIsDue(p))]
           /\ UNCHANGED <<lease, revision>>
  <2>1. BuffersOK'
    BY <1>1, <1>2, <1>7, CancelKeeps DEF workerVars
  <2>2. BarrierIsDue(p) \in BOOLEAN
    BY DEF BarrierIsDue
  <2>3. FullDamage(BarrierIsDue(p)) \in [keyframe : BOOLEAN, barrier : BOOLEAN, rows : SUBSET Rows]
    BY <1>2, <2>2, DamageTyped
  <2>4. damage' \in [Panes -> [keyframe : BOOLEAN, barrier : BOOLEAN, rows : SUBSET Rows]]
    BY <1>2, <1>7, <2>3 DEF PublicationsOK
  <2>5. /\ lease' \in [Panes -> Leases \cup {None}] /\ revision' \in [Panes -> Revisions]
        /\ epoch' \in [Panes -> Nat] /\ version' \in [Panes -> Nat]
    BY <1>2, <1>7 DEF PublicationsOK
  <2>6. PublicationsOK'
    BY <1>1, <1>2, <1>7, <2>4, <2>5, PublicationsEnd
  <2> QED
    BY <1>4, <1>5, <2>1, <2>6 DEF IInv
<1> QED
  BY <1>6, <1>7 DEF toggleHistory

LEMMA DrainsKeep ==
    ASSUME IInv, NEW p \in Panes, startDrain(p) \/ completeDrain(p)
    PROVE  IInv'
<1>1. /\ draining' = [draining EXCEPT ![p] = "reading"] \/ draining' = [draining EXCEPT ![p] = "no"]
      /\ UNCHANGED <<issued, instanceVars, closed, stage, commands, size, text, history,
                     publicationVars, workerVars, screen, intruded>>
  BY DEF startDrain, completeDrain
<1>2. PublicationsOK /\ WorkersOK /\ BuffersOK /\ TerminalsOK /\ InstancesOK
  BY DEF IInv
<1>3. budget' \in [Happenings -> Nat] /\ closed' \in [Conns -> BOOLEAN]
  BY <1>1, <1>2, SpendKeepsBudget DEF Happenings, InstancesOK, startDrain, completeDrain
<1>4. InstancesOK' /\ CommandsOK' /\ ReleasesOK'
  BY <1>1, <1>3, OthersStay
<1>5. TerminalsOK'
  BY <1>1, <1>2 DEF TerminalsOK
<1>6. PublicationsOK' /\ WorkersOK' /\ BuffersOK'
  BY <1>1, <1>2, PublicationsStay, WorkersStay, BuffersStay DEF publicationVars, workerVars
<1> QED
  BY <1>4, <1>5, <1>6 DEF IInv

LEMMA ChunksKeep ==
    ASSUME IInv, NEW p \in Panes, applyPTYChunk(p)
    PROVE  IInv'
<1>1. /\ draining' = [draining EXCEPT ![p] = "read"]
      /\ UNCHANGED <<budget, issued, instanceVars, closed, stage, commands, size, history,
                     lease, revision, epoch, version, snapshot, pending, free, workerVars, screen, intruded>>
  BY DEF applyPTYChunk
<1>2. PICK r \in Rows :
         /\ text' = [text EXCEPT ![p][r] = 1 - @]
         /\ damage' = IF lease[p] # None /\ ~history[p] THEN [damage EXCEPT ![p].rows = @ \cup {r}] ELSE damage
  BY DEF applyPTYChunk
<1>3. PublicationsOK /\ WorkersOK /\ BuffersOK /\ TerminalsOK /\ InstancesOK
  BY DEF IInv
<1>4. InstancesOK' /\ CommandsOK' /\ ReleasesOK'
  BY <1>1, <1>3, OthersStay DEF InstancesOK
<1>5. TerminalsOK'
  <2>1. text' \in [Panes -> [Rows -> {0, 1}]]
    BY <1>2, <1>3 DEF TerminalsOK
  <2> QED
    BY <1>1, <1>3, <2>1 DEF TerminalsOK
<1>6. damage' \in [Panes -> [keyframe : BOOLEAN, barrier : BOOLEAN, rows : SUBSET Rows]]
  <2>1. damage \in [Panes -> [keyframe : BOOLEAN, barrier : BOOLEAN, rows : SUBSET Rows]]
    BY <1>3 DEF PublicationsOK
  <2>2. [damage EXCEPT ![p].rows = @ \cup {r}] \in [Panes -> [keyframe : BOOLEAN, barrier : BOOLEAN, rows : SUBSET Rows]]
    BY <1>2, <2>1
  <2> QED
    BY <1>2, <2>1, <2>2
<1>7. PublicationsOK'
  BY <1>1, <1>3, <1>6 DEF PublicationsOK, IsPublication, Revisions
<1>8. WorkersOK' /\ BuffersOK'
  BY <1>1, <1>3, WorkersStay, BuffersStay DEF workerVars
<1> QED
  BY <1>4, <1>5, <1>7, <1>8 DEF IInv

\* What a pane prepares.
LEMMA PreparesPublication ==
    ASSUME PublicationsOK, TerminalsOK, NEW p \in Panes, NEW keyframe \in BOOLEAN,
           damage[p].barrier => keyframe, Len(issued) \in Nat
    PROVE  /\ IsPublication(Publication(p, keyframe)) /\ Publication(p, keyframe).pane = p
           /\ Publication(p, keyframe).keyframe = keyframe /\ Publication(p, keyframe) # None
<1>1. Shown(p) \in Grid /\ \A r \in Rows : Shown(p)[r] \in Contents
  BY DEF Shown, Grid, Contents, ScrolledBack, TerminalsOK
<1>2. (IF keyframe THEN Rows ELSE Changed(p)) \subseteq Rows
  BY DEF Changed, PublicationsOK
<1> DEFINE some == IF keyframe THEN Rows ELSE Changed(p)
           rows == [r \in some |-> Shown(p)[r]]
<1>3. rows \in [some -> Contents]
  BY <1>1, <1>2
<1>4. rows \in UNION {[part -> Contents] : part \in SUBSET Rows}
  BY <1>2, <1>3
<1>5. DOMAIN rows = some
  OBVIOUS
<1>6. /\ epoch[p] \in Nat /\ damage[p].barrier \in BOOLEAN /\ version[p] \in Nat /\ revision[p] \in Revisions
      /\ size[p] \in Slots /\ revision[p] \in Nat
  BY DEF PublicationsOK, TerminalsOK, Revisions
<1>7. Publication(p, keyframe) =
        [pane |-> p, epoch |-> epoch[p], keyframe |-> keyframe, barrier |-> damage[p].barrier,
         base |-> IF keyframe THEN 0 ELSE version[p], target |-> version[p] + 1,
         revision |-> revision[p], size |-> size[p], rows |-> rows]
  BY DEF Publication
<1> HIDE DEF rows
<1>8. Publication(p, keyframe) \in Publications
  BY <1>4, <1>6, <1>7 DEF Publications
<1>9. Publication(p, keyframe) # None
  BY <1>8, NoneIsNothing
<1>10. /\ Publication(p, keyframe).revision \in Revisions
       /\ Publication(p, keyframe).barrier => Publication(p, keyframe).keyframe
       /\ Publication(p, keyframe).keyframe = keyframe
       /\ Publication(p, keyframe).pane = p
       /\ Publication(p, keyframe).rows = rows
  BY <1>6, <1>7
<1>11. keyframe => DOMAIN rows = Rows
  BY <1>5
<1> QED
  BY <1>8, <1>9, <1>10, <1>11 DEF IsPublication

LEMMA PreparationsKeep ==
    ASSUME IInv, NEW p \in Panes, prepare(p)
    PROVE  IInv'
<1>1. /\ pending[p] = None /\ free[p] > 0
      /\ damage' = [damage EXCEPT ![p] = NoDamage]
      /\ UNCHANGED <<budget, issued, instanceVars, closed, stage, commands, terminalVars, lease, revision,
                     epoch, version, snapshot, workerVars, screen, intruded>>
  BY DEF prepare
<1>2. PICK keyframe \in BOOLEAN :
         /\ damage[p].keyframe \/ damage[p].barrier \/ snapshot[p] = None => keyframe
         /\ IF ~keyframe /\ Changed(p) = {}
              THEN UNCHANGED <<pending, free>>
              ELSE /\ pending' = [pending EXCEPT ![p] = Publication(p, keyframe)]
                   /\ free' = [free EXCEPT ![p] = @ - 1]
  BY DEF prepare
<1>3. PublicationsOK /\ WorkersOK /\ BuffersOK /\ TerminalsOK /\ InstancesOK
  BY DEF IInv
<1>4. InstancesOK' /\ CommandsOK' /\ ReleasesOK'
  BY <1>1, <1>3, OthersStay DEF InstancesOK
<1>5. TerminalsOK' /\ WorkersOK'
  BY <1>1, <1>3, TerminalsStay, WorkersStay
<1>6. damage' \in [Panes -> [keyframe : BOOLEAN, barrier : BOOLEAN, rows : SUBSET Rows]]
  BY <1>1, <1>3, DamageTyped DEF PublicationsOK
<1>7. \A pub : IsPublication(pub) => IsPublication(pub)'
  BY <1>1 DEF IsPublication, Revisions
<1>8. CASE UNCHANGED <<pending, free>>
  <2>1. PublicationsOK'
    BY <1>1, <1>3, <1>6, <1>7, <1>8 DEF PublicationsOK, Revisions
  <2>2. BuffersOK'
    BY <1>1, <1>3, <1>8, BuffersStay DEF workerVars
  <2> QED
    BY <1>4, <1>5, <2>1, <2>2 DEF IInv
<1>9. CASE /\ pending' = [pending EXCEPT ![p] = Publication(p, keyframe)]
           /\ free' = [free EXCEPT ![p] = @ - 1]
  <2>1. PICK pub : pub = Publication(p, keyframe)
    OBVIOUS
  <2>2. Len(issued) \in Nat /\ (damage[p].barrier => keyframe)
    BY <1>2, <1>3 DEF InstancesOK
  <2>3. IsPublication(pub) /\ pub.pane = p /\ pub # None /\ (snapshot[p] = None => pub.keyframe)
    BY <1>2, <1>3, <2>1, <2>2, PreparesPublication
  <2>4. DOMAIN pending' = Panes /\ \A q \in Panes : pending'[q] = IF q = p THEN pub ELSE pending[q]
    BY <1>3, <1>9, <2>1 DEF PublicationsOK
  <2>5. PublicationsOK'
    BY <1>1, <1>3, <1>6, <1>7, <2>3, <2>4 DEF PublicationsOK, Revisions
  <2>6. free' \in [Panes -> Nat] /\ \A q \in Panes : free'[q] = (IF q = p THEN free[q] - 1 ELSE free[q]) /\ free[q] \in Nat
    BY <1>1, <1>3, <1>9 DEF BuffersOK
  <2>7. \A q \in Panes : Queued(q)' = Queued(q) /\ Queued(q) \in Nat
    BY <1>1, QueuesStay, QueuesAreCounted DEF workerVars
  <2>8. \A q \in Panes : Prepared(q)' = IF q = p THEN 1 ELSE Prepared(q)
    BY <2>3, <2>4 DEF Prepared
  <2>9. \A q \in Panes : Prepared(q) \in Nat /\ Prepared(p) = 0
    BY <1>1 DEF Prepared
  <2>10. \A q \in Panes : Buffers(q)' = Buffers(q)
    BY <2>6, <2>7, <2>8, <2>9 DEF Buffers
  <2>11. BuffersOK'
    BY <1>1, <1>3, <2>6, <2>10, BuffersMove
  <2> QED
    BY <1>4, <1>5, <2>5, <2>11 DEF IInv
<1> QED
  BY <1>2, <1>8, <1>9

\* The rows of a publication, over a grid or over nothing.
LEMMA OverlaidGrid ==
    ASSUME NEW pub, pub \in Publications, NEW rows, rows \in Grid \/ DOMAIN pub.rows = Rows
    PROVE  Overlaid(rows, pub.rows) \in Grid
<1>1. \A r \in DOMAIN pub.rows : pub.rows[r] \in Contents
  <2>1. PICK some \in SUBSET Rows : pub.rows \in [some -> Contents]
    BY DEF Publications
  <2> QED
    BY <2>1
<1>2. rows \in Grid => \A r \in Rows : rows[r] \in Contents
  BY DEF Grid
<1> QED
  BY <1>1, <1>2 DEF Overlaid, Grid

LEMMA HandsOffKeep ==
    ASSUME IInv, NEW p \in Panes, handedOff(p)
    PROVE  IInv'
<1>1. /\ pending[p] # None /\ lease[p] # None
      /\ ready[lease[p]] = <<>>
      /\ ready' = [ready EXCEPT ![lease[p]] = <<pending[p]>>]
      /\ version' = [version EXCEPT ![p] = pending[p].target]
      /\ snapshot' = [snapshot EXCEPT ![p] = SnapshotAfter(p)]
      /\ pending' = [pending EXCEPT ![p] = None]
      /\ intruded' = intruded \cup ({lease[p]} \cap OtherLeases(p))
      /\ UNCHANGED <<budget, issued, instanceVars, closed, stage, commands, terminalVars, lease, revision,
                     epoch, damage, free, worker, failed, broken, base, record, screen>>
  BY DEF handedOff
<1>2. PublicationsOK /\ WorkersOK /\ BuffersOK /\ TerminalsOK /\ InstancesOK
  BY DEF IInv
<1>3. InstancesOK' /\ CommandsOK' /\ ReleasesOK'
  BY <1>1, <1>2, OthersStay DEF InstancesOK
<1>4. TerminalsOK'
  BY <1>1, <1>2, TerminalsStay
<1>5. PICK pub : pub = pending[p]
  OBVIOUS
<1>6. PICK l \in Leases : l = lease[p]
  BY <1>1, <1>2 DEF PublicationsOK
<1>7. IsPublication(pub) /\ pub.pane = p /\ pub # None /\ (snapshot[p] = None => pub.keyframe)
  BY <1>1, <1>2, <1>5 DEF PublicationsOK
<1>8. \A some : IsPublication(some) => IsPublication(some)'
  BY <1>1 DEF IsPublication, Revisions
<1>9. PublicationsOK'
  <2>1. SnapshotAfter(p) \in Grid
    <3>1. snapshot[p] \in Grid \/ DOMAIN pub.rows = Rows
      BY <1>2, <1>7 DEF PublicationsOK, IsPublication
    <3>2. pub \in Publications
      BY <1>7 DEF IsPublication
    <3> QED
      BY <1>5, <3>1, <3>2, OverlaidGrid DEF SnapshotAfter
  <2>2. DOMAIN snapshot' = Panes /\ \A q \in Panes : snapshot'[q] = IF q = p THEN SnapshotAfter(p) ELSE snapshot[q]
    BY <1>1, <1>2 DEF PublicationsOK
  <2>3. version' \in [Panes -> Nat]
    BY <1>1, <1>2, <1>5, <1>7 DEF PublicationsOK, IsPublication, Publications
  <2>4. DOMAIN pending' = Panes /\ \A q \in Panes : pending'[q] = IF q = p THEN None ELSE pending[q]
    BY <1>1, <1>2 DEF PublicationsOK
  <2> HIDE DEF SnapshotAfter
  <2> QED
    BY <1>1, <1>2, <1>8, <2>1, <2>2, <2>3, <2>4 DEF PublicationsOK, Revisions
<1>10. DOMAIN ready' = Leases /\ \A m \in Leases : ready'[m] = IF m = l THEN <<pub>> ELSE ready[m]
  BY <1>1, <1>2, <1>5, <1>6 DEF WorkersOK
<1>11. WorkersOK'
  <2>1. \A m \in Leases : (ready[m] # <<>> => ready[m] = <<ready[m][1]>> /\ IsPublication(ready[m][1]))'
    <3> SUFFICES ASSUME NEW m \in Leases, ready'[m] # <<>>
                 PROVE  ready'[m] = <<ready'[m][1]>> /\ IsPublication(ready[m][1])'
      OBVIOUS
    <3>1. CASE m = l
      <4>1. ready'[m] = <<pub>> /\ ready'[m][1] = pub
        BY <1>10, <3>1
      <4>2. IsPublication(pub)'
        BY <1>7, <1>8
      <4> QED
        BY <4>1, <4>2
    <3>2. CASE m # l
      <4>1. ready'[m] = ready[m]
        BY <1>10, <3>2
      <4> QED
        BY <1>2, <1>8, <4>1 DEF WorkersOK
    <3> QED
      BY <3>1, <3>2
  <2>2. \A m \in Leases : (worker[m] = "writing" => IsPublication(record[m]))'
    BY <1>1, <1>2, <1>8 DEF WorkersOK
  <2>3. intruded' \subseteq Leases
    BY <1>1, <1>2, <1>6 DEF WorkersOK
  <2>4. /\ worker' \in [Leases -> {"unstarted", "idle", "writing", "drained", "exited"}]
        /\ failed' \in [Leases -> BOOLEAN] /\ broken' \in [Leases -> BOOLEAN]
        /\ base' \in [Leases -> [epoch : Nat, version : Nat]] /\ DOMAIN record' = Leases
        /\ screen' \in [Leases -> [revision : Revisions', size : 0 .. Cardinality(Panes), rows : Grid]]
    BY <1>1, <1>2 DEF WorkersOK, Revisions
  <2> QED
    BY <1>10, <2>1, <2>2, <2>3, <2>4 DEF WorkersOK
<1>12. BuffersOK'
  <2>1. \A q \in Panes : Queued(q)' = Queued(q) + (IF pub.pane = q THEN 1 ELSE 0)
    BY <1>1, <1>2, <1>6, <1>10, QueueFilled
  <2>2. \A q \in Panes : Queued(q) \in Nat
    BY QueuesAreCounted
  <2>3. \A q \in Panes : /\ Prepared(q)' = IF q = p THEN 0 ELSE Prepared(q)
                         /\ Prepared(q) \in Nat /\ Prepared(p) = 1
    BY <1>1, <1>2 DEF Prepared, PublicationsOK
  <2>4. free' = free /\ \A q \in Panes : free[q] \in Nat
    BY <1>1, <1>2 DEF BuffersOK
  <2>5. \A q \in Panes : Buffers(q)' = Buffers(q)
    BY <1>7, <2>1, <2>2, <2>3, <2>4 DEF Buffers
  <2>6. free' \in [Panes -> Nat]
    BY <1>1, <1>2 DEF BuffersOK
  <2> QED
    BY <1>1, <1>2, <2>5, <2>6, BuffersMove
<1> QED
  BY <1>3, <1>4, <1>9, <1>11, <1>12 DEF IInv

LEMMA FailuresKeep ==
    ASSUME IInv, NEW p \in Panes, seeFailure(p)
    PROVE  IInv'
<1>1. /\ lease[p] # None /\ failed' = [failed EXCEPT ![lease[p]] = FALSE]
      /\ Forget(p)
      /\ UNCHANGED <<budget, issued, instanceVars, closed, stage, commands, terminalVars, worker, broken,
                     base, record, screen, intruded>>
  BY DEF seeFailure
<1>2. PublicationsOK /\ WorkersOK /\ BuffersOK /\ TerminalsOK /\ InstancesOK
  BY DEF IInv
<1>3. InstancesOK' /\ CommandsOK' /\ ReleasesOK'
  BY <1>1, <1>2, OthersStay DEF InstancesOK
<1>4. TerminalsOK'
  BY <1>1, <1>2, TerminalsStay
<1>5. failed' \in [Leases -> BOOLEAN] /\ intruded' \subseteq Leases
  BY <1>1, <1>2 DEF WorkersOK
<1>6. PublicationsOK' /\ WorkersOK' /\ BuffersOK'
  BY <1>1, <1>2, <1>5, ForgetKeeps
<1> QED
  BY <1>3, <1>4, <1>6 DEF IInv

\* Of each connection that asked, one release is in the channel.
LEMMA UnansweredCounts ==
    ASSUME CommandsOK, ReleasesOK, NEW p \in Panes, NEW c \in Conns
    PROVE  Unanswered(p, c) = IF p \in Asked(c) THEN 1 ELSE 0
<1> DEFINE mine == {i \in DOMAIN commands[p] : commands[p][i].type = "release" /\ commands[p][i].conn = c}
<1>1. CASE p \in Asked(c)
  <2>1. PICK i \in DOMAIN commands[p] : IsReleaseOf(commands[p][i], c)
    BY <1>1 DEF Asked
  <2>2. mine = {i}
    BY <2>1 DEF ReleasesOK, IsReleaseOf
  <2> HIDE DEF mine
  <2>3. Cardinality(mine) = 1
    BY <2>2, FS_Singleton
  <2> QED
    BY <1>1, <2>3 DEF Unanswered, mine
<1>2. CASE p \notin Asked(c)
  <2>1. mine = {}
    BY <1>2 DEF Asked, IsReleaseOf
  <2> HIDE DEF mine
  <2>2. Cardinality(mine) = 0
    BY <2>1, FS_EmptySet
  <2> QED
    BY <1>2, <2>2 DEF Unanswered, mine
<1> QED
  BY <1>1, <1>2

LEMMA EndsKeep ==
    ASSUME IInv, NEW p \in Panes, mainDone(p)
    PROVE  IInv'
<1>1. /\ stage' = [stage EXCEPT ![p] = "exited"]
      /\ owed' = [c \in Conns |-> owed[c] - Unanswered(p, c)]
      /\ commands' = [commands EXCEPT ![p] = <<>>]
      /\ lease' = [lease EXCEPT ![p] = None] /\ revision' = [revision EXCEPT ![p] = 0]
      /\ epoch' = [epoch EXCEPT ![p] = 1] /\ version' = [version EXCEPT ![p] = 0]
      /\ snapshot' = [snapshot EXCEPT ![p] = None] /\ damage' = [damage EXCEPT ![p] = NoDamage]
      /\ pending' = [pending EXCEPT ![p] = None] /\ draining' = [draining EXCEPT ![p] = "no"]
      /\ UNCHANGED <<budget, issued, instance, due, current, applying, todo, still, returned, closed, size,
                     text, history, free, workerVars, screen, intruded>>
  BY DEF mainDone
<1>2. InstancesOK /\ CommandsOK /\ ReleasesOK /\ TerminalsOK /\ PublicationsOK /\ WorkersOK /\ BuffersOK
  BY DEF IInv
<1>3. stage' \in [Panes -> {"running", "stopping", "exited"}] /\ budget' \in [Happenings -> Nat]
        /\ closed' \in [Conns -> BOOLEAN]
  BY <1>1, <1>2 DEF InstancesOK
<1>4. InstancesOK'
  BY <1>1, <1>2, <1>3, InstancesStay
<1>5. \A q \in Panes : commands'[q] = IF q = p THEN <<>> ELSE commands[q]
  BY <1>1, <1>2 DEF CommandsOK
<1>6. CommandsOK'
  <2>1. <<>> \in Seq(Command)
    OBVIOUS
  <2> QED
    BY <1>1, <1>2, <1>5, <2>1 DEF CommandsOK, Command
<1>7. ReleasesOK'
  <2>1. \A c \in Conns : Asked(c)' = Asked(c) \ {p}
    BY <1>5 DEF Asked
  <2>2. \A c \in Conns : /\ owed[c] \in Nat /\ owed[c] = Cardinality(Asked(c)) /\ IsFiniteSet(Asked(c))
                         /\ instance[c] # "binding" => owed[c] = 0
    BY <1>2, FS_Subset DEF ReleasesOK, Asked
  <2>3. \A c \in Conns : /\ owed'[c] \in Nat /\ owed'[c] = Cardinality(Asked(c)')
                         /\ instance[c] # "binding" => owed'[c] = 0
    <3> SUFFICES ASSUME NEW c \in Conns
                 PROVE  /\ owed'[c] \in Nat /\ owed'[c] = Cardinality(Asked(c)')
                        /\ instance[c] # "binding" => owed'[c] = 0
      OBVIOUS
    <3>1. owed'[c] = owed[c] - (IF p \in Asked(c) THEN 1 ELSE 0)
      BY <1>1, <1>2, UnansweredCounts
    <3>2. CASE p \in Asked(c)
      <4>1. Cardinality(Asked(c) \ {p}) = Cardinality(Asked(c)) - 1 /\ IsFiniteSet(Asked(c) \ {p})
        BY <2>2, <3>2, FS_RemoveElement
      <4>2. Cardinality(Asked(c) \ {p}) \in Nat
        BY <4>1, FS_CardinalityType
      <4>3. Cardinality(Asked(c)') = Cardinality(Asked(c) \ {p})
        BY <2>1, Zenon
      <4>4. owed'[c] = owed[c] - 1
        BY <3>1, <3>2
      <4> HIDE DEF Asked
      <4> QED
        BY <2>2, <4>1, <4>2, <4>3, <4>4
    <3>3. CASE p \notin Asked(c)
      <4>1. Asked(c) \ {p} = Asked(c)
        BY <3>3
      <4>2. Cardinality(Asked(c)') = Cardinality(Asked(c))
        BY <2>1, <4>1, Zenon
      <4> QED
        BY <2>2, <3>1, <3>3, <4>2
    <3> QED
      BY <3>2, <3>3
  <2>4. owed' \in [Conns -> Nat]
    BY <1>1, <2>3
  <2>5. \A q \in Panes : \A i, j \in DOMAIN commands'[q] :
          commands'[q][i].type = "release" /\ commands'[q][j].type = "release"
            /\ commands'[q][i].conn = commands'[q][j].conn => i = j
    BY <1>2, <1>5 DEF ReleasesOK
  <2> QED
    BY <1>1, <2>3, <2>4, <2>5 DEF ReleasesOK
<1>8. TerminalsOK'
  BY <1>1, <1>2 DEF TerminalsOK
<1>9. PublicationsOK'
  <2>1. lease' \in [Panes -> Leases \cup {None}] /\ revision' \in [Panes -> Revisions]
    BY <1>1, <1>2 DEF PublicationsOK, Revisions
  <2>2. epoch' \in [Panes -> Nat] /\ version' \in [Panes -> Nat]
    BY <1>1, <1>2 DEF PublicationsOK
  <2>3. damage' \in [Panes -> [keyframe : BOOLEAN, barrier : BOOLEAN, rows : SUBSET Rows]]
    BY <1>1, <1>2, DamageTyped DEF PublicationsOK
  <2> QED
    BY <1>1, <1>2, <2>1, <2>2, <2>3, PublicationsEnd
<1>10. WorkersOK'
  BY <1>1, <1>2, WorkersStay
<1>11. BuffersOK'
  <2>1. \A q \in Panes : Queued(q)' = Queued(q) /\ Queued(q) \in Nat
    BY <1>1, QueuesStay, QueuesAreCounted DEF workerVars
  <2>2. \A q \in Panes : Prepared(q)' = (IF q = p THEN 0 ELSE Prepared(q)) /\ Prepared(q) \in {0, 1}
    BY <1>1, <1>2 DEF Prepared, PublicationsOK
  <2>3. free' = free /\ \A q \in Panes : free[q] \in Nat
    BY <1>1, <1>2 DEF BuffersOK
  <2>4. \A q \in Panes : Buffers(q)' <= Buffers(q) /\ (q # p => Buffers(q)' = Buffers(q)) /\ Buffers(q) \in Nat /\ Buffers(q)' \in Nat
    BY <2>1, <2>2, <2>3 DEF Buffers
  <2>5. \A q \in Panes : stage'[q] # "exited" => q # p /\ stage[q] # "exited"
    BY <1>1, <1>2 DEF InstancesOK
  <2>6. \A q \in Panes : Buffers(q) <= publicationBufferCount /\ publicationBufferCount \in Nat
    BY <1>2 DEF BuffersOK, publicationBufferCount
  <2>7. \A q \in Panes : Buffers(q)' <= publicationBufferCount
    BY <2>4, <2>6
  <2> QED
    BY <1>2, <2>3, <2>4, <2>5, <2>7 DEF BuffersOK
<1> QED
  BY <1>4, <1>6, <1>7, <1>8, <1>9, <1>10, <1>11 DEF IInv

-----------------------------------------------------------------------------
(* The confirmers *)

\* What a publication paints is a picture of the size and the revision of a plan.
LEMMA PaintedPicture ==
    ASSUME NEW picture, picture \in [revision : Revisions, size : 0 .. Cardinality(Panes), rows : Grid],
           NEW pub, IsPublication(pub)
    PROVE  Painted(picture, pub) \in [revision : Revisions, size : 0 .. Cardinality(Panes), rows : Grid]
<1>1. pub \in Publications /\ pub.revision \in Revisions /\ (pub.barrier => DOMAIN pub.rows = Rows)
  BY DEF IsPublication
<1>2. Overlaid(picture.rows, pub.rows) \in Grid
  BY <1>1, OverlaidGrid
<1>3. CASE pub.barrier
  <2>1. pub.size \in 0 .. Cardinality(Panes)
    BY <1>1, FS_CardinalityType DEF Publications, Slots
  <2>2. PICK some \in SUBSET Rows : pub.rows \in [some -> Contents]
    BY <1>1 DEF Publications
  <2>3. pub.rows \in Grid
    BY <1>1, <1>3, <2>2 DEF Grid
  <2> QED
    BY <1>1, <1>3, <2>1, <2>3 DEF Painted
<1>4. CASE ~pub.barrier
  BY <1>2, <1>4 DEF Painted
<1> QED
  BY <1>3, <1>4

\* A confirmer empties its queue and the buffer returns to its pane.
LEMMA TakingKeeps ==
    ASSUME WorkersOK, BuffersOK, NEW l \in Leases, ready' = [ready EXCEPT ![l] = <<>>],
           free' = Released(ready[l]), UNCHANGED <<pending, stage>>
    PROVE  BuffersOK'
<1>1. DOMAIN ready' = Leases /\ \A m \in Leases : ready'[m] = IF m = l THEN <<>> ELSE ready[m]
  BY DEF WorkersOK
<1>2. PICK queue : queue = ready[l]
  OBVIOUS
<1>3. queue = <<>> \/ queue = <<queue[1]>>
  BY <1>2 DEF WorkersOK
<1>4. \A q \in Panes : Queued(q)' \in Nat /\ Queued(q) = Queued(q)' + Holds(queue, q)
  BY <1>1, <1>2, QueueEmptied
<1>5. \A q \in Panes : Released(queue)[q] = free[q] + Holds(queue, q)
  BY <1>3, ReleasedFromOne
<1>6. \A q \in Panes : free[q] \in Nat /\ Holds(queue, q) \in Nat /\ Prepared(q)' = Prepared(q) /\ Prepared(q) \in Nat
  BY DEF BuffersOK, Holds, Prepared
<1>7. DOMAIN Released(queue) = Panes /\ Released(queue) = [q \in Panes |-> Released(queue)[q]] /\ free' = Released(queue)
  BY <1>2 DEF Released
<1>8. free' \in [Panes -> Nat]
  BY <1>5, <1>6, <1>7
<1>9. \A q \in Panes : Buffers(q)' = Buffers(q)
  BY <1>4, <1>5, <1>6, <1>7 DEF Buffers
<1> QED
  BY <1>8, <1>9, BuffersMove

LEMMA ConfirmersKeep ==
    ASSUME IInv, NEW l \in Leases, runConfirmer(l)
    PROVE  IInv'
<1>1. /\ UNCHANGED <<budget, issued, instanceVars, stage, commands, terminalVars, lease, revision, epoch,
                     version, snapshot, damage, pending, intruded>>
      /\ UNCHANGED <<ready, free>> \/ (ready' = [ready EXCEPT ![l] = <<>>] /\ free' = Released(ready[l]))
  BY DEF runConfirmer, takePublication, writeFrame, writeFails, drainAbandoned, closeWorkerDone, publicationVars
<1>2. PublicationsOK /\ WorkersOK /\ BuffersOK /\ TerminalsOK /\ InstancesOK
  BY DEF IInv
<1>3. l[1] \in Conns
  BY DEF Leases
<1>4. budget' \in [Happenings -> Nat] /\ closed' \in [Conns -> BOOLEAN]
  BY <1>1, <1>2, <1>3 DEF InstancesOK, runConfirmer, takePublication, writeFrame, writeFails, drainAbandoned,
                          closeWorkerDone, ReportFailure
<1>5. InstancesOK' /\ CommandsOK' /\ ReleasesOK'
  BY <1>1, <1>4, OthersStay
<1>6. TerminalsOK' /\ PublicationsOK'
  BY <1>1, <1>2, TerminalsStay, PublicationsStay
<1>7. BuffersOK'
  BY <1>1, <1>2, TakingKeeps, BuffersStay
<1>8. WorkersOK'
  <2>1. \A pub : IsPublication(pub) => IsPublication(pub)'
    BY <1>1 DEF IsPublication, Revisions
  <2>2. DOMAIN ready' = Leases /\ \A m \in Leases : ready'[m] = <<>> \/ ready'[m] = ready[m]
    BY <1>1, <1>2 DEF WorkersOK
  <2>3. \A m \in Leases : (ready[m] # <<>> => ready[m] = <<ready[m][1]>> /\ IsPublication(ready[m][1]))'
    BY <1>2, <2>1, <2>2 DEF WorkersOK
  <2>4. failed' \in [Leases -> BOOLEAN] /\ broken' \in [Leases -> BOOLEAN]
    BY <1>2 DEF WorkersOK, runConfirmer, takePublication, writeFrame, writeFails, drainAbandoned,
                closeWorkerDone, ReportFailure
  <2>5. worker' \in [Leases -> {"unstarted", "idle", "writing", "drained", "exited"}]
    BY <1>2 DEF WorkersOK, runConfirmer, takePublication, writeFrame, writeFails, drainAbandoned,
                closeWorkerDone
  <2>6. base' \in [Leases -> [epoch : Nat, version : Nat]]
    <3>1. base' # base => base' = [base EXCEPT ![l] = NoBase]
             \/ (ready[l] # <<>> /\ base' = [base EXCEPT ![l] = [epoch |-> ready[l][1].epoch, version |-> ready[l][1].target]])
      BY DEF runConfirmer, takePublication, writeFrame, writeFails, drainAbandoned, closeWorkerDone
    <3>2. ready[l] # <<>> => [epoch |-> ready[l][1].epoch, version |-> ready[l][1].target] \in [epoch : Nat, version : Nat]
      BY <1>2 DEF WorkersOK, IsPublication, Publications
    <3>3. NoBase \in [epoch : Nat, version : Nat] /\ base \in [Leases -> [epoch : Nat, version : Nat]]
      BY <1>2 DEF NoBase, WorkersOK
    <3> QED
      BY <3>1, <3>2, <3>3
  <2>7. DOMAIN record' = Leases /\ \A m \in Leases : (worker[m] = "writing" => IsPublication(record[m]))'
    <3>1. CASE takePublication(l)
      <4>1. \/ UNCHANGED <<worker, record>>
            \/ record' = [record EXCEPT ![l] = ready[l][1]] /\ ready[l] # <<>> /\ worker' = [worker EXCEPT ![l] = "writing"]
        BY <3>1 DEF takePublication
      <4> QED
        BY <1>2, <2>1, <4>1 DEF WorkersOK
    <3>2. CASE ~takePublication(l)
      <4>1. /\ record' = record \/ record' = [record EXCEPT ![l] = None]
            /\ \A m \in Leases : worker'[m] = "writing" => worker[m] = "writing" /\ record'[m] = record[m]
        BY <1>2, <3>2 DEF runConfirmer, writeFrame, writeFails, drainAbandoned, closeWorkerDone, WorkersOK
      <4> QED
        BY <1>2, <2>1, <4>1 DEF WorkersOK
    <3> QED
      BY <3>1, <3>2
  <2>8. screen' \in [Leases -> [revision : Revisions', size : 0 .. Cardinality(Panes), rows : Grid]]
    <3>1. screen \in [Leases -> [revision : Revisions, size : 0 .. Cardinality(Panes), rows : Grid]] /\ Revisions' = Revisions
      BY <1>1, <1>2 DEF WorkersOK, Revisions
    <3>2. CASE writeFrame(l)
      <4>1. screen' = [screen EXCEPT ![l] = Painted(@, record[l])] /\ IsPublication(record[l])
        BY <1>2, <3>2 DEF writeFrame, WorkersOK
      <4>2. Painted(screen[l], record[l]) \in [revision : Revisions, size : 0 .. Cardinality(Panes), rows : Grid]
        BY <3>1, <4>1, PaintedPicture
      <4> QED
        BY <3>1, <4>1, <4>2
    <3>3. CASE closeWorkerDone(l)
      <4>1. NoScreen \in [revision : Revisions, size : 0 .. Cardinality(Panes), rows : Grid]
        <5>1. Len(issued) \in Nat /\ Cardinality(Panes) \in Nat
          BY <1>2, FS_CardinalityType DEF InstancesOK
        <5> QED
          BY <5>1 DEF NoScreen, Revisions, Grid, Contents
      <4> QED
        BY <3>1, <3>3, <4>1 DEF closeWorkerDone
    <3>4. CASE takePublication(l) \/ writeFails(l) \/ drainAbandoned(l)
      BY <3>1, <3>4 DEF takePublication, writeFails, drainAbandoned
    <3> QED
      BY <3>2, <3>3, <3>4 DEF runConfirmer
  <2> QED
    BY <1>1, <1>2, <2>2, <2>3, <2>4, <2>5, <2>6, <2>7, <2>8 DEF WorkersOK
<1> QED
  BY <1>5, <1>6, <1>7, <1>8 DEF IInv

-----------------------------------------------------------------------------
(* The theorems about buffers *)

LEMMA InitIsAccounted ==
    ASSUME Init
    PROVE  IInv
<1> USE DEF Init
<1>1. InstancesOK
  <2>1. issued \in Seq(Projections) /\ Len(issued) = 0
    OBVIOUS
  <2>2. budget \in [Happenings -> Nat]
    BY BudgetsAssumption
  <2>3. \A c \in Conns : returned[c] \in Seq(Slots)
    OBVIOUS
  <2> QED
    BY <2>1, <2>2, <2>3 DEF InstancesOK, Revisions
<1>2. CommandsOK
  <2>1. <<>> \in Seq(Command)
    OBVIOUS
  <2> QED
    BY <2>1 DEF CommandsOK
<1>3. ReleasesOK
  <2>1. \A c \in Conns : Asked(c) = {}
    BY DEF Asked
  <2>2. Cardinality({}) = 0
    BY FS_EmptySet
  <2>3. \A c \in Conns : Cardinality(Asked(c)) = 0
    BY <2>1, <2>2
  <2> QED
    BY <2>3 DEF ReleasesOK
<1>4. TerminalsOK
  <2>1. ASSUME NEW p \in Panes PROVE 1 \in Slots
    <3>1. Cardinality(Panes) \in Nat /\ Cardinality(Panes) # 0
      BY FS_CardinalityType, FS_EmptySet
    <3> QED
      BY <3>1 DEF Slots
  <2> QED
    BY <2>1 DEF TerminalsOK
<1>5. PublicationsOK
  BY DamageTyped DEF PublicationsOK, Revisions
<1>6. WorkersOK
  <2>1. Cardinality(Panes) \in Nat
    BY FS_CardinalityType
  <2> QED
    BY <2>1 DEF WorkersOK, NoBase, NoScreen, Revisions, Grid, Contents
<1>7. BuffersOK
  <2>1. \A q \in Panes : QueuedAt(q) = {}
    BY DEF QueuedAt
  <2>2. \A q \in Panes : Queued(q) = Cardinality(QueuedAt(q)) /\ Queued(q) \in Nat
    BY QueuesAreCounted
  <2>3. \A q \in Panes : Queued(q) = 0
    BY <2>1, <2>2, FS_EmptySet
  <2>4. \A q \in Panes : Prepared(q) = 0 /\ free[q] = 2
    BY DEF Prepared, publicationBufferCount
  <2> QED
    BY <2>3, <2>4 DEF BuffersOK, Buffers, publicationBufferCount
<1> QED
  BY <1>1, <1>2, <1>3, <1>4, <1>5, <1>6, <1>7 DEF IInv

LEMMA StepKeepsAccount ==
    ASSUME IInv, [Next]_vars
    PROVE  IInv'
<1>1. ASSUME DaemonStep PROVE IInv'
  BY <1>1, ProjectionsKeep, StopsKeep DEF DaemonStep
<1>2. ASSUME NEW c \in Conns, InstanceProgress(c) \/ transportLost(c) \/ detachClientInstance(c) PROVE IInv'
  BY <1>2, TransitionsKeep, InstallationsKeep, DetachmentsKeep, HandoffsKeep DEF InstanceProgress
<1>3. ASSUME NEW p \in Panes, PaneLoop(p) PROVE IInv'
  BY <1>3, RunsKeep, TogglesKeep, DrainsKeep, ChunksKeep, PreparationsKeep, HandsOffKeep, FailuresKeep, EndsKeep
     DEF PaneLoop
<1>4. ASSUME NEW l \in Leases, runConfirmer(l) PROVE IInv'
  BY <1>4, ConfirmersKeep
<1>5. ASSUME UNCHANGED vars PROVE IInv'
  <2>1. UNCHANGED <<budget, issued, instanceVars, closed, stage, commands, terminalVars, publicationVars,
                    workerVars, screen, intruded>>
    BY <1>5 DEF vars
  <2>2. InstancesOK' /\ CommandsOK' /\ ReleasesOK'
    BY <2>1, OthersStay DEF IInv, InstancesOK
  <2>3. TerminalsOK' /\ PublicationsOK' /\ WorkersOK' /\ BuffersOK'
    BY <2>1, TerminalsStay, PublicationsStay, WorkersStay, BuffersStay DEF IInv, publicationVars, workerVars
  <2> QED
    BY <2>2, <2>3 DEF IInv
<1> QED
  BY <1>1, <1>2, <1>3, <1>4, <1>5 DEF Next

LEMMA AccountGivesBuffers ==
    ASSUME IInv
    PROVE  BuffersAccountedFor
<1> USE DEF IInv
<1>1. \A p \in Panes : Prepared(p) \in {0, 1} /\ Queued(p) \in Nat /\ free[p] \in Nat
  BY QueuesAreCounted DEF Prepared, BuffersOK
<1>2. BuffersConserved
  BY DEF BuffersOK, BuffersConserved, Buffers, Prepared
<1>3. free \in [Panes -> 0 .. publicationBufferCount]
  <2>1. \A p \in Panes : free[p] \in 0 .. publicationBufferCount
    BY <1>1 DEF BuffersOK, Buffers, publicationBufferCount
  <2> QED
    BY <2>1 DEF BuffersOK
<1>4. text \in [Panes -> Grid]
  BY DEF TerminalsOK, Grid, Contents
<1>5. TypeOK
  <2>1. /\ issued \in Seq([conn : Conns, panes : Views]) /\ budget \in [Happenings -> Nat]
        /\ instance \in [Conns -> {"admitted", "serving", "binding", "detaching", "done"}]
        /\ due \in [Conns -> SUBSET (1 .. Len(issued))]
        /\ current \in [Conns -> 0 .. Len(issued)] /\ applying \in [Conns -> 0 .. Len(issued)]
        /\ todo \in [Conns -> SUBSET Slots] /\ still \in [Conns -> SUBSET Slots]
        /\ \A c \in Conns : returned[c] \in Seq(Slots)
        /\ closed \in [Conns -> BOOLEAN]
        /\ stage \in [Panes -> {"running", "stopping", "exited"}]
    BY DEF InstancesOK, Projections, Revisions
  <2>2. owed \in [Conns -> Nat] /\ \A p \in Panes : commands[p] \in Seq(Command)
    BY DEF ReleasesOK, CommandsOK
  <2>3. size \in [Panes -> Slots] /\ history \in [Panes -> BOOLEAN] /\ draining \in [Panes -> {"no", "reading", "read"}]
    BY DEF TerminalsOK
  <2>4. /\ lease \in [Panes -> Leases \cup {None}]
        /\ revision \in [Panes -> 0 .. Len(issued)]
        /\ epoch \in [Panes -> Nat] /\ version \in [Panes -> Nat]
        /\ \A p \in Panes : snapshot[p] = None \/ snapshot[p] \in Grid
        /\ damage \in [Panes -> [keyframe : BOOLEAN, barrier : BOOLEAN, rows : SUBSET Rows]]
    BY DEF PublicationsOK, Revisions
  <2>5. /\ worker \in [Leases -> {"unstarted", "idle", "writing", "drained", "exited"}]
        /\ failed \in [Leases -> BOOLEAN] /\ broken \in [Leases -> BOOLEAN]
        /\ base \in [Leases -> [epoch : Nat, version : Nat]]
        /\ screen \in [Leases -> [revision : 0 .. Len(issued), size : 0 .. Cardinality(Panes), rows : Grid]]
        /\ intruded \subseteq Leases
    BY DEF WorkersOK, Revisions
  <2> QED
    BY <1>3, <1>4, <2>1, <2>2, <2>3, <2>4, <2>5 DEF TypeOK
<1> QED
  BY <1>2, <1>5 DEF BuffersAccountedFor

\* Every buffer of a pane is free, prepared or on its way to a confirmer, for any panes,
\* connections and views: neither a hand-off, a cancellation, a failure nor the drain of an
\* ended worker (cancelPending, reclaimAbandoned) loses one or returns it twice.
THEOREM BuffersAreAccountedFor == Spec => []BuffersAccountedFor
<1>1. Init => IInv
  BY InitIsAccounted
<1>2. IInv /\ [Next]_vars => IInv'
  BY StepKeepsAccount
<1>3. IInv => BuffersAccountedFor
  BY AccountGivesBuffers
<1> QED
  BY <1>1, <1>2, <1>3, PTL DEF Spec

-----------------------------------------------------------------------------
(* Pictures: the invariant *)

\* A revision gives this slot of this connection a grid of this size.
Fits(l, rev, n) ==
    /\ rev \in 1 .. Len(issued)
    /\ issued[rev].conn = l[1] /\ l[2] \in DOMAIN issued[rev].panes /\ n = Len(issued[rev].panes)

\* Whatever is to become a picture fits the layout of its revision.
DueFits ==
    /\ \A c \in Conns : \A r \in due[c] : issued[r].conn = c
    /\ \A c \in Conns : applying[c] # 0 => issued[applying[c]].conn = c
    /\ \A c \in Conns : instance[c] = "binding" => todo[c] \subseteq SlotsOf(applying[c])

CommandFits(command) ==
    command.type = "install" => Fits(<<command.conn, command.slot>>, command.revision, command.size)
CommandsFit == \A p \in Panes : \A i \in DOMAIN commands[p] : CommandFits(commands[p][i])

PanesFit ==
    \A p \in Panes :
        /\ lease[p] # None => Fits(lease[p], revision[p], size[p])
        /\ pending[p] # None =>
              lease[p] # None /\ pending[p].revision = revision[p] /\ pending[p].size = size[p]

BarrierFits(l, pub) == pub.barrier => Fits(l, pub.revision, pub.size)
PicturesFit ==
    /\ \A l \in Leases : ready[l] # <<>> => BarrierFits(l, ready[l][1])
    /\ \A l \in Leases : worker[l] = "writing" => BarrierFits(l, record[l])
    /\ \A l \in Leases : screen[l].revision # 0 => Fits(l, screen[l].revision, screen[l].size)

FitInv == DueFits /\ CommandsFit /\ PanesFit /\ PicturesFit

\* A confirmer that still compiles, and the end of the chain it has been handed.
Live(l) == worker[l] \in {"idle", "writing"} /\ ~broken[l]
Last(l) == IF ready[l] # <<>> THEN [epoch |-> ready[l][1].epoch, version |-> ready[l][1].target] ELSE base[l]

KeyframeIsDue(p) == damage[p].keyframe \/ (pending[p] # None /\ pending[p].keyframe)

\* What a pane has prepared follows what it has handed off.
PreparedOK(p) ==
    /\ epoch[p] > 0
    /\ lease[p] # None => worker[lease[p]] # "unstarted"
    /\ BarrierIsDue(p) => version[p] = 0 /\ snapshot[p] = None
    /\ damage[p].barrier => damage[p].keyframe
    /\ pending[p] # None =>
          /\ ~damage[p].keyframe
          /\ pending[p].epoch = epoch[p] /\ pending[p].target = version[p] + 1
          /\ ~pending[p].keyframe => pending[p].base = version[p]

\* What a confirmer has been handed follows what it had, unless another pane has intruded.
FollowsOK(l) ==
    /\ worker[l] = "unstarted" => ready[l] = <<>>
    /\ l \notin intruded /\ Live(l) /\ ready[l] # <<>> => Follows(l, ready[l][1])

\* So does what a pane has yet to hand to it.
Continues(p, l) ==
    /\ Last(l) # NoBase /\ Last(l).epoch <= epoch[p]
    /\ IF Last(l).epoch = epoch[p] THEN Last(l).version = version[p]
       ELSE version[p] = 0 /\ KeyframeIsDue(p)
Heeded(p) == lease[p] # None /\ lease[p] \notin intruded /\ Live(lease[p])
ContinuesOK(p) == Heeded(p) /\ ~BarrierIsDue(p) => Continues(p, lease[p])

\* What a pane has prepared is what it shows, but for its damage.
DamageOK(p) ==
    lease[p] # None =>
        /\ snapshot[p] = None /\ pending[p] = None => damage[p].keyframe
        /\ damage[p].keyframe => damage[p].rows = Rows
        /\ \A r \in Rows \ damage[p].rows :
              Shown(p)[r] = (IF pending[p] = None THEN snapshot[p] ELSE SnapshotAfter(p))[r]

\* The picture of a slot once what its confirmer has is painted.
Written(l) == IF worker[l] = "writing" THEN Painted(screen[l], record[l]) ELSE screen[l]
Picture(l) == IF ready[l] # <<>> THEN Painted(Written(l), ready[l][1]) ELSE Written(l)

PictureOK(p) ==
    Heeded(p) =>
        /\ ~BarrierIsDue(p) => Picture(lease[p]).revision = revision[p]
        /\ snapshot[p] # None => Picture(lease[p]).rows = snapshot[p]

PaneOK(p) == PreparedOK(p) /\ ContinuesOK(p) /\ DamageOK(p) /\ PictureOK(p)

OutputInv == (\A l \in Leases : FollowsOK(l)) /\ (\A p \in Panes : PaneOK(p))

PInv == FitInv /\ OutputInv

-----------------------------------------------------------------------------
(* Pictures: layouts *)

\* The layout of a revision does not change.
LEMMA FitsStays ==
    ASSUME NEW l, NEW rev, NEW n, Fits(l, rev, n), Len(issued) \in Nat, Len(issued') \in Nat, Len(issued) <= Len(issued'),
           \A r \in 1 .. Len(issued) : issued'[r] = issued[r]
    PROVE  Fits(l, rev, n)'
BY DEF Fits

\* The panes, the confirmers and the frontend have what they had.
LEMMA LayoutsStay ==
    ASSUME IInv, FitInv, Len(issued) \in Nat, Len(issued') \in Nat, Len(issued) <= Len(issued'),
           \A r \in 1 .. Len(issued) : issued'[r] = issued[r],
           UNCHANGED <<commands, size, lease, revision, pending, ready, worker, record, screen>>
    PROVE  CommandsFit' /\ PanesFit' /\ PicturesFit'
<1>1. ASSUME NEW l, NEW rev, NEW n, Fits(l, rev, n) PROVE Fits(l, rev, n)'
  BY <1>1, FitsStays
<1>2. CommandsFit'
  BY <1>1 DEF FitInv, CommandsFit, CommandFits
<1>3. PanesFit'
  BY <1>1 DEF FitInv, PanesFit
<1>4. PicturesFit'
  BY <1>1 DEF FitInv, PicturesFit, BarrierFits
<1> QED
  BY <1>2, <1>3, <1>4

\* What is not in the hands of the instances.
LEMMA DueStays ==
    ASSUME DueFits, UNCHANGED <<issued, instance, due, applying, todo>>
    PROVE  DueFits'
BY DEF DueFits, SlotsOf, ViewAt

LEMMA ProjectionsFit ==
    ASSUME IInv, FitInv, NEW c \in Conns, NEW view \in Views,
           initializeClient(c, view) \/ prepareViewTransition(c, view)
    PROVE  FitInv'
<1>1. /\ Project(c, view) /\ UNCHANGED <<commands, size, lease, revision, pending, ready, worker, record, screen,
                                         applying, todo>>
      /\ \A d \in Conns : instance'[d] = "binding" => instance[d] = "binding"
  <2>1. instance \in [Conns -> {"admitted", "serving", "binding", "detaching", "done"}]
    BY DEF IInv, InstancesOK
  <2> QED
    BY <2>1 DEF initializeClient, prepareViewTransition, instanceVars, handoffVars, terminalVars, publicationVars, workerVars
<1>2. /\ issued' \in Seq(Projections) /\ Len(issued') = Len(issued) + 1 /\ Len(issued) \in Nat
      /\ \A r \in 1 .. Len(issued) : issued'[r] = issued[r]
      /\ issued'[Len(issued')] = [conn |-> c, panes |-> view]
  BY <1>1, ProjectionGrows DEF IInv
<1>3. CommandsFit' /\ PanesFit' /\ PicturesFit'
  BY <1>1, <1>2, LayoutsStay
<1>4. DueFits'
  <2>1. \A d \in Conns : due[d] \subseteq 1 .. Len(issued) /\ applying[d] \in 0 .. Len(issued)
    BY DEF IInv, InstancesOK, Revisions
  <2>2. \A d \in Conns : due'[d] = IF d = c THEN due[d] \cup {Len(issued) + 1} ELSE due[d]
    BY <1>1 DEF Project, IInv, InstancesOK
  <2>3. \A d \in Conns : \A r \in due'[d] : issued'[r].conn = d
    <3> SUFFICES ASSUME NEW d \in Conns, NEW r \in due'[d] PROVE issued'[r].conn = d
      OBVIOUS
    <3>1. CASE r \in due[d]
      <4>1. issued'[r] = issued[r] /\ issued[r].conn = d
        BY <1>2, <2>1, <3>1 DEF FitInv, DueFits
      <4> QED
        BY <4>1
    <3>2. CASE d = c /\ r = Len(issued')
      BY <1>2, <3>2
    <3> QED
      BY <1>2, <2>2, <3>1, <3>2
  <2>4. \A d \in Conns : applying'[d] # 0 => issued'[applying'[d]].conn = d
    BY <1>1, <1>2, <2>1 DEF FitInv, DueFits
  <2>5. \A d \in Conns : SlotsOf(applying[d])' = SlotsOf(applying[d])
    <3> SUFFICES ASSUME NEW d \in Conns PROVE SlotsOf(applying[d])' = SlotsOf(applying[d])
      OBVIOUS
    <3>1. applying'[d] = applying[d] /\ (applying[d] # 0 => issued'[applying[d]] = issued[applying[d]])
      BY <1>1, <1>2, <2>1
    <3> QED
      BY <3>1 DEF SlotsOf, ViewAt
  <2>6. \A d \in Conns : instance'[d] = "binding" => todo'[d] \subseteq SlotsOf(applying[d])'
    BY <1>1, <2>5 DEF FitInv, DueFits
  <2> QED
    BY <2>3, <2>4, <2>6 DEF DueFits
<1> QED
  BY <1>3, <1>4 DEF FitInv

\* A command that installs nothing, or a lease that fits, is sent.
LEMMA CommandsGrowFit ==
    ASSUME CommandsOK, CommandsFit, UNCHANGED issued, NEW command \in Command, CommandFits(command),
           \A p \in Panes : commands'[p] = commands[p] \/ commands'[p] = Append(commands[p], command)
    PROVE  CommandsFit'
<1> SUFFICES ASSUME NEW p \in Panes, NEW i \in DOMAIN commands'[p]
             PROVE  CommandFits(commands[p][i])'
  BY DEF CommandsFit
<1>1. commands'[p][i] = command \/ (i \in DOMAIN commands[p] /\ commands'[p][i] = commands[p][i])
  <2>1. commands[p] \in Seq(Command)
    BY DEF CommandsOK
  <2> QED
    BY <2>1, Appended
<1>2. CommandFits(commands'[p][i])
  BY <1>1 DEF CommandsFit
<1> QED
  BY <1>2 DEF CommandFits, Fits

LEMMA SendFits ==
    ASSUME CommandsOK, CommandsFit, UNCHANGED issued, NEW command \in Command, CommandFits(command),
           NEW p, Send(p, command)
    PROVE  CommandsFit'
<1>1. \A q \in Panes : commands'[q] = commands[q] \/ commands'[q] = Append(commands[q], command)
  BY DEF Send, CommandsOK
<1> QED
  BY <1>1, CommandsGrowFit

\* The panes and the confirmers have what they had.
LEMMA PanesAndPicturesStay ==
    ASSUME PanesFit, PicturesFit, UNCHANGED <<issued, size, lease, revision, pending, ready, worker, record, screen>>
    PROVE  PanesFit' /\ PicturesFit'
<1>1. \A l, rev, n : Fits(l, rev, n) => Fits(l, rev, n)'
  BY DEF Fits
<1>2. PanesFit'
  BY <1>1 DEF PanesFit
<1>3. PicturesFit'
  BY <1>1 DEF PicturesFit, BarrierFits
<1> QED
  BY <1>2, <1>3

LEMMA CommandsFitStay ==
    ASSUME CommandsFit, UNCHANGED <<commands, issued>>
    PROVE  CommandsFit'
BY DEF CommandsFit, CommandFits, Fits

LEMMA InstancesFit ==
    ASSUME IInv, FitInv, NEW c \in Conns,
           InstanceProgress(c) \/ transportLost(c) \/ detachClientInstance(c)
    PROVE  FitInv'
<1>1. UNCHANGED <<issued, size, lease, revision, pending, ready, worker, record, screen>>
  BY DEF InstanceProgress, transportLost, detachClientInstance, applyViewTransition, installOutputLease,
         detachOutputLease, receiveReleased, bindStillPending, installClientView, lifetimeDone,
         terminalVars, publicationVars, workerVars
<1>2. PanesFit' /\ PicturesFit'
  BY <1>1, PanesAndPicturesStay DEF FitInv
<1>3. DueFits /\ CommandsFit /\ CommandsOK /\ InstancesOK /\ \A r : SlotsOf(r)' = SlotsOf(r)
  BY <1>1 DEF FitInv, IInv, SlotsOf, ViewAt
<1>4. CASE applyViewTransition(c)
  <2>1. PICK r \in due[c] :
          /\ due' = [due EXCEPT ![c] = @ \ {r}]
          /\ IF r <= current[c]
               THEN UNCHANGED <<instance, handoffVars, commands>>
               ELSE /\ beginOutputHandoff(c)
                    /\ todo' = [todo EXCEPT ![c] = FreshSlots(c, r)]
                    /\ applying' = [applying EXCEPT ![c] = r]
                    /\ instance' = [instance EXCEPT ![c] = "binding"]
    BY <1>4 DEF applyViewTransition
  <2>2. CASE r <= current[c]
    <3>1. UNCHANGED <<instance, applying, todo, commands>>
      BY <2>1, <2>2 DEF handoffVars
    <3>2. DueFits'
      BY <1>1, <1>3, <2>1, <3>1 DEF DueFits, InstancesOK
    <3> QED
      BY <1>1, <1>2, <1>3, <3>1, <3>2, CommandsFitStay DEF FitInv
  <2>3. CASE ~(r <= current[c])
    <3>1. /\ beginOutputHandoff(c) /\ todo' = [todo EXCEPT ![c] = FreshSlots(c, r)]
          /\ applying' = [applying EXCEPT ![c] = r] /\ instance' = [instance EXCEPT ![c] = "binding"]
      BY <2>1, <2>3
    <3>2. \A d \in Conns : applying'[d] = IF d = c THEN r ELSE applying[d]
      BY <1>3, <3>1 DEF InstancesOK
    <3>3. \A d \in Conns : /\ todo'[d] = IF d = c THEN FreshSlots(c, r) ELSE todo[d]
                           /\ instance'[d] = IF d = c THEN "binding" ELSE instance[d]
                           /\ due'[d] \subseteq due[d]
      BY <1>3, <2>1, <3>1 DEF InstancesOK
    <3>4. FreshSlots(c, r) \subseteq SlotsOf(r)
      BY DEF FreshSlots
    <3>5. DueFits'
      <4>1. \A d \in Conns : \A q \in due'[d] : issued'[q].conn = d
        BY <1>1, <1>3, <3>3 DEF DueFits
      <4>2. \A d \in Conns : applying'[d] # 0 => issued'[applying'[d]].conn = d
        BY <1>1, <1>3, <3>2 DEF DueFits
      <4>3. \A d \in Conns : instance'[d] = "binding" => todo'[d] \subseteq SlotsOf(applying[d])'
        <5> SUFFICES ASSUME NEW d \in Conns, instance'[d] = "binding"
                     PROVE  todo'[d] \subseteq SlotsOf(applying[d])'
          OBVIOUS
        <5>1. SlotsOf(applying[d])' = SlotsOf(applying'[d])
          BY <1>1 DEF SlotsOf, ViewAt
        <5>2. todo'[d] \subseteq SlotsOf(applying'[d])
          BY <1>3, <3>2, <3>3, <3>4 DEF DueFits
        <5> QED
          BY <5>1, <5>2
      <4> QED
        BY <4>1, <4>2, <4>3 DEF DueFits
    <3>6. CommandsFit'
      <4> DEFINE ask == [type |-> "release", conn |-> c]
      <4>1. \A p \in Panes : commands'[p] = commands[p] \/ commands'[p] = Append(commands[p], ask)
        BY <3>1 DEF beginOutputHandoff
      <4>2. ask \in Command /\ CommandFits(ask)
        BY DEF Command, CommandFits
      <4> HIDE DEF ask
      <4> QED
        BY <1>1, <1>3, <4>1, <4>2, CommandsGrowFit
    <3> QED
      BY <1>2, <3>5, <3>6 DEF FitInv
  <2> QED
    BY <2>2, <2>3
<1>5. ASSUME NEW s \in Slots, installOutputLease(c, s) PROVE FitInv'
  <2> DEFINE command == [type |-> "install", conn |-> c, slot |-> s, revision |-> applying[c],
                         size |-> Len(ViewAt(applying[c]))]
  <2>1. /\ instance[c] = "binding" /\ s \in todo[c] /\ todo' = [todo EXCEPT ![c] = @ \ {s}]
        /\ Send(ViewAt(applying[c])[s], command) /\ UNCHANGED <<instance, due, applying>>
    BY <1>5 DEF installOutputLease
  <2>2. applying[c] \in Revisions /\ applying[c] # 0
    BY <1>3, <2>1 DEF InstancesOK
  <2>3. applying[c] \in 1 .. Len(issued) /\ Len(ViewAt(applying[c])) \in Slots /\ ViewAt(applying[c]) = issued[applying[c]].panes
    BY <1>3, <2>2, RevisionHasSlots
  <2>4. command \in Command
    BY <2>3 DEF Command
  <2>5. issued[applying[c]].conn = c /\ s \in DOMAIN issued[applying[c]].panes
    BY <1>3, <2>1, <2>2, <2>3 DEF DueFits, SlotsOf
  <2>6. CommandFits(command)
    BY <2>3, <2>5 DEF CommandFits, Fits
  <2>7. CommandsFit'
    <3> HIDE DEF command
    <3> QED
      BY <1>1, <1>3, <2>1, <2>4, <2>6, SendFits
  <2>8. DueFits'
    BY <1>1, <1>3, <2>1 DEF DueFits, InstancesOK
  <2> QED
    BY <1>2, <2>7, <2>8 DEF FitInv
<1>6. ASSUME NEW s \in Slots, detachOutputLease(c, s) PROVE FitInv'
  <2> DEFINE command == [type |-> "detach", conn |-> c]
  <2>1. /\ instance[c] = "detaching" /\ todo' = [todo EXCEPT ![c] = @ \ {s}]
        /\ Send(ViewAt(current[c])[s], command) /\ UNCHANGED <<instance, due, applying>>
    BY <1>6 DEF detachOutputLease
  <2>2. command \in Command /\ CommandFits(command)
    BY DEF Command, CommandFits
  <2>3. CommandsFit'
    <3> HIDE DEF command
    <3> QED
      BY <1>1, <1>3, <2>1, <2>2, SendFits
  <2>4. DueFits'
    BY <1>1, <1>3, <2>1 DEF DueFits, InstancesOK
  <2> QED
    BY <1>2, <2>3, <2>4 DEF FitInv
<1>7. CASE receiveReleased(c) \/ bindStillPending(c) \/ installClientView(c) \/ lifetimeDone(c)
             \/ transportLost(c) \/ detachClientInstance(c)
  <2>1. UNCHANGED commands
    BY <1>7 DEF receiveReleased, bindStillPending, installClientView, lifetimeDone, transportLost, detachClientInstance
  <2>2. /\ \A d \in Conns : due'[d] \subseteq due[d]
        /\ \A d \in Conns : applying'[d] # 0 => applying'[d] = applying[d]
        /\ \A d \in Conns : instance'[d] = "binding" =>
              instance[d] = "binding" /\ applying'[d] = applying[d]
                /\ (todo'[d] = todo[d] \/ todo'[d] \subseteq SlotsOf(applying[d]))
    BY <1>3, <1>7 DEF receiveReleased, bindStillPending, installClientView, lifetimeDone, transportLost,
                      detachClientInstance, InstancesOK, instanceVars, handoffVars, AwaitsLeases, UnreturnedSlots
  <2>3. DueFits'
    BY <1>1, <1>3, <2>2 DEF DueFits
  <2> QED
    BY <1>1, <1>2, <1>3, <2>1, <2>3, CommandsFitStay DEF FitInv
<1> QED
  BY <1>4, <1>5, <1>6, <1>7 DEF InstanceProgress

\* The pictures that are handed on are the ones there were.
LEMMA PicturesGoOn ==
    ASSUME PicturesFit, UNCHANGED <<issued, record, screen>>,
           \A l \in Leases : worker'[l] = "writing" => worker[l] = "writing",
           \A l \in Leases : ready'[l] = <<>> \/ ready'[l] = ready[l]
    PROVE  PicturesFit'
<1>1. \A l, rev, n : Fits(l, rev, n) => Fits(l, rev, n)'
  BY DEF Fits
<1> QED
  BY <1>1 DEF PicturesFit, BarrierFits

\* A pane that has nothing prepared, and a lease that fits or none.
LEMMA PanesGoOn ==
    ASSUME PanesFit, UNCHANGED issued, NEW p \in Panes,
           \A q \in Panes \ {p} : /\ lease'[q] = lease[q] /\ revision'[q] = revision[q] /\ size'[q] = size[q]
                                  /\ pending'[q] = pending[q],
           pending'[p] = None, lease'[p] # None => Fits(lease'[p], revision'[p], size'[p])
    PROVE  PanesFit'
<1>1. \A l, rev, n : Fits(l, rev, n) => Fits(l, rev, n)'
  BY DEF Fits
<1>2. ASSUME NEW q \in Panes, lease'[q] # None PROVE Fits(lease[q], revision[q], size[q])'
  <2>1. Fits(lease'[q], revision'[q], size'[q])
    BY <1>2 DEF PanesFit
  <2> QED
    BY <2>1 DEF Fits
<1>3. ASSUME NEW q \in Panes, pending'[q] # None
      PROVE  lease'[q] # None /\ pending'[q].revision = revision'[q] /\ pending'[q].size = size'[q]
  BY <1>3 DEF PanesFit
<1> QED
  BY <1>2, <1>3 DEF PanesFit

LEMMA UnbindFits ==
    ASSUME IInv, PanesFit, PicturesFit, UNCHANGED <<issued, record, screen>>, NEW p \in Panes, Unbind(p),
           \A l \in Leases : worker'[l] = "writing" => worker[l] = "writing",
           \A q \in Panes \ {p} : lease'[q] = lease[q] /\ revision'[q] = revision[q] /\ size'[q] = size[q],
           lease'[p] # None => Fits(lease'[p], revision'[p], size'[p])
    PROVE  PanesFit' /\ PicturesFit'
<1>1. \A q \in Panes : pending'[q] = IF q = p THEN None ELSE pending[q]
  BY DEF Unbind, IInv, PublicationsOK
<1>2. \A l \in Leases : ready'[l] = <<>> \/ ready'[l] = ready[l]
  BY DEF Unbind
<1> QED
  BY <1>1, <1>2, PicturesGoOn, PanesGoOn

LEMMA ForgetFits ==
    ASSUME IInv, PanesFit, PicturesFit, UNCHANGED <<issued, record, screen, worker, size>>, NEW p \in Panes, Forget(p)
    PROVE  PanesFit' /\ PicturesFit'
<1>1. \A q \in Panes : lease'[q] = (IF q = p THEN None ELSE lease[q]) /\ (q # p => revision'[q] = revision[q])
  BY DEF Forget, IInv, PublicationsOK
<1> QED
  BY <1>1, UnbindFits DEF Forget

LEMMA RunsFit ==
    ASSUME IInv, FitInv, NEW p \in Panes, runCommand(p)
    PROVE  FitInv'
<1> DEFINE command == Head(commands[p])
<1>1. /\ commands[p] # <<>> /\ commands' = [commands EXCEPT ![p] = Tail(@)]
      /\ UNCHANGED <<issued, instance, due, applying, todo, record, screen>>
      /\ \/ command.type = "install" /\ runInstall(p, command)
         \/ command.type = "release" /\ runRelease(p, command)
         \/ command.type = "detach" /\ runDetach(p, command)
  BY DEF runCommand
<1>2. CommandsOK /\ PublicationsOK /\ WorkersOK /\ TerminalsOK /\ DueFits /\ CommandsFit /\ PanesFit /\ PicturesFit
  BY DEF IInv, FitInv
<1>3. commands[p] \in Seq(Command)
  BY <1>2 DEF CommandsOK
<1>4. /\ command = commands[p][1] /\ command \in Command /\ 1 \in DOMAIN commands[p]
      /\ \A i \in DOMAIN Tail(commands[p]) : i + 1 \in DOMAIN commands[p] /\ Tail(commands[p])[i] = commands[p][i + 1]
  BY <1>1, <1>3, Rest
<1>5. CommandFits(command)
  BY <1>2, <1>4 DEF CommandsFit
<1> HIDE DEF command
<1>6. CommandsFit'
  <2>1. \A q \in Panes : commands'[q] = IF q = p THEN Tail(commands[p]) ELSE commands[q]
    BY <1>1, <1>2 DEF CommandsOK
  <2>2. \A q \in Panes : \A i \in DOMAIN commands'[q] : CommandFits(commands'[q][i])
    BY <1>2, <1>4, <2>1 DEF CommandsFit
  <2>3. \A some : CommandFits(some) => CommandFits(some)'
    BY <1>1 DEF CommandFits, Fits
  <2> QED
    BY <2>2, <2>3 DEF CommandsFit
<1>7. PanesFit' /\ PicturesFit'
  <2>1. CASE command.type = "install" /\ runInstall(p, command)
    <3> DEFINE l == <<command.conn, command.slot>>
    <3>1. /\ Unbind(p) /\ size' = [size EXCEPT ![p] = command.size] /\ lease' = [lease EXCEPT ![p] = l]
          /\ revision' = [revision EXCEPT ![p] = command.revision]
          /\ worker' = [worker EXCEPT ![l] = IF @ = "unstarted" THEN "idle" ELSE @]
      BY <2>1 DEF runInstall
    <3>2. Fits(l, command.revision, command.size) /\ l \in Leases
      BY <1>4, <1>5, <2>1 DEF CommandFits, Command, Leases
    <3> HIDE DEF l
    <3>3. \A q \in Panes : /\ lease'[q] = (IF q = p THEN l ELSE lease[q])
                           /\ revision'[q] = (IF q = p THEN command.revision ELSE revision[q])
                           /\ size'[q] = (IF q = p THEN command.size ELSE size[q])
      BY <1>2, <3>1 DEF PublicationsOK, TerminalsOK
    <3>4. \A m \in Leases : worker'[m] = "writing" => worker[m] = "writing"
      BY <1>2, <3>1, <3>2 DEF WorkersOK
    <3>5. Fits(lease'[p], revision'[p], size'[p])
      BY <3>2, <3>3
    <3> QED
      BY <1>1, <1>2, <3>1, <3>3, <3>4, <3>5, UnbindFits
  <2>2. CASE (command.type = "release" /\ runRelease(p, command)) \/ (command.type = "detach" /\ runDetach(p, command))
    <3>1. UNCHANGED <<size, worker>> /\ (Forget(p) \/ UNCHANGED <<publicationVars, ready>>)
      BY <2>2 DEF runRelease, runDetach
    <3> QED
      BY <1>1, <1>2, <3>1, ForgetFits, PanesAndPicturesStay DEF publicationVars
  <2> QED
    BY <1>1, <2>1, <2>2
<1>8. DueFits'
  BY <1>1, <1>2, DueStays
<1> QED
  BY <1>6, <1>7, <1>8 DEF FitInv

\* What the instances and the channels have is as it was.
LEMMA DueAndCommandsStay ==
    ASSUME FitInv, UNCHANGED <<issued, instanceVars, commands>>
    PROVE  DueFits' /\ CommandsFit'
BY DueStays, CommandsFitStay DEF FitInv, instanceVars, handoffVars

LEMMA PanesFitOn ==
    ASSUME IInv, FitInv, NEW p \in Panes, PaneLoop(p)
    PROVE  FitInv'
<1>1. PublicationsOK /\ WorkersOK /\ TerminalsOK /\ CommandsOK /\ DueFits /\ CommandsFit /\ PanesFit /\ PicturesFit
  BY DEF IInv, FitInv
<1>2. CASE runCommand(p)
  BY <1>2, RunsFit
<1>3. CASE toggleHistory(p)
  <2>1. /\ UNCHANGED <<issued, instanceVars, commands, size, lease, revision, ready, worker, record, screen>>
        /\ UNCHANGED pending \/ pending' = [pending EXCEPT ![p] = None]
    BY <1>3 DEF toggleHistory, publicationVars, workerVars
  <2>2. PicturesFit'
    BY <1>1, <2>1, PicturesGoOn
  <2>3. \A q \in Panes : pending'[q] = None \/ pending'[q] = pending[q]
    BY <1>1, <2>1 DEF PublicationsOK
  <2>4. PanesFit'
    BY <1>1, <2>1, <2>3 DEF PanesFit, Fits
  <2> QED
    BY <2>1, <2>2, <2>4, DueAndCommandsStay DEF FitInv
<1>4. CASE startDrain(p) \/ applyPTYChunk(p) \/ completeDrain(p)
  <2>1. UNCHANGED <<issued, instanceVars, commands, size, lease, revision, pending, ready, worker, record, screen>>
    BY <1>4 DEF startDrain, applyPTYChunk, completeDrain, publicationVars, workerVars
  <2> QED
    BY <1>1, <2>1, PanesAndPicturesStay, DueAndCommandsStay DEF FitInv
<1>5. CASE prepare(p)
  <2>1. /\ UNCHANGED <<issued, instanceVars, commands, size, lease, revision, ready, worker, record, screen>>
        /\ lease[p] # None
    BY <1>5 DEF prepare, HasMutation, terminalVars, workerVars
  <2>2. PICK keyframe \in BOOLEAN :
           UNCHANGED pending \/ pending' = [pending EXCEPT ![p] = Publication(p, keyframe)]
    BY <1>5 DEF prepare
  <2>3. PICK pub : pub = Publication(p, keyframe)
    OBVIOUS
  <2>4. pub.revision = revision[p] /\ pub.size = size[p]
    BY <2>3 DEF Publication
  <2>5. \A q \in Panes : pending'[q] = pending[q] \/ (q = p /\ pending'[q] = pub)
    BY <1>1, <2>2, <2>3 DEF PublicationsOK
  <2>6. PanesFit'
    BY <1>1, <2>1, <2>4, <2>5 DEF PanesFit, Fits
  <2>7. PicturesFit'
    BY <1>1, <2>1, PicturesGoOn
  <2> QED
    BY <2>1, <2>6, <2>7, DueAndCommandsStay DEF FitInv
<1>6. CASE handedOff(p)
  <2>1. /\ UNCHANGED <<issued, instanceVars, commands, size, lease, revision, worker, record, screen>>
        /\ pending[p] # None /\ lease[p] # None
        /\ ready' = [ready EXCEPT ![lease[p]] = <<pending[p]>>]
        /\ pending' = [pending EXCEPT ![p] = None]
    BY <1>6 DEF handedOff, terminalVars
  <2>2. PICK l \in Leases : l = lease[p]
    BY <1>1, <2>1 DEF PublicationsOK
  <2>3. PICK pub : pub = pending[p]
    OBVIOUS
  <2>4. BarrierFits(l, pub)
    BY <1>1, <2>1, <2>2, <2>3 DEF PanesFit, BarrierFits
  <2>5. \A m \in Leases : ready'[m] = IF m = l THEN <<pub>> ELSE ready[m]
    BY <1>1, <2>1, <2>2, <2>3 DEF WorkersOK
  <2>6. \A m \in Leases : ready'[m] # <<>> => BarrierFits(m, ready'[m][1])
    <3> SUFFICES ASSUME NEW m \in Leases, ready'[m] # <<>> PROVE BarrierFits(m, ready'[m][1])
      OBVIOUS
    <3>1. CASE m = l
      <4>1. ready'[m][1] = pub
        BY <2>5, <3>1
      <4> QED
        BY <2>4, <3>1, <4>1
    <3>2. CASE m # l
      <4>1. ready'[m] = ready[m]
        BY <2>5, <3>2
      <4> QED
        BY <1>1, <4>1 DEF PicturesFit
    <3> QED
      BY <3>1, <3>2
  <2>7. PicturesFit'
    <3>1. \A m, some : BarrierFits(m, some) => BarrierFits(m, some)'
      BY <2>1 DEF BarrierFits, Fits
    <3>2. \A m, rev, n : Fits(m, rev, n) => Fits(m, rev, n)'
      BY <2>1 DEF Fits
    <3>3. \A m \in Leases : (ready[m] # <<>> => BarrierFits(m, ready[m][1]))'
      BY <2>6, <3>1
    <3>4. \A m \in Leases : (worker[m] = "writing" => BarrierFits(m, record[m]))'
      BY <1>1, <2>1, <3>1 DEF PicturesFit
    <3>5. \A m \in Leases : (screen[m].revision # 0 => Fits(m, screen[m].revision, screen[m].size))'
      BY <1>1, <2>1, <3>2 DEF PicturesFit
    <3> QED
      BY <3>3, <3>4, <3>5 DEF PicturesFit
  <2>8. \A q \in Panes : pending'[q] = None \/ pending'[q] = pending[q]
    BY <1>1, <2>1 DEF PublicationsOK
  <2>9. PanesFit'
    BY <1>1, <2>1, <2>8 DEF PanesFit, Fits
  <2> QED
    BY <2>1, <2>7, <2>9, DueAndCommandsStay DEF FitInv
<1>7. CASE seeFailure(p)
  <2>1. Forget(p) /\ UNCHANGED <<issued, instanceVars, commands, size, worker, record, screen>>
    BY <1>7 DEF seeFailure, terminalVars
  <2> QED
    BY <1>1, <2>1, ForgetFits, DueAndCommandsStay DEF FitInv
<1>8. CASE mainDone(p)
  <2>1. /\ UNCHANGED <<issued, instance, due, applying, todo, size, ready, worker, record, screen>>
        /\ commands' = [commands EXCEPT ![p] = <<>>] /\ lease' = [lease EXCEPT ![p] = None]
        /\ revision' = [revision EXCEPT ![p] = 0] /\ pending' = [pending EXCEPT ![p] = None]
    BY <1>8 DEF mainDone, workerVars
  <2>2. \A q \in Panes : /\ commands'[q] = IF q = p THEN <<>> ELSE commands[q]
                         /\ lease'[q] = IF q = p THEN None ELSE lease[q]
                         /\ revision'[q] = IF q = p THEN 0 ELSE revision[q]
                         /\ pending'[q] = IF q = p THEN None ELSE pending[q]
    BY <1>1, <2>1 DEF CommandsOK, PublicationsOK
  <2>3. PanesFit'
    BY <1>1, <2>1, <2>2, PanesGoOn
  <2>4. PicturesFit'
    BY <1>1, <2>1, PicturesGoOn
  <2>5. CommandsFit'
    BY <1>1, <2>1, <2>2 DEF CommandsFit, CommandFits, Fits
  <2>6. DueFits'
    BY <1>1, <2>1, DueStays
  <2> QED
    BY <2>3, <2>4, <2>5, <2>6 DEF FitInv
<1> QED
  BY <1>2, <1>3, <1>4, <1>5, <1>6, <1>7, <1>8 DEF PaneLoop

LEMMA ConfirmersFit ==
    ASSUME IInv, FitInv, NEW l \in Leases, runConfirmer(l)
    PROVE  FitInv'
<1>1. WorkersOK /\ PanesFit /\ PicturesFit
  BY DEF IInv, FitInv
<1>2. /\ UNCHANGED <<issued, instanceVars, commands, size, lease, revision, pending>>
      /\ ready' = ready \/ ready' = [ready EXCEPT ![l] = <<>>]
  BY DEF runConfirmer, takePublication, writeFrame, writeFails, drainAbandoned, closeWorkerDone,
         terminalVars, publicationVars
<1>3. PanesFit'
  BY <1>1, <1>2 DEF PanesFit, Fits
<1>4. /\ \A m, pub : BarrierFits(m, pub) => BarrierFits(m, pub)'
      /\ \A m, rev, n : Fits(m, rev, n) => Fits(m, rev, n)'
  BY <1>2 DEF BarrierFits, Fits
<1>5. \A m \in Leases : (ready[m] # <<>> => BarrierFits(m, ready[m][1]))'
  <2>1. \A m \in Leases : ready'[m] = <<>> \/ ready'[m] = ready[m]
    BY <1>1, <1>2 DEF WorkersOK
  <2> QED
    BY <1>1, <1>4, <2>1 DEF PicturesFit
<1>6. \A m \in Leases : (worker[m] = "writing" => BarrierFits(m, record[m]))'
  <2>1. CASE takePublication(l)
    <3>1. \/ UNCHANGED <<worker, record>>
          \/ ready[l] # <<>> /\ record' = [record EXCEPT ![l] = ready[l][1]] /\ worker' = [worker EXCEPT ![l] = "writing"]
      BY <2>1 DEF takePublication
    <3> QED
      BY <1>1, <1>4, <3>1 DEF PicturesFit, WorkersOK
  <2>2. CASE ~takePublication(l)
    <3>1. \A m \in Leases : worker'[m] = "writing" => worker[m] = "writing" /\ record'[m] = record[m]
      BY <1>1, <2>2 DEF runConfirmer, writeFrame, writeFails, drainAbandoned, closeWorkerDone, WorkersOK
    <3> QED
      BY <1>1, <1>4, <3>1 DEF PicturesFit
  <2> QED
    BY <2>1, <2>2
<1>7. \A m \in Leases : screen'[m].revision # 0 => Fits(m, screen'[m].revision, screen'[m].size)
  <2>1. CASE writeFrame(l)
    <3>1. PICK picture : picture = Painted(screen[l], record[l])
      OBVIOUS
    <3>2. \A m \in Leases : screen'[m] = IF m = l THEN picture ELSE screen[m]
      BY <1>1, <2>1, <3>1 DEF writeFrame, WorkersOK
    <3>3. BarrierFits(l, record[l])
      BY <1>1, <2>1 DEF writeFrame, PicturesFit
    <3>4. picture.revision # 0 => Fits(l, picture.revision, picture.size)
      <4>1. CASE record[l].barrier
        BY <3>1, <3>3, <4>1 DEF Painted, BarrierFits
      <4>2. CASE ~record[l].barrier
        <5>1. screen[l] \in [revision : Revisions, size : 0 .. Cardinality(Panes), rows : Grid]
          BY <1>1 DEF WorkersOK
        <5>2. picture.revision = screen[l].revision /\ picture.size = screen[l].size
          BY <3>1, <4>2, <5>1 DEF Painted
        <5> QED
          BY <1>1, <5>2 DEF PicturesFit
      <4> QED
        BY <4>1, <4>2
    <3> QED
      BY <1>1, <3>2, <3>4 DEF PicturesFit
  <2>2. CASE closeWorkerDone(l)
    <3>1. \A m \in Leases : screen'[m] = IF m = l THEN NoScreen ELSE screen[m]
      BY <1>1, <2>2 DEF closeWorkerDone, WorkersOK
    <3>2. NoScreen.revision = 0
      BY DEF NoScreen
    <3> QED
      BY <1>1, <3>1, <3>2 DEF PicturesFit
  <2>3. CASE takePublication(l) \/ writeFails(l) \/ drainAbandoned(l)
    BY <1>1, <2>3 DEF takePublication, writeFails, drainAbandoned, PicturesFit
  <2> QED
    BY <2>1, <2>2, <2>3 DEF runConfirmer
<1>8. PicturesFit'
  BY <1>4, <1>5, <1>6, <1>7 DEF PicturesFit
<1> QED
  BY <1>2, <1>3, <1>8, DueAndCommandsStay DEF FitInv

LEMMA StopsFit ==
    ASSUME FitInv, NEW p \in Panes, stopPane(p)
    PROVE  FitInv'
<1>1. UNCHANGED <<issued, instanceVars, commands, size, lease, revision, pending, ready, worker, record, screen>>
  BY DEF stopPane, terminalVars, publicationVars, workerVars
<1> QED
  BY <1>1, PanesAndPicturesStay, DueAndCommandsStay DEF FitInv

LEMMA StepKeepsFit ==
    ASSUME IInv, FitInv, [Next]_vars
    PROVE  FitInv'
<1>1. CASE DaemonStep
  BY <1>1, ProjectionsFit, StopsFit DEF DaemonStep
<1>2. ASSUME NEW c \in Conns, InstanceProgress(c) \/ transportLost(c) \/ detachClientInstance(c) PROVE FitInv'
  BY <1>2, InstancesFit
<1>3. ASSUME NEW p \in Panes, PaneLoop(p) PROVE FitInv'
  BY <1>3, PanesFitOn
<1>4. ASSUME NEW l \in Leases, runConfirmer(l) PROVE FitInv'
  BY <1>4, ConfirmersFit
<1>5. CASE UNCHANGED vars
  <2>1. UNCHANGED <<issued, instanceVars, commands, size, lease, revision, pending, ready, worker, record, screen>>
    BY <1>5 DEF vars, terminalVars, publicationVars, workerVars
  <2> QED
    BY <2>1, PanesAndPicturesStay, DueAndCommandsStay DEF FitInv
<1> QED
  BY <1>1, <1>2, <1>3, <1>4, <1>5 DEF Next

-----------------------------------------------------------------------------
(* Pictures: what a step leaves to the others *)

SamePane(p) ==
    /\ lease'[p] = lease[p] /\ revision'[p] = revision[p] /\ epoch'[p] = epoch[p] /\ version'[p] = version[p]
    /\ snapshot'[p] = snapshot[p] /\ damage'[p] = damage[p] /\ pending'[p] = pending[p]
    /\ text'[p] = text[p] /\ history'[p] = history[p]

SameQueue(l) ==
    /\ worker'[l] = worker[l] /\ ready'[l] = ready[l] /\ broken'[l] = broken[l] /\ base'[l] = base[l]
    /\ record'[l] = record[l] /\ screen'[l] = screen[l]

\* What a confirmer has still to do comes to the same.
Carries(l) == Live(l) /\ Last(l)' = Last(l) /\ Picture(l)' = Picture(l)

LEMMA QueueStays ==
    ASSUME NEW l, SameQueue(l), FollowsOK(l), intruded \subseteq intruded'
    PROVE  /\ FollowsOK(l)' /\ (Live(l)' => Carries(l))
           /\ worker'[l] = "unstarted" => worker[l] = "unstarted"
<1> USE DEF SameQueue
<1>1. Live(l)' = Live(l) /\ Last(l)' = Last(l)
  BY DEF Live, Last
<1>2. Painted(screen[l], record[l])' = Painted(screen[l], record[l])
  BY DEF Painted, Overlaid
<1>3. Written(l)' = Written(l)
  BY <1>2 DEF Written
<1>4. Picture(l)' = Picture(l)
  BY <1>3 DEF Picture, Painted, Overlaid
<1>5. FollowsOK(l)'
  BY <1>1 DEF FollowsOK, Follows
<1> QED
  BY <1>1, <1>4, <1>5 DEF Carries

LEMMA PaneStays ==
    ASSUME NEW p, SamePane(p), PaneOK(p), intruded \subseteq intruded',
           lease[p] # None /\ worker'[lease[p]] = "unstarted" => worker[lease[p]] = "unstarted",
           lease[p] # None /\ lease[p] \notin intruded' /\ Live(lease[p])' => Carries(lease[p])
    PROVE  PaneOK(p)'
<1> USE DEF SamePane
<1>1. BarrierIsDue(p)' = BarrierIsDue(p) /\ KeyframeIsDue(p)' = KeyframeIsDue(p)
  BY DEF BarrierIsDue, KeyframeIsDue
<1>2. PreparedOK(p)'
  BY <1>1 DEF PaneOK, PreparedOK
<1>3. Shown(p)' = Shown(p) /\ SnapshotAfter(p)' = SnapshotAfter(p)
  BY DEF Shown, SnapshotAfter, Overlaid
<1>4. DamageOK(p)'
  BY <1>3 DEF PaneOK, DamageOK
<1>5. Heeded(p)' => Heeded(p) /\ Last(lease[p])' = Last(lease[p]) /\ Picture(lease[p])' = Picture(lease[p])
  BY DEF Heeded, Carries
<1>6. ContinuesOK(p)'
  BY <1>1, <1>5 DEF PaneOK, ContinuesOK, Continues
<1>7. PictureOK(p)'
  BY <1>1, <1>5 DEF PaneOK, PictureOK
<1> QED
  BY <1>2, <1>4, <1>6, <1>7 DEF PaneOK

\* Nothing that the panes and the confirmers have changes.
LEMMA OutputStays ==
    ASSUME OutputInv, UNCHANGED <<text, history, publicationVars, workerVars, screen, intruded>>
    PROVE  OutputInv'
<1> USE DEF publicationVars, workerVars
<1>1. ASSUME NEW l \in Leases PROVE FollowsOK(l)' /\ (Live(l)' => Carries(l)) /\ (worker'[l] = "unstarted" => worker[l] = "unstarted")
  <2>1. SameQueue(l) /\ FollowsOK(l) /\ intruded \subseteq intruded'
    BY DEF SameQueue, OutputInv
  <2> QED
    BY <2>1, QueueStays
<1>2. ASSUME NEW p \in Panes PROVE PaneOK(p)'
  <2>1. SamePane(p) /\ PaneOK(p) /\ intruded \subseteq intruded'
    BY DEF SamePane, OutputInv
  <2>2. lease[p] # None /\ Live(lease[p])' => Carries(lease[p])
    <3>1. SameQueue(lease[p])
      BY DEF SameQueue
    <3>2. Live(lease[p])' = Live(lease[p]) /\ Last(lease[p])' = Last(lease[p])
      BY DEF Live, Last
    <3>3. Picture(lease[p])' = Picture(lease[p])
      BY DEF Picture, Written, Painted, Overlaid
    <3> QED
      BY <3>2, <3>3 DEF Carries
  <2>3. lease[p] # None /\ worker'[lease[p]] = "unstarted" => worker[lease[p]] = "unstarted"
    OBVIOUS
  <2> QED
    BY <2>1, <2>2, <2>3, PaneStays
<1> QED
  BY <1>1, <1>2 DEF OutputInv

\* One pane takes a turn: the others have what they had.
LEMMA PaneTurns ==
    ASSUME PublicationsOK, OutputInv, NEW p \in Panes, \A q \in Panes \ {p} : SamePane(q), intruded \subseteq intruded',
           \A l \in Leases : worker'[l] = "unstarted" => worker[l] = "unstarted",
           \A l \in Leases : FollowsOK(l)',
           \A l \in Leases : l \notin intruded' /\ Live(l)' =>
              Carries(l) \/ \A q \in Panes \ {p} : lease[q] # l,
           PaneOK(p)'
    PROVE  OutputInv'
<1>1. ASSUME NEW q \in Panes, q # p PROVE PaneOK(q)'
  <2>1. SamePane(q) /\ PaneOK(q)
    BY <1>1 DEF OutputInv
  <2>2. lease[q] # None => lease[q] \in Leases
    BY DEF PublicationsOK
  <2>3. lease'[q] = lease[q]
    BY <2>1 DEF SamePane
  <2>4. lease[q] # None /\ worker'[lease[q]] = "unstarted" => worker[lease[q]] = "unstarted"
    BY <2>2
  <2>5. ASSUME lease[q] # None, lease[q] \notin intruded', Live(lease[q])'
        PROVE  Carries(lease[q])
    <3>1. PICK l \in Leases : l = lease[q]
      BY <2>2, <2>5
    <3>2. l = lease'[q]
      BY <2>3, <3>1
    <3>3. Live(l)'
      BY <2>5, <3>2 DEF Live
    <3>4. Carries(l)
      BY <1>1, <2>5, <3>1, <3>3
    <3> QED
      BY <3>1, <3>2, <3>4 DEF Carries, Last, Picture, Written, Live
  <2> QED
    BY <2>1, <2>4, <2>5, PaneStays
<1> QED
  BY <1>1 DEF OutputInv

\* Confirmers to which nothing happens.
LEMMA QueuesGoOn ==
    ASSUME OutputInv, UNCHANGED <<workerVars, screen>>, intruded \subseteq intruded'
    PROVE  \A l \in Leases : /\ FollowsOK(l)' /\ (Live(l)' => Carries(l))
                             /\ worker'[l] = "unstarted" => worker[l] = "unstarted"
<1> SUFFICES ASSUME NEW l \in Leases
             PROVE  /\ FollowsOK(l)' /\ (Live(l)' => Carries(l))
                    /\ worker'[l] = "unstarted" => worker[l] = "unstarted"
  OBVIOUS
<1>1. SameQueue(l) /\ FollowsOK(l)
  BY DEF SameQueue, workerVars, OutputInv
<1> QED
  BY <1>1, QueueStays

\* A pane that has no lease any more.
LEMMA LooseIsOK ==
    ASSUME NEW p, lease'[p] = None, epoch'[p] > 0, pending'[p] = None, ~damage'[p].barrier
    PROVE  PaneOK(p)'
BY DEF PaneOK, PreparedOK, ContinuesOK, DamageOK, PictureOK, Heeded, BarrierIsDue

\* Unbinding takes back what was handed to confirmers that have ended.
LEMMA UnbindLeavesQueues ==
    ASSUME OutputInv, WorkersOK, NEW p, Unbind(p), UNCHANGED <<broken, base, record, screen>>, intruded \subseteq intruded',
           \A l \in Leases : worker'[l] = worker[l] \/ (worker[l] = "unstarted" /\ worker'[l] = "idle")
    PROVE  \A l \in Leases : /\ FollowsOK(l)' /\ (Live(l)' => Carries(l) \/ worker[l] = "unstarted")
                             /\ worker'[l] = "unstarted" => worker[l] = "unstarted"
<1> SUFFICES ASSUME NEW l \in Leases
             PROVE  /\ FollowsOK(l)' /\ (Live(l)' => Carries(l) \/ worker[l] = "unstarted")
                    /\ worker'[l] = "unstarted" => worker[l] = "unstarted"
  OBVIOUS
<1>1. FollowsOK(l) /\ (worker'[l] = worker[l] \/ (worker[l] = "unstarted" /\ worker'[l] = "idle"))
  BY DEF OutputInv
<1>2. ready'[l] = ready[l] \/ (ready'[l] = <<>> /\ worker[l] = "exited")
  BY DEF Unbind
<1>3. CASE worker[l] = "unstarted"
  <2>1. ready'[l] = <<>>
    BY <1>2, <1>3 DEF OutputInv, FollowsOK
  <2> QED
    BY <1>3, <2>1 DEF FollowsOK
<1>4. CASE worker[l] # "unstarted" /\ ready'[l] = ready[l]
  <2>1. SameQueue(l) /\ FollowsOK(l)
    BY <1>1, <1>4 DEF SameQueue, OutputInv
  <2> QED
    BY <2>1, QueueStays
<1>5. CASE worker[l] = "exited" /\ ready'[l] = <<>>
  <2>1. worker'[l] = "exited"
    BY <1>1, <1>5
  <2> QED
    BY <1>5, <2>1 DEF FollowsOK, Live
<1> QED
  BY <1>2, <1>3, <1>4, <1>5

-----------------------------------------------------------------------------
(* Pictures: the turns of a pane *)

LEMMA ForgetContinues ==
    ASSUME PublicationsOK, WorkersOK, OutputInv, NEW p \in Panes, Forget(p),
           UNCHANGED <<broken, base, record, screen, worker, text, history>>, intruded \subseteq intruded'
    PROVE  OutputInv'
<1>1. \A q \in Panes \ {p} : SamePane(q)
  BY DEF Forget, Unbind, SamePane, PublicationsOK
<1>2. \A l \in Leases : /\ FollowsOK(l)' /\ (Live(l)' => Carries(l) \/ worker[l] = "unstarted")
                        /\ worker'[l] = "unstarted" => worker[l] = "unstarted"
  BY UnbindLeavesQueues DEF Forget
<1>3. \A l \in Leases : Live(l)' => worker[l] # "unstarted"
  BY DEF Live
<1>4. PaneOK(p)'
  <2>1. lease'[p] = None /\ epoch'[p] = epoch[p] /\ pending'[p] = None /\ damage'[p] = NoDamage
    BY DEF Forget, Unbind, PublicationsOK
  <2>2. epoch[p] > 0 /\ ~NoDamage.barrier
    BY DEF OutputInv, PaneOK, PreparedOK, NoDamage
  <2> QED
    BY <2>1, <2>2, LooseIsOK
<1> QED
  BY <1>1, <1>2, <1>3, <1>4, PaneTurns

LEMMA InstallContinues ==
    ASSUME PublicationsOK, WorkersOK, OutputInv, NEW p \in Panes, NEW command \in Command,
           command.type = "install", runInstall(p, command),
           UNCHANGED <<broken, base, record, screen, text, history>>
    PROVE  OutputInv'
<1> DEFINE l == <<command.conn, command.slot>>
<1>1. /\ Unbind(p) /\ lease' = [lease EXCEPT ![p] = l]
      /\ revision' = [revision EXCEPT ![p] = command.revision] /\ epoch' = [epoch EXCEPT ![p] = @ + 1]
      /\ version' = [version EXCEPT ![p] = 0] /\ damage' = [damage EXCEPT ![p] = FullDamage(TRUE)]
      /\ worker' = [worker EXCEPT ![l] = IF @ = "unstarted" THEN "idle" ELSE @] /\ UNCHANGED intruded
  BY DEF runInstall
<1>2. l \in Leases
  BY DEF Command, Leases
<1> HIDE DEF l
<1>3. \A q \in Panes \ {p} : SamePane(q)
  BY <1>1 DEF Unbind, SamePane, PublicationsOK
<1>4. \A m \in Leases : worker'[m] = worker[m] \/ (worker[m] = "unstarted" /\ worker'[m] = "idle")
  BY <1>1, <1>2 DEF WorkersOK
<1>5. \A m \in Leases : /\ FollowsOK(m)' /\ (Live(m)' => Carries(m) \/ worker[m] = "unstarted")
                        /\ worker'[m] = "unstarted" => worker[m] = "unstarted"
  BY <1>1, <1>4, UnbindLeavesQueues
<1>6. \A m \in Leases : worker[m] = "unstarted" => \A q \in Panes \ {p} : lease[q] # m
  BY NoneIsNoID DEF OutputInv, PaneOK, PreparedOK
<1>7. PaneOK(p)'
  <2>1. /\ lease'[p] = l /\ worker'[l] # "unstarted" /\ epoch'[p] = epoch[p] + 1 /\ version'[p] = 0
        /\ damage'[p] = FullDamage(TRUE) /\ pending'[p] = None /\ snapshot'[p] = None
    BY <1>1, <1>2 DEF Unbind, PublicationsOK, WorkersOK
  <2>2. epoch'[p] > 0
    BY <2>1 DEF OutputInv, PaneOK, PreparedOK, PublicationsOK
  <2>3. BarrierIsDue(p)'
    BY <2>1 DEF BarrierIsDue, FullDamage
  <2>4. PreparedOK(p)'
    BY <2>1, <2>2 DEF PreparedOK, FullDamage
  <2>5. DamageOK(p)'
    BY <2>1 DEF DamageOK, FullDamage
  <2>6. ContinuesOK(p)' /\ PictureOK(p)'
    BY <2>1, <2>3 DEF ContinuesOK, PictureOK
  <2> QED
    BY <2>4, <2>5, <2>6 DEF PaneOK
<1> QED
  BY <1>1, <1>3, <1>5, <1>6, <1>7, PaneTurns

LEMMA RunsContinue ==
    ASSUME IInv, OutputInv, NEW p \in Panes, runCommand(p)
    PROVE  OutputInv'
<1> DEFINE command == Head(commands[p])
<1>1. /\ commands[p] # <<>>
      /\ UNCHANGED <<text, history, failed, broken, base, record, screen>>
      /\ \/ command.type = "install" /\ runInstall(p, command)
         \/ command.type = "release" /\ runRelease(p, command)
         \/ command.type = "detach" /\ runDetach(p, command)
  BY DEF runCommand
<1>2. CommandsOK /\ PublicationsOK /\ WorkersOK
  BY DEF IInv
<1>3. command \in Command
  <2>1. commands[p] \in Seq(Command)
    BY <1>2 DEF CommandsOK
  <2> QED
    BY <1>1, <2>1, Rest
<1> HIDE DEF command
<1>4. CASE command.type = "install" /\ runInstall(p, command)
  BY <1>1, <1>2, <1>3, <1>4, InstallContinues
<1>5. CASE (command.type = "release" /\ runRelease(p, command)) \/ (command.type = "detach" /\ runDetach(p, command))
  <2>1. UNCHANGED worker /\ intruded \subseteq intruded' /\ (Forget(p) \/ UNCHANGED <<publicationVars, ready, intruded>>)
    BY <1>5 DEF runRelease, runDetach
  <2> QED
    BY <1>1, <1>2, <2>1, ForgetContinues, OutputStays DEF workerVars
<1> QED
  BY <1>1, <1>4, <1>5

LEMMA EndsContinue ==
    ASSUME IInv, OutputInv, NEW p \in Panes, mainDone(p)
    PROVE  OutputInv'
<1>1. /\ lease' = [lease EXCEPT ![p] = None] /\ revision' = [revision EXCEPT ![p] = 0]
      /\ epoch' = [epoch EXCEPT ![p] = 1] /\ version' = [version EXCEPT ![p] = 0]
      /\ snapshot' = [snapshot EXCEPT ![p] = None] /\ damage' = [damage EXCEPT ![p] = NoDamage]
      /\ pending' = [pending EXCEPT ![p] = None]
      /\ UNCHANGED <<text, history, workerVars, screen, intruded>>
  BY DEF mainDone
<1>2. PublicationsOK
  BY DEF IInv
<1>3. \A q \in Panes \ {p} : SamePane(q)
  BY <1>1, <1>2 DEF SamePane, PublicationsOK
<1>4. PaneOK(p)'
  <2>1. lease'[p] = None /\ epoch'[p] = 1 /\ pending'[p] = None /\ damage'[p] = NoDamage
    BY <1>1, <1>2 DEF PublicationsOK
  <2> QED
    BY <2>1, LooseIsOK DEF NoDamage
<1> QED
  BY <1>1, <1>2, <1>3, <1>4, QueuesGoOn, PaneTurns

LEMMA FailuresContinue ==
    ASSUME IInv, OutputInv, NEW p \in Panes, seeFailure(p)
    PROVE  OutputInv'
BY ForgetContinues DEF IInv, seeFailure, terminalVars

\* A pane's history comes or goes.
LEMMA TogglesContinue ==
    ASSUME IInv, OutputInv, NEW p \in Panes, toggleHistory(p)
    PROVE  OutputInv'
<1>1. PublicationsOK /\ TerminalsOK /\ PaneOK(p)
  BY DEF IInv, OutputInv
<1>2. /\ history' = [history EXCEPT ![p] = ~@]
      /\ UNCHANGED <<text, workerVars, screen, intruded>>
  BY DEF toggleHistory
<1>3. CASE lease[p] = None
  <2>1. UNCHANGED publicationVars
    BY <1>3 DEF toggleHistory
  <2>2. \A q \in Panes \ {p} : SamePane(q)
    BY <1>1, <1>2, <2>1 DEF SamePane, publicationVars, TerminalsOK
  <2>3. PaneOK(p)'
    <3>1. PreparedOK(p)'
      BY <1>1, <1>3, <2>1 DEF PaneOK, PreparedOK, publicationVars, BarrierIsDue
    <3> QED
      BY <1>3, <2>1, <3>1 DEF PaneOK, ContinuesOK, DamageOK, PictureOK, Heeded, publicationVars
  <2> QED
    BY <1>1, <1>2, <2>2, <2>3, QueuesGoOn, PaneTurns
<1>4. CASE lease[p] # None
  <2>1. /\ pending' = [pending EXCEPT ![p] = None] /\ snapshot' = [snapshot EXCEPT ![p] = None]
        /\ epoch' = [epoch EXCEPT ![p] = @ + 1] /\ version' = [version EXCEPT ![p] = 0]
        /\ damage' = [damage EXCEPT ![p] = FullDamage(BarrierIsDue(p))]
        /\ UNCHANGED <<lease, revision>>
    BY <1>4 DEF toggleHistory
  <2>2. \A q \in Panes \ {p} : SamePane(q)
    BY <1>1, <1>2, <2>1 DEF SamePane, PublicationsOK, TerminalsOK
  <2>3. /\ pending'[p] = None /\ snapshot'[p] = None /\ epoch'[p] = epoch[p] + 1 /\ version'[p] = 0
        /\ damage'[p] = FullDamage(BarrierIsDue(p)) /\ lease'[p] = lease[p] /\ revision'[p] = revision[p]
    BY <1>1, <2>1 DEF PublicationsOK
  <2>4. BarrierIsDue(p)' = BarrierIsDue(p)
    <3>1. PICK b \in BOOLEAN : b = BarrierIsDue(p)
      BY DEF BarrierIsDue
    <3>2. damage'[p] = FullDamage(b)
      BY <2>3, <3>1
    <3>3. damage'[p].barrier = b
      BY <3>2 DEF FullDamage
    <3>4. BarrierIsDue(p)' = b
      BY <2>3, <3>3 DEF BarrierIsDue
    <3> QED
      BY <3>1, <3>4
  <2>5. epoch[p] \in Nat /\ epoch[p] > 0
    BY <1>1 DEF PublicationsOK, PaneOK, PreparedOK
  <2>6. PreparedOK(p)'
    BY <1>1, <1>2, <2>3, <2>5 DEF PaneOK, PreparedOK, FullDamage, workerVars
  <2>7. DamageOK(p)'
    BY <2>3 DEF DamageOK, FullDamage
  <2>8. /\ Heeded(p)' = Heeded(p) /\ Last(lease[p])' = Last(lease[p])
        /\ Picture(lease[p])' = Picture(lease[p])
    BY <1>2, <2>1 DEF Heeded, Live, Last, Picture, Written, Painted, Overlaid, workerVars
  <2>9. ContinuesOK(p)'
    <3> SUFFICES ASSUME Heeded(p), ~BarrierIsDue(p) PROVE Continues(p, lease[p])'
      BY <2>4, <2>8 DEF ContinuesOK
    <3>1. Last(lease[p]) # NoBase /\ Last(lease[p]).epoch <= epoch[p]
      BY <1>1 DEF PaneOK, ContinuesOK, Continues
    <3>2. Last(lease[p]).epoch \in Nat
      <4>1. lease[p] \in Leases
        BY <1>1, <1>4 DEF PublicationsOK
      <4>2. WorkersOK
        BY DEF IInv
      <4> QED
        BY <4>1, <4>2 DEF Last, WorkersOK, IsPublication, Publications
    <3>3. KeyframeIsDue(p)'
      BY <2>3 DEF KeyframeIsDue, FullDamage
    <3>4. Last(lease[p]).epoch <= epoch'[p] /\ Last(lease[p]).epoch # epoch'[p]
      BY <2>3, <2>5, <3>1, <3>2
    <3> QED
      BY <2>3, <2>8, <3>1, <3>3, <3>4 DEF Continues
  <2>10. PictureOK(p)'
    BY <1>1, <2>3, <2>4, <2>8 DEF PaneOK, PictureOK
  <2>11. PaneOK(p)'
    BY <2>6, <2>7, <2>9, <2>10 DEF PaneOK
  <2> QED
    BY <1>1, <1>2, <2>2, <2>11, QueuesGoOn, PaneTurns
<1> QED
  BY <1>3, <1>4

\* A chunk damages the row it changes, in a pane that shows its live terminal.
LEMMA ChunksContinue ==
    ASSUME IInv, OutputInv, NEW p \in Panes, applyPTYChunk(p)
    PROVE  OutputInv'
<1>1. PICK r \in Rows :
         /\ text' = [text EXCEPT ![p][r] = 1 - @]
         /\ damage' = IF lease[p] # None /\ ~history[p] THEN [damage EXCEPT ![p].rows = @ \cup {r}] ELSE damage
  BY DEF applyPTYChunk
<1>2. UNCHANGED <<history, lease, revision, epoch, version, snapshot, pending, workerVars, screen, intruded>>
  BY DEF applyPTYChunk
<1>3. PublicationsOK /\ TerminalsOK /\ PaneOK(p)
  BY DEF IInv, OutputInv
<1>4. text[p] \in [Rows -> {0, 1}] /\ damage[p] \in [keyframe : BOOLEAN, barrier : BOOLEAN, rows : SUBSET Rows]
  BY <1>3 DEF TerminalsOK, PublicationsOK
<1>5. \A q \in Panes \ {p} : SamePane(q)
  BY <1>1, <1>2, <1>3 DEF SamePane, PublicationsOK, TerminalsOK
<1>6. text'[p] = [text[p] EXCEPT ![r] = 1 - @]
  BY <1>1, <1>3 DEF TerminalsOK
<1>7. /\ damage'[p].keyframe = damage[p].keyframe /\ damage'[p].barrier = damage[p].barrier
      /\ damage'[p].rows = IF lease[p] # None /\ ~history[p] THEN damage[p].rows \cup {r} ELSE damage[p].rows
  <2>1. CASE lease[p] # None /\ ~history[p]
    <3>1. damage'[p] = [damage[p] EXCEPT !.rows = @ \cup {r}]
      BY <1>1, <1>3, <2>1 DEF PublicationsOK
    <3> QED
      BY <1>4, <2>1, <3>1
  <2>2. CASE ~(lease[p] # None /\ ~history[p])
    BY <1>1, <2>2
  <2> QED
    BY <2>1, <2>2
<1>8. BarrierIsDue(p)' = BarrierIsDue(p) /\ KeyframeIsDue(p)' = KeyframeIsDue(p)
  BY <1>2, <1>7 DEF BarrierIsDue, KeyframeIsDue
<1>9. PreparedOK(p)'
  BY <1>2, <1>3, <1>7, <1>8 DEF PaneOK, PreparedOK, workerVars
<1>10. /\ Heeded(p)' = Heeded(p) /\ Last(lease[p])' = Last(lease[p])
       /\ Picture(lease[p])' = Picture(lease[p])
  BY <1>2 DEF Heeded, Live, Last, Picture, Written, Painted, Overlaid, workerVars
<1>11. ContinuesOK(p)' /\ PictureOK(p)'
  BY <1>2, <1>3, <1>8, <1>10 DEF PaneOK, ContinuesOK, Continues, PictureOK
<1>12. DamageOK(p)'
  <2> SUFFICES ASSUME lease[p] # None
               PROVE  /\ snapshot[p] = None /\ pending[p] = None => damage'[p].keyframe
                      /\ damage'[p].keyframe => damage'[p].rows = Rows
                      /\ \A s \in Rows \ damage'[p].rows :
                            Shown(p)'[s] = (IF pending[p] = None THEN snapshot[p] ELSE SnapshotAfter(p))[s]
    <3>1. SnapshotAfter(p)' = SnapshotAfter(p)
      BY <1>2 DEF SnapshotAfter, Overlaid
    <3> QED
      BY <1>2, <3>1 DEF DamageOK
  <2>1. /\ snapshot[p] = None /\ pending[p] = None => damage[p].keyframe
        /\ damage[p].keyframe => damage[p].rows = Rows
        /\ \A s \in Rows \ damage[p].rows :
              Shown(p)[s] = (IF pending[p] = None THEN snapshot[p] ELSE SnapshotAfter(p))[s]
    BY <1>3 DEF PaneOK, DamageOK
  <2>2. ASSUME NEW s \in Rows \ damage'[p].rows PROVE Shown(p)'[s] = Shown(p)[s] /\ s \notin damage[p].rows
    BY <1>2, <1>4, <1>6, <1>7, <2>2 DEF Shown
  <2>3. damage'[p].keyframe => damage'[p].rows = Rows
    BY <1>7, <2>1
  <2> QED
    BY <1>7, <2>1, <2>2, <2>3
<1>13. PaneOK(p)'
  BY <1>9, <1>11, <1>12 DEF PaneOK
<1> QED
  BY <1>2, <1>3, <1>5, <1>13, QueuesGoOn, PaneTurns

LEMMA PreparationsContinue ==
    ASSUME IInv, OutputInv, NEW p \in Panes, prepare(p)
    PROVE  OutputInv'
<1>1. /\ lease[p] # None /\ pending[p] = None
      /\ damage' = [damage EXCEPT ![p] = NoDamage]
      /\ UNCHANGED <<text, history, lease, revision, epoch, version, snapshot, workerVars, screen, intruded>>
  BY DEF prepare, HasMutation, terminalVars
<1>2. PICK keyframe \in BOOLEAN :
         /\ damage[p].keyframe \/ damage[p].barrier \/ snapshot[p] = None => keyframe
         /\ IF ~keyframe /\ Changed(p) = {}
              THEN UNCHANGED pending
              ELSE pending' = [pending EXCEPT ![p] = Publication(p, keyframe)]
  BY DEF prepare
<1>3. PublicationsOK /\ TerminalsOK /\ PaneOK(p) /\ InstancesOK
  BY DEF IInv, OutputInv
<1>4. damage'[p] = NoDamage /\ damage[p] \in [keyframe : BOOLEAN, barrier : BOOLEAN, rows : SUBSET Rows]
  BY <1>1, <1>3 DEF PublicationsOK
<1>5. \A q \in Panes \ {p} : SamePane(q)
  BY <1>1, <1>2, <1>3 DEF SamePane, PublicationsOK
<1>6. /\ Heeded(p)' = Heeded(p) /\ Last(lease[p])' = Last(lease[p])
      /\ Picture(lease[p])' = Picture(lease[p]) /\ Shown(p)' = Shown(p)
  BY <1>1 DEF Heeded, Live, Last, Picture, Written, Painted, Overlaid, workerVars, Shown
<1>7. /\ BarrierIsDue(p) = damage[p].barrier /\ KeyframeIsDue(p) = damage[p].keyframe
  BY <1>1, <1>4 DEF BarrierIsDue, KeyframeIsDue
<1>8. /\ damage[p].barrier => damage[p].keyframe
      /\ damage[p].keyframe => damage[p].rows = Rows
      /\ \A r \in Rows \ damage[p].rows : Shown(p)[r] = snapshot[p][r]
  BY <1>1, <1>3 DEF PaneOK, PreparedOK, DamageOK
<1>9. CASE ~keyframe /\ Changed(p) = {}
  <2>1. UNCHANGED pending /\ ~damage[p].keyframe /\ ~damage[p].barrier /\ snapshot[p] # None
    BY <1>2, <1>9
  <2>2. BarrierIsDue(p)' = BarrierIsDue(p) /\ KeyframeIsDue(p)' = KeyframeIsDue(p)
    BY <1>1, <1>4, <1>7, <2>1 DEF BarrierIsDue, KeyframeIsDue, NoDamage
  <2>3. PreparedOK(p)'
    BY <1>1, <1>3, <1>4, <2>1, <2>2 DEF PaneOK, PreparedOK, workerVars, NoDamage
  <2>4. \A r \in Rows : Shown(p)[r] = snapshot[p][r]
    BY <1>8, <1>9 DEF Changed
  <2>5. DamageOK(p)'
    BY <1>1, <1>4, <1>6, <2>1, <2>4 DEF DamageOK, NoDamage
  <2>6. ContinuesOK(p)' /\ PictureOK(p)'
    BY <1>1, <1>3, <1>6, <2>2 DEF PaneOK, ContinuesOK, Continues, PictureOK
  <2>7. PaneOK(p)'
    BY <2>3, <2>5, <2>6 DEF PaneOK
  <2> QED
    BY <1>1, <1>3, <1>5, <2>7, QueuesGoOn, PaneTurns
<1>10. CASE ~(~keyframe /\ Changed(p) = {})
  <2>1. PICK pub : pub = Publication(p, keyframe)
    OBVIOUS
  <2>2. pub # None /\ pub.keyframe = keyframe
    <3>1. Len(issued) \in Nat /\ (damage[p].barrier => keyframe)
      BY <1>2, <1>3 DEF InstancesOK
    <3> QED
      BY <1>3, <2>1, <3>1, PreparesPublication
  <2>3. /\ pub.epoch = epoch[p] /\ pub.barrier = damage[p].barrier /\ pub.target = version[p] + 1
        /\ pub.base = (IF keyframe THEN 0 ELSE version[p])
        /\ pub.rows = [r \in IF keyframe THEN Rows ELSE Changed(p) |-> Shown(p)[r]]
    BY <2>1 DEF Publication
  <2>4. pending'[p] = pub
    BY <1>2, <1>3, <1>10, <2>1 DEF PublicationsOK
  <2>5. BarrierIsDue(p)' = BarrierIsDue(p)
    BY <1>4, <1>7, <2>2, <2>3, <2>4 DEF BarrierIsDue, NoDamage
  <2>6. KeyframeIsDue(p)' = keyframe
    BY <1>4, <2>2, <2>4 DEF KeyframeIsDue, NoDamage
  <2>7. PreparedOK(p)'
    BY <1>1, <1>3, <1>4, <2>2, <2>3, <2>4, <2>5 DEF PaneOK, PreparedOK, workerVars, NoDamage
  <2>8. \A r \in Rows : Shown(p)[r] = Overlaid(snapshot[p], pub.rows)[r]
    <3> SUFFICES ASSUME NEW r \in Rows PROVE Shown(p)[r] = Overlaid(snapshot[p], pub.rows)[r]
      OBVIOUS
    <3>1. Overlaid(snapshot[p], pub.rows)[r] = IF r \in DOMAIN pub.rows THEN pub.rows[r] ELSE snapshot[p][r]
      BY DEF Overlaid
    <3>2. CASE r \in DOMAIN pub.rows
      <4>1. pub.rows[r] = Shown(p)[r]
        BY <2>3, <3>2
      <4> QED
        BY <3>1, <3>2, <4>1
    <3>3. CASE r \notin DOMAIN pub.rows
      <4>1. ~keyframe /\ r \notin Changed(p)
        BY <2>3, <3>3
      <4>2. Shown(p)[r] = snapshot[p][r]
        BY <1>8, <4>1 DEF Changed
      <4> QED
        BY <3>1, <3>3, <4>2
    <3> QED
      BY <3>2, <3>3
  <2>9. SnapshotAfter(p)' = Overlaid(snapshot[p], pub.rows)
    BY <1>1, <2>4 DEF SnapshotAfter, Overlaid
  <2>10. DamageOK(p)'
    BY <1>1, <1>4, <1>6, <2>2, <2>4, <2>8, <2>9 DEF DamageOK, NoDamage
  <2>11. ContinuesOK(p)'
    <3> SUFFICES ASSUME Heeded(p), ~BarrierIsDue(p) PROVE Continues(p, lease[p])'
      BY <1>6, <2>5 DEF ContinuesOK
    <3>1. Continues(p, lease[p])
      BY <1>3 DEF PaneOK, ContinuesOK
    <3>2. damage[p].keyframe => keyframe
      BY <1>2
    <3> QED
      BY <1>1, <1>6, <1>7, <2>6, <3>1, <3>2 DEF Continues
  <2>12. PictureOK(p)'
    BY <1>1, <1>3, <1>6, <2>5 DEF PaneOK, PictureOK
  <2>13. PaneOK(p)'
    BY <2>7, <2>10, <2>11, <2>12 DEF PaneOK
  <2> QED
    BY <1>1, <1>3, <1>5, <2>13, QueuesGoOn, PaneTurns
<1> QED
  BY <1>9, <1>10

\* What a pane hands off follows what the confirmer had, and paints what the pane remembers.
LEMMA HandsOffContinue ==
    ASSUME IInv, FitInv, OutputInv, NEW p \in Panes, handedOff(p)
    PROVE  OutputInv'
<1>1. /\ pending[p] # None /\ lease[p] # None /\ ready[lease[p]] = <<>>
      /\ ready' = [ready EXCEPT ![lease[p]] = <<pending[p]>>]
      /\ version' = [version EXCEPT ![p] = pending[p].target]
      /\ snapshot' = [snapshot EXCEPT ![p] = SnapshotAfter(p)]
      /\ pending' = [pending EXCEPT ![p] = None]
      /\ intruded' = intruded \cup ({lease[p]} \cap OtherLeases(p))
      /\ UNCHANGED <<text, history, lease, revision, epoch, damage, worker, broken, base, record, screen>>
  BY DEF handedOff, terminalVars
<1>2. PublicationsOK /\ WorkersOK /\ PaneOK(p) /\ PanesFit
  BY DEF IInv, FitInv, OutputInv
<1>3. PICK l \in Leases : l = lease[p]
  BY <1>1, <1>2 DEF PublicationsOK
<1>4. PICK pub : pub = pending[p]
  OBVIOUS
<1>5. /\ pub \in Publications /\ (pub.barrier => pub.keyframe) /\ (pub.keyframe => DOMAIN pub.rows = Rows)
      /\ (snapshot[p] = None => pub.keyframe) /\ pub.revision = revision[p] /\ pub # None
  BY <1>1, <1>2, <1>4 DEF PublicationsOK, IsPublication, PanesFit
<1>6. /\ ~damage[p].keyframe /\ ~damage[p].barrier
      /\ pub.epoch = epoch[p] /\ pub.target = version[p] + 1 /\ epoch[p] > 0
      /\ ~pub.keyframe => pub.base = version[p]
      /\ worker[l] # "unstarted"
  BY <1>1, <1>2, <1>3, <1>4 DEF PaneOK, PreparedOK
<1>7. /\ BarrierIsDue(p) = pub.barrier /\ KeyframeIsDue(p) = pub.keyframe
      /\ pub.barrier => version[p] = 0 /\ snapshot[p] = None
  BY <1>1, <1>2, <1>4, <1>5, <1>6 DEF BarrierIsDue, KeyframeIsDue, PaneOK, PreparedOK, Publications
<1>8. /\ version[p] \in Nat /\ epoch[p] \in Nat /\ base[l] \in [epoch : Nat, version : Nat]
      /\ screen[l] \in [revision : Revisions, size : 0 .. Cardinality(Panes), rows : Grid]
      /\ worker[l] = "writing" => IsPublication(record[l])
  BY <1>2 DEF PublicationsOK, WorkersOK
<1>9. \A m \in Leases : ready'[m] = IF m = l THEN <<pub>> ELSE ready[m]
  BY <1>1, <1>2, <1>3, <1>4 DEF WorkersOK
<1>10. ready[l] = <<>> /\ ready'[l] # <<>> /\ ready'[l][1] = pub
  BY <1>1, <1>3, <1>9
<1>11. \A q \in Panes \ {p} : SamePane(q)
  BY <1>1, <1>2 DEF SamePane, PublicationsOK
<1>12. intruded \subseteq intruded' /\ (l \notin intruded' => \A q \in Panes \ {p} : lease[q] # l)
  BY <1>1, <1>3 DEF OtherLeases
<1>13. ASSUME l \notin intruded, Live(l) PROVE Follows(l, pub)
  <2>1. Heeded(p)
    BY <1>1, <1>3, <1>13 DEF Heeded
  <2>2. CASE pub.barrier
    BY <1>5, <1>6, <1>7, <1>8, <2>2 DEF Follows
  <2>3. CASE ~pub.barrier
    <3>1. Continues(p, l)
      BY <1>2, <1>3, <1>7, <2>1, <2>3 DEF PaneOK, ContinuesOK
    <3>2. Last(l) = base[l]
      BY <1>10 DEF Last
    <3>3. base[l] # NoBase
      BY <3>1, <3>2 DEF Continues
    <3>4. CASE base[l].epoch = epoch[p]
      <4>1. base[l].version = version[p]
        BY <3>1, <3>2, <3>4 DEF Continues
      <4> QED
        BY <1>5, <1>6, <1>8, <2>3, <3>3, <3>4, <4>1 DEF Follows
    <3>5. CASE base[l].epoch # epoch[p]
      <4>1. version[p] = 0 /\ pub.keyframe
        BY <1>7, <3>1, <3>2, <3>5 DEF Continues
      <4> QED
        BY <1>6, <2>3, <3>3, <3>5, <4>1 DEF Follows
    <3> QED
      BY <3>4, <3>5
  <2> QED
    BY <2>2, <2>3
<1>14. FollowsOK(l)'
  <2>1. Live(l)' = Live(l)
    BY <1>1 DEF Live
  <2>2. Follows(l, ready[l][1])' = Follows(l, pub)
    BY <1>1, <1>10 DEF Follows
  <2> QED
    BY <1>1, <1>6, <1>12, <1>13, <2>1, <2>2 DEF FollowsOK
<1>15. \A m \in Leases \ {l} : /\ FollowsOK(m)' /\ (Live(m)' => Carries(m))
                               /\ worker'[m] = "unstarted" => worker[m] = "unstarted"
  <2> SUFFICES ASSUME NEW m \in Leases \ {l}
               PROVE  /\ FollowsOK(m)' /\ (Live(m)' => Carries(m))
                      /\ worker'[m] = "unstarted" => worker[m] = "unstarted"
    OBVIOUS
  <2>1. SameQueue(m) /\ FollowsOK(m)
    BY <1>1, <1>9 DEF SameQueue, OutputInv
  <2> QED
    BY <1>12, <2>1, QueueStays
<1>16. /\ pending'[p] = None /\ version'[p] = pub.target /\ snapshot'[p] = SnapshotAfter(p) /\ lease'[p] = l
       /\ damage'[p] = damage[p] /\ epoch'[p] = epoch[p] /\ revision'[p] = revision[p] /\ worker'[l] = worker[l]
  BY <1>1, <1>2, <1>3, <1>4 DEF PublicationsOK
<1>17. SnapshotAfter(p) = Overlaid(snapshot[p], pub.rows) /\ SnapshotAfter(p) \in Grid /\ SnapshotAfter(p) # None
  <2>1. SnapshotAfter(p) = Overlaid(snapshot[p], pub.rows)
    BY <1>4 DEF SnapshotAfter
  <2>2. snapshot[p] \in Grid \/ DOMAIN pub.rows = Rows
    BY <1>2, <1>5 DEF PublicationsOK
  <2>3. SnapshotAfter(p) \in Grid
    BY <1>5, <2>1, <2>2, OverlaidGrid
  <2> QED
    BY <2>1, <2>3, NoneIsNothing
<1>18. ~BarrierIsDue(p)' /\ ~KeyframeIsDue(p)'
  BY <1>6, <1>16 DEF BarrierIsDue, KeyframeIsDue
<1>19. PreparedOK(p)'
  BY <1>6, <1>16, <1>18 DEF PreparedOK
<1>20. DamageOK(p)'
  <2>1. \A r \in Rows \ damage[p].rows : Shown(p)[r] = SnapshotAfter(p)[r]
    BY <1>1, <1>2 DEF PaneOK, DamageOK
  <2>2. Shown(p)' = Shown(p)
    BY <1>1 DEF Shown
  <2>3. \A r \in Rows \ damage'[p].rows : Shown(p)'[r] = snapshot'[p][r]
    BY <1>16, <2>1, <2>2
  <2>4. snapshot'[p] # None /\ ~damage'[p].keyframe
    BY <1>6, <1>16, <1>17
  <2> QED
    BY <1>16, <2>3, <2>4 DEF DamageOK
<1>21. ContinuesOK(p)'
  <2>1. Last(l)' = [epoch |-> epoch[p], version |-> pub.target]
    BY <1>6, <1>10 DEF Last
  <2>2. Last(l)' # NoBase /\ Last(l)'.epoch = epoch[p] /\ Last(l)'.version = pub.target
    BY <1>6, <2>1 DEF NoBase
  <2>3. Last(lease[p])' = Last(l)'
    BY <1>16 DEF Last
  <2> QED
    BY <1>8, <1>16, <2>2, <2>3 DEF ContinuesOK, Continues
<1>22. PictureOK(p)'
  <2> SUFFICES ASSUME l \notin intruded, Live(l)
               PROVE  Picture(lease[p])'.revision = revision[p] /\ Picture(lease[p])'.rows = SnapshotAfter(p)
    <3>1. Heeded(p)' => l \notin intruded /\ Live(l)
      BY <1>1, <1>12, <1>16 DEF Heeded, Live
    <3> QED
      BY <1>16, <3>1 DEF PictureOK
  <2>1. PICK written : written = Written(l)
    OBVIOUS
  <2>2. written \in [revision : Revisions, size : 0 .. Cardinality(Panes), rows : Grid]
    BY <1>8, <2>1, PaintedPicture DEF Written
  <2>3. Written(l)' = written
    BY <1>1, <2>1 DEF Written, Painted, Overlaid
  <2>4. Picture(lease[p])' = Painted(written, pub)
    BY <1>10, <1>16, <2>3 DEF Picture, Written, Painted, Overlaid
  <2>5. Picture(l) = written
    BY <1>10, <2>1 DEF Picture
  <2>6. Heeded(p)
    BY <1>1, <1>3 DEF Heeded
  <2>7. CASE pub.barrier
    <3>1. Painted(written, pub) = [revision |-> pub.revision, size |-> pub.size, rows |-> pub.rows]
      BY <2>7 DEF Painted
    <3>2. DOMAIN pub.rows = Rows /\ pub.rows = [r \in Rows |-> pub.rows[r]]
      <4>1. PICK some \in SUBSET Rows : pub.rows \in [some -> Contents]
        BY <1>5 DEF Publications
      <4> QED
        BY <1>5, <2>7, <4>1
    <3>3. Overlaid(snapshot[p], pub.rows) = [r \in Rows |-> pub.rows[r]]
      BY <3>2 DEF Overlaid
    <3> QED
      BY <1>5, <1>17, <2>4, <3>1, <3>2, <3>3
  <2>8. CASE ~pub.barrier
    <3>1. Painted(written, pub) = [written EXCEPT !.rows = Overlaid(@, pub.rows)]
      BY <2>8 DEF Painted
    <3>2. Painted(written, pub).revision = written.revision /\ Painted(written, pub).rows = Overlaid(written.rows, pub.rows)
      BY <2>2, <3>1
    <3>3. written.revision = revision[p]
      BY <1>2, <1>3, <1>7, <2>5, <2>6, <2>8 DEF PaneOK, PictureOK
    <3>4. Overlaid(written.rows, pub.rows) = Overlaid(snapshot[p], pub.rows)
      <4>1. CASE snapshot[p] # None
        <5>1. written.rows = snapshot[p]
          BY <1>2, <1>3, <2>5, <2>6, <4>1 DEF PaneOK, PictureOK
        <5> QED
          BY <5>1
      <4>2. CASE snapshot[p] = None
        <5>1. DOMAIN pub.rows = Rows
          BY <1>5, <4>2
        <5> QED
          BY <5>1 DEF Overlaid
      <4> QED
        BY <4>1, <4>2
    <3> QED
      BY <1>17, <2>4, <3>2, <3>3, <3>4
  <2> QED
    BY <2>7, <2>8
<1>23. PaneOK(p)'
  BY <1>19, <1>20, <1>21, <1>22 DEF PaneOK
<1>24. /\ \A m \in Leases : worker'[m] = "unstarted" => worker[m] = "unstarted"
       /\ \A m \in Leases : FollowsOK(m)'
       /\ \A m \in Leases : m \notin intruded' /\ Live(m)' => Carries(m) \/ \A q \in Panes \ {p} : lease[q] # m
  BY <1>12, <1>14, <1>15, <1>16
<1> QED
  BY <1>2, <1>11, <1>12, <1>23, <1>24, PaneTurns

-----------------------------------------------------------------------------
(* Pictures: the confirmers *)

\* A confirmer takes a step: the panes and the other confirmers have what they had.
LEMMA ConfirmerTurns ==
    ASSUME IInv, OutputInv, NEW l \in Leases,
           UNCHANGED <<text, history, lease, revision, epoch, version, snapshot, damage, pending, intruded>>,
           \A m \in Leases \ {l} : SameQueue(m),
           FollowsOK(l)' /\ (Live(l)' => Carries(l)) /\ (worker'[l] = "unstarted" => worker[l] = "unstarted")
    PROVE  OutputInv'
<1>1. /\ intruded' = intruded
      /\ \A p \in Panes : SamePane(p)
  BY DEF SamePane
<1>2. ASSUME NEW m \in Leases
      PROVE  FollowsOK(m)' /\ (Live(m)' => Carries(m)) /\ (worker'[m] = "unstarted" => worker[m] = "unstarted")
  <2>1. CASE m = l
    BY <2>1
  <2>2. CASE m # l
    <3>1. SameQueue(m) /\ FollowsOK(m)
      BY <2>2 DEF OutputInv
    <3> QED
      BY <1>1, <3>1, QueueStays
  <2> QED
    BY <2>1, <2>2
<1>3. ASSUME NEW p \in Panes PROVE PaneOK(p)'
  <2>1. SamePane(p) /\ PaneOK(p)
    BY <1>1 DEF OutputInv
  <2>2. CASE lease[p] = None
    BY <1>1, <2>1, <2>2, PaneStays
  <2>3. CASE lease[p] # None
    <3>1. PICK m \in Leases : m = lease[p]
      BY <2>3 DEF IInv, PublicationsOK
    <3>2. m = lease'[p]
      BY <2>1, <3>1 DEF SamePane
    <3>3. ASSUME Live(lease[p])' PROVE Carries(lease[p])
      <4>1. Live(m)'
        BY <3>2, <3>3 DEF Live
      <4>2. Carries(m)
        BY <1>2, <4>1
      <4> QED
        BY <3>1, <3>2, <4>2 DEF Carries, Last, Picture, Written, Live
    <3>4. worker'[lease[p]] = "unstarted" => worker[lease[p]] = "unstarted"
      BY <1>2, <3>1
    <3> QED
      BY <1>1, <2>1, <3>3, <3>4, PaneStays
  <2> QED
    BY <2>2, <2>3
<1> QED
  BY <1>2, <1>3 DEF OutputInv

LEMMA ConfirmersContinue ==
    ASSUME IInv, OutputInv, NEW l \in Leases, runConfirmer(l)
    PROVE  OutputInv'
<1>1. WorkersOK /\ FollowsOK(l)
  BY DEF IInv, OutputInv
<1>2. UNCHANGED <<text, history, lease, revision, epoch, version, snapshot, damage, pending, intruded>>
  BY DEF runConfirmer, takePublication, writeFrame, writeFails, drainAbandoned, closeWorkerDone,
         terminalVars, publicationVars
<1>3. \A m \in Leases \ {l} : SameQueue(m)
  BY <1>1 DEF runConfirmer, takePublication, ReportFailure, writeFrame, writeFails, drainAbandoned, closeWorkerDone,
              SameQueue, WorkersOK
<1>4. FollowsOK(l)' /\ (Live(l)' => Carries(l)) /\ (worker'[l] = "unstarted" => worker[l] = "unstarted")
  <2>1. CASE takePublication(l)
    <3>1. /\ worker[l] = "idle" /\ ready[l] # <<>> /\ ready'[l] = <<>> /\ screen' = screen
          /\ \/ broken[l] /\ UNCHANGED <<worker, base, record, broken>>
             \/ /\ ~broken[l] /\ broken' = broken /\ worker'[l] = "writing" /\ record'[l] = ready[l][1]
                /\ base'[l] = [epoch |-> ready[l][1].epoch, version |-> ready[l][1].target]
             \/ broken'[l] /\ worker' = worker
      BY <1>1, <2>1 DEF takePublication, ReportFailure, WorkersOK
    <3>2. FollowsOK(l)' /\ worker'[l] # "unstarted"
      BY <3>1 DEF FollowsOK
    <3>3. ASSUME Live(l)' PROVE Carries(l)
      <4>1. /\ ~broken[l] /\ worker'[l] = "writing" /\ record'[l] = ready[l][1]
            /\ base'[l] = [epoch |-> ready[l][1].epoch, version |-> ready[l][1].target]
        BY <3>1, <3>3 DEF Live
      <4>2. Live(l) /\ Last(l)' = Last(l)
        BY <3>1, <4>1 DEF Live, Last
      <4>3. Picture(l)' = Painted(screen'[l], record'[l])
        BY <3>1, <4>1 DEF Picture, Written, Painted, Overlaid
      <4>4. Picture(l) = Painted(screen[l], ready[l][1])
        BY <3>1 DEF Picture, Written
      <4>5. Painted(screen'[l], record'[l]) = Painted(screen[l], ready[l][1])
        BY <3>1, <4>1
      <4> QED
        BY <4>2, <4>3, <4>4, <4>5 DEF Carries
    <3> QED
      BY <3>2, <3>3
  <2>2. CASE writeFrame(l)
    <3>1. PICK picture : picture = Painted(screen[l], record[l])
      OBVIOUS
    <3>2. /\ worker[l] = "writing" /\ worker'[l] = "idle" /\ screen'[l] = picture
          /\ UNCHANGED <<ready, broken, base>>
      BY <1>1, <2>2, <3>1 DEF writeFrame, WorkersOK
    <3>3. Live(l)' = Live(l) /\ Last(l)' = Last(l)
      BY <3>2 DEF Live, Last
    <3>4. Written(l)' = picture /\ Written(l) = picture
      BY <3>1, <3>2 DEF Written
    <3>5. Picture(l)' = Picture(l)
      BY <3>2, <3>4 DEF Picture, Painted, Overlaid
    <3>6. FollowsOK(l)'
      BY <1>1, <1>2, <3>2, <3>3 DEF FollowsOK, Follows
    <3> QED
      BY <3>2, <3>3, <3>5, <3>6 DEF Carries
  <2>3. CASE writeFails(l)
    <3>1. broken'[l] /\ worker'[l] = "idle"
      BY <1>1, <2>3 DEF writeFails, ReportFailure, WorkersOK
    <3> QED
      BY <3>1 DEF FollowsOK, Live
  <2>4. CASE drainAbandoned(l) \/ closeWorkerDone(l)
    <3>1. worker'[l] \in {"drained", "exited"}
      BY <1>1, <2>4 DEF drainAbandoned, closeWorkerDone, WorkersOK
    <3> QED
      BY <3>1 DEF FollowsOK, Live
  <2> QED
    BY <2>1, <2>2, <2>3, <2>4 DEF runConfirmer
<1> QED
  BY <1>2, <1>3, <1>4, ConfirmerTurns

-----------------------------------------------------------------------------
(* Pictures: every step *)

LEMMA StepKeepsOutput ==
    ASSUME IInv, FitInv, OutputInv, [Next]_vars
    PROVE  OutputInv'
<1>1. CASE DaemonStep
  <2>1. UNCHANGED <<text, history, publicationVars, workerVars, screen, intruded>>
    BY <1>1 DEF DaemonStep, initializeClient, prepareViewTransition, stopPane, terminalVars
  <2> QED
    BY <2>1, OutputStays
<1>2. ASSUME NEW c \in Conns, InstanceProgress(c) \/ transportLost(c) \/ detachClientInstance(c) PROVE OutputInv'
  <2>1. UNCHANGED <<text, history, publicationVars, workerVars, screen, intruded>>
    BY <1>2 DEF InstanceProgress, transportLost, detachClientInstance, applyViewTransition, installOutputLease,
                detachOutputLease, receiveReleased, bindStillPending, installClientView, lifetimeDone, terminalVars
  <2> QED
    BY <2>1, OutputStays
<1>3. ASSUME NEW p \in Panes, startDrain(p) \/ completeDrain(p) PROVE OutputInv'
  <2>1. UNCHANGED <<text, history, publicationVars, workerVars, screen, intruded>>
    BY <1>3 DEF startDrain, completeDrain
  <2> QED
    BY <2>1, OutputStays
<1>4. ASSUME NEW p \in Panes, PaneLoop(p) PROVE OutputInv'
  BY <1>3, <1>4, RunsContinue, TogglesContinue, ChunksContinue, PreparationsContinue, HandsOffContinue,
     FailuresContinue, EndsContinue DEF PaneLoop
<1>5. ASSUME NEW l \in Leases, runConfirmer(l) PROVE OutputInv'
  BY <1>5, ConfirmersContinue
<1>6. CASE UNCHANGED vars
  <2>1. UNCHANGED <<text, history, publicationVars, workerVars, screen, intruded>>
    BY <1>6 DEF vars, terminalVars
  <2> QED
    BY <2>1, OutputStays
<1> QED
  BY <1>1, <1>2, <1>4, <1>5, <1>6 DEF Next

LEMMA StepKeepsPictures ==
    ASSUME IInv, PInv, [Next]_vars
    PROVE  IInv' /\ PInv'
BY StepKeepsAccount, StepKeepsFit, StepKeepsOutput DEF PInv

\* No lease is installed yet.
LEMMA InitHasNoPictures ==
    ASSUME Init
    PROVE  IInv /\ PInv
<1>1. IInv
  BY InitIsAccounted
<1>2. FitInv
  <2>1. /\ \A c \in Conns : due[c] = {} /\ applying[c] = 0 /\ instance[c] = "admitted"
        /\ \A p \in Panes : commands[p] = <<>> /\ lease[p] = None /\ pending[p] = None
        /\ \A l \in Leases : ready[l] = <<>> /\ worker[l] = "unstarted" /\ screen[l] = NoScreen
    BY DEF Init
  <2>2. NoScreen.revision = 0
    BY DEF NoScreen
  <2> QED
    BY <2>1, <2>2 DEF FitInv, DueFits, CommandsFit, PanesFit, PicturesFit
<1>3. OutputInv
  <2>1. ASSUME NEW l \in Leases PROVE FollowsOK(l)
    BY DEF Init, FollowsOK
  <2>2. ASSUME NEW p \in Panes PROVE PaneOK(p)
    <3>1. lease[p] = None /\ pending[p] = None /\ epoch[p] = 1 /\ version[p] = 0 /\ snapshot[p] = None /\ damage[p] = NoDamage
      BY DEF Init
    <3>2. ~damage[p].barrier
      BY <3>1 DEF NoDamage
    <3> QED
      BY <3>1, <3>2 DEF PaneOK, PreparedOK, ContinuesOK, DamageOK, PictureOK, Heeded, BarrierIsDue
  <2> QED
    BY <2>1, <2>2 DEF OutputInv
<1> QED
  BY <1>1, <1>2, <1>3 DEF PInv

LEMMA ChainsGiveCompiling ==
    ASSUME IInv, PInv
    PROVE  ChainUnbroken
<1> SUFFICES ASSUME NEW l \in Leases \ intruded, worker[l] = "idle", ready[l] # <<>>, ~broken[l]
             PROVE  Follows(l, Head(ready[l]))
  BY DEF ChainUnbroken
<1>1. ready[l] = <<ready[l][1]>> /\ FollowsOK(l)
  BY DEF IInv, WorkersOK, PInv, OutputInv
<1>2. PICK pub : pub = ready[l][1]
  OBVIOUS
<1>3. Head(ready[l]) = pub
  BY <1>1, <1>2
<1> QED
  BY <1>1, <1>2, <1>3 DEF FollowsOK, Live

LEMMA QuietSlots ==
    ASSUME IInv, PInv, NEW p \in Panes, NothingUnderWay(p), lease[p] \notin intruded
    PROVE  screen[lease[p]].rows = Shown(p) /\ screen[lease[p]].revision = revision[p]
<1>1. /\ lease[p] # None /\ pending[p] = None /\ ~HasMutation(p)
      /\ worker[lease[p]] = "idle" /\ ready[lease[p]] = <<>> /\ ~broken[lease[p]]
  BY DEF NothingUnderWay
<1>2. ~damage[p].keyframe /\ ~damage[p].barrier /\ damage[p].rows = {}
  BY <1>1 DEF HasMutation, IInv, PublicationsOK
<1>3. DamageOK(p) /\ PictureOK(p) /\ Heeded(p) /\ ~BarrierIsDue(p)
  BY <1>1, <1>2 DEF PInv, OutputInv, PaneOK, Heeded, Live, BarrierIsDue
<1>4. Picture(lease[p]) = screen[lease[p]]
  BY <1>1 DEF Picture, Written
<1>5. snapshot[p] # None /\ \A r \in Rows : Shown(p)[r] = snapshot[p][r]
  BY <1>1, <1>2, <1>3 DEF DamageOK
<1>6. Shown(p) = snapshot[p]
  <2>1. snapshot[p] \in Grid
    BY <1>5 DEF IInv, PublicationsOK
  <2>2. Shown(p) = [r \in Rows |-> Shown(p)[r]]
    BY DEF Shown, IInv, TerminalsOK
  <2>3. snapshot[p] = [r \in Rows |-> snapshot[p][r]]
    BY <2>1 DEF Grid
  <2> QED
    BY <1>5, <2>2, <2>3
<1> QED
  BY <1>3, <1>4, <1>5, <1>6 DEF PictureOK

\* A confirmer never meets a publication that does not follow what it compiled before
\* (paneConfirmer.compile), for any panes, connections and views: the epochs and versions
\* of a pane survive detaching, rebinding, the history and cancelled publications.  Only
\* a stopped pane that still publishes through a lease another pane has received can
\* break the chain.
THEOREM ConfirmersCompile == Spec => []ChainUnbroken
<1>1. Init => IInv /\ PInv
  BY InitHasNoPictures
<1>2. (IInv /\ PInv) /\ [Next]_vars => (IInv /\ PInv)'
  BY StepKeepsPictures
<1>3. IInv /\ PInv => ChainUnbroken
  BY ChainsGiveCompiling
<1> QED
  BY <1>1, <1>2, <1>3, PTL DEF Spec

\* What a slot shows is of the layout of its revision, and what its pane shows once
\* nothing is under way, for any panes, connections, views and rows: damage, snapshots
\* and the picture of the frontend (panePublicationState.prepare, handedOff) stay in
\* step over toggles of the history, rebindings and cancelled publications.
THEOREM PicturesFollowPanes == Spec => []PictureFollowsPane
<1>1. Init => IInv /\ PInv
  BY InitHasNoPictures
<1>2. (IInv /\ PInv) /\ [Next]_vars => (IInv /\ PInv)'
  BY StepKeepsPictures
<1>3. IInv /\ PInv => PictureFollowsPane
  <2> SUFFICES ASSUME IInv, PInv PROVE PictureFollowsPane
    OBVIOUS
  <2>1. PictureFitsLayout
    BY DEF PInv, FitInv, PicturesFit, Fits, PictureFitsLayout
  <2>2. QuietSlotShowsPane
    BY QuietSlots DEF QuietSlotShowsPane
  <2> QED
    BY <2>1, <2>2 DEF PictureFollowsPane
<1> QED
  BY <1>1, <1>2, <1>3, PTL DEF Spec

-----------------------------------------------------------------------------
(* The leases of a view *)

\* The clients of a session that shares no window with another: what a group of
\* sessions does to its leases is another matter.
Ungrouped == \A c, d \in Conns : SessionOf[c] = SessionOf[d]

OneAttached == \A c, d \in Conns : Attached(c) /\ Attached(d) => c = d
NothingShown == \A c \in Conns : instance[c] = "admitted" => current[c] = 0

\* Who has sent a pane that runs a command is still at it.
At(command) == IF command.type = "detach" THEN "detaching" ELSE "binding"
SendersWait ==
    \A p \in Panes : stage[p] = "running" =>
        \A i \in DOMAIN commands[p] : instance[commands[p][i].conn] = At(commands[p][i])

FailuresClose == \A l \in Leases : failed[l] => closed[l[1]]

\* A pane has lease l, or gave it up with its transport.
Has(p, l) == lease[p] = l \/ (closed[l[1]] /\ lease[p] = None)

\* Once a pane has run what it was sent it has lease l, unless a detach takes it.
DetachesFrom(queue, i) == \A j \in DOMAIN queue : j >= i => queue[j].type = "detach"
InstallsAt(queue, i, l) ==
    /\ queue[i].type = "install" /\ <<queue[i].conn, queue[i].slot>> = l
    /\ DetachesFrom(queue, i + 1)
Bound(p, l) ==
    \/ Has(p, l) /\ DetachesFrom(commands[p], 1)
    \/ \E i \in DOMAIN commands[p] : InstallsAt(commands[p], i, l)

\* The panes of a view have its leases, or will be bound, or are bound.
Installed(c) ==
    \A s \in SlotsOf(current[c]) :
        stage[ViewAt(current[c])[s]] = "running" => Has(ViewAt(current[c])[s], <<c, s>>)
BeingBound(c) ==
    \A s \in SlotsOf(applying[c]) \ (todo[c] \cup still[c]) :
        stage[ViewAt(applying[c])[s]] = "running" => Bound(ViewAt(applying[c])[s], <<c, s>>)
SlotsHeld ==
    \A c \in Conns : /\ instance[c] = "serving" => Installed(c)
                     /\ instance[c] = "binding" => BeingBound(c)

HandoffInv == OneAttached /\ NothingShown /\ SendersWait /\ FailuresClose /\ SlotsHeld

\* The panes that are bound are the ones there were.
LEMMA ViewsHaveSlots ==
    ASSUME InstancesOK, NEW r \in Revisions, NEW s \in SlotsOf(r)
    PROVE  /\ s \in Slots /\ ViewAt(r)[s] \in Panes
           /\ \A t \in SlotsOf(r) : ViewAt(r)[s] = ViewAt(r)[t] => s = t
<1>1. r # 0
  BY DEF SlotsOf, ViewAt
<1>2. ViewAt(r) \in Views /\ SlotsOf(r) \subseteq Slots
  BY <1>1, RevisionHasSlots
<1>3. ViewAt(r) \in Seq(Panes) /\ \A i, j \in DOMAIN ViewAt(r) : ViewAt(r)[i] = ViewAt(r)[j] => i = j
  BY <1>2, ViewsAssumption
<1> QED
  BY <1>2, <1>3 DEF SlotsOf

LEMMA RevisionsAreThere ==
    ASSUME InstancesOK, NEW c \in Conns
    PROVE  current[c] \in Revisions /\ applying[c] \in Revisions
BY DEF InstancesOK

\* A step of a pane or a confirmer that leaves what running panes were sent, and
\* what they hold, as it was.
LEMMA LeasesStay ==
    ASSUME InstancesOK, HandoffInv, UNCHANGED <<instance, current, applying, todo, still>>,
           \A r \in Revisions : ViewAt(r)' = ViewAt(r),
           \A c \in Conns : closed[c] => closed'[c],
           \A p \in Panes : stage'[p] = "running" =>
               stage[p] = "running" /\ commands'[p] = commands[p] /\ lease'[p] = lease[p],
           \A l \in Leases : failed'[l] => closed'[l[1]]
    PROVE  HandoffInv'
<1>1. OneAttached' /\ NothingShown' /\ FailuresClose'
  BY DEF HandoffInv, OneAttached, NothingShown, FailuresClose, Attached
<1>2. SendersWait'
  BY DEF HandoffInv, SendersWait
<1>3. SlotsHeld'
  <2> SUFFICES ASSUME NEW c \in Conns
               PROVE  /\ instance'[c] = "serving" => Installed(c)'
                      /\ instance'[c] = "binding" => BeingBound(c)'
    BY DEF SlotsHeld
  <2>1. /\ instance[c] = "serving" => Installed(c)
        /\ instance[c] = "binding" => BeingBound(c)
    BY DEF HandoffInv, SlotsHeld
  <2>2. current[c] \in Revisions /\ applying[c] \in Revisions
    BY RevisionsAreThere
  <2>3. ASSUME instance'[c] = "serving" PROVE Installed(c)'
    <3> SUFFICES ASSUME NEW s \in SlotsOf(current[c])', stage'[ViewAt(current[c])'[s]] = "running"
                 PROVE  Has(ViewAt(current[c])[s], <<c, s>>)'
      BY DEF Installed
    <3>1. ViewAt(current[c])' = ViewAt(current[c]) /\ s \in SlotsOf(current[c])
      BY <2>2 DEF SlotsOf
    <3>2. PICK p \in Panes : p = ViewAt(current[c])[s]
      BY <2>2, <3>1, ViewsHaveSlots
    <3>3. Has(p, <<c, s>>) /\ lease'[p] = lease[p]
      BY <2>1, <2>3, <3>1, <3>2 DEF Installed
    <3>4. Has(p, <<c, s>>)'
      BY <3>3 DEF Has
    <3> QED
      BY <3>1, <3>2, <3>4
  <2>4. ASSUME instance'[c] = "binding" PROVE BeingBound(c)'
    <3> SUFFICES ASSUME NEW s \in (SlotsOf(applying[c]) \ (todo[c] \cup still[c]))',
                        stage'[ViewAt(applying[c])'[s]] = "running"
                 PROVE  Bound(ViewAt(applying[c])[s], <<c, s>>)'
      BY DEF BeingBound
    <3>1. ViewAt(applying[c])' = ViewAt(applying[c]) /\ s \in SlotsOf(applying[c]) \ (todo[c] \cup still[c])
      BY <2>2 DEF SlotsOf
    <3>2. ViewAt(applying[c])[s] \in Panes
      BY <2>2, <3>1, ViewsHaveSlots
    <3>3. PICK p \in Panes : p = ViewAt(applying[c])[s]
      BY <3>2
    <3>4. Bound(p, <<c, s>>) /\ commands'[p] = commands[p] /\ lease'[p] = lease[p]
      BY <2>1, <2>4, <3>1, <3>3 DEF BeingBound
    <3>5. Bound(p, <<c, s>>)'
      BY <3>4 DEF Bound, Has
    <3> QED
      BY <3>1, <3>3, <3>5
  <2> QED
    BY <2>3, <2>4
<1> QED
  BY <1>1, <1>2, <1>3 DEF HandoffInv

\* The goroutines of panes and confirmers that run no command and see no failure,
\* panes that stop, and transports that are lost.
LEMMA OthersKeepLeases ==
    ASSUME IInv, HandoffInv,
           \/ \E p \in Panes : \/ stopPane(p) \/ toggleHistory(p) \/ startDrain(p) \/ applyPTYChunk(p)
                               \/ completeDrain(p) \/ prepare(p) \/ handedOff(p) \/ mainDone(p)
           \/ \E l \in Leases : runConfirmer(l)
           \/ \E c \in Conns : transportLost(c)
           \/ UNCHANGED vars
    PROVE  HandoffInv'
<1> USE DEF instanceVars, handoffVars, terminalVars, publicationVars, workerVars
<1>1. InstancesOK /\ WorkersOK /\ PublicationsOK /\ CommandsOK /\ FailuresClose
  BY DEF IInv, HandoffInv
<1>2. UNCHANGED <<issued, instance, current, applying, todo, still>>
  BY DEF stopPane, toggleHistory, startDrain, applyPTYChunk, completeDrain, prepare, handedOff, mainDone,
         runConfirmer, takePublication, writeFrame, writeFails, drainAbandoned, closeWorkerDone, transportLost, vars
<1>3. \A r \in Revisions : ViewAt(r)' = ViewAt(r)
  BY <1>2 DEF ViewAt
<1>4. CASE \E p \in Panes : \/ stopPane(p) \/ toggleHistory(p) \/ startDrain(p) \/ applyPTYChunk(p)
                            \/ completeDrain(p) \/ prepare(p) \/ handedOff(p) \/ mainDone(p)
  <2>1. PICK p \in Panes : \/ stopPane(p) \/ toggleHistory(p) \/ startDrain(p) \/ applyPTYChunk(p)
                           \/ completeDrain(p) \/ prepare(p) \/ handedOff(p) \/ mainDone(p)
    BY <1>4
  <2>2. UNCHANGED <<closed, failed>>
    BY <2>1 DEF stopPane, toggleHistory, startDrain, applyPTYChunk, completeDrain, prepare, handedOff, mainDone
  <2>3. \A q \in Panes : stage'[q] = "running" =>
            stage[q] = "running" /\ commands'[q] = commands[q] /\ lease'[q] = lease[q]
    <3>1. CASE mainDone(p)
      BY <1>1, <3>1 DEF mainDone, InstancesOK, PublicationsOK, CommandsOK
    <3>2. CASE stopPane(p)
      BY <1>1, <3>2 DEF stopPane, InstancesOK
    <3>3. CASE toggleHistory(p)
      BY <3>3 DEF toggleHistory
    <3> QED
      BY <2>1, <3>1, <3>2, <3>3 DEF startDrain, applyPTYChunk, completeDrain, prepare, handedOff
  <2> QED
    BY <1>1, <1>2, <1>3, <2>2, <2>3, LeasesStay DEF FailuresClose
<1>5. CASE \E l \in Leases : runConfirmer(l)
  <2>1. PICK l \in Leases : runConfirmer(l)
    BY <1>5
  <2>2. UNCHANGED <<stage, commands, lease>>
    BY <2>1 DEF runConfirmer, takePublication, writeFrame, writeFails, drainAbandoned, closeWorkerDone
  <2>3. UNCHANGED <<closed, failed>> \/ ReportFailure(l)
    BY <2>1 DEF runConfirmer, takePublication, writeFrame, writeFails, drainAbandoned, closeWorkerDone
  <2>4. /\ \A c \in Conns : closed[c] => closed'[c]
        /\ \A k \in Leases : failed'[k] => closed'[k[1]]
    <3>1. CASE ReportFailure(l)
      <4>1. /\ \A c \in Conns : closed'[c] = IF c = l[1] THEN TRUE ELSE closed[c]
            /\ \A k \in Leases : k[1] \in Conns /\ failed'[k] = IF k = l THEN TRUE ELSE failed[k]
        BY <1>1, <3>1 DEF ReportFailure, InstancesOK, WorkersOK, Leases
      <4> QED
        BY <1>1, <4>1 DEF FailuresClose
    <3>2. CASE UNCHANGED <<closed, failed>>
      BY <1>1, <3>2 DEF FailuresClose
    <3> QED
      BY <2>3, <3>1, <3>2
  <2> QED
    BY <1>1, <1>2, <1>3, <2>2, <2>4, LeasesStay
<1>6. CASE \E c \in Conns : transportLost(c)
  <2>1. PICK c \in Conns : closed' = [closed EXCEPT ![c] = TRUE] /\ UNCHANGED <<stage, commands, lease, failed>>
    BY <1>6 DEF transportLost
  <2>2. /\ \A d \in Conns : closed[d] => closed'[d]
        /\ \A k \in Leases : failed'[k] => closed'[k[1]]
    BY <1>1, <2>1 DEF FailuresClose, InstancesOK, Leases
  <2> QED
    BY <1>1, <1>2, <1>3, <2>1, <2>2, LeasesStay
<1>7. CASE UNCHANGED vars
  <2>1. UNCHANGED <<stage, commands, lease, closed, failed>>
    BY <1>7 DEF vars
  <2> QED
    BY <1>1, <1>2, <1>3, <2>1, LeasesStay DEF FailuresClose
<1> QED
  BY <1>4, <1>5, <1>6, <1>7

LEMMA ProjectionsKeepLeases ==
    ASSUME Ungrouped, IInv, HandoffInv, NEW c \in Conns, NEW view \in Views,
           initializeClient(c, view) \/ prepareViewTransition(c, view)
    PROVE  HandoffInv'
<1> USE DEF instanceVars, handoffVars, publicationVars, workerVars
<1>1. /\ Project(c, view) /\ UNCHANGED <<current, applying, todo, still, commands, stage, lease, closed, failed>>
      /\ InstancesOK /\ CommandsOK /\ FailuresClose
  BY DEF initializeClient, prepareViewTransition, IInv, HandoffInv
<1>2. \A r \in Revisions : ViewAt(r)' = ViewAt(r)
  <2>1. Len(issued) \in Nat /\ \A r \in 1 .. Len(issued) : issued'[r] = issued[r]
    BY <1>1, ProjectionGrows
  <2>2. \A r \in Revisions : r = 0 \/ issued'[r] = issued[r]
    BY <2>1 DEF Revisions
  <2> QED
    BY <2>2 DEF ViewAt
<1>3. CASE prepareViewTransition(c, view)
  <2>1. UNCHANGED instance
    BY <1>3 DEF prepareViewTransition
  <2> QED
    BY <1>1, <1>2, <2>1, LeasesStay DEF FailuresClose
<1>4. CASE initializeClient(c, view)
  <2>1. /\ instance[c] = "admitted" /\ instance' = [instance EXCEPT ![c] = "serving"]
        /\ \A d \in Conns : ~Attached(d)
    BY <1>4 DEF initializeClient, Ungrouped
  <2>2. \A d \in Conns : instance'[d] = IF d = c THEN "serving" ELSE instance[d]
    BY <1>1, <2>1 DEF InstancesOK
  <2>3. OneAttached' /\ NothingShown' /\ FailuresClose'
    BY <1>1, <2>1, <2>2 DEF HandoffInv, OneAttached, NothingShown, FailuresClose, Attached
  <2>4. SendersWait'
    <3> SUFFICES ASSUME NEW p \in Panes, stage[p] = "running", NEW i \in DOMAIN commands[p]
                 PROVE  instance'[commands[p][i].conn] = At(commands[p][i])
      BY <1>1 DEF SendersWait
    <3>1. commands[p][i].conn \in Conns
      BY <1>1 DEF CommandsOK, Command
    <3>2. instance[commands[p][i].conn] = At(commands[p][i])
      BY DEF HandoffInv, SendersWait
    <3> QED
      BY <2>1, <2>2, <3>1, <3>2 DEF At
  <2>5. SlotsHeld'
    <3>1. current'[c] = 0 /\ \A d \in Conns : (instance'[d] = "serving" => d = c) /\ instance'[d] # "binding"
      BY <1>1, <2>1, <2>2 DEF HandoffInv, NothingShown, Attached
    <3>2. SlotsOf(current[c])' = {}
      BY <3>1 DEF SlotsOf, ViewAt
    <3> QED
      BY <3>1, <3>2 DEF SlotsHeld, Installed
  <2> QED
    BY <2>3, <2>4, <2>5 DEF HandoffInv
<1> QED
  BY <1>3, <1>4

\* Another client's slots are as they were: no other is attached.
LEMMA OnlyOneHolds ==
    ASSUME OneAttached, NEW c \in Conns, Attached(c), DOMAIN instance = Conns,
           \A d \in Conns \ {c} : instance'[d] = instance[d],
           instance'[c] = "serving" => Installed(c)', instance'[c] = "binding" => BeingBound(c)'
    PROVE  OneAttached' /\ SlotsHeld'
<1>1. \A d \in Conns \ {c} : instance'[d] \notin {"serving", "binding"}
  BY DEF OneAttached, Attached
<1> QED
  BY <1>1 DEF OneAttached, Attached, SlotsHeld

\* A client that serves waits for no command.
LEMMA ServingIsQuiet ==
    ASSUME HandoffInv, CommandsOK, NEW c \in Conns, instance[c] = "serving",
           NEW p \in Panes, stage[p] = "running", NEW i \in DOMAIN commands[p]
    PROVE  commands[p][i].conn # c /\ commands[p][i].conn \in Conns /\ commands[p][i].type = "detach"
<1>1. commands[p][i] \in Command
  BY DEF CommandsOK
<1>2. instance[commands[p][i].conn] = At(commands[p][i]) /\ commands[p][i].conn \in Conns
  BY <1>1 DEF HandoffInv, SendersWait, Command
<1>3. commands[p][i].conn # c
  BY <1>2 DEF At
<1> QED
  BY <1>2, <1>3 DEF At, HandoffInv, OneAttached, Attached

LEMMA TransitionsKeepLeases ==
    ASSUME IInv, HandoffInv, NEW c \in Conns, applyViewTransition(c)
    PROVE  HandoffInv'
<1>1. /\ UNCHANGED <<budget, issued, current, closed, stage, terminalVars, publicationVars, workerVars,
                     screen, intruded>>
      /\ instance[c] = "serving"
  BY DEF applyViewTransition
<1>2. PICK r \in due[c] :
        IF r <= current[c]
          THEN UNCHANGED <<instance, handoffVars, commands>>
          ELSE /\ beginOutputHandoff(c)
               /\ todo' = [todo EXCEPT ![c] = FreshSlots(c, r)]
               /\ applying' = [applying EXCEPT ![c] = r]
               /\ instance' = [instance EXCEPT ![c] = "binding"]
  BY DEF applyViewTransition
<1>3. /\ InstancesOK /\ CommandsOK /\ UNCHANGED <<lease, failed>> /\ r \in Revisions
      /\ OneAttached /\ NothingShown /\ SendersWait /\ FailuresClose
  BY <1>1 DEF IInv, InstancesOK, HandoffInv, publicationVars, workerVars, Revisions
<1>4. \A q : ViewAt(q)' = ViewAt(q)
  BY <1>1 DEF ViewAt
<1>5. CASE r <= current[c]
  BY <1>1, <1>2, <1>3, <1>4, <1>5, LeasesStay DEF handoffVars, FailuresClose
<1>6. CASE ~(r <= current[c])
  <2>1. /\ beginOutputHandoff(c) /\ todo' = [todo EXCEPT ![c] = FreshSlots(c, r)]
        /\ applying' = [applying EXCEPT ![c] = r] /\ instance' = [instance EXCEPT ![c] = "binding"]
    BY <1>2, <1>6
  <2>2. \A d \in Conns : instance'[d] = IF d = c THEN "binding" ELSE instance[d]
    BY <1>3, <2>1 DEF InstancesOK
  <2>3. NothingShown' /\ FailuresClose'
    BY <1>1, <1>3, <2>2 DEF NothingShown, FailuresClose
  <2>4. SendersWait'
    <3> DEFINE ask == [type |-> "release", conn |-> c]
    <3> SUFFICES ASSUME NEW p \in Panes, stage[p] = "running", NEW i \in DOMAIN commands'[p]
                 PROVE  instance'[commands'[p][i].conn] = At(commands'[p][i])
      BY <1>1 DEF SendersWait
    <3>1. commands'[p] = commands[p] \/ commands'[p] = Append(commands[p], ask)
      BY <2>1 DEF beginOutputHandoff
    <3>2. commands[p] \in Seq(Command) /\ ask \in Command
      BY <1>3 DEF CommandsOK, Command
    <3>3. commands'[p][i] = ask \/ (i \in DOMAIN commands[p] /\ commands'[p][i] = commands[p][i])
      <4> HIDE DEF ask
      <4> QED
        BY <3>1, <3>2, Appended
    <3>4. CASE commands'[p][i] = ask
      BY <2>2, <3>4 DEF At
    <3>5. CASE i \in DOMAIN commands[p] /\ commands'[p][i] = commands[p][i]
      <4>1. commands[p][i].conn \in Conns \ {c}
        BY <1>1, <1>3, <3>5, ServingIsQuiet
      <4> QED
        BY <1>3, <2>2, <3>5, <4>1 DEF SendersWait
    <3> QED
      BY <3>3, <3>4, <3>5
  <2>5. BeingBound(c)'
    <3>1. applying'[c] = r /\ todo'[c] = SlotsOf(r) \ SlotsOf(current[c]) /\ still'[c] = SlotsOf(current[c])
      BY <1>3, <2>1 DEF beginOutputHandoff, FreshSlots, InstancesOK
    <3>2. SlotsOf(applying[c])' = SlotsOf(r)
      BY <1>4, <3>1 DEF SlotsOf
    <3>3. (SlotsOf(applying[c]) \ (todo[c] \cup still[c]))' = {}
      BY <3>1, <3>2
    <3> QED
      BY <3>3 DEF BeingBound
  <2>6. OneAttached' /\ SlotsHeld'
    <3>1. DOMAIN instance = Conns /\ Attached(c) /\ instance'[c] = "binding"
      BY <1>1, <1>3, <2>2 DEF InstancesOK, Attached
    <3> QED
      BY <1>3, <2>2, <2>5, <3>1, OnlyOneHolds
  <2> QED
    BY <2>3, <2>4, <2>6 DEF HandoffInv
<1> QED
  BY <1>5, <1>6

\* A pane that is sent a detach, or the installation of l, is bound to l as before, or by it.
LEMMA BoundStays ==
    ASSUME NEW S, NEW p, commands[p] \in Seq(S), NEW command \in S, NEW l,
           commands'[p] = Append(commands[p], command), lease'[p] = lease[p], closed' = closed,
           \/ Bound(p, l) /\ command.type = "detach"
           \/ command.type = "install" /\ <<command.conn, command.slot>> = l
    PROVE  Bound(p, l)'
<1>1. /\ Len(commands[p]) \in Nat /\ DOMAIN commands[p] = 1 .. Len(commands[p])
      /\ DOMAIN commands'[p] = 1 .. Len(commands[p]) + 1
      /\ \A i \in DOMAIN commands[p] : commands'[p][i] = commands[p][i]
      /\ commands'[p][Len(commands[p]) + 1] = command
  BY Appended
<1>2. CASE command.type = "install" /\ <<command.conn, command.slot>> = l
  <2>1. InstallsAt(commands'[p], Len(commands[p]) + 1, l)
    BY <1>1, <1>2 DEF InstallsAt, DetachesFrom
  <2> QED
    BY <1>1, <2>1 DEF Bound
<1>3. CASE Bound(p, l) /\ command.type = "detach"
  <2>1. \A i \in Nat : DetachesFrom(commands[p], i) => DetachesFrom(commands'[p], i)
    BY <1>1, <1>3 DEF DetachesFrom
  <2>2. \A i \in DOMAIN commands[p] : InstallsAt(commands[p], i, l) => InstallsAt(commands'[p], i, l)
    BY <1>1, <2>1 DEF InstallsAt
  <2> QED
    BY <1>1, <1>3, <2>1, <2>2 DEF Bound, Has
<1> QED
  BY <1>2, <1>3

\* A client that binds a slot.
LEMMA InstallationsKeepLeases ==
    ASSUME IInv, DueFits, HandoffInv, NEW c \in Conns, NEW s \in Slots, installOutputLease(c, s)
    PROVE  HandoffInv'
<1> DEFINE command == [type |-> "install", conn |-> c, slot |-> s, revision |-> applying[c],
                       size |-> Len(ViewAt(applying[c]))]
           pane == ViewAt(applying[c])[s]
<1>1. /\ UNCHANGED <<budget, issued, instance, due, current, applying, still, owed, returned, closed,
                     stage, terminalVars, publicationVars, workerVars, screen, intruded>>
      /\ instance[c] = "binding" /\ s \in todo[c] /\ todo' = [todo EXCEPT ![c] = @ \ {s}]
      /\ Send(pane, command)
  BY DEF installOutputLease
<1>2. /\ InstancesOK /\ CommandsOK /\ UNCHANGED <<lease, failed>>
      /\ OneAttached /\ NothingShown /\ SendersWait /\ FailuresClose
  BY <1>1 DEF IInv, HandoffInv, publicationVars, workerVars
<1>3. applying[c] \in Revisions /\ applying[c] # 0 /\ s \in SlotsOf(applying[c])
  BY <1>1, <1>2 DEF InstancesOK, DueFits
<1>4. pane \in Panes /\ \A t \in SlotsOf(applying[c]) : ViewAt(applying[c])[t] = pane => t = s
  BY <1>2, <1>3, ViewsHaveSlots
<1>5. command \in Command /\ command.type = "install" /\ command.conn = c /\ command.slot = s
  BY <1>2, <1>3, RevisionHasSlots DEF Command
<1> HIDE DEF command, pane
<1>6. \A q \in Panes : commands'[q] = commands[q] \/ (q = pane /\ commands'[q] = Append(commands[q], command))
  BY <1>1, <1>2 DEF Send, CommandsOK
<1>7. stage[pane] = "running" => commands'[pane] = Append(commands[pane], command)
  BY <1>1, <1>2, <1>4 DEF Send, CommandsOK
<1>8. NothingShown' /\ FailuresClose'
  BY <1>1, <1>2 DEF NothingShown, FailuresClose
<1>9. SendersWait'
  <2> SUFFICES ASSUME NEW q \in Panes, stage[q] = "running", NEW i \in DOMAIN commands'[q]
               PROVE  instance[commands'[q][i].conn] = At(commands'[q][i])
    BY <1>1 DEF SendersWait
  <2>1. commands[q] \in Seq(Command)
    BY <1>2 DEF CommandsOK
  <2>2. commands'[q][i] = command \/ (i \in DOMAIN commands[q] /\ commands'[q][i] = commands[q][i])
    BY <1>5, <1>6, <2>1, Appended
  <2> QED
    BY <1>1, <1>2, <1>5, <2>2 DEF SendersWait, At
<1>10. BeingBound(c)'
  <2>1. \A r : ViewAt(r)' = ViewAt(r) /\ SlotsOf(r)' = SlotsOf(r)
    BY <1>1 DEF ViewAt, SlotsOf
  <2>2. BeingBound(c)
    BY <1>1 DEF HandoffInv, SlotsHeld
  <2> SUFFICES ASSUME NEW t \in SlotsOf(applying[c]) \ (todo'[c] \cup still'[c]), stage[ViewAt(applying[c])[t]] = "running"
               PROVE  Bound(ViewAt(applying[c])[t], <<c, t>>)'
    BY <1>1, <2>1 DEF BeingBound
  <2>3. t = s \/ (t # s /\ t \notin todo[c] \cup still[c])
    BY <1>1, <1>2 DEF InstancesOK
  <2>4. CASE t = s
    <3>1. PICK q \in Panes : q = pane
      BY <1>4
    <3>2. commands'[q] = Append(commands[q], command) /\ lease'[q] = lease[q] /\ commands[q] \in Seq(Command)
      BY <1>2, <1>7, <2>4, <3>1 DEF pane, CommandsOK
    <3>3. Bound(q, <<c, s>>)'
      BY <1>1, <1>5, <3>2, BoundStays
    <3>4. ViewAt(applying[c])' = ViewAt(applying[c])
      BY <1>1, <2>1
    <3> QED
      BY <2>4, <3>1, <3>3, <3>4 DEF pane
  <2>5. CASE t # s /\ t \notin todo[c] \cup still[c]
    <3>1. PICK q \in Panes : q = ViewAt(applying[c])[t] /\ q # pane
      BY <1>2, <1>3, <1>4, <2>5, ViewsHaveSlots
    <3>2. Bound(q, <<c, t>>) /\ commands'[q] = commands[q] /\ lease'[q] = lease[q]
      BY <1>2, <1>6, <2>2, <2>5, <3>1 DEF BeingBound
    <3>3. Bound(q, <<c, t>>)'
      BY <1>1, <3>2 DEF Bound, Has
    <3>4. ViewAt(applying[c])' = ViewAt(applying[c])
      BY <1>1, <2>1
    <3> QED
      BY <3>1, <3>3, <3>4
  <2> QED
    BY <2>3, <2>4, <2>5
<1>11. OneAttached' /\ SlotsHeld'
  <2>1. DOMAIN instance = Conns /\ Attached(c) /\ instance' = instance
    BY <1>1, <1>2 DEF InstancesOK, Attached
  <2> QED
    BY <1>1, <1>2, <1>10, <2>1, OnlyOneHolds
<1> QED
  BY <1>8, <1>9, <1>11 DEF HandoffInv

\* An instance that ends takes no lease but its own.
LEMMA DetachmentsKeepLeases ==
    ASSUME IInv, HandoffInv, NEW c \in Conns, NEW s \in Slots, detachOutputLease(c, s)
    PROVE  HandoffInv'
<1> DEFINE command == [type |-> "detach", conn |-> c]
<1>1. /\ UNCHANGED <<budget, issued, instance, due, current, applying, still, owed, returned, closed,
                     stage, terminalVars, publicationVars, workerVars, screen, intruded>>
      /\ instance[c] = "detaching" /\ todo' = [todo EXCEPT ![c] = @ \ {s}]
      /\ Send(ViewAt(current[c])[s], command)
  BY DEF detachOutputLease
<1>2. /\ InstancesOK /\ CommandsOK /\ UNCHANGED <<lease, failed>>
      /\ OneAttached /\ NothingShown /\ SendersWait /\ FailuresClose
  BY <1>1 DEF IInv, HandoffInv, publicationVars, workerVars
<1>3. command \in Command /\ command.type = "detach" /\ command.conn = c
  BY DEF Command
<1> HIDE DEF command
<1>4. \A q \in Panes : commands'[q] = commands[q] \/ commands'[q] = Append(commands[q], command)
  BY <1>1, <1>2 DEF Send, CommandsOK
<1>5. OneAttached' /\ NothingShown' /\ FailuresClose'
  BY <1>1, <1>2 DEF OneAttached, Attached, NothingShown, FailuresClose
<1>6. SendersWait'
  <2> SUFFICES ASSUME NEW q \in Panes, stage[q] = "running", NEW i \in DOMAIN commands'[q]
               PROVE  instance[commands'[q][i].conn] = At(commands'[q][i])
    BY <1>1 DEF SendersWait
  <2>1. commands[q] \in Seq(Command)
    BY <1>2 DEF CommandsOK
  <2>2. commands'[q][i] = command \/ (i \in DOMAIN commands[q] /\ commands'[q][i] = commands[q][i])
    BY <1>3, <1>4, <2>1, Appended
  <2> QED
    BY <1>1, <1>2, <1>3, <2>2 DEF SendersWait, At
<1>7. SlotsHeld'
  <2> SUFFICES ASSUME NEW d \in Conns
               PROVE  /\ instance[d] = "serving" => Installed(d)'
                      /\ instance[d] = "binding" => BeingBound(d)'
    BY <1>1 DEF SlotsHeld
  <2>1. \A r : ViewAt(r)' = ViewAt(r) /\ SlotsOf(r)' = SlotsOf(r)
    BY <1>1 DEF ViewAt, SlotsOf
  <2>2. ASSUME instance[d] = "serving" PROVE Installed(d)'
    <3>1. Installed(d) /\ UNCHANGED <<current, lease, stage, closed>>
      BY <1>1, <1>2, <2>2 DEF HandoffInv, SlotsHeld
    <3>2. ViewAt(current[d])' = ViewAt(current[d]) /\ SlotsOf(current[d])' = SlotsOf(current[d])
      BY <2>1, <3>1
    <3> QED
      BY <3>1, <3>2 DEF Installed, Has
  <2>3. ASSUME instance[d] = "binding" PROVE BeingBound(d)'
    <3>1. BeingBound(d) /\ todo'[d] = todo[d] /\ UNCHANGED <<applying, still, stage>>
      BY <1>1, <1>2, <2>3 DEF HandoffInv, SlotsHeld, InstancesOK
    <3>2. ViewAt(applying[d])' = ViewAt(applying[d]) /\ SlotsOf(applying[d])' = SlotsOf(applying[d])
      BY <2>1, <3>1
    <3> SUFFICES ASSUME NEW t \in SlotsOf(applying[d]) \ (todo[d] \cup still[d]), stage[ViewAt(applying[d])[t]] = "running"
                 PROVE  Bound(ViewAt(applying[d])[t], <<d, t>>)'
      BY <3>1, <3>2 DEF BeingBound
    <3>3. PICK q \in Panes : q = ViewAt(applying[d])[t]
      BY <1>2, RevisionsAreThere, ViewsHaveSlots
    <3>4. Bound(q, <<d, t>>) /\ lease'[q] = lease[q] /\ commands[q] \in Seq(Command)
      BY <1>2, <3>1, <3>3 DEF BeingBound, CommandsOK
    <3>5. Bound(q, <<d, t>>)'
      <4>1. CASE commands'[q] = commands[q]
        BY <1>1, <3>4, <4>1 DEF Bound, Has
      <4>2. CASE commands'[q] = Append(commands[q], command)
        BY <1>1, <1>3, <3>4, <4>2, BoundStays
      <4> QED
        BY <1>4, <4>1, <4>2
    <3> QED
      BY <3>2, <3>3, <3>5
  <2> QED
    BY <2>2, <2>3
<1> QED
  BY <1>5, <1>6, <1>7 DEF HandoffInv

\* The rest of a hand-off, and the end of an instance.
LEMMA HandoffsKeepLeases ==
    ASSUME IInv, HandoffInv, NEW c \in Conns,
           receiveReleased(c) \/ bindStillPending(c) \/ installClientView(c)
             \/ detachClientInstance(c) \/ lifetimeDone(c)
    PROVE  HandoffInv'
<1> USE DEF handoffVars, publicationVars, workerVars
<1>1. /\ UNCHANGED <<issued, owed, commands, stage, lease, failed>>
      /\ InstancesOK /\ CommandsOK /\ ReleasesOK
      /\ OneAttached /\ NothingShown /\ SendersWait /\ FailuresClose
  BY DEF IInv, HandoffInv, receiveReleased, bindStillPending, installClientView, detachClientInstance, lifetimeDone
<1>2. \A r : ViewAt(r)' = ViewAt(r) /\ SlotsOf(r)' = SlotsOf(r)
  BY <1>1 DEF ViewAt, SlotsOf
<1>3. /\ instance[c] = "serving" => Installed(c)
      /\ instance[c] = "binding" => BeingBound(c)
  BY DEF HandoffInv, SlotsHeld
<1>4. CASE receiveReleased(c) \/ bindStillPending(c)
  <2>1. /\ UNCHANGED <<instance, current, applying, closed>>
        /\ instance[c] = "binding" /\ todo[c] = {}
        /\ (SlotsOf(applying[c]) \cap still[c]) \subseteq (todo'[c] \cup still'[c])
    <3>1. CASE receiveReleased(c)
      <4>1. /\ UNCHANGED <<instance, current, applying, closed>>
            /\ instance[c] = "binding" /\ todo[c] = {}
        BY <3>1 DEF receiveReleased, AwaitsLeases
      <4>2. PICK s : /\ still' = [still EXCEPT ![c] = @ \ {s}]
                     /\ todo' = [todo EXCEPT ![c] = {s} \cap SlotsOf(applying[c])]
        BY <3>1 DEF receiveReleased
      <4>3. still'[c] = still[c] \ {s} /\ todo'[c] = {s} \cap SlotsOf(applying[c])
        BY <1>1, <4>2 DEF InstancesOK
      <4> QED
        BY <4>1, <4>3
    <3>2. CASE bindStillPending(c)
      <4>1. /\ UNCHANGED <<instance, current, applying, closed>>
            /\ instance[c] = "binding" /\ todo[c] = {}
        BY <3>2 DEF bindStillPending, AwaitsLeases
      <4>2. todo'[c] = still[c] \cap SlotsOf(applying[c])
        BY <1>1, <3>2 DEF bindStillPending, UnreturnedSlots, InstancesOK
      <4> QED
        BY <4>1, <4>2
    <3> QED
      BY <1>4, <3>1, <3>2
  <2>2. NothingShown' /\ FailuresClose' /\ SendersWait'
    BY <1>1, <2>1 DEF NothingShown, FailuresClose, SendersWait
  <2>3. BeingBound(c)'
    <3>1. BeingBound(c) /\ ViewAt(applying[c])' = ViewAt(applying[c]) /\ SlotsOf(applying[c])' = SlotsOf(applying[c])
      BY <1>2, <1>3, <2>1
    <3> SUFFICES ASSUME NEW t \in SlotsOf(applying[c]) \ (todo[c] \cup still[c]), stage[ViewAt(applying[c])[t]] = "running"
                 PROVE  Bound(ViewAt(applying[c])[t], <<c, t>>)'
      BY <1>1, <2>1, <3>1 DEF BeingBound
    <3>2. Bound(ViewAt(applying[c])[t], <<c, t>>)
      BY <3>1 DEF BeingBound
    <3> QED
      BY <1>1, <2>1, <3>1, <3>2 DEF Bound, Has
  <2>4. OneAttached' /\ SlotsHeld'
    <3>1. DOMAIN instance = Conns /\ Attached(c)
      BY <1>1, <2>1 DEF InstancesOK, Attached
    <3> QED
      BY <1>1, <2>1, <2>3, <3>1, OnlyOneHolds
  <2> QED
    BY <2>2, <2>4 DEF HandoffInv
<1>5. CASE installClientView(c)
  <2>1. /\ instance[c] = "binding" /\ Idle(c) /\ todo[c] = {} /\ still[c] = {} /\ owed[c] = 0
        /\ \A d \in Conns : instance'[d] = IF d = c THEN "serving" ELSE instance[d]
        /\ \A d \in Conns : current'[d] = IF d = c THEN applying[c] ELSE current[d]
        /\ UNCHANGED closed
    BY <1>1, <1>5 DEF installClientView, AwaitsLeases, InstancesOK
  <2>2. NothingShown' /\ FailuresClose'
    BY <1>1, <2>1 DEF NothingShown, FailuresClose
  <2>3. Asked(c) = {}
    <3>1. IsFiniteSet(Asked(c)) /\ Cardinality(Asked(c)) = 0
      BY <1>1, <2>1, FS_Subset DEF ReleasesOK, Asked
    <3> QED
      BY <3>1, FS_EmptySet
  <2>4. ASSUME NEW p \in Panes, stage[p] = "running", NEW i \in DOMAIN commands[p]
        PROVE  commands[p][i].conn \in Conns \ {c} /\ commands[p][i].type = "detach"
    <3>1. /\ commands[p][i].conn \in Conns /\ commands[p][i].type \in {"install", "detach", "release"}
          /\ instance[commands[p][i].conn] = At(commands[p][i])
      <4>1. commands[p][i] \in Command
        BY <1>1 DEF CommandsOK
      <4>2. instance[commands[p][i].conn] = At(commands[p][i])
        BY <1>1, <2>4 DEF SendersWait
      <4> QED
        BY <4>1, <4>2 DEF Command
    <3>2. commands[p][i].conn # c
      <4> SUFFICES ASSUME commands[p][i].conn = c PROVE FALSE
        OBVIOUS
      <4>1. commands[p][i].type = "release"
        BY <2>1, <2>4, <3>1 DEF Idle
      <4>2. p \in Asked(c)
        BY <4>1 DEF Asked, IsReleaseOf
      <4> QED
        BY <2>3, <4>2
    <3>3. commands[p][i].type = "detach"
      BY <1>1, <2>1, <3>1, <3>2 DEF OneAttached, Attached, At
    <3> QED
      BY <3>1, <3>2, <3>3
  <2>5. SendersWait'
    BY <1>1, <2>1, <2>4 DEF SendersWait
  <2>6. Installed(c)'
    <3>1. current'[c] = applying[c] /\ BeingBound(c)
      BY <1>3, <2>1
    <3>2. ViewAt(current[c])' = ViewAt(applying[c]) /\ SlotsOf(current[c])' = SlotsOf(applying[c])
      BY <1>1, <3>1 DEF ViewAt, SlotsOf
    <3> SUFFICES ASSUME NEW t \in SlotsOf(applying[c]), stage[ViewAt(applying[c])[t]] = "running"
                 PROVE  Has(ViewAt(applying[c])[t], <<c, t>>)
      BY <1>1, <2>1, <3>2 DEF Installed, Has
    <3>3. PICK p \in Panes : p = ViewAt(applying[c])[t]
      BY <1>1, RevisionsAreThere, ViewsHaveSlots
    <3>4. Bound(p, <<c, t>>)
      BY <2>1, <3>1, <3>3 DEF BeingBound
    <3>5. ~ \E i \in DOMAIN commands[p] : InstallsAt(commands[p], i, <<c, t>>)
      BY <2>4, <3>3 DEF InstallsAt
    <3> QED
      BY <3>3, <3>4, <3>5 DEF Bound
  <2>7. OneAttached' /\ SlotsHeld'
    <3>1. DOMAIN instance = Conns /\ Attached(c)
      BY <1>1, <2>1 DEF InstancesOK, Attached
    <3> QED
      BY <1>1, <2>1, <2>6, <3>1, OnlyOneHolds
  <2> QED
    BY <2>2, <2>5, <2>7 DEF HandoffInv
<1>6. CASE detachClientInstance(c)
  <2>1. /\ instance[c] = "serving" /\ UNCHANGED current
        /\ \A d \in Conns : instance'[d] = IF d = c THEN "detaching" ELSE instance[d]
        /\ \A d \in Conns : closed'[d] = IF d = c THEN TRUE ELSE closed[d]
    BY <1>1, <1>6 DEF detachClientInstance, InstancesOK
  <2>2. NothingShown' /\ FailuresClose'
    <3>1. NothingShown'
      BY <1>1, <2>1 DEF NothingShown
    <3>2. \A l \in Leases : l[1] \in Conns
      BY DEF Leases
    <3>3. FailuresClose'
      BY <1>1, <2>1, <3>2 DEF FailuresClose
    <3> QED
      BY <3>1, <3>3
  <2>3. SendersWait'
    <3> SUFFICES ASSUME NEW p \in Panes, stage[p] = "running", NEW i \in DOMAIN commands[p]
                 PROVE  instance'[commands[p][i].conn] = At(commands[p][i])
      BY <1>1 DEF SendersWait
    <3>1. commands[p][i].conn \in Conns \ {c}
      BY <1>1, <2>1, ServingIsQuiet
    <3> QED
      BY <1>1, <2>1, <3>1 DEF SendersWait
  <2>4. OneAttached' /\ SlotsHeld'
    <3>1. DOMAIN instance = Conns /\ Attached(c)
      BY <1>1, <2>1 DEF InstancesOK, Attached
    <3> QED
      BY <1>1, <2>1, <3>1, OnlyOneHolds
  <2> QED
    BY <2>2, <2>3, <2>4 DEF HandoffInv
<1>7. CASE lifetimeDone(c)
  <2>1. /\ instance[c] = "detaching" /\ Idle(c) /\ UNCHANGED <<closed, applying, todo, still>>
        /\ \A d \in Conns : instance'[d] = IF d = c THEN "done" ELSE instance[d]
        /\ \A d \in Conns : current'[d] = IF d = c THEN 0 ELSE current[d]
    BY <1>1, <1>7 DEF lifetimeDone, InstancesOK
  <2>2. OneAttached' /\ NothingShown' /\ FailuresClose'
    BY <1>1, <2>1 DEF OneAttached, Attached, NothingShown, FailuresClose
  <2>3. SendersWait'
    <3> SUFFICES ASSUME NEW p \in Panes, stage[p] = "running", NEW i \in DOMAIN commands[p]
                 PROVE  instance'[commands[p][i].conn] = At(commands[p][i])
      BY <1>1 DEF SendersWait
    <3>1. commands[p][i] \in Command /\ instance[commands[p][i].conn] = At(commands[p][i])
      BY <1>1 DEF CommandsOK, SendersWait
    <3>2. commands[p][i].conn \in Conns /\ commands[p][i].conn # c
      BY <2>1, <3>1 DEF Command, At, Idle
    <3> QED
      BY <2>1, <3>1, <3>2
  <2>4. SlotsHeld'
    <3> SUFFICES ASSUME NEW d \in Conns \ {c}
                 PROVE  /\ instance[d] = "serving" => Installed(d)'
                        /\ instance[d] = "binding" => BeingBound(d)'
      BY <2>1 DEF SlotsHeld
    <3>1. /\ instance[d] = "serving" => Installed(d)
          /\ instance[d] = "binding" => BeingBound(d)
      BY DEF HandoffInv, SlotsHeld
    <3>2. Installed(d) => Installed(d)'
      <4>1. current'[d] = current[d]
        BY <2>1
      <4>2. ViewAt(current[d])' = ViewAt(current[d]) /\ SlotsOf(current[d])' = SlotsOf(current[d])
        BY <1>1, <4>1 DEF ViewAt, SlotsOf
      <4> QED
        BY <1>1, <2>1, <4>2 DEF Installed, Has
    <3>3. BeingBound(d) => BeingBound(d)'
      <4>1. ViewAt(applying[d])' = ViewAt(applying[d]) /\ SlotsOf(applying[d])' = SlotsOf(applying[d])
        BY <1>1, <2>1 DEF ViewAt, SlotsOf
      <4> QED
        BY <1>1, <2>1, <4>1 DEF BeingBound, Bound, Has
    <3> QED
      BY <3>1, <3>2, <3>3
  <2> QED
    BY <2>2, <2>3, <2>4 DEF HandoffInv
<1> QED
  BY <1>4, <1>5, <1>6, <1>7

\* A pane runs what it was sent: an installation gives it the lease it is bound to,
\* and a detach takes no lease of a client that is attached.
LEMMA RunsKeepLeases ==
    ASSUME IInv, HandoffInv, NEW p \in Panes, runCommand(p)
    PROVE  HandoffInv'
<1>1. /\ commands[p] # <<>> /\ commands' = [commands EXCEPT ![p] = Tail(@)]
      /\ UNCHANGED <<issued, instance, current, applying, todo, still, closed, stage, failed>>
      /\ InstancesOK /\ CommandsOK /\ PublicationsOK
      /\ OneAttached /\ NothingShown /\ SendersWait /\ FailuresClose
  BY DEF IInv, HandoffInv, runCommand
<1>2. PICK command \in Command : command = Head(commands[p])
  BY <1>1, Rest DEF CommandsOK
<1>3. \/ command.type = "install" /\ runInstall(p, command)
      \/ command.type = "release" /\ runRelease(p, command)
      \/ command.type = "detach" /\ runDetach(p, command)
  BY <1>2 DEF runCommand
<1>4. /\ command = commands[p][1] /\ 1 \in DOMAIN commands[p]
      /\ \A i \in DOMAIN Tail(commands[p]) :
            i \in Nat /\ i + 1 \in DOMAIN commands[p] /\ Tail(commands[p])[i] = commands[p][i + 1]
      /\ \A i \in DOMAIN commands[p] :
            /\ i \in Nat /\ i >= 1
            /\ i # 1 => i - 1 \in DOMAIN Tail(commands[p]) /\ Tail(commands[p])[i - 1] = commands[p][i]
  <2>1. commands[p] \in Seq(Command)
    BY <1>1 DEF CommandsOK
  <2> QED
    BY <1>1, <1>2, <2>1, Rest
<1>5. \A q \in Panes : commands'[q] = IF q = p THEN Tail(commands[p]) ELSE commands[q]
  BY <1>1 DEF CommandsOK
<1>6. \A q \in Panes \ {p} : lease'[q] = lease[q]
  BY <1>1, <1>3 DEF runInstall, runRelease, runDetach, Forget, PublicationsOK, publicationVars
<1>7. OneAttached' /\ NothingShown' /\ FailuresClose'
  BY <1>1 DEF OneAttached, Attached, NothingShown, FailuresClose
<1>8. SendersWait'
  BY <1>1, <1>4, <1>5 DEF SendersWait
<1>9. \A r : ViewAt(r)' = ViewAt(r) /\ SlotsOf(r)' = SlotsOf(r)
  BY <1>1 DEF ViewAt, SlotsOf
<1>10. ASSUME NEW c \in Conns, NEW s, Attached(c), stage[p] = "running", command.type = "detach", Has(p, <<c, s>>)
       PROVE  lease'[p] = lease[p]
  <2>1. instance[command.conn] = "detaching"
    BY <1>1, <1>4, <1>10 DEF SendersWait, At
  <2>2. command.conn # c
    BY <1>10, <2>1 DEF Attached
  <2>3. ~Detaches(p, command)
    BY <1>10, <2>2 DEF Detaches, Has
  <2> QED
    BY <1>3, <1>10, <2>3 DEF runDetach, publicationVars
<1>11. SlotsHeld'
  <2> SUFFICES ASSUME NEW c \in Conns
               PROVE  /\ instance[c] = "serving" => Installed(c)'
                      /\ instance[c] = "binding" => BeingBound(c)'
    BY <1>1 DEF SlotsHeld
  <2>1. /\ instance[c] = "serving" => Installed(c)
        /\ instance[c] = "binding" => BeingBound(c)
    BY DEF HandoffInv, SlotsHeld
  <2>2. ASSUME instance[c] = "serving" PROVE Installed(c)'
    <3>1. ViewAt(current[c])' = ViewAt(current[c]) /\ SlotsOf(current[c])' = SlotsOf(current[c])
      BY <1>1, <1>9
    <3> SUFFICES ASSUME NEW s \in SlotsOf(current[c]), stage[ViewAt(current[c])[s]] = "running"
                 PROVE  Has(ViewAt(current[c])[s], <<c, s>>)'
      BY <1>1, <3>1 DEF Installed
    <3>2. PICK q \in Panes : q = ViewAt(current[c])[s]
      BY <1>1, RevisionsAreThere, ViewsHaveSlots
    <3>3. Has(q, <<c, s>>)
      BY <2>1, <2>2, <3>2 DEF Installed
    <3>4. lease'[q] = lease[q]
      <4>1. CASE q = p
        <5>1. command.type = "detach"
          BY <1>1, <1>4, <2>2, <3>2, <4>1, ServingIsQuiet
        <5> QED
          BY <1>10, <2>2, <3>2, <3>3, <4>1, <5>1 DEF Attached
      <4> QED
        BY <1>6, <4>1
    <3>5. Has(q, <<c, s>>)'
      BY <1>1, <3>3, <3>4 DEF Has
    <3> QED
      BY <3>1, <3>2, <3>5
  <2>3. ASSUME instance[c] = "binding" PROVE BeingBound(c)'
    <3>1. ViewAt(applying[c])' = ViewAt(applying[c]) /\ SlotsOf(applying[c])' = SlotsOf(applying[c])
      BY <1>1, <1>9
    <3> SUFFICES ASSUME NEW s \in SlotsOf(applying[c]) \ (todo[c] \cup still[c]), stage[ViewAt(applying[c])[s]] = "running"
                 PROVE  Bound(ViewAt(applying[c])[s], <<c, s>>)'
      BY <1>1, <3>1 DEF BeingBound
    <3>2. PICK q \in Panes : q = ViewAt(applying[c])[s]
      BY <1>1, RevisionsAreThere, ViewsHaveSlots
    <3>3. Bound(q, <<c, s>>)
      BY <2>1, <2>3, <3>2 DEF BeingBound
    <3>4. CASE q # p
      <4>1. Bound(q, <<c, s>>)'
        BY <1>1, <1>5, <1>6, <3>3, <3>4 DEF Bound, Has
      <4> QED
        BY <3>1, <3>2, <4>1
    <3>5. CASE q = p
      <4>1. \A i \in Nat : DetachesFrom(commands[p], i + 1) => DetachesFrom(commands'[p], i)
        <5> SUFFICES ASSUME NEW i \in Nat, DetachesFrom(commands[p], i + 1),
                            NEW j \in DOMAIN Tail(commands[p]), j >= i
                     PROVE  Tail(commands[p])[j].type = "detach"
          BY <1>5 DEF DetachesFrom
        <5>1. j \in Nat /\ j + 1 \in DOMAIN commands[p] /\ Tail(commands[p])[j] = commands[p][j + 1]
          BY <1>4
        <5>2. j + 1 >= i + 1
          BY <5>1
        <5> QED
          BY <5>1, <5>2 DEF DetachesFrom
      <4>2. CASE Has(p, <<c, s>>) /\ DetachesFrom(commands[p], 1)
        <5>1. command.type = "detach" /\ DetachesFrom(commands[p], 1 + 1)
          <6>1. \A j \in DOMAIN commands[p] : commands[p][j].type = "detach"
            BY <1>4, <4>2 DEF DetachesFrom
          <6> QED
            BY <1>4, <6>1 DEF DetachesFrom
        <5>2. Has(p, <<c, s>>)'
          BY <1>1, <1>10, <2>3, <3>2, <3>5, <4>2, <5>1 DEF Attached, Has
        <5> QED
          BY <3>1, <3>2, <3>5, <4>1, <5>1, <5>2 DEF Bound
      <4>3. ASSUME NEW i \in DOMAIN commands[p], InstallsAt(commands[p], i, <<c, s>>)
            PROVE  Bound(p, <<c, s>>)'
        <5>1. CASE i = 1
          <6>1. command.type = "install" /\ <<command.conn, command.slot>> = <<c, s>> /\ DetachesFrom(commands[p], 1 + 1)
            BY <1>4, <4>3, <5>1 DEF InstallsAt
          <6>2. lease'[p] = <<c, s>>
            BY <1>1, <1>3, <6>1 DEF runInstall, PublicationsOK
          <6> QED
            BY <4>1, <6>1, <6>2 DEF Bound, Has
        <5>2. CASE i # 1
          <6>1. /\ i - 1 \in DOMAIN commands'[p] /\ commands'[p][i - 1] = commands[p][i]
                /\ i \in Nat /\ i - 1 \in Nat /\ (i - 1) + 1 = i
            <7>1. i \in Nat /\ i >= 1 /\ i - 1 \in DOMAIN Tail(commands[p]) /\ Tail(commands[p])[i - 1] = commands[p][i]
              BY <1>4, <5>2
            <7>2. i - 1 \in Nat /\ (i - 1) + 1 = i
              BY <7>1
            <7> QED
              BY <1>5, <7>1, <7>2
          <6>2. DetachesFrom(commands'[p], (i - 1) + 1)
            BY <4>1, <4>3, <6>1 DEF InstallsAt
          <6>3. InstallsAt(commands'[p], i - 1, <<c, s>>)
            BY <4>3, <6>1, <6>2 DEF InstallsAt
          <6> QED
            BY <6>1, <6>3 DEF Bound
        <5> QED
          BY <5>1, <5>2
      <4> QED
        BY <3>1, <3>2, <3>3, <3>5, <4>2, <4>3 DEF Bound
    <3> QED
      BY <3>4, <3>5
  <2> QED
    BY <2>2, <2>3
<1> QED
  BY <1>7, <1>8, <1>11 DEF HandoffInv

\* A pane gives up the lease of a transport that is closed.
LEMMA FailuresKeepLeases ==
    ASSUME IInv, HandoffInv, NEW p \in Panes, seeFailure(p)
    PROVE  HandoffInv'
<1>1. /\ UNCHANGED <<issued, instance, current, applying, todo, still, closed, stage, commands>>
      /\ InstancesOK /\ PublicationsOK /\ WorkersOK
      /\ OneAttached /\ NothingShown /\ SendersWait /\ FailuresClose
  BY DEF IInv, HandoffInv, seeFailure, instanceVars, handoffVars
<1>2. /\ lease[p] \in Leases /\ failed[lease[p]] /\ failed' = [failed EXCEPT ![lease[p]] = FALSE]
      /\ lease' = [lease EXCEPT ![p] = None]
  BY <1>1 DEF seeFailure, Forget, PublicationsOK
<1>3. closed[lease[p][1]] /\ \A l \in Leases : failed'[l] => failed[l]
  BY <1>1, <1>2 DEF FailuresClose, WorkersOK
<1>4. \A q \in Panes, c \in Conns : \A s : Has(q, <<c, s>>) => Has(q, <<c, s>>)'
  BY <1>1, <1>2, <1>3 DEF PublicationsOK, Has
<1>5. OneAttached' /\ NothingShown' /\ FailuresClose' /\ SendersWait'
  BY <1>1, <1>3 DEF OneAttached, Attached, NothingShown, FailuresClose, SendersWait
<1>6. SlotsHeld'
  <2> SUFFICES ASSUME NEW c \in Conns
               PROVE  /\ instance[c] = "serving" => Installed(c)'
                      /\ instance[c] = "binding" => BeingBound(c)'
    BY <1>1 DEF SlotsHeld
  <2>1. /\ instance[c] = "serving" => Installed(c)
        /\ instance[c] = "binding" => BeingBound(c)
    BY DEF HandoffInv, SlotsHeld
  <2>2. \A r : ViewAt(r)' = ViewAt(r) /\ SlotsOf(r)' = SlotsOf(r)
    BY <1>1 DEF ViewAt, SlotsOf
  <2>3. Installed(c) => Installed(c)'
    <3> SUFFICES ASSUME Installed(c), NEW s \in SlotsOf(current[c]), stage[ViewAt(current[c])[s]] = "running"
                 PROVE  Has(ViewAt(current[c])[s], <<c, s>>)'
      BY <1>1, <2>2 DEF Installed
    <3>1. PICK q \in Panes : q = ViewAt(current[c])[s]
      BY <1>1, RevisionsAreThere, ViewsHaveSlots
    <3>2. Has(q, <<c, s>>)'
      BY <1>4, <3>1 DEF Installed
    <3>3. ViewAt(current[c])' = ViewAt(current[c])
      BY <1>1, <2>2
    <3> QED
      BY <3>1, <3>2, <3>3
  <2>4. BeingBound(c) => BeingBound(c)'
    <3>1. ViewAt(applying[c])' = ViewAt(applying[c]) /\ SlotsOf(applying[c])' = SlotsOf(applying[c])
      BY <1>1, <2>2
    <3> SUFFICES ASSUME BeingBound(c), NEW s \in SlotsOf(applying[c]) \ (todo[c] \cup still[c]),
                        stage[ViewAt(applying[c])[s]] = "running"
                 PROVE  Bound(ViewAt(applying[c])[s], <<c, s>>)'
      BY <1>1, <3>1 DEF BeingBound
    <3>2. PICK q \in Panes : q = ViewAt(applying[c])[s]
      BY <1>1, RevisionsAreThere, ViewsHaveSlots
    <3>3. Bound(q, <<c, s>>)
      BY <3>2 DEF BeingBound
    <3>4. Bound(q, <<c, s>>)'
      BY <1>1, <1>4, <3>3 DEF Bound
    <3> QED
      BY <3>1, <3>2, <3>4
  <2> QED
    BY <2>1, <2>3, <2>4
<1> QED
  BY <1>5, <1>6 DEF HandoffInv

LEMMA InitHasNoLeases ==
    ASSUME Init
    PROVE  IInv /\ PInv /\ HandoffInv
<1>1. IInv /\ PInv
  BY InitHasNoPictures
<1>2. /\ \A c \in Conns : instance[c] = "admitted" /\ current[c] = 0
      /\ \A p \in Panes : commands[p] = <<>>
      /\ \A l \in Leases : ~failed[l]
  BY DEF Init
<1> QED
  BY <1>1, <1>2 DEF HandoffInv, OneAttached, Attached, NothingShown, SendersWait, FailuresClose, SlotsHeld

LEMMA StepKeepsLeases ==
    ASSUME Ungrouped, IInv, PInv, HandoffInv, [Next]_vars
    PROVE  (IInv /\ PInv /\ HandoffInv)'
<1>1. (IInv /\ PInv)'
  BY StepKeepsPictures
<1>2. ASSUME DaemonStep PROVE HandoffInv'
  BY <1>2, ProjectionsKeepLeases, OthersKeepLeases, Ungrouped DEF DaemonStep
<1>3. ASSUME NEW c \in Conns, InstanceProgress(c) \/ transportLost(c) \/ detachClientInstance(c) PROVE HandoffInv'
  <2>1. DueFits
    BY DEF PInv, FitInv
  <2> QED
    BY <1>3, <2>1, TransitionsKeepLeases, InstallationsKeepLeases, DetachmentsKeepLeases, HandoffsKeepLeases,
       OthersKeepLeases DEF InstanceProgress
<1>4. ASSUME NEW p \in Panes, PaneLoop(p) PROVE HandoffInv'
  BY <1>4, RunsKeepLeases, FailuresKeepLeases, OthersKeepLeases DEF PaneLoop
<1>5. ASSUME NEW l \in Leases, runConfirmer(l) PROVE HandoffInv'
  BY <1>5, OthersKeepLeases
<1>6. ASSUME UNCHANGED vars PROVE HandoffInv'
  BY <1>6, OthersKeepLeases
<1> QED
  BY <1>1, <1>2, <1>3, <1>4, <1>5, <1>6 DEF Next

\* The panes of an installed view have the leases of their slots (ClientInstance.
\* finishOutputHandoff) for any panes, views and transports of a session that shares no
\* window: whatever is returned late, lost with a pane, or left by the client before, a
\* running pane ends a hand-off with the lease of its slot, and keeps it until the next.
THEOREM VisiblePanesHaveLeases ==
    ASSUME Ungrouped
    PROVE  Spec => []VisiblePaneHasLease
<1>1. Init => IInv /\ PInv /\ HandoffInv
  BY InitHasNoLeases
<1>2. (IInv /\ PInv /\ HandoffInv) /\ [Next]_vars => (IInv /\ PInv /\ HandoffInv)'
  BY StepKeepsLeases, Ungrouped
<1>3. HandoffInv => VisiblePaneHasLease
  BY DEF HandoffInv, SlotsHeld, Installed, Has, VisiblePaneHasLease
<1> QED
  BY <1>1, <1>2, <1>3, PTL DEF Spec

-----------------------------------------------------------------------------
(* The owner of a lease *)

\* Pane q has slot s in revision r.
Places(r, q, s) == s \in SlotsOf(r) /\ q = ViewAt(r)[s]

\* A running pane that has lease l.
Uses(q, l) == stage[q] = "running" /\ lease[q] = l

\* Slot s of c is free for the pane that is to have it, but for what stopped panes do.
Vacant(c, s) ==
    \A q \in Panes : Uses(q, <<c, s>>) => Places(applying[c], q, s) \/ <<c, s>> \in intruded

\* A client that serves has leases with the panes of its view only; one that binds has
\* others with panes that are to release them.
ToRelease(c, q) == \E i \in DOMAIN commands[q] : IsReleaseOf(commands[q][i], c)
UsersKnown ==
    \A c \in Conns, s \in Slots, q \in Panes : Uses(q, <<c, s>>) =>
        /\ instance[c] # "admitted"
        /\ instance[c] = "serving" => Places(current[c], q, s) \/ <<c, s>> \in intruded
        /\ instance[c] = "binding" =>
              ToRelease(c, q) \/ Places(applying[c], q, s) \/ <<c, s>> \in intruded

\* A slot that has been returned or is to be bound is vacant.
SlotsVacant ==
    \A c \in Conns : /\ instance[c] = "binding" => \A s \in todo[c] : Vacant(c, s)
                     /\ \A i \in DOMAIN returned[c] : Vacant(c, returned[c][i])
                     /\ instance[c] # "binding" => returned[c] = <<>>

\* What a running pane was sent: installations follow the releases, and a release
\* finds a lease of whoever asked.
CommandOwned(p, command) ==
    command.type = "install" =>
        Places(applying[command.conn], p, command.slot) /\ Vacant(command.conn, command.slot)
ReleasesFirst(queue) ==
    \A i, j \in DOMAIN queue : queue[i].type = "install" /\ queue[j].type = "release" => j < i
QueuesOwned ==
    \A p \in Panes : stage[p] = "running" =>
        /\ \A i \in DOMAIN commands[p] : CommandOwned(p, commands[p][i])
        /\ ReleasesFirst(commands[p])
        /\ \A c \in Conns : ToRelease(c, p) => lease[p] = None \/ lease[p][1] = c

OwnerInv == LeaseHasOneOwner /\ UsersKnown /\ SlotsVacant /\ QueuesOwned

LEMMA PlacesStay ==
    ASSUME InstancesOK, UNCHANGED <<current, applying>>, \A r \in Revisions : ViewAt(r)' = ViewAt(r)
    PROVE  \A c \in Conns : \A q, s : /\ Places(current[c], q, s)' <=> Places(current[c], q, s)
                                      /\ Places(applying[c], q, s)' <=> Places(applying[c], q, s)
<1>1. \A c \in Conns : ViewAt(current[c])' = ViewAt(current[c]) /\ ViewAt(applying[c])' = ViewAt(applying[c])
  BY RevisionsAreThere
<1> QED
  BY <1>1 DEF Places, SlotsOf

\* A vacant slot is given to the pane that is to have it only.
LEMMA VacancyStays ==
    ASSUME intruded \subseteq intruded', NEW c \in Conns, NEW s \in Slots, Vacant(c, s),
           \A q \in Panes : Places(applying[c], q, s)' <=> Places(applying[c], q, s),
           \A q \in Panes : Uses(q, <<c, s>>)' => Uses(q, <<c, s>>) \/ Places(applying[c], q, s)
    PROVE  Vacant(c, s)'
BY DEF Vacant

\* What c is returned in a step is vacant after it.
Returns(c) ==
    \/ returned'[c] = returned[c]
    \/ /\ instance[c] = "binding"
       /\ \A i \in DOMAIN returned'[c] : /\ returned'[c][i] \in Slots
                                         /\ \/ i \in DOMAIN returned[c] /\ returned'[c][i] = returned[c][i]
                                            \/ Vacant(c, returned[c][i])'

\* A step that leaves what running panes were sent as it was, and gives them no lease.
LEMMA OwnersStay ==
    ASSUME InstancesOK, CommandsOK, PublicationsOK, OwnerInv, UNCHANGED <<instance, current, applying, todo>>,
           \A c \in Conns : Returns(c),
           \A r \in Revisions : ViewAt(r)' = ViewAt(r), intruded \subseteq intruded',
           \A p \in Panes : stage'[p] = "running" =>
               stage[p] = "running" /\ commands'[p] = commands[p] /\ (lease'[p] = lease[p] \/ lease'[p] = None)
    PROVE  OwnerInv'
<1>1. \A q \in Panes, c \in Conns, s \in Slots : Uses(q, <<c, s>>)' => Uses(q, <<c, s>>)
  BY DEF Uses, Leases
<1>2. \A c \in Conns : \A q, s : /\ Places(current[c], q, s)' <=> Places(current[c], q, s)
                                 /\ Places(applying[c], q, s)' <=> Places(applying[c], q, s)
  BY PlacesStay
<1>3. \A c \in Conns, s \in Slots : Vacant(c, s) => Vacant(c, s)'
  BY <1>1, <1>2, VacancyStays
<1>4. LeaseHasOneOwner'
  BY DEF OwnerInv, LeaseHasOneOwner
<1>5. UsersKnown'
  <2> SUFFICES ASSUME NEW c \in Conns, NEW s \in Slots, NEW q \in Panes, Uses(q, <<c, s>>)'
               PROVE  /\ instance[c] # "admitted"
                      /\ instance[c] = "serving" => Places(current[c], q, s)' \/ <<c, s>> \in intruded'
                      /\ instance[c] = "binding" =>
                            ToRelease(c, q)' \/ Places(applying[c], q, s)' \/ <<c, s>> \in intruded'
    BY DEF UsersKnown
  <2>1. Uses(q, <<c, s>>) /\ commands'[q] = commands[q]
    BY <1>1 DEF Uses
  <2>2. ToRelease(c, q) => ToRelease(c, q)'
    BY <2>1 DEF ToRelease
  <2> QED
    BY <1>2, <2>1, <2>2 DEF OwnerInv, UsersKnown
<1>6. SlotsVacant'
  <2>1. \A c \in Conns : todo[c] \subseteq Slots /\ \A i \in DOMAIN returned[c] : returned[c][i] \in Slots
    BY DEF InstancesOK
  <2>2. ASSUME NEW c \in Conns, NEW i \in DOMAIN returned'[c] PROVE Vacant(c, returned[c][i])'
    BY <1>3, <2>1, <2>2 DEF Returns, OwnerInv, SlotsVacant
  <2>3. \A c \in Conns : instance[c] # "binding" => returned'[c] = returned[c]
    BY DEF Returns
  <2> QED
    BY <1>3, <2>1, <2>2, <2>3 DEF OwnerInv, SlotsVacant
<1>7. QueuesOwned'
  <2> SUFFICES ASSUME NEW p \in Panes, stage'[p] = "running"
               PROVE  /\ \A i \in DOMAIN commands'[p] : CommandOwned(p, commands[p][i])'
                      /\ ReleasesFirst(commands[p])'
                      /\ \A c \in Conns : ToRelease(c, p)' => lease'[p] = None \/ lease'[p][1] = c
    BY DEF QueuesOwned
  <2>1. /\ \A i \in DOMAIN commands[p] : CommandOwned(p, commands[p][i])
        /\ ReleasesFirst(commands[p]) /\ commands'[p] = commands[p] /\ (lease'[p] = lease[p] \/ lease'[p] = None)
        /\ \A c \in Conns : ToRelease(c, p) => lease[p] = None \/ lease[p][1] = c
    BY DEF OwnerInv, QueuesOwned
  <2>2. ASSUME NEW i \in DOMAIN commands'[p] PROVE CommandOwned(p, commands[p][i])'
    <3>1. PICK command \in Command : command = commands[p][i]
      BY <2>1, <2>2 DEF CommandsOK
    <3>2. command.type = "install" => command.conn \in Conns /\ command.slot \in Slots
      BY <3>1 DEF Command
    <3>3. CommandOwned(p, command) => CommandOwned(p, command)'
      BY <1>2, <1>3, <3>2 DEF CommandOwned
    <3>4. command = commands'[p][i]
      BY <2>1, <3>1
    <3> QED
      BY <2>1, <2>2, <3>1, <3>3, <3>4 DEF CommandOwned
  <2>3. ReleasesFirst(commands[p])'
    BY <2>1 DEF ReleasesFirst
  <2> QED
    BY <2>1, <2>2, <2>3 DEF ToRelease
<1> QED
  BY <1>4, <1>5, <1>6, <1>7 DEF OwnerInv

\* Panes and confirmers that run no command, and transports that are lost.
LEMMA OthersKeepOwners ==
    ASSUME IInv, OwnerInv,
           \/ \E p \in Panes : \/ stopPane(p) \/ toggleHistory(p) \/ startDrain(p) \/ applyPTYChunk(p)
                               \/ completeDrain(p) \/ prepare(p) \/ handedOff(p) \/ seeFailure(p) \/ mainDone(p)
           \/ \E l \in Leases : runConfirmer(l)
           \/ \E c \in Conns : transportLost(c)
           \/ UNCHANGED vars
    PROVE  OwnerInv'
<1> USE DEF instanceVars, handoffVars, terminalVars, publicationVars, workerVars
<1>1. InstancesOK /\ PublicationsOK /\ CommandsOK
  BY DEF IInv
<1>2. UNCHANGED <<issued, instance, current, applying, todo, returned>> /\ intruded \subseteq intruded' /\ \A c \in Conns : Returns(c)
  BY DEF stopPane, toggleHistory, startDrain, applyPTYChunk, completeDrain, prepare, handedOff, seeFailure, mainDone,
         runConfirmer, takePublication, writeFrame, writeFails, drainAbandoned, closeWorkerDone, transportLost, vars, Returns
<1>3. \A r \in Revisions : ViewAt(r)' = ViewAt(r)
  BY <1>2 DEF ViewAt
<1>4. \A q \in Panes : stage'[q] = "running" =>
          stage[q] = "running" /\ commands'[q] = commands[q] /\ (lease'[q] = lease[q] \/ lease'[q] = None)
  <2>1. ASSUME NEW p \in Panes, mainDone(p) \/ stopPane(p) \/ seeFailure(p)
        PROVE  \A q \in Panes : stage'[q] = "running" =>
                   stage[q] = "running" /\ commands'[q] = commands[q] /\ (lease'[q] = lease[q] \/ lease'[q] = None)
    BY <1>1, <2>1 DEF mainDone, stopPane, seeFailure, Forget, InstancesOK, PublicationsOK, CommandsOK
  <2>2. ASSUME ~ \E p \in Panes : mainDone(p) \/ stopPane(p) \/ seeFailure(p)
        PROVE  UNCHANGED <<stage, commands, lease>>
    BY <2>2 DEF toggleHistory, startDrain, applyPTYChunk, completeDrain, prepare, handedOff,
         runConfirmer, takePublication, writeFrame, writeFails, drainAbandoned, closeWorkerDone, transportLost, vars
  <2> QED
    BY <2>1, <2>2
<1> QED
  BY <1>1, <1>2, <1>3, <1>4, OwnersStay

LEMMA ProjectionsKeepOwners ==
    ASSUME Ungrouped, IInv, HandoffInv, OwnerInv, NEW c \in Conns, NEW view \in Views,
           initializeClient(c, view) \/ prepareViewTransition(c, view)
    PROVE  OwnerInv'
<1> USE DEF instanceVars, handoffVars, publicationVars, workerVars
<1>1. /\ Project(c, view) /\ UNCHANGED <<current, applying, todo, returned, commands, stage, lease, intruded>>
      /\ InstancesOK /\ CommandsOK /\ PublicationsOK
  BY DEF initializeClient, prepareViewTransition, IInv
<1>2. \A r \in Revisions : ViewAt(r)' = ViewAt(r)
  <2>1. Len(issued) \in Nat /\ \A r \in 1 .. Len(issued) : issued'[r] = issued[r]
    BY <1>1, ProjectionGrows
  <2>2. \A r \in Revisions : r = 0 \/ issued'[r] = issued[r]
    BY <2>1 DEF Revisions
  <2> QED
    BY <2>2 DEF ViewAt
<1>3. CASE prepareViewTransition(c, view)
  BY <1>1, <1>2, <1>3, OwnersStay DEF prepareViewTransition, Returns
<1>4. CASE initializeClient(c, view)
  <2>1. /\ \A d \in Conns : instance'[d] = IF d = c THEN "serving" ELSE instance[d]
        /\ instance[c] = "admitted"
    BY <1>1, <1>4 DEF initializeClient, InstancesOK
  <2>2. \A d \in Conns : \A q, s : /\ Places(current[d], q, s)' <=> Places(current[d], q, s)
                                   /\ Places(applying[d], q, s)' <=> Places(applying[d], q, s)
    BY <1>1, <1>2, PlacesStay
  <2>3. \A d \in Conns : \A s : Vacant(d, s)' <=> Vacant(d, s)
    BY <1>1, <2>2 DEF Vacant, Uses
  <2>4. LeaseHasOneOwner'
    BY <1>1 DEF OwnerInv, LeaseHasOneOwner
  <2>5. UsersKnown'
    BY <1>1, <2>1, <2>2 DEF OwnerInv, UsersKnown, Uses, ToRelease
  <2>6. SlotsVacant'
    BY <1>1, <2>1, <2>3 DEF OwnerInv, SlotsVacant
  <2>7. QueuesOwned'
    <3>1. ASSUME NEW p \in Panes, stage[p] = "running", NEW i \in DOMAIN commands[p]
          PROVE  CommandOwned(p, commands[p][i])'
      <4>1. PICK command \in Command : command = commands[p][i]
        BY <1>1, <3>1 DEF CommandsOK
      <4>2. command.type = "install" => command.conn \in Conns
        BY DEF Command
      <4>3. CommandOwned(p, command)
        BY <3>1, <4>1 DEF OwnerInv, QueuesOwned
      <4>4. CommandOwned(p, command)'
        BY <2>2, <2>3, <4>2, <4>3 DEF CommandOwned
      <4> QED
        BY <1>1, <4>1, <4>4
    <3> QED
      BY <1>1, <3>1 DEF OwnerInv, QueuesOwned, ReleasesFirst, ToRelease
  <2> QED
    BY <2>4, <2>5, <2>6, <2>7 DEF OwnerInv
<1> QED
  BY <1>3, <1>4

\* What a command was sent for stays so.
LEMMA OwnedStays ==
    ASSUME InstancesOK, UNCHANGED <<issued, applying, stage, lease, intruded>>,
           NEW p, NEW command \in Command, CommandOwned(p, command)
    PROVE  CommandOwned(p, command)'
<1>1. command.type = "install" => command.conn \in Conns
  BY DEF Command
<1>2. \A r : ViewAt(r)' = ViewAt(r)
  BY DEF ViewAt
<1>3. \A c \in Conns : \A q, s : Places(applying[c], q, s)' <=> Places(applying[c], q, s)
  BY <1>2 DEF Places, SlotsOf
<1>4. \A c \in Conns : \A s : Vacant(c, s)' <=> Vacant(c, s)
  BY <1>3 DEF Vacant, Uses
<1> QED
  BY <1>1, <1>3, <1>4 DEF CommandOwned

\* Panes are sent a command that asks for no release.
LEMMA SendsKeepOwners ==
    ASSUME InstancesOK, CommandsOK, OwnerInv, NEW command \in Command, command.type # "release",
           UNCHANGED <<issued, instance, current, applying, returned, stage, lease, intruded>>,
           \A c \in Conns : todo'[c] \subseteq todo[c],
           \A p \in Panes : \/ commands'[p] = commands[p]
                            \/ /\ commands'[p] = Append(commands[p], command)
                               /\ stage[p] = "running" => CommandOwned(p, command)
    PROVE  OwnerInv'
<1>1. \A p \in Panes :
          /\ commands[p] \in Seq(Command)
          /\ \A i \in DOMAIN commands[p] : i \in DOMAIN commands'[p] /\ commands'[p][i] = commands[p][i]
          /\ \A i \in DOMAIN commands'[p] :
                \/ i \in DOMAIN commands[p] /\ commands'[p][i] = commands[p][i]
                \/ /\ commands'[p][i] = command /\ (stage[p] = "running" => CommandOwned(p, command))
                   /\ \A j \in DOMAIN commands[p] : j < i
  <2> SUFFICES ASSUME NEW p \in Panes, commands'[p] # commands[p]
               PROVE  /\ commands[p] \in Seq(Command)
                      /\ \A i \in DOMAIN commands[p] : i \in DOMAIN commands'[p] /\ commands'[p][i] = commands[p][i]
                      /\ \A i \in DOMAIN commands'[p] :
                            \/ i \in DOMAIN commands[p] /\ commands'[p][i] = commands[p][i]
                            \/ /\ commands'[p][i] = command /\ (stage[p] = "running" => CommandOwned(p, command))
                               /\ \A j \in DOMAIN commands[p] : j < i
    BY DEF CommandsOK
  <2>1. commands[p] \in Seq(Command) /\ commands'[p] = Append(commands[p], command)
    BY DEF CommandsOK
  <2> QED
    BY <2>1, Appended
<1>2. \A c \in Conns : \A q, s : /\ Places(current[c], q, s)' <=> Places(current[c], q, s)
                                 /\ Places(applying[c], q, s)' <=> Places(applying[c], q, s)
  <2>1. \A r : ViewAt(r)' = ViewAt(r)
    BY DEF ViewAt
  <2> QED
    BY <2>1, PlacesStay
<1>3. \A c \in Conns : \A s : Vacant(c, s)' <=> Vacant(c, s)
  BY <1>2 DEF Vacant, Uses
<1>4. LeaseHasOneOwner'
  BY DEF OwnerInv, LeaseHasOneOwner
<1>5. \A c \in Conns, q \in Panes : ToRelease(c, q)' <=> ToRelease(c, q)
  BY <1>1 DEF ToRelease, IsReleaseOf
<1>6. UsersKnown'
  BY <1>2, <1>5 DEF OwnerInv, UsersKnown, Uses
<1>7. SlotsVacant'
  BY <1>3 DEF OwnerInv, SlotsVacant
<1>8. QueuesOwned'
  <2> SUFFICES ASSUME NEW p \in Panes, stage[p] = "running"
               PROVE  /\ \A i \in DOMAIN commands'[p] : CommandOwned(p, commands[p][i])'
                      /\ ReleasesFirst(commands[p])'
                      /\ \A c \in Conns : ToRelease(c, p)' => lease'[p] = None \/ lease'[p][1] = c
    BY DEF QueuesOwned
  <2>1. /\ \A i \in DOMAIN commands[p] : CommandOwned(p, commands[p][i])
        /\ ReleasesFirst(commands[p])
        /\ \A c \in Conns : ToRelease(c, p) => lease[p] = None \/ lease[p][1] = c
    BY DEF OwnerInv, QueuesOwned
  <2>2. ASSUME NEW i \in DOMAIN commands'[p] PROVE CommandOwned(p, commands[p][i])'
    <3>1. PICK x \in Command : x = commands'[p][i]
      BY <1>1, <2>2
    <3>2. CommandOwned(p, x)
      BY <1>1, <2>1, <2>2, <3>1
    <3>3. CommandOwned(p, x)'
      BY <3>2, OwnedStays
    <3> QED
      BY <3>1, <3>3
  <2>3. ReleasesFirst(commands'[p])
    <3> SUFFICES ASSUME NEW i \in DOMAIN commands'[p], NEW j \in DOMAIN commands'[p],
                        commands'[p][i].type = "install", commands'[p][j].type = "release"
                 PROVE  j < i
      BY DEF ReleasesFirst
    <3>1. j \in DOMAIN commands[p] /\ commands'[p][j] = commands[p][j]
      BY <1>1
    <3>2. CASE i \in DOMAIN commands[p] /\ commands'[p][i] = commands[p][i]
      BY <2>1, <3>1, <3>2 DEF ReleasesFirst
    <3>3. CASE ~(i \in DOMAIN commands[p] /\ commands'[p][i] = commands[p][i])
      BY <1>1, <3>1, <3>3
    <3> QED
      BY <3>2, <3>3
  <2> QED
    BY <1>5, <2>1, <2>2, <2>3 DEF ReleasesFirst
<1> QED
  BY <1>4, <1>6, <1>7, <1>8 DEF OwnerInv

\* A client binds a vacant slot to its pane; an instance that ends takes leases only.
LEMMA InstallationsKeepOwners ==
    ASSUME IInv, DueFits, OwnerInv, NEW c \in Conns, NEW s \in Slots, installOutputLease(c, s)
    PROVE  OwnerInv'
<1> DEFINE command == [type |-> "install", conn |-> c, slot |-> s, revision |-> applying[c],
                       size |-> Len(ViewAt(applying[c]))]
           pane == ViewAt(applying[c])[s]
<1>1. /\ UNCHANGED <<issued, instance, current, applying, returned, stage, lease, intruded>>
      /\ instance[c] = "binding" /\ s \in todo[c] /\ todo' = [todo EXCEPT ![c] = @ \ {s}]
      /\ Send(pane, command)
  BY DEF installOutputLease, publicationVars
<1>2. InstancesOK /\ CommandsOK
  BY DEF IInv
<1>3. applying[c] \in Revisions /\ applying[c] # 0 /\ s \in SlotsOf(applying[c])
  BY <1>1, <1>2 DEF InstancesOK, DueFits
<1>4. Vacant(c, s) /\ Places(applying[c], pane, s)
  BY <1>1, <1>3 DEF OwnerInv, SlotsVacant, Places
<1>5. command \in Command /\ command.type = "install" /\ command.conn = c /\ command.slot = s
  BY <1>2, <1>3, RevisionHasSlots DEF Command
<1> HIDE DEF command, pane
<1>6. CommandOwned(pane, command)
  BY <1>4, <1>5 DEF CommandOwned
<1>7. \A p \in Panes : commands'[p] = commands[p] \/ (commands'[p] = Append(commands[p], command) /\ CommandOwned(p, command))
  BY <1>1, <1>2, <1>6 DEF Send, CommandsOK
<1>8. \A d \in Conns : todo'[d] \subseteq todo[d]
  BY <1>1, <1>2 DEF InstancesOK
<1> QED
  BY <1>1, <1>2, <1>5, <1>7, <1>8, SendsKeepOwners

LEMMA DetachmentsKeepOwners ==
    ASSUME IInv, OwnerInv, NEW c \in Conns, NEW s \in Slots, detachOutputLease(c, s)
    PROVE  OwnerInv'
<1> DEFINE command == [type |-> "detach", conn |-> c]
<1>1. /\ UNCHANGED <<issued, instance, current, applying, returned, stage, lease, intruded>>
      /\ todo' = [todo EXCEPT ![c] = @ \ {s}] /\ Send(ViewAt(current[c])[s], command)
  BY DEF detachOutputLease, publicationVars
<1>2. InstancesOK /\ CommandsOK
  BY DEF IInv
<1>3. command \in Command /\ command.type = "detach"
  BY DEF Command
<1> HIDE DEF command
<1>4. \A p \in Panes : commands'[p] = commands[p] \/ (commands'[p] = Append(commands[p], command) /\ CommandOwned(p, command))
  BY <1>1, <1>2, <1>3 DEF Send, CommandsOK, CommandOwned
<1>5. \A d \in Conns : todo'[d] \subseteq todo[d]
  BY <1>1, <1>2 DEF InstancesOK
<1> QED
  BY <1>1, <1>2, <1>3, <1>4, <1>5, SendsKeepOwners

\* Nobody is asked for a lease when none is owed.
LEMMA NobodyIsAsked ==
    ASSUME ReleasesOK, NEW c \in Conns, owed[c] = 0
    PROVE  \A p \in Panes : ~ToRelease(c, p)
<1>1. IsFiniteSet(Asked(c)) /\ Cardinality(Asked(c)) = 0
  BY FS_Subset DEF ReleasesOK, Asked
<1>2. Asked(c) = {}
  BY <1>1, FS_EmptySet
<1> QED
  BY <1>2 DEF Asked, ToRelease

\* The rest of a hand-off, and the end of an instance.
LEMMA HandoffsKeepOwners ==
    ASSUME IInv, HandoffInv, OwnerInv, NEW c \in Conns,
           receiveReleased(c) \/ bindStillPending(c) \/ installClientView(c)
             \/ detachClientInstance(c) \/ lifetimeDone(c)
    PROVE  OwnerInv'
<1> USE DEF handoffVars, publicationVars, workerVars
<1>1. /\ UNCHANGED <<issued, commands, stage, lease, intruded>>
      /\ InstancesOK /\ CommandsOK /\ ReleasesOK /\ SendersWait
  BY DEF IInv, HandoffInv, receiveReleased, bindStillPending, installClientView, detachClientInstance, lifetimeDone
<1>2. \A r : ViewAt(r)' = ViewAt(r)
  BY <1>1 DEF ViewAt
<1>3. LeaseHasOneOwner'
  BY <1>1 DEF OwnerInv, LeaseHasOneOwner
<1>4. CASE receiveReleased(c) \/ bindStillPending(c)
  <2>1. UNCHANGED <<instance, current, applying>> /\ instance[c] = "binding"
    BY <1>4 DEF receiveReleased, bindStillPending, AwaitsLeases
  <2>2. /\ \A d \in Conns : \A q, s : /\ Places(current[d], q, s)' <=> Places(current[d], q, s)
                                      /\ Places(applying[d], q, s)' <=> Places(applying[d], q, s)
        /\ \A d \in Conns : \A s : Vacant(d, s)' <=> Vacant(d, s)
    <3>1. \A d \in Conns : \A q, s : /\ Places(current[d], q, s)' <=> Places(current[d], q, s)
                                     /\ Places(applying[d], q, s)' <=> Places(applying[d], q, s)
      BY <1>1, <1>2, <2>1, PlacesStay
    <3> QED
      BY <1>1, <3>1 DEF Vacant, Uses
  <2>3. UsersKnown'
    BY <1>1, <2>1, <2>2 DEF OwnerInv, UsersKnown, Uses, ToRelease
  <2>4. QueuesOwned'
    <3> SUFFICES ASSUME NEW p \in Panes, stage[p] = "running", NEW i \in DOMAIN commands[p]
                 PROVE  CommandOwned(p, commands[p][i])'
      BY <1>1 DEF OwnerInv, QueuesOwned, ReleasesFirst, ToRelease
    <3>1. PICK command \in Command : command = commands[p][i]
      BY <1>1 DEF CommandsOK
    <3>2. CommandOwned(p, command)'
      BY <1>1, <2>1, <3>1, OwnedStays DEF OwnerInv, QueuesOwned
    <3> QED
      BY <1>1, <3>1, <3>2
  <2>5. \A d \in Conns : /\ \A s \in todo'[d] : instance[d] = "binding" => Vacant(d, s)
                         /\ \A i \in DOMAIN returned'[d] : Vacant(d, returned'[d][i])
                         /\ instance[d] # "binding" => returned'[d] = returned[d]
    <3>1. CASE receiveReleased(c)
      <4>1. returned[c] \in Seq(Slots) /\ returned[c] # <<>>
        BY <1>1, <3>1 DEF InstancesOK, receiveReleased
      <4>2. /\ \A d \in Conns : returned'[d] = IF d = c THEN Tail(returned[c]) ELSE returned[d]
            /\ \A d \in Conns : todo'[d] = IF d = c THEN {returned[c][1]} \cap SlotsOf(applying[c]) ELSE todo[d]
        BY <1>1, <3>1, <4>1, Rest DEF receiveReleased, InstancesOK
      <4>3. 1 \in DOMAIN returned[c] /\ \A i \in DOMAIN Tail(returned[c]) :
                i + 1 \in DOMAIN returned[c] /\ Tail(returned[c])[i] = returned[c][i + 1]
        BY <4>1, Rest
      <4> QED
        BY <2>1, <4>2, <4>3 DEF OwnerInv, SlotsVacant
    <3>2. CASE bindStillPending(c)
      <4>1. /\ UNCHANGED returned /\ owed[c] = 0
            /\ \A d \in Conns : todo'[d] = IF d = c THEN still[c] \cap SlotsOf(applying[c]) ELSE todo[d]
        BY <1>1, <3>2 DEF bindStillPending, UnreturnedSlots, InstancesOK
      <4>2. \A p \in Panes : ~ToRelease(c, p)
        BY <1>1, <4>1, NobodyIsAsked
      <4>3. still[c] \subseteq Slots
        BY <1>1 DEF InstancesOK
      <4>4. \A s \in still[c] : Vacant(c, s)
        BY <2>1, <4>2, <4>3 DEF Vacant, OwnerInv, UsersKnown
      <4> QED
        BY <4>1, <4>4 DEF OwnerInv, SlotsVacant
    <3> QED
      BY <1>4, <3>1, <3>2
  <2>6. SlotsVacant'
    BY <2>1, <2>2, <2>5 DEF OwnerInv, SlotsVacant
  <2> QED
    BY <1>3, <2>3, <2>4, <2>6 DEF OwnerInv
<1>5. CASE installClientView(c) \/ detachClientInstance(c) \/ lifetimeDone(c)
  <2>1. \A d \in Conns \ {c} : UNCHANGED <<instance[d], current[d], applying[d], todo[d]>>
    BY <1>1, <1>5 DEF installClientView, detachClientInstance, lifetimeDone, InstancesOK
  <2>2. /\ UNCHANGED returned /\ returned[c] = <<>> /\ instance[c] # "admitted"
        /\ instance'[c] \in {"serving", "detaching", "done"}
        /\ instance'[c] = "serving" => instance[c] = "binding" /\ owed[c] = 0 /\ current'[c] = applying[c]
    BY <1>1, <1>5 DEF installClientView, detachClientInstance, lifetimeDone, InstancesOK, OwnerInv, SlotsVacant, AwaitsLeases
  <2>3. \A d \in Conns \ {c} : \A q, s : /\ Places(current[d], q, s)' <=> Places(current[d], q, s)
                                         /\ Places(applying[d], q, s)' <=> Places(applying[d], q, s)
    <3> SUFFICES ASSUME NEW d \in Conns \ {c}
                 PROVE  \A q, s : /\ Places(current[d], q, s)' <=> Places(current[d], q, s)
                                  /\ Places(applying[d], q, s)' <=> Places(applying[d], q, s)
      OBVIOUS
    <3>1. ViewAt(current[d])' = ViewAt(current[d]) /\ ViewAt(applying[d])' = ViewAt(applying[d])
      BY <1>1, <2>1 DEF ViewAt
    <3> QED
      BY <3>1 DEF Places, SlotsOf
  <2>4. \A d \in Conns \ {c} : \A s : Vacant(d, s)' <=> Vacant(d, s)
    BY <1>1, <2>3 DEF Vacant, Uses
  <2>5. UsersKnown'
    <3> SUFFICES ASSUME NEW d \in Conns, NEW s \in Slots, NEW q \in Panes, Uses(q, <<d, s>>)
                 PROVE  /\ instance'[d] # "admitted"
                        /\ instance'[d] = "serving" => Places(current[d], q, s)' \/ <<d, s>> \in intruded
                        /\ instance'[d] = "binding" =>
                              ToRelease(d, q) \/ Places(applying[d], q, s)' \/ <<d, s>> \in intruded
      BY <1>1 DEF UsersKnown, Uses, ToRelease
    <3>1. /\ instance[d] # "admitted"
          /\ instance[d] = "serving" => Places(current[d], q, s) \/ <<d, s>> \in intruded
          /\ instance[d] = "binding" =>
                ToRelease(d, q) \/ Places(applying[d], q, s) \/ <<d, s>> \in intruded
      BY DEF OwnerInv, UsersKnown
    <3>2. CASE d # c
      BY <2>1, <2>3, <3>1, <3>2
    <3>3. CASE d = c
      <4>1. ASSUME instance'[c] = "serving" PROVE Places(current[c], q, s)' \/ <<c, s>> \in intruded
        <5>1. ~ToRelease(c, q) /\ (Places(applying[c], q, s) \/ <<c, s>> \in intruded)
          BY <1>1, <2>2, <3>1, <3>3, <4>1, NobodyIsAsked
        <5>2. ViewAt(current[c])' = ViewAt(applying[c])
          BY <1>1, <2>2, <4>1 DEF ViewAt
        <5> QED
          BY <5>1, <5>2 DEF Places, SlotsOf
      <4> QED
        BY <2>2, <3>3, <4>1
    <3> QED
      BY <3>2, <3>3
  <2>6. SlotsVacant'
    BY <1>1, <2>1, <2>2, <2>4 DEF OwnerInv, SlotsVacant
  <2>7. QueuesOwned'
    <3> SUFFICES ASSUME NEW p \in Panes, stage[p] = "running", NEW i \in DOMAIN commands[p], commands[p][i].type = "install"
                 PROVE  CommandOwned(p, commands[p][i])'
      BY <1>1 DEF OwnerInv, QueuesOwned, ReleasesFirst, ToRelease, CommandOwned
    <3>1. PICK command \in Command : command = commands[p][i]
      BY <1>1 DEF CommandsOK
    <3>2. command.conn \in Conns /\ CommandOwned(p, command)
      BY <3>1 DEF Command, OwnerInv, QueuesOwned
    <3>3. command.conn # c
      <4>1. instance[command.conn] = "binding"
        BY <1>1, <3>1 DEF SendersWait, At
      <4>2. instance[c] = "binding" => Idle(c)
        BY <1>5 DEF installClientView, AwaitsLeases, detachClientInstance, lifetimeDone
      <4> QED
        BY <3>1, <4>1, <4>2 DEF Idle
    <3>4. CommandOwned(p, command)'
      BY <2>3, <2>4, <3>2, <3>3 DEF CommandOwned
    <3> QED
      BY <1>1, <3>1, <3>4
  <2> QED
    BY <1>3, <2>5, <2>6, <2>7 DEF OwnerInv
<1> QED
  BY <1>4, <1>5

\* A client that starts a hand-off asks the running panes of its view for their leases.
LEMMA TransitionsKeepOwners ==
    ASSUME IInv, HandoffInv, OwnerInv, NEW c \in Conns, applyViewTransition(c)
    PROVE  OwnerInv'
<1>1. /\ UNCHANGED <<issued, current, stage, lease, intruded, returned>>
      /\ instance[c] = "serving"
  BY DEF applyViewTransition, publicationVars, handoffVars
<1>2. PICK r \in due[c] :
        IF r <= current[c]
          THEN UNCHANGED <<instance, handoffVars, commands>>
          ELSE /\ beginOutputHandoff(c)
               /\ todo' = [todo EXCEPT ![c] = FreshSlots(c, r)]
               /\ applying' = [applying EXCEPT ![c] = r]
               /\ instance' = [instance EXCEPT ![c] = "binding"]
  BY DEF applyViewTransition
<1>3. InstancesOK /\ CommandsOK /\ PublicationsOK
  BY DEF IInv
<1>4. \A q : ViewAt(q)' = ViewAt(q)
  BY <1>1 DEF ViewAt
<1>5. CASE r <= current[c]
  BY <1>1, <1>2, <1>3, <1>4, <1>5, OwnersStay DEF handoffVars, Returns
<1>6. CASE ~(r <= current[c])
  <2>1. /\ beginOutputHandoff(c) /\ instance'[c] = "binding" /\ todo'[c] = FreshSlots(c, r)
        /\ \A d \in Conns \ {c} : UNCHANGED <<instance[d], current[d], applying[d], todo[d]>>
        /\ current' = current
    BY <1>1, <1>2, <1>3, <1>6 DEF InstancesOK
  <2>2. PICK told \in SUBSET {p \in PanesOf(ViewAt(current[c])) : stage[p] # "exited"} :
           /\ {p \in PanesOf(ViewAt(current[c])) : stage[p] = "running"} \subseteq told
           /\ commands' = [p \in Panes |-> IF p \in told THEN Append(commands[p], [type |-> "release", conn |-> c])
                                           ELSE commands[p]]
    <3>1. PICK old : old = PanesOf(ViewAt(current[c]))
      OBVIOUS
    <3>2. \E told \in SUBSET {p \in old : stage[p] # "exited"} :
             /\ {p \in old : stage[p] = "running"} \subseteq told
             /\ commands' = [p \in Panes |-> IF p \in told THEN Append(commands[p], [type |-> "release", conn |-> c])
                                             ELSE commands[p]]
      BY <2>1, <3>1 DEF beginOutputHandoff
    <3> QED
      BY <3>1, <3>2
  <2>3. \A p \in Panes :
            /\ \A i \in DOMAIN commands[p] : i \in DOMAIN commands'[p] /\ commands'[p][i] = commands[p][i]
            /\ \A i \in DOMAIN commands'[p] :
                  \/ i \in DOMAIN commands[p] /\ commands'[p][i] = commands[p][i]
                  \/ p \in told /\ commands'[p][i] = [type |-> "release", conn |-> c]
            /\ p \in told => \E i \in DOMAIN commands'[p] : commands'[p][i] = [type |-> "release", conn |-> c]
    <3> DEFINE ask == [type |-> "release", conn |-> c]
    <3> SUFFICES ASSUME NEW p \in Panes
                 PROVE  /\ \A i \in DOMAIN commands[p] : i \in DOMAIN commands'[p] /\ commands'[p][i] = commands[p][i]
                        /\ \A i \in DOMAIN commands'[p] :
                              \/ i \in DOMAIN commands[p] /\ commands'[p][i] = commands[p][i]
                              \/ p \in told /\ commands'[p][i] = ask
                        /\ p \in told => \E i \in DOMAIN commands'[p] : commands'[p][i] = ask
      OBVIOUS
    <3>1. commands[p] \in Seq(Command) /\ ask \in Command
      BY <1>3 DEF CommandsOK, Command
    <3>2. commands'[p] = IF p \in told THEN Append(commands[p], ask) ELSE commands[p]
      BY <2>2
    <3> HIDE DEF ask
    <3> QED
      BY <3>1, <3>2, Appended
  <2>4. /\ \A d \in Conns : \A q, s : Places(current[d], q, s)' <=> Places(current[d], q, s)
        /\ \A d \in Conns \ {c} : \A q, s : Places(applying[d], q, s)' <=> Places(applying[d], q, s)
        /\ \A d \in Conns \ {c} : \A s : Vacant(d, s)' <=> Vacant(d, s)
    <3>1. \A d \in Conns : \A q, s : Places(current[d], q, s)' <=> Places(current[d], q, s)
      <4>1. \A d \in Conns : ViewAt(current[d])' = ViewAt(current[d])
        BY <1>4, <2>1
      <4> QED
        BY <4>1 DEF Places, SlotsOf
    <3>2. \A d \in Conns \ {c} : \A q, s : Places(applying[d], q, s)' <=> Places(applying[d], q, s)
      <4>1. \A d \in Conns \ {c} : ViewAt(applying[d])' = ViewAt(applying[d])
        BY <1>4, <2>1
      <4> QED
        BY <4>1 DEF Places, SlotsOf
    <3> QED
      BY <1>1, <3>1, <3>2 DEF Vacant, Uses
  <2>5. \A s \in Slots, q \in Panes : Uses(q, <<c, s>>) => Places(current[c], q, s) \/ <<c, s>> \in intruded
    BY <1>1 DEF OwnerInv, UsersKnown
  <2>6. LeaseHasOneOwner'
    BY <1>1 DEF OwnerInv, LeaseHasOneOwner
  <2>7. \A d \in Conns, q \in Panes : ToRelease(d, q) => ToRelease(d, q)'
    BY <2>3 DEF ToRelease, IsReleaseOf
  <2>8. UsersKnown'
    <3> SUFFICES ASSUME NEW d \in Conns, NEW s \in Slots, NEW q \in Panes, Uses(q, <<d, s>>)
                 PROVE  /\ instance'[d] # "admitted"
                        /\ instance'[d] = "serving" => Places(current[d], q, s)' \/ <<d, s>> \in intruded
                        /\ instance'[d] = "binding" =>
                              ToRelease(d, q)' \/ Places(applying[d], q, s)' \/ <<d, s>> \in intruded
      BY <1>1 DEF UsersKnown, Uses
    <3>1. CASE d # c
      BY <2>1, <2>4, <2>7, <3>1 DEF OwnerInv, UsersKnown
    <3>2. CASE d = c
      <4>1. ASSUME Places(current[c], q, s) PROVE ToRelease(c, q)'
        <5>1. q \in told
          BY <2>2, <3>2, <4>1 DEF Places, SlotsOf, PanesOf, Uses
        <5> QED
          BY <2>3, <5>1 DEF ToRelease, IsReleaseOf
      <4> QED
        BY <2>1, <2>5, <3>2, <4>1
    <3> QED
      BY <3>1, <3>2
  <2>9. SlotsVacant'
    <3>1. returned[c] = <<>>
      BY <1>1 DEF OwnerInv, SlotsVacant
    <3>2. \A s \in todo'[c] : Vacant(c, s)'
      <4> SUFFICES ASSUME NEW s \in SlotsOf(r) \ SlotsOf(current[c]), NEW q \in Panes, Uses(q, <<c, s>>)
                   PROVE  <<c, s>> \in intruded
        BY <1>1, <2>1 DEF Vacant, Uses, FreshSlots
      <4>1. s \in Slots
        BY <1>3, RevisionHasSlots DEF InstancesOK, Revisions
      <4> QED
        BY <2>5, <4>1 DEF Places
    <3> QED
      BY <1>1, <2>1, <2>4, <3>1, <3>2 DEF OwnerInv, SlotsVacant
  <2>10. QueuesOwned'
    <3> SUFFICES ASSUME NEW p \in Panes, stage[p] = "running"
                 PROVE  /\ \A i \in DOMAIN commands'[p] : CommandOwned(p, commands[p][i])'
                        /\ ReleasesFirst(commands[p])'
                        /\ \A d \in Conns : ToRelease(d, p)' => lease'[p] = None \/ lease'[p][1] = d
      BY <1>1 DEF QueuesOwned
    <3>1. \A i \in DOMAIN commands[p] : commands[p][i].type = "detach"
      BY <1>1, <1>3, ServingIsQuiet
    <3>2. \A i \in DOMAIN commands'[p] : commands'[p][i].type # "install"
      BY <2>3, <3>1
    <3>3. ASSUME NEW d \in Conns, ToRelease(d, p)' PROVE lease[p] = None \/ lease[p][1] = d
      <4>1. d = c /\ p \in told
        BY <2>3, <3>1, <3>3 DEF ToRelease, IsReleaseOf
      <4>2. PICK s \in SlotsOf(current[c]) : ViewAt(current[c])[s] = p
        BY <2>2, <4>1 DEF PanesOf, SlotsOf
      <4>3. Has(p, <<c, s>>)
        BY <1>1, <4>2 DEF HandoffInv, SlotsHeld, Installed
      <4> QED
        BY <4>1, <4>3 DEF Has
    <3> QED
      BY <1>1, <3>2, <3>3 DEF CommandOwned, ReleasesFirst
  <2> QED
    BY <2>6, <2>8, <2>9, <2>10 DEF OwnerInv
<1> QED
  BY <1>5, <1>6

\* A pane that was stopped runs what it was sent: it answers a release with the lease it
\* has, which another pane may have received since.
LEMMA StoppedRunsKeepOwners ==
    ASSUME IInv, OwnerInv, NEW p \in Panes, runCommand(p), stage[p] # "running"
    PROVE  OwnerInv'
<1>1. /\ commands[p] # <<>> /\ commands' = [commands EXCEPT ![p] = Tail(@)]
      /\ UNCHANGED <<issued, instance, current, applying, todo, stage>>
      /\ InstancesOK /\ CommandsOK /\ PublicationsOK /\ ReleasesOK
  BY DEF IInv, runCommand
<1>2. PICK command \in Command : command = Head(commands[p]) /\ command = commands[p][1] /\ 1 \in DOMAIN commands[p]
  BY <1>1, Rest DEF CommandsOK
<1>3. \/ command.type = "install" /\ runInstall(p, command)
      \/ command.type = "release" /\ runRelease(p, command)
      \/ command.type = "detach" /\ runDetach(p, command)
  BY <1>2 DEF runCommand
<1>4. \A q \in Panes \ {p} : commands'[q] = commands[q] /\ lease'[q] = lease[q]
  BY <1>1, <1>3 DEF runInstall, runRelease, runDetach, Forget, PublicationsOK, CommandsOK, publicationVars
<1>5. intruded \subseteq intruded'
  BY <1>3 DEF runInstall, runRelease, runDetach
<1>6. ASSUME NEW c \in Conns PROVE Returns(c)
  <2>1. CASE returned'[c] = returned[c]
    BY <2>1 DEF Returns
  <2>2. CASE returned'[c] # returned[c]
    <3>1. command.type = "release" /\ runRelease(p, command)
      BY <1>3, <2>2 DEF runInstall, runDetach
    <3>2. /\ command.conn = c /\ lease[p] # None
          /\ returned'[c] = Append(returned[c], lease[p][2])
      BY <1>1, <2>2, <3>1 DEF runRelease, InstancesOK
    <3>3. lease[p][2] \in Slots
      BY <1>1, <3>2 DEF PublicationsOK, Leases
    <3>4. \A i \in DOMAIN returned'[c] :
              \/ i \in DOMAIN returned[c] /\ returned'[c][i] = returned[c][i] /\ returned'[c][i] \in Slots
              \/ returned'[c][i] = lease[p][2]
      <4>1. returned[c] \in Seq(Slots)
        BY <1>1 DEF InstancesOK
      <4> QED
        BY <3>2, <3>3, <4>1, Appended
    <3>5. ASSUME NEW i \in DOMAIN returned'[c], returned'[c][i] = lease[p][2] PROVE Vacant(c, returned[c][i])'
      <4> SUFFICES ASSUME NEW q \in Panes, stage[q] = "running", lease'[q] = <<c, lease[p][2]>>
                   PROVE  <<c, lease[p][2]>> \in intruded'
        BY <1>1, <3>5 DEF Vacant, Uses
      <4>1. q # p /\ lease[q] = <<c, lease[p][2]>>
        BY <1>4
      <4>2. <<c, lease[p][2]>> \in OtherLeases(p)
        BY <3>3, <4>1 DEF OtherLeases, Leases
      <4> QED
        BY <3>1, <3>2, <4>2 DEF runRelease
    <3>6. instance[c] = "binding"
      <4>1. ToRelease(c, p)
        BY <1>2, <3>1, <3>2 DEF ToRelease, IsReleaseOf
      <4> QED
        BY <1>1, <4>1, NobodyIsAsked DEF ReleasesOK
    <3> QED
      BY <3>3, <3>4, <3>5, <3>6 DEF Returns
  <2> QED
    BY <2>1, <2>2
<1> QED
  BY <1>1, <1>4, <1>5, <1>6, OwnersStay DEF ViewAt

\* A running pane runs what it was sent: an installation gives it a vacant lease, a
\* release gives up the one lease there is, a detach takes one away.
LEMMA RunningRunsKeepOwners ==
    ASSUME IInv, HandoffInv, OwnerInv, NEW p \in Panes, runCommand(p), stage[p] = "running"
    PROVE  OwnerInv'
<1>1. /\ commands[p] # <<>> /\ commands' = [commands EXCEPT ![p] = Tail(@)]
      /\ UNCHANGED <<issued, instance, current, applying, todo, stage>>
      /\ InstancesOK /\ CommandsOK /\ PublicationsOK /\ SendersWait
  BY DEF IInv, HandoffInv, runCommand
<1>2. PICK command \in Command : command = Head(commands[p]) /\ command = commands[p][1] /\ 1 \in DOMAIN commands[p]
  BY <1>1, Rest DEF CommandsOK
<1>3. \/ command.type = "install" /\ runInstall(p, command)
      \/ command.type = "release" /\ runRelease(p, command)
      \/ command.type = "detach" /\ runDetach(p, command)
  BY <1>2 DEF runCommand
<1>4. \A q \in Panes \ {p} : commands'[q] = commands[q] /\ lease'[q] = lease[q]
  BY <1>1, <1>3 DEF runInstall, runRelease, runDetach, Forget, PublicationsOK, CommandsOK, publicationVars
<1>5. intruded' = intruded
  BY <1>3 DEF runInstall, runRelease, runDetach
<1>6. /\ command.conn \in Conns /\ (command.type # "detach" => instance[command.conn] = "binding")
      /\ CommandOwned(p, command) /\ ReleasesFirst(commands[p])
      /\ \A c \in Conns : ToRelease(c, p) => lease[p] = None \/ lease[p][1] = c
  BY <1>1, <1>2 DEF SendersWait, At, Command, OwnerInv, QueuesOwned
<1>7. /\ commands'[p] = Tail(commands[p])
      /\ \A i \in DOMAIN commands'[p] : i \in Nat /\ i + 1 \in DOMAIN commands[p] /\ commands'[p][i] = commands[p][i + 1]
      /\ \A i \in DOMAIN commands[p] : i # 1 => i - 1 \in DOMAIN commands'[p] /\ commands'[p][i - 1] = commands[p][i]
  <2>1. commands[p] \in Seq(Command) /\ commands'[p] = Tail(commands[p])
    BY <1>1 DEF CommandsOK
  <2>2. /\ \A i \in DOMAIN Tail(commands[p]) : i \in Nat /\ i + 1 \in DOMAIN commands[p] /\ Tail(commands[p])[i] = commands[p][i + 1]
        /\ \A i \in DOMAIN commands[p] : i # 1 => i - 1 \in DOMAIN Tail(commands[p]) /\ Tail(commands[p])[i - 1] = commands[p][i]
    BY <1>1, <2>1, Rest
  <2> QED
    BY <2>1, <2>2
<1>8. \A c \in Conns : \A q, s : /\ Places(current[c], q, s)' <=> Places(current[c], q, s)
                                 /\ Places(applying[c], q, s)' <=> Places(applying[c], q, s)
  <2>1. \A r : ViewAt(r)' = ViewAt(r)
    BY <1>1 DEF ViewAt
  <2> QED
    BY <1>1, <2>1, PlacesStay
<1>9. lease'[p] = IF command.type = "install" THEN <<command.conn, command.slot>>
                  ELSE IF command.type = "release" \/ Detaches(p, command) THEN None ELSE lease[p]
  BY <1>1, <1>3 DEF runInstall, runRelease, runDetach, Forget, PublicationsOK, publicationVars
<1>10. command.type = "install" =>
          /\ Places(applying[command.conn], p, command.slot) /\ Vacant(command.conn, command.slot)
          /\ command.slot \in Slots /\ instance[command.conn] = "binding"
          /\ \A c \in Conns : ~ToRelease(c, p)
  <2>1. command.type = "install" => \A c \in Conns : ~ToRelease(c, p)
    <3> SUFFICES ASSUME command.type = "install", NEW i \in DOMAIN commands[p], commands[p][i].type = "release"
                 PROVE  FALSE
      BY DEF ToRelease, IsReleaseOf
    <3>1. i < 1
      BY <1>2, <1>6 DEF ReleasesFirst
    <3>2. i >= 1
      <4>1. commands[p] \in Seq(Command)
        BY <1>1 DEF CommandsOK
      <4> QED
        BY <4>1
    <3>3. i \in Nat
      <4>1. commands[p] \in Seq(Command)
        BY <1>1 DEF CommandsOK
      <4> QED
        BY <4>1
    <3> QED
      BY <3>1, <3>2, <3>3
  <2> QED
    BY <1>6, <2>1 DEF CommandOwned, Command
<1>11. \A q \in Panes, c \in Conns, s \in Slots : Uses(q, <<c, s>>)' =>
          \/ Uses(q, <<c, s>>) /\ (q = p => command.type = "detach")
          \/ q = p /\ command.type = "install" /\ command.conn = c /\ command.slot = s
  <2>1. \A c \in Conns, s \in Slots : <<c, s>> # None
    BY DEF Leases
  <2> QED
    BY <1>1, <1>3, <1>4, <1>9, <2>1 DEF Uses
<1>12. LeaseHasOneOwner'
  <2> SUFFICES ASSUME NEW a \in Panes, NEW b \in Panes, a # b, stage[a] = "running", stage[b] = "running",
                      lease'[a] # None, lease'[a] \notin intruded, lease'[a] = lease'[b]
               PROVE  FALSE
    BY <1>1, <1>5 DEF LeaseHasOneOwner
  <2>1. ASSUME NEW q \in Panes \ {p}, stage[q] = "running", lease'[q] = lease'[p]
        PROVE  lease'[p] = None \/ lease'[p] \in intruded
    <3>1. lease[q] = lease'[p]
      BY <1>4, <2>1
    <3>2. CASE command.type = "install"
      <4>1. Uses(q, <<command.conn, command.slot>>)
        BY <1>9, <2>1, <3>1, <3>2 DEF Uses
      <4> QED
        BY <1>9, <1>10, <2>1, <3>2, <4>1 DEF Vacant, Places
    <3>3. CASE command.type # "install"
      BY <1>9, <2>1, <3>1, <3>3 DEF OwnerInv, LeaseHasOneOwner
    <3> QED
      BY <3>2, <3>3
  <2>2. a # p /\ b # p
    BY <2>1
  <2> QED
    BY <1>4, <2>2 DEF OwnerInv, LeaseHasOneOwner
<1>13. \A c \in Conns, s \in Slots : Vacant(c, s) => Vacant(c, s)'
  <2> SUFFICES ASSUME NEW c \in Conns, NEW s \in Slots, Vacant(c, s) PROVE Vacant(c, s)'
    OBVIOUS
  <2>1. \A q \in Panes : Places(applying[c], q, s)' <=> Places(applying[c], q, s)
    BY <1>8
  <2>2. \A q \in Panes : Uses(q, <<c, s>>)' => Uses(q, <<c, s>>) \/ Places(applying[c], q, s)
    BY <1>10, <1>11
  <2> QED
    BY <1>5, <2>1, <2>2, VacancyStays
<1>14. /\ \A c \in Conns, q \in Panes \ {p} : ToRelease(c, q)' <=> ToRelease(c, q)
       /\ \A c \in Conns : /\ ToRelease(c, p)' => ToRelease(c, p)
                           /\ ToRelease(c, p) => ToRelease(c, p)' \/ command.type = "release"
  <2>1. \A c \in Conns, q \in Panes \ {p} : ToRelease(c, q)' <=> ToRelease(c, q)
    BY <1>4 DEF ToRelease
  <2>2. \A c \in Conns : ToRelease(c, p)' => ToRelease(c, p)
    BY <1>7 DEF ToRelease
  <2>3. ASSUME NEW c \in Conns, ToRelease(c, p), command.type # "release" PROVE ToRelease(c, p)'
    <3>1. PICK i \in DOMAIN commands[p] : IsReleaseOf(commands[p][i], c)
      BY <2>3 DEF ToRelease
    <3>2. i # 1
      BY <1>2, <2>3, <3>1 DEF IsReleaseOf
    <3> QED
      BY <1>7, <3>1, <3>2 DEF ToRelease
  <2> QED
    BY <2>1, <2>2, <2>3
<1>15. UsersKnown'
  <2> SUFFICES ASSUME NEW c \in Conns, NEW s \in Slots, NEW q \in Panes, Uses(q, <<c, s>>)'
               PROVE  /\ instance[c] # "admitted"
                      /\ instance[c] = "serving" => Places(current[c], q, s) \/ <<c, s>> \in intruded
                      /\ instance[c] = "binding" =>
                            ToRelease(c, q)' \/ Places(applying[c], q, s) \/ <<c, s>> \in intruded
    BY <1>1, <1>5, <1>8 DEF UsersKnown
  <2>1. CASE Uses(q, <<c, s>>) /\ (q = p => command.type = "detach")
    BY <1>14, <2>1 DEF OwnerInv, UsersKnown
  <2>2. CASE q = p /\ command.type = "install" /\ command.conn = c /\ command.slot = s
    BY <1>10, <2>2
  <2> QED
    BY <1>11, <2>1, <2>2
<1>16. SlotsVacant'
  <2>1. \A c \in Conns : todo[c] \subseteq Slots /\ \A i \in DOMAIN returned[c] : returned[c][i] \in Slots
    BY <1>1 DEF InstancesOK
  <2>2. CASE \A c \in Conns : returned'[c] = returned[c]
    <3>1. ASSUME NEW c \in Conns, NEW i \in DOMAIN returned'[c] PROVE Vacant(c, returned[c][i])'
      <4>1. PICK s \in Slots : s = returned[c][i] /\ s = returned'[c][i] /\ Vacant(c, s)
        BY <2>1, <2>2, <3>1 DEF OwnerInv, SlotsVacant
      <4>2. Vacant(c, s)'
        BY <1>13, <4>1
      <4> QED
        BY <4>1, <4>2 DEF Vacant
    <3> QED
      BY <1>1, <1>13, <2>1, <2>2, <3>1 DEF OwnerInv, SlotsVacant
  <2>3. CASE ~ \A c \in Conns : returned'[c] = returned[c]
    <3>1. command.type = "release" /\ runRelease(p, command) /\ lease[p] # None
      BY <1>1, <1>3, <2>3 DEF runInstall, runRelease, runDetach, InstancesOK
    <3>2. ToRelease(command.conn, p) /\ instance[command.conn] = "binding"
      BY <1>2, <1>6, <3>1 DEF ToRelease, IsReleaseOf
    <3>3. PICK t \in Slots : lease[p] = <<command.conn, t>>
      BY <1>1, <1>6, <3>1, <3>2 DEF PublicationsOK, Leases
    <3>4. Vacant(command.conn, t)'
      <4> SUFFICES ASSUME NEW q \in Panes, Uses(q, <<command.conn, t>>)'
                   PROVE  lease[p] \in intruded
        BY <1>5, <3>3 DEF Vacant
      <4>1. q # p /\ Uses(q, <<command.conn, t>>)
        BY <1>6, <1>11, <3>1
      <4> QED
        BY <3>1, <3>3, <4>1 DEF Uses, OwnerInv, LeaseHasOneOwner
    <3>5. \A c \in Conns : returned'[c] = IF c = command.conn THEN Append(returned[c], t) ELSE returned[c]
      BY <1>1, <3>1, <3>3 DEF runRelease, InstancesOK
    <3>6. \A c \in Conns : \A i \in DOMAIN returned'[c] :
             \/ i \in DOMAIN returned[c] /\ returned'[c][i] = returned[c][i]
             \/ c = command.conn /\ returned'[c][i] = t
      <4> SUFFICES ASSUME NEW c \in Conns
                   PROVE  \A i \in DOMAIN returned'[c] :
                             \/ i \in DOMAIN returned[c] /\ returned'[c][i] = returned[c][i]
                             \/ c = command.conn /\ returned'[c][i] = t
        OBVIOUS
      <4>1. returned[c] \in Seq(Slots)
        BY <1>1 DEF InstancesOK
      <4>2. CASE c = command.conn
        <5>1. /\ \A i \in DOMAIN returned[c] : Append(returned[c], t)[i] = returned[c][i]
              /\ \A i \in DOMAIN Append(returned[c], t) : i \in DOMAIN returned[c] \/ Append(returned[c], t)[i] = t
          BY <4>1, Appended
        <5>2. returned'[c] = Append(returned[c], t)
          BY <3>5, <4>2
        <5> QED
          BY <4>2, <5>1, <5>2
      <4> QED
        BY <3>5, <4>2
    <3>7. ASSUME NEW c \in Conns, NEW i \in DOMAIN returned'[c] PROVE Vacant(c, returned[c][i])'
      <4>1. CASE i \in DOMAIN returned[c] /\ returned'[c][i] = returned[c][i]
        <5>1. PICK s \in Slots : s = returned[c][i] /\ s = returned'[c][i] /\ Vacant(c, s)
          BY <2>1, <4>1 DEF OwnerInv, SlotsVacant
        <5>2. Vacant(c, s)'
          BY <1>13, <5>1
        <5> QED
          BY <5>1, <5>2 DEF Vacant
      <4>2. CASE c = command.conn /\ returned'[c][i] = t
        BY <3>4, <4>2 DEF Vacant
      <4> QED
        BY <3>6, <3>7, <4>1, <4>2
    <3>8. \A c \in Conns : instance'[c] # "binding" => returned'[c] = <<>>
      BY <1>1, <3>2, <3>5 DEF OwnerInv, SlotsVacant
    <3> QED
      BY <1>1, <1>13, <2>1, <3>7, <3>8 DEF OwnerInv, SlotsVacant
  <2> QED
    BY <2>2, <2>3
<1>17. ASSUME NEW q \in Panes, NEW x \in Command, CommandOwned(q, x) PROVE CommandOwned(q, x)'
  <2>1. x.type = "install" => x.conn \in Conns /\ x.slot \in Slots
    BY DEF Command
  <2> QED
    BY <1>8, <1>13, <1>17, <2>1 DEF CommandOwned
<1>18. QueuesOwned'
  <2> SUFFICES ASSUME NEW q \in Panes, stage[q] = "running"
               PROVE  /\ \A i \in DOMAIN commands'[q] : CommandOwned(q, commands[q][i])'
                      /\ ReleasesFirst(commands[q])'
                      /\ \A c \in Conns : ToRelease(c, q)' => lease'[q] = None \/ lease'[q][1] = c
    BY <1>1 DEF QueuesOwned
  <2>1. /\ \A i \in DOMAIN commands[q] : CommandOwned(q, commands[q][i])
        /\ ReleasesFirst(commands[q])
        /\ \A c \in Conns : ToRelease(c, q) => lease[q] = None \/ lease[q][1] = c
    BY DEF OwnerInv, QueuesOwned
  <2>2. ASSUME NEW i \in DOMAIN commands'[q] PROVE CommandOwned(q, commands[q][i])'
    <3>1. PICK j \in DOMAIN commands[q] : commands'[q][i] = commands[q][j]
      <4>1. CASE q = p
        BY <1>7, <2>2, <4>1
      <4> QED
        BY <1>4, <2>2, <4>1
    <3>2. PICK x \in Command : x = commands[q][j]
      BY <1>1 DEF CommandsOK
    <3>3. CommandOwned(q, x)'
      BY <1>17, <2>1, <3>2
    <3> QED
      BY <3>1, <3>2, <3>3
  <2>3. ReleasesFirst(commands'[q])
    <3>1. CASE q # p
      BY <1>4, <2>1, <3>1
    <3>2. CASE q = p
      <4> SUFFICES ASSUME NEW i \in DOMAIN commands'[p], NEW j \in DOMAIN commands'[p],
                          commands'[p][i].type = "install", commands'[p][j].type = "release"
                   PROVE  j < i
        BY <3>2 DEF ReleasesFirst
      <4>1. i \in Nat /\ j \in Nat /\ j + 1 < i + 1
        BY <1>7, <2>1, <3>2 DEF ReleasesFirst
      <4> QED
        BY <4>1
    <3> QED
      BY <3>1, <3>2
  <2>4. \A c \in Conns : ToRelease(c, q)' => lease'[q] = None \/ lease'[q][1] = c
    <3>1. CASE q # p
      BY <1>4, <1>14, <2>1, <3>1
    <3>2. CASE q = p
      BY <1>3, <1>9, <1>10, <1>14, <2>1, <3>2
    <3> QED
      BY <3>1, <3>2
  <2> QED
    BY <2>2, <2>3, <2>4 DEF ReleasesFirst
<1> QED
  BY <1>12, <1>15, <1>16, <1>18 DEF OwnerInv

\* No two running panes publish through the same stream (ClientInstance.
\* beginOutputHandoff, finishOutputHandoff and panePublicationState.release) for any
\* panes, views and transports of a session that shares no window: whatever is moved from
\* slot to slot, returned late, lost with a pane or left by the client before, a lease has
\* one running owner, but for one that a stopped pane has published through, or answered
\* a release with, after another had received it.
THEOREM LeasesHaveOneOwner ==
    ASSUME Ungrouped
    PROVE  Spec => []LeaseHasOneOwner
<1>1. Init => IInv /\ PInv /\ HandoffInv /\ OwnerInv
  <2> SUFFICES ASSUME Init PROVE IInv /\ PInv /\ HandoffInv /\ OwnerInv
    OBVIOUS
  <2>1. IInv /\ PInv /\ HandoffInv
    BY InitHasNoLeases
  <2>2. /\ \A c \in Conns : instance[c] = "admitted" /\ returned[c] = <<>>
        /\ \A p \in Panes : commands[p] = <<>> /\ lease[p] = None
    BY DEF Init
  <2>3. \A q \in Panes, c \in Conns, s \in Slots : ~Uses(q, <<c, s>>)
    <3>1. \A c \in Conns, s \in Slots : <<c, s>> # None
      BY DEF Leases
    <3> QED
      BY <2>2, <3>1 DEF Uses
  <2>4. QueuesOwned
    BY <2>2 DEF QueuesOwned, ReleasesFirst, ToRelease
  <2> QED
    BY <2>1, <2>2, <2>3, <2>4 DEF OwnerInv, LeaseHasOneOwner, UsersKnown, SlotsVacant
<1>2. (IInv /\ PInv /\ HandoffInv /\ OwnerInv) /\ [Next]_vars => (IInv /\ PInv /\ HandoffInv /\ OwnerInv)'
  <2> SUFFICES ASSUME IInv, PInv, HandoffInv, OwnerInv, [Next]_vars
               PROVE  (IInv /\ PInv /\ HandoffInv)' /\ OwnerInv'
    OBVIOUS
  <2>1. (IInv /\ PInv /\ HandoffInv)'
    BY StepKeepsLeases, Ungrouped
  <2>2. ASSUME DaemonStep PROVE OwnerInv'
    BY <2>2, ProjectionsKeepOwners, OthersKeepOwners, Ungrouped DEF DaemonStep
  <2>3. ASSUME NEW c \in Conns, InstanceProgress(c) \/ transportLost(c) \/ detachClientInstance(c) PROVE OwnerInv'
    <3>1. DueFits
      BY DEF PInv, FitInv
    <3> QED
      BY <2>3, <3>1, TransitionsKeepOwners, InstallationsKeepOwners, DetachmentsKeepOwners, HandoffsKeepOwners,
         OthersKeepOwners DEF InstanceProgress
  <2>4. ASSUME NEW p \in Panes, PaneLoop(p) PROVE OwnerInv'
    BY <2>4, StoppedRunsKeepOwners, RunningRunsKeepOwners, OthersKeepOwners DEF PaneLoop
  <2>5. ASSUME NEW l \in Leases, runConfirmer(l) PROVE OwnerInv'
    BY <2>5, OthersKeepOwners
  <2>6. ASSUME UNCHANGED vars PROVE OwnerInv'
    BY <2>6, OthersKeepOwners
  <2> QED
    BY <2>1, <2>2, <2>3, <2>4, <2>5, <2>6 DEF Next
<1>3. OwnerInv => LeaseHasOneOwner
  BY DEF OwnerInv
<1> QED
  BY <1>1, <1>2, <1>3, PTL DEF Spec
=============================================================================
