------------------------ MODULE ProcessMonitorProofs ------------------------
(***************************************************************************)
(* Theorems about ProcessMonitor, for any panes, sessions and groups, any     *)
(* sizes of the two queues, and whatever happens how often outside: the        *)
(* queues keep their bounds, and no pane is silenced by a hint that was lost.  *)
(***************************************************************************)
EXTENDS ProcessMonitor, FiniteSetTheorems, SequenceTheorems, TLAPS

USE ProcessMonitorAssumption

-----------------------------------------------------------------------------
(* The inductive invariant *)

Command ==
    [type : {"watch", "drop"}, session : Sessions, pane : Panes \cup {None}]
    \cup [type : {"unwatch", "activity"}, session : {None}, pane : Panes]
    \cup [type : {"transfer"}, session : Sessions, pane : Sessions]

MailboxOK ==
    /\ commands \in Seq(Command) /\ Len(commands) <= MailboxSize
    /\ \A i \in DOMAIN commands : commands[i].type = "watch" => commands[i].pane \in Panes

RequestsOK ==
    /\ requests \in Seq(ToSet(requests)) /\ Len(requests) <= RequestsSize
    /\ \A r \in ToSet(requests) : r.pane \in Panes

\* Those who may write to the mailbox.
WritersOK ==
    /\ members \subseteq Sessions
    /\ starting \in [Panes -> Sessions \cup {None}]
    /\ restoring \in Seq([pane : Panes, session : Sessions])
    /\ plans \subseteq [from : Sessions, to : Sessions \cup {None}]
    /\ tombstones \subseteq Panes /\ worker \in Panes \cup {"sleeps", "takes"}

IsWatch(w) ==
    /\ w = [session |-> w.session, armed |-> w.armed, holdsEdge |-> w.holdsEdge,
            fingerprint |-> w.fingerprint, observation |-> w.observation]
    /\ w.session \in Sessions /\ w.armed \subseteq Timers /\ w.holdsEdge \in BOOLEAN

WatchesOK ==
    /\ watches = [p \in DOMAIN watches |-> watches[p]]
    /\ DOMAIN watches \subseteq Panes
    /\ \A p \in DOMAIN watches : IsWatch(watches[p])

\* What the monitor is about, it watches; when it takes commands it is about nothing.
MonitorOK ==
    /\ monitor = [pc |-> monitor.pc, batch |-> monitor.batch, pending |-> monitor.pending,
                  attempt |-> monitor.attempt, snapshot |-> monitor.snapshot,
                  results |-> monitor.results, deliveries |-> monitor.deliveries]
    /\ monitor.pc \in {"selects", "scans", "reads", "compares", "ends", "delivers"}
    /\ monitor.pending \subseteq monitor.batch
    /\ monitor.batch \cup monitor.deliveries \subseteq DOMAIN watches
    /\ monitor.pc \in {"selects", "delivers"} => monitor.batch = {}
    /\ monitor.pc = "selects" => monitor.deliveries = {}

BudgetOK ==
    /\ budget \in Budgets /\ budget.panes \cap budget.restored = {}
    /\ edge \in [Panes -> BOOLEAN]
    /\ DOMAIN process = Panes

TypeInv == MailboxOK /\ RequestsOK /\ WritersOK /\ WatchesOK /\ MonitorOK /\ BudgetOK

\* A pane that has yet to be started gives no hints, and none of it is on its way.
Uncreated(p) == p \in budget.panes \cup budget.restored
Unstarted(p) ==
    \/ Uncreated(p) \/ starting[p] # None
    \/ \E i \in DOMAIN restoring : restoring[i].pane = p

HoldsEdge(p) == p \in DOMAIN watches /\ watches[p].holdsEdge
HintFree(p) ==
    /\ ~edge[p] /\ ~HoldsEdge(p)
    /\ \A i \in DOMAIN commands : commands[i] # ActivityCommand(p)

NothingUnstartedHints ==
    \A p \in Panes : /\ Unstarted(p) => HintFree(p)
                     /\ Uncreated(p) => ~Running(p)

\* The hints of a pane follow the watch that is to take them: a new watch replaces none
\* that holds an edge.
WatchComesFirst ==
    \A i \in DOMAIN commands : commands[i].type = "watch" =>
        /\ ~HoldsEdge(commands[i].pane)
        /\ \A j \in DOMAIN commands : commands[j] = ActivityCommand(commands[i].pane) => i < j

HintInv == NothingUnstartedHints /\ WatchComesFirst /\ EdgeIsReleased

IInv == TypeInv /\ HintInv

-----------------------------------------------------------------------------
(* The queues *)

\* A sequence is one of its own elements.
LEMMA SequenceOfItsElements ==
    ASSUME NEW S, NEW q \in Seq(S)
    PROVE  q \in Seq(ToSet(q)) /\ ToSet(q) \subseteq S
<1>1. q \in [1 .. Len(q) -> S] /\ Len(q) \in Nat
  OBVIOUS
<1>2. q \in [1 .. Len(q) -> ToSet(q)]
  BY <1>1 DEF ToSet
<1>3. q \in Seq(ToSet(q))
  BY <1>1, <1>2, SeqDef
<1> QED
  BY <1>1, <1>3 DEF ToSet

\* The first element of a sequence and the others.
LEMMA HeadAndTail ==
    ASSUME NEW S, NEW q \in Seq(S), q # <<>>
    PROVE  /\ Head(q) \in S /\ Head(q) = q[1] /\ 1 \in DOMAIN q /\ Tail(q) \in Seq(S)
           /\ \A i \in DOMAIN Tail(q) : i + 1 \in DOMAIN q /\ Tail(q)[i] = q[i + 1]
<1>1. Len(q) \in Nat /\ Len(q) > 0 /\ DOMAIN q = 1 .. Len(q)
  OBVIOUS
<1>2. Tail(q) \in Seq(S) /\ Len(Tail(q)) = Len(q) - 1 /\ \A i \in 1 .. Len(Tail(q)) : Tail(q)[i] = q[i + 1]
  BY HeadTailProperties
<1>3. DOMAIN Tail(q) = 1 .. Len(q) - 1
  BY <1>1, <1>2
<1> QED
  BY <1>1, <1>2, <1>3

\* A request about a pane may be queued while there is room.
LEMMA AppendedRequest ==
    ASSUME RequestsOK, NEW r, r.pane \in Panes, RequestsHaveRoom, requests' = Append(requests, r)
    PROVE  RequestsOK'
<1> DEFINE S == ToSet(requests) \cup {r}
<1>1. requests \in Seq(S) /\ r \in S /\ \A x \in S : x.pane \in Panes
  BY SeqMonotonic DEF RequestsOK
<1> HIDE DEF S
<1>2. requests' \in Seq(S) /\ Len(requests') = Len(requests) + 1
  BY <1>1
<1>3. requests' \in Seq(ToSet(requests')) /\ ToSet(requests') \subseteq S
  BY <1>2, SequenceOfItsElements
<1>4. Len(requests') <= RequestsSize
  BY <1>1, <1>2 DEF RequestsHaveRoom
<1> QED
  BY <1>1, <1>3, <1>4 DEF RequestsOK

\* A request is taken.
LEMMA TakenRequest ==
    ASSUME RequestsOK, requests # <<>>, requests' = Tail(requests)
    PROVE  RequestsOK' /\ Head(requests).pane \in Panes
<1>1. Tail(requests) \in Seq(ToSet(requests)) /\ Len(Tail(requests)) = Len(requests) - 1
  BY HeadTailProperties DEF RequestsOK
<1>2. Head(requests) \in ToSet(requests)
  BY HeadTailProperties DEF RequestsOK
<1>3. requests' \in Seq(ToSet(requests')) /\ ToSet(requests') \subseteq ToSet(requests)
  BY <1>1, SequenceOfItsElements
<1>4. Len(requests') <= RequestsSize
  BY <1>1 DEF RequestsOK
<1> QED
  BY <1>2, <1>3, <1>4 DEF RequestsOK

\* The commands that are sent.
LEMMA CommandsAreCommands ==
    /\ \A s \in Sessions, p \in Panes : WatchCommand(s, p) \in Command
    /\ \A p \in Panes : UnwatchCommand(p) \in Command /\ ActivityCommand(p) \in Command
    /\ \A s \in Sessions : DropCommand(s) \in Command
    /\ \A s, to \in Sessions : TransferCommand(s, to) \in Command
BY DEF Command, WatchCommand, UnwatchCommand, ActivityCommand, DropCommand, TransferCommand

\* A command is appended while there is room.
LEMMA AppendedCommand ==
    ASSUME MailboxOK, NEW c \in Command, c.type = "watch" => c.pane \in Panes,
           MailboxHasRoom, commands' = Append(commands, c)
    PROVE  /\ MailboxOK'
           /\ DOMAIN commands' = 1 .. Len(commands) + 1
           /\ \A i \in DOMAIN commands : i \in DOMAIN commands' /\ commands'[i] = commands[i]
           /\ commands'[Len(commands) + 1] = c
<1>1. commands \in Seq(Command) /\ Len(commands) \in Nat /\ DOMAIN commands = 1 .. Len(commands)
  BY DEF MailboxOK
<1>2. commands' \in Seq(Command) /\ Len(commands') = Len(commands) + 1
  BY <1>1
<1>3. /\ DOMAIN commands' = 1 .. Len(commands) + 1
      /\ \A i \in DOMAIN commands : i \in DOMAIN commands' /\ commands'[i] = commands[i]
      /\ commands'[Len(commands) + 1] = c
  BY <1>1, <1>2
<1>4. Len(commands') <= MailboxSize
  BY <1>1, <1>2 DEF MailboxHasRoom
<1>5. \A i \in DOMAIN commands' : commands'[i].type = "watch" => commands'[i].pane \in Panes
  BY <1>1, <1>3 DEF MailboxOK
<1> QED
  BY <1>2, <1>3, <1>4, <1>5 DEF MailboxOK

\* A command is taken.
LEMMA TakenCommand ==
    ASSUME MailboxOK, commands # <<>>, commands' = Tail(commands)
    PROVE  /\ MailboxOK'
           /\ Head(commands) = commands[1] /\ commands[1] \in Command /\ 1 \in DOMAIN commands
           /\ \A i \in DOMAIN commands' : i + 1 \in DOMAIN commands /\ commands'[i] = commands[i + 1]
           /\ \A i \in DOMAIN commands : i # 1 => i - 1 \in DOMAIN commands' /\ commands'[i - 1] = commands[i]
<1>1. /\ commands \in Seq(Command) /\ Len(commands) \in Nat /\ Len(commands) > 0
      /\ DOMAIN commands = 1 .. Len(commands)
  BY DEF MailboxOK
<1>2. commands' \in Seq(Command) /\ Len(commands') = Len(commands) - 1
  BY <1>1, HeadTailProperties
<1>3. \A i \in 1 .. Len(commands') : commands'[i] = commands[i + 1]
  BY <1>1, HeadTailProperties
<1>4. DOMAIN commands' = 1 .. Len(commands')
  BY <1>2
<1>5. \A i \in DOMAIN commands' : i + 1 \in DOMAIN commands /\ commands'[i] = commands[i + 1]
  BY <1>1, <1>2, <1>3, <1>4
<1>6. \A i \in DOMAIN commands : i # 1 => i - 1 \in DOMAIN commands' /\ commands'[i - 1] = commands[i]
  BY <1>1, <1>2, <1>3, <1>4
<1>7. Head(commands) = commands[1] /\ commands[1] \in Command /\ 1 \in DOMAIN commands
  BY <1>1
<1>8. Len(commands') <= MailboxSize
  BY <1>1, <1>2 DEF MailboxOK
<1>9. \A i \in DOMAIN commands' : commands'[i].type = "watch" => commands'[i].pane \in Panes
  BY <1>5 DEF MailboxOK
<1> QED
  BY <1>2, <1>5, <1>6, <1>7, <1>8, <1>9 DEF MailboxOK

-----------------------------------------------------------------------------
(* What steps leave of the hints *)

\* No pane becomes one that has yet to be started.
StartsOnly ==
    /\ \A p \in Panes : Unstarted(p)' => Unstarted(p)
    /\ \A p \in Panes : Uncreated(p)' => Uncreated(p) /\ (Running(p)' => Running(p))

\* A step that touches neither the mailbox nor the watches nor an edge.
LEMMA QuietKeepsHints ==
    ASSUME HintInv, StartsOnly, UNCHANGED <<commands, watches, edge>>
    PROVE  HintInv'
<1>1. NothingUnstartedHints'
  BY DEF HintInv, NothingUnstartedHints, HintFree, HoldsEdge, StartsOnly
<1>2. WatchComesFirst' /\ EdgeIsReleased'
  BY DEF HintInv, WatchComesFirst, HoldsEdge, EdgeIsReleased
<1> QED
  BY <1>1, <1>2 DEF HintInv

\* A command that is no hint is sent.
LEMMA CommandKeepsHints ==
    ASSUME HintInv, StartsOnly, UNCHANGED <<watches, edge>>, MailboxOK,
           NEW c \in Command, c.type # "activity", MailboxHasRoom, commands' = Append(commands, c),
           c.type = "watch" => c.pane \in Panes /\ Unstarted(c.pane)
    PROVE  HintInv' /\ MailboxOK'
<1> DEFINE n == Len(commands) + 1
<1>1. /\ MailboxOK' /\ DOMAIN commands' = 1 .. n
      /\ \A i \in DOMAIN commands : i \in DOMAIN commands' /\ commands'[i] = commands[i]
      /\ commands'[n] = c
  BY AppendedCommand
<1>2. DOMAIN commands = 1 .. Len(commands) /\ Len(commands) \in Nat
  BY DEF MailboxOK
<1>3. \A p : c # ActivityCommand(p)
  BY DEF ActivityCommand
<1>4. \A p : \A i \in DOMAIN commands' : commands'[i] = ActivityCommand(p) =>
         i \in DOMAIN commands /\ commands[i] = ActivityCommand(p)
  BY <1>1, <1>2, <1>3
<1>5. NothingUnstartedHints'
  <2> SUFFICES ASSUME NEW p \in Panes
               PROVE  (Unstarted(p)' => HintFree(p)') /\ (Uncreated(p)' => ~Running(p)')
    BY DEF NothingUnstartedHints
  <2>1. Unstarted(p)' => HintFree(p)
    BY DEF HintInv, NothingUnstartedHints, StartsOnly
  <2>2. HintFree(p) => HintFree(p)'
    BY <1>4 DEF HintFree, HoldsEdge, ActivityCommand
  <2>3. Uncreated(p)' => ~Running(p)'
    BY DEF HintInv, NothingUnstartedHints, StartsOnly
  <2> QED
    BY <2>1, <2>2, <2>3
<1>6. WatchComesFirst'
  <2> SUFFICES ASSUME NEW i \in DOMAIN commands', commands'[i].type = "watch"
               PROVE  /\ ~HoldsEdge(commands'[i].pane)
                      /\ \A j \in DOMAIN commands' :
                            commands'[j] = ActivityCommand(commands'[i].pane) => i < j
    BY DEF WatchComesFirst, HoldsEdge
  <2>1. CASE i \in DOMAIN commands
    BY <1>1, <1>4, <2>1 DEF HintInv, WatchComesFirst
  <2>2. CASE i \notin DOMAIN commands
    <3>1. commands'[i] = c /\ HintFree(c.pane)
      BY <1>1, <1>2, <2>2 DEF HintInv, NothingUnstartedHints
    <3>2. \A j \in DOMAIN commands' : commands'[j] # ActivityCommand(c.pane)
      BY <1>4, <3>1 DEF HintFree
    <3> QED
      BY <3>1, <3>2 DEF HintFree
  <2> QED
    BY <2>1, <2>2
<1>7. EdgeIsReleased'
  BY <1>1 DEF HintInv, EdgeIsReleased
<1> QED
  BY <1>1, <1>5, <1>6, <1>7 DEF HintInv

\* Spending leaves a budget, with the panes it had.
LEMMA SpendKeepsBudget ==
    ASSUME budget \in Budgets, NEW what \in {"jobs", "exits", "hints", "kills", "shutdowns", "failures"},
           Spend(what)
    PROVE  budget' \in Budgets /\ budget'.panes = budget.panes /\ budget'.restored = budget.restored
<1>1. budget[what] \in Nat /\ budget[what] > 0
  BY DEF Budgets, Spend
<1>2. budget' = [budget EXCEPT ![what] = budget[what] - 1] /\ budget[what] - 1 \in Nat
  BY <1>1 DEF Spend
<1> QED
  BY <1>2 DEF Budgets

-----------------------------------------------------------------------------
(* Steps outside the monitor *)

\* No pane begins to run, and nothing else the invariant is about changes.
NothingBegins ==
    /\ UNCHANGED <<starting, restoring, requests, tombstones, worker, edge, commands, watches, monitor>>
    /\ budget' \in Budgets /\ budget'.panes = budget.panes /\ budget'.restored = budget.restored
    /\ DOMAIN process' = Panes /\ \A q \in Panes : Running(q)' => Running(q)

LEMMA NothingBeginsKeeps ==
    ASSUME IInv, NothingBegins, members' \subseteq Sessions,
           plans' \subseteq [from : Sessions, to : Sessions \cup {None}]
    PROVE  IInv'
<1>1. TypeInv'
  BY DEF IInv, NothingBegins, TypeInv, MailboxOK, RequestsOK, WritersOK, WatchesOK, MonitorOK, BudgetOK
<1>2. StartsOnly
  BY DEF NothingBegins, StartsOnly, Unstarted, Uncreated
<1>3. HintInv'
  BY <1>2, QuietKeepsHints DEF NothingBegins, IInv
<1> QED
  BY <1>1, <1>3 DEF IInv

\* Jobs change, shells exit, sessions are to end, panes are killed.
LEMMA ProcessesKeep ==
    ASSUME IInv, NEW p \in Panes, Jobs(p) \/ ShellExits(p) \/ KillPane(p)
    PROVE  IInv'
<1> USE DEF worldVars, daemonVars, goVars, retryVars, monitorVars
<1>1. budget \in Budgets /\ DOMAIN process = Panes
  BY DEF IInv, TypeInv, BudgetOK
<1>2. UNCHANGED <<starting, restoring, requests, tombstones, worker, edge, commands, watches, monitor,
                  members, plans>>
  BY DEF Jobs, ShellExits, KillPane
<1>3. UNCHANGED budget \/ Spend("jobs") \/ Spend("exits") \/ Spend("kills")
  BY DEF Jobs, JobStarts, JobExecs, JobEnds, ShellExits, KillPane
<1>4. budget' \in Budgets /\ budget'.panes = budget.panes /\ budget'.restored = budget.restored
  BY <1>1, <1>3, SpendKeepsBudget
<1>5. UNCHANGED process \/ process' = [process EXCEPT ![p] = "exited"]
  BY DEF Jobs, ShellExits, KillPane
<1>6. DOMAIN process' = Panes /\ \A q \in Panes : Running(q)' => Running(q)
  BY <1>1, <1>5 DEF Running
<1>7. NothingBegins
  BY <1>2, <1>4, <1>6 DEF NothingBegins
<1> QED
  BY <1>2, <1>7, NothingBeginsKeeps DEF IInv, TypeInv, WritersOK

LEMMA SessionEndsKeep ==
    ASSUME IInv, NEW s \in Sessions, CloseSession(s) \/ shutdownSessionInActor(s)
    PROVE  IInv'
<1> USE DEF worldVars, daemonVars, goVars, retryVars, monitorVars
<1>1. budget \in Budgets /\ DOMAIN process = Panes /\ members \subseteq Sessions
      /\ plans \subseteq [from : Sessions, to : Sessions \cup {None}]
  BY DEF IInv, TypeInv, BudgetOK, WritersOK
<1>2. UNCHANGED <<starting, restoring, requests, tombstones, worker, edge, commands, watches, monitor>>
  BY DEF CloseSession, shutdownSessionInActor
<1>3. UNCHANGED budget \/ Spend("shutdowns")
  BY DEF CloseSession, shutdownSessionInActor
<1>4. budget' \in Budgets /\ budget'.panes = budget.panes /\ budget'.restored = budget.restored
  BY <1>1, <1>3, SpendKeepsBudget
<1>5. DOMAIN process' = Panes /\ \A q \in Panes : Running(q)' => Running(q)
  <2>1. CASE UNCHANGED process
    BY <1>1, <2>1 DEF Running
  <2>2. CASE process' # process
    <3>1. process' = [q \in Panes |-> IF graph[q] = GroupOf[s] THEN "exited" ELSE process[q]]
      BY <2>2 DEF CloseSession, shutdownSessionInActor
    <3> QED
      BY <3>1 DEF Running
  <2> QED
    BY <2>1, <2>2
<1>6. NothingBegins
  BY <1>2, <1>4, <1>5 DEF NothingBegins
<1>7. members' \subseteq Sessions
  BY <1>1 DEF CloseSession, shutdownSessionInActor
<1>8. plans' \subseteq [from : Sessions, to : Sessions \cup {None}]
  <2>1. CASE CloseSession(s)
    BY <1>1, <2>1 DEF CloseSession
  <2>2. CASE shutdownSessionInActor(s)
    <3> DEFINE others == MembersOf(GroupOf[s]) \ {s}
    <3>1. others \subseteq Sessions
      BY <1>1 DEF MembersOf
    <3>2. PICK to \in IF others = {} THEN {None} ELSE others : plans' = plans \cup {[from |-> s, to |-> to]}
      BY <2>2 DEF shutdownSessionInActor
    <3>3. to \in Sessions \cup {None}
      BY <3>1, <3>2
    <3> HIDE DEF others
    <3> QED
      BY <1>1, <3>2, <3>3
  <2> QED
    BY <2>1, <2>2
<1> QED
  BY <1>6, <1>7, <1>8, NothingBeginsKeeps

\* A pane is created, or a session restored: from then on its panes are to be started.
LEMMA CreationsKeep ==
    ASSUME IInv, (\E p \in Panes, s \in Sessions : CreatePane(p, s))
                 \/ (\E s \in Sessions, panes \in SUBSET Panes : RestoreSession(s, panes))
    PROVE  IInv'
<1> USE DEF worldVars, daemonVars, goVars, retryVars, monitorVars
<1>1. UNCHANGED <<requests, plans, tombstones, worker, edge, commands, watches, monitor>>
  BY DEF CreatePane, RestoreSession
<1>2. budget \in Budgets /\ DOMAIN process = Panes /\ WritersOK /\ budget.panes \cap budget.restored = {}
  BY DEF IInv, TypeInv, BudgetOK
<1>3. ASSUME NEW p \in Panes, NEW s \in Sessions, CreatePane(p, s)
      PROVE  IInv'
  <2>1. /\ p \in budget.panes /\ budget' = [budget EXCEPT !.panes = budget.panes \ {p}]
        /\ starting' = [starting EXCEPT ![p] = s] /\ process' = [process EXCEPT ![p] = "running"]
        /\ UNCHANGED <<members, restoring>>
    BY <1>3 DEF CreatePane
  <2>2. budget' \in Budgets /\ budget'.panes = budget.panes \ {p} /\ budget'.restored = budget.restored
    BY <1>2, <2>1 DEF Budgets
  <2>3. TypeInv'
    BY <1>1, <1>2, <2>1, <2>2
       DEF IInv, TypeInv, MailboxOK, RequestsOK, WritersOK, WatchesOK, MonitorOK, BudgetOK
  <2>4. \A q \in Panes : Unstarted(q)' => Unstarted(q)
    BY <1>2, <2>1, <2>2 DEF Unstarted, Uncreated, WritersOK
  <2>5. \A q \in Panes : Uncreated(q)' => Uncreated(q) /\ (Running(q)' => Running(q))
    BY <1>2, <2>1, <2>2 DEF Uncreated, Running
  <2> QED
    BY <1>1, <2>3, <2>4, <2>5, QuietKeepsHints DEF IInv, StartsOnly
<1>4. ASSUME NEW s \in Sessions, NEW panes \in SUBSET Panes, RestoreSession(s, panes)
      PROVE  IInv'
  <2>1. /\ panes \subseteq budget.restored /\ budget' = [budget EXCEPT !.restored = budget.restored \ panes]
        /\ members' = members \cup {s} /\ UNCHANGED starting /\ restoring = <<>>
        /\ process' = [q \in Panes |-> IF q \in panes THEN "running" ELSE process[q]]
    BY <1>4 DEF RestoreSession, DaemonIsFree
  <2>2. budget' \in Budgets /\ budget'.restored = budget.restored \ panes /\ budget'.panes = budget.panes
    BY <1>2, <2>1 DEF Budgets
  <2>3. PICK order \in [1 .. Cardinality(panes) -> panes] :
           restoring' = [i \in DOMAIN order |-> [pane |-> order[i], session |-> s]]
    BY <1>4 DEF RestoreSession
  <2>4. restoring' \in Seq([pane : Panes, session : Sessions])
    <3>1. IsFiniteSet(Panes)
      OBVIOUS
    <3>2. Cardinality(panes) \in Nat
      BY <3>1, <1>4, FS_Subset, FS_CardinalityType
    <3> DEFINE R == [pane : Panes, session : Sessions]
    <3>3. restoring' \in [1 .. Cardinality(panes) -> R]
      BY <1>4, <2>3
    <3> HIDE DEF R
    <3>4. restoring' \in Seq(R)
      BY <3>2, <3>3, SeqDef
    <3> QED
      BY <3>4 DEF R
  <2>5. \A i \in DOMAIN restoring' : restoring'[i].pane \in panes
    BY <2>3
  <2>6. TypeInv'
    BY <1>1, <1>2, <2>1, <2>2, <2>4
       DEF IInv, TypeInv, MailboxOK, RequestsOK, WritersOK, WatchesOK, MonitorOK, BudgetOK
  <2>7. \A q \in Panes : Unstarted(q)' => Unstarted(q)
    BY <1>2, <2>1, <2>2, <2>5 DEF Unstarted, Uncreated
  <2>8. \A q \in Panes : Uncreated(q)' => Uncreated(q) /\ (Running(q)' => Running(q))
    BY <1>2, <2>1, <2>2 DEF Uncreated, Running
  <2> QED
    BY <1>1, <2>6, <2>7, <2>8, QuietKeepsHints DEF IInv, StartsOnly
<1> QED
  BY <1>3, <1>4

-----------------------------------------------------------------------------
(* Writers of the mailbox, and the daemon's requests *)

\* The goroutine, or the turn, that starts a pane has it watched.
LEMMA StartsKeep ==
    ASSUME IInv, startRestoredPane \/ \E p \in Panes : startPane(p)
    PROVE  IInv'
<1> USE DEF worldVars, daemonVars, goVars, retryVars, monitorVars
<1>1. /\ UNCHANGED <<members, plans, tombstones, worker, requests, edge, watches, monitor, budget, process>>
      /\ MailboxHasRoom
  BY DEF startRestoredPane, startPane
<1>2. MailboxOK /\ WritersOK /\ HintInv
  BY DEF IInv, TypeInv
<1>3. ASSUME NEW p \in Panes, startPane(p)
      PROVE  IInv'
  <2> DEFINE c == WatchCommand(starting[p], p)
  <2>1. /\ starting[p] # None /\ starting' = [starting EXCEPT ![p] = None]
        /\ commands' = Append(commands, c) /\ UNCHANGED restoring
    BY <1>3 DEF startPane
  <2>2. c \in Command /\ c.type = "watch" /\ c.pane = p
    BY <1>2, <2>1, CommandsAreCommands DEF WritersOK, WatchCommand
  <2>3. WritersOK'
    BY <1>1, <1>2, <2>1 DEF WritersOK
  <2>4. StartsOnly
    BY <1>1, <1>2, <2>1 DEF StartsOnly, Unstarted, Uncreated, WritersOK, Running
  <2>5. Unstarted(p)
    BY <2>1 DEF Unstarted
  <2> HIDE DEF c
  <2>6. HintInv' /\ MailboxOK'
    BY <1>1, <1>2, <2>1, <2>2, <2>4, <2>5, CommandKeepsHints
  <2> QED
    BY <1>1, <2>3, <2>6 DEF IInv, TypeInv, RequestsOK, WatchesOK, MonitorOK, BudgetOK
<1>4. CASE startRestoredPane
  <2> DEFINE h == Head(restoring)
             c == WatchCommand(h.session, h.pane)
  <2>1. /\ restoring # <<>> /\ restoring' = Tail(restoring)
        /\ commands' = Append(commands, c) /\ UNCHANGED starting
    BY <1>4 DEF startRestoredPane
  <2>2. /\ h \in [pane : Panes, session : Sessions] /\ h = restoring[1] /\ 1 \in DOMAIN restoring
        /\ restoring' \in Seq([pane : Panes, session : Sessions])
        /\ \A i \in DOMAIN restoring' : i + 1 \in DOMAIN restoring /\ restoring'[i] = restoring[i + 1]
    <3> DEFINE R == [pane : Panes, session : Sessions]
    <3>1. restoring \in Seq(R)
      BY <1>2 DEF WritersOK
    <3> HIDE DEF R
    <3>2. /\ h \in R /\ h = restoring[1] /\ 1 \in DOMAIN restoring /\ restoring' \in Seq(R)
          /\ \A i \in DOMAIN restoring' : i + 1 \in DOMAIN restoring /\ restoring'[i] = restoring[i + 1]
      BY <2>1, <3>1, HeadAndTail
    <3> QED
      BY <3>2 DEF R
  <2>3. c \in Command /\ c.type = "watch" /\ c.pane = h.pane /\ h.pane \in Panes
    BY <2>2, CommandsAreCommands DEF WatchCommand
  <2>4. WritersOK'
    BY <1>1, <1>2, <2>1, <2>2 DEF WritersOK
  <2>5. StartsOnly
    BY <1>1, <2>1, <2>2 DEF StartsOnly, Unstarted, Uncreated, Running
  <2>6. Unstarted(h.pane)
    BY <2>2 DEF Unstarted
  <2> HIDE DEF c, h
  <2>7. HintInv' /\ MailboxOK'
    BY <1>1, <1>2, <2>1, <2>3, <2>5, <2>6, CommandKeepsHints
  <2> QED
    BY <1>1, <2>4, <2>7 DEF IInv, TypeInv, RequestsOK, WatchesOK, MonitorOK, BudgetOK
<1> QED
  BY <1>3, <1>4

\* Nothing that makes a pane unstarted changes.
LEMMA NothingStarts ==
    ASSUME UNCHANGED <<budget, starting, restoring, process>>
    PROVE  StartsOnly
BY DEF StartsOnly, Unstarted, Uncreated, Running

\* The monitor is told of a session that has ended.
LEMMA ShutdownPlansKeep ==
    ASSUME IInv, NEW plan \in plans, applySessionShutdownPlan(plan)
    PROVE  IInv'
<1> USE DEF worldVars, daemonVars, goVars, retryVars, monitorVars
<1>1. /\ UNCHANGED <<members, starting, restoring, tombstones, worker, requests, edge, watches, monitor,
                     budget, process>>
      /\ MailboxHasRoom /\ plans' = plans \ {plan}
  BY DEF applySessionShutdownPlan
<1>2. MailboxOK /\ WritersOK /\ HintInv
  BY DEF IInv, TypeInv
<1>3. plan.from \in Sessions /\ plan.to \in Sessions \cup {None}
  BY <1>2 DEF WritersOK
<1>4. PICK c \in Command : c.type \in {"drop", "transfer"} /\ commands' = Append(commands, c)
  <2>1. CASE plan.to = None
    BY <1>3, <2>1, CommandsAreCommands DEF applySessionShutdownPlan, DropCommand
  <2>2. CASE plan.to # None
    BY <1>3, <2>2, CommandsAreCommands DEF applySessionShutdownPlan, TransferCommand
  <2> QED
    BY <2>1, <2>2
<1>5. StartsOnly
  BY <1>1, NothingStarts
<1>6. HintInv' /\ MailboxOK'
  BY <1>1, <1>2, <1>4, <1>5, CommandKeepsHints
<1>7. WritersOK'
  BY <1>1, <1>2 DEF WritersOK
<1> QED
  BY <1>1, <1>6, <1>7 DEF IInv, TypeInv, RequestsOK, WatchesOK, MonitorOK, BudgetOK

\* Trying to unwatch a pane sends a command or leaves a tombstone.
LEMMA TryUnwatchKeeps ==
    ASSUME MailboxOK, WritersOK, HintInv, StartsOnly, UNCHANGED <<watches, edge>>,
           NEW p \in Panes, TryUnwatch(p)
    PROVE  HintInv' /\ MailboxOK' /\ tombstones' \subseteq Panes
<1>1. CASE MailboxHasRoom
  <2>1. commands' = Append(commands, UnwatchCommand(p)) /\ UNCHANGED tombstones
    BY <1>1 DEF TryUnwatch
  <2>2. UnwatchCommand(p) \in Command /\ UnwatchCommand(p).type = "unwatch"
    BY CommandsAreCommands DEF UnwatchCommand
  <2>3. HintInv' /\ MailboxOK'
    BY <1>1, <2>1, <2>2, CommandKeepsHints
  <2> QED
    BY <2>1, <2>3 DEF WritersOK
<1>2. CASE ~MailboxHasRoom
  <2>1. UNCHANGED commands /\ tombstones' = tombstones \cup {p}
    BY <1>2 DEF TryUnwatch
  <2> QED
    BY <2>1, QuietKeepsHints DEF WritersOK, MailboxOK
<1> QED
  BY <1>1, <1>2

\* The worker that retries unwatches.
LEMMA UnwatchRetryKeeps ==
    ASSUME IInv, runUnwatchRetry
    PROVE  IInv'
<1> USE DEF worldVars, daemonVars, goVars, retryVars, monitorVars
<1>1. UNCHANGED <<members, starting, restoring, plans, requests, edge, watches, monitor, budget, process>>
  BY DEF runUnwatchRetry
<1>2. MailboxOK /\ WritersOK /\ HintInv
  BY DEF IInv, TypeInv
<1>3. StartsOnly
  BY <1>1, NothingStarts
<1>4. WritersOK'
  BY <1>1, <1>2 DEF runUnwatchRetry, WritersOK
<1>5. HintInv' /\ MailboxOK'
  <2>1. CASE UNCHANGED commands
    BY <1>1, <1>2, <1>3, <2>1, QuietKeepsHints DEF MailboxOK
  <2>2. CASE commands' # commands
    <3>1. worker \in Panes /\ MailboxHasRoom /\ commands' = Append(commands, UnwatchCommand(worker))
      BY <2>2 DEF runUnwatchRetry
    <3>2. UnwatchCommand(worker) \in Command /\ UnwatchCommand(worker).type = "unwatch"
      BY <3>1, CommandsAreCommands DEF UnwatchCommand
    <3> QED
      BY <1>1, <1>2, <1>3, <3>1, <3>2, CommandKeepsHints
  <2> QED
    BY <2>1, <2>2
<1> QED
  BY <1>1, <1>4, <1>5 DEF IInv, TypeInv, RequestsOK, WatchesOK, MonitorOK, BudgetOK

\* An exit is posted.
LEMMA ExitsKeep ==
    ASSUME IInv, NEW p \in Panes, postPaneProcessExit(p)
    PROVE  IInv'
<1> USE DEF worldVars, daemonVars, goVars, retryVars, monitorVars
<1>1. UNCHANGED <<members, starting, restoring, plans, tombstones, worker, edge, commands, watches, monitor,
                  budget, process>>
  BY DEF postPaneProcessExit
<1>2. RequestsOK'
  BY AppendedRequest DEF postPaneProcessExit, IInv, TypeInv
<1>3. HintInv'
  BY <1>1, NothingStarts, QuietKeepsHints DEF IInv
<1> QED
  BY <1>1, <1>2, <1>3 DEF IInv, TypeInv, MailboxOK, WritersOK, WatchesOK, MonitorOK, BudgetOK

\* The daemon takes a request.
LEMMA RequestsKeep ==
    ASSUME IInv, HandleRequest
    PROVE  IInv'
<1> USE DEF worldVars, daemonVars, goVars, retryVars, monitorVars
<1> DEFINE r == Head(requests)
<1>1. UNCHANGED <<starting, restoring, plans, worker, edge, watches, monitor, budget, process>>
  BY DEF HandleRequest
<1>2. MailboxOK /\ WritersOK /\ HintInv /\ RequestsOK
  BY DEF IInv, TypeInv
<1>3. RequestsOK' /\ r.pane \in Panes
  BY <1>2, TakenRequest DEF HandleRequest
<1>4. StartsOnly
  BY <1>1, NothingStarts
<1>5. UNCHANGED members
  BY DEF HandleRequest, applyPaneExit, applyMonitoredProcessObservations
<1>6. HintInv' /\ MailboxOK' /\ tombstones' \subseteq Panes
  <2>1. CASE UNCHANGED <<commands, tombstones>>
    BY <1>1, <1>2, <1>4, <2>1, QuietKeepsHints DEF MailboxOK, WritersOK
  <2>2. CASE ~ UNCHANGED <<commands, tombstones>>
    <3>1. TryUnwatch(r.pane)
      BY <2>2 DEF HandleRequest, applyPaneExit
    <3> HIDE DEF r
    <3> QED
      BY <1>1, <1>2, <1>3, <1>4, <3>1, TryUnwatchKeeps
  <2> QED
    BY <2>1, <2>2
<1>7. WritersOK'
  BY <1>1, <1>2, <1>5, <1>6 DEF WritersOK
<1> QED
  BY <1>1, <1>3, <1>6, <1>7 DEF IInv, TypeInv, WatchesOK, MonitorOK, BudgetOK

-----------------------------------------------------------------------------
(* Hints *)

\* Output of a pane, or input that ends a line: a hint is sent while there is room.
LEMMA NotifyKeeps ==
    ASSUME IInv, NEW p \in Panes, notifyProcessActivity(p)
    PROVE  IInv'
<1> USE DEF worldVars, daemonVars, goVars, retryVars, monitorVars
<1>1. /\ UNCHANGED <<members, starting, restoring, plans, tombstones, worker, requests, watches, monitor,
                     process>>
      /\ Running(p) /\ starting[p] = None /\ \A i \in DOMAIN restoring : restoring[i].pane # p
      /\ Spend("hints")
  BY DEF notifyProcessActivity
<1>2. MailboxOK /\ BudgetOK /\ HintInv
  BY DEF IInv, TypeInv
<1>3. budget' \in Budgets /\ budget'.panes = budget.panes /\ budget'.restored = budget.restored
  BY <1>1, <1>2, SpendKeepsBudget DEF BudgetOK
<1>4. /\ \A q \in Panes : Unstarted(q)' => Unstarted(q)
      /\ \A q \in Panes : Uncreated(q)' => Uncreated(q) /\ (Running(q)' => Running(q))
  BY <1>1, <1>3 DEF Unstarted, Uncreated, Running
<1>5. ~Unstarted(p)
  BY <1>1, <1>2 DEF HintInv, NothingUnstartedHints, Unstarted
<1>6. CASE UNCHANGED <<edge, commands>>
  <2>1. HintInv'
    BY <1>1, <1>2, <1>4, <1>6, QuietKeepsHints DEF StartsOnly
  <2> QED
    BY <1>1, <1>2, <1>3, <1>6, <2>1
       DEF IInv, TypeInv, MailboxOK, RequestsOK, WritersOK, WatchesOK, MonitorOK, BudgetOK
<1>7. CASE ~ UNCHANGED <<edge, commands>>
  <2> DEFINE n == Len(commands) + 1
  <2>1. MailboxHasRoom /\ commands' = Append(commands, ActivityCommand(p)) /\ edge' = [edge EXCEPT ![p] = TRUE]
    BY <1>7 DEF notifyProcessActivity
  <2>2. ActivityCommand(p) \in Command /\ ActivityCommand(p).type = "activity"
        /\ \A q : ActivityCommand(q) = ActivityCommand(p) => q = p
    BY CommandsAreCommands DEF ActivityCommand
  <2>3. /\ MailboxOK' /\ DOMAIN commands' = 1 .. n
        /\ \A i \in DOMAIN commands : i \in DOMAIN commands' /\ commands'[i] = commands[i]
        /\ commands'[n] = ActivityCommand(p)
    BY <1>2, <2>1, <2>2, AppendedCommand
  <2>4. DOMAIN commands = 1 .. Len(commands) /\ Len(commands) \in Nat
    BY <1>2 DEF MailboxOK
  <2>5. \A q \in Panes : q # p => edge'[q] = edge[q]
    BY <1>2, <2>1 DEF BudgetOK
  <2>6. NothingUnstartedHints'
    <3> SUFFICES ASSUME NEW q \in Panes
                 PROVE  (Unstarted(q)' => HintFree(q)') /\ (Uncreated(q)' => ~Running(q)')
      BY DEF NothingUnstartedHints
    <3>1. Uncreated(q)' => ~Running(q)'
      BY <1>2, <1>4 DEF HintInv, NothingUnstartedHints
    <3>2. ASSUME Unstarted(q)'
          PROVE  HintFree(q)'
      <4>1. q # p /\ HintFree(q)
        BY <1>2, <1>4, <1>5, <3>2 DEF HintInv, NothingUnstartedHints
      <4>2. \A i \in DOMAIN commands' : commands'[i] # ActivityCommand(q)
        BY <2>2, <2>3, <2>4, <4>1 DEF HintFree
      <4> QED
        BY <1>1, <2>5, <4>1, <4>2 DEF HintFree, HoldsEdge, ActivityCommand
    <3> QED
      BY <3>1, <3>2
  <2>7. WatchComesFirst'
    <3> SUFFICES ASSUME NEW i \in DOMAIN commands', commands'[i].type = "watch"
                 PROVE  /\ ~HoldsEdge(commands'[i].pane)
                        /\ \A j \in DOMAIN commands' :
                              commands'[j] = ActivityCommand(commands'[i].pane) => i < j
      BY <1>1 DEF WatchComesFirst, HoldsEdge
    <3>1. i \in DOMAIN commands /\ i < n
      BY <2>2, <2>3, <2>4
    <3> QED
      BY <1>2, <2>3, <2>4, <3>1 DEF HintInv, WatchComesFirst
  <2>8. EdgeIsReleased'
    <3> SUFFICES ASSUME NEW q \in Panes, edge'[q]
                 PROVE  \/ \E i \in DOMAIN commands' : commands'[i] = ActivityCommand(q)
                        \/ q \in DOMAIN watches /\ watches[q].holdsEdge /\ "activity" \in watches[q].armed
      BY <1>1 DEF EdgeIsReleased
    <3>1. CASE q = p
      BY <2>3, <2>4, <3>1
    <3>2. CASE q # p
      BY <1>2, <2>3, <2>5, <3>2 DEF HintInv, EdgeIsReleased
    <3> QED
      BY <3>1, <3>2
  <2>9. edge' \in [Panes -> BOOLEAN]
    BY <1>2, <2>1 DEF BudgetOK
  <2> QED
    BY <1>1, <1>2, <1>3, <2>3, <2>6, <2>7, <2>8, <2>9
       DEF IInv, TypeInv, RequestsOK, WritersOK, WatchesOK, MonitorOK, BudgetOK, HintInv
<1> QED
  BY <1>6, <1>7

-----------------------------------------------------------------------------
(* The monitor *)

\* A watch that will release the edge it holds.
Held(p) == HoldsEdge(p) /\ "activity" \in watches[p].armed

\* The watches take the hints, or keep them; an edge that goes out is not set again.
LEMMA WatchesKeepHints ==
    ASSUME HintInv, StartsOnly, MailboxOK,
           NEW taken \in BOOLEAN,
           taken => commands # <<>> /\ commands' = Tail(commands),
           ~taken => UNCHANGED commands,
           \A p \in Panes : HoldsEdge(p)' => HoldsEdge(p) \/ (taken /\ commands[1] = ActivityCommand(p)),
           \A p \in Panes : edge'[p] => edge[p],
           \A p \in Panes :
              edge'[p] /\ (Held(p) \/ (taken /\ commands[1] = ActivityCommand(p))) => Held(p)'
    PROVE  HintInv' /\ MailboxOK'
<1> DEFINE k == IF taken THEN 1 ELSE 0
<1>1. DOMAIN commands = 1 .. Len(commands) /\ Len(commands) \in Nat
  BY DEF MailboxOK
<1>2. /\ MailboxOK'
      /\ \A i \in DOMAIN commands' : i \in Nat /\ i + k \in DOMAIN commands /\ commands'[i] = commands[i + k]
      /\ \A i \in DOMAIN commands : i > k => i - k \in DOMAIN commands' /\ commands'[i - k] = commands[i]
      /\ taken => 1 \in DOMAIN commands
  <2>1. CASE taken
    <3>1. MailboxOK' /\ DOMAIN commands' = 1 .. Len(commands') /\ Len(commands') \in Nat
      BY <2>1, TakenCommand DEF MailboxOK
    <3> QED
      BY <1>1, <2>1, <3>1, TakenCommand
  <2>2. CASE ~taken
    <3>1. k = 0 /\ commands' = commands
      BY <2>2
    <3>2. MailboxOK'
      BY <3>1 DEF MailboxOK
    <3> HIDE DEF k
    <3>3. \A i \in DOMAIN commands : i \in Nat /\ i + k = i /\ i - k = i
      <4>1. \A i \in Nat : i + k = i /\ i - k = i
        BY <3>1
      <4>2. \A i \in 1 .. Len(commands) : i \in Nat
        BY <1>1
      <4> QED
        BY <1>1, <4>1, <4>2
    <3> QED
      BY <2>2, <3>1, <3>2, <3>3
  <2> QED
    BY <2>1, <2>2
<1>3. NothingUnstartedHints'
  <2> SUFFICES ASSUME NEW p \in Panes
               PROVE  (Unstarted(p)' => HintFree(p)') /\ (Uncreated(p)' => ~Running(p)')
    BY DEF NothingUnstartedHints
  <2>1. Uncreated(p)' => ~Running(p)'
    BY DEF HintInv, NothingUnstartedHints, StartsOnly
  <2>2. ASSUME Unstarted(p)'
        PROVE  HintFree(p)'
    <3>1. HintFree(p)
      BY <2>2 DEF HintInv, NothingUnstartedHints, StartsOnly
    <3>2. \A i \in DOMAIN commands' : commands'[i] # ActivityCommand(p)
      BY <1>2, <3>1 DEF HintFree
    <3>3. ~edge'[p] /\ ~HoldsEdge(p)'
      BY <1>2, <3>1 DEF HintFree
    <3> QED
      BY <3>2, <3>3 DEF HintFree, ActivityCommand
  <2> QED
    BY <2>1, <2>2
<1>4. WatchComesFirst'
  <2> SUFFICES ASSUME NEW i \in DOMAIN commands', commands'[i].type = "watch"
               PROVE  /\ ~(commands'[i].pane \in DOMAIN watches' /\ watches'[commands'[i].pane].holdsEdge)
                      /\ \A j \in DOMAIN commands' :
                            commands'[j] = ActivityCommand(commands'[i].pane) => i < j
    BY DEF WatchComesFirst, HoldsEdge, ActivityCommand
  <2>1. PICK w \in Panes : w = commands'[i].pane
    BY <1>2 DEF MailboxOK
  <2>2. i + k \in DOMAIN commands /\ commands[i + k] = commands'[i] /\ i \in Nat /\ i >= 1
    BY <1>1, <1>2 DEF MailboxOK
  <2>3. ~HoldsEdge(w) /\ \A j \in DOMAIN commands : commands[j] = ActivityCommand(w) => i + k < j
    BY <2>1, <2>2 DEF HintInv, WatchComesFirst
  <2>4. ~HoldsEdge(w)'
    BY <1>2, <2>1, <2>2, <2>3
  <2>5. \A j \in DOMAIN commands' : commands'[j] = ActivityCommand(w) => i < j
    BY <1>2, <2>2, <2>3
  <2> QED
    BY <2>1, <2>4, <2>5 DEF HoldsEdge
<1>5. EdgeIsReleased'
  <2> SUFFICES ASSUME NEW p \in Panes, edge'[p]
               PROVE  (\E i \in DOMAIN commands' : commands'[i] = ActivityCommand(p)) \/ Held(p)'
    BY DEF EdgeIsReleased, Held, HoldsEdge, ActivityCommand
  <2>1. CASE Held(p)
    BY <2>1
  <2>2. CASE \E i \in DOMAIN commands : commands[i] = ActivityCommand(p)
    <3>1. PICK i \in DOMAIN commands : commands[i] = ActivityCommand(p)
      BY <2>2
    <3>2. CASE i > k
      BY <1>2, <3>1, <3>2
    <3>3. CASE ~(i > k)
      BY <1>1, <3>1, <3>3
    <3> QED
      BY <3>2, <3>3
  <2> QED
    BY <2>1, <2>2 DEF HintInv, EdgeIsReleased, Held, HoldsEdge
<1> QED
  BY <1>2, <1>3, <1>4, <1>5 DEF HintInv

\* A watch, by its fields.
Watch(session, armed, holdsEdge, fingerprint, observation) ==
    [session |-> session, armed |-> armed, holdsEdge |-> holdsEdge,
     fingerprint |-> fingerprint, observation |-> observation]

LEMMA WatchIsWatch ==
    ASSUME NEW s \in Sessions, NEW armed \in SUBSET Timers, NEW held \in BOOLEAN, NEW f, NEW o
    PROVE  /\ IsWatch(Watch(s, armed, held, f, o))
           /\ Watch(s, armed, held, f, o).armed = armed /\ Watch(s, armed, held, f, o).holdsEdge = held
BY DEF IsWatch, Watch

LEMMA WatchHasFields ==
    ASSUME NEW w, IsWatch(w)
    PROVE  /\ w = Watch(w.session, w.armed, w.holdsEdge, w.fingerprint, w.observation)
           /\ w.session \in Sessions /\ w.armed \in SUBSET Timers /\ w.holdsEdge \in BOOLEAN
BY DEF IsWatch, Watch

\* A new watch holds no edge.
LEMMA NewWatchIsWatch ==
    ASSUME NEW s \in Sessions
    PROVE  IsWatch(NewWatch(s)) /\ ~NewWatch(s).holdsEdge
BY DEF IsWatch, NewWatch, Timers

\* A watch that is transferred holds the edge it held.
LEMMA TransferredIsWatch ==
    ASSUME NEW w, IsWatch(w), NEW to \in Sessions
    PROVE  LET v == [w EXCEPT !.session = to]
           IN  IsWatch(v) /\ v.armed = w.armed /\ v.holdsEdge = w.holdsEdge
<1>1. [w EXCEPT !.session = to] = Watch(to, w.armed, w.holdsEdge, w.fingerprint, w.observation)
  BY WatchHasFields DEF Watch
<1> QED
  BY <1>1, WatchHasFields, WatchIsWatch

\* Watches with other fields.
LEMMA RearmedWatch ==
    ASSUME NEW w, IsWatch(w), NEW armed, NEW held
    PROVE  [w EXCEPT !.armed = armed, !.holdsEdge = held]
             = Watch(w.session, armed, held, w.fingerprint, w.observation)
<1> DEFINE v == [w EXCEPT !.armed = armed]
<1>1. v = Watch(w.session, armed, w.holdsEdge, w.fingerprint, w.observation)
  BY WatchHasFields DEF Watch
<1>2. [v EXCEPT !.holdsEdge = held] = Watch(w.session, armed, held, w.fingerprint, w.observation)
  <2> HIDE DEF v
  <2> QED
    BY <1>1 DEF Watch
<1> QED
  BY <1>2

LEMMA SeenWatch ==
    ASSUME NEW w, IsWatch(w), NEW o, NEW f
    PROVE  [w EXCEPT !.observation = o, !.fingerprint = f]
             = Watch(w.session, w.armed, w.holdsEdge, f, o)
<1> DEFINE v == [w EXCEPT !.observation = o]
<1>1. v = Watch(w.session, w.armed, w.holdsEdge, w.fingerprint, o)
  BY WatchHasFields DEF Watch
<1>2. [v EXCEPT !.fingerprint = f] = Watch(w.session, w.armed, w.holdsEdge, f, o)
  <2> HIDE DEF v
  <2> QED
    BY <1>1 DEF Watch
<1> QED
  BY <1>2

LEMMA SeenAndRearmedWatch ==
    ASSUME NEW w, IsWatch(w), NEW o, NEW f, NEW armed
    PROVE  [w EXCEPT !.observation = o, !.fingerprint = f, !.armed = armed]
             = Watch(w.session, armed, w.holdsEdge, f, o)
<1> DEFINE v == [w EXCEPT !.observation = o, !.fingerprint = f]
<1>1. v = Watch(w.session, w.armed, w.holdsEdge, f, o)
  BY SeenWatch
<1>2. [v EXCEPT !.armed = armed] = Watch(w.session, armed, w.holdsEdge, f, o)
  <2> HIDE DEF v
  <2> QED
    BY <1>1 DEF Watch
<1> QED
  BY <1>2

\* A hint arms the watch and gives it the edge.
LEMMA HintedIsWatch ==
    ASSUME NEW w, IsWatch(w)
    PROVE  LET v == [w EXCEPT !.armed = w.armed \cup {"activity"}, !.holdsEdge = TRUE]
           IN  IsWatch(v) /\ "activity" \in v.armed /\ v.holdsEdge = TRUE
<1> DEFINE armed == w.armed \cup {"activity"}
<1>1. [w EXCEPT !.armed = armed, !.holdsEdge = TRUE]
         = Watch(w.session, armed, TRUE, w.fingerprint, w.observation)
  BY RearmedWatch
<1>2. armed \in SUBSET Timers
  BY WatchHasFields DEF Timers
<1>3. PICK held \in BOOLEAN : held = TRUE
  OBVIOUS
<1>4. LET v == Watch(w.session, armed, held, w.fingerprint, w.observation)
      IN  IsWatch(v) /\ v.armed = armed /\ v.holdsEdge = held
  <2> HIDE DEF armed
  <2> QED
    BY <1>2, WatchHasFields, WatchIsWatch
<1> QED
  BY <1>1, <1>3, <1>4

\* A watch whose timers were due has released its edge if activity was.
LEMMA TimedIsWatch ==
    ASSUME NEW w, IsWatch(w), NEW due \in SUBSET Timers
    PROVE  LET v == AfterTimers(w, due)
           IN  /\ IsWatch(v) /\ (v.holdsEdge <=> w.holdsEdge /\ "activity" \notin due)
               /\ "activity" \in w.armed \ due => "activity" \in v.armed
<1> DEFINE armed == (w.armed \ due) \cup (IF "activity" \in due THEN {"trailing"} ELSE {})
           held == IF "activity" \in due THEN FALSE ELSE w.holdsEdge
           v == AfterTimers(w, due)
<1>1. v = Watch(w.session, armed, held, w.fingerprint, w.observation)
  <2>1. v = [w EXCEPT !.armed = armed, !.holdsEdge = held]
    BY DEF AfterTimers
  <2> HIDE DEF v, armed, held
  <2> QED
    BY <2>1, RearmedWatch
<1>2. armed \in SUBSET Timers /\ held \in BOOLEAN
  BY WatchHasFields DEF Timers
<1>3. IsWatch(v) /\ v.armed = armed /\ v.holdsEdge = held
  <2> HIDE DEF v, armed, held
  <2> QED
    BY <1>1, <1>2, WatchHasFields, WatchIsWatch
<1> HIDE DEF v
<1>4. v.holdsEdge <=> w.holdsEdge /\ "activity" \notin due
  BY <1>3
<1>5. "activity" \in w.armed \ due => "activity" \in v.armed
  BY <1>3
<1> QED
  BY <1>3, <1>4, <1>5 DEF v

\* A watch that has observed holds the edge it held, and is armed as it was at least.
LEMMA ObservedIsWatch ==
    ASSUME NEW w, IsWatch(w), NEW o
    PROVE  LET v == Observed(w, o)
           IN  IsWatch(v) /\ w.armed \subseteq v.armed /\ v.holdsEdge = w.holdsEdge
<1> DEFINE f == fingerprintProcessObservation(o)
           armed == IF o.status = "detected" /\ w.fingerprint # o THEN w.armed \cup {"confirm"} ELSE w.armed
           v == Observed(w, o)
<1>1. armed \in SUBSET Timers /\ w.armed \subseteq armed
  BY WatchHasFields DEF Timers
<1>2. v = Watch(w.session, armed, w.holdsEdge, f, o)
  <2>1. v = [w EXCEPT !.observation = o, !.fingerprint = f, !.armed = armed]
    BY DEF Observed
  <2> HIDE DEF v, armed, f
  <2> QED
    BY <2>1, SeenAndRearmedWatch
<1>3. IsWatch(v) /\ v.armed = armed /\ v.holdsEdge = w.holdsEdge
  <2> HIDE DEF v, armed, f
  <2> QED
    BY <1>1, <1>2, WatchHasFields, WatchIsWatch
<1> QED
  BY <1>1, <1>3

\* So does one with another observation or another fingerprint.
LEMMA SeenIsWatch ==
    ASSUME NEW w, IsWatch(w), NEW o
    PROVE  LET v == [w EXCEPT !.observation = o]
           IN  IsWatch(v) /\ v.armed = w.armed /\ v.holdsEdge = w.holdsEdge
<1> DEFINE v == [w EXCEPT !.observation = o]
<1>1. v = Watch(w.session, w.armed, w.holdsEdge, w.fingerprint, o)
  BY WatchHasFields DEF Watch
<1> HIDE DEF v
<1>2. IsWatch(v) /\ v.armed = w.armed /\ v.holdsEdge = w.holdsEdge
  BY <1>1, WatchHasFields, WatchIsWatch
<1> QED
  BY <1>2 DEF v

LEMMA FingerprintedIsWatch ==
    ASSUME NEW w, IsWatch(w), NEW f
    PROVE  LET v == [w EXCEPT !.fingerprint = f]
           IN  IsWatch(v) /\ v.armed = w.armed /\ v.holdsEdge = w.holdsEdge
<1> DEFINE v == [w EXCEPT !.fingerprint = f]
<1>1. v = Watch(w.session, w.armed, w.holdsEdge, f, w.observation)
  BY WatchHasFields DEF Watch
<1> HIDE DEF v
<1>2. IsWatch(v) /\ v.armed = w.armed /\ v.holdsEdge = w.holdsEdge
  BY <1>1, WatchHasFields, WatchIsWatch
<1> QED
  BY <1>2 DEF v

\* A step of the monitor: it takes a command or none, and its watches keep the hints.
LEMMA MonitorKeeps ==
    ASSUME IInv, UNCHANGED <<process, members, starting, restoring, plans, tombstones, worker>>,
           budget' \in Budgets, budget'.panes = budget.panes, budget'.restored = budget.restored,
           RequestsOK', WatchesOK', MonitorOK', edge' \in [Panes -> BOOLEAN],
           NEW taken \in BOOLEAN,
           taken => commands # <<>> /\ commands' = Tail(commands),
           ~taken => UNCHANGED commands,
           \A p \in Panes : HoldsEdge(p)' => HoldsEdge(p) \/ (taken /\ commands[1] = ActivityCommand(p)),
           \A p \in Panes : edge'[p] => edge[p],
           \A p \in Panes :
              edge'[p] /\ (Held(p) \/ (taken /\ commands[1] = ActivityCommand(p))) => Held(p)'
    PROVE  IInv'
<1>1. StartsOnly
  BY DEF StartsOnly, Unstarted, Uncreated, Running
<1>2. HintInv /\ MailboxOK
  BY DEF IInv, TypeInv
<1>3. HintInv' /\ MailboxOK'
  BY <1>1, <1>2, WatchesKeepHints
<1>4. WritersOK' /\ BudgetOK'
  BY DEF IInv, TypeInv, WritersOK, BudgetOK
<1> QED
  BY <1>3, <1>4 DEF IInv, TypeInv

-----------------------------------------------------------------------------
(* The commands of the mailbox *)

\* What a command leaves alone, and what is known of the monitor that takes it.
Takes ==
    /\ commands # <<>> /\ commands' = Tail(commands)
    /\ monitor.pc = "selects"
    /\ UNCHANGED <<process, members, starting, restoring, plans, tombstones, worker, requests, monitor, budget>>

LEMMA TakesKeeps ==
    ASSUME IInv, Takes, WatchesOK', edge' \in [Panes -> BOOLEAN],
           \A p \in Panes : HoldsEdge(p)' => HoldsEdge(p) \/ commands[1] = ActivityCommand(p),
           \A p \in Panes : edge'[p] => edge[p],
           \A p \in Panes : edge'[p] /\ (Held(p) \/ commands[1] = ActivityCommand(p)) => Held(p)'
    PROVE  IInv'
<1>1. MonitorOK'
  BY DEF IInv, TypeInv, MonitorOK, Takes
<1>2. RequestsOK' /\ budget' \in Budgets
  BY DEF IInv, TypeInv, RequestsOK, BudgetOK, Takes
<1>3. PICK taken \in BOOLEAN : taken = TRUE
  OBVIOUS
<1>4. taken => commands # <<>> /\ commands' = Tail(commands)
  BY DEF Takes
<1> QED
  BY <1>1, <1>2, <1>3, <1>4, MonitorKeeps DEF Takes

\* A watch is put in the place of none that holds an edge.
LEMMA WatchTaken ==
    ASSUME IInv, Takes, NEW c \in Command, c = commands[1], c.type = "watch", c.pane \in Panes,
           watches' = [p \in DOMAIN watches \cup {c.pane} |->
                          IF p = c.pane THEN NewWatch(c.session) ELSE watches[p]],
           UNCHANGED edge
    PROVE  IInv'
<1>1. WatchesOK /\ MailboxOK /\ HintInv /\ edge \in [Panes -> BOOLEAN]
  BY DEF IInv, TypeInv, BudgetOK
<1>2. c.session \in Sessions
  BY DEF Command
<1>3. IsWatch(NewWatch(c.session)) /\ ~NewWatch(c.session).holdsEdge
  BY <1>2, NewWatchIsWatch
<1>4. /\ DOMAIN watches' = DOMAIN watches \cup {c.pane}
      /\ watches' = [p \in DOMAIN watches' |-> watches'[p]]
      /\ \A p \in DOMAIN watches' : watches'[p] = IF p = c.pane THEN NewWatch(c.session) ELSE watches[p]
  OBVIOUS
<1>5. WatchesOK'
  BY <1>1, <1>3, <1>4 DEF WatchesOK, IsWatch
<1>6. 1 \in DOMAIN commands
  BY <1>1, TakenCommand DEF Takes
<1>7. ~HoldsEdge(c.pane)
  BY <1>1, <1>6 DEF HintInv, WatchComesFirst
<1>8. \A p \in Panes : commands[1] # ActivityCommand(p)
  BY DEF ActivityCommand
<1>9. \A p \in Panes : HoldsEdge(p)' => HoldsEdge(p)
  BY <1>3, <1>4 DEF HoldsEdge
<1>10. \A p \in Panes : Held(p) => Held(p)'
  BY <1>4, <1>7 DEF Held, HoldsEdge
<1> QED
  BY <1>1, <1>5, <1>8, <1>9, <1>10, TakesKeeps

\* A hint arms the watch of its pane, or gives the edge back if there is none.
LEMMA ActivityTaken ==
    ASSUME IInv, Takes, NEW c \in Command, c = commands[1], c.type = "activity",
           IF c.pane \notin DOMAIN watches THEN edge' = [edge EXCEPT ![c.pane] = FALSE] /\ UNCHANGED watches
           ELSE /\ watches' = [watches EXCEPT ![c.pane].armed = @ \cup {"activity"}, ![c.pane].holdsEdge = TRUE]
                /\ UNCHANGED edge
    PROVE  IInv'
<1>1. WatchesOK /\ MailboxOK /\ HintInv /\ edge \in [Panes -> BOOLEAN]
  BY DEF IInv, TypeInv, BudgetOK
<1>2. PICK q \in Panes : q = c.pane
  BY DEF Command
<1>3. \A p \in Panes : p # q => commands[1] # ActivityCommand(p)
  BY <1>2 DEF ActivityCommand
<1>4. CASE q \notin DOMAIN watches
  <2>1. edge' = [edge EXCEPT ![q] = FALSE] /\ UNCHANGED watches
    BY <1>2, <1>4
  <2>2. edge' \in [Panes -> BOOLEAN] /\ ~edge'[q] /\ \A p \in Panes : edge'[p] => edge[p]
    BY <1>1, <2>1
  <2>3. WatchesOK'
    BY <1>1, <2>1 DEF WatchesOK, IsWatch
  <2>4. \A p \in Panes : (HoldsEdge(p)' <=> HoldsEdge(p)) /\ (Held(p)' <=> Held(p))
    BY <2>1 DEF Held, HoldsEdge
  <2> QED
    BY <1>3, <2>2, <2>3, <2>4, TakesKeeps
<1>5. CASE q \in DOMAIN watches
  <2> DEFINE w == watches[q]
             v == [w EXCEPT !.armed = w.armed \cup {"activity"}, !.holdsEdge = TRUE]
  <2>1. watches' = [watches EXCEPT ![q].armed = @ \cup {"activity"}, ![q].holdsEdge = TRUE] /\ UNCHANGED edge
    BY <1>2, <1>5
  <2>2. watches' = [watches EXCEPT ![q] = v]
    <3> DEFINE half == [watches EXCEPT ![q].armed = @ \cup {"activity"}]
               armed == [w EXCEPT !.armed = w.armed \cup {"activity"}]
    <3>1. half = [watches EXCEPT ![q] = armed]
      OBVIOUS
    <3>2. watches' = [half EXCEPT ![q].holdsEdge = TRUE]
      BY <2>1
    <3>3. v = [armed EXCEPT !.holdsEdge = TRUE]
      OBVIOUS
    <3> HIDE DEF v, armed, half
    <3>4. half[q] = armed /\ DOMAIN half = DOMAIN watches /\ \A p \in DOMAIN watches : p # q => half[p] = watches[p]
      BY <1>1, <1>5, <3>1 DEF WatchesOK
    <3>5. watches' = [half EXCEPT ![q] = v]
      BY <3>2, <3>3, <3>4
    <3> QED
      BY <1>1, <3>4, <3>5 DEF WatchesOK
  <2>3. IsWatch(v) /\ "activity" \in v.armed /\ v.holdsEdge = TRUE
    BY <1>1, <1>5, HintedIsWatch DEF WatchesOK
  <2> HIDE DEF v
  <2>4. /\ DOMAIN watches' = DOMAIN watches /\ watches' = [p \in DOMAIN watches' |-> watches'[p]]
        /\ watches'[q] = v /\ \A p \in DOMAIN watches : p # q => watches'[p] = watches[p]
    BY <1>1, <1>5, <2>2 DEF WatchesOK
  <2>5. WatchesOK'
    BY <1>1, <2>3, <2>4 DEF WatchesOK, IsWatch
  <2>6. commands[1] = ActivityCommand(q)
    BY <1>2 DEF Command, ActivityCommand
  <2>7. \A p \in Panes : HoldsEdge(p)' => HoldsEdge(p) \/ commands[1] = ActivityCommand(p)
    BY <2>4, <2>6 DEF HoldsEdge
  <2>8. \A p \in Panes : Held(p) \/ p = q => Held(p)'
    BY <1>5, <2>3, <2>4 DEF Held, HoldsEdge
  <2> QED
    BY <1>1, <1>3, <2>1, <2>5, <2>7, <2>8, TakesKeeps
<1> QED
  BY <1>4, <1>5

\* Watches that are forgotten release the edges they hold.
LEMMA ForgetTaken ==
    ASSUME IInv, Takes, NEW c \in Command, c = commands[1], c.type # "activity",
           NEW panes, Forget(panes)
    PROVE  IInv'
<1>1. WatchesOK /\ MailboxOK /\ HintInv /\ edge \in [Panes -> BOOLEAN]
  BY DEF IInv, TypeInv, BudgetOK
<1>2. /\ DOMAIN watches' = DOMAIN watches \ panes /\ watches' = [p \in DOMAIN watches' |-> watches'[p]]
      /\ \A p \in DOMAIN watches' : watches'[p] = watches[p]
  BY DEF Forget
<1>3. WatchesOK'
  BY <1>1, <1>2 DEF WatchesOK, IsWatch
<1>4. edge' = [p \in Panes |-> edge[p] /\ ~(p \in panes \cap DOMAIN watches /\ watches[p].holdsEdge)]
  BY DEF Forget, Released
<1>5. edge' \in [Panes -> BOOLEAN] /\ \A p \in Panes : edge'[p] => edge[p]
  <2>1. \A p \in Panes : (edge[p] /\ ~(p \in panes \cap DOMAIN watches /\ watches[p].holdsEdge)) \in BOOLEAN
    OBVIOUS
  <2> QED
    BY <1>4, <2>1
<1>6. \A p \in Panes : commands[1] # ActivityCommand(p)
  BY DEF ActivityCommand
<1>7. \A p \in Panes : HoldsEdge(p)' => HoldsEdge(p)
  BY <1>2 DEF HoldsEdge
<1>8. \A p \in Panes : edge'[p] /\ Held(p) => Held(p)'
  BY <1>2, <1>4 DEF Held, HoldsEdge
<1> QED
  BY <1>3, <1>5, <1>6, <1>7, <1>8, TakesKeeps

\* Watches that go to another session hold the edges they held.
LEMMA TransferTaken ==
    ASSUME IInv, Takes, NEW c \in Command, c = commands[1], c.type # "activity",
           NEW from, NEW to \in Sessions, Transfer(from, to)
    PROVE  IInv'
<1>1. WatchesOK /\ MailboxOK /\ HintInv /\ edge \in [Panes -> BOOLEAN]
  BY DEF IInv, TypeInv, BudgetOK
<1>2. /\ DOMAIN watches' = DOMAIN watches /\ watches' = [p \in DOMAIN watches' |-> watches'[p]]
      /\ \A p \in DOMAIN watches :
            watches'[p] = IF p \in WatchedFor(from) THEN [watches[p] EXCEPT !.session = to] ELSE watches[p]
  BY DEF Transfer
<1>3. \A p \in DOMAIN watches : /\ IsWatch(watches'[p]) /\ watches'[p].armed = watches[p].armed
                                /\ watches'[p].holdsEdge = watches[p].holdsEdge
  <2> SUFFICES ASSUME NEW p \in DOMAIN watches
               PROVE  /\ IsWatch(watches'[p]) /\ watches'[p].armed = watches[p].armed
                      /\ watches'[p].holdsEdge = watches[p].holdsEdge
    OBVIOUS
  <2>1. CASE p \in WatchedFor(from)
    <3> DEFINE v == [watches[p] EXCEPT !.session = to]
    <3>1. watches'[p] = v
      BY <1>2, <2>1
    <3>2. IsWatch(v) /\ v.armed = watches[p].armed /\ v.holdsEdge = watches[p].holdsEdge
      BY <1>1, TransferredIsWatch DEF WatchesOK
    <3> QED
      BY <3>1, <3>2
  <2>2. CASE p \notin WatchedFor(from)
    BY <1>1, <1>2, <2>2 DEF WatchesOK
  <2> QED
    BY <2>1, <2>2
<1>4. WatchesOK'
  BY <1>1, <1>2, <1>3 DEF WatchesOK, IsWatch
<1>5. \A p \in Panes : commands[1] # ActivityCommand(p)
  BY DEF ActivityCommand
<1>6. \A p \in Panes : (HoldsEdge(p)' => HoldsEdge(p)) /\ (Held(p) => Held(p)')
  BY <1>2, <1>3 DEF Held, HoldsEdge
<1>7. UNCHANGED edge
  BY DEF Transfer
<1> QED
  BY <1>1, <1>4, <1>5, <1>6, <1>7, TakesKeeps

\* ProcessMonitor.applyCommand
LEMMA ApplyCommandKeeps ==
    ASSUME IInv, applyCommand
    PROVE  IInv'
<1> DEFINE c == Head(commands)
<1>1. Takes
  BY DEF applyCommand, Takes, MonitorIsIdle, worldVars, daemonVars, goVars, retryVars
<1>2. MailboxOK
  BY DEF IInv, TypeInv
<1>3. c \in Command /\ c = commands[1] /\ 1 \in DOMAIN commands
  BY <1>1, <1>2, TakenCommand DEF Takes
<1>4. c.type \in {"watch", "drop", "unwatch", "activity", "transfer"}
  BY <1>3 DEF Command
<1>5. CASE c.type = "watch"
  <2>1. /\ watches' = [p \in DOMAIN watches \cup {c.pane} |->
                          IF p = c.pane THEN NewWatch(c.session) ELSE watches[p]]
        /\ UNCHANGED edge
    BY <1>5 DEF applyCommand
  <2>2. c.pane \in Panes
    BY <1>2, <1>3, <1>5 DEF MailboxOK
  <2> QED
    BY <1>1, <1>3, <1>5, <2>1, <2>2, WatchTaken
<1>6. CASE c.type = "activity"
  <2>1. IF c.pane \notin DOMAIN watches THEN edge' = [edge EXCEPT ![c.pane] = FALSE] /\ UNCHANGED watches
        ELSE /\ watches' = [watches EXCEPT ![c.pane].armed = @ \cup {"activity"}, ![c.pane].holdsEdge = TRUE]
             /\ UNCHANGED edge
    BY <1>6 DEF applyCommand
  <2> HIDE DEF c
  <2> QED
    BY <1>1, <1>3, <1>6, <2>1, ActivityTaken
<1>7. CASE c.type = "unwatch"
  <2>1. Forget({c.pane})
    BY <1>7 DEF applyCommand
  <2> HIDE DEF c
  <2> QED
    BY <1>1, <1>3, <1>7, <2>1, ForgetTaken
<1>8. CASE c.type = "drop"
  <2>1. Forget(WatchedFor(c.session))
    BY <1>8 DEF applyCommand
  <2> HIDE DEF c
  <2> QED
    BY <1>1, <1>3, <1>8, <2>1, ForgetTaken
<1>9. CASE c.type = "transfer"
  <2>1. Transfer(c.session, c.pane)
    BY <1>9 DEF applyCommand
  <2>2. c.pane \in Sessions
    BY <1>3, <1>9 DEF Command
  <2> HIDE DEF c
  <2> QED
    BY <1>1, <1>3, <1>9, <2>1, <2>2, TransferTaken
<1> QED
  BY <1>4, <1>5, <1>6, <1>7, <1>8, <1>9

-----------------------------------------------------------------------------
(* Timers and observations *)

\* A step of the monitor that takes no command.
LEMMA WorkKeeps ==
    ASSUME IInv, UNCHANGED <<process, members, starting, restoring, plans, tombstones, worker, commands>>,
           budget' \in Budgets, budget'.panes = budget.panes, budget'.restored = budget.restored,
           RequestsOK', WatchesOK', MonitorOK', edge' \in [Panes -> BOOLEAN],
           \A p \in Panes : HoldsEdge(p)' => HoldsEdge(p),
           \A p \in Panes : edge'[p] => edge[p],
           \A p \in Panes : edge'[p] /\ Held(p) => Held(p)'
    PROVE  IInv'
<1>1. PICK taken \in BOOLEAN : taken = FALSE
  OBVIOUS
<1>2. UNCHANGED <<process, members, starting, restoring, plans, tombstones, worker>> /\ UNCHANGED commands
  OBVIOUS
<1> QED
  BY <1>1, <1>2, MonitorKeeps

\* A step that changes only what the monitor is about.
LEMMA ThinkingKeeps ==
    ASSUME IInv, UNCHANGED <<process, members, starting, restoring, requests, plans, tombstones, worker,
                             commands, watches, edge>>,
           budget' \in Budgets, budget'.panes = budget.panes, budget'.restored = budget.restored, MonitorOK'
    PROVE  IInv'
<1>1. RequestsOK' /\ WatchesOK' /\ edge' \in [Panes -> BOOLEAN]
  BY DEF IInv, TypeInv, RequestsOK, WatchesOK, IsWatch, BudgetOK
<1>2. \A p \in Panes : (HoldsEdge(p)' <=> HoldsEdge(p)) /\ (Held(p)' <=> Held(p))
  BY DEF Held, HoldsEdge
<1> QED
  BY <1>1, <1>2, WorkKeeps

\* ProcessMonitor.reconcile
LEMMA ReconcileKeeps ==
    ASSUME IInv, reconcile
    PROVE  IInv'
<1>1. UNCHANGED <<process, members, starting, restoring, requests, plans, tombstones, worker, commands,
                  watches, edge, budget>>
  BY DEF reconcile, worldVars, daemonVars, goVars, retryVars
<1>2. DOMAIN watches # {} /\ monitor' = Observing(DOMAIN watches, {})
  BY DEF reconcile
<1>3. MonitorOK'
  BY <1>1, <1>2 DEF MonitorOK, Observing
<1> QED
  BY <1>1, <1>3, ThinkingKeeps DEF IInv, TypeInv, BudgetOK

\* ProcessMonitor.refreshDue: the edge of an activity timer that was due is released with
\* the watch that held it.
LEMMA RefreshDueKeeps ==
    ASSUME IInv, refreshDue
    PROVE  IInv'
<1> DEFINE Due(due) == {p \in Panes : due[p] # {}}
           Batch(due) == {p \in Due(due) : NeedsScan(p, due[p])}
           Cached(due) == {p \in Due(due) : IsShellAgain(p, due[p])}
           After(p, due) == AfterTimers(watches[p], due[p])
           Seen(p, due) == shellOwnedObservation(After(p, due))
           Fingerprint(p, due) == fingerprintProcessObservation(Seen(p, due))
<1>1. PICK due \in [Panes -> SUBSET Timers] :
        /\ \A p \in Due(due) : p \in DOMAIN watches /\ due[p] \subseteq watches[p].armed
        /\ edge' = Released({p \in Due(due) : "activity" \in due[p]})
        /\ watches' = [p \in DOMAIN watches |->
              IF p \notin Due(due) THEN watches[p]
              ELSE IF p \notin Cached(due) THEN After(p, due)
              ELSE [After(p, due) EXCEPT !.observation = Seen(p, due), !.fingerprint = Fingerprint(p, due)]]
        /\ monitor' = IF Batch(due) \cup Cached(due) = {} THEN monitor ELSE Observing(Batch(due), Cached(due))
  BY DEF refreshDue
<1> DEFINE D == Due(due)
           B == Batch(due)
           C == Cached(due)
<1>2. UNCHANGED <<process, members, starting, restoring, requests, plans, tombstones, worker, commands, budget>>
  BY DEF refreshDue, worldVars, daemonVars, goVars, retryVars
<1>3. WatchesOK /\ MonitorOK /\ BudgetOK /\ monitor.pc = "selects"
  BY DEF IInv, TypeInv, refreshDue, MonitorIsIdle
<1>4. D \subseteq DOMAIN watches /\ B \subseteq D /\ C \subseteq D
      /\ \A p \in Panes : p \notin D => due[p] = {}
  BY <1>1
<1>5. \A p \in DOMAIN watches :
         /\ IsWatch(watches'[p])
         /\ watches'[p].holdsEdge <=> watches[p].holdsEdge /\ "activity" \notin due[p]
         /\ "activity" \in watches[p].armed \ due[p] => "activity" \in watches'[p].armed
  <2> SUFFICES ASSUME NEW p \in DOMAIN watches
               PROVE  /\ IsWatch(watches'[p])
                      /\ watches'[p].holdsEdge <=> watches[p].holdsEdge /\ "activity" \notin due[p]
                      /\ "activity" \in watches[p].armed \ due[p] => "activity" \in watches'[p].armed
    OBVIOUS
  <2> DEFINE w == After(p, due)
             v == [w EXCEPT !.observation = Seen(p, due), !.fingerprint = Fingerprint(p, due)]
  <2>1. p \in Panes /\ IsWatch(watches[p]) /\ due[p] \in SUBSET Timers
    BY <1>3 DEF WatchesOK
  <2>2. watches'[p] = IF p \notin D THEN watches[p] ELSE IF p \notin C THEN w ELSE v
    BY <1>1
  <2>3. /\ IsWatch(w) /\ (w.holdsEdge <=> watches[p].holdsEdge /\ "activity" \notin due[p])
        /\ "activity" \in watches[p].armed \ due[p] => "activity" \in w.armed
    BY <2>1, TimedIsWatch
  <2>4. IsWatch(v) /\ v.armed = w.armed /\ v.holdsEdge = w.holdsEdge
    <3> DEFINE o == Seen(p, due)
               f == Fingerprint(p, due)
               u == [w EXCEPT !.observation = o]
    <3>1. v = [u EXCEPT !.fingerprint = f]
      OBVIOUS
    <3>2. IsWatch(u) /\ u.armed = w.armed /\ u.holdsEdge = w.holdsEdge
      <4> HIDE DEF w, o
      <4> QED
        BY <2>3, SeenIsWatch
    <3> HIDE DEF u, v, w, o, f
    <3> QED
      BY <3>1, <3>2, FingerprintedIsWatch
  <2> HIDE DEF w, v, C
  <2>5. CASE p \notin D
    BY <1>4, <2>1, <2>2, <2>5
  <2>6. CASE p \in D
    BY <2>2, <2>3, <2>4, <2>6
  <2> QED
    BY <2>5, <2>6
<1>6. DOMAIN watches' = DOMAIN watches /\ watches' = [p \in DOMAIN watches' |-> watches'[p]]
  BY <1>1
<1>7. WatchesOK'
  BY <1>3, <1>5, <1>6 DEF WatchesOK, IsWatch
<1>8. MonitorOK'
  <2> HIDE DEF B, C
  <2>1. monitor' = IF B \cup C = {} THEN monitor ELSE Observing(B, C)
    BY <1>1 DEF B, C
  <2>2. CASE B \cup C = {}
    BY <1>3, <1>6, <2>1, <2>2 DEF MonitorOK
  <2>3. CASE B \cup C # {}
    BY <1>4, <1>6, <2>1, <2>3 DEF MonitorOK, Observing
  <2> QED
    BY <2>2, <2>3
<1>9. \A p \in Panes : edge'[p] = (edge[p] /\ ~(p \in D /\ "activity" \in due[p] /\ HoldsEdge(p)))
  BY <1>1, <1>4 DEF Released, HoldsEdge
<1>10. edge' \in [Panes -> BOOLEAN]
  <2> DEFINE E(p) == edge[p] /\ ~(p \in {q \in D : "activity" \in due[q]} \cap DOMAIN watches /\ watches[p].holdsEdge)
  <2>1. \A p \in Panes : E(p) \in BOOLEAN
    OBVIOUS
  <2>2. edge' = [p \in Panes |-> E(p)]
    BY <1>1 DEF Released
  <2> HIDE DEF E
  <2> QED
    BY <2>1, <2>2
<1>11. \A p \in Panes : HoldsEdge(p)' => HoldsEdge(p)
  BY <1>5, <1>6 DEF HoldsEdge
<1>12. \A p \in Panes : edge'[p] /\ Held(p) => Held(p)'
  <2> SUFFICES ASSUME NEW p \in Panes, edge'[p], Held(p)
               PROVE  Held(p)'
    OBVIOUS
  <2>1. p \in DOMAIN watches /\ watches[p].holdsEdge /\ "activity" \in watches[p].armed
    BY DEF Held, HoldsEdge
  <2>2. "activity" \notin due[p]
    BY <1>4, <1>9 DEF Held
  <2> QED
    BY <1>5, <1>6, <2>1, <2>2 DEF Held, HoldsEdge
<1>13. RequestsOK' /\ \A p \in Panes : edge'[p] => edge[p]
  BY <1>2, <1>9 DEF IInv, TypeInv, RequestsOK
<1> QED
  BY <1>2, <1>3, <1>7, <1>8, <1>10, <1>11, <1>12, <1>13, WorkKeeps DEF BudgetOK

-----------------------------------------------------------------------------
(* Attempts to observe a batch *)

\* What the monitor turns to within the same batch, of which it has less to do.
About(m) ==
    /\ m = [pc |-> m.pc, batch |-> m.batch, pending |-> m.pending, attempt |-> m.attempt,
            snapshot |-> m.snapshot, results |-> m.results, deliveries |-> m.deliveries]
    /\ m.batch = monitor.batch /\ m.deliveries = monitor.deliveries /\ m.pending \subseteq m.batch

LEMMA StillAbout ==
    ASSUME NEW m, About(m), NEW x
    PROVE  /\ LET v == [m EXCEPT !.attempt = x] IN About(v) /\ v.pc = m.pc
           /\ LET v == [m EXCEPT !.snapshot = x] IN About(v) /\ v.pc = m.pc
           /\ LET v == [m EXCEPT !.results = x] IN About(v) /\ v.pc = m.pc /\ v.pending = m.pending
           /\ LET v == [m EXCEPT !.pc = x] IN About(v) /\ v.pc = x
           /\ x \subseteq m.pending => LET v == [m EXCEPT !.pending = x] IN About(v) /\ v.pc = m.pc
<1>1. LET v == [m EXCEPT !.attempt = x] IN About(v) /\ v.pc = m.pc
  BY DEF About
<1>2. LET v == [m EXCEPT !.snapshot = x] IN About(v) /\ v.pc = m.pc
  BY DEF About
<1>3. LET v == [m EXCEPT !.results = x] IN About(v) /\ v.pc = m.pc /\ v.pending = m.pending
  BY DEF About
<1>4. LET v == [m EXCEPT !.pc = x] IN About(v) /\ v.pc = x
  BY DEF About
<1>5. x \subseteq m.pending => LET v == [m EXCEPT !.pending = x] IN About(v) /\ v.pc = m.pc
  BY DEF About
<1> QED
  BY <1>1, <1>2, <1>3, <1>4, <1>5

\* Some panes have got their results.
LEMMA WithResultsIsAbout ==
    ASSUME About(monitor), NEW results, NEW pc
    PROVE  About(WithResults(results, pc)) /\ WithResults(results, pc).pc = pc
<1> DEFINE u == [monitor EXCEPT !.results = results @@ @]
           v == [u EXCEPT !.pending = @ \ DOMAIN results]
           w == [v EXCEPT !.pc = pc]
<1>1. About(u) /\ u.pending = monitor.pending
  BY StillAbout
<1>2. About(v)
  <2> DEFINE x == u.pending \ DOMAIN results
  <2>1. x \subseteq u.pending /\ v = [u EXCEPT !.pending = x]
    OBVIOUS
  <2> HIDE DEF u, v, x
  <2> QED
    BY <1>1, <2>1, StillAbout
<1>3. About(w) /\ w.pc = pc
  <2> HIDE DEF v
  <2> QED
    BY <1>2, StillAbout
<1>4. WithResults(results, pc) = w
  BY DEF WithResults
<1> HIDE DEF w
<1> QED
  BY <1>3, <1>4

\* What is left is observed again, or the batch has its results.
LEMMA AttemptEndsIsAbout ==
    ASSUME About(monitor), NEW results
    PROVE  About(AttemptEnds(results)) /\ AttemptEnds(results).pc \in {"scans", "ends"}
<1> DEFINE m == WithResults(results, "scans")
           again == [m EXCEPT !.attempt = @ + 1, !.snapshot = <<>>]
           ends == [m EXCEPT !.results = [p \in m.pending |-> unstable] @@ @, !.pending = {},
                             !.snapshot = <<>>, !.pc = "ends"]
<1>1. AttemptEnds(results) = IF m.pending # {} /\ m.attempt < Retries THEN again ELSE ends
  BY DEF AttemptEnds
<1>2. About(m) /\ m.pc = "scans"
  BY WithResultsIsAbout
<1> HIDE DEF m
<1>3. About(again) /\ again.pc = "scans"
  <2> DEFINE u == [m EXCEPT !.attempt = @ + 1]
  <2>1. About(u) /\ u.pc = "scans"
    BY <1>2, StillAbout
  <2>2. again = [u EXCEPT !.snapshot = <<>>]
    OBVIOUS
  <2> HIDE DEF u, again
  <2> QED
    BY <2>1, <2>2, StillAbout
<1>4. About(ends) /\ ends.pc = "ends"
  <2> DEFINE t == [m EXCEPT !.results = [p \in m.pending |-> unstable] @@ @]
             u == [t EXCEPT !.pending = {}]
             v == [u EXCEPT !.snapshot = <<>>]
  <2>1. About(t)
    BY <1>2, StillAbout
  <2>2. About(u)
    <3> HIDE DEF t
    <3>1. {} \subseteq t.pending
      OBVIOUS
    <3> QED
      BY <2>1, <3>1, StillAbout
  <2>3. About(v)
    <3> HIDE DEF u
    <3> QED
      BY <2>2, StillAbout
  <2>4. ends = [v EXCEPT !.pc = "ends"]
    OBVIOUS
  <2> HIDE DEF v, ends
  <2> QED
    BY <2>3, <2>4, StillAbout
<1> HIDE DEF again, ends
<1> QED
  BY <1>1, <1>3, <1>4

\* Results and a snapshot.
LEMMA SnapshotIsAbout ==
    ASSUME About(monitor), NEW results, NEW pc, NEW snapshot
    PROVE  LET v == [WithResults(results, pc) EXCEPT !.snapshot = snapshot] IN About(v) /\ v.pc = pc
<1> DEFINE u == WithResults(results, pc)
<1>1. About(u) /\ u.pc = pc
  BY WithResultsIsAbout
<1> HIDE DEF u
<1>2. LET v == [u EXCEPT !.snapshot = snapshot] IN About(v) /\ v.pc = u.pc
  BY <1>1, StillAbout
<1> QED
  BY <1>1, <1>2 DEF u

\* The monitor goes on with its batch.
LEMMA BatchGoesOn ==
    ASSUME IInv, UNCHANGED <<process, members, starting, restoring, requests, plans, tombstones, worker,
                             commands, watches, edge>>,
           budget' \in Budgets, budget'.panes = budget.panes, budget'.restored = budget.restored,
           About(monitor'), monitor'.pc \in {"scans", "reads", "compares", "ends"}
    PROVE  IInv'
<1>1. MonitorOK'
  BY DEF IInv, TypeInv, MonitorOK, About
<1> QED
  BY <1>1, ThinkingKeeps

\* The first snapshot, the reading of the processes and the second snapshot.
LEMMA ScansKeep ==
    ASSUME IInv, ScanBefore \/ ReadProcesses \/ ScanAfter
    PROVE  IInv'
<1>1. UNCHANGED <<process, members, starting, restoring, requests, plans, tombstones, worker, commands,
                  watches, edge>>
  BY DEF ScanBefore, ReadProcesses, ScanAfter, worldVars, daemonVars, goVars, retryVars
<1>2. UNCHANGED budget \/ Spend("failures")
  BY DEF ScanBefore, ReadProcesses, ScanAfter
<1>3. budget' \in Budgets /\ budget'.panes = budget.panes /\ budget'.restored = budget.restored
  BY <1>2, SpendKeepsBudget DEF IInv, TypeInv, BudgetOK
<1>4. About(monitor)
  BY DEF IInv, TypeInv, MonitorOK, About
<1>5. \/ \E results : monitor' = AttemptEnds(results)
      \/ \E results, snapshot : \E pc \in {"reads", "compares"} :
            monitor' = [WithResults(results, pc) EXCEPT !.snapshot = snapshot]
  <2>1. CASE ScanBefore
    <3> DEFINE there == {p \in monitor.pending : Running(p)}
               gone == [p \in monitor.pending \ there |-> unavailable]
               none == [p \in monitor.pending |-> unavailable]
    <3>1. \/ monitor' = AttemptEnds(gone) \/ monitor' = AttemptEnds(none)
          \/ monitor' = [WithResults(gone, "reads") EXCEPT !.snapshot = [p \in there |-> job[p]]]
      BY <2>1 DEF ScanBefore
    <3> HIDE DEF there, gone, none
    <3> QED
      BY <3>1
  <2>2. CASE ReadProcesses
    <3> DEFINE there == DOMAIN monitor.snapshot
               lost == {p \in there : ~Running(p)}
               IsStable(p) == Foreground(p) = monitor.snapshot[p].group
                              /\ Ids(monitor.snapshot[p]) \subseteq Ids(job[p])
               kept == {p \in there \ lost : IsStable(p)}
               ProgramOf(p, c) == (CHOOSE d \in job[p].children : d.id = c.id).program
               gone == [p \in lost |-> unavailable]
               u == WithResults(gone, "compares")
               read == [p \in kept |->
                          [group |-> u.snapshot[p].group,
                           children |-> {[id |-> c.id, program |-> c.program, command |-> ProgramOf(p, c)] :
                                            c \in u.snapshot[p].children}]]
    <3>1. \/ monitor' = AttemptEnds(gone)
          \/ monitor' = [u EXCEPT !.snapshot = read]
      BY <2>2, Zenon DEF ReadProcesses
    <3> HIDE DEF gone, read
    <3> QED
      BY <3>1
  <2>3. CASE ScanAfter
    <3> DEFINE same == {p \in DOMAIN monitor.snapshot : SameGroup(p)}
               found == [p \in same |-> classifyPreparedProcObservation(monitor.snapshot[p])]
               none == [p \in DOMAIN monitor.snapshot |-> unavailable]
    <3>1. monitor' = AttemptEnds(found) \/ monitor' = AttemptEnds(none)
      BY <2>3 DEF ScanAfter
    <3> HIDE DEF found, none
    <3> QED
      BY <3>1
  <2> QED
    BY <2>1, <2>2, <2>3
<1>6. About(monitor') /\ monitor'.pc \in {"scans", "reads", "compares", "ends"}
  <2>1. CASE \E results : monitor' = AttemptEnds(results)
    BY <1>4, <2>1, AttemptEndsIsAbout
  <2>2. CASE \E results, snapshot : \E pc \in {"reads", "compares"} :
                monitor' = [WithResults(results, pc) EXCEPT !.snapshot = snapshot]
    <3>1. PICK results, snapshot : \E pc \in {"reads", "compares"} :
                monitor' = [WithResults(results, pc) EXCEPT !.snapshot = snapshot]
      BY <2>2
    <3>2. PICK pc \in {"reads", "compares"} :
                monitor' = [WithResults(results, pc) EXCEPT !.snapshot = snapshot]
      BY <3>1
    <3> DEFINE v == [WithResults(results, pc) EXCEPT !.snapshot = snapshot]
    <3>3. About(v) /\ v.pc = pc
      BY <1>4, SnapshotIsAbout
    <3>4. monitor' = v
      BY <3>2
    <3> HIDE DEF v
    <3> QED
      BY <3>3, <3>4
  <2> QED
    BY <1>5, <2>1, <2>2
<1> QED
  BY <1>1, <1>3, <1>6, BatchGoesOn

\* The end of observeDeep: the watches have what was observed, and keep their edges.
LEMMA ObserveDeepKeeps ==
    ASSUME IInv, observeDeep
    PROVE  IInv'
<1>1. /\ UNCHANGED <<process, members, starting, restoring, requests, plans, tombstones, worker, commands,
                     edge, budget>>
      /\ watches' = [p \in DOMAIN watches |->
            IF p \in monitor.batch THEN Observed(watches[p], monitor.results[p]) ELSE watches[p]]
      /\ monitor' = [Observing({}, monitor.deliveries \cup monitor.batch) EXCEPT !.pc = "delivers"]
  BY DEF observeDeep, worldVars, daemonVars, goVars, retryVars
<1>2. WatchesOK /\ MonitorOK /\ RequestsOK /\ BudgetOK
  BY DEF IInv, TypeInv
<1>3. \A p \in DOMAIN watches : /\ IsWatch(watches'[p]) /\ watches[p].armed \subseteq watches'[p].armed
                                /\ watches'[p].holdsEdge = watches[p].holdsEdge
  <2> SUFFICES ASSUME NEW p \in DOMAIN watches
               PROVE  /\ IsWatch(watches'[p]) /\ watches[p].armed \subseteq watches'[p].armed
                      /\ watches'[p].holdsEdge = watches[p].holdsEdge
    OBVIOUS
  <2> DEFINE v == Observed(watches[p], monitor.results[p])
  <2>1. IsWatch(watches[p]) /\ watches'[p] = IF p \in monitor.batch THEN v ELSE watches[p]
    BY <1>1, <1>2 DEF WatchesOK
  <2>2. IsWatch(v) /\ watches[p].armed \subseteq v.armed /\ v.holdsEdge = watches[p].holdsEdge
    BY <2>1, ObservedIsWatch
  <2> HIDE DEF v
  <2> QED
    BY <2>1, <2>2
<1>4. DOMAIN watches' = DOMAIN watches /\ watches' = [p \in DOMAIN watches' |-> watches'[p]]
  BY <1>1
<1>5. WatchesOK'
  BY <1>2, <1>3, <1>4 DEF WatchesOK, IsWatch
<1>6. MonitorOK'
  BY <1>1, <1>2, <1>4 DEF MonitorOK, Observing
<1>7. \A p \in Panes : (HoldsEdge(p)' => HoldsEdge(p)) /\ (Held(p) => Held(p)')
  BY <1>3, <1>4 DEF Held, HoldsEdge
<1>8. RequestsOK' /\ edge' \in [Panes -> BOOLEAN]
  BY <1>1, <1>2 DEF RequestsOK, BudgetOK
<1> QED
  BY <1>1, <1>2, <1>5, <1>6, <1>7, <1>8, WorkKeeps DEF BudgetOK

\* ProcessMonitor.deliver
LEMMA DeliverKeeps ==
    ASSUME IInv, NEW p \in Panes, deliver(p)
    PROVE  IInv'
<1> DEFINE r == [type |-> "observation", session |-> watches[p].session, pane |-> p,
                 observation |-> watches[p].observation]
           v == [monitor EXCEPT !.deliveries = @ \ {p}]
<1>1. /\ UNCHANGED <<process, members, starting, restoring, plans, tombstones, worker, commands, watches,
                     edge, budget>>
      /\ monitor.pc = "delivers" /\ RequestsHaveRoom /\ requests' = Append(requests, r)
      /\ monitor' = [v EXCEPT !.pc = IF monitor.deliveries = {p} THEN "selects" ELSE @]
  BY DEF deliver, worldVars, daemonVars, goVars, retryVars
<1>2. WatchesOK /\ MonitorOK /\ RequestsOK /\ BudgetOK
  BY DEF IInv, TypeInv
<1>3. RequestsOK'
  <2>1. r.pane \in Panes
    OBVIOUS
  <2> HIDE DEF r
  <2> QED
    BY <1>1, <1>2, <2>1, AppendedRequest
<1>4. /\ v = [pc |-> v.pc, batch |-> v.batch, pending |-> v.pending, attempt |-> v.attempt,
              snapshot |-> v.snapshot, results |-> v.results, deliveries |-> v.deliveries]
      /\ v.pc = "delivers" /\ v.batch = {} /\ v.pending = {}
      /\ v.deliveries = monitor.deliveries \ {p}
  <2> DEFINE d == monitor.deliveries \ {p}
  <2>1. v = [pc |-> monitor.pc, batch |-> monitor.batch, pending |-> monitor.pending,
             attempt |-> monitor.attempt, snapshot |-> monitor.snapshot,
             results |-> monitor.results, deliveries |-> d]
    <3>1. v = [monitor EXCEPT !.deliveries = d]
      OBVIOUS
    <3> HIDE DEF v, d
    <3> QED
      BY <1>2, <3>1 DEF MonitorOK
  <2>2. monitor.batch = {} /\ monitor.pending = {}
    BY <1>1, <1>2 DEF MonitorOK
  <2> HIDE DEF v, d
  <2>3. v.deliveries = d
    BY <2>1
  <2> QED
    BY <1>1, <2>1, <2>2, <2>3 DEF d
<1>5. MonitorOK'
  <2> HIDE DEF v, r
  <2>1. monitor' = [v EXCEPT !.pc = IF monitor.deliveries = {p} THEN "selects" ELSE "delivers"]
    BY <1>1, <1>4
  <2> QED
    BY <1>1, <1>2, <1>4, <2>1 DEF MonitorOK
<1>6. WatchesOK' /\ edge' \in [Panes -> BOOLEAN]
  BY <1>1, <1>2 DEF WatchesOK, IsWatch, BudgetOK
<1>7. \A q \in Panes : (HoldsEdge(q)' <=> HoldsEdge(q)) /\ (Held(q)' <=> Held(q))
  BY <1>1 DEF Held, HoldsEdge
<1> QED
  BY <1>1, <1>2, <1>3, <1>5, <1>6, <1>7, WorkKeeps DEF BudgetOK

-----------------------------------------------------------------------------
(* The theorems *)

\* Nothing is watched, sent or hinted at first.
LEMMA InitHasInvariant ==
    ASSUME Init
    PROVE  IInv
<1>1. budget \in Budgets /\ budget.panes \cap budget.restored = {}
  BY DEF Init
<1>2. MailboxOK /\ RequestsOK /\ WritersOK
  <2>1. commands = <<>> /\ requests = <<>> /\ restoring = <<>>
    BY DEF Init
  <2>2. MailboxOK /\ RequestsOK
    BY <2>1 DEF MailboxOK, RequestsOK, ToSet
  <2>3. members \subseteq Sessions
    BY <1>1 DEF Init, Budgets
  <2> QED
    BY <2>1, <2>2, <2>3 DEF Init, WritersOK
<1>3. DOMAIN watches = {} /\ WatchesOK
  <2>1. watches = <<>>
    BY DEF Init
  <2> QED
    BY <2>1 DEF WatchesOK
<1>4. MonitorOK
  BY <1>3 DEF Init, MonitorOK, Observing
<1>5. BudgetOK
  BY <1>1 DEF Init, BudgetOK
<1>6. HintInv
  BY <1>3 DEF Init, HintInv, NothingUnstartedHints, HintFree, HoldsEdge, Running, WatchComesFirst,
              EdgeIsReleased
<1> QED
  BY <1>2, <1>3, <1>4, <1>5, <1>6 DEF IInv, TypeInv

\* Every step keeps the invariant.
LEMMA NextKeepsInvariant ==
    ASSUME IInv, [Next]_vars
    PROVE  IInv'
<1>1. CASE Outside
  <2>1. ASSUME NEW p \in Panes, Jobs(p) \/ ShellExits(p) \/ notifyProcessActivity(p) \/ KillPane(p)
        PROVE  IInv'
    BY <2>1, ProcessesKeep, NotifyKeeps
  <2>2. ASSUME NEW s \in Sessions, CloseSession(s)
        PROVE  IInv'
    BY <2>2, SessionEndsKeep
  <2> QED
    BY <1>1, <2>1, <2>2, CreationsKeep DEF Outside
<1>2. CASE GoStep
  <2>1. CASE \E p \in Panes : startPane(p) \/ postPaneProcessExit(p)
    BY <2>1, StartsKeep, ExitsKeep
  <2>2. CASE \E s \in Sessions : shutdownSessionInActor(s)
    BY <2>2, SessionEndsKeep
  <2>3. CASE \E plan \in plans : applySessionShutdownPlan(plan)
    BY <2>3, ShutdownPlansKeep
  <2> QED
    BY <1>2, <2>1, <2>2, <2>3 DEF GoStep
<1>3. CASE DaemonStep
  BY <1>3, StartsKeep, RequestsKeep DEF DaemonStep
<1>4. CASE runUnwatchRetry
  BY <1>4, UnwatchRetryKeeps
<1>5. CASE applyCommand \/ refreshDue \/ reconcile
  BY <1>5, ApplyCommandKeeps, RefreshDueKeeps, ReconcileKeeps
<1>6. CASE MonitorStep
  BY <1>6, ScansKeep, ObserveDeepKeeps, DeliverKeeps DEF MonitorStep
<1>7. CASE UNCHANGED vars
  <2>1. UNCHANGED <<process, members, starting, restoring, requests, plans, tombstones, worker, commands,
                    watches, edge, budget, monitor>>
    BY <1>7 DEF vars, worldVars, daemonVars, goVars, retryVars, monitorVars
  <2>2. NothingBegins
    BY <2>1 DEF NothingBegins, IInv, TypeInv, BudgetOK, Running
  <2> QED
    BY <2>1, <2>2, NothingBeginsKeeps DEF IInv, TypeInv, WritersOK
<1> QED
  BY <1>1, <1>2, <1>3, <1>4, <1>5, <1>6, <1>7 DEF Next

\* The invariant has the types of the run and the property it is about.
LEMMA InvariantIsEnough ==
    ASSUME IInv
    PROVE  HintsStayPossible
<1>1. TypeOK
  BY DEF IInv, TypeInv, MailboxOK, RequestsOK, WritersOK, WatchesOK, IsWatch, MonitorOK, TypeOK
<1> QED
  BY <1>1 DEF IInv, HintInv, HintsStayPossible

\* The mailbox and the daemon's requests keep their bounds, and a pane whose edge is set has
\* a hint on its way or a watch that will release the edge: however the mailbox is full,
\* sessions end or panes go (notifyProcessActivity, applyCommand and releaseActivityEdge).
THEOREM HintsArePossible == Spec => []HintsStayPossible
<1>1. Init => IInv
  BY InitHasInvariant
<1>2. IInv /\ [Next]_vars => IInv'
  BY NextKeepsInvariant
<1>3. IInv => HintsStayPossible
  BY InvariantIsEnough
<1> QED
  BY <1>1, <1>2, <1>3, PTL DEF Spec

\* The commands of the mailbox come in the order their pane needs: no hint of a pane comes
\* before the watch that is to take it, and a watch replaces none that holds an edge
\* (startPane, restoreSessionPlan and applyCommand).
THEOREM WatchesComeFirst == Spec => []WatchComesFirst
<1>1. Init => IInv
  BY InitHasInvariant
<1>2. IInv /\ [Next]_vars => IInv'
  BY NextKeepsInvariant
<1>3. IInv => WatchComesFirst
  BY DEF IInv, HintInv
<1> QED
  BY <1>1, <1>2, <1>3, PTL DEF Spec

=============================================================================
