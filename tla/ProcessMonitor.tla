--------------------------- MODULE ProcessMonitor ---------------------------
(***************************************************************************)
(* The process monitor: one actor that watches the processes of every pane,   *)
(* wakes up on hints and timers, takes two snapshots of the process table      *)
(* around what it reads, and posts what it has seen to the daemon, which       *)
(* names windows and saves commands after it.  The daemon, the goroutines that   *)
(* start and end panes and sessions, and the worker that retries unwatches talk   *)
(* to it through a bounded mailbox.                                             *)
(*                                                                         *)
(* The processes of a pane are its shell and the children of the shell in the     *)
(* foreground; they change at any time.  Every pane runs a shell, and is a window  *)
(* of its own.  Directories, the portable process table and the length of delays   *)
(* are left out.                                                                *)
(***************************************************************************)
EXTENDS Integers, Sequences, FiniteSets, SequencesExt

CONSTANTS
    Panes, Sessions, None,
    GroupOf,       \* the group of each session
    Programs,      \* what children of the shell run
    Transient,     \* programs that are not saved
    Shell,         \* the name of a shell
    MailboxSize,   \* cap(ProcessMonitor.commands)
    RequestsSize,  \* cap(Daemon.requests)
    Retries,       \* observationRetries
    StableSamples, \* processSaveStableSamples
    Scenarios      \* bounds: some Budgets

\* The sessions that live at first, the panes that may be created or restored, and how
\* often each thing outside the monitor happens.
Budgets ==
    [sessions : SUBSET Sessions, panes : SUBSET Panes, restored : SUBSET Panes, jobs : Nat, exits : Nat,
     hints : Nat, kills : Nat, shutdowns : Nat, failures : Nat]

ASSUME ProcessMonitorAssumption ==
    /\ IsFiniteSet(Panes) /\ Sessions = DOMAIN GroupOf
    /\ None \notin Sessions
    /\ Transient \subseteq Programs /\ Shell \notin Programs
    /\ MailboxSize \in Nat \ {0} /\ RequestsSize \in Nat \ {0} /\ Retries \in Nat \ {0}
    /\ Scenarios \subseteq Budgets
    \* A pane is created or restored once.
    /\ \A b \in Scenarios : b.panes \cap b.restored = {}

VARIABLES
    \* processes: those of the panes, and their jobs in the foreground
    process, job,
    \* the daemon: sessions, the group of each pane in its graph, the restored panes it
    \* has yet to start in this turn, requests, and what it makes of observations
    members, graph, restoring, requests, candidates, saved, windowName,
    \* goroutines: panes being started, and for which session; panes whose exit has been
    \* posted; sessions to shut down; what the monitor has yet to be told of shutdowns
    starting, exited, closing, plans,
    \* unwatches that found the mailbox full, and the worker that retries them
    tombstones, wake, worker,
    \* Pane.processActivityPending
    edge,
    \* the monitor: its mailbox, the watches by pane, what it is about
    commands, watches, monitor,
    \* what may still happen
    budget

worldVars == <<process, job>>
daemonVars == <<members, graph, candidates, saved, windowName>>
goVars == <<starting, exited, closing, plans>>
retryVars == <<tombstones, wake, worker>>
monitorVars == <<watches, monitor>>
vars == <<worldVars, daemonVars, restoring, requests, goVars, retryVars, edge, commands, monitorVars, budget>>

Groups == {GroupOf[s] : s \in Sessions}
MembersOf(g) == {s \in members : GroupOf[s] = g}
PanesOf(g) == {p \in Panes : graph[p] = g}

\* A shell that has the terminal: process group zero stands for its own.
Idle == [group |-> 0, children |-> {}]
Ids(j) == {c.id : c \in j.children}

MailboxHasRoom == Len(commands) < MailboxSize
RequestsHaveRoom == Len(requests) < RequestsSize
DaemonIsFree == restoring = <<>>

Spend(what) == budget[what] > 0 /\ budget' = [budget EXCEPT ![what] = @ - 1]

-----------------------------------------------------------------------------
(* Commands of the mailbox *)

WatchCommand(s, p) == [type |-> "watch", session |-> s, pane |-> p]
UnwatchCommand(p) == [type |-> "unwatch", session |-> None, pane |-> p]
ActivityCommand(p) == [type |-> "activity", session |-> None, pane |-> p]
DropCommand(s) == [type |-> "drop", session |-> s, pane |-> None]
TransferCommand(s, to) == [type |-> "transfer", session |-> s, pane |-> to]

NewWatch(s) ==
    [session |-> s, armed |-> {"initial"}, holdsEdge |-> FALSE, fingerprint |-> None, observation |-> None]

-----------------------------------------------------------------------------
(* Processes: outside *)

Running(p) == process[p] = "running"

\* The shell starts a job of one process or of two; a process executes another program;
\* a process ends; the shell has the terminal again.
JobStarts(p) ==
    /\ Running(p) /\ job[p] = Idle
    /\ \E n \in 1 .. 2, program \in Programs :
         LET id == 2 * budget.jobs
         IN  job' = [job EXCEPT ![p] = [group |-> id,
                        children |-> {[id |-> id + i - 1, program |-> program] : i \in 1 .. n}]]
    /\ Spend("jobs")

JobExecs(p) ==
    /\ \E c \in job[p].children, program \in Programs :
         /\ program # c.program
         /\ job' = [job EXCEPT ![p].children = (@ \ {c}) \cup {[c EXCEPT !.program = program]}]
    /\ Spend("jobs")

JobEnds(p) ==
    /\ job[p] # Idle
    /\ \/ \E c \in job[p].children : job' = [job EXCEPT ![p].children = @ \ {c}]
       \/ job' = [job EXCEPT ![p] = Idle]
    /\ UNCHANGED budget

Jobs(p) ==
    /\ JobStarts(p) \/ JobExecs(p) \/ JobEnds(p)
    /\ UNCHANGED <<process, daemonVars, restoring, requests, goVars, retryVars, edge, commands, monitorVars>>

\* The shell of a pane exits.
ShellExits(p) ==
    /\ Running(p)
    /\ process' = [process EXCEPT ![p] = "exited"]
    /\ job' = [job EXCEPT ![p] = Idle]
    /\ Spend("exits")
    /\ UNCHANGED <<daemonVars, restoring, requests, goVars, retryVars, edge, commands, monitorVars>>

\* Pane.notifyProcessActivity: output, or input that ends a line.
notifyProcessActivity(p) ==
    /\ Running(p) /\ starting[p] = None /\ \A i \in DOMAIN restoring : restoring[i].pane # p
    /\ ~edge[p]
    /\ IF MailboxHasRoom
         THEN edge' = [edge EXCEPT ![p] = TRUE] /\ commands' = Append(commands, ActivityCommand(p))
         ELSE UNCHANGED <<edge, commands>>
    /\ Spend("hints")
    /\ UNCHANGED <<worldVars, daemonVars, restoring, requests, goVars, retryVars, monitorVars>>

-----------------------------------------------------------------------------
(* Panes and sessions: turns of the daemon, and what goroutines do after them *)

\* createWindowNow, splitFocusedPaneNow: the pane is in the graph before it is watched.
CreatePane(p, s) ==
    /\ DaemonIsFree /\ p \in budget.panes /\ s \in members
    /\ budget' = [budget EXCEPT !.panes = @ \ {p}]
    /\ process' = [process EXCEPT ![p] = "running"]
    /\ graph' = [graph EXCEPT ![p] = GroupOf[s]]
    /\ starting' = [starting EXCEPT ![p] = s]
    /\ UNCHANGED <<job, members, candidates, saved, windowName, restoring, requests, exited, closing,
                   plans, retryVars, edge, commands, monitorVars>>

\* Daemon.startPane, in the goroutine that has created the pane.
startPane(p) ==
    /\ starting[p] # None /\ MailboxHasRoom
    /\ commands' = Append(commands, WatchCommand(starting[p], p))
    /\ starting' = [starting EXCEPT ![p] = None]
    /\ UNCHANGED <<worldVars, daemonVars, restoring, requests, exited, closing, plans, retryVars, edge,
                   monitorVars, budget>>

\* restoreSessionPlan starts its panes within the turn.
RestoreSession(s, panes) ==
    /\ DaemonIsFree /\ panes # {}
    /\ \A t \in Sessions : GroupOf[t] = GroupOf[s] => t \notin members \cup closing
    /\ panes \subseteq budget.restored /\ budget' = [budget EXCEPT !.restored = @ \ panes]
    /\ members' = members \cup {s}
    /\ process' = [p \in Panes |-> IF p \in panes THEN "running" ELSE process[p]]
    /\ graph' = [p \in Panes |-> IF p \in panes THEN GroupOf[s] ELSE graph[p]]
    /\ \E order \in [1 .. Cardinality(panes) -> panes] :
         /\ \A i, j \in DOMAIN order : order[i] = order[j] => i = j
         /\ restoring' = [i \in DOMAIN order |-> [pane |-> order[i], session |-> s]]
    /\ UNCHANGED <<job, candidates, saved, windowName, requests, goVars, retryVars, edge, commands, monitorVars>>

startRestoredPane ==
    /\ restoring # <<>> /\ MailboxHasRoom
    /\ commands' = Append(commands, WatchCommand(Head(restoring).session, Head(restoring).pane))
    /\ restoring' = Tail(restoring)
    /\ UNCHANGED <<worldVars, daemonVars, requests, goVars, retryVars, edge, monitorVars, budget>>

\* removeGroupPaneNow, for a command; the process is terminated, and its exit comes later.
KillPane(p) ==
    /\ DaemonIsFree /\ graph[p] # None /\ MembersOf(graph[p]) # {}
    /\ graph' = [graph EXCEPT ![p] = None]
    /\ closing' = closing \cup IF PanesOf(graph[p]) = {p} THEN MembersOf(graph[p]) ELSE {}
    /\ process' = [process EXCEPT ![p] = "exited"]
    /\ job' = [job EXCEPT ![p] = Idle]
    /\ Spend("kills")
    /\ UNCHANGED <<members, candidates, saved, windowName, restoring, requests, starting, exited, plans,
                   retryVars, edge, commands, monitorVars>>

\* Daemon.postPaneProcessExit, once the pane runs.
postPaneProcessExit(p) ==
    /\ process[p] = "exited" /\ p \notin exited /\ starting[p] = None
    /\ \A i \in DOMAIN restoring : restoring[i].pane # p
    /\ RequestsHaveRoom
    /\ requests' = Append(requests, [type |-> "exit", session |-> None, pane |-> p, observation |-> None])
    /\ exited' = exited \cup {p}
    /\ UNCHANGED <<worldVars, daemonVars, restoring, starting, closing, plans, retryVars, edge, commands,
                   monitorVars, budget>>

\* A session is to end.
CloseSession(s) ==
    /\ s \in members \ closing
    /\ closing' = closing \cup {s}
    /\ Spend("shutdowns")
    /\ UNCHANGED <<worldVars, daemonVars, restoring, requests, starting, exited, plans, retryVars, edge,
                   commands, monitorVars>>

\* shutdownSessionInActor: the last member takes the processes with it, any other leaves
\* its watches to some member.
shutdownSessionInActor(s) ==
    /\ DaemonIsFree /\ s \in closing \cap members
    /\ LET others == MembersOf(GroupOf[s]) \ {s}
       IN  /\ members' = members \ {s}
           /\ \E to \in IF others = {} THEN {None} ELSE others : plans' = plans \cup {[from |-> s, to |-> to]}
           /\ IF others # {} THEN UNCHANGED worldVars
              ELSE /\ process' = [p \in Panes |-> IF graph[p] = GroupOf[s] THEN "exited" ELSE process[p]]
                   /\ job' = [p \in Panes |-> IF graph[p] = GroupOf[s] THEN Idle ELSE job[p]]
    /\ UNCHANGED <<graph, candidates, saved, windowName, restoring, requests, starting, exited, closing,
                   retryVars, edge, commands, monitorVars, budget>>

\* applySessionShutdownPlan, after the turn.
applySessionShutdownPlan(plan) ==
    /\ plan \in plans /\ MailboxHasRoom
    /\ commands' = Append(commands, IF plan.to = None THEN DropCommand(plan.from)
                                    ELSE TransferCommand(plan.from, plan.to))
    /\ plans' = plans \ {plan}
    /\ UNCHANGED <<worldVars, daemonVars, restoring, requests, starting, exited, closing, retryVars, edge,
                   monitorVars, budget>>

-----------------------------------------------------------------------------
(* Unwatching without waiting *)

\* Mutated: the worker is not woken.
TryUnwatch_Quietly(p) ==
    IF MailboxHasRoom THEN commands' = Append(commands, UnwatchCommand(p)) /\ UNCHANGED <<tombstones, wake>>
    ELSE tombstones' = tombstones \cup {p} /\ UNCHANGED <<commands, wake>>

\* ProcessMonitor.TryUnwatch
TryUnwatch(p) ==
    IF MailboxHasRoom THEN commands' = Append(commands, UnwatchCommand(p)) /\ UNCHANGED <<tombstones, wake>>
    ELSE tombstones' = tombstones \cup {p} /\ wake' = TRUE /\ UNCHANGED commands

\* runUnwatchRetry: woken, it takes tombstones until there are none.
runUnwatchRetry ==
    /\ \/ worker = "sleeps" /\ wake /\ wake' = FALSE /\ worker' = "takes" /\ UNCHANGED <<tombstones, commands>>
       \/ worker = "takes" /\ tombstones = {} /\ worker' = "sleeps" /\ UNCHANGED <<tombstones, wake, commands>>
       \/ /\ worker = "takes"
          /\ \E p \in tombstones : worker' = p /\ tombstones' = tombstones \ {p}
          /\ UNCHANGED <<wake, commands>>
       \/ /\ worker \in Panes /\ MailboxHasRoom
          /\ commands' = Append(commands, UnwatchCommand(worker))
          /\ worker' = "takes"
          /\ UNCHANGED <<tombstones, wake>>
    /\ UNCHANGED <<worldVars, daemonVars, restoring, requests, goVars, edge, monitorVars, budget>>

-----------------------------------------------------------------------------
(* The daemon's requests *)

\* applyPaneExit, and what follows it in the same turn.
applyPaneExit(p) ==
    IF graph[p] = None \/ MembersOf(graph[p]) = {}
      THEN UNCHANGED <<daemonVars, closing, commands, tombstones, wake>>
      ELSE /\ graph' = [graph EXCEPT ![p] = None]
           /\ candidates' = [candidates EXCEPT ![p] = None]
           /\ closing' = closing \cup IF PanesOf(graph[p]) = {p} THEN MembersOf(graph[p]) ELSE {}
           /\ TryUnwatch(p)
           /\ UNCHANGED <<members, saved, windowName>>

\* observationWindowName
observationWindowName(o) ==
    CASE o.status = "detected" /\ o.name \notin Transient -> o.name
      [] o.status = "shell" -> Shell
      [] OTHER -> None

\* observedProcessSaveProjection says something of these.
IsProjected(o) == o.status \in {"detected", "shell"}

\* Its command.
observedProcessSaveProjection(o, previous) ==
    IF o.status = "shell" \/ o.name \in Transient THEN previous ELSE o.command

RequiredSamples(o) == IF o.status = "shell" THEN 1 ELSE StableSamples

\* applyMonitoredProcessObservations
applyMonitoredProcessObservations(s, p, o) ==
    IF s \notin members \/ graph[p] # GroupOf[s] THEN UNCHANGED daemonVars
    ELSE LET latest == saved[s][p]
             projection == observedProcessSaveProjection(o, latest)
             known == candidates[p] # None /\ candidates[p].command = projection
             samples == IF known THEN candidates[p].samples + 1 ELSE 1
         IN  /\ IF ~IsProjected(o) THEN UNCHANGED <<candidates, saved>>
                ELSE \* Samples beyond those required are not told apart.
                     /\ candidates' = [candidates EXCEPT ![p] =
                            [command |-> projection, samples |-> IF samples > StableSamples THEN StableSamples ELSE samples]]
                     /\ saved' = IF samples >= RequiredSamples(o) THEN [saved EXCEPT ![s][p] = projection] ELSE saved
             /\ windowName' = IF observationWindowName(o) = None THEN windowName
                              ELSE [windowName EXCEPT ![p] = observationWindowName(o)]
             /\ UNCHANGED <<members, graph>>

HandleRequest ==
    /\ DaemonIsFree /\ requests # <<>>
    /\ requests' = Tail(requests)
    /\ LET r == Head(requests)
       IN  IF r.type = "exit" THEN applyPaneExit(r.pane)
           ELSE /\ applyMonitoredProcessObservations(r.session, r.pane, r.observation)
                /\ UNCHANGED <<closing, commands, tombstones, wake>>
    /\ UNCHANGED <<worldVars, restoring, starting, exited, plans, worker, edge, monitorVars, budget>>

-----------------------------------------------------------------------------
(* The monitor: commands *)

MonitorIsIdle == monitor.pc = "selects"

\* releaseActivityEdge, of these watches.
Released(panes) == [p \in Panes |-> edge[p] /\ ~(p \in panes \cap DOMAIN watches /\ watches[p].holdsEdge)]

\* Mutated: a pane that is no longer watched keeps its edge.
Forget_KeepsEdge(panes) ==
    /\ watches' = [p \in DOMAIN watches \ panes |-> watches[p]]
    /\ UNCHANGED edge

Forget(panes) ==
    /\ watches' = [p \in DOMAIN watches \ panes |-> watches[p]]
    /\ edge' = Released(panes)

WatchedFor(s) == {p \in DOMAIN watches : watches[p].session = s}

Transfer(from, to) ==
    /\ watches' = [p \in DOMAIN watches |->
                      IF p \in WatchedFor(from) THEN [watches[p] EXCEPT !.session = to] ELSE watches[p]]
    /\ UNCHANGED edge

\* ProcessMonitor.applyCommand
applyCommand ==
    /\ MonitorIsIdle /\ commands # <<>>
    /\ commands' = Tail(commands)
    /\ LET c == Head(commands)
       IN  CASE c.type = "watch" ->
                  /\ watches' = [p \in DOMAIN watches \cup {c.pane} |->
                                    IF p = c.pane THEN NewWatch(c.session) ELSE watches[p]]
                  /\ UNCHANGED edge
             [] c.type = "activity" ->
                  IF c.pane \notin DOMAIN watches THEN edge' = [edge EXCEPT ![c.pane] = FALSE] /\ UNCHANGED watches
                  ELSE /\ watches' = [watches EXCEPT ![c.pane].armed = @ \cup {"activity"},
                                                     ![c.pane].holdsEdge = TRUE]
                       /\ UNCHANGED edge
             [] c.type = "unwatch" -> Forget({c.pane})
             [] c.type = "transfer" -> Transfer(c.session, c.pane)
             [] c.type = "drop" -> Forget(WatchedFor(c.session))
    /\ UNCHANGED <<worldVars, daemonVars, restoring, requests, goVars, retryVars, monitor, budget>>

-----------------------------------------------------------------------------
(* The monitor: timers and observations *)

\* The foreground group as ioctl reports it.
Foreground(p) == job[p].group

\* fingerprintProcessObservation
fingerprintProcessObservation(o) ==
    IF o.status \in {"unstable", "unavailable"} THEN None ELSE o

Observation(status, group, id, name, command) ==
    [status |-> status, group |-> group, id |-> id, name |-> name, command |-> command]

unavailable == Observation("unavailable", None, None, None, None)
unstable == Observation("unstable", None, None, None, None)

\* What is known without a scan once the shell has the terminal again.
shellOwnedObservation(w) == Observation("shell", 0, None, None, None)

\* Whether a watch is observed in depth when these timers of it are due: a probe of the
\* foreground tells most of what changes.
NeedsScan(p, due) ==
    LET w == watches[p]
    IN  \/ "initial" \in due \/ w.fingerprint = None \/ ~Running(p)
        \/ Foreground(p) # w.fingerprint.group /\ Foreground(p) # 0
        \/ Foreground(p) = w.fingerprint.group /\ "confirm" \in due

IsShellAgain(p, due) ==
    /\ ~NeedsScan(p, due) /\ Foreground(p) = 0 /\ watches[p].fingerprint.group # 0

\* The timers that were due are stopped; activity is followed up once more.
AfterTimers(w, due) ==
    [w EXCEPT !.armed = (@ \ due) \cup (IF "activity" \in due THEN {"trailing"} ELSE {}),
              !.holdsEdge = IF "activity" \in due THEN FALSE ELSE @]

\* A batch to observe, and what is delivered with it.
Observing(batch, cached) ==
    [pc |-> IF batch = {} THEN "delivers" ELSE "scans", batch |-> batch, pending |-> batch, attempt |-> 1,
     snapshot |-> <<>>, results |-> <<>>, deliveries |-> cached]

Timers == {"initial", "activity", "trailing", "confirm"}

\* ProcessMonitor.refreshDue
refreshDue ==
    /\ MonitorIsIdle
    /\ \E due \in [Panes -> SUBSET Timers] :
         LET Due == {p \in Panes : due[p] # {}}
             batch == {p \in Due : NeedsScan(p, due[p])}
             cached == {p \in Due : IsShellAgain(p, due[p])}
         IN  /\ Due # {}
             /\ \A p \in Due : p \in DOMAIN watches /\ due[p] \subseteq watches[p].armed
             /\ edge' = Released({p \in Due : "activity" \in due[p]})
             /\ watches' = [p \in DOMAIN watches |->
                    IF p \notin Due THEN watches[p]
                    ELSE LET w == AfterTimers(watches[p], due[p])
                         IN  IF p \notin cached THEN w
                             ELSE [w EXCEPT !.observation = shellOwnedObservation(w),
                                            !.fingerprint = fingerprintProcessObservation(shellOwnedObservation(w))]]
             /\ monitor' = IF batch \cup cached = {} THEN monitor ELSE Observing(batch, cached)
    /\ UNCHANGED <<worldVars, daemonVars, restoring, requests, goVars, retryVars, commands, budget>>

\* The ticker: every watch is observed.
reconcile ==
    /\ MonitorIsIdle
    /\ DOMAIN watches # {}
    /\ monitor' = Observing(DOMAIN watches, {})
    /\ UNCHANGED <<worldVars, daemonVars, restoring, requests, goVars, retryVars, edge, commands, watches, budget>>

\* These panes have got their results, and what is left of the attempt.
WithResults(results, pc) ==
    [monitor EXCEPT !.results = results @@ @, !.pending = @ \ DOMAIN results, !.pc = pc]

\* observeProc: what is unstable when an attempt ends is observed again, up to Retries times.
AttemptEnds(results) ==
    LET m == WithResults(results, "scans")
    IN  IF m.pending # {} /\ m.attempt < Retries
          THEN [m EXCEPT !.attempt = @ + 1, !.snapshot = <<>>]
          ELSE [m EXCEPT !.results = [p \in m.pending |-> unstable] @@ @, !.pending = {},
                         !.snapshot = <<>>, !.pc = "ends"]

\* observeProcBatchAttempt: the first snapshot of the process table, which may fail.
ScanBefore ==
    /\ monitor.pc = "scans"
    /\ LET there == {p \in monitor.pending : Running(p)}
           gone == [p \in monitor.pending \ there |-> unavailable]
       IN  \/ /\ monitor' = IF there = {} THEN AttemptEnds(gone)
                            ELSE [WithResults(gone, "reads") EXCEPT !.snapshot = [p \in there |-> job[p]]]
              /\ UNCHANGED budget
           \/ /\ monitor' = AttemptEnds([p \in monitor.pending |-> unavailable])
              /\ Spend("failures")
    /\ UNCHANGED <<worldVars, daemonVars, restoring, requests, goVars, retryVars, edge, commands, watches>>

\* prepareProcObservation: the foreground, and then the processes of the snapshot.  A
\* process that is gone, or a foreground that is another, makes the pane unstable.
ReadProcesses ==
    /\ monitor.pc = "reads"
    /\ LET there == DOMAIN monitor.snapshot
           lost == {p \in there : ~Running(p)}
           IsStable(p) == Foreground(p) = monitor.snapshot[p].group /\ Ids(monitor.snapshot[p]) \subseteq Ids(job[p])
           kept == {p \in there \ lost : IsStable(p)}
           Command(p, c) == (CHOOSE d \in job[p].children : d.id = c.id).program
           gone == [p \in lost |-> unavailable]
       IN  monitor' = IF kept = {} THEN AttemptEnds(gone)
                      ELSE [WithResults(gone, "compares") EXCEPT !.snapshot = [p \in kept |->
                            [group |-> @[p].group,
                             children |-> {[id |-> c.id, program |-> c.program, command |-> Command(p, c)] :
                                              c \in @[p].children}]]]
    /\ UNCHANGED <<worldVars, daemonVars, restoring, requests, goVars, retryVars, edge, commands, watches, budget>>

\* classifyPreparedProcObservation
classifyPreparedProcObservation(j) ==
    CASE Cardinality(j.children) = 1 ->
           LET c == CHOOSE c \in j.children : TRUE
           IN  Observation("detected", j.group, c.id, c.program, c.command)
      [] j.children = {} /\ j.group = 0 -> Observation("shell", 0, None, None, None)
      [] OTHER -> Observation("ambiguous", j.group, None, None, None)

\* sameProcessGroup, and the same foreground.
SameGroup(p) ==
    /\ Running(p) /\ Foreground(p) = monitor.snapshot[p].group
    /\ Ids(job[p]) = Ids(monitor.snapshot[p])

\* The second snapshot, which may fail as well.
ScanAfter ==
    /\ monitor.pc = "compares"
    /\ \/ /\ LET same == {p \in DOMAIN monitor.snapshot : SameGroup(p)}
             IN  monitor' = AttemptEnds([p \in same |-> classifyPreparedProcObservation(monitor.snapshot[p])])
          /\ UNCHANGED budget
       \/ /\ monitor' = AttemptEnds([p \in DOMAIN monitor.snapshot |-> unavailable])
          /\ Spend("failures")
    /\ UNCHANGED <<worldVars, daemonVars, restoring, requests, goVars, retryVars, edge, commands, watches>>

\* What an observation makes of a watch: a candidate that is new is confirmed.
Observed(w, o) ==
    [w EXCEPT !.observation = o, !.fingerprint = fingerprintProcessObservation(o),
              !.armed = IF o.status = "detected" /\ w.fingerprint # o THEN @ \cup {"confirm"} ELSE @]

\* Mutated: only what has changed is delivered.
observeDeep_ChangedOnly ==
    /\ monitor.pc = "ends"
    /\ watches' = [p \in DOMAIN watches |-> IF p \in monitor.batch THEN Observed(watches[p], monitor.results[p]) ELSE watches[p]]
    /\ LET changed == {p \in monitor.batch : watches[p].fingerprint # monitor.results[p]}
           all == monitor.deliveries \cup changed
       IN  monitor' = [Observing({}, all) EXCEPT !.pc = IF all = {} THEN "selects" ELSE "delivers"]
    /\ UNCHANGED <<worldVars, daemonVars, restoring, requests, goVars, retryVars, edge, commands, budget>>

\* The end of observeDeep.
observeDeep ==
    /\ monitor.pc = "ends"
    /\ watches' = [p \in DOMAIN watches |-> IF p \in monitor.batch THEN Observed(watches[p], monitor.results[p]) ELSE watches[p]]
    /\ monitor' = [Observing({}, monitor.deliveries \cup monitor.batch) EXCEPT !.pc = "delivers"]
    /\ UNCHANGED <<worldVars, daemonVars, restoring, requests, goVars, retryVars, edge, commands, budget>>

\* ProcessMonitor.deliver, which waits for the daemon.
deliver(p) ==
    /\ monitor.pc = "delivers" /\ p \in monitor.deliveries /\ RequestsHaveRoom
    /\ requests' = Append(requests, [type |-> "observation", session |-> watches[p].session, pane |-> p,
                                     observation |-> watches[p].observation])
    /\ monitor' = [monitor EXCEPT !.deliveries = @ \ {p}, !.pc = IF monitor.deliveries = {p} THEN "selects" ELSE @]
    /\ UNCHANGED <<worldVars, daemonVars, restoring, goVars, retryVars, edge, commands, watches, budget>>

-----------------------------------------------------------------------------
Init ==
    /\ budget \in Scenarios
    /\ members = budget.sessions
    /\ process = [p \in Panes |-> "none"] /\ job = [p \in Panes |-> Idle]
    /\ graph = [p \in Panes |-> None] /\ restoring = <<>> /\ requests = <<>>
    /\ candidates = [p \in Panes |-> None]
    /\ saved = [s \in Sessions |-> [p \in Panes |-> None]]
    /\ windowName = [p \in Panes |-> Shell]
    /\ starting = [p \in Panes |-> None] /\ exited = {} /\ closing = {} /\ plans = {}
    /\ tombstones = {} /\ wake = FALSE /\ worker = "sleeps"
    /\ edge = [p \in Panes |-> FALSE]
    /\ commands = <<>>
    /\ watches = <<>>
    /\ monitor = [Observing({}, {}) EXCEPT !.pc = "selects"]

Outside ==
    \/ \E p \in Panes : Jobs(p) \/ ShellExits(p) \/ notifyProcessActivity(p) \/ KillPane(p)
    \/ \E p \in Panes, s \in Sessions : CreatePane(p, s)
    \/ \E s \in Sessions, panes \in SUBSET Panes : RestoreSession(s, panes)
    \/ \E s \in Sessions : CloseSession(s)

GoStep ==
    \/ \E p \in Panes : startPane(p) \/ postPaneProcessExit(p)
    \/ \E s \in Sessions : shutdownSessionInActor(s)
    \/ \E plan \in plans : applySessionShutdownPlan(plan)

DaemonStep == startRestoredPane \/ HandleRequest

\* The monitor in the middle of something.
MonitorStep == ScanBefore \/ ReadProcesses \/ ScanAfter \/ observeDeep \/ \E p \in Panes : deliver(p)

Next == Outside \/ GoStep \/ DaemonStep \/ runUnwatchRetry \/ applyCommand \/ refreshDue \/ reconcile \/ MonitorStep

\* The loop of the monitor takes what is ready at random, so no branch is passed over for
\* ever; a goroutine that waits for room in a channel gets it in turn.
Fairness ==
    /\ WF_vars(DaemonStep) /\ WF_vars(MonitorStep)
    /\ SF_vars(applyCommand) /\ SF_vars(reconcile)
    /\ SF_vars(runUnwatchRetry) /\ SF_vars(GoStep)

Spec == Init /\ [][Next]_vars
FairSpec == Spec /\ Fairness

-----------------------------------------------------------------------------
(* Properties *)

TypeOK ==
    /\ members \subseteq Sessions
    /\ Len(commands) <= MailboxSize /\ Len(requests) <= RequestsSize
    /\ DOMAIN watches \subseteq Panes
    /\ \A p \in DOMAIN watches : watches[p].session \in Sessions /\ watches[p].armed \subseteq Timers
    /\ monitor.pc \in {"selects", "scans", "reads", "compares", "ends", "delivers"}
    /\ monitor.pending \subseteq monitor.batch
    /\ monitor.batch \cup monitor.deliveries \subseteq DOMAIN watches
    /\ tombstones \subseteq Panes /\ worker \in Panes \cup {"sleeps", "takes"}

\* No pane is left unable to give hints: an edge that is set is with a hint in the mailbox
\* or with a watch whose timer will release it.
EdgeIsReleased ==
    \A p \in Panes : edge[p] =>
        \/ \E i \in DOMAIN commands : commands[i] = ActivityCommand(p)
        \/ p \in DOMAIN watches /\ watches[p].holdsEdge /\ "activity" \in watches[p].armed

\* The queues keep their bounds, and no bound of theirs silences a pane.
HintsStayPossible == TypeOK /\ EdgeIsReleased

\* The watch of a pane that lives in the group of a session that lives.
IsWatched(p) ==
    /\ graph[p] # None /\ Running(p)
    /\ p \in DOMAIN watches /\ watches[p].session \in MembersOf(graph[p])

\* What the pane should be called, and what should be saved of it.
NameIsRight(p) ==
    IF job[p] = Idle THEN windowName[p] = Shell
    ELSE \A c \in job[p].children :
            Cardinality(job[p].children) = 1 /\ c.program \notin Transient =>
                windowName[p] = c.program /\ saved[watches[p].session][p] = c.program

\* In the end a window has the name, and its record the command, of the job its pane has
\* in the foreground, whichever hints were lost and whatever changed while it was read.
NamesSettle == \A p \in Panes : <>[](IsWatched(p) => NameIsRight(p))

\* A pane whose exit the daemon has taken is not watched any more in the end, although
\* the daemon does not wait for the mailbox.
Unwatching(p) ==
    \/ p \in tombstones \/ worker = p
    \/ \E i \in DOMAIN commands : commands[i] = UnwatchCommand(p)

UnwatchesArrive == \A p \in Panes : Unwatching(p) ~> (p \notin DOMAIN watches /\ ~Unwatching(p))

\* The daemon and the monitor do not wait for each other.
NoWaitCycle ==
    ~(/\ restoring # <<>> /\ ~MailboxHasRoom
      /\ monitor.pc = "delivers" /\ ~RequestsHaveRoom)

\* Every pane of a group that has a session is watched for such a session, once the
\* monitor has been told everything.
WatchFollowsGraph ==
    starting = [p \in Panes |-> None] /\ restoring = <<>> /\ plans = {} /\ commands = <<>> =>
        \A p \in Panes : graph[p] # None /\ MembersOf(graph[p]) # {} /\ p \notin exited => IsWatched(p)
=============================================================================
