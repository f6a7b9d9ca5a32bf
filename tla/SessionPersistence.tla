------------------------- MODULE SessionPersistence -------------------------
(***************************************************************************)
(* The recovery records of named sessions: what the daemon records when a    *)
(* session changes, the one-place mailbox that hands a snapshot to the        *)
(* persistence worker, the worker's file operations, restore-session, and     *)
(* the daemon's end at any moment.  Session, group and window IDs count from  *)
(* one in every daemon lifetime; what a window holds is an opaque content.    *)
(***************************************************************************)
EXTENDS Integers, Sequences, FiniteSets, SequencesExt

CONSTANTS
    Names,        \* session names
    MaxSession,   \* bound: sessions of a daemon lifetime
    MaxWindow,    \* bound: windows of a daemon lifetime
    MaxContent,   \* bound: contents in use at a time
    MaxLifetimes, \* bound: daemon lifetimes
    MaxChanges,   \* bound: transactions of the daemons
    MaxFailures,  \* bound: failing file operations
    None          \* no session, no record, no name

ASSUME PersistenceAssumption ==
    /\ MaxSession \in Nat \ {0} /\ MaxWindow \in Nat \ {0} /\ MaxContent \in Nat \ {0}
    /\ MaxLifetimes \in Nat \ {0} /\ MaxChanges \in Nat /\ MaxFailures \in Nat
    /\ None \notin Names \cup Nat

VARIABLES
    sessions,    \* Daemon.sessions: the name, the name reserved for it, its group
    windows,     \* GroupState.Windows of every group that can be reached
    registered,  \* Daemon.groups
    nextSession, \* Daemon.nextID
    nextWindow,  \* Daemon.nextWindowID
    records,     \* Daemon.sessionPersistions
    obsolete,    \* Daemon.obsoletePersistenceNames
    adopted,     \* Daemon.persistenceGroups, by the group ID of a record
    reading,     \* what the restore command in progress has read
    outbox,      \* snapshots this daemon transaction has yet to hand over
    step,        \* how far queuePersistenceWrite is with the first of them
    slot,        \* Daemon.persistenceUpdates, a channel of one place
    wake,        \* Daemon.persistenceNow
    worker,      \* runPersistence: where it is, and the snapshot it flushes
    files,       \* the recovery files there are, by name
    last,        \* history: the record handed over last, unless its flush failed
    lifetime,    \* the daemon lifetime
    changes,     \* daemon transactions that took place
    failures     \* file operations that failed

graph == <<sessions, windows, registered, nextSession, nextWindow>>
memory == <<records, obsolete, adopted>>
mailbox == <<outbox, step, slot, wake>>
disk == <<worker, files, failures>>
vars == <<sessions, windows, registered, nextSession, nextWindow, records, obsolete, adopted, reading,
          outbox, step, slot, wake, worker, files, last, lifetime, changes, failures>>

SessionIDs == 1 .. MaxSession \* a session's first group has its ID
WindowIDs == 1 .. MaxWindow
Session == [name : Names \cup {None}, alias : Names \cup {None}, group : SessionIDs]
Contents == 1 .. MaxContent
Idle == -1                    \* the worker waits, or is woken; else the step of its flush
Woken == 0
Terminated == 0               \* the content of a window whose panes were terminated

ASSUME NoneIsNothing == None \notin Session

-----------------------------------------------------------------------------
(* The graph *)

Live == {s \in SessionIDs : sessions[s] # None}
Members(g) == {s \in Live : sessions[s].group = g}
WindowsOf(s) == windows[sessions[s].group]

\* sessionByName: by the reserved name, else by the session's own.
Answers(n) == \E s \in Live : n \in {sessions[s].name, sessions[s].alias}

\* lowestAvailableWindowDisplayIndex
LowestDisplay(ws) ==
    LET used == {w.display : w \in ws}
    IN  CHOOSE d \in 0 .. MaxWindow : d \notin used /\ \A e \in 0 .. d - 1 : e \in used

InPlan(plan) == {plan[i].content : i \in DOMAIN plan}
Saved(update) == IF update = None THEN None ELSE update.record
ContentsInUse ==
    LET inMemory == {records[s] : s \in SessionIDs} \cup {Saved(worker.update), Saved(reading)}
        inChannel == {u.record : u \in ToSet(slot)}
        onDisk == {files[n] : n \in DOMAIN files} \cup {last}
    IN  UNION {{w.content : w \in windows[g]} : g \in SessionIDs}
        \cup UNION {InPlan(r.plan) : r \in (inMemory \cup inChannel \cup onDisk) \ {None}}

\* A content nothing holds yet.
Unused == Contents \ ContentsInUse
Fresh == CHOOSE c \in Unused : \A e \in Unused : c <= e

-----------------------------------------------------------------------------
(* Recording a change: the operators read the sessions and windows after it *)

NothingSaved == UNCHANGED <<records, obsolete, outbox, step>>

\* planWindows and projectSessionPlan, in the order of the display indexes.
Rank(ws, w) == Cardinality({v \in ws : v.display < w.display})
Ranked(ws, i) == CHOOSE w \in ws : Rank(ws, w) = i - 1
Plan(ws) ==
    [i \in 1 .. Cardinality(ws) |-> [id |-> Ranked(ws, i).id, content |-> Ranked(ws, i).content]]
ContentsOf(plan) == [i \in DOMAIN plan |-> plan[i].content]

\* newPersistenceRecord
NewRecord(s, plan) ==
    [name |-> sessions'[s].name, id |-> s, group |-> sessions'[s].group, plan |-> plan]

\* The names under which files of s have been left, once it is saved as name.
LeftNames(s, name) ==
    (obsolete[s] \cup (IF records[s] = None THEN {} ELSE {records[s].name})) \ {name}

\* persistSessionForPersistence of some sessions, one after the other in any order:
\* those that have a name and windows.  Nothing reads the records of a session that
\* ended.
persistSessions(some) ==
    LET windowsAfter(s) == windows'[sessions'[s].group]
        saved == {s \in some : sessions'[s].name # None /\ windowsAfter(s) # {}}
        new == [s \in saved |-> NewRecord(s, Plan(windowsAfter(s)))]
        left == [s \in saved |-> LeftNames(s, sessions'[s].name)]
    IN  /\ records' = [s \in SessionIDs |->
                         IF sessions'[s] = None THEN None
                         ELSE IF s \in saved THEN new[s] ELSE records[s]]
        /\ obsolete' = [s \in SessionIDs |->
                         IF sessions'[s] = None THEN {}
                         ELSE IF s \in saved THEN left[s] ELSE obsolete[s]]
        /\ \E order \in SetToSeqs(saved) :
              outbox' = [i \in DOMAIN order |-> [record |-> new[order[i]], obsolete |-> left[order[i]]]]
        /\ step' = 1

\* persistWindowForPersistence: the window's place in the record is found by its ID.
persistWindow(s, w, content) ==
    LET at == IF records[s] = None THEN {} ELSE {i \in DOMAIN records[s].plan : records[s].plan[i].id = w}
    IN  IF at = {} THEN persistSessions({s})
        ELSE LET i == CHOOSE i \in at : \A j \in at : i <= j
                 record == NewRecord(s, [records[s].plan EXCEPT ![i] = [id |-> w, content |-> content]])
             IN  /\ records' = [records EXCEPT ![s] = record]
                 /\ outbox' = <<[record |-> record, obsolete |-> obsolete[s] \ {record.name}]>>
                 /\ step' = 1
                 /\ UNCHANGED obsolete

-----------------------------------------------------------------------------
(* Daemon transactions *)

Init ==
    /\ sessions = [s \in SessionIDs |-> None]
    /\ windows = [g \in SessionIDs |-> {}]
    /\ registered = {}
    /\ nextSession = 1 /\ nextWindow = 1
    /\ records = [s \in SessionIDs |-> None]
    /\ obsolete = [s \in SessionIDs |-> {}]
    /\ adopted = [g \in SessionIDs |-> None]
    /\ reading = None
    /\ outbox = <<>> /\ step = 1 /\ slot = <<>> /\ wake = FALSE
    /\ worker = [at |-> Idle, update |-> None]
    /\ files = <<>>
    /\ last = None
    /\ lifetime = 1
    /\ changes = 0
    /\ failures = 0

\* A transaction of the daemon actor: it hands over its snapshots before the next.
Transaction ==
    /\ outbox = <<>>
    /\ changes < MaxChanges /\ changes' = changes + 1
    /\ UNCHANGED <<slot, wake, disk, last, lifetime>>

Register(n, alias, group) ==
    /\ nextSession <= MaxSession
    /\ sessions' = [sessions EXCEPT ![nextSession] = [name |-> n, alias |-> alias, group |-> group]]
    /\ nextSession' = nextSession + 1

\* create-session: nothing to save before its first window.
createSession(n) ==
    /\ Transaction
    /\ n # None => ~Answers(n)
    /\ Register(n, n, nextSession)
    /\ registered' = registered \cup {nextSession}
    /\ NothingSaved
    /\ UNCHANGED <<windows, nextWindow, adopted, reading>>

\* new-session -t: a view of the base's group.
createMirror(base, n) ==
    /\ Transaction
    /\ base \in Live /\ ~Answers(n)
    /\ Register(n, n, sessions[base].group)
    /\ registered' = registered \cup {sessions[base].group}
    /\ NothingSaved
    /\ UNCHANGED <<windows, nextWindow, adopted, reading>>

\* createWindowNow
createWindow(s) ==
    /\ Transaction
    /\ s \in Live /\ nextWindow <= MaxWindow /\ Unused # {}
    /\ LET g == sessions[s].group
           new == [id |-> nextWindow, display |-> LowestDisplay(windows[g]), content |-> Fresh]
       IN  windows' = [windows EXCEPT ![g] = @ \cup {new}]
    /\ nextWindow' = nextWindow + 1
    /\ UNCHANGED <<sessions, registered, nextSession, adopted, reading>>
    /\ persistSessions({s})

ChangeWindow(g, w) == windows' = [windows EXCEPT ![g] = (@ \ {w}) \cup {[w EXCEPT !.content = Fresh]}]
RemoveWindow(g, w) == windows' = [windows EXCEPT ![g] = @ \ {w}]

\* A split, a focus, another layout or another name of a window.
changeWindow(s, w) ==
    /\ Transaction
    /\ s \in Live /\ w \in WindowsOf(s) /\ Unused # {}
    /\ ChangeWindow(sessions[s].group, w)
    /\ UNCHANGED <<sessions, registered, nextSession, nextWindow, adopted, reading>>
    /\ persistWindow(s, w.id, Fresh)

\* kill-pane, of a pane among others or of a window's last.
killPane(s, w) ==
    /\ Transaction
    /\ s \in Live /\ w \in WindowsOf(s)
    /\ \/ Unused # {} /\ ChangeWindow(sessions[s].group, w)
       \/ RemoveWindow(sessions[s].group, w)
    /\ UNCHANGED <<sessions, registered, nextSession, nextWindow, adopted, reading>>
    /\ persistSessions({s})

\* applyPaneExit: of a pane whose group is registered; nothing is saved.
paneExits(g, w) ==
    /\ Transaction
    /\ g \in registered /\ w \in windows[g] /\ w.content # Terminated
    /\ \/ Unused # {} /\ ChangeWindow(g, w)
       \/ RemoveWindow(g, w)
    /\ NothingSaved
    /\ UNCHANGED <<sessions, registered, nextSession, nextWindow, adopted, reading>>

\* renameSessionID
renameSession(s, n) ==
    /\ Transaction
    /\ s \in Live /\ sessions[s].name # n
    /\ \A o \in Live \ {s} : n \notin {sessions[o].name, sessions[o].alias}
    /\ sessions' = [sessions EXCEPT ![s] = [name |-> n, alias |-> n, group |-> @.group]]
    /\ UNCHANGED <<windows, registered, nextSession, nextWindow, adopted, reading>>
    /\ persistSessions({s})

\* The windows of a group that lost its last session: their panes are terminated.
\* Only a restore to the group reaches them.
AfterLast(g) ==
    IF \E saved \in SessionIDs : adopted[saved] = g
      THEN {[w EXCEPT !.content = Terminated] : w \in windows[g]}
      ELSE {}

\* shutdownSession and removeSession: the others of the group are saved.
killSession(s) ==
    /\ Transaction
    /\ s \in Live
    /\ sessions' = [sessions EXCEPT ![s] = None]
    /\ UNCHANGED <<nextSession, nextWindow, adopted, reading>>
    /\ LET g == sessions[s].group
           others == Members(g) \ {s}
       IN  /\ windows' = IF others = {} THEN [windows EXCEPT ![g] = AfterLast(g)] ELSE windows
           /\ registered' = IF others = {} THEN registered \ {g} ELSE registered
           /\ persistSessions(others)

-----------------------------------------------------------------------------
(* restore-session *)

\* The file is read before the transaction.
readRecord(n, as) ==
    /\ Transaction
    /\ reading = None /\ n \in DOMAIN files
    /\ reading' = [record |-> files[n], as |-> as]
    /\ NothingSaved
    /\ UNCHANGED <<graph, adopted>>

restoreFails ==
    /\ Transaction
    /\ reading # None /\ Answers(reading.as)
    /\ reading' = None
    /\ NothingSaved
    /\ UNCHANGED <<graph, adopted>>

\* Mutated: the recorded ID is looked up among the live groups.
LiveGroup_Registered(record) == IF Members(record.group) # {} THEN record.group ELSE None

\* The group a record with this group ID was restored to in this lifetime.
LiveGroup(record) == adopted[record.group]

\* restoreSessionPlan: new windows for those of the record, new panes and processes.
\* The record to be saved has the windows' places for their IDs.
restoreSessionPlan(record, as) ==
    /\ LiveGroup(record) = None
    /\ nextWindow + Len(record.plan) <= MaxWindow + 1
    /\ Register(as, as, nextSession)
    /\ windows' = [windows EXCEPT ![nextSession] =
                     {[id |-> nextWindow + i - 1, display |-> i - 1, content |-> record.plan[i].content] :
                        i \in DOMAIN record.plan}]
    /\ nextWindow' = nextWindow + Len(record.plan)
    /\ adopted' = [adopted EXCEPT ![record.group] = nextSession]
    /\ registered' = registered \cup {nextSession}
    /\ LET new == NewRecord(nextSession, [i \in DOMAIN record.plan |-> [id |-> i, content |-> record.plan[i].content]])
       IN  /\ records' = [records EXCEPT ![nextSession] = new]
           /\ outbox' = <<[record |-> new, obsolete |-> {}]>>
           /\ step' = 1
    /\ UNCHANGED obsolete

\* restoreSessionView: a view of the group, under the recorded name.
restoreSessionView(record, as) ==
    /\ LiveGroup(record) # None
    /\ Register(record.name, as, LiveGroup(record))
    /\ NothingSaved
    /\ UNCHANGED <<windows, registered, nextWindow, adopted>>

restoreSession ==
    /\ Transaction
    /\ reading # None /\ ~Answers(reading.as)
    /\ reading' = None
    /\ \/ restoreSessionPlan(reading.record, reading.as)
       \/ restoreSessionView(reading.record, reading.as)

-----------------------------------------------------------------------------
(* queuePersistenceWrite, a channel operation at a time *)

\* Mutated: the worker is woken first.
QueueSteps_WakeFirst == <<"wake", "drain", "put">>

\* Mutated: a full mailbox keeps what it holds.
QueueSteps_NoDrain == <<"put", "put", "wake">>

QueueSteps == <<"drain", "put", "wake">>

queuePersistenceWrite ==
    /\ outbox # <<>>
    /\ slot' = CASE QueueSteps[step] = "drain" -> <<>>
                 [] QueueSteps[step] = "put" /\ slot = <<>> -> <<Head(outbox)>>
                 [] OTHER -> slot
    /\ wake' = (wake \/ QueueSteps[step] = "wake")
    /\ last' = IF QueueSteps[step] = "put" THEN Head(outbox).record ELSE last
    /\ IF step < Len(QueueSteps)
         THEN step' = step + 1 /\ UNCHANGED outbox
         ELSE step' = 1 /\ outbox' = Tail(outbox)
    /\ UNCHANGED <<graph, memory, reading, disk, lifetime, changes>>

-----------------------------------------------------------------------------
(* The persistence worker *)

\* Mutated: the old name's file goes first.
FlushSteps_RemoveFirst == <<"remove", "write", "rename">>

\* flushPersistenceSnapshot and atomicWriteMeja, which writes a temporary file: none of
\* the recovery files changes until it is renamed.
FlushSteps == <<"write", "rename", "remove">>

WorkerOnly == UNCHANGED <<graph, memory, reading, outbox, step, lifetime, changes>>

takeWake ==
    /\ worker.at = Idle /\ wake
    /\ wake' = FALSE
    /\ worker' = [worker EXCEPT !.at = Woken]
    /\ UNCHANGED <<slot, files, last, failures>>
    /\ WorkerOnly

takeUpdate ==
    /\ worker.at = Woken
    /\ worker' = IF slot = <<>> THEN [at |-> Idle, update |-> None] ELSE [at |-> 1, update |-> Head(slot)]
    /\ slot' = <<>>
    /\ UNCHANGED <<wake, files, last, failures>>
    /\ WorkerOnly

\* The step of the flush after this one.
After(at) == IF at = Len(FlushSteps) THEN [at |-> Idle, update |-> None] ELSE [worker EXCEPT !.at = at + 1]

Flushing(kind) == worker.at \in DOMAIN FlushSteps /\ FlushSteps[worker.at] = kind

\* The recovery files once this record has been renamed to its name's.
Written(record) ==
    [n \in DOMAIN files \cup {record.name} |-> IF n = record.name THEN record ELSE files[n]]

flushStep ==
    /\ \/ /\ Flushing("write")
          /\ worker' = After(worker.at)
          /\ UNCHANGED files
       \/ /\ Flushing("rename")
          /\ files' = Written(worker.update.record)
          /\ worker' = After(worker.at)
       \/ /\ Flushing("remove")
          /\ IF worker.update.obsolete = {}
               THEN worker' = After(worker.at) /\ UNCHANGED files
               ELSE \E n \in worker.update.obsolete :
                      /\ files' = [m \in DOMAIN files \ {n} |-> files[m]]
                      /\ worker' = [worker EXCEPT !.update.obsolete = @ \ {n}]
    /\ UNCHANGED <<slot, wake, last, failures>>
    /\ WorkerOnly

\* An error is logged, and the rest of the flush given up.
flushFails ==
    /\ worker.at \in DOMAIN FlushSteps /\ failures < MaxFailures
    /\ worker' = [at |-> Idle, update |-> None]
    /\ last' = IF FlushSteps[worker.at] # "remove" /\ last = worker.update.record THEN None ELSE last
    /\ failures' = failures + 1
    /\ UNCHANGED <<slot, wake, files>>
    /\ WorkerOnly

\* The daemon ends, in the middle of whatever it does, and another one starts.
restart ==
    /\ lifetime < MaxLifetimes
    /\ lifetime' = lifetime + 1
    /\ sessions' = [s \in SessionIDs |-> None]
    /\ windows' = [g \in SessionIDs |-> {}]
    /\ registered' = {}
    /\ nextSession' = 1 /\ nextWindow' = 1
    /\ records' = [s \in SessionIDs |-> None]
    /\ obsolete' = [s \in SessionIDs |-> {}]
    /\ adopted' = [g \in SessionIDs |-> None]
    /\ reading' = None
    /\ outbox' = <<>> /\ step' = 1 /\ slot' = <<>> /\ wake' = FALSE
    /\ worker' = [at |-> Idle, update |-> None]
    /\ last' = None
    /\ UNCHANGED <<files, changes, failures>>

Daemon ==
    \/ \E n \in Names \cup {None} : createSession(n)
    \/ \E base \in SessionIDs, n \in Names : createMirror(base, n)
    \/ \E s \in SessionIDs : createWindow(s) \/ killSession(s)
    \/ \E s \in Live : \E w \in WindowsOf(s) : changeWindow(s, w) \/ killPane(s, w)
    \/ \E g \in SessionIDs : \E w \in windows[g] : paneExits(g, w)
    \/ \E s \in SessionIDs, n \in Names : renameSession(s, n)
    \/ \E n, as \in Names : readRecord(n, as)
    \/ restoreFails
    \/ restoreSession

Worker == takeWake \/ takeUpdate \/ flushStep \/ flushFails

Next == Daemon \/ queuePersistenceWrite \/ Worker \/ restart

\* The daemon actor finishes its transactions, and the worker is scheduled.
Fairness == WF_vars(queuePersistenceWrite) /\ WF_vars(takeWake \/ takeUpdate \/ flushStep)

Spec == Init /\ [][Next]_vars /\ Fairness

-----------------------------------------------------------------------------
(* Properties *)

Records ==
    [name : Names, id : SessionIDs, group : SessionIDs,
     plan : Seq([id : WindowIDs, content : Contents \cup {Terminated}])]

\* Every window belongs to one group, and a group's display indexes are distinct.
TypeOK ==
    /\ \A s \in SessionIDs : sessions[s] # None =>
          /\ sessions[s].name \in Names \cup {None} /\ sessions[s].group \in registered \cup SessionIDs
          /\ s < nextSession
    /\ \A g, h \in SessionIDs : \A v \in windows[g], w \in windows[h] :
          /\ v.id \in 1 .. nextWindow - 1
          /\ g # h \/ v # w => v.id # w.id
          /\ g = h /\ v # w => v.display # w.display
    /\ \A s \in SessionIDs : records[s] = None \/ records[s] \in Records
    /\ \A s \in SessionIDs : obsolete[s] \subseteq Names
    /\ Len(slot) <= 1 /\ \A u \in ToSet(slot) : u.record \in Records
    /\ DOMAIN files \subseteq Names /\ \A n \in DOMAIN files : files[n] \in Records

\* Whenever the daemon ends, a recovery file is the record of a session of its name.
FilesAreNamed == \A n \in DOMAIN files : files[n].name = n

\* A session whose record is on disk stays on disk while its own flushes move it from
\* one name to another: at no moment between the steps would a crash lose it.
HasFile(s) == \E n \in DOMAIN files : files[n].id = s

IsFlushing == worker.at \in DOMAIN FlushSteps

FlushKeepsAFile ==
    [][\A s \in SessionIDs :
         HasFile(s) /\ IsFlushing /\ worker.update.record.id = s => HasFile(s)']_vars

\* Nothing handed over, nothing pending, nothing being flushed.
Settled == outbox = <<>> /\ slot = <<>> /\ ~wake /\ worker.at = Idle

\* Once the worker has nothing to do, the record handed over last is on disk,
\* however the hand-over and the flushes interleaved, unless its flush failed.
OnDisk(record) == record.name \in DOMAIN files /\ files[record.name] = record

LastSaveIsOnDisk == Settled /\ last # None => OnDisk(last)

\* What a crash at any moment leaves behind can be restored, and is the latest once the
\* worker is at rest.
DiskIsSound ==
    /\ TypeOK
    /\ FilesAreNamed
    /\ LastSaveIsOnDisk

\* No pending snapshot is forgotten: the wake-up is never lost between the daemon's
\* channel operations and the worker's.
EverySaveIsTaken == slot # <<>> ~> slot = <<>>

\* The session a restore has just made, in the step that made it.
Restored == reading # None /\ reading' = None /\ nextSession' > nextSession
RestoredContents == ContentsOf(Plan(windows'[sessions'[nextSession].group]))

\* A record whose group ID no record was restored with in this lifetime comes back
\* as it was saved: its windows, in their order, with what they held.
RestoreRebuildsPlan ==
    [][Restored /\ adopted[reading.record.group] = None =>
         /\ RestoredContents = ContentsOf(reading.record.plan)
         /\ sessions'[nextSession].name = reading.as]_vars

\* Restoring creates a new session with the windows of the latest record.
RestoreRecoversRecord ==
    [][Restored => RestoredContents = ContentsOf(reading.record.plan)]_vars

\* Every session of a name and windows is recorded on disk once the worker has
\* nothing to do.
EverySessionIsOnDisk ==
    Settled => \A s \in Live : records[s] # None => OnDisk(records[s])

\* A change of one window replaces only that window's place in the record: what the
\* record has of the session's other windows stays.
RecordKeepsOtherWindows ==
    [][\A s \in Live : sessions'[s] # None /\ records[s] # None =>
         \A w \in WindowsOf(s) \cap windows'[sessions'[s].group] :
            w.content \in InPlan(records[s].plan) => w.content \in InPlan(records'[s].plan)]_vars
=============================================================================
