---------------------- MODULE SessionPersistenceProofs ----------------------
(***************************************************************************)
(* Theorems about SessionPersistence, for any names, any bounds and any      *)
(* number of restarts and failures: what the recovery files are worth at     *)
(* every moment, and that the last snapshot handed over is never forgotten.  *)
(***************************************************************************)
EXTENDS SessionPersistence, FiniteSetTheorems, SequenceTheorems,
        WellFoundedInduction, TLAPS

-----------------------------------------------------------------------------
(* The inductive invariant *)

\* A snapshot: a flush of it never removes the file it has written.
IsUpdate(u) ==
    /\ u = [record |-> u.record, obsolete |-> u.obsolete]
    /\ u.record \in Records
    /\ u.record.name \notin u.obsolete

OutboxOK ==
    /\ outbox \in Seq(ToSet(outbox))
    /\ \A u \in ToSet(outbox) : IsUpdate(u)
    /\ step \in 1 .. 3
    /\ outbox = <<>> => step = 1
    /\ step = 2 => slot = <<>>

SlotOK == slot = <<>> \/ (slot = <<slot[1]>> /\ IsUpdate(slot[1]))

WorkerOK ==
    /\ worker = [at |-> worker.at, update |-> worker.update]
    /\ worker.at \in {Idle, Woken, 1, 2, 3}
    /\ worker.at \in 1 .. 3 => IsUpdate(worker.update)
    /\ worker.at = 3 => OnDisk(worker.update.record)

\* Where the record handed over last can be.
IsReplaced == outbox # <<>> /\ step = 2
IsPending ==
    /\ slot # <<>> /\ slot[1].record = last
    /\ wake \/ worker.at = Woken \/ (outbox # <<>> /\ step = 3)
IsBeingWritten == slot = <<>> /\ worker.at \in {1, 2} /\ worker.update.record = last
IsWritten ==
    /\ slot = <<>> /\ OnDisk(last)
    /\ worker.at \in {Idle, Woken} \/ (worker.at = 3 /\ worker.update.record = last)

LastOK == last # None => IsReplaced \/ IsPending \/ IsBeingWritten \/ IsWritten

IInv == OutboxOK /\ SlotOK /\ WorkerOK /\ LastOK /\ FilesAreNamed

-----------------------------------------------------------------------------
(* Types *)

Window == [id : WindowIDs, display : Nat, content : Contents \cup {Terminated}]
Entry == [id : WindowIDs, content : Contents \cup {Terminated}]

\* The windows of a group: IDs below next, and nothing twice.
WellFormed(ws, next) ==
    /\ ws \subseteq Window
    /\ \A v \in ws : v.id < next
    /\ \A v, w \in ws : v # w => v.id # w.id /\ v.display # w.display

SessionsTyped ==
    /\ sessions \in [SessionIDs -> Session \cup {None}]
    /\ nextSession \in 1 .. MaxSession + 1
    /\ \A s \in SessionIDs : sessions[s] # None => s < nextSession
    /\ adopted \in [SessionIDs -> SessionIDs \cup {None}]

WindowsTyped ==
    /\ nextWindow \in 1 .. MaxWindow + 1
    /\ windows \in [SessionIDs -> SUBSET Window]
    /\ \A g \in SessionIDs : WellFormed(windows[g], nextWindow)
    /\ \A g, h \in SessionIDs : g # h => \A v \in windows[g], w \in windows[h] : v.id # w.id

\* Only a session that has a name has a record.
RecordsTyped ==
    /\ records \in [SessionIDs -> Records \cup {None}]
    /\ obsolete \in [SessionIDs -> SUBSET Names]
    /\ \A s \in SessionIDs : records[s] # None => s < nextSession /\ sessions[s].name \in Names

ReadingTyped == reading # None => reading.record \in Records /\ reading.as \in Names

FilesTyped == DOMAIN files \subseteq Names /\ \A n \in DOMAIN files : files[n] \in Records

Typed == SessionsTyped /\ WindowsTyped /\ RecordsTyped /\ ReadingTyped /\ FilesTyped

-----------------------------------------------------------------------------
(* Least elements, contents and display indexes *)

LEMMA LeastNat ==
    ASSUME NEW T, T \subseteq Nat, T # {}
    PROVE  \E x \in T : \A y \in T : x <= y
<1>1. PICK x \in T : \A y \in T : ~ (<<y, x>> \in OpToRel(<, Nat))
  BY NatLessThanWellFounded, WFMin
<1>2. \A y \in T : y \in Nat /\ x \in Nat /\ ~ (y < x)
  BY <1>1 DEF OpToRel
<1> QED
  BY <1>2

\* What a changed window holds is a content.
LEMMA FreshIsContent ==
    ASSUME Unused # {}
    PROVE  Fresh \in Contents
<1>1. Unused \subseteq Contents /\ Contents \subseteq Nat
  BY PersistenceAssumption DEF Unused, Contents
<1>2. \E c \in Unused : \A e \in Unused : c <= e
  BY <1>1, LeastNat
<1> QED
  BY <1>1, <1>2 DEF Fresh

\* A group has fewer windows than IDs were given.
LEMMA WindowsAreFinite ==
    ASSUME NEW next \in 1 .. MaxWindow + 1, NEW ws, WellFormed(ws, next)
    PROVE  IsFiniteSet(ws) /\ Cardinality(ws) \in Nat /\ Cardinality(ws) <= next - 1
<1> DEFINE f == [w \in ws |-> w.id]
<1>1. next \in Nat /\ next - 1 \in Nat
  BY PersistenceAssumption
<1>2. \A w \in ws : w.id \in 1 .. next - 1
  BY <1>1, PersistenceAssumption DEF WellFormed, Window, WindowIDs
<1>3. f \in Injection(ws, 1 .. next - 1)
  BY <1>2 DEF WellFormed, Injection, IsInjective
<1>4. IsFiniteSet(1 .. next - 1) /\ Cardinality(1 .. next - 1) = next - 1
  BY <1>1, FS_Interval
<1> HIDE DEF f
<1>5. IsFiniteSet(ws) /\ Cardinality(ws) <= next - 1
  BY <1>3, <1>4, FS_Injection
<1> QED
  BY <1>5, FS_CardinalityType

\* lowestAvailableWindowDisplayIndex finds an index no window has.
LEMMA LowestDisplayIsFree ==
    ASSUME NEW ws, ws \subseteq Window, IsFiniteSet(ws), Cardinality(ws) <= MaxWindow
    PROVE  LowestDisplay(ws) \in Nat /\ \A w \in ws : w.display # LowestDisplay(ws)
<1> DEFINE used == {w.display : w \in ws}
           free == (0 .. MaxWindow) \ used
           f == [w \in ws |-> w.display]
<1>1. MaxWindow \in Nat
  BY PersistenceAssumption
<1>2. IsFiniteSet(used) /\ Cardinality(used) <= Cardinality(ws)
  <2>1. f \in Surjection(ws, used)
    BY DEF Surjection
  <2> HIDE DEF f, used
  <2> QED
    BY <2>1, FS_Surjection
<1>3. free # {}
  <2>1. SUFFICES ASSUME 0 .. MaxWindow \subseteq used PROVE FALSE
    OBVIOUS
  <2> HIDE DEF used
  <2>2. Cardinality(0 .. MaxWindow) = MaxWindow + 1
    BY <1>1, FS_Interval
  <2>3. Cardinality(0 .. MaxWindow) <= Cardinality(used)
    BY <1>2, <2>1, FS_Subset
  <2>4. Cardinality(used) \in Nat /\ Cardinality(ws) \in Nat
    BY <1>2, FS_CardinalityType
  <2> QED
    BY <1>1, <1>2, <2>2, <2>3, <2>4
<1>4. PICK d \in free : \A e \in free : d <= e
  <2>1. free \subseteq Nat
    BY <1>1
  <2> HIDE DEF free
  <2> QED
    BY <1>3, <2>1, LeastNat
<1>5. d \in 0 .. MaxWindow /\ d \notin used /\ \A e \in 0 .. d - 1 : e \in used
  <2>1. \A e \in 0 .. d - 1 : e \in 0 .. MaxWindow /\ ~ (d <= e)
    BY <1>1
  <2> QED
    BY <1>4, <2>1
<1>6. LowestDisplay(ws) \in 0 .. MaxWindow /\ LowestDisplay(ws) \notin used
  BY <1>5 DEF LowestDisplay
<1> QED
  BY <1>6

-----------------------------------------------------------------------------
(* Plans *)

\* Each window has a rank of its own, and each rank its window.
LEMMA RanksAreExact ==
    ASSUME NEW ws, ws \subseteq Window, IsFiniteSet(ws),
           \A v, w \in ws : v # w => v.display # w.display
    PROVE  \A i \in 1 .. Cardinality(ws) : \E w \in ws : Rank(ws, w) = i - 1
<1> DEFINE n == Cardinality(ws)
           below(w) == {v \in ws : v.display < w.display}
           rank == [w \in ws |-> Cardinality(below(w))]
<1>1. n \in Nat /\ \A w \in ws : w.display \in Nat
  BY FS_CardinalityType DEF Window
<1>2. ASSUME NEW w \in ws
      PROVE  IsFiniteSet(below(w)) /\ Cardinality(below(w)) \in Nat /\ Cardinality(below(w)) <= n - 1
  <2>1. w \notin below(w) /\ below(w) \in SUBSET ws /\ below(w) # ws
    BY <1>1
  <2> HIDE DEF below
  <2>2. IsFiniteSet(below(w)) /\ Cardinality(below(w)) <= n /\ Cardinality(below(w)) # n
    BY <2>1, FS_Subset
  <2> QED
    BY <1>1, <2>2, FS_CardinalityType
<1>3. ASSUME NEW v \in ws, NEW w \in ws, v.display < w.display
      PROVE  Cardinality(below(v)) < Cardinality(below(w))
  <2>1. below(v) \in SUBSET below(w) /\ v \in below(w) /\ v \notin below(v)
    BY <1>1, <1>3
  <2>2. IsFiniteSet(below(w)) /\ Cardinality(below(w)) \in Nat /\ Cardinality(below(v)) \in Nat
    BY <1>2
  <2> HIDE DEF below
  <2>3. Cardinality(below(v)) <= Cardinality(below(w)) /\ Cardinality(below(v)) # Cardinality(below(w))
    BY <2>1, <2>2, FS_Subset
  <2> QED
    BY <2>2, <2>3
<1>4. rank \in [ws -> 0 .. n - 1]
  <2>1. \A w \in ws : Cardinality(below(w)) \in 0 .. n - 1
    <3> SUFFICES ASSUME NEW w \in ws PROVE Cardinality(below(w)) \in 0 .. n - 1
      OBVIOUS
    <3>1. Cardinality(below(w)) \in Nat /\ Cardinality(below(w)) <= n - 1
      BY <1>2
    <3> HIDE DEF below, n
    <3> QED
      BY <1>1, <3>1
  <2> HIDE DEF below
  <2> QED
    BY <2>1
<1>5. \A v, w \in ws : v # w => rank[v] # rank[w]
  <2> SUFFICES ASSUME NEW v \in ws, NEW w \in ws, v # w PROVE rank[v] # rank[w]
    OBVIOUS
  <2>1. v.display < w.display \/ w.display < v.display
    BY <1>1
  <2>2. Cardinality(below(v)) \in Nat /\ Cardinality(below(w)) \in Nat
    BY <1>2
  <2>3. rank[v] = Cardinality(below(v)) /\ rank[w] = Cardinality(below(w))
    OBVIOUS
  <2> HIDE DEF below, rank
  <2> QED
    BY <1>3, <2>1, <2>2, <2>3
<1>6. rank \in Injection(ws, 0 .. n - 1)
  <2> HIDE DEF rank
  <2> QED
    BY <1>4, <1>5 DEF Injection, IsInjective
<1>7. IsFiniteSet(0 .. n - 1) /\ Cardinality(0 .. n - 1) = n
  BY <1>1, FS_Interval
<1>8. rank \in Surjection(ws, 0 .. n - 1)
  <2> HIDE DEF rank
  <2> QED
    BY <1>6, <1>7, FS_Injection
<1>9. \A i \in 1 .. n : i - 1 \in 0 .. n - 1
  BY <1>1
<1>10. \A i \in 1 .. n : \E w \in ws : rank[w] = i - 1
  <2> HIDE DEF rank
  <2> QED
    BY <1>8, <1>9 DEF Surjection
<1>11. \A w \in ws : rank[w] = Rank(ws, w)
  BY DEF Rank
<1> HIDE DEF rank
<1> QED
  BY <1>10, <1>11

\* projectSessionPlan: a plan is a sequence of windows there are.
LEMMA PlanIsTyped ==
    ASSUME NEW next \in 1 .. MaxWindow + 1, NEW ws, WellFormed(ws, next)
    PROVE  Plan(ws) \in Seq(Entry)
<1>1. IsFiniteSet(ws) /\ Cardinality(ws) \in Nat
  BY WindowsAreFinite
<1>2. ASSUME NEW i \in 1 .. Cardinality(ws)
      PROVE  Ranked(ws, i) \in ws
  <2>1. \E w \in ws : Rank(ws, w) = i - 1
    BY <1>1, RanksAreExact DEF WellFormed
  <2> QED
    BY <2>1 DEF Ranked
<1>3. \A w \in ws : w.id \in WindowIDs /\ w.content \in Contents \cup {Terminated}
  BY DEF WellFormed, Window
<1>4. Plan(ws) \in [1 .. Cardinality(ws) -> Entry]
  BY <1>2, <1>3 DEF Plan, Entry
<1> QED
  BY <1>1, <1>4, SeqDef

-----------------------------------------------------------------------------
(* Snapshots and sequences of them *)

\* A sequence of snapshots is one, whatever set its elements are taken from.
LEMMA SequenceOfItsElements ==
    ASSUME NEW S, NEW q \in Seq(S), \A u \in S : IsUpdate(u)
    PROVE  q \in Seq(ToSet(q)) /\ \A u \in ToSet(q) : IsUpdate(u)
<1>1. q \in [1 .. Len(q) -> S] /\ Len(q) \in Nat
  OBVIOUS
<1>2. q \in [1 .. Len(q) -> ToSet(q)]
  BY <1>1 DEF ToSet
<1>3. q \in Seq(ToSet(q))
  BY <1>1, <1>2, SeqDef
<1>4. ToSet(q) \subseteq S
  BY <1>1 DEF ToSet
<1> QED
  BY <1>3, <1>4

\* A snapshot of a named record whose name is not among the names it leaves.
LEMMA SnapshotIsUpdate ==
    ASSUME NEW record \in Records, NEW left, record.name \notin left
    PROVE  IsUpdate([record |-> record, obsolete |-> left])
BY DEF IsUpdate

\* The one snapshot of a record, handed over alone.
LEMMA OneUpdate ==
    ASSUME NEW u, IsUpdate(u)
    PROVE  <<u>> \in Seq(ToSet(<<u>>)) /\ \A v \in ToSet(<<u>>) : IsUpdate(v)
<1>1. <<u>> \in Seq({u}) /\ \A v \in {u} : IsUpdate(v)
  OBVIOUS
<1> DEFINE q == <<u>>
<1>2. q \in Seq({u})
  BY <1>1
<1> HIDE DEF q
<1>3. q \in Seq(ToSet(q)) /\ \A v \in ToSet(q) : IsUpdate(v)
  BY <1>1, <1>2, SequenceOfItsElements
<1> QED
  BY <1>3 DEF q

\* No snapshots at all.
LEMMA NoUpdates == <<>> \in Seq(ToSet(<<>>)) /\ \A v \in ToSet(<<>>) : IsUpdate(v)
BY DEF ToSet

-----------------------------------------------------------------------------
(* What transactions do to sessions and windows *)

\* Register gives the next session its place.
LEMMA RegisteredIsTyped ==
    ASSUME SessionsTyped, NEW n \in Names \cup {None}, NEW alias \in Names \cup {None},
           NEW group \in SessionIDs, Register(n, alias, group),
           adopted' \in [SessionIDs -> SessionIDs \cup {None}]
    PROVE  /\ SessionsTyped'
           /\ nextSession \in SessionIDs /\ nextSession' = nextSession + 1
           /\ sessions'[nextSession].name = n
           /\ sessions'[nextSession].group = group
           /\ \A s \in SessionIDs : s < nextSession => sessions'[s] = sessions[s]
<1> DEFINE new == [name |-> n, alias |-> alias, group |-> group]
<1>1. nextSession \in SessionIDs /\ nextSession' = nextSession + 1 /\ nextSession' \in 1 .. MaxSession + 1
  BY PersistenceAssumption DEF SessionsTyped, Register, SessionIDs
<1>2. new \in Session
  BY DEF Session
<1>3. sessions' = [sessions EXCEPT ![nextSession] = new]
  BY DEF Register
<1>4. new.name = n /\ new.group = group
  OBVIOUS
<1> HIDE DEF new
<1>5. sessions' \in [SessionIDs -> Session \cup {None}]
  BY <1>1, <1>2, <1>3 DEF SessionsTyped
<1>6. sessions'[nextSession] = new /\ \A s \in SessionIDs : s # nextSession => sessions'[s] = sessions[s]
  BY <1>1, <1>3 DEF SessionsTyped
<1>7. \A s \in SessionIDs : s \in Int /\ (s < nextSession => s # nextSession)
  BY <1>1 DEF SessionIDs
<1>8. \A s \in SessionIDs : sessions'[s] # None => s < nextSession'
  BY <1>1, <1>6, <1>7 DEF SessionsTyped, SessionIDs
<1> QED
  BY <1>1, <1>4, <1>5, <1>6, <1>7, <1>8 DEF SessionsTyped

\* A group's windows are replaced by some with its own IDs or new ones.
LEMMA ReplacedWindowsAreTyped ==
    ASSUME WindowsTyped, NEW g \in SessionIDs, NEW ws, WellFormed(ws, nextWindow'),
           nextWindow' \in 1 .. MaxWindow + 1, nextWindow <= nextWindow',
           \A v \in ws : v.id >= nextWindow \/ \E w \in windows[g] : w.id = v.id,
           windows' = [windows EXCEPT ![g] = ws]
    PROVE  WindowsTyped'
<1>1. windows'[g] = ws /\ \A h \in SessionIDs : h # g => windows'[h] = windows[h]
  BY DEF WindowsTyped
<1>2. nextWindow \in Int /\ nextWindow' \in Int /\ \A w \in Window : w.id \in Int
  BY PersistenceAssumption DEF WindowsTyped, Window, WindowIDs
<1>3. \A h \in SessionIDs : WellFormed(windows'[h], nextWindow')
  BY <1>1, <1>2 DEF WindowsTyped, WellFormed
<1>4. \A h \in SessionIDs : \A v \in windows[h] : v.id < nextWindow /\ v \in Window
  BY DEF WindowsTyped, WellFormed
<1>5. \A h \in SessionIDs : h # g => \A v \in ws, w \in windows[h] : v.id # w.id
  <2> SUFFICES ASSUME NEW h \in SessionIDs, h # g, NEW v \in ws, NEW w \in windows[h]
               PROVE  v.id # w.id
    OBVIOUS
  <2>1. CASE v.id >= nextWindow
    BY <1>2, <1>4, <2>1
  <2>2. CASE \E u \in windows[g] : u.id = v.id
    BY <2>2 DEF WindowsTyped
  <2> QED
    BY <2>1, <2>2
<1>6. \A h, k \in SessionIDs : h # k => \A v \in windows'[h], w \in windows'[k] : v.id # w.id
  BY <1>1, <1>5 DEF WindowsTyped
<1>7. windows' \in [SessionIDs -> SUBSET Window]
  BY DEF WindowsTyped, WellFormed
<1> QED
  BY <1>3, <1>6, <1>7 DEF WindowsTyped

\* Other contents leave a group's windows well formed.
LEMMA NewContent ==
    ASSUME WindowsTyped, NEW g \in SessionIDs, NEW w \in windows[g],
           NEW content \in Contents \cup {Terminated}
    PROVE  /\ [w EXCEPT !.content = content] \in Window
           /\ [w EXCEPT !.content = content].id = w.id
           /\ [w EXCEPT !.content = content].display = w.display
BY DEF WindowsTyped, WellFormed, Window

LEMMA ChangedWindowsAreTyped ==
    ASSUME WindowsTyped, NEW g \in SessionIDs, NEW w \in windows[g],
           (Unused # {} /\ ChangeWindow(g, w)) \/ RemoveWindow(g, w), UNCHANGED nextWindow
    PROVE  WindowsTyped'
<1>1. CASE RemoveWindow(g, w)
  <2>1. WellFormed(windows[g] \ {w}, nextWindow')
    BY DEF WindowsTyped, WellFormed
  <2>2. windows' = [windows EXCEPT ![g] = windows[g] \ {w}]
    BY <1>1 DEF RemoveWindow
  <2>3. nextWindow' \in 1 .. MaxWindow + 1 /\ nextWindow <= nextWindow'
    BY PersistenceAssumption DEF WindowsTyped
  <2> QED
    BY <2>1, <2>2, <2>3, ReplacedWindowsAreTyped
<1>2. CASE Unused # {} /\ ChangeWindow(g, w)
  <2>1. PICK u : u = [w EXCEPT !.content = Fresh]
    OBVIOUS
  <2>2. u \in Window /\ u.id = w.id /\ u.display = w.display
    BY <1>2, <2>1, FreshIsContent, NewContent
  <2>3. WellFormed((windows[g] \ {w}) \cup {u}, nextWindow')
    BY <2>2 DEF WindowsTyped, WellFormed
  <2>4. windows' = [windows EXCEPT ![g] = (windows[g] \ {w}) \cup {u}]
    BY <1>2, <2>1 DEF ChangeWindow
  <2>5. nextWindow' \in 1 .. MaxWindow + 1 /\ nextWindow <= nextWindow'
    BY PersistenceAssumption DEF WindowsTyped
  <2> QED
    BY <2>2, <2>3, <2>4, <2>5, ReplacedWindowsAreTyped
<1> QED
  BY <1>1, <1>2

\* The windows of a group without sessions keep their places.
LEMMA LeftWindowsAreTyped ==
    ASSUME WindowsTyped, NEW g \in SessionIDs,
           windows' = [windows EXCEPT ![g] = AfterLast(g)], UNCHANGED nextWindow
    PROVE  WindowsTyped'
<1> DEFINE left == {[w EXCEPT !.content = Terminated] : w \in windows[g]}
<1>1. nextWindow' \in 1 .. MaxWindow + 1 /\ nextWindow <= nextWindow'
  BY PersistenceAssumption DEF WindowsTyped
<1>2. WellFormed({}, nextWindow')
  BY DEF WellFormed
<1>3. \A v \in left : \E w \in windows[g] : v \in Window /\ v.id = w.id /\ v.display = w.display
                                            /\ v = [w EXCEPT !.content = Terminated]
  <2> SUFFICES ASSUME NEW v \in left
               PROVE  \E w \in windows[g] : v \in Window /\ v.id = w.id /\ v.display = w.display
                                            /\ v = [w EXCEPT !.content = Terminated]
    OBVIOUS
  <2>1. PICK w \in windows[g] : v = [w EXCEPT !.content = Terminated]
    OBVIOUS
  <2>2. v \in Window /\ v.id = w.id /\ v.display = w.display
    BY <2>1, NewContent
  <2> QED
    BY <2>1, <2>2
<1>4. WellFormed(left, nextWindow')
  <2> HIDE DEF left
  <2>1. left \subseteq Window /\ \A v \in left : v.id < nextWindow
    BY <1>3 DEF WindowsTyped, WellFormed
  <2>2. \A u, v \in left : u # v => u.id # v.id /\ u.display # v.display
    BY <1>3 DEF WindowsTyped, WellFormed
  <2> QED
    BY <2>1, <2>2 DEF WellFormed
<1>5. AfterLast(g) = left \/ AfterLast(g) = {}
  BY DEF AfterLast
<1> HIDE DEF left
<1>6. WellFormed(AfterLast(g), nextWindow')
  BY <1>2, <1>4, <1>5
<1>7. \A v \in AfterLast(g) : \E w \in windows[g] : w.id = v.id
  BY <1>3, <1>5
<1> QED
  BY <1>1, <1>6, <1>7, ReplacedWindowsAreTyped

\* createWindowNow
LEMMA CreatedWindowIsTyped ==
    ASSUME WindowsTyped, NEW g \in SessionIDs, nextWindow <= MaxWindow, Unused # {},
           NEW new, new = [id |-> nextWindow, display |-> LowestDisplay(windows[g]), content |-> Fresh],
           windows' = [windows EXCEPT ![g] = @ \cup {new}], nextWindow' = nextWindow + 1
    PROVE  WindowsTyped'
<1>1. nextWindow \in WindowIDs /\ nextWindow' \in 1 .. MaxWindow + 1 /\ nextWindow <= nextWindow'
      /\ nextWindow \in Nat
  BY PersistenceAssumption DEF WindowsTyped, WindowIDs
<1>2. /\ WellFormed(windows[g], nextWindow) /\ windows[g] \subseteq Window
      /\ IsFiniteSet(windows[g]) /\ Cardinality(windows[g]) <= MaxWindow
  <2>1. WellFormed(windows[g], nextWindow) /\ nextWindow \in 1 .. MaxWindow + 1
    BY DEF WindowsTyped
  <2>2. IsFiniteSet(windows[g]) /\ Cardinality(windows[g]) \in Nat /\ Cardinality(windows[g]) <= nextWindow - 1
    BY <2>1, WindowsAreFinite
  <2> QED
    BY <1>1, <2>1, <2>2, PersistenceAssumption DEF WellFormed
<1>3. LowestDisplay(windows[g]) \in Nat /\ \A w \in windows[g] : w.display # LowestDisplay(windows[g])
  BY <1>2, LowestDisplayIsFree
<1>4. new \in Window /\ new.id = nextWindow /\ new.display = LowestDisplay(windows[g])
  BY <1>1, <1>3, FreshIsContent DEF Window
<1>5. \A w \in windows[g] : w.id \in Int /\ w.id < nextWindow
  BY <1>2, PersistenceAssumption DEF WellFormed, Window, WindowIDs
<1>6. WellFormed(windows[g] \cup {new}, nextWindow')
  BY <1>1, <1>2, <1>3, <1>4, <1>5 DEF WellFormed
<1>7. \A v \in windows[g] \cup {new} : v.id >= nextWindow \/ \E w \in windows[g] : w.id = v.id
  BY <1>1, <1>4
<1> QED
  BY <1>1, <1>6, <1>7, ReplacedWindowsAreTyped

\* restoreSessionPlan's windows are new, in the places of those of the record.
RestoredWindow(plan, first, i) ==
    [id |-> first + i - 1, display |-> i - 1, content |-> plan[i].content]

LEMMA RestoredWindowsAreTyped ==
    ASSUME WindowsTyped, NEW g \in SessionIDs, NEW plan \in Seq(Entry),
           nextWindow + Len(plan) <= MaxWindow + 1, nextWindow' = nextWindow + Len(plan),
           windows' = [windows EXCEPT ![g] = {RestoredWindow(plan, nextWindow, i) : i \in DOMAIN plan}]
    PROVE  WindowsTyped'
<1> DEFINE ws == {RestoredWindow(plan, nextWindow, i) : i \in DOMAIN plan}
<1>1. /\ Len(plan) \in Nat /\ DOMAIN plan = 1 .. Len(plan) /\ nextWindow \in Nat \ {0}
      /\ nextWindow' \in 1 .. MaxWindow + 1 /\ nextWindow <= nextWindow' /\ MaxWindow \in Nat
  BY PersistenceAssumption DEF WindowsTyped
<1>2. ASSUME NEW i \in DOMAIN plan
      PROVE  /\ RestoredWindow(plan, nextWindow, i) \in Window
             /\ RestoredWindow(plan, nextWindow, i).id = nextWindow + i - 1
             /\ RestoredWindow(plan, nextWindow, i).display = i - 1
             /\ nextWindow <= nextWindow + i - 1 /\ nextWindow + i - 1 < nextWindow'
  <2>1. plan[i] \in Entry /\ i \in 1 .. Len(plan)
    BY <1>1
  <2>2. nextWindow + i - 1 \in WindowIDs /\ i - 1 \in Nat /\ plan[i].content \in Contents \cup {Terminated}
    BY <1>1, <2>1 DEF WindowIDs, Entry
  <2> QED
    BY <1>1, <2>1, <2>2 DEF RestoredWindow, Window
<1>3. WellFormed(ws, nextWindow')
  <2>1. ws \subseteq Window /\ \A v \in ws : v.id < nextWindow'
    BY <1>2
  <2>2. \A i, j \in DOMAIN plan : i # j => nextWindow + i - 1 # nextWindow + j - 1 /\ i - 1 # j - 1
    BY <1>1
  <2>3. ASSUME NEW v \in ws, NEW w \in ws, v # w
        PROVE  v.id # w.id /\ v.display # w.display
    <3>1. PICK i \in DOMAIN plan : v = RestoredWindow(plan, nextWindow, i)
      OBVIOUS
    <3>2. PICK j \in DOMAIN plan : w = RestoredWindow(plan, nextWindow, j)
      OBVIOUS
    <3>3. i # j
      BY <2>3, <3>1, <3>2
    <3> QED
      BY <1>2, <2>2, <3>1, <3>2, <3>3
  <2> QED
    BY <2>1, <2>3 DEF WellFormed
<1>4. \A v \in ws : v.id >= nextWindow
  BY <1>1, <1>2
<1>5. windows' = [windows EXCEPT ![g] = ws]
  OBVIOUS
<1> HIDE DEF ws
<1> QED
  BY <1>1, <1>3, <1>4, <1>5, ReplacedWindowsAreTyped

\* persistSessionForPersistence: the records and the snapshots of persistSessions.  None
\* removes the file of its own record.
LEMMA PersistedSessionsAreUpdates ==
    ASSUME SessionsTyped', WindowsTyped', NEW some \in SUBSET SessionIDs,
           \A s \in some : sessions'[s] # None, persistSessions(some)
    PROVE  \E S : (\A u \in S : IsUpdate(u)) /\ outbox' \in Seq(S) /\ step' = 1
<1> DEFINE windowsAfter(s) == windows'[sessions'[s].group]
           saved == {s \in some : sessions'[s].name # None /\ windowsAfter(s) # {}}
           new == [s \in saved |-> NewRecord(s, Plan(windowsAfter(s)))]
           left == [s \in saved |-> LeftNames(s, sessions'[s].name)]
           update(s) == [record |-> new[s], obsolete |-> left[s]]
           S == {update(s) : s \in saved}
<1>1. PICK order \in SetToSeqs(saved) : outbox' = [i \in DOMAIN order |-> update(order[i])]
  BY DEF persistSessions
<1>2. \A u \in S : IsUpdate(u)
  <2>1. ASSUME NEW s \in saved
        PROVE  new[s] \in Records /\ new[s].name \notin left[s]
    <3>1. new[s].name = sessions'[s].name /\ sessions'[s].name \notin left[s]
      BY DEF NewRecord, LeftNames
    <3>2. sessions'[s] \in Session /\ sessions'[s].name # None /\ s \in SessionIDs
      BY DEF SessionsTyped
    <3>3. sessions'[s].name \in Names /\ sessions'[s].group \in SessionIDs
      BY <3>2 DEF Session
    <3>4. Plan(windowsAfter(s)) \in Seq(Entry)
      <4>1. WellFormed(windowsAfter(s), nextWindow') /\ nextWindow' \in 1 .. MaxWindow + 1
        BY <3>3 DEF WindowsTyped
      <4> QED
        BY <4>1, PlanIsTyped
    <3>5. NewRecord(s, Plan(windowsAfter(s))) \in Records
      <4> HIDE DEF windowsAfter
      <4> QED
        BY <3>2, <3>3, <3>4 DEF NewRecord, Records, Entry
    <3> QED
      BY <3>1, <3>5
  <2>2. \A s \in saved : IsUpdate(update(s))
    <3> HIDE DEF new, left
    <3> QED
      BY <2>1 DEF IsUpdate
  <2> QED
    BY <2>2
<1>3. Cardinality(saved) \in Nat
  <2>1. MaxSession \in Int
    BY PersistenceAssumption
  <2>2. IsFiniteSet(SessionIDs)
    BY <2>1, FS_Interval DEF SessionIDs
  <2>3. saved \in SUBSET SessionIDs
    OBVIOUS
  <2> QED
    BY <2>2, <2>3, FS_Subset, FS_CardinalityType
<1>4. order \in [1 .. Cardinality(saved) -> saved]
  BY <1>1 DEF SetToSeqs
<1>5. outbox' \in [1 .. Cardinality(saved) -> S]
  BY <1>1, <1>4
<1>6. outbox' \in Seq(S)
  BY <1>3, <1>5, SeqDef
<1>7. step' = 1
  BY DEF persistSessions
<1> HIDE DEF S
<1> QED
  BY <1>2, <1>6, <1>7

LEMMA PersistedRecordsAreTyped ==
    ASSUME SessionsTyped', WindowsTyped', NEW some \in SUBSET SessionIDs,
           \A s \in some : sessions'[s] # None, persistSessions(some), RecordsTyped,
           \A s \in SessionIDs : s < nextSession /\ sessions'[s] # None /\ sessions[s].name \in Names =>
                                   sessions'[s].name \in Names
    PROVE  RecordsTyped'
<1> DEFINE windowsAfter(s) == windows'[sessions'[s].group]
           saved == {s \in some : sessions'[s].name # None /\ windowsAfter(s) # {}}
           record(s) == NewRecord(s, Plan(windowsAfter(s)))
<1>1. ASSUME NEW s \in saved
      PROVE  record(s) \in Records /\ sessions'[s].name \in Names
  <2>1. sessions'[s] \in Session /\ sessions'[s].name # None /\ s \in SessionIDs
    BY DEF SessionsTyped
  <2>2. sessions'[s].name \in Names /\ sessions'[s].group \in SessionIDs
    BY <2>1 DEF Session
  <2>3. Plan(windowsAfter(s)) \in Seq(Entry)
    <3>1. WellFormed(windowsAfter(s), nextWindow') /\ nextWindow' \in 1 .. MaxWindow + 1
      BY <2>2 DEF WindowsTyped
    <3> QED
      BY <3>1, PlanIsTyped
  <2> HIDE DEF windowsAfter
  <2> QED
    BY <2>1, <2>2, <2>3 DEF NewRecord, Records, Entry
<1>2. ASSUME NEW s \in saved
      PROVE  LeftNames(s, sessions'[s].name) \subseteq Names
  BY DEF LeftNames, RecordsTyped, Records
<1>3. records' = [s \in SessionIDs |-> IF sessions'[s] = None THEN None
                                       ELSE IF s \in saved THEN record(s) ELSE records[s]]
  BY DEF persistSessions
<1>4. obsolete' = [s \in SessionIDs |-> IF sessions'[s] = None THEN {}
                                        ELSE IF s \in saved THEN LeftNames(s, sessions'[s].name)
                                        ELSE obsolete[s]]
  BY DEF persistSessions
<1> HIDE DEF saved, record
<1>5. records' \in [SessionIDs -> Records \cup {None}] /\ obsolete' \in [SessionIDs -> SUBSET Names]
  BY <1>1, <1>2, <1>3, <1>4 DEF RecordsTyped
<1>6. ASSUME NEW s \in SessionIDs, records'[s] # None
      PROVE  s < nextSession' /\ sessions'[s].name \in Names
  <2>1. sessions'[s] # None /\ s < nextSession'
    BY <1>3, <1>6 DEF SessionsTyped
  <2>2. CASE s \in saved
    BY <1>1, <2>1, <2>2
  <2>3. CASE s \notin saved
    BY <1>3, <1>6, <2>1, <2>3 DEF RecordsTyped
  <2> QED
    BY <2>1, <2>2, <2>3
<1> QED
  BY <1>5, <1>6 DEF RecordsTyped

\* A transaction that saves some sessions, whose names stay names.
Saves(some) ==
    /\ some \subseteq SessionIDs /\ \A s \in some : sessions'[s] # None
    /\ persistSessions(some)
    /\ \A s \in SessionIDs : s < nextSession /\ sessions'[s] # None /\ sessions[s].name \in Names =>
                               sessions'[s].name \in Names

\* A transaction that saves nothing: sessions with a record keep their names.
SavesNothing ==
    /\ NothingSaved
    /\ nextSession <= nextSession'
    /\ \A s \in SessionIDs : s < nextSession => sessions'[s] = sessions[s]

\* One that saves a record as the only one.
SavesOne(s, record, left) ==
    /\ record \in Records /\ record.name \notin left
    /\ sessions'[s].name \in Names /\ s < nextSession'
    /\ nextSession <= nextSession'
    /\ \A r \in SessionIDs : r < nextSession => sessions'[r] = sessions[r]
    /\ records' = [records EXCEPT ![s] = record]
    /\ outbox' = <<[record |-> record, obsolete |-> left]>> /\ step' = 1
    /\ UNCHANGED obsolete

\* What a transaction of the daemon does to the mailbox, the worker and the files:
\* snapshots are queued, nothing is handed over yet.
IsTransaction ==
    /\ outbox = <<>>
    /\ outbox' \in Seq(ToSet(outbox')) /\ \A u \in ToSet(outbox') : IsUpdate(u)
    /\ step' = 1
    /\ UNCHANGED <<slot, wake, disk, last>>

LEMMA SavingIsTransaction ==
    ASSUME IInv, Typed, Transaction, SessionsTyped', WindowsTyped', ReadingTyped',
           SavesNothing \/ (\E some : Saves(some)) \/ (\E s \in SessionIDs : \E record, left : SavesOne(s, record, left))
    PROVE  IsTransaction /\ Typed'
<1>1. UNCHANGED <<slot, wake, disk, last>> /\ outbox = <<>> /\ UNCHANGED files
  BY DEF Transaction, disk
<1>2. FilesTyped'
  BY <1>1 DEF Typed, FilesTyped
<1>3. nextSession \in Int /\ nextSession' \in Int /\ SessionIDs \subseteq Int
  BY PersistenceAssumption DEF Typed, SessionsTyped, SessionIDs
<1>4. CASE SavesNothing
  <2>1. IsTransaction
    BY <1>1, <1>4 DEF IInv, OutboxOK, SavesNothing, NothingSaved, IsTransaction
  <2>2. RecordsTyped'
    BY <1>3, <1>4 DEF Typed, RecordsTyped, SavesNothing, NothingSaved
  <2> QED
    BY <1>2, <2>1, <2>2 DEF Typed
<1>5. ASSUME NEW some, Saves(some)
      PROVE  IsTransaction /\ Typed'
  <2>1. some \in SUBSET SessionIDs /\ persistSessions(some) /\ \A s \in some : sessions'[s] # None
    BY <1>5 DEF Saves
  <2>2. PICK S : (\A u \in S : IsUpdate(u)) /\ outbox' \in Seq(S) /\ step' = 1
    BY <2>1, PersistedSessionsAreUpdates
  <2>3. outbox' \in Seq(ToSet(outbox')) /\ \A u \in ToSet(outbox') : IsUpdate(u)
    BY <2>2, SequenceOfItsElements
  <2>4. RecordsTyped'
    BY <1>5, <2>1, PersistedRecordsAreTyped DEF Typed, Saves
  <2> QED
    BY <1>1, <1>2, <2>2, <2>3, <2>4 DEF Typed, IsTransaction
<1>6. ASSUME NEW s \in SessionIDs, NEW record, NEW left, SavesOne(s, record, left)
      PROVE  IsTransaction /\ Typed'
  <2>1. outbox' \in Seq(ToSet(outbox')) /\ \A u \in ToSet(outbox') : IsUpdate(u)
    BY <1>6, SnapshotIsUpdate, OneUpdate DEF SavesOne
  <2>2. RecordsTyped'
    BY <1>3, <1>6 DEF Typed, RecordsTyped, SavesOne
  <2> QED
    BY <1>1, <1>2, <1>6, <2>1, <2>2 DEF Typed, IsTransaction, SavesOne
<1> QED
  BY <1>4, <1>5, <1>6

-----------------------------------------------------------------------------
(* The daemon's transactions *)

\* What a transaction leaves when it leaves the sessions, the windows, or what is read.
LEMMA SessionsStayTyped ==
    ASSUME SessionsTyped, UNCHANGED <<sessions, nextSession, adopted>>
    PROVE  SessionsTyped' /\ nextSession <= nextSession'
BY PersistenceAssumption DEF SessionsTyped

LEMMA WindowsStayTyped ==
    ASSUME WindowsTyped, UNCHANGED <<windows, nextWindow>>
    PROVE  WindowsTyped'
BY DEF WindowsTyped

LEMMA ReadingStaysTyped ==
    ASSUME ReadingTyped, UNCHANGED reading \/ reading' = None
    PROVE  ReadingTyped'
BY DEF ReadingTyped

LEMMA LiveIsTyped ==
    ASSUME SessionsTyped, NEW s \in Live
    PROVE  /\ s \in SessionIDs /\ s < nextSession
           /\ sessions[s] \in Session /\ sessions[s].group \in SessionIDs
BY DEF SessionsTyped, Live, Session

\* Creations without windows.
LEMMA CreationsAreTransactions ==
    ASSUME IInv, Typed,
           (\E n \in Names \cup {None} : createSession(n)) \/ (\E base \in SessionIDs, n \in Names : createMirror(base, n))
    PROVE  IsTransaction /\ Typed'
<1>1. PICK n, group : /\ n \in Names \cup {None} /\ group \in SessionIDs /\ Register(n, n, group)
                      /\ Transaction /\ NothingSaved /\ UNCHANGED <<windows, nextWindow, adopted, reading>>
  <2>1. CASE \E n \in Names \cup {None} : createSession(n)
    <3>1. PICK n \in Names \cup {None} : createSession(n)
      BY <2>1
    <3>2. nextSession \in SessionIDs
      BY <3>1, PersistenceAssumption DEF createSession, Register, Typed, SessionsTyped, SessionIDs
    <3> QED
      BY <3>1, <3>2 DEF createSession
  <2>2. CASE \E base \in SessionIDs, n \in Names : createMirror(base, n)
    <3>1. PICK base, n : base \in SessionIDs /\ n \in Names /\ createMirror(base, n)
      BY <2>2
    <3>2. sessions[base].group \in SessionIDs
      BY <3>1, LiveIsTyped DEF createMirror, Typed
    <3> QED
      BY <3>1, <3>2 DEF createMirror
  <2> QED
    BY <2>1, <2>2
<1>2. adopted' \in [SessionIDs -> SessionIDs \cup {None}]
  BY <1>1 DEF Typed, SessionsTyped
<1>3. /\ SessionsTyped' /\ nextSession' = nextSession + 1
      /\ \A s \in SessionIDs : s < nextSession => sessions'[s] = sessions[s]
  BY <1>1, <1>2, RegisteredIsTyped DEF Typed
<1>4. SavesNothing
  BY <1>1, <1>3, PersistenceAssumption DEF SavesNothing, Typed, SessionsTyped
<1>5. WindowsTyped' /\ ReadingTyped'
  BY <1>1, WindowsStayTyped, ReadingStaysTyped DEF Typed
<1> QED
  BY <1>1, <1>3, <1>4, <1>5, SavingIsTransaction

\* Changes of windows that save their session.
LEMMA SavedChangesAreTransactions ==
    ASSUME IInv, Typed, NEW s \in Live, Transaction, WindowsTyped',
           UNCHANGED <<sessions, registered, nextSession, adopted, reading>>, persistSessions({s})
    PROVE  IsTransaction /\ Typed'
<1>1. SessionsTyped' /\ ReadingTyped'
  BY SessionsStayTyped, ReadingStaysTyped DEF Typed
<1>2. {s} \subseteq SessionIDs /\ \A r \in {s} : sessions'[r] # None
  BY DEF Live
<1>3. Saves({s})
  BY <1>2 DEF Saves
<1> QED
  BY <1>1, <1>3, SavingIsTransaction

LEMMA WindowCreationIsTransaction ==
    ASSUME IInv, Typed, NEW s \in SessionIDs, createWindow(s)
    PROVE  IsTransaction /\ Typed'
<1>1. s \in Live /\ Transaction /\ persistSessions({s})
      /\ UNCHANGED <<sessions, registered, nextSession, adopted, reading>>
  BY DEF createWindow
<1>2. WindowsTyped'
  <2> DEFINE g == sessions[s].group
  <2>1. g \in SessionIDs
    BY <1>1, LiveIsTyped DEF Typed
  <2>2. PICK new : /\ new = [id |-> nextWindow, display |-> LowestDisplay(windows[g]), content |-> Fresh]
                   /\ windows' = [windows EXCEPT ![g] = @ \cup {new}]
    BY DEF createWindow
  <2>3. nextWindow <= MaxWindow /\ Unused # {} /\ nextWindow' = nextWindow + 1
    BY DEF createWindow
  <2> HIDE DEF g
  <2> QED
    BY <2>1, <2>2, <2>3, CreatedWindowIsTyped DEF Typed
<1> QED
  BY <1>1, <1>2, SavedChangesAreTransactions

LEMMA KillPaneIsTransaction ==
    ASSUME IInv, Typed, NEW s \in Live, NEW w \in WindowsOf(s), killPane(s, w)
    PROVE  IsTransaction /\ Typed'
<1>1. Transaction /\ persistSessions({s}) /\ UNCHANGED <<sessions, registered, nextSession, adopted, reading>>
  BY DEF killPane
<1>2. WindowsTyped'
  <2>1. sessions[s].group \in SessionIDs
    BY LiveIsTyped DEF Typed
  <2> QED
    BY <2>1, ChangedWindowsAreTyped DEF killPane, WindowsOf, Typed
<1> QED
  BY <1>1, <1>2, SavedChangesAreTransactions

\* persistWindowForPersistence changes one window's content in the record there is.
LEMMA ChangeWindowIsTransaction ==
    ASSUME IInv, Typed, NEW s \in Live, NEW w \in WindowsOf(s), changeWindow(s, w)
    PROVE  IsTransaction /\ Typed'
<1>1. /\ Transaction /\ persistWindow(s, w.id, Fresh) /\ Unused # {}
      /\ UNCHANGED <<sessions, registered, nextSession, nextWindow, adopted, reading>>
  BY DEF changeWindow
<1>2. s \in SessionIDs /\ s < nextSession /\ sessions[s] \in Session /\ sessions[s].group \in SessionIDs
  BY LiveIsTyped DEF Typed
<1>3. WindowsTyped'
  BY <1>1, <1>2, ChangedWindowsAreTyped DEF changeWindow, WindowsOf, Typed
<1>4. CASE persistSessions({s})
  BY <1>1, <1>3, <1>4, SavedChangesAreTransactions
<1>5. CASE ~ persistSessions({s})
  <2> DEFINE at == {i \in DOMAIN records[s].plan : records[s].plan[i].id = w.id}
  <2>1. records[s] # None /\ at # {}
    BY <1>1, <1>5 DEF persistWindow
  <2>2. PICK i : i = CHOOSE k \in at : \A j \in at : k <= j
    OBVIOUS
  <2>3. PICK record : record = NewRecord(s, [records[s].plan EXCEPT ![i] = [id |-> w.id, content |-> Fresh]])
    OBVIOUS
  <2>4. /\ records' = [records EXCEPT ![s] = record]
        /\ outbox' = <<[record |-> record, obsolete |-> obsolete[s] \ {record.name}]>>
        /\ step' = 1 /\ UNCHANGED obsolete
    BY <1>1, <2>1, <2>2, <2>3 DEF persistWindow
  <2>5. records[s] \in Records /\ sessions[s].name \in Names
    BY <1>2, <2>1 DEF Typed, RecordsTyped
  <2>6. record \in Records
    <3>1. records[s].plan \in Seq(Entry)
      BY <2>5 DEF Records, Entry
    <3>2. Fresh \in Contents
      BY <1>1, FreshIsContent
    <3>3. [id |-> w.id, content |-> Fresh] \in Entry
      BY <1>2, <3>2 DEF Entry, WindowsOf, Typed, WindowsTyped, Window
    <3>4. [records[s].plan EXCEPT ![i] = [id |-> w.id, content |-> Fresh]] \in Seq(Entry)
      <4>1. DOMAIN records[s].plan = 1 .. Len(records[s].plan) /\ Len(records[s].plan) \in Nat
        BY <3>1
      <4>2. at \subseteq Nat
        BY <4>1
      <4>3. \E k \in at : \A j \in at : k <= j
        <5> HIDE DEF at
        <5> QED
          BY <2>1, <4>2, LeastNat
      <4>4. i \in at
        BY <2>2, <4>3
      <4>5. i \in 1 .. Len(records[s].plan)
        BY <4>1, <4>4
      <4> QED
        BY <3>1, <3>3, <4>5, ExceptSeq
    <3> QED
      BY <1>1, <1>2, <2>3, <2>5, <3>4 DEF NewRecord, Records, Entry, Session
  <2>7. SessionsTyped' /\ ReadingTyped' /\ nextSession <= nextSession'
    BY <1>1, SessionsStayTyped, ReadingStaysTyped DEF Typed
  <2>8. SavesOne(s, record, obsolete[s] \ {record.name})
    BY <1>1, <1>2, <2>4, <2>5, <2>6, <2>7 DEF SavesOne
  <2> QED
    BY <1>1, <1>2, <1>3, <2>7, <2>8, SavingIsTransaction
<1> QED
  BY <1>4, <1>5

LEMMA PaneExitIsTransaction ==
    ASSUME IInv, Typed, NEW g \in SessionIDs, NEW w \in windows[g], paneExits(g, w)
    PROVE  IsTransaction /\ Typed'
<1>1. Transaction /\ NothingSaved /\ UNCHANGED <<sessions, registered, nextSession, nextWindow, adopted, reading>>
  BY DEF paneExits
<1>2. WindowsTyped'
  BY ChangedWindowsAreTyped DEF paneExits, Typed
<1>3. SessionsTyped' /\ ReadingTyped' /\ nextSession <= nextSession'
  BY <1>1, SessionsStayTyped, ReadingStaysTyped DEF Typed
<1>4. SavesNothing
  BY <1>1, <1>3 DEF SavesNothing
<1> QED
  BY <1>1, <1>2, <1>3, <1>4, SavingIsTransaction

LEMMA RenameIsTransaction ==
    ASSUME IInv, Typed, NEW s \in SessionIDs, NEW n \in Names, renameSession(s, n)
    PROVE  IsTransaction /\ Typed'
<1>1. s \in Live /\ Transaction /\ persistSessions({s})
      /\ UNCHANGED <<windows, registered, nextSession, nextWindow, adopted, reading>>
  BY DEF renameSession
<1>2. sessions[s] \in Session /\ s < nextSession
  BY <1>1, LiveIsTyped DEF Typed
<1>3. PICK new : new = [name |-> n, alias |-> n, group |-> sessions[s].group]
  OBVIOUS
<1>4. new \in Session /\ new.name = n
  BY <1>2, <1>3 DEF Session
<1>5. sessions' = [sessions EXCEPT ![s] = new]
  BY <1>2, <1>3 DEF renameSession, Session, Typed, SessionsTyped
<1>6. sessions'[s] = new /\ \A r \in SessionIDs : r # s => sessions'[r] = sessions[r]
  BY <1>5 DEF Typed, SessionsTyped
<1>7. SessionsTyped'
  BY <1>1, <1>2, <1>4, <1>5 DEF Typed, SessionsTyped
<1>8. WindowsTyped' /\ ReadingTyped'
  BY <1>1, WindowsStayTyped, ReadingStaysTyped DEF Typed
<1>9. Saves({s})
  BY <1>1, <1>4, <1>6, NoneIsNothing DEF Saves
<1> QED
  BY <1>1, <1>7, <1>8, <1>9, SavingIsTransaction

LEMMA KillSessionIsTransaction ==
    ASSUME IInv, Typed, NEW s \in SessionIDs, killSession(s)
    PROVE  IsTransaction /\ Typed'
<1> DEFINE g == sessions[s].group
           others == Members(g) \ {s}
<1>1. /\ s \in Live /\ Transaction /\ persistSessions(others)
      /\ sessions' = [sessions EXCEPT ![s] = None]
      /\ UNCHANGED <<nextSession, nextWindow, adopted, reading>>
      /\ windows' = IF others = {} THEN [windows EXCEPT ![g] = AfterLast(g)] ELSE windows
  BY DEF killSession
<1>2. g \in SessionIDs
  BY <1>1, LiveIsTyped DEF Typed
<1>3. WindowsTyped'
  BY <1>1, <1>2, LeftWindowsAreTyped, WindowsStayTyped DEF Typed
<1>4. SessionsTyped' /\ ReadingTyped'
  BY <1>1, ReadingStaysTyped DEF Typed, SessionsTyped
<1>5. Saves(others)
  BY <1>1 DEF Saves, Members, Live, Typed, SessionsTyped
<1> HIDE DEF others
<1> QED
  BY <1>1, <1>3, <1>4, <1>5, SavingIsTransaction

LEMMA ReadingIsTransaction ==
    ASSUME IInv, Typed, (\E n, as \in Names : readRecord(n, as)) \/ restoreFails
    PROVE  IsTransaction /\ Typed'
<1>1. Transaction /\ NothingSaved /\ UNCHANGED <<graph, adopted>>
  BY DEF readRecord, restoreFails
<1>2. ReadingTyped'
  BY DEF readRecord, restoreFails, Typed, ReadingTyped, FilesTyped
<1>3. SessionsTyped' /\ WindowsTyped' /\ nextSession <= nextSession'
  BY <1>1, SessionsStayTyped, WindowsStayTyped DEF Typed, graph
<1>4. SavesNothing
  BY <1>1, <1>3 DEF SavesNothing, graph
<1> QED
  BY <1>1, <1>2, <1>3, <1>4, SavingIsTransaction

LEMMA RestoreIsTransaction ==
    ASSUME IInv, Typed, restoreSession
    PROVE  IsTransaction /\ Typed'
<1>1. Transaction /\ reading # None /\ reading' = None
  BY DEF restoreSession
<1>2. PICK record, as : record = reading.record /\ as = reading.as
  OBVIOUS
<1>3. record \in Records /\ as \in Names /\ record.name \in Names /\ record.group \in SessionIDs
      /\ record.plan \in Seq(Entry)
  BY <1>1, <1>2 DEF Typed, ReadingTyped, Records, Entry
<1>4. ReadingTyped'
  BY <1>1, ReadingStaysTyped DEF Typed
<1>5. CASE restoreSessionView(record, as)
  <2>1. adopted[record.group] \in SessionIDs /\ UNCHANGED <<windows, registered, nextWindow, adopted>>
        /\ Register(record.name, as, adopted[record.group]) /\ NothingSaved
    BY <1>3, <1>5 DEF restoreSessionView, LiveGroup, Typed, SessionsTyped
  <2>2. adopted' \in [SessionIDs -> SessionIDs \cup {None}]
    BY <2>1 DEF Typed, SessionsTyped
  <2>3. /\ SessionsTyped' /\ nextSession' = nextSession + 1
        /\ \A s \in SessionIDs : s < nextSession => sessions'[s] = sessions[s]
    BY <1>3, <2>1, <2>2, RegisteredIsTyped DEF Typed
  <2>4. SavesNothing
    BY <2>1, <2>3, PersistenceAssumption DEF SavesNothing, Typed, SessionsTyped
  <2>5. WindowsTyped'
    BY <2>1, WindowsStayTyped DEF Typed
  <2> QED
    BY <1>1, <1>4, <2>3, <2>4, <2>5, SavingIsTransaction
<1>6. CASE restoreSessionPlan(record, as)
  <2>1. /\ nextWindow + Len(record.plan) <= MaxWindow + 1
        /\ Register(as, as, nextSession)
        /\ windows' = [windows EXCEPT ![nextSession] =
                         {RestoredWindow(record.plan, nextWindow, i) : i \in DOMAIN record.plan}]
        /\ nextWindow' = nextWindow + Len(record.plan)
        /\ adopted' = [adopted EXCEPT ![record.group] = nextSession]
    BY <1>6 DEF restoreSessionPlan, RestoredWindow
  <2>2. nextSession \in SessionIDs
    BY <2>1, PersistenceAssumption DEF Register, Typed, SessionsTyped, SessionIDs
  <2>3. adopted' \in [SessionIDs -> SessionIDs \cup {None}]
    BY <2>1, <2>2 DEF Typed, SessionsTyped
  <2>4. /\ SessionsTyped' /\ nextSession' = nextSession + 1
        /\ sessions'[nextSession].name = as /\ sessions'[nextSession].group = nextSession
        /\ \A s \in SessionIDs : s < nextSession => sessions'[s] = sessions[s]
    BY <1>3, <2>1, <2>2, <2>3, RegisteredIsTyped DEF Typed
  <2>5. WindowsTyped'
    BY <1>3, <2>1, <2>2, RestoredWindowsAreTyped DEF Typed
  <2>6. PICK plan : plan = [i \in DOMAIN record.plan |-> [id |-> i, content |-> record.plan[i].content]]
    OBVIOUS
  <2>7. plan \in Seq(Entry)
    <3>1. Len(record.plan) \in Nat /\ DOMAIN record.plan = 1 .. Len(record.plan)
      BY <1>3
    <3>2. \A i \in DOMAIN record.plan : i \in WindowIDs
      BY <2>1, <3>1, PersistenceAssumption DEF WindowIDs, Typed, WindowsTyped
    <3>3. \A i \in DOMAIN record.plan : [id |-> i, content |-> record.plan[i].content] \in Entry
      <4>1. \A i \in DOMAIN record.plan : record.plan[i] \in Entry
        BY <1>3, <3>1
      <4>2. \A i \in DOMAIN record.plan : record.plan[i].content \in Contents \cup {Terminated}
        BY <4>1 DEF Entry
      <4> QED
        BY <3>2, <4>2 DEF Entry
    <3>4. plan \in [1 .. Len(record.plan) -> Entry]
      BY <2>6, <3>1, <3>3
    <3> QED
      BY <3>1, <3>4, SeqDef
  <2>8. PICK new : new = NewRecord(nextSession, plan)
    OBVIOUS
  <2>9. new \in Records
    BY <1>3, <2>2, <2>4, <2>7, <2>8 DEF NewRecord, Records, Entry
  <2>10. SavesOne(nextSession, new, {})
    <3>1. records' = [records EXCEPT ![nextSession] = new]
          /\ outbox' = <<[record |-> new, obsolete |-> {}]>> /\ step' = 1 /\ UNCHANGED obsolete
      BY <1>6, <2>6, <2>8 DEF restoreSessionPlan
    <3>2. nextSession < nextSession' /\ nextSession <= nextSession'
      BY <2>4, PersistenceAssumption DEF Typed, SessionsTyped
    <3> QED
      BY <1>3, <2>4, <2>9, <3>1, <3>2 DEF SavesOne
  <2> QED
    BY <1>1, <1>4, <2>2, <2>4, <2>5, <2>10, SavingIsTransaction
<1> QED
  BY <1>2, <1>5, <1>6 DEF restoreSession

\* Every daemon transaction keeps its state typed and hands nothing over yet.
LEMMA DaemonIsTransaction ==
    ASSUME IInv, Typed, Daemon
    PROVE  IsTransaction /\ Typed'
BY CreationsAreTransactions, WindowCreationIsTransaction, KillSessionIsTransaction,
   ChangeWindowIsTransaction, KillPaneIsTransaction, PaneExitIsTransaction, RenameIsTransaction,
   ReadingIsTransaction, RestoreIsTransaction DEF Daemon

-----------------------------------------------------------------------------
(* The steps *)

\* A transaction keeps the invariant: what it queues is not handed over yet.
LEMMA TransactionKeepsInvariant ==
    ASSUME IInv, IsTransaction
    PROVE  IInv'
<1>1. UNCHANGED <<slot, wake, worker, files, last>>
  BY DEF IsTransaction, disk
<1>2. OutboxOK'
  BY DEF IsTransaction, OutboxOK
<1>3. SlotOK' /\ WorkerOK' /\ FilesAreNamed'
  BY <1>1 DEF IInv, SlotOK, WorkerOK, FilesAreNamed, OnDisk
<1>4. LastOK'
  <2>1. ~ IsReplaced
    BY DEF IsTransaction, IsReplaced
  <2> QED
    BY <1>1, <2>1 DEF IInv, IsTransaction, LastOK, IsReplaced, IsPending, IsBeingWritten,
                      IsWritten, OnDisk
<1> QED
  BY <1>2, <1>3, <1>4 DEF IInv

\* Handing a snapshot over keeps the invariant: the place is drained before the put,
\* and the wake-up comes after it.
LEMMA HandOverKeepsInvariant ==
    ASSUME IInv, queuePersistenceWrite
    PROVE  IInv'
<1>1. outbox # <<>> /\ UNCHANGED <<worker, files>>
  BY DEF queuePersistenceWrite, disk
<1>2. Len(QueueSteps) = 3 /\ QueueSteps[1] = "drain" /\ QueueSteps[2] = "put" /\ QueueSteps[3] = "wake"
  BY DEF QueueSteps
<1>3. Head(outbox) \in ToSet(outbox) /\ IsUpdate(Head(outbox))
  BY <1>1 DEF IInv, OutboxOK
<1>4. WorkerOK' /\ FilesAreNamed'
  BY <1>1 DEF IInv, WorkerOK, FilesAreNamed, OnDisk
<1>5. CASE step = 1
  <2>1. slot' = <<>> /\ step' = 2 /\ UNCHANGED <<outbox, last>>
    BY <1>2, <1>5 DEF queuePersistenceWrite
  <2>2. OutboxOK' /\ SlotOK'
    BY <2>1, <1>1 DEF IInv, OutboxOK, SlotOK
  <2>3. LastOK'
    BY <2>1, <1>1 DEF LastOK, IsReplaced
  <2> QED
    BY <1>4, <2>2, <2>3 DEF IInv
<1>6. CASE step = 2
  <2>1. slot = <<>>
    BY <1>6 DEF IInv, OutboxOK
  <2>2. slot' = <<Head(outbox)>> /\ step' = 3 /\ UNCHANGED outbox /\ last' = Head(outbox).record
    BY <1>2, <1>6, <2>1 DEF queuePersistenceWrite
  <2>3. OutboxOK'
    BY <2>2, <1>1 DEF IInv, OutboxOK
  <2>4. SlotOK'
    BY <2>2, <1>3 DEF SlotOK
  <2>5. IsPending'
    BY <2>2, <1>1 DEF IsPending
  <2> QED
    BY <1>4, <2>3, <2>4, <2>5 DEF IInv, LastOK
<1>7. CASE step = 3
  <2>1. UNCHANGED <<slot, last>> /\ step' = 1 /\ outbox' = Tail(outbox)
    BY <1>2, <1>7 DEF queuePersistenceWrite
  <2>2. wake'
    BY <1>2, <1>7 DEF queuePersistenceWrite
  <2>3. Tail(outbox) \in Seq(ToSet(outbox))
    BY <1>1, HeadTailProperties DEF IInv, OutboxOK
  <2>4. OutboxOK'
    <3>1. \A u \in ToSet(outbox) : IsUpdate(u)
      BY DEF IInv, OutboxOK
    <3>2. Tail(outbox) \in Seq(ToSet(Tail(outbox))) /\ \A u \in ToSet(Tail(outbox)) : IsUpdate(u)
      BY <2>3, <3>1, SequenceOfItsElements
    <3>3. outbox' \in Seq(ToSet(outbox')) /\ \A u \in ToSet(outbox') : IsUpdate(u)
      BY <2>1, <3>2
    <3> QED
      BY <2>1, <3>3 DEF OutboxOK
  <2>5. SlotOK'
    BY <2>1 DEF IInv, SlotOK
  <2>6. LastOK'
    BY <1>1, <1>7, <2>1, <2>2 DEF IInv, LastOK, IsReplaced, IsPending, IsBeingWritten, IsWritten, OnDisk
  <2> QED
    BY <1>4, <2>4, <2>5, <2>6 DEF IInv
<1> QED
  BY <1>5, <1>6, <1>7 DEF IInv, OutboxOK

\* The worker's wake-up and its look into the mailbox keep the invariant.
LEMMA TakingKeepsInvariant ==
    ASSUME IInv, takeWake \/ takeUpdate
    PROVE  IInv'
<1> USE DEF Idle, Woken
<1>1. UNCHANGED <<outbox, step, files, last>>
  BY DEF takeWake, takeUpdate, WorkerOnly
<1>2. FilesAreNamed'
  BY <1>1 DEF IInv, FilesAreNamed
<1>3. CASE takeWake
  <2>1. /\ worker.at = Idle /\ worker'.at = Woken /\ UNCHANGED slot
        /\ worker' = [at |-> worker'.at, update |-> worker'.update]
    BY <1>3 DEF IInv, WorkerOK, takeWake
  <2>2. OutboxOK' /\ SlotOK' /\ WorkerOK'
    BY <1>1, <2>1 DEF IInv, OutboxOK, SlotOK, WorkerOK
  <2>3. LastOK'
    BY <1>1, <2>1 DEF IInv, LastOK, IsReplaced, IsPending, IsBeingWritten, IsWritten, OnDisk
  <2> QED
    BY <1>2, <2>2, <2>3 DEF IInv
<1>4. CASE takeUpdate /\ slot = <<>>
  <2>1. worker.at = Woken /\ worker' = [at |-> Idle, update |-> None] /\ UNCHANGED <<slot, wake>>
    BY <1>4 DEF takeUpdate
  <2>2. OutboxOK' /\ SlotOK' /\ WorkerOK'
    BY <1>1, <2>1 DEF IInv, OutboxOK, SlotOK, WorkerOK
  <2>3. LastOK'
    BY <1>1, <1>4, <2>1 DEF IInv, LastOK, IsReplaced, IsPending, IsBeingWritten, IsWritten, OnDisk
  <2> QED
    BY <1>2, <2>2, <2>3 DEF IInv
<1>5. CASE takeUpdate /\ slot # <<>>
  <2>1. worker.at = Woken /\ slot' = <<>> /\ slot = <<slot[1]>> /\ IsUpdate(slot[1])
    BY <1>5 DEF IInv, SlotOK, takeUpdate
  <2>2. worker' = [at |-> 1, update |-> slot[1]]
    BY <1>5, <2>1 DEF takeUpdate
  <2>3. OutboxOK' /\ SlotOK' /\ WorkerOK'
    BY <1>1, <2>1, <2>2 DEF IInv, OutboxOK, SlotOK, WorkerOK
  <2>4. LastOK'
    BY <1>1, <1>5, <2>1, <2>2 DEF IInv, LastOK, IsReplaced, IsPending, IsBeingWritten, IsWritten
  <2> QED
    BY <1>2, <2>3, <2>4 DEF IInv
<1> QED
  BY <1>3, <1>4, <1>5

\* A step of a flush keeps the invariant: the record's file is there before the files
\* under its old names go.
LEMMA FlushKeepsInvariant ==
    ASSUME IInv, flushStep
    PROVE  IInv'
<1> USE DEF Idle, Woken
<1>1. UNCHANGED <<outbox, step, slot, wake, last>>
  BY DEF flushStep, WorkerOnly
<1>2. /\ Len(FlushSteps) = 3 /\ DOMAIN FlushSteps = 1 .. 3
      /\ FlushSteps[1] = "write" /\ FlushSteps[2] = "rename" /\ FlushSteps[3] = "remove"
  BY DEF FlushSteps
<1>3. worker.at \in 1 .. 3 /\ IsUpdate(worker.update)
  BY <1>2 DEF IInv, WorkerOK, flushStep, Flushing
<1>4. OutboxOK' /\ SlotOK'
  BY <1>1 DEF IInv, OutboxOK, SlotOK
<1> DEFINE record == worker.update.record
<1>5. CASE worker.at = 1
  <2>1. worker' = [worker EXCEPT !.at = 2] /\ UNCHANGED files
    BY <1>2, <1>5 DEF flushStep, Flushing, After
  <2>2. worker'.at = 2 /\ worker'.update = worker.update /\ worker' = [at |-> worker'.at, update |-> worker'.update]
    BY <2>1 DEF IInv, WorkerOK
  <2>3. WorkerOK' /\ FilesAreNamed'
    BY <1>3, <2>1, <2>2 DEF IInv, WorkerOK, FilesAreNamed
  <2>4. LastOK'
    BY <1>1, <1>5, <2>1, <2>2 DEF IInv, LastOK, IsReplaced, IsPending, IsBeingWritten, IsWritten
  <2> QED
    BY <1>4, <2>3, <2>4 DEF IInv
<1>6. CASE worker.at = 2
  <2>1. worker' = [worker EXCEPT !.at = 3] /\ files' = Written(record)
    BY <1>2, <1>6 DEF flushStep, Flushing, After
  <2>2. worker'.at = 3 /\ worker'.update = worker.update /\ worker' = [at |-> worker'.at, update |-> worker'.update]
    BY <2>1 DEF IInv, WorkerOK
  <2>3. /\ DOMAIN files' = DOMAIN files \cup {record.name}
        /\ \A n \in DOMAIN files' : files'[n] = IF n = record.name THEN record ELSE files[n]
    BY <2>1 DEF Written
  <2>4. OnDisk(record)'
    BY <2>2, <2>3 DEF OnDisk
  <2>5. WorkerOK'
    BY <1>3, <2>2, <2>4 DEF WorkerOK
  <2>6. FilesAreNamed'
    BY <2>3 DEF IInv, FilesAreNamed
  <2>7. LastOK'
    BY <1>1, <1>6, <2>2, <2>4 DEF IInv, LastOK, IsReplaced, IsPending, IsBeingWritten, IsWritten
  <2> QED
    BY <1>4, <2>5, <2>6, <2>7 DEF IInv
<1>7. CASE worker.at = 3 /\ worker.update.obsolete = {}
  <2>1. worker' = [at |-> Idle, update |-> None] /\ UNCHANGED files
    BY <1>2, <1>7 DEF flushStep, Flushing, After
  <2>2. WorkerOK' /\ FilesAreNamed'
    BY <2>1 DEF IInv, WorkerOK, FilesAreNamed
  <2>3. LastOK'
    BY <1>1, <1>7, <2>1 DEF IInv, LastOK, IsReplaced, IsPending, IsBeingWritten, IsWritten, OnDisk
  <2> QED
    BY <1>4, <2>2, <2>3 DEF IInv
<1>8. CASE worker.at = 3 /\ worker.update.obsolete # {}
  <2>1. PICK n \in worker.update.obsolete :
           /\ files' = [m \in DOMAIN files \ {n} |-> files[m]]
           /\ worker' = [worker EXCEPT !.update.obsolete = @ \ {n}]
    BY <1>2, <1>8 DEF flushStep, Flushing
  <2>2. /\ worker'.at = 3 /\ worker'.update = [worker.update EXCEPT !.obsolete = @ \ {n}]
        /\ worker' = [at |-> worker'.at, update |-> worker'.update]
    BY <1>8, <2>1 DEF IInv, WorkerOK
  <2>3. worker'.update = [record |-> record, obsolete |-> worker.update.obsolete \ {n}]
    BY <1>3, <2>2 DEF IsUpdate
  <2>4. IsUpdate(worker'.update) /\ worker'.update.record = record
    BY <1>3, <2>3 DEF IsUpdate
  <2>5. OnDisk(record)
    BY <1>8 DEF IInv, WorkerOK
  <2>6. OnDisk(record)'
    BY <1>3, <2>1, <2>4, <2>5 DEF OnDisk, IsUpdate
  <2>7. WorkerOK'
    BY <2>2, <2>4, <2>6 DEF WorkerOK
  <2>8. FilesAreNamed'
    BY <2>1 DEF IInv, FilesAreNamed
  <2>9. LastOK'
    BY <1>1, <1>8, <2>2, <2>4, <2>6 DEF IInv, LastOK, IsReplaced, IsPending, IsBeingWritten, IsWritten
  <2> QED
    BY <1>4, <2>7, <2>8, <2>9 DEF IInv
<1> QED
  BY <1>3, <1>5, <1>6, <1>7, <1>8

\* A failing flush keeps the invariant: its record is no longer owed.
LEMMA FailureKeepsInvariant ==
    ASSUME IInv, flushFails
    PROVE  IInv'
<1> USE DEF Idle, Woken
<1>1. UNCHANGED <<outbox, step, slot, wake, files>> /\ worker' = [at |-> Idle, update |-> None]
  BY DEF flushFails, WorkerOnly
<1>2. /\ DOMAIN FlushSteps = 1 .. 3
      /\ FlushSteps[1] = "write" /\ FlushSteps[2] = "rename" /\ FlushSteps[3] = "remove"
  BY DEF FlushSteps
<1>3. OutboxOK' /\ SlotOK' /\ WorkerOK' /\ FilesAreNamed'
  BY <1>1 DEF IInv, OutboxOK, SlotOK, WorkerOK, FilesAreNamed
<1>4. worker.at \in 1 .. 3 /\ (worker.at \in {1, 2} /\ last = worker.update.record => last' = None)
      /\ (last' # None => last' = last)
  BY <1>2 DEF flushFails
<1>5. LastOK'
  BY <1>1, <1>4 DEF IInv, LastOK, IsReplaced, IsPending, IsBeingWritten, IsWritten, OnDisk
<1> QED
  BY <1>3, <1>5 DEF IInv

\* A restart forgets everything but the files.
LEMMA RestartKeepsInvariant ==
    ASSUME IInv, restart
    PROVE  IInv'
BY NoUpdates DEF restart, IInv, OutboxOK, SlotOK, WorkerOK, LastOK, FilesAreNamed, Idle, Woken

\* The initial state has the invariant.
LEMMA InitHasInvariant == Init => IInv
BY NoUpdates DEF Init, IInv, OutboxOK, SlotOK, WorkerOK, LastOK, FilesAreNamed, Idle, Woken

\* What the mailbox and the worker do leaves the daemon's memory alone, and the files
\* get records only.
LEMMA FilesStayTyped ==
    ASSUME IInv, Typed, queuePersistenceWrite \/ Worker
    PROVE  Typed'
<1>1. UNCHANGED <<graph, memory, reading>>
  BY DEF queuePersistenceWrite, Worker, takeWake, takeUpdate, flushStep, flushFails, WorkerOnly
<1>2. SessionsTyped' /\ WindowsTyped' /\ RecordsTyped' /\ ReadingTyped'
  BY <1>1 DEF Typed, SessionsTyped, WindowsTyped, RecordsTyped, ReadingTyped, graph, memory
<1>3. FilesTyped'
  <2>1. CASE UNCHANGED files
    BY <2>1 DEF Typed, FilesTyped
  <2>2. CASE files' # files
    <3>1. flushStep
      BY <2>2 DEF queuePersistenceWrite, Worker, takeWake, takeUpdate, flushFails, disk
    <3>2. DOMAIN FlushSteps = 1 .. 3
      BY DEF FlushSteps
    <3>3. worker.update.record \in Records
      BY <3>1, <3>2 DEF IInv, WorkerOK, IsUpdate, flushStep, Flushing
    <3>4. CASE Flushing("rename")
      <4>1. files' = Written(worker.update.record)
        BY <2>2, <3>1, <3>4 DEF flushStep, Flushing
      <4> QED
        BY <3>3, <4>1 DEF Written, Typed, FilesTyped, Records
    <3>5. CASE Flushing("remove")
      <4>1. PICK n : files' = [m \in DOMAIN files \ {n} |-> files[m]]
        BY <2>2, <3>1, <3>5 DEF flushStep, Flushing
      <4> QED
        BY <4>1 DEF Typed, FilesTyped
    <3> QED
      BY <2>2, <3>1, <3>4, <3>5 DEF flushStep
  <2> QED
    BY <2>1, <2>2
<1> QED
  BY <1>2, <1>3 DEF Typed

\* A restart keeps the files, and what it sets is typed.
LEMMA RestartIsTyped ==
    ASSUME Typed, restart
    PROVE  Typed'
<1>1. SessionsTyped' /\ RecordsTyped' /\ ReadingTyped' /\ FilesTyped'
  BY PersistenceAssumption DEF restart, Typed, SessionsTyped, RecordsTyped, ReadingTyped, FilesTyped
<1>2. WindowsTyped'
  BY PersistenceAssumption DEF restart, WindowsTyped, WellFormed
<1> QED
  BY <1>1, <1>2 DEF Typed

LEMMA InitIsTyped == Init => Typed
<1> SUFFICES ASSUME Init PROVE Typed
  OBVIOUS
<1>1. SessionsTyped /\ RecordsTyped /\ ReadingTyped
  BY PersistenceAssumption DEF Init, SessionsTyped, RecordsTyped, ReadingTyped
<1>2. WindowsTyped
  BY PersistenceAssumption DEF Init, WindowsTyped, WellFormed
<1>3. FilesTyped
  BY DEF Init, FilesTyped
<1> QED
  BY <1>1, <1>2, <1>3 DEF Typed

\* Every step keeps the invariant.
LEMMA NextKeepsInvariant == IInv /\ Typed /\ [Next]_vars => IInv' /\ Typed'
<1> SUFFICES ASSUME IInv, Typed, [Next]_vars
             PROVE  IInv' /\ Typed'
  OBVIOUS
<1>1. CASE Daemon
  BY <1>1, DaemonIsTransaction, TransactionKeepsInvariant
<1>2. CASE queuePersistenceWrite
  BY <1>2, HandOverKeepsInvariant, FilesStayTyped
<1>3. CASE Worker
  BY <1>3, TakingKeepsInvariant, FlushKeepsInvariant, FailureKeepsInvariant, FilesStayTyped DEF Worker
<1>4. CASE restart
  BY <1>4, RestartKeepsInvariant, RestartIsTyped
<1>5. CASE UNCHANGED vars
  <2>1. IInv'
    BY <1>5 DEF vars, IInv, OutboxOK, SlotOK, WorkerOK, LastOK, FilesAreNamed, OnDisk,
                IsReplaced, IsPending, IsBeingWritten, IsWritten
  <2>2. Typed'
    BY <1>5 DEF vars, Typed, SessionsTyped, WindowsTyped, RecordsTyped, ReadingTyped, FilesTyped
  <2> QED
    BY <2>1, <2>2
<1> QED
  BY <1>1, <1>2, <1>3, <1>4, <1>5 DEF Next

\* The invariant holds in every state.
LEMMA Invariance == Spec => [](IInv /\ Typed)
BY InitHasInvariant, InitIsTyped, NextKeepsInvariant, PTL DEF Spec

\* What the invariant says of the types.
LEMMA TypesAreSound == IInv /\ Typed => TypeOK
<1> SUFFICES ASSUME IInv, Typed PROVE TypeOK
  OBVIOUS
<1>1. \A s \in SessionIDs : sessions[s] # None =>
         /\ sessions[s].name \in Names \cup {None} /\ sessions[s].group \in registered \cup SessionIDs
         /\ s < nextSession
  BY DEF Typed, SessionsTyped, Session
<1>2. ASSUME NEW g \in SessionIDs, NEW h \in SessionIDs, NEW v \in windows[g], NEW w \in windows[h]
      PROVE  /\ v.id \in 1 .. nextWindow - 1
             /\ g # h \/ v # w => v.id # w.id
             /\ g = h /\ v # w => v.display # w.display
  <2>1. v.id \in WindowIDs /\ v.id < nextWindow /\ nextWindow \in 1 .. MaxWindow + 1
    BY DEF Typed, WindowsTyped, WellFormed, Window
  <2>2. v.id \in 1 .. nextWindow - 1
    BY <2>1, PersistenceAssumption DEF WindowIDs
  <2> QED
    BY <2>2 DEF Typed, WindowsTyped, WellFormed
<1>3. \A s \in SessionIDs : (records[s] = None \/ records[s] \in Records) /\ obsolete[s] \subseteq Names
  BY DEF Typed, RecordsTyped
<1>4. Len(slot) <= 1 /\ \A u \in ToSet(slot) : u.record \in Records
  <2>1. CASE slot = <<>>
    BY <2>1 DEF ToSet
  <2>2. CASE slot # <<>>
    <3>1. PICK u : slot = <<u>> /\ IsUpdate(u)
      BY <2>2 DEF IInv, SlotOK
    <3> QED
      BY <3>1 DEF IsUpdate, ToSet
  <2> QED
    BY <2>1, <2>2
<1>5. DOMAIN files \subseteq Names /\ \A n \in DOMAIN files : files[n] \in Records
  BY DEF Typed, FilesTyped
<1> QED
  BY <1>1, <1>2, <1>3, <1>4, <1>5 DEF TypeOK

-----------------------------------------------------------------------------
(* Theorems *)

\* Whenever the daemon ends, between any two steps of a hand-over or a flush, each
\* recovery file holds the record of a session of its name (atomicWriteMeja's rename,
\* the removal of obsolete names).
THEOREM FilesKeepTheirNames == Spec => []FilesAreNamed
<1>1. IInv => FilesAreNamed
  BY DEF IInv
<1> QED
  BY <1>1, Invariance, PTL

\* Once nothing is queued, pending or being flushed, the record handed over last is on
\* disk: no interleaving of queuePersistenceWrite's channel operations with the worker's
\* loses a wake-up or keeps an older snapshot, and no removal takes the file away.
THEOREM LastSaveStays == Spec => []LastSaveIsOnDisk
<1>1. IInv => LastSaveIsOnDisk
  BY DEF IInv, OutboxOK, LastOK, IsReplaced, IsPending, IsBeingWritten, IsWritten, Idle, Woken,
         Settled, LastSaveIsOnDisk
<1> QED
  BY <1>1, Invariance, PTL

\* All that a crash at any moment leaves behind, with the types of the daemon's memory.
THEOREM DiskStaysSound == Spec => []DiskIsSound
<1>1. IInv /\ Typed => TypeOK
  BY TypesAreSound
<1> QED
  BY <1>1, Invariance, FilesKeepTheirNames, LastSaveStays, PTL DEF DiskIsSound

\* A session that has a file keeps one through every step of its own flushes, of a
\* rename from one name to another too (flushPersistenceSnapshot's order).
THEOREM FlushLeavesAFile == Spec => FlushKeepsAFile
<1> DEFINE KeepsAFile ==
      \A s \in SessionIDs :
         HasFile(s) /\ IsFlushing /\ worker.update.record.id = s => HasFile(s)'
<1>1. IInv /\ IInv' /\ [Next]_vars => [KeepsAFile]_vars
  <2> SUFFICES ASSUME IInv, IInv', [Next]_vars, NEW s \in SessionIDs,
                      HasFile(s), IsFlushing, worker.update.record.id = s
               PROVE  HasFile(s)'
    OBVIOUS
  <2>1. CASE UNCHANGED files
    BY <2>1 DEF HasFile
  <2>2. CASE files' # files
    <3>1. flushStep
      BY <2>2 DEF Next, Daemon, Worker, vars, disk, Transaction, createSession, createMirror,
                  createWindow, killSession, changeWindow, killPane, paneExits, renameSession,
                  readRecord, restoreFails, restoreSession, queuePersistenceWrite, takeWake,
                  takeUpdate, flushFails, restart
    <3>2. CASE Flushing("rename")
      <4> DEFINE record == worker.update.record
      <4>1. files' = Written(record)
        BY <2>2, <3>1, <3>2 DEF flushStep, Flushing
      <4>2. record.name \in DOMAIN files' /\ files'[record.name] = record
        BY <4>1 DEF Written
      <4> QED
        BY <4>2 DEF HasFile
    <3>3. CASE Flushing("remove")
      <4>1. worker.at = 3
        BY <3>3 DEF Flushing, FlushSteps
      <4>2. OnDisk(worker.update.record) /\ worker.update.record.name \notin worker.update.obsolete
        BY <4>1 DEF IInv, WorkerOK, IsUpdate
      <4>3. PICK n \in worker.update.obsolete : files' = [m \in DOMAIN files \ {n} |-> files[m]]
        BY <2>2, <3>1, <3>3 DEF flushStep, Flushing
      <4> QED
        BY <4>2, <4>3 DEF HasFile, OnDisk
    <3> QED
      BY <2>2, <3>1, <3>2, <3>3 DEF flushStep
  <2> QED
    BY <2>1, <2>2
<1> QED
  BY <1>1, Invariance, PTL DEF Spec, FlushKeepsAFile

-----------------------------------------------------------------------------
(* What a restore brings back *)

\* The windows made of a plan have the ranks of its places.
LEMMA RestoredRanks ==
    ASSUME NEW plan \in Seq(Entry), NEW first \in Nat,
           NEW ws, ws = {RestoredWindow(plan, first, i) : i \in DOMAIN plan}
    PROVE  /\ Cardinality(ws) = Len(plan)
           /\ \A i \in 1 .. Len(plan) : Ranked(ws, i) = RestoredWindow(plan, first, i)
<1> DEFINE n == Len(plan)
           win(i) == RestoredWindow(plan, first, i)
<1>1. n \in Nat /\ DOMAIN plan = 1 .. n /\ ws = {win(i) : i \in 1 .. n}
  OBVIOUS
<1>2. \A i \in 1 .. n : win(i).display = i - 1
  BY DEF RestoredWindow
<1>3. \A i, j \in 1 .. n : i # j => win(i) # win(j)
  <2>1. \A i, j \in 1 .. n : i # j => i - 1 # j - 1
    BY <1>1
  <2> HIDE DEF win
  <2> QED
    BY <1>2, <2>1
<1>4. ASSUME NEW k \in 0 .. n, NEW some, some = {win(i) : i \in 1 .. k}
      PROVE  IsFiniteSet(some) /\ Cardinality(some) = k
  <2> DEFINE f == [i \in 1 .. k |-> win(i)]
  <2>1. k \in Nat /\ 1 .. k \subseteq 1 .. n
    BY <1>1
  <2>2. f \in Bijection(1 .. k, some)
    <3> HIDE DEF win
    <3>1. f \in [1 .. k -> some]
      BY <1>4
    <3>2. \A i, j \in 1 .. k : i # j => f[i] # f[j]
      BY <1>3, <2>1
    <3>3. \A w \in some : \E i \in 1 .. k : f[i] = w
      BY <1>4
    <3> HIDE DEF f
    <3> QED
      BY <3>1, <3>2, <3>3 DEF Bijection, Injection, Surjection, IsInjective
  <2>3. IsFiniteSet(1 .. k) /\ Cardinality(1 .. k) = k
    BY <2>1, FS_Interval
  <2>4. ExistsBijection(1 .. k, some)
    BY <2>2 DEF ExistsBijection
  <2> QED
    BY <2>3, <2>4, FS_Bijection
<1>5. Cardinality(ws) = n
  BY <1>1, <1>4
<1>6. ASSUME NEW i \in 1 .. n
      PROVE  Rank(ws, win(i)) = i - 1
  <2>1. i - 1 \in 0 .. n /\ \A j \in 1 .. n : j \in 1 .. i - 1 <=> j - 1 < i - 1
    BY <1>1
  <2>2. {v \in ws : v.display < win(i).display} = {win(j) : j \in 1 .. i - 1}
    <3>1. 1 .. i - 1 \subseteq 1 .. n
      BY <1>1
    <3> HIDE DEF win
    <3> QED
      BY <1>1, <1>2, <2>1, <3>1
  <2> QED
    BY <1>4, <2>1, <2>2 DEF Rank
<1>7. ASSUME NEW i \in 1 .. n
      PROVE  Ranked(ws, i) = win(i)
  <2>1. win(i) \in ws /\ Rank(ws, win(i)) = i - 1
    BY <1>1, <1>6
  <2>2. ASSUME NEW w \in ws, Rank(ws, w) = i - 1
        PROVE  w = win(i)
    <3>1. PICK j \in 1 .. n : w = win(j)
      BY <1>1
    <3>2. j - 1 = i - 1
      BY <1>6, <2>2, <3>1
    <3>3. j = i
      BY <1>1, <3>2
    <3> QED
      BY <3>1, <3>3
  <2> HIDE DEF win
  <2> QED
    BY <2>1, <2>2 DEF Ranked
<1> QED
  BY <1>5, <1>7

\* Reading a record and making it a session again loses nothing and keeps its order: a
\* record of a group that was not restored before comes back as it was saved
\* (restoreSessionPlan, planWindows), whatever happened since it was read.
THEOREM RestoreRebuilds == Spec => RestoreRebuildsPlan
<1> DEFINE Rebuilds ==
      Restored /\ adopted[reading.record.group] = None =>
         /\ RestoredContents = ContentsOf(reading.record.plan)
         /\ sessions'[nextSession].name = reading.as
<1>1. IInv /\ Typed /\ [Next]_vars => [Rebuilds]_vars
  <2> SUFFICES ASSUME IInv, Typed, [Next]_vars, Restored, adopted[reading.record.group] = None
               PROVE  /\ RestoredContents = ContentsOf(reading.record.plan)
                      /\ sessions'[nextSession].name = reading.as
    OBVIOUS
  <2>1. restoreSession
    <3>1. reading # None /\ reading' = None /\ nextSession' > nextSession /\ nextSession >= 1
      BY PersistenceAssumption DEF Restored, Typed, SessionsTyped
    <3>2. ~ UNCHANGED nextSession /\ ~ UNCHANGED reading /\ nextSession' # 1
      BY <3>1, PersistenceAssumption DEF Typed, SessionsTyped
    <3> QED
      BY <3>1, <3>2 DEF Next, Daemon, Worker, vars, graph, createSession, createMirror,
                  createWindow, killSession, changeWindow, killPane, paneExits, renameSession,
                  readRecord, restoreFails, queuePersistenceWrite, takeWake,
                  takeUpdate, flushStep, flushFails, restart, WorkerOnly
  <2>2. PICK record, as : record = reading.record /\ as = reading.as
    OBVIOUS
  <2>3. record \in Records /\ as \in Names /\ record.plan \in Seq(Entry) /\ record.group \in SessionIDs
    BY <2>2 DEF Restored, Typed, ReadingTyped, Records, Entry
  <2>4. restoreSessionPlan(record, as)
    BY <2>1, <2>2 DEF restoreSession, restoreSessionView, LiveGroup
  <2>5. nextSession \in SessionIDs /\ Register(as, as, nextSession)
    BY <2>4, PersistenceAssumption DEF restoreSessionPlan, Register, Typed, SessionsTyped, SessionIDs
  <2>6. sessions'[nextSession].name = as /\ sessions'[nextSession].group = nextSession
    BY <2>5 DEF Register, Typed, SessionsTyped
  <2>7. windows'[nextSession] = {RestoredWindow(record.plan, nextWindow, i) : i \in DOMAIN record.plan}
    BY <2>4, <2>5 DEF restoreSessionPlan, RestoredWindow, Typed, WindowsTyped
  <2>8. PICK ws : ws = windows'[nextSession]
    OBVIOUS
  <2>9. nextWindow \in Nat
    BY PersistenceAssumption DEF Typed, WindowsTyped
  <2>10. /\ Cardinality(ws) = Len(record.plan)
         /\ \A i \in 1 .. Len(record.plan) : Ranked(ws, i) = RestoredWindow(record.plan, nextWindow, i)
    BY <2>3, <2>7, <2>8, <2>9, RestoredRanks
  <2>11. ContentsOf(Plan(ws)) = ContentsOf(record.plan)
    <3>1. DOMAIN record.plan = 1 .. Len(record.plan) /\ DOMAIN Plan(ws) = 1 .. Len(record.plan)
      BY <2>3, <2>10 DEF Plan
    <3>2. \A i \in 1 .. Len(record.plan) : Plan(ws)[i].content = record.plan[i].content
      BY <2>10 DEF Plan, RestoredWindow
    <3> QED
      BY <3>1, <3>2 DEF ContentsOf
  <2>12. RestoredContents = ContentsOf(Plan(ws))
    BY <2>6, <2>8 DEF RestoredContents
  <2> QED
    BY <2>2, <2>6, <2>11, <2>12
<1> QED
  BY <1>1, Invariance, PTL DEF Spec, RestoreRebuildsPlan

=============================================================================
