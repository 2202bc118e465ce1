--------------------------- MODULE MonitorsProofs ---------------------------
(***************************************************************************)
(* The requests on monitors, for any clients, monitors, labels, groups and *)
(* bodies: the tables stay well formed, the plan's limit is exceeded by no *)
(* more than overlapping requests and imports explain, no edit is lost but *)
(* to an outdated copy, labels are those of one request, and the scheduler *)
(* sees nothing but edits of rows.                                         *)
(***************************************************************************)
EXTENDS Monitors, FiniteSetTheorems, TLAPS

USE RunnersAssumption, MonitorsAssumption

\* A request that is under way is numbered, its body is one that it was sent
\* with, and it has labels or monitors left to write when it is at them.
Numbered(r) ==
  /\ r \in Requests /\ r.n \in 1..MaxRequests
  /\ r.op \in {"update", "create", "import"} => r.arg \in Bodies

Sound(r) ==
  /\ r \in Requests
  /\ r.pc # "idle" => Numbered(r)
  /\ r.pc = "write" => r.op \in RowOps
  /\ r.pc = "clear" => r.arg.labels \in SUBSET LabelKeys
  /\ r.pc = "insert" => r.op = "create"
  /\ r.pc = "rows" => r.op = "import" /\ r.rows > 0

Inserting == {c \in Clients : request[c].pc = "insert"}

\* A request that has counted and is still to insert has its place.
Budget ==
  Cardinality(Live) + Cardinality(Inserting)
    < FreeMaxMonitors + Cardinality(Clients) + imported

\* Unless replacements have overlapped, one request fills the labels of m, and
\* those that are there are its own.
OneWriter(m) ==
  /\ \A a, b \in labels[m] : a.by = b.by
  /\ \A c \in Filling(m) :
       /\ \A d \in Filling(m) : c = d
       /\ \A a \in labels[m] : a.by = request[c].n

MInv ==
  /\ MonitorsTypeOK
  /\ \A c \in Clients : Sound(request[c])
  /\ Budget
  /\ EditsKept
  /\ \A m \in Monitors \ torn : OneWriter(m)

---------------------------------------------------------------------------
(***************************************************************************)
(* Rows and requests.                                                      *)
(***************************************************************************)
LEMMA BlankTyped ==
  /\ Blank \in Copies /\ Blank.db \in MonitorRow /\ Blank.extra \in Extra
  /\ ~Blank.db.enabled /\ Blank.extra.group = NoGroup
<1>1. (CHOOSE p \in Paces : TRUE) \in Paces /\ (CHOOSE x \in Configs : TRUE) \in Configs
  OBVIOUS
<1> QED BY <1>1 DEF Blank, Copies, MonitorRow, Extra

LEMMA NewRowTyped ==
  ASSUME NEW arg \in Fields
  PROVE  /\ NewRow(arg) \in Copies
         /\ NewRow(arg).db \in MonitorRow /\ NewRow(arg).extra \in Extra
         /\ NewRow(arg).extra.group = arg.group
<1>1. Blank.db.pace \in Paces
  BY BlankTyped DEF Copies, MonitorRow
<1> QED BY <1>1 DEF NewRow, Fields, Copies, MonitorRow, Extra

LEMMA IdleSound == Sound(Idle) /\ Idle.pc = "idle" /\ Idle \in Requests
<1>1. SomeMonitor \in Monitors
  BY DEF SomeMonitor
<1> QED BY <1>1, BlankTyped DEF Idle, Sound, Requests, RowOps

\* What an edit makes of a copy, and what its client meant, field by field.
LEMMA EditTyped ==
  ASSUME NEW op \in RowOps, NEW row \in Copies, NEW arg,
         op = "update" => arg \in Fields
  PROVE  Edited(op, row, arg) \in Copies
BY DEF RowOps, Edited, Copies, MonitorRow, Extra, Fields

LEMMA MeantTyped ==
  ASSUME NEW op \in RowOps, NEW old \in Copies, NEW new \in Copies
  PROVE  Meant(op, old, new) \in Copies
BY DEF RowOps, Meant, Copies, MonitorRow, Extra

\* An edit of an up-to-date copy does what its client meant.
LEMMA EditMeant ==
  ASSUME NEW op \in RowOps, NEW row \in Copies, NEW arg,
         op = "update" => arg \in Fields
  PROVE  Meant(op, row, Edited(op, row, arg)) = Edited(op, row, arg)
BY DEF RowOps, Edited, Meant, Copies, MonitorRow, Extra, Fields

---------------------------------------------------------------------------
(***************************************************************************)
(* Counting.                                                               *)
(***************************************************************************)
LEMMA Finite ==
  /\ IsFiniteSet(Live) /\ IsFiniteSet(Inserting)
  /\ Cardinality(Live) \in Nat /\ Cardinality(Inserting) \in Nat
  /\ Cardinality(Clients) \in Nat /\ Cardinality(Clients) > 0
<1>1. Live \in SUBSET Monitors /\ Inserting \in SUBSET Clients
  BY DEF Live, Inserting
<1>2. IsFiniteSet(Live) /\ IsFiniteSet(Inserting)
  BY <1>1, FS_Subset
<1>3. Cardinality(Clients) \in Nat /\ Cardinality(Clients) # 0
  BY FS_CardinalityType, FS_EmptySet
<1> QED BY <1>2, <1>3, FS_CardinalityType

\* Deletions and requests that end leave more room.
LEMMA BudgetKept ==
  ASSUME Budget, imported \in Nat, imported' = imported,
         Live' \subseteq Live, Inserting' \subseteq Inserting
  PROVE  Budget'
<1>1. /\ Cardinality(Live)' <= Cardinality(Live) /\ Cardinality(Live)' \in Nat
      /\ Cardinality(Inserting)' <= Cardinality(Inserting) /\ Cardinality(Inserting)' \in Nat
  BY Finite, FS_Subset, FS_CardinalityType
<1> QED BY <1>1, Finite DEF Budget

---------------------------------------------------------------------------
LEMMA MInitSafe == ASSUME MInit PROVE MInv
<1>1. PICK set \in Initial :
        LET Row(m) == IF m \in set THEN NewRow(InitialBody) ELSE Blank IN
        /\ life = [m \in Monitors |-> IF m \in set THEN "live" ELSE "new"]
        /\ db = [m \in Monitors |-> Row(m).db]
        /\ extra = [m \in Monitors |-> Row(m).extra]
        /\ asked = [m \in Monitors |-> Row(m)]
        /\ imported = IF Cardinality(set) > FreeMaxMonitors
                      THEN Cardinality(set) - FreeMaxMonitors ELSE 0
  BY DEF MInit
<1> DEFINE Row(m) == IF m \in set THEN NewRow(InitialBody) ELSE Blank
<1>2. \A m : /\ Row(m) \in Copies /\ Row(m).db \in MonitorRow /\ Row(m).extra \in Extra
             /\ Row(m).extra.group \in Groups \cup {NoGroup}
             /\ Row(m) = [db |-> Row(m).db, extra |-> Row(m).extra]
  BY NewRowTyped, BlankTyped DEF Fields, NewRow, Blank
<1>3. /\ \A m \in Monitors : life[m] = IF m \in set THEN "live" ELSE "new"
      /\ \A m \in Monitors : db[m] = Row(m).db /\ extra[m] = Row(m).extra /\ asked[m] = Row(m)
      /\ db \in [Monitors -> MonitorRow] /\ extra \in [Monitors -> Extra]
      /\ asked \in [Monitors -> Copies] /\ life \in [Monitors -> {"new", "live", "gone"}]
  BY <1>1, <1>2
<1>4. /\ runner = ListAllEnabled /\ list = [m \in Monitors |-> NoRunner] /\ listing = FALSE
      /\ edits = 0 /\ labels = [m \in Monitors |-> {}] /\ groups = Groups
      /\ request = [c \in Clients |-> Idle] /\ sent = 0
      /\ stale = {} /\ torn = {}
  BY DEF MInit
<1>4a. Cardinality(set) \in Nat /\ imported \in Nat /\ Cardinality(set) <= FreeMaxMonitors + imported
  <2>1. IsFiniteSet(set)
    BY FS_Subset
  <2>2. Cardinality(set) \in Nat
    BY <2>1, FS_CardinalityType
  <2> QED BY <1>1, <2>2
<1>5. TypeOK
  BY <1>3, <1>4 DEF TypeOK, ListAllEnabled
<1>6. \A m \in Monitors : life[m] # "live" => ~db[m].enabled /\ labels[m] = {}
  BY <1>3, <1>4, BlankTyped
<1>7. MonitorsTypeOK
  BY <1>2, <1>3, <1>4, <1>5, <1>6, <1>4a, IdleSound DEF MonitorsTypeOK
<1>8. \A c \in Clients : Sound(request[c])
  BY <1>4, IdleSound
<1>9. Budget
  <2>1. Live = set /\ Inserting = {}
    BY <1>3, <1>4, IdleSound DEF Live, Inserting
  <2>2. Cardinality(Inserting) = 0
    BY <2>1, FS_EmptySet
  <2> QED BY <1>4a, <2>1, <2>2, Finite DEF Budget
<1>10. EditsKept
  BY <1>2, <1>3 DEF EditsKept, Copy, Live
<1>11. \A m \in Monitors : OneWriter(m)
  BY <1>4, IdleSound DEF OneWriter, Filling
<1> QED BY <1>7, <1>8, <1>9, <1>10, <1>11 DEF MInv

---------------------------------------------------------------------------
(***************************************************************************)
(* A request moves.                                                        *)
(***************************************************************************)
LEMMA Moves ==
  ASSUME MInv, NEW c \in Clients, NEW r, Sound(r), GoTo(c, r)
  PROVE  /\ request' \in [Clients -> Requests] /\ request'[c] = r
         /\ \A d \in Clients \ {c} : request'[d] = request[d]
         /\ \A d \in Clients : Sound(request'[d])
BY DEF MInv, MonitorsTypeOK, GoTo, Sound

\* What it does once its row or its labels are written.
LEMMA RestSound ==
  ASSUME NEW r, Numbered(r)
  PROVE  Sound(Rest(r)) /\ Rest(r).pc \in {"idle", "rows"}
BY IdleSound DEF Rest, Sound, Numbered, Requests

LEMMA LabelledSound ==
  ASSUME NEW r, Numbered(r), r.op \in {"update", "create", "import"}
  PROVE  Sound(Labelled(r)) /\ Labelled(r).pc \in {"idle", "rows", "clear"}
<1>1. CASE Unlabelled(r)
  BY <1>1, RestSound DEF Labelled
<1>2. CASE ~Unlabelled(r)
  <2>1. r.arg.labels \in SUBSET LabelKeys
    BY <1>2 DEF Unlabelled, Numbered, Fields
  <2>2. Labelled(r) = [r EXCEPT !.pc = "clear"]
    BY <1>2 DEF Labelled
  <2> QED BY <2>1, <2>2 DEF Sound, Numbered, Requests
<1> QED BY <1>1, <1>2

\* It neither fills labels nor has been let through the limit.
LEMMA MovesAway ==
  ASSUME MInv, NEW c \in Clients, NEW r, Sound(r), GoTo(c, r), r.pc # "fill"
  PROVE  /\ \A m : Filling(m)' \subseteq Filling(m)
         /\ \A m : \A d \in Filling(m)' : request'[d] = request[d]
         /\ r.pc # "insert" => Inserting' \subseteq Inserting
BY Moves DEF Filling, Inserting

\* Labels that nobody touches stay those of one request.
LEMMA WriterKept ==
  ASSUME NEW m, OneWriter(m), UNCHANGED labels, Filling(m)' \subseteq Filling(m),
         \A d \in Filling(m)' : request'[d] = request[d]
  PROVE  OneWriter(m)'
BY DEF OneWriter

LEMMA RequestOnly ==
  ASSUME MInv, NEW c \in Clients, NEW r, Sound(r), GoTo(c, r), r.pc # "fill",
         UNCHANGED <<tables, sched, edits, history>>, sent' \in 0..MaxRequests, Budget'
  PROVE  MInv'
<1> USE DEF MInv, tables, sched, history
<1>1. MonitorsTypeOK'
  BY Moves DEF MonitorsTypeOK, TypeOK
<1>2. EditsKept'
  BY DEF EditsKept, Copy, Live
<1>3. ASSUME NEW m \in Monitors \ torn PROVE OneWriter(m)'
  BY MovesAway, WriterKept
<1> QED BY <1>1, <1>2, <1>3, Moves
---------------------------------------------------------------------------
(***************************************************************************)
(* Requests begin and fail.                                                *)
(***************************************************************************)
\* Only a request that was let through the limit takes a place.
LEMMA Begins ==
  ASSUME MInv, NEW c \in Clients, NEW r, Begin(c, r), Sound(r),
         UNCHANGED <<tables, sched, edits, history>>,
         r.pc # "fill", r.pc = "insert" => BelowLimit
  PROVE  MInv'
<1>1. GoTo(c, r) /\ request[c].pc = "idle" /\ sent < MaxRequests /\ sent' = sent + 1
  BY DEF Begin
<1>3. sent' \in 0..MaxRequests /\ imported \in Nat
  BY <1>1 DEF MInv, MonitorsTypeOK
<1>4. Live' = Live
  BY DEF tables, Live
<1>5. CASE r.pc # "insert"
  <2>1. Budget'
    BY <1>1, <1>3, <1>4, <1>5, MovesAway, BudgetKept DEF MInv, history
  <2> QED BY <1>1, <1>3, <2>1, RequestOnly
<1>6. CASE r.pc = "insert"
  <2>1. Cardinality(Live) < FreeMaxMonitors
    BY <1>6 DEF BelowLimit
  <2>2. Inserting' \subseteq Clients
    BY DEF Inserting
  <2>3. Cardinality(Inserting)' <= Cardinality(Clients) /\ Cardinality(Inserting)' \in Nat
    BY <2>2, FS_Subset, FS_CardinalityType
  <2>4. Budget'
    BY <1>3, <1>4, <2>1, <2>3, Finite DEF Budget, history
  <2> QED BY <1>1, <1>3, <2>4, RequestOnly
<1> QED BY <1>5, <1>6

\* What a client sends is a request of the right form.
LEMMA AskingSound ==
  ASSUME MInv, sent < MaxRequests,
         NEW pc \in {"write", "insert", "rows", "clear"},
         NEW op \in RowOps \cup {"create", "import", "labels"}, NEW m \in Monitors,
         NEW row \in Copies,
         NEW arg \in Bodies \cup {NoBody} \cup {LabelsOnly(s) : s \in SUBSET LabelKeys},
         NEW rows \in Nat,
         op \in {"update", "create", "import"} => arg \in Bodies,
         pc = "write" => op \in RowOps,
         pc = "clear" => arg.labels \in SUBSET LabelKeys,
         pc = "insert" => op = "create", pc = "rows" => op = "import" /\ rows > 0
  PROVE  /\ Sound(Asking(pc, op, m, row, arg, rows))
         /\ Asking(pc, op, m, row, arg, rows).pc = pc
<1>1. sent + 1 \in 1..MaxRequests /\ sent + 1 \in Nat
  BY DEF MInv, MonitorsTypeOK
<1>2. Asking(pc, op, m, row, arg, rows) \in Requests
  BY <1>1 DEF Asking, Requests
<1> QED BY <1>1, <1>2 DEF Asking, Sound, Numbered

LEMMA SendSafe == ASSUME MInv, NEW c \in Clients, Send(c) PROVE MInv'
<1>1. SomeMonitor \in Monitors /\ Blank \in Copies
  BY BlankTyped DEF SomeMonitor
<1>2. /\ "update" \in RowOps
      /\ \A op \in RowOps : op \notin {"create", "import", "labels"}
  BY DEF RowOps
<1>3. ASSUME NEW m \in Monitors, NEW op \in RowOps, NEW arg \in Bodies \cup {NoBody},
             op = "update" => arg \in Bodies, ReadRow(c, op, m, arg)
      PROVE  MInv'
  <2>1. Copy(m) \in Copies
    BY DEF MInv, MonitorsTypeOK, TypeOK, Copy, Copies
  <2>2. /\ Begin(c, Asking("write", op, m, Copy(m), arg, 0)) /\ sent < MaxRequests
        /\ UNCHANGED <<tables, sched, edits, history>>
    BY <1>3 DEF ReadRow, Begin
  <2>3. /\ Sound(Asking("write", op, m, Copy(m), arg, 0))
        /\ Asking("write", op, m, Copy(m), arg, 0).pc = "write"
    BY <1>2, <1>3, <2>1, <2>2, AskingSound
  <2> QED BY <2>2, <2>3, Begins
<1>4. ASSUME NEW arg \in Bodies, CheckLimit(c, arg) PROVE MInv'
  <2>1. /\ Begin(c, Asking("insert", "create", SomeMonitor, Blank, arg, 0))
        /\ sent < MaxRequests /\ BelowLimit /\ UNCHANGED <<tables, sched, edits, history>>
    BY <1>4 DEF CheckLimit, Begin
  <2>2. /\ Sound(Asking("insert", "create", SomeMonitor, Blank, arg, 0))
        /\ Asking("insert", "create", SomeMonitor, Blank, arg, 0).pc = "insert"
    BY <1>1, <2>1, AskingSound
  <2> QED BY <2>1, <2>2, Begins
<1>5. ASSUME NEW arg \in Bodies, NEW n \in 1..MaxRows, ReadImport(c, arg, n) PROVE MInv'
  <2>1. /\ Begin(c, Asking("rows", "import", SomeMonitor, Blank, arg, n))
        /\ sent < MaxRequests /\ UNCHANGED <<tables, sched, edits, history>>
    BY <1>5 DEF ReadImport, Begin
  <2>2. n \in Nat /\ n > 0
    OBVIOUS
  <2>3. /\ Sound(Asking("rows", "import", SomeMonitor, Blank, arg, n))
        /\ Asking("rows", "import", SomeMonitor, Blank, arg, n).pc = "rows"
    BY <1>1, <2>1, <2>2, AskingSound
  <2> QED BY <2>1, <2>3, Begins
<1>6. ASSUME NEW m \in Monitors, NEW keys \in SUBSET LabelKeys, ReadLabels(c, m, keys)
      PROVE  MInv'
  <2>1. /\ Begin(c, Asking("clear", "labels", m, Blank, LabelsOnly(keys), 0))
        /\ sent < MaxRequests /\ UNCHANGED <<tables, sched, edits, history>>
    BY <1>6 DEF ReadLabels, Begin
  <2>2. LabelsOnly(keys).labels = keys
    BY DEF LabelsOnly, NoBody
  <2>3. /\ Sound(Asking("clear", "labels", m, Blank, LabelsOnly(keys), 0))
        /\ Asking("clear", "labels", m, Blank, LabelsOnly(keys), 0).pc = "clear"
    BY <1>1, <2>1, <2>2, AskingSound
  <2> QED BY <2>1, <2>3, Begins
<1>7. \A op \in RowOps \ {"update"} : op \in RowOps /\ op # "update"
  OBVIOUS
<1> QED BY <1>2, <1>3, <1>4, <1>5, <1>6, <1>7 DEF Send

LEMMA FailSafe == ASSUME MInv, NEW c \in Clients, Fail(c) PROVE MInv'
<1>1. GoTo(c, Idle) /\ UNCHANGED <<tables, sched, edits, sent, history>>
  BY DEF Fail
<1>2. Live' = Live /\ imported' = imported /\ imported \in Nat /\ sent' \in 0..MaxRequests
  BY <1>1 DEF tables, history, Live, MInv, MonitorsTypeOK
<1>3. Budget'
  BY <1>1, <1>2, IdleSound, MovesAway, BudgetKept DEF MInv
<1> QED BY <1>1, <1>2, <1>3, IdleSound, RequestOnly

\* A statement finds nothing to write, and its request ends or goes on.
LEMMA NothingWritten ==
  ASSUME MInv, NEW c \in Clients, NEW r, Sound(r), GoTo(c, r),
         r.pc \notin {"fill", "insert"}, UNCHANGED <<tables, sched, edits, sent, history>>
  PROVE  MInv'
<1>1. Live' = Live /\ imported' = imported /\ imported \in Nat /\ sent' \in 0..MaxRequests
  BY DEF tables, history, Live, MInv, MonitorsTypeOK
<1>2. Budget'
  BY <1>1, MovesAway, BudgetKept DEF MInv
<1> QED BY <1>1, <1>2, RequestOnly

---------------------------------------------------------------------------
(***************************************************************************)
(* Rows are written.                                                       *)
(***************************************************************************)
LEMMA RowSet ==
  ASSUME MInv, NEW m \in Monitors, NEW row \in Copies, SetRow(m, row)
  PROVE  /\ db' \in [Monitors -> MonitorRow] /\ extra' \in [Monitors -> Extra]
         /\ edits' \in Nat /\ db'[m] = row.db /\ extra'[m] = row.extra /\ Copy(m)' = row
         /\ \A x \in Monitors \ {m} :
              db'[x] = db[x] /\ extra'[x] = extra[x] /\ Copy(x)' = Copy(x)
<1>1. row.db \in MonitorRow /\ row.extra \in Extra /\ row = [db |-> row.db, extra |-> row.extra]
  BY DEF Copies
<1>2. /\ db \in [Monitors -> MonitorRow] /\ extra \in [Monitors -> Extra] /\ edits \in Nat
      /\ db' = [db EXCEPT ![m] = row.db] /\ extra' = [extra EXCEPT ![m] = row.extra]
      /\ edits' = IF row.db = db[m] THEN edits ELSE edits + 1
  BY DEF MInv, MonitorsTypeOK, TypeOK, SetRow
<1>3. edits' \in Nat
  BY <1>2
<1> QED BY <1>1, <1>2, <1>3 DEF Copy

LEMMA WriteRowSafe == ASSUME MInv, NEW c \in Clients, WriteRow(c) PROVE MInv'
<1>0. PICK r : r = request[c]
  OBVIOUS
<1> DEFINE new == Edited(r.op, r.row, r.arg)
<1>1. /\ Sound(r) /\ r.pc = "write" /\ r.op \in RowOps /\ r.m \in Monitors /\ r.row \in Copies
      /\ Numbered(r) /\ (r.op = "update" => r.arg \in Fields)
  BY <1>0 DEF MInv, WriteRow, Sound, Numbered, Requests
<1>2. new \in Copies /\ Meant(r.op, r.row, new) = new
  BY <1>1, EditTyped, EditMeant
<1>3. UNCHANGED <<life, labels, groups, sched, sent, torn, imported>>
  BY DEF WriteRow
<1>4. CASE ~(r.m \in Live /\ GroupExists(new.extra.group))
  <2>1. GoTo(c, Idle) /\ UNCHANGED <<db, extra, edits, asked, stale>>
    BY <1>0, <1>4 DEF WriteRow
  <2> QED BY <1>3, <2>1, IdleSound, NothingWritten DEF tables, history
<1>5. CASE r.m \in Live /\ GroupExists(new.extra.group)
  <2> DEFINE next == IF r.op = "update" THEN Labelled(r) ELSE Idle
  <2>1. /\ SetRow(r.m, new) /\ GoTo(c, next)
        /\ asked' = [asked EXCEPT ![r.m] = Meant(r.op, asked[r.m], new)]
        /\ stale' = IF Copy(r.m) = r.row THEN stale ELSE stale \cup {r.m}
    BY <1>0, <1>5 DEF WriteRow
  <2>2. Sound(next) /\ next.pc \in {"idle", "rows", "clear"}
    BY <1>1, IdleSound, LabelledSound
  <2> HIDE DEF next, new
  <2>3. /\ db' \in [Monitors -> MonitorRow] /\ extra' \in [Monitors -> Extra] /\ edits' \in Nat
        /\ extra'[r.m] = new.extra /\ Copy(r.m)' = new
        /\ \A x \in Monitors \ {r.m} :
             db'[x] = db[x] /\ extra'[x] = extra[x] /\ Copy(x)' = Copy(x)
    BY <1>1, <1>2, <2>1, RowSet
  <2>4. /\ asked' \in [Monitors -> Copies] /\ asked'[r.m] = Meant(r.op, asked[r.m], new)
        /\ \A x \in Monitors \ {r.m} : asked'[x] = asked[x]
    BY <1>1, <1>2, <2>1, MeantTyped DEF MInv, MonitorsTypeOK
  <2>5. MonitorsTypeOK'
    <3>1. TypeOK'
      BY <1>3, <2>3 DEF sched, MInv, MonitorsTypeOK, TypeOK
    <3>2. \A x \in Monitors : life'[x] # "live" => ~db'[x].enabled /\ labels'[x] = {}
      BY <1>3, <1>5, <2>3 DEF MInv, MonitorsTypeOK, Live
    <3>3. \A x \in Monitors : extra'[x].group \in groups' \cup {NoGroup}
      BY <1>3, <1>5, <2>3 DEF MInv, MonitorsTypeOK, GroupExists
    <3>4. stale' \subseteq Monitors
      BY <1>1, <2>1 DEF MInv, MonitorsTypeOK
    <3>5. request' \in [Clients -> Requests]
      BY <2>1, <2>2, Moves
    <3> QED BY <1>3, <2>3, <2>4, <3>1, <3>2, <3>3, <3>4, <3>5 DEF MInv, MonitorsTypeOK
  <2>6. Budget'
    <3>1. Live' = Live
      BY <1>3 DEF Live
    <3>2. Inserting' \subseteq Inserting
      BY <2>1, <2>2, MovesAway
    <3> QED BY <1>3, <3>1, <3>2, BudgetKept DEF MInv, MonitorsTypeOK
  <2>7. EditsKept'
    <3>1. SUFFICES ASSUME NEW x \in Monitors, life[x] = "live", x \notin stale'
                   PROVE  Copy(x)' = asked'[x]
      BY <1>3 DEF EditsKept, Live
    <3>2. Copy(x) = asked[x]
      BY <2>1, <3>1 DEF MInv, EditsKept, Live
    <3>3. CASE x # r.m
      BY <2>3, <2>4, <3>2, <3>3
    <3>4. CASE x = r.m
      <4>1. Copy(x) = r.row
        BY <1>1, <2>1, <3>1, <3>4
      <4>2. Meant(r.op, r.row, new) = new
        BY <1>2
      <4> QED BY <2>3, <2>4, <3>2, <3>4, <4>1, <4>2
    <3> QED BY <3>3, <3>4
  <2>8. ASSUME NEW m \in Monitors \ torn' PROVE OneWriter(m)'
    <3>1. OneWriter(m) /\ UNCHANGED labels
      BY <1>3 DEF MInv
    <3> QED BY <2>1, <2>2, <3>1, MovesAway, WriterKept
  <2>9. \A d \in Clients : Sound(request'[d])
    BY <2>1, <2>2, Moves
  <2> QED BY <2>5, <2>6, <2>7, <2>8, <2>9 DEF MInv
<1> QED BY <1>4, <1>5

\* A row is inserted.
LEMMA Inserted ==
  ASSUME MInv, NEW c \in Clients, NEW r, Sound(r), GoTo(c, r), r.pc # "fill",
         NEW m \in Monitors, NEW row \in Copies, InsertMonitor(m, row), life[m] = "new",
         GroupExists(row.extra.group),
         UNCHANGED <<labels, groups, sched, sent, stale, torn>>, imported' \in Nat, Budget'
  PROVE  MInv'
<1>1. /\ SetRow(m, row) /\ asked' = [asked EXCEPT ![m] = row]
      /\ life' = [life EXCEPT ![m] = "live"]
  BY DEF InsertMonitor
<1>2. /\ db' \in [Monitors -> MonitorRow] /\ extra' \in [Monitors -> Extra]
      /\ edits' \in Nat /\ db'[m] = row.db /\ extra'[m] = row.extra /\ Copy(m)' = row
      /\ \A x \in Monitors \ {m} :
           db'[x] = db[x] /\ extra'[x] = extra[x] /\ Copy(x)' = Copy(x)
  BY <1>1, RowSet
<1>3. /\ asked' \in [Monitors -> Copies] /\ life' \in [Monitors -> {"new", "live", "gone"}]
      /\ asked'[m] = row /\ life'[m] = "live"
      /\ \A x \in Monitors \ {m} : asked'[x] = asked[x] /\ life'[x] = life[x]
  BY <1>1 DEF MInv, MonitorsTypeOK
<1>4. MonitorsTypeOK'
  <2>1. TypeOK'
    BY <1>2 DEF sched, MInv, MonitorsTypeOK, TypeOK
  <2>2. \A x \in Monitors : life'[x] # "live" => ~db'[x].enabled /\ labels'[x] = {}
    BY <1>2, <1>3 DEF MInv, MonitorsTypeOK
  <2>3. \A x \in Monitors : extra'[x].group \in groups' \cup {NoGroup}
    BY <1>2 DEF MInv, MonitorsTypeOK, GroupExists
  <2>4. request' \in [Clients -> Requests]
    BY Moves
  <2> QED BY <1>2, <1>3, <2>1, <2>2, <2>3, <2>4 DEF MInv, MonitorsTypeOK
<1>5. EditsKept'
  BY <1>2, <1>3 DEF MInv, EditsKept, Live
<1>6. ASSUME NEW x \in Monitors \ torn' PROVE OneWriter(x)'
  <2>1. OneWriter(x) /\ UNCHANGED labels
    BY DEF MInv
  <2> QED BY <2>1, MovesAway, WriterKept
<1>7. \A d \in Clients : Sound(request'[d])
  BY Moves
<1> QED BY <1>4, <1>5, <1>6, <1>7 DEF MInv

LEMMA OneMoreLive ==
  ASSUME NEW m \in Monitors, life[m] = "new", life \in [Monitors -> {"new", "live", "gone"}],
         life' = [life EXCEPT ![m] = "live"]
  PROVE  Cardinality(Live)' = Cardinality(Live) + 1
<1>1. Live' = Live \cup {m} /\ m \notin Live
  BY DEF Live
<1>2. Cardinality(Live') = Cardinality(Live) + 1
  BY <1>1, Finite, FS_AddElement
<1> QED BY <1>2

LEMMA InsertSafe == ASSUME MInv, NEW c \in Clients, Insert(c) PROVE MInv'
<1>0. PICK r : r = request[c]
  OBVIOUS
<1>1. /\ r.pc = "insert" /\ r.op = "create" /\ Numbered(r)
      /\ r.arg \in Fields /\ r.arg \in Bodies
  BY <1>0 DEF MInv, Insert, Sound, Numbered
<1>2. PICK m \in Monitors : m = SomeNew /\ life[m] = "new"
  BY DEF Insert, SomeNew
<1>3. UNCHANGED <<labels, groups, sched, sent, stale, torn, imported>>
  BY DEF Insert
<1>4. CASE ~GroupExists(r.arg.group)
  <2>1. GoTo(c, Idle) /\ UNCHANGED <<life, db, extra, edits, asked>>
    BY <1>0, <1>4 DEF Insert
  <2> QED BY <1>3, <2>1, IdleSound, NothingWritten DEF tables, history
<1>5. CASE GroupExists(r.arg.group)
  <2> DEFINE placed == [r EXCEPT !.m = m]
             row    == NewRow(r.arg)
             next   == Labelled(placed)
  <2>1. InsertMonitor(m, row) /\ GoTo(c, next)
    BY <1>0, <1>2, <1>5 DEF Insert
  <2>2. Numbered(placed) /\ placed.op = "create"
    BY <1>1 DEF Numbered, Requests
  <2>3. Sound(next) /\ next.pc \in {"idle", "rows", "clear"}
    BY <2>2, LabelledSound
  <2>4. row \in Copies /\ row.extra.group = r.arg.group
    BY <1>1, NewRowTyped
  <2> HIDE DEF placed, row, next
  <2>5. Budget'
    <3>1. Cardinality(Live)' = Cardinality(Live) + 1
      BY <1>2, <2>1, OneMoreLive DEF InsertMonitor, MInv, MonitorsTypeOK
    <3>2. Inserting' = Inserting \ {c} /\ c \in Inserting
      BY <1>0, <1>1, <2>1, <2>3, Moves DEF Inserting
    <3>3. Cardinality(Inserting)' = Cardinality(Inserting) - 1
      <4>1. Cardinality(Inserting') = Cardinality(Inserting) - 1
        BY <3>2, Finite, FS_RemoveElement
      <4> QED BY <4>1
    <3> QED BY <1>3, <3>1, <3>3, Finite DEF MInv, MonitorsTypeOK, Budget
  <2>6. imported' \in Nat
    BY <1>3 DEF MInv, MonitorsTypeOK
  <2> QED BY <1>2, <1>3, <1>5, <2>1, <2>3, <2>4, <2>5, <2>6, Inserted
<1> QED BY <1>4, <1>5

LEMMA ImportRowSafe == ASSUME MInv, NEW c \in Clients, ImportRow(c) PROVE MInv'
<1>0. PICK q : q = request[c]
  OBVIOUS
<1> DEFINE r == [q EXCEPT !.rows = q.rows - 1]
<1>1. /\ q.pc = "rows" /\ q.op = "import" /\ Numbered(q)
      /\ q.rows \in Nat /\ q.rows > 0 /\ q.arg \in Fields /\ q.arg \in Bodies
  BY <1>0 DEF MInv, ImportRow, Sound, Numbered, Requests
<1>2. PICK m \in Monitors : m = SomeNew /\ life[m] = "new"
  BY DEF ImportRow, SomeNew
<1>3. UNCHANGED <<labels, groups, sched, sent, stale, torn>>
  BY DEF ImportRow
<1>4. Numbered(r) /\ r.op = "import" /\ r.arg = q.arg
  <2>1. q.rows - 1 \in Nat
    BY <1>1
  <2> QED BY <1>1, <2>1 DEF Numbered, Requests
<1>5. CASE ~GroupExists(q.arg.group)
  <2>1. GoTo(c, Rest(r)) /\ UNCHANGED <<life, db, extra, edits, asked, imported>>
    BY <1>0, <1>4, <1>5 DEF ImportRow
  <2> HIDE DEF r
  <2> QED BY <1>3, <1>4, <2>1, RestSound, NothingWritten DEF tables, history
<1>6. CASE GroupExists(q.arg.group)
  <2> DEFINE placed == [r EXCEPT !.m = m]
             arg    == [q.arg EXCEPT !.muted = FALSE]
             row    == NewRow(arg)
             next   == Labelled(placed)
  <2>1. InsertMonitor(m, row) /\ GoTo(c, next) /\ imported' = imported + 1
    BY <1>0, <1>2, <1>6 DEF ImportRow
  <2>2. Numbered(placed) /\ placed.op = "import"
    BY <1>4 DEF Numbered, Requests
  <2>3. Sound(next) /\ next.pc \in {"idle", "rows", "clear"}
    BY <2>2, LabelledSound
  <2>4. arg \in Fields /\ arg.group = q.arg.group
    BY <1>1 DEF Fields
  <2>5. row \in Copies /\ row.extra.group = q.arg.group
    BY <2>4, NewRowTyped
  <2> HIDE DEF placed, row, next, arg, r
  <2>6. Budget' /\ imported' \in Nat
    <3>1. Cardinality(Live)' = Cardinality(Live) + 1
      BY <1>2, <2>1, OneMoreLive DEF InsertMonitor, MInv, MonitorsTypeOK
    <3>2. Inserting' \subseteq Inserting
      BY <2>1, <2>3, MovesAway
    <3>3. Cardinality(Inserting)' <= Cardinality(Inserting) /\ Cardinality(Inserting)' \in Nat
      BY <3>2, Finite, FS_Subset, FS_CardinalityType
    <3> QED BY <2>1, <3>1, <3>3, Finite DEF MInv, MonitorsTypeOK, Budget
  <2> QED BY <1>2, <1>3, <1>6, <2>1, <2>3, <2>5, <2>6, Inserted
<1> QED BY <1>5, <1>6

---------------------------------------------------------------------------
(***************************************************************************)
(* Labels are replaced.                                                    *)
(***************************************************************************)
LEMMA LabelsSet ==
  ASSUME MInv, NEW c \in Clients, NEW r, Sound(r), GoTo(c, r), r.pc # "insert",
         UNCHANGED <<db, life, extra, groups, sched, edits, sent, asked, stale, imported>>,
         labels' \in [Monitors -> SUBSET [key : LabelKeys, by : 1..MaxRequests]],
         \A m \in Monitors : \A a, b \in labels'[m] : a.key = b.key => a = b,
         \A m \in Monitors : life[m] # "live" => labels'[m] = {},
         torn' \subseteq Monitors,
         \A m \in Monitors \ torn' : OneWriter(m)'
  PROVE  MInv'
<1>1. MonitorsTypeOK'
  BY Moves DEF sched, MInv, MonitorsTypeOK, TypeOK
<1>2. Budget'
  <2>1. Live' = Live /\ Inserting' \subseteq Inserting
    BY Moves DEF Live, Inserting
  <2> QED BY <2>1, BudgetKept DEF MInv, MonitorsTypeOK
<1>3. EditsKept'
  BY DEF MInv, EditsKept, Copy, Live
<1>4. \A d \in Clients : Sound(request'[d])
  BY Moves
<1> QED BY <1>1, <1>2, <1>3, <1>4 DEF MInv

LEMMA ClearLabelsSafe == ASSUME MInv, NEW c \in Clients, ClearLabels(c) PROVE MInv'
<1>0. PICK r : r = request[c]
  OBVIOUS
<1>1. /\ r.pc = "clear" /\ Numbered(r) /\ r.m \in Monitors /\ r.arg.labels \in SUBSET LabelKeys
  BY <1>0 DEF MInv, ClearLabels, Sound, Numbered, Requests
<1> DEFINE next == IF r.arg.labels = {} THEN Rest(r)
                   ELSE [r EXCEPT !.pc = "fill", !.todo = r.arg.labels]
<1>2. /\ labels' = [labels EXCEPT ![r.m] = {}] /\ GoTo(c, next)
      /\ torn' = IF Filling(r.m) = {} THEN torn ELSE torn \cup {r.m}
      /\ UNCHANGED <<db, life, extra, groups, sched, edits, sent, asked, stale, imported>>
  BY <1>0 DEF ClearLabels, Kept
<1>3. Sound(next) /\ next.pc # "insert" /\ (next.pc = "fill" => next.m = r.m)
  <2>1. CASE r.arg.labels = {}
    BY <1>1, <2>1, RestSound
  <2>2. CASE r.arg.labels # {}
    BY <1>1, <2>2 DEF Sound, Numbered, Requests
  <2> QED BY <2>1, <2>2
<1> HIDE DEF next
<1>4. /\ labels' \in [Monitors -> SUBSET [key : LabelKeys, by : 1..MaxRequests]]
      /\ labels'[r.m] = {} /\ \A x \in Monitors \ {r.m} : labels'[x] = labels[x]
  BY <1>1, <1>2 DEF MInv, MonitorsTypeOK
<1>5. torn' \subseteq Monitors /\ torn \subseteq torn'
  BY <1>1, <1>2 DEF MInv, MonitorsTypeOK
<1>6. ASSUME NEW x \in Monitors \ torn' PROVE OneWriter(x)'
  <2>1. /\ \A d \in Clients \ {c} : request'[d] = request[d]
        /\ request'[c] = next
    BY <1>2, <1>3, Moves
  <2>2. CASE x # r.m
    <3>1. OneWriter(x) /\ labels'[x] = labels[x]
      BY <1>4, <1>5, <2>2 DEF MInv
    <3>2. \A d \in Filling(x)' : d \in Filling(x) /\ request'[d] = request[d]
      BY <1>3, <2>1, <2>2 DEF Filling
    <3> QED BY <3>1, <3>2 DEF OneWriter
  <2>3. CASE x = r.m
    <3>1. Filling(x) = {} /\ labels'[x] = {}
      BY <1>2, <1>4, <2>3
    <3>2. \A d \in Filling(x)' : d = c
      BY <2>1, <3>1 DEF Filling
    <3> QED BY <3>1, <3>2 DEF OneWriter
  <2> QED BY <2>2, <2>3
<1>7. /\ \A m \in Monitors : \A a, b \in labels'[m] : a.key = b.key => a = b
      /\ \A m \in Monitors : life[m] # "live" => labels'[m] = {}
  BY <1>4 DEF MInv, MonitorsTypeOK
<1> QED BY <1>2, <1>3, <1>4, <1>5, <1>6, <1>7, LabelsSet

LEMMA InsertLabelSafe ==
  ASSUME MInv, NEW c \in Clients, NEW k \in LabelKeys, InsertLabel(c, k) PROVE MInv'
<1>0. PICK r : r = request[c]
  OBVIOUS
<1>1. /\ r.pc = "fill" /\ Numbered(r) /\ r.m \in Monitors /\ r.n \in 1..MaxRequests
      /\ r.todo \subseteq LabelKeys
  BY <1>0 DEF MInv, InsertLabel, Sound, Numbered, Requests
<1> DEFINE over == [r EXCEPT !.todo = {}]
           left == [r EXCEPT !.todo = r.todo \ {k}]
<1>2. Numbered(over) /\ Sound(left) /\ left.pc = "fill" /\ left.m = r.m /\ left.n = r.n
  BY <1>1 DEF Sound, Numbered, Requests
<1>3. Sound(Rest(over)) /\ Rest(over).pc \in {"idle", "rows"}
  BY <1>2, RestSound
<1>4. UNCHANGED <<db, life, extra, groups, sched, edits, sent, history>>
  BY DEF InsertLabel
<1>5. CASE ~(r.m \in Live /\ k \notin {l.key : l \in labels[r.m]})
  <2>1. GoTo(c, Rest(over)) /\ UNCHANGED labels
    BY <1>0, <1>5 DEF InsertLabel
  <2> HIDE DEF over
  <2> QED BY <1>3, <1>4, <2>1, NothingWritten DEF tables
<1>6. CASE r.m \in Live /\ k \notin {l.key : l \in labels[r.m]}
  <2> DEFINE next == IF r.todo = {k} THEN Rest(over) ELSE left
             new  == [key |-> k, by |-> r.n]
  <2>1. labels' = [labels EXCEPT ![r.m] = labels[r.m] \cup {new}] /\ GoTo(c, next)
    BY <1>0, <1>6 DEF InsertLabel
  <2>2. Sound(next) /\ next.pc # "insert" /\ (next.pc = "fill" => next.m = r.m /\ next.n = r.n)
    BY <1>2, <1>3
  <2>3. new \in [key : LabelKeys, by : 1..MaxRequests] /\ new.key = k /\ new.by = r.n
    BY <1>1
  <2> HIDE DEF over, left, next, new
  <2>4. /\ labels' \in [Monitors -> SUBSET [key : LabelKeys, by : 1..MaxRequests]]
        /\ labels'[r.m] = labels[r.m] \cup {new}
        /\ \A x \in Monitors \ {r.m} : labels'[x] = labels[x]
    BY <1>1, <2>1, <2>3 DEF MInv, MonitorsTypeOK
  <2>5. \A m \in Monitors : \A a, b \in labels'[m] : a.key = b.key => a = b
    <3>1. \A l \in labels[r.m] : l.key # k
      BY <1>6
    <3> QED BY <2>3, <2>4, <3>1 DEF MInv, MonitorsTypeOK
  <2>6. \A m \in Monitors : life[m] # "live" => labels'[m] = {}
    BY <1>6, <2>4 DEF MInv, MonitorsTypeOK, Live
  <2>7. ASSUME NEW x \in Monitors \ torn' PROVE OneWriter(x)'
    <3>1. /\ \A d \in Clients \ {c} : request'[d] = request[d]
          /\ request'[c] = next
      BY <2>1, <2>2, Moves
    <3>2. OneWriter(x) /\ c \in Filling(r.m)
      BY <1>0, <1>1, <1>4 DEF MInv, history, Filling
    <3>3. \A d \in Filling(x)' : d \in Filling(x) /\ request'[d].n = request[d].n
      BY <1>0, <1>1, <2>2, <3>1 DEF Filling
    <3>4. CASE x # r.m
      <4>1. labels'[x] = labels[x]
        BY <2>4, <3>4
      <4> QED BY <3>2, <3>3, <4>1 DEF OneWriter
    <3>5. CASE x = r.m
      <4>1. \A d \in Filling(x)' : d = c
        BY <3>2, <3>3, <3>5 DEF OneWriter
      <4>2. \A a \in labels'[x] : a.by = r.n
        BY <1>0, <2>3, <2>4, <3>2, <3>5 DEF OneWriter
      <4> QED BY <1>0, <3>3, <4>1, <4>2 DEF OneWriter
    <3> QED BY <3>4, <3>5
  <2>8. torn' \subseteq Monitors
    BY <1>4 DEF history, MInv, MonitorsTypeOK
  <2> QED BY <1>4, <2>1, <2>2, <2>4, <2>5, <2>6, <2>7, <2>8, LabelsSet DEF history
<1> QED BY <1>5, <1>6

---------------------------------------------------------------------------
(***************************************************************************)
(* Requests of one statement, the scheduler, and steps of others.          *)
(***************************************************************************)
LEMMA DeleteLabelSafe ==
  ASSUME MInv, NEW m \in Monitors, NEW k \in LabelKeys, DeleteLabel(m, k) PROVE MInv'
<1>1. /\ UNCHANGED <<db, life, extra, groups, sched, edits, request, history>>
      /\ labels' = [labels EXCEPT ![m] = {l \in labels[m] : l.key # k}]
      /\ sent' = sent + 1 /\ sent < MaxRequests
  BY DEF DeleteLabel, OneStatement
<1>2. /\ labels' \in [Monitors -> SUBSET [key : LabelKeys, by : 1..MaxRequests]]
      /\ \A x \in Monitors : labels'[x] \subseteq labels[x]
  BY <1>1 DEF MInv, MonitorsTypeOK
<1>3. MonitorsTypeOK'
  <2>1. TypeOK' /\ sent' \in 0..MaxRequests
    BY <1>1 DEF sched, MInv, MonitorsTypeOK, TypeOK
  <2>2. \A x \in Monitors : \A a, b \in labels'[x] : a.key = b.key => a = b
    BY <1>2 DEF MInv, MonitorsTypeOK
  <2>3. \A x \in Monitors : life[x] # "live" => labels'[x] = {}
    BY <1>2 DEF MInv, MonitorsTypeOK
  <2> QED BY <1>1, <1>2, <2>1, <2>2, <2>3 DEF history, MInv, MonitorsTypeOK
<1>4. Budget'
  <2>1. Live' = Live /\ Inserting' = Inserting
    BY <1>1 DEF Live, Inserting
  <2> QED BY <1>1, <2>1, BudgetKept DEF history, MInv, MonitorsTypeOK
<1>5. EditsKept'
  BY <1>1 DEF history, MInv, EditsKept, Copy, Live
<1>6. \A d \in Clients : Sound(request'[d])
  BY <1>1 DEF MInv
<1>7. ASSUME NEW x \in Monitors \ torn' PROVE OneWriter(x)'
  BY <1>1, <1>2 DEF history, MInv, OneWriter, Filling
<1> QED BY <1>3, <1>4, <1>5, <1>6, <1>7 DEF MInv

LEMMA WithoutTyped ==
  ASSUME NEW g \in Groups, NEW x \in Extra, NEW old, x.group \in old \cup {NoGroup}
  PROVE  Without(g, x) \in Extra /\ Without(g, x).group \in (old \ {g}) \cup {NoGroup}
BY DEF Without, Extra

LEMMA DeleteGroupSafe == ASSUME MInv, NEW g \in Groups, DeleteGroup(g) PROVE MInv'
<1>1. /\ UNCHANGED <<db, life, labels, sched, edits, request, stale, torn, imported>>
      /\ groups' = groups \ {g} /\ sent' = sent + 1 /\ sent < MaxRequests
      /\ extra' = [m \in Monitors |-> Without(g, extra[m])]
      /\ asked' = [m \in Monitors |-> [asked[m] EXCEPT !.extra = Without(g, asked[m].extra)]]
  BY DEF DeleteGroup, OneStatement
<1>2. \A m \in Monitors : asked[m] \in Copies /\ asked[m].extra \in Extra /\ extra[m] \in Extra
                           /\ extra[m].group \in groups \cup {NoGroup}
  BY DEF MInv, MonitorsTypeOK, Copies
<1>3. /\ extra' \in [Monitors -> Extra]
      /\ \A m \in Monitors : extra'[m].group \in groups' \cup {NoGroup}
  BY <1>1, <1>2, WithoutTyped
<1>4. asked' \in [Monitors -> Copies]
  <2>1. ASSUME NEW m \in Monitors
        PROVE  [asked[m] EXCEPT !.extra = Without(g, asked[m].extra)] \in Copies
    <3>1. Without(g, asked[m].extra) \in Extra
      BY <1>2 DEF Without, Extra
    <3> QED BY <1>2, <3>1 DEF Copies
  <2> QED BY <1>1, <2>1
<1>5. MonitorsTypeOK'
  <2>1. TypeOK' /\ sent' \in 0..MaxRequests
    BY <1>1 DEF sched, MInv, MonitorsTypeOK, TypeOK
  <2> QED BY <1>1, <1>3, <1>4, <2>1 DEF MInv, MonitorsTypeOK
<1>6. Budget'
  <2>1. Live' = Live /\ Inserting' = Inserting
    BY <1>1 DEF Live, Inserting
  <2> QED BY <1>1, <2>1, BudgetKept DEF MInv, MonitorsTypeOK
<1>7. EditsKept'
  <2>1. SUFFICES ASSUME NEW m \in Monitors, life[m] = "live", m \notin stale
                 PROVE  Copy(m)' = asked'[m]
    BY <1>1 DEF EditsKept, Live
  <2>2. [db |-> db[m], extra |-> extra[m]] = asked[m]
    BY <2>1 DEF MInv, EditsKept, Live, Copy
  <2>3. Copy(m)' = [db |-> db[m], extra |-> Without(g, extra[m])]
    BY <1>1 DEF Copy
  <2>4. asked[m].extra = extra[m]
    BY <2>2
  <2>5. asked'[m] = [asked[m] EXCEPT !.extra = Without(g, extra[m])]
    BY <1>1, <2>4
  <2>6. [[db |-> db[m], extra |-> extra[m]] EXCEPT !.extra = Without(g, extra[m])]
          = [db |-> db[m], extra |-> Without(g, extra[m])]
    OBVIOUS
  <2> QED BY <2>2, <2>3, <2>5, <2>6
<1>8. \A d \in Clients : Sound(request'[d])
  BY <1>1 DEF MInv
<1>9. ASSUME NEW x \in Monitors \ torn' PROVE OneWriter(x)'
  BY <1>1 DEF MInv, OneWriter, Filling
<1> QED BY <1>5, <1>6, <1>7, <1>8, <1>9 DEF MInv

LEMMA DeleteMonitorSafe == ASSUME MInv, NEW m \in Monitors, DeleteMonitor(m) PROVE MInv'
<1>1. /\ UNCHANGED <<groups, sched, request, stale, torn, imported>>
      /\ sent' = sent + 1 /\ sent < MaxRequests
      /\ life' = [life EXCEPT ![m] = "gone"] /\ labels' = [labels EXCEPT ![m] = {}]
      /\ SetRow(m, Blank) /\ asked' = [asked EXCEPT ![m] = Blank]
  BY DEF DeleteMonitor, OneStatement
<1>2. /\ db' \in [Monitors -> MonitorRow] /\ extra' \in [Monitors -> Extra]
      /\ edits' \in Nat /\ db'[m] = Blank.db /\ extra'[m] = Blank.extra
      /\ \A x \in Monitors \ {m} :
           db'[x] = db[x] /\ extra'[x] = extra[x] /\ Copy(x)' = Copy(x)
  BY <1>1, BlankTyped, RowSet
<1>3. /\ asked' \in [Monitors -> Copies] /\ life' \in [Monitors -> {"new", "live", "gone"}]
      /\ labels' \in [Monitors -> SUBSET [key : LabelKeys, by : 1..MaxRequests]]
      /\ life'[m] = "gone" /\ labels'[m] = {}
      /\ \A x \in Monitors \ {m} :
           asked'[x] = asked[x] /\ life'[x] = life[x] /\ labels'[x] = labels[x]
  BY <1>1, BlankTyped DEF MInv, MonitorsTypeOK
<1>4. MonitorsTypeOK'
  <2>1. sent' \in 0..MaxRequests
    BY <1>1 DEF MInv, MonitorsTypeOK
  <2>5. TypeOK'
    BY <1>1, <1>2 DEF sched, MInv, MonitorsTypeOK, TypeOK
  <2>2. \A x \in Monitors : life'[x] # "live" => ~db'[x].enabled /\ labels'[x] = {}
    BY <1>2, <1>3, BlankTyped DEF MInv, MonitorsTypeOK
  <2>3. \A x \in Monitors : extra'[x].group \in groups' \cup {NoGroup}
    BY <1>1, <1>2, BlankTyped DEF MInv, MonitorsTypeOK
  <2>4. \A x \in Monitors : \A a, b \in labels'[x] : a.key = b.key => a = b
    BY <1>3 DEF MInv, MonitorsTypeOK
  <2> QED BY <1>1, <1>2, <1>3, <2>1, <2>2, <2>3, <2>4, <2>5 DEF MInv, MonitorsTypeOK
<1>5. Budget'
  <2>1. Live' \subseteq Live /\ Inserting' = Inserting
    BY <1>1, <1>3 DEF Live, Inserting
  <2> QED BY <1>1, <2>1, BudgetKept DEF MInv, MonitorsTypeOK
<1>6. EditsKept'
  BY <1>1, <1>2, <1>3 DEF MInv, EditsKept, Live
<1>7. \A d \in Clients : Sound(request'[d])
  BY <1>1 DEF MInv
<1>8. ASSUME NEW x \in Monitors \ torn' PROVE OneWriter(x)'
  <2>1. OneWriter(x) /\ labels'[x] \subseteq labels[x]
    BY <1>1, <1>3 DEF MInv
  <2> QED BY <1>1, <2>1 DEF OneWriter, Filling
<1> QED BY <1>4, <1>5, <1>6, <1>7, <1>8 DEF MInv

\* The scheduler writes none of the tables.
LEMMA SchedulerSafe ==
  ASSUME MInv, \/ Scheduler
               \/ UNCHANGED mvars
  PROVE  MInv'
<1>1. TypeOK
  BY DEF MInv, MonitorsTypeOK
<1>2. UNCHANGED <<db, edits, life, extra, labels, groups, request, sent, history>>
  BY DEF Scheduler, Resync, ResyncList, ResyncApply, mvars, tables
<1>3. TypeOK'
  <2>1. CASE ResyncList
    BY <1>1, <2>1 DEF TypeOK, ResyncList, ListAllEnabled
  <2>2. CASE ResyncApply
    <3>1. ASSUME NEW m \in Monitors
          PROVE  /\ runner'[m] \in MonitorRow \cup {NoRunner}
                 /\ runner'[m] # NoRunner => runner'[m].enabled
      BY <1>1, <2>2 DEF TypeOK, ResyncApply, Added
    <3>2. DOMAIN runner' = Monitors /\ runner' = [m \in Monitors |-> runner'[m]]
      BY <2>2 DEF ResyncApply
    <3>3. runner' \in [Monitors -> MonitorRow \cup {NoRunner}]
      BY <3>1, <3>2
    <3>4. list' \in [Monitors -> MonitorRow \cup {NoRunner}] /\ listing' = FALSE
      BY <2>2 DEF ResyncApply
    <3> QED BY <1>1, <1>2, <3>1, <3>3, <3>4 DEF TypeOK
  <2>3. CASE UNCHANGED mvars
    BY <1>1, <2>3 DEF TypeOK, mvars, sched, tables
  <2> QED BY <2>1, <2>2, <2>3 DEF Scheduler, Resync
<1>4. MonitorsTypeOK'
  BY <1>2, <1>3 DEF history, MInv, MonitorsTypeOK
<1>5. Budget'
  BY <1>2 DEF history, MInv, Budget, Live, Inserting
<1>6. EditsKept'
  BY <1>2 DEF history, MInv, EditsKept, Copy, Live
<1>7. \A d \in Clients : Sound(request'[d])
  BY <1>2 DEF MInv
<1>8. ASSUME NEW x \in Monitors \ torn' PROVE OneWriter(x)'
  BY <1>2 DEF history, MInv, OneWriter, Filling
<1> QED BY <1>4, <1>5, <1>6, <1>7, <1>8 DEF MInv

LEMMA MStep == MInv /\ [MNext]_mvars => MInv'
<1> SUFFICES ASSUME MInv, [MNext]_mvars PROVE MInv'
  OBVIOUS
<1>1. CASE Scheduler \/ UNCHANGED mvars
  BY <1>1, SchedulerSafe
<1>2. CASE Statement
  BY <1>2, DeleteMonitorSafe, DeleteLabelSafe, DeleteGroupSafe DEF Statement
<1>3. ASSUME NEW c \in Clients, Send(c) PROVE MInv'
  BY <1>3, SendSafe
<1>4. ASSUME NEW c \in Clients, Step(c) PROVE MInv'
  BY <1>4, WriteRowSafe, InsertSafe, ImportRowSafe, ClearLabelsSafe, InsertLabelSafe, FailSafe
     DEF Step
<1> QED BY <1>1, <1>2, <1>3, <1>4 DEF MNext

\* The inductive invariant of the requests on monitors.
THEOREM MonitorsInvariant == MSpec => []MInv
<1>1. MInit => MInv
  BY MInitSafe
<1> QED BY <1>1, MStep, PTL DEF MSpec

---------------------------------------------------------------------------
\* Whatever requests of CreateMonitor, UpdateMonitor, BulkImport and the others
\* overlap or fail, the tables are well formed, there are no more monitors than
\* the plan, overlaps and imports make, and no edit is lost but to an outdated
\* copy.
THEOREM TablesAlwaysHold == MSpec => []TablesHold
<1>1. MInv => TablesHold
  <2> SUFFICES ASSUME MInv PROVE TablesHold
    OBVIOUS
  <2>1. LimitHolds
    BY Finite DEF MInv, MonitorsTypeOK, Budget, LimitHolds
  <2> QED BY <2>1 DEF MInv, TablesHold
<1> QED BY <1>1, MonitorsInvariant, PTL

\* Wherever SetLabels stops, the labels of a monitor are those of one request,
\* unless two have replaced them at once.
THEOREM LabelsAreOfOneRequest == MSpec => []LabelsOfOneRequest
<1>1. MInv => LabelsOfOneRequest
  BY DEF MInv, LabelsOfOneRequest, OneWriter
<1> QED BY <1>1, MonitorsInvariant, PTL

---------------------------------------------------------------------------
(***************************************************************************)
(* What the scheduler sees.                                                *)
(***************************************************************************)
LEMMA RowEdited ==
  ASSUME MInv, NEW m \in Monitors, NEW row \in Copies, SetRow(m, row), UNCHANGED sched
  PROVE  [Next]_vars
<1>1. row.db \in MonitorRow /\ db \in [Monitors -> MonitorRow]
  BY DEF Copies, MInv, MonitorsTypeOK, TypeOK
<1>2. CASE row.db = db[m]
  BY <1>1, <1>2 DEF SetRow, sched, vars
<1>3. CASE row.db # db[m]
  <2>1. Edit(m, row.db)
    BY <1>3 DEF SetRow, Edit, sched
  <2> QED BY <1>1, <2>1 DEF Next
<1> QED BY <1>2, <1>3

LEMMA StatementSeen == ASSUME MInv, Statement PROVE [Next]_vars
<1>1. ASSUME NEW m \in Monitors, DeleteMonitor(m) PROVE [Next]_vars
  BY <1>1, BlankTyped, RowEdited DEF DeleteMonitor
<1>2. ASSUME NEW m \in Monitors, NEW k \in LabelKeys, DeleteLabel(m, k) PROVE [Next]_vars
  BY <1>2 DEF DeleteLabel, sched, vars
<1>3. ASSUME NEW g \in Groups, DeleteGroup(g) PROVE [Next]_vars
  BY <1>3 DEF DeleteGroup, sched, vars
<1> QED BY <1>1, <1>2, <1>3 DEF Statement

LEMMA StepSeen == ASSUME MInv, NEW c \in Clients, Step(c) PROVE [Next]_vars
<1>1. CASE WriteRow(c)
  <2>1. PICK r : r = request[c]
    OBVIOUS
  <2>2. PICK new : new = Edited(r.op, r.row, r.arg)
    OBVIOUS
  <2>3. new \in Copies /\ r.m \in Monitors
    <3>1. /\ r.op \in RowOps /\ r.m \in Monitors /\ r.row \in Copies
          /\ (r.op = "update" => r.arg \in Fields)
      BY <1>1, <2>1 DEF MInv, WriteRow, Sound, Numbered, Requests
    <3> QED BY <2>2, <3>1, EditTyped
  <2>4. CASE UNCHANGED <<db, edits>>
    BY <1>1, <2>4 DEF WriteRow, sched, vars
  <2>5. CASE SetRow(r.m, new)
    BY <1>1, <2>3, <2>5, RowEdited DEF WriteRow
  <2> QED BY <1>1, <2>1, <2>2, <2>4, <2>5 DEF WriteRow
<1>2. CASE Insert(c)
  <2>1. UNCHANGED sched /\ SomeNew \in Monitors
    BY <1>2 DEF Insert, SomeNew
  <2>2. CASE UNCHANGED <<db, edits>>
    BY <2>1, <2>2 DEF sched, vars
  <2>3. CASE SetRow(SomeNew, NewRow(request[c].arg))
    <3>1. NewRow(request[c].arg) \in Copies
      BY <1>2, NewRowTyped DEF MInv, Insert, Sound, Numbered
    <3> QED BY <2>1, <2>3, <3>1, RowEdited
  <2> QED BY <1>2, <2>2, <2>3 DEF Insert, InsertMonitor
<1>3. CASE ImportRow(c)
  <2>1. UNCHANGED sched /\ SomeNew \in Monitors
    BY <1>3 DEF ImportRow, SomeNew
  <2>2. PICK q : q = request[c]
    OBVIOUS
  <2>3. q.arg \in Fields /\ q \in Requests
    BY <1>3, <2>2 DEF MInv, ImportRow, Sound, Numbered
  <2>4. CASE UNCHANGED <<db, edits>>
    BY <2>1, <2>4 DEF sched, vars
  <2>5. CASE SetRow(SomeNew, NewRow([q.arg EXCEPT !.muted = FALSE]))
    <3>1. [q.arg EXCEPT !.muted = FALSE] \in Fields
      BY <2>3 DEF Fields
    <3> QED BY <2>1, <2>5, <3>1, NewRowTyped, RowEdited
  <2>6. [q EXCEPT !.rows = q.rows - 1].arg = q.arg
    BY <2>3 DEF Requests
  <2> QED BY <1>3, <2>2, <2>4, <2>5, <2>6 DEF ImportRow, InsertMonitor
<1>4. CASE ClearLabels(c)
  BY <1>4 DEF ClearLabels, sched, vars
<1>5. ASSUME NEW k \in LabelKeys, InsertLabel(c, k) PROVE [Next]_vars
  BY <1>5 DEF InsertLabel, sched, vars
<1>6. CASE Fail(c)
  BY <1>6 DEF Fail, tables, sched, vars
<1> QED BY <1>1, <1>2, <1>3, <1>4, <1>5, <1>6 DEF Step

LEMMA MStepSeen == MInv /\ [MNext]_mvars => [Next]_vars
<1> SUFFICES ASSUME MInv, [MNext]_mvars PROVE [Next]_vars
  OBVIOUS
<1>1. CASE Scheduler
  BY <1>1 DEF Scheduler, Next
<1>2. CASE UNCHANGED mvars
  BY <1>2 DEF mvars, tables, sched, vars
<1>3. ASSUME NEW c \in Clients, Send(c) PROVE [Next]_vars
  BY <1>3 DEF Send, ReadRow, CheckLimit, ReadImport, ReadLabels, tables, sched, vars
<1>4. ASSUME NEW c \in Clients, Step(c) PROVE [Next]_vars
  BY <1>4, StepSeen
<1> QED BY <1>1, <1>2, <1>3, <1>4, StatementSeen DEF MNext

\* To resyncFromDB every request on a monitor is one edit of its row, or nothing.
THEOREM RequestsAreEdits == MSpec => Init /\ [][Next]_vars
<1>1. MInit => Init
  BY MInitSafe DEF MInit, Init, MInv, MonitorsTypeOK, TypeOK
<1> QED BY <1>1, MStepSeen, MonitorsInvariant, PTL DEF MSpec
=============================================================================
