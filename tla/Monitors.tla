------------------------------ MODULE Monitors ------------------------------
(***************************************************************************)
(* The requests that write monitors (internal/api/handlers/monitors.go,    *)
(* monitor_groups.go, bulk_import.go), statement by statement, beside the  *)
(* scheduler that follows the rows (Runners).  Most handlers read a row,   *)
(* set some of its fields and write all of it back.                        *)
(***************************************************************************)
EXTENDS Runners, FiniteSets

CONSTANTS
  Clients,          \* each has one request at a time
  Groups, NoGroup,
  LabelKeys,
  Keep,             \* a field that a request leaves out
  Bodies,           \* bodies of requests that create or update, once validated
  Alerted,          \* monitors that raise an alert while they exist
  Initial,          \* the sets of monitors there may be at the start, all
  InitialBody,      \* made of this body
  FreeMaxMonitors,
  MaxRequests,      \* bound: requests
  MaxRows           \* bound: monitors of an import

Fields ==
  [enabled : BOOLEAN, pace : Paces \cup {Keep}, config : Configs, muted : BOOLEAN,
   group : Groups \cup {NoGroup}, labels : (SUBSET LabelKeys) \cup {Keep}]

ASSUME MonitorsAssumption ==
  /\ NoGroup \notin Groups /\ Initial \subseteq SUBSET Monitors
  /\ {FreeMaxMonitors, MaxRequests, MaxRows} \subseteq Nat
  /\ IsFiniteSet(Monitors) /\ Monitors # {}
  /\ IsFiniteSet(Clients) /\ Clients # {}
  /\ Bodies \cup {InitialBody} \subseteq Fields

VARIABLES
  life,      \* of each monitor: "new" until its row is inserted, "live", "gone"
  extra,     \* the columns that the scheduler does not look at
  labels,    \* rows of monitor_labels: a key and the request that wrote it
  groups,    \* rows of monitor_groups
  request,
  sent,      \* number of requests so far
  asked,     \* history: for each monitor the last value written on purpose
  stale,     \* history: monitors that were overwritten with an outdated copy
  torn,      \* history: monitors whose labels two requests replaced at once
  imported   \* history: number of monitors inserted by imports, with those
             \* that there are too many of at the start

tables   == <<db, life, extra, labels, groups>>
history  == <<asked, stale, torn, imported>>
sched    == <<runner, list, listing>>
mvars    == <<tables, sched, edits, request, sent, history>>

Extra  == [muted : BOOLEAN, group : Groups \cup {NoGroup}]
Copies == [db : MonitorRow, extra : Extra]
RowOps == {"update", "pause", "resume", "mute", "unmute"}

Blank == [db |-> [enabled |-> FALSE, pace |-> CHOOSE p \in Paces : TRUE,
                  config |-> CHOOSE x \in Configs : TRUE],
          extra |-> [muted |-> FALSE, group |-> NoGroup]]
NoBody == [enabled |-> FALSE, pace |-> Keep, config |-> Blank.db.config, muted |-> FALSE,
           group |-> NoGroup, labels |-> Keep]
LabelsOnly(keys) == [NoBody EXCEPT !.labels = keys]

\* row: the copy GetByID returned; todo: the labels still to insert;
\* rows: the monitors an import has still to insert.
Requests ==
  [pc : {"idle", "write", "insert", "rows", "clear", "fill"},
   op : RowOps \cup {"create", "import", "labels"}, m : Monitors, n : Nat,
   row : Copies, arg : Bodies \cup {NoBody} \cup {LabelsOnly(s) : s \in SUBSET LabelKeys},
   todo : SUBSET LabelKeys, rows : Nat]

Copy(m) == [db |-> db[m], extra |-> extra[m]]

MonitorsTypeOK ==
  /\ TypeOK
  /\ life \in [Monitors -> {"new", "live", "gone"}]
  /\ extra \in [Monitors -> Extra]
  /\ labels \in [Monitors -> SUBSET [key : LabelKeys, by : 1..MaxRequests]]
  /\ \A m \in Monitors : \A a, b \in labels[m] : a.key = b.key => a = b
  /\ \A m \in Monitors : life[m] # "live" => ~db[m].enabled /\ labels[m] = {}
  /\ \A m \in Monitors : extra[m].group \in groups \cup {NoGroup}
  /\ groups \subseteq Groups
  /\ request \in [Clients -> Requests]
  /\ sent \in 0..MaxRequests /\ imported \in Nat
  /\ asked \in [Monitors -> Copies]
  /\ stale \subseteq Monitors /\ torn \subseteq Monitors

\* The row that Create and Import make of a body.
NewRow(arg) ==
  [db |-> [enabled |-> arg.enabled, pace |-> IF arg.pace = Keep THEN Blank.db.pace ELSE arg.pace,
           config |-> arg.config],
   extra |-> [muted |-> arg.muted, group |-> arg.group]]

SomeMonitor == CHOOSE m \in Monitors : TRUE
Idle == [pc |-> "idle", op |-> "update", m |-> SomeMonitor, n |-> 0,
         row |-> Blank, arg |-> NoBody, todo |-> {}, rows |-> 0]

\* The scheduler starts while monitors are there already.
MInit ==
  /\ \E set \in Initial :
       LET Row(m) == IF m \in set THEN NewRow(InitialBody) ELSE Blank IN
       /\ life = [m \in Monitors |-> IF m \in set THEN "live" ELSE "new"]
       /\ db = [m \in Monitors |-> Row(m).db]
       /\ extra = [m \in Monitors |-> Row(m).extra]
       /\ asked = [m \in Monitors |-> Row(m)]
       /\ imported = IF Cardinality(set) > FreeMaxMonitors
                     THEN Cardinality(set) - FreeMaxMonitors ELSE 0
  /\ runner = ListAllEnabled
  /\ list = [m \in Monitors |-> NoRunner] /\ listing = FALSE
  /\ edits = 0
  /\ labels = [m \in Monitors |-> {}] /\ groups = Groups
  /\ request = [c \in Clients |-> Idle] /\ sent = 0
  /\ stale = {} /\ torn = {}

---------------------------------------------------------------------------
(***************************************************************************)
(* Statements.                                                             *)
(***************************************************************************)
Live == {m \in Monitors : life[m] = "live"}
SomeNew == CHOOSE m \in Monitors : life[m] = "new"
GroupExists(g) == g \in groups \cup {NoGroup}

\* Of the columns of a row, those the scheduler sees count as an edit.
BugSetRow(m, row) ==
  /\ db' = [x \in Monitors |-> row.db]
  /\ extra' = [x \in Monitors |-> row.extra]
  /\ edits' = edits + 1
SetRow(m, row) ==
  /\ row.db = db[m] \/ edits < MaxEdits
  /\ db' = [db EXCEPT ![m] = row.db]
  /\ extra' = [extra EXCEPT ![m] = row.extra]
  /\ edits' = IF row.db = db[m] THEN edits ELSE edits + 1

InsertMonitor(m, row) ==
  /\ life' = [life EXCEPT ![m] = "live"]
  /\ SetRow(m, row)
  /\ asked' = [asked EXCEPT ![m] = row]

GoTo(c, state) == request' = [request EXCEPT ![c] = state]

Asking(pc, op, m, row, arg, rows) ==
  [pc |-> pc, op |-> op, m |-> m, n |-> sent + 1, row |-> row, arg |-> arg,
   todo |-> {}, rows |-> rows]
Begin(c, state) ==
  /\ request[c].pc = "idle" /\ sent < MaxRequests
  /\ sent' = sent + 1
  /\ GoTo(c, state)

\* What is left of a request once its row is written: its labels, if any, and
\* then the other monitors of an import.  An update replaces them by none when
\* its body says so; a new row has none to replace.
Rest(r) == IF r.op = "import" /\ r.rows > 0 THEN [r EXCEPT !.pc = "rows"] ELSE Idle
Unlabelled(r) == r.arg.labels = Keep \/ (r.arg.labels = {} /\ r.op # "update")
Labelled(r) == IF Unlabelled(r) THEN Rest(r) ELSE [r EXCEPT !.pc = "clear"]

---------------------------------------------------------------------------
(***************************************************************************)
(* Update, Pause, Resume, Mute and Unmute.                                 *)
(***************************************************************************)
ReadRow(c, op, m, arg) ==
  /\ m \in Live
  /\ Begin(c, Asking("write", op, m, Copy(m), arg, 0))
  /\ UNCHANGED <<tables, sched, edits, history>>

BugEdited(op, row, arg) == IF op = "update" THEN NewRow(arg) ELSE row
Edited(op, row, arg) ==
  CASE op = "pause"  -> [row EXCEPT !.db.enabled = FALSE]
    [] op = "resume" -> [row EXCEPT !.db.enabled = TRUE]
    [] op = "mute"   -> [row EXCEPT !.extra.muted = TRUE]
    [] op = "unmute" -> [row EXCEPT !.extra.muted = FALSE]
    [] op = "update" ->
         [db |-> [enabled |-> arg.enabled,
                  pace    |-> IF arg.pace = Keep THEN row.db.pace ELSE arg.pace,
                  config  |-> arg.config],
          extra |-> [row.extra EXCEPT !.group = arg.group]]

\* What a client expects of its request: the fields it is about, no others.
Meant(op, old, new) ==
  CASE op \in {"pause", "resume"} -> [old EXCEPT !.db.enabled = new.db.enabled]
    [] op \in {"mute", "unmute"}  -> [old EXCEPT !.extra.muted = new.extra.muted]
    [] op = "update"              -> [db |-> new.db,
                                      extra |-> [old.extra EXCEPT !.group = new.extra.group]]

\* UPDATE ... WHERE id = ?: it fails when the row is gone by now, or names a
\* group that is.
WriteRow(c) ==
  LET r == request[c]
      new == Edited(r.op, r.row, r.arg)
  IN
  /\ r.pc = "write"
  /\ IF r.m \in Live /\ GroupExists(new.extra.group)
     THEN /\ SetRow(r.m, new)
          /\ asked' = [asked EXCEPT ![r.m] = Meant(r.op, @, new)]
          /\ stale' = IF Copy(r.m) = r.row THEN stale ELSE stale \cup {r.m}
          /\ GoTo(c, IF r.op = "update" THEN Labelled(r) ELSE Idle)
     ELSE /\ GoTo(c, Idle)
          /\ UNCHANGED <<db, extra, edits, asked, stale>>
  /\ UNCHANGED <<life, labels, groups, sched, sent, torn, imported>>

---------------------------------------------------------------------------
(***************************************************************************)
(* Create and Import.                                                      *)
(***************************************************************************)
\* checkMonitorLimit counts; the row is inserted later.
BelowLimit == Cardinality(Live) < FreeMaxMonitors

CheckLimit(c, arg) ==
  /\ BelowLimit
  /\ Begin(c, Asking("insert", "create", SomeMonitor, Blank, arg, 0))
  /\ UNCHANGED <<tables, sched, edits, history>>

Insert(c) ==
  LET r == request[c] IN
  /\ r.pc = "insert" /\ \E m \in Monitors : life[m] = "new"
  /\ IF GroupExists(r.arg.group)
     THEN /\ InsertMonitor(SomeNew, NewRow(r.arg))
          /\ GoTo(c, Labelled([r EXCEPT !.m = SomeNew]))
     ELSE /\ GoTo(c, Idle)
          /\ UNCHANGED <<life, db, extra, edits, asked>>
  /\ UNCHANGED <<labels, groups, sched, sent, stale, torn, imported>>

ReadImport(c, arg, rows) ==
  /\ Begin(c, Asking("rows", "import", SomeMonitor, Blank, arg, rows))
  /\ UNCHANGED <<tables, sched, edits, history>>

\* One monitor of the import; one whose group does not exist is passed over.
\* No limit of the plan is looked at.
ImportRow(c) ==
  LET r == [request[c] EXCEPT !.rows = @ - 1] IN
  /\ request[c].pc = "rows" /\ \E m \in Monitors : life[m] = "new"
  /\ IF GroupExists(r.arg.group)
     THEN /\ InsertMonitor(SomeNew, NewRow([r.arg EXCEPT !.muted = FALSE]))
          /\ imported' = imported + 1
          /\ GoTo(c, Labelled([r EXCEPT !.m = SomeNew]))
     ELSE /\ GoTo(c, Rest(r))
          /\ UNCHANGED <<life, db, extra, edits, asked, imported>>
  /\ UNCHANGED <<labels, groups, sched, sent, stale, torn>>

---------------------------------------------------------------------------
(***************************************************************************)
(* Labels, groups and deletion.                                            *)
(***************************************************************************)
ReadLabels(c, m, keys) ==
  /\ m \in Live
  /\ Begin(c, Asking("clear", "labels", m, Blank, LabelsOnly(keys), 0))
  /\ UNCHANGED <<tables, sched, edits, history>>

Filling(m) == {c \in Clients : request[c].pc = "fill" /\ request[c].m = m}

\* SetLabels: DELETE, then one INSERT for each label.
BugKept(m) == labels[m]
Kept(m) == {}

ClearLabels(c) ==
  LET r == request[c] IN
  /\ r.pc = "clear"
  /\ labels' = [labels EXCEPT ![r.m] = Kept(r.m)]
  /\ torn' = IF Filling(r.m) = {} THEN torn ELSE torn \cup {r.m}
  /\ GoTo(c, IF r.arg.labels = {} THEN Rest(r)
             ELSE [r EXCEPT !.pc = "fill", !.todo = r.arg.labels])
  /\ UNCHANGED <<db, life, extra, groups, sched, edits, sent, asked, stale, imported>>

\* A key that is there already, or a monitor that is gone, ends it.
InsertLabel(c, k) ==
  LET r == request[c] IN
  /\ r.pc = "fill" /\ k \in r.todo
  /\ IF r.m \in Live /\ k \notin {l.key : l \in labels[r.m]}
     THEN /\ labels' = [labels EXCEPT ![r.m] = @ \cup {[key |-> k, by |-> r.n]}]
          /\ GoTo(c, IF r.todo = {k} THEN Rest([r EXCEPT !.todo = {}])
                     ELSE [r EXCEPT !.todo = @ \ {k}])
     ELSE GoTo(c, Rest([r EXCEPT !.todo = {}])) /\ UNCHANGED labels
  /\ UNCHANGED <<db, life, extra, groups, sched, edits, sent, history>>

\* The requests that come down to one statement.
OneStatement == sent < MaxRequests /\ sent' = sent + 1 /\ UNCHANGED request

DeleteLabel(m, k) ==
  /\ OneStatement /\ m \in Live
  /\ labels' = [labels EXCEPT ![m] = {l \in @ : l.key # k}]
  /\ UNCHANGED <<db, life, extra, groups, sched, edits, history>>

\* monitors.group_id is set to NULL by the database.
Without(g, x) == IF x.group = g THEN [x EXCEPT !.group = NoGroup] ELSE x

DeleteGroup(g) ==
  /\ OneStatement /\ g \in groups
  /\ groups' = groups \ {g}
  /\ extra' = [m \in Monitors |-> Without(g, extra[m])]
  /\ asked' = [m \in Monitors |-> [asked[m] EXCEPT !.extra = Without(g, @)]]
  /\ UNCHANGED <<db, life, labels, sched, edits, stale, torn, imported>>

\* Its labels, rules and checks go with it; alerts do not, so the row of a
\* monitor that has some cannot be deleted.
DeleteMonitor(m) ==
  /\ OneStatement /\ m \in Live \ Alerted
  /\ life' = [life EXCEPT ![m] = "gone"]
  /\ SetRow(m, Blank) /\ asked' = [asked EXCEPT ![m] = Blank]
  /\ labels' = [labels EXCEPT ![m] = {}]
  /\ UNCHANGED <<groups, sched, stale, torn, imported>>

\* A statement fails, or the client goes away: the request ends as it is.
Fail(c) ==
  /\ request[c].pc # "idle"
  /\ GoTo(c, Idle)
  /\ UNCHANGED <<tables, sched, edits, sent, history>>

---------------------------------------------------------------------------
Scheduler == Resync /\ UNCHANGED <<life, extra, labels, groups, request, sent, history>>

Step(c) ==
  \/ WriteRow(c) \/ Insert(c) \/ ImportRow(c) \/ ClearLabels(c)
  \/ \E k \in LabelKeys : InsertLabel(c, k)
  \/ Fail(c)

Send(c) ==
  \/ \E m \in Monitors, op \in RowOps \ {"update"} : ReadRow(c, op, m, NoBody)
  \/ \E m \in Monitors, arg \in Bodies : ReadRow(c, "update", m, arg)
  \/ \E arg \in Bodies : CheckLimit(c, arg)
  \/ \E arg \in Bodies, n \in 1..MaxRows : ReadImport(c, arg, n)
  \/ \E m \in Monitors, keys \in SUBSET LabelKeys : ReadLabels(c, m, keys)

Statement ==
  \/ \E m \in Monitors : DeleteMonitor(m) \/ \E k \in LabelKeys : DeleteLabel(m, k)
  \/ \E g \in Groups : DeleteGroup(g)

MNext == Scheduler \/ Statement \/ \E c \in Clients : Send(c) \/ Step(c)

MSpec == MInit /\ [][MNext]_mvars /\ WF_mvars(Scheduler)

---------------------------------------------------------------------------
\* The plan's limit is exceeded only by requests that have counted at the same
\* time, one each, and by imports, which do not count.
LimitHolds ==
  Cardinality(Live) < FreeMaxMonitors + Cardinality(Clients) + imported

\* Unless a copy that was outdated has been written over it, a row holds in
\* every field what was last written there on purpose: resuming does not
\* unmute, an edit of one field leaves the others alone.
EditsKept == \A m \in Live \ stale : Copy(m) = asked[m]

\* The tables: rows of the right form, references to what exists, no more
\* monitors than the plan, overlaps and imports make, and no edit lost.
TablesHold == MonitorsTypeOK /\ LimitHolds /\ EditsKept

\* Whoever replaces labels and wherever a replacement stops, the labels of a
\* monitor are those of one request, unless two replaced them at once.
LabelsOfOneRequest ==
  \A m \in Monitors \ torn : \A a, b \in labels[m] : a.by = b.by

\* Seen from the scheduler every request is an edit of a row, or nothing.
ImplementsRunners == Spec
=============================================================================
