------------------------------ MODULE Runners ------------------------------
(***************************************************************************)
(* The scheduler's map of running monitors and the database rows it is to  *)
(* follow (internal/checker/scheduler.go).  The API edits rows only; once  *)
(* a minute resyncFromDB lists the enabled ones and, under the lock, makes *)
(* the map agree with the list.                                            *)
(***************************************************************************)
EXTENDS Integers

CONSTANTS
  Monitors,
  Paces,      \* values of (interval_seconds, timeout_seconds)
  Configs,    \* values of everything else that a check uses
  NoRunner,
  MaxEdits    \* bound: edits of rows

ASSUME RunnersAssumption ==
  /\ Paces # {} /\ Configs # {}
  /\ NoRunner \notin [enabled : BOOLEAN, pace : Paces, config : Configs]
  /\ MaxEdits \in Nat

VARIABLES
  db,       \* rows of monitors; a deleted monitor is a disabled one
  runner,   \* the map: each runner holds a copy of its row
  list,     \* the rows that resyncFromDB has read
  listing,  \* whether it has read them and not yet taken the lock
  edits

vars == <<db, runner, list, listing, edits>>

MonitorRow == [enabled : BOOLEAN, pace : Paces, config : Configs]

TypeOK ==
  /\ db \in [Monitors -> MonitorRow]
  /\ runner \in [Monitors -> MonitorRow \cup {NoRunner}]
  /\ \A m \in Monitors : runner[m] # NoRunner => runner[m].enabled
  /\ list \in [Monitors -> MonitorRow \cup {NoRunner}]
  /\ listing \in BOOLEAN
  /\ edits \in Nat

ListAllEnabled == [m \in Monitors |-> IF db[m].enabled THEN db[m] ELSE NoRunner]

\* Start: every enabled monitor gets a runner.
Init ==
  /\ db \in [Monitors -> MonitorRow]
  /\ runner = ListAllEnabled
  /\ list = [m \in Monitors |-> NoRunner]
  /\ listing = FALSE
  /\ edits = 0

\* The API updates, enables, disables or deletes a monitor.
Edit(m, row) ==
  /\ edits < MaxEdits /\ row # db[m]
  /\ edits' = edits + 1
  /\ db' = [db EXCEPT ![m] = row]
  /\ UNCHANGED <<runner, list, listing>>

ResyncList ==
  /\ ~listing
  /\ list' = ListAllEnabled
  /\ listing' = TRUE
  /\ UNCHANGED <<db, runner, edits>>

\* addMonitorLocked stops the runner there is; a disabled row gets none.
Added(row) == IF row.enabled THEN row ELSE NoRunner

BugNeedsRestart(old, new) == FALSE
NeedsRestart(old, new) == old.pace # new.pace

ResyncApply ==
  /\ listing
  /\ runner' = [m \in Monitors |->
       CASE list[m] = NoRunner                -> NoRunner
         [] runner[m] = NoRunner              -> Added(list[m])
         [] NeedsRestart(runner[m], list[m])  -> Added(list[m])
         [] OTHER                             -> runner[m]]
  /\ list' = [m \in Monitors |-> NoRunner]
  /\ listing' = FALSE
  /\ UNCHANGED <<db, edits>>

Resync == ResyncList \/ ResyncApply

Next == Resync \/ \E m \in Monitors, row \in MonitorRow : Edit(m, row)

\* The resync ticker fires every minute.
Spec == Init /\ [][Next]_vars /\ WF_vars(Resync)

---------------------------------------------------------------------------
\* Whatever is edited while a resync works on its list, once the edits stop
\* exactly the enabled monitors run, at the pace their rows ask for.
RunnersConverge ==
  <>[](\A m \in Monitors :
         IF db[m].enabled THEN runner[m] # NoRunner /\ runner[m].pace = db[m].pace
         ELSE runner[m] = NoRunner)
=============================================================================
