---------------------------- MODULE AlertStore ----------------------------
(***************************************************************************)
(* The rows of the alerts and alert_escalation_state tables and the SQL    *)
(* statements of internal/store/sqlite/alerts.go on them.  SQLite runs one *)
(* statement at a time (SetMaxOpenConns(1)), so each operator below is     *)
(* atomic; nothing ties two statements together.                           *)
(*                                                                         *)
(* Tables are passed as arguments: the operators are shared by every       *)
(* module whose actors write alerts.                                       *)
(***************************************************************************)
EXTENDS Integers

CONSTANTS
  Monitors,        \* monitor ids
  Alerts,          \* alert ids (uuid.New() picks an unused one)
  NumSteps,        \* length of the escalation policy; steps are 1..NumSteps
  RepeatCount,     \* RepeatCount[s]: re-notifications of step s before escalating
  MaxLoops         \* policy.MaxLoops: how often the policy may restart

ASSUME AlertsAssumption == Monitors # {} /\ Alerts # {}
ASSUME PolicyAssumption ==
  /\ NumSteps \in Nat \ {0}
  /\ RepeatCount \in [1..NumSteps -> Nat]
  /\ MaxLoops \in Nat

Steps == 1..NumSteps

(***************************************************************************)
(* A row of alerts.  status "none" stands for the absence of a row and     *)
(* step 0 for the empty current_escalation_step.  Severity, error text and *)
(* timestamps are data that no decision of the engine reads back.          *)
(***************************************************************************)
Statuses == {"none", "firing", "acknowledged", "resolved"}

AlertRow == [monitor : Monitors, status : Statuses, step : Steps \cup {0}]

(***************************************************************************)
(* A row of alert_escalation_state; step 0 is the absence of a row.        *)
(* loops is the loop_count kept in notifications_sent.  elapsed abstracts  *)
(* StepEnteredAt: whether the step's wait_seconds have passed since.       *)
(***************************************************************************)
EscalationRow ==
  [step : Steps \cup {0}, retry : Nat, loops : Nat, elapsed : BOOLEAN]

NoEscalation == [step |-> 0, retry |-> 0, loops |-> 0, elapsed |-> FALSE]

\* The statuses covered by the partial index idx_alerts_active_monitor.
Active == {"firing", "acknowledged"}

IsActive(row) == row.status \in Active

Exists(tbl, a) == tbl[a].status # "none"

\* GetActiveByMonitor: WHERE monitor_id = ? AND status != 'resolved'.
GetActiveByMonitor(tbl, m) ==
  {a \in Alerts : tbl[a].monitor = m /\ IsActive(tbl[a])}

\* ListFiring: WHERE status = 'firing', each row copied out of the table.
ListFiring(tbl) ==
  {[id |-> a, row |-> tbl[a]] : a \in {b \in Alerts : tbl[b].status = "firing"}}

\* Whether the unique index lets row become the contents of a.
BugIndexAllows(tbl, a, row) == TRUE
IndexAllows(tbl, a, row) ==
  IsActive(row) =>
    \A b \in Alerts \ {a} : ~(IsActive(tbl[b]) /\ tbl[b].monitor = row.monitor)

\* Update: every column of the row is overwritten, whatever it holds by now;
\* an absent row or a conflict with the index is an error that writes nothing.
UpdateOK(tbl, a, row) == Exists(tbl, a) /\ IndexAllows(tbl, a, row)

UpdateAlert(tbl, a, row) ==
  IF UpdateOK(tbl, a, row) THEN [tbl EXCEPT ![a] = row] ELSE tbl

\* AckWithContext: one UPDATE of the status column, with no test of its value.
AckWithContext(tbl, a) ==
  UpdateAlert(tbl, a, [tbl[a] EXCEPT !.status = "acknowledged"])

UpsertEscalationState(tbl, a, st) == [tbl EXCEPT ![a] = st]

DeleteEscalationState(tbl, a) == [tbl EXCEPT ![a] = NoEscalation]
===========================================================================
