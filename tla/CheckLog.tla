------------------------------ MODULE CheckLog ------------------------------
(***************************************************************************)
(* What the scheduler may expect of its asynchronous writer of check       *)
(* results: a result is dropped at once or kept until the database has     *)
(* taken or refused it, and closing waits for all that was kept.           *)
(***************************************************************************)
CONSTANT Results    \* check results, each enqueued at most once

VARIABLES
  pending,   \* accepted, not yet written
  stored,    \* rows of monitor_checks
  failed,    \* refused by the database
  dropped,   \* never accepted: the buffer was full
  open       \* whether Stop has not returned yet

logVars == <<pending, stored, failed, dropped, open>>

Known == pending \cup stored \cup failed \cup dropped

LogInit ==
  pending = {} /\ stored = {} /\ failed = {} /\ dropped = {} /\ open = TRUE

Accept(c) ==
  /\ open /\ c \notin Known
  /\ pending' = pending \cup {c}
  /\ UNCHANGED <<stored, failed, dropped, open>>

Drop(c) ==
  /\ open /\ c \notin Known
  /\ dropped' = dropped \cup {c}
  /\ UNCHANGED <<pending, stored, failed, open>>

Store(c) ==
  /\ c \in pending
  /\ pending' = pending \ {c}
  /\ stored' = stored \cup {c}
  /\ UNCHANGED <<failed, dropped, open>>

Refuse(c) ==
  /\ c \in pending
  /\ pending' = pending \ {c}
  /\ failed' = failed \cup {c}
  /\ UNCHANGED <<stored, dropped, open>>

Finish ==
  /\ open /\ pending = {}
  /\ open' = FALSE
  /\ UNCHANGED <<pending, stored, failed, dropped>>

LogNext ==
  \/ \E c \in Results : Accept(c) \/ Drop(c) \/ Store(c) \/ Refuse(c)
  \/ Finish

LogSpec == LogInit /\ [][LogNext]_logVars
=============================================================================
