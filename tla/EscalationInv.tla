--------------------------- MODULE EscalationInv ---------------------------
(***************************************************************************)
(* The inductive invariant behind the safety properties of Escalation: what *)
(* the copies held by a goroutine guarantee at each program counter.        *)
(***************************************************************************)
EXTENDS Escalation

\* Program counters of a goroutine that is escalating its alert.
EscalationPCs == {"attach", "enter", "save", "moveAlert", "window", "page"}

\* What a goroutine knows of the alert it works on.
ActorSound(p) ==
  /\ actor[p].pc \notin {"idle", "create"} => actor[p].alert \in Alerts
  /\ actor[p].pc \notin {"idle", "cleanup", "again", "window", "page"}
       => actor[p].row.status # "none"
  /\ actor[p].pc \in EscalationPCs
       => Exists(alerts, actor[p].alert) /\ actor[p].alert \notin bornMuted
  /\ actor[p].pc \in {"save", "moveAlert", "window", "page"} => actor[p].st.step # 0
  /\ WithinPolicy(actor[p].st)

\* An escalation state, a mute record, a page and a listed row each
\* presuppose the alert's row.
RowsSound ==
  /\ \A a \in Alerts : esc[a].step # 0 => Exists(alerts, a) /\ a \notin bornMuted
  /\ \A a \in bornMuted : Exists(alerts, a)
  /\ \A a \in Alerts, s \in Steps : <<a, s>> \in paged => Exists(alerts, a)
  /\ \A entry \in todo : entry.row.status # "none" /\ Exists(alerts, entry.id)

IInv ==
  /\ TypeOK
  /\ OneActivePerMonitor
  /\ EscalationBounded
  /\ MutedNeverPaged
  /\ \A p \in Actors : ActorSound(p)
  /\ RowsSound
=============================================================================
