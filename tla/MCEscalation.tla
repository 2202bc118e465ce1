--------------------------- MODULE MCEscalation ---------------------------
(***************************************************************************)
(* Instances of Escalation for TLC.                                        *)
(***************************************************************************)
EXTENDS EscalationInv, TLC

\* Policies: <<repeat_count of step 1, of step 2, ...>>.
OneRetry   == <<1, 0>>
ThreeSteps == <<0, 1, 0>>

\* Alert ids and goroutines are interchangeable.
Symmetry == Permutations(Alerts) \cup Permutations(Handlers)

---------------------------------------------------------------------------
(***************************************************************************)
(* What the README says, against what the code does.                       *)
(***************************************************************************)
\* "Auto-resolve to automatically close alerts when monitors recover": while
\* the monitor stays up, an alert that was closed does not fire again.  The
\* tick loop writes back the firing row it listed before the recovery.
RecoveredStaysClosed ==
  [][\A a \in Alerts :
       /\ alerts[a].status = "resolved"
       /\ alerts[a].monitor \in AutoResolveMonitors
       /\ health[alerts[a].monitor] = "up"
       => alerts'[a].status # "firing"]_vars
===========================================================================
