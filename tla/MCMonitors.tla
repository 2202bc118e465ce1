----------------------------- MODULE MCMonitors -----------------------------
(***************************************************************************)
(* Three monitors, of which the first one created raises alerts; a plan of *)
(* one monitor, of which there may be two at the start; two clients.       *)
(***************************************************************************)
EXTENDS Monitors
CONSTANTS m1, m2, m3, g, k1, k2
Body(on, pace, muted, group, labels_) ==
  [enabled |-> on, pace |-> pace, config |-> "http", muted |-> muted, group |-> group,
   labels |-> labels_]
SomeBodies ==
  {Body(TRUE, 1, FALSE, g, {k1, k2}), Body(TRUE, 2, TRUE, NoGroup, Keep),
   Body(FALSE, Keep, FALSE, NoGroup, {})}
ABody == Body(TRUE, 1, FALSE, g, {k1, k2})
NoneToTwo == {{}, {m1}, {m1, m2}}
=============================================================================
