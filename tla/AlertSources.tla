---------------------------- MODULE AlertSources -----------------------------
(***************************************************************************)
(* What acts on alerts from outside the engine: the replies of sinks, and  *)
(* the results of checks.  The two share no state here.  Checks come in    *)
(* two settings: one worker of a process that stays up, over an empty      *)
(* table; and any workers, whose checks of one monitor overlap, of         *)
(* processes that stop or die and start again.  Each behaviour is one of   *)
(* the part that the initial state chooses.                                *)
(***************************************************************************)
EXTENDS Reply

CONSTANTS
  NoStatus,
  Probed, Heartbeats, OneWorker, MaxProbes, MaxChanges,     \* the first setting
  Shared, Pinged, Workers, OldStatus, MaxRows, MaxFlips, MaxRestarts

VARIABLES target, stored, pending, lastStatus, worker, stopping, told, baseline,
          clock, changes, restarts

Alone == INSTANCE CheckStatus WITH
  Monitors <- Probed, Workers <- {OneWorker}, MaxRows <- MaxProbes,
  OldStatus <- [m \in Probed |-> NoStatus], MaxRestarts <- 0

Overlapping == INSTANCE CheckStatus WITH
  Monitors <- Shared, Heartbeats <- Pinged, MaxChanges <- MaxFlips

ASSUME ChecksAssumption == Alone!StatusAssumption /\ Overlapping!StatusAssumption

checking == <<target, stored, pending, lastStatus, worker, stopping, told, baseline,
              clock, changes, restarts>>

---------------------------------------------------------------------------
VARIABLE part

\* One initial state is enough of a part that is not chosen.
AnyMenu == CHOOSE m \in Menus : TRUE

SourcesInit ==
  \/ part = "replies" /\ Init /\ Alone!Init
  \/ part = "alone" /\ Alone!Init /\ Init /\ menu = AnyMenu
  \/ part = "overlapping" /\ Overlapping!Init /\ Init /\ menu = AnyMenu

SourcesNext ==
  /\ \/ part = "replies" /\ Next /\ UNCHANGED checking
     \/ part = "alone" /\ Alone!Next /\ UNCHANGED vars
     \/ part = "overlapping" /\ Overlapping!Next /\ UNCHANGED vars
  /\ UNCHANGED part

SourcesSpec == SourcesInit /\ [][SourcesNext]_<<vars, checking, part>>

---------------------------------------------------------------------------
\* With one worker the last alert event agrees with the remembered status.
EventsFollowStatus == part = "alone" => Alone!TypeOK /\ Alone!EventsFollowStatus

\* Between two down rows of the pinged monitor there is an up row.
OncePerOutage == part = "alone" => Alone!OncePerOutage

\* No shutdown, crash or overlap raises an alert for a target that is up.
NoFalseAlarm ==
  [][part = "overlapping" => ~Overlapping!FalseAlarm]_<<vars, checking, part>>
=============================================================================
