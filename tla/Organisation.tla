---------------------------- MODULE Organisation ----------------------------
(***************************************************************************)
(* What the members of an organisation look after: their accounts, its     *)
(* settings and its maintenance windows.  The three parts share no state,  *)
(* so that their steps interleave freely.  What a property of one part     *)
(* says is in the part's own module.                                       *)
(***************************************************************************)
EXTENDS Accounts, Sequences

CONSTANTS
  Policies, RuledMonitors, StepLists, RuleLists, Builtins, Customs, NoState,
  Secrets, NoSecret, Mask, MaxChanges,
  Windows, Monitors, EveryMonitor, Initial, Bodies, NoWindow, Never, DayLen, WeekLen, MonthLen,
  MaxSlot, MaxVisits, MaxUpsets

VARIABLES
  owners, items, states, channel, view, change, changes, goal, torn, cut, asked,
  overtaken, removed,
  slot, row, visit, visits, known, list, told, current, unsure, upsets

accounts == vars
setting == <<owners, items, states, channel, view, change, changes, goal, torn, cut, asked,
             overtaken, removed>>
maintaining == <<slot, row, visit, visits, known, list, told, current, unsure, upsets>>

Setting == INSTANCE Settings WITH
  MaxRequests <- MaxChanges, request <- change, sent <- changes

Maintaining == INSTANCE Maintenance WITH
  MaxTime <- MaxSlot, MaxRequests <- MaxVisits, now <- slot, request <- visit,
  sent <- visits

ASSUME PartsAssumption == Setting!SettingsAssumption /\ Maintaining!MaintenanceAssumption

---------------------------------------------------------------------------
OrganisationInit == Init /\ Setting!Init /\ Maintaining!Init

AccountStep == Next /\ UNCHANGED <<setting, maintaining>>
SettingStep == Setting!Next /\ UNCHANGED <<accounts, maintaining>>
WindowStep == Maintaining!Next /\ UNCHANGED <<accounts, setting>>

OrganisationSpec ==
  /\ OrganisationInit
  /\ [][AccountStep \/ SettingStep \/ WindowStep]_<<accounts, setting, maintaining>>

---------------------------------------------------------------------------
\* The states of the three parts are well formed: users belong to an
\* organisation, rules to states and steps to policies that exist.
Types == TypeOK /\ Setting!TypeOK /\ Maintaining!TypeOK

\* A list is that of one request, unless two replace it at once, and a secret
\* outlives the writes of clients that were only shown its mask.
SettingsKept == Setting!ListsOfOneRequest /\ Setting!SecretsKept

\* A window is active in its occurrences and pages are suppressed exactly
\* while a window of the monitor itself is active.
SuppressedWhileActive ==
  Maintaining!ActiveInOccurrences /\ Maintaining!SuppressedWhileActive

\* The last event of a window says whether it is active.
EventsFollowWindows == Maintaining!EventsFollowWindows
=============================================================================
