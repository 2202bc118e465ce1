--------------------------- MODULE MCOrganisation ---------------------------
(***************************************************************************)
(* An instance of an organisation.  Its parts share no state: each         *)
(* behaviour is one of the part that Init chooses, and the others stay as  *)
(* they are.                                                               *)
(***************************************************************************)
EXTENDS Organisation, TLC

---------------------------------------------------------------------------
\* Settings: a policy and a monitor whose lists are replaced by two clients.
CONSTANTS policy, monitor, odd, down

TheStepLists == {<<NoState, NoState>>, <<NoState>>}
TheRuleLists == {<<odd, down>>, <<down>>, <<>>}

\* Windows: days of two slots, weeks and months of two days; windows that
\* recur, one of which crosses midnight, one ends after its start and one does
\* not occur on the day it starts, and a window that does not recur.
Shape(start, end, rec, until, days, on) ==
  [start |-> start, end |-> end, rec |-> rec, until |-> until, days |-> days,
   dom |-> 1, monitor |-> on, suppress |-> TRUE]
Once == Shape(1, 2, "", Never, {}, monitor)
Daily == Shape(1, 2, "daily", Never, {}, monitor)
Weekly == Shape(2, 3, "weekly", 2, {1}, EveryMonitor)
Monthly == [Shape(0, 0, "monthly", Never, {}, monitor) EXCEPT !.dom = 2]
Old == {Daily, Monthly}

\* In UTC, or half a day ahead of it.
In(offset, shapes) == {[win |-> win, offset |-> offset] : win \in shapes}
TheBodies == In(0, {Once}) \cup In(1, {Daily, Weekly})

---------------------------------------------------------------------------
VARIABLE part

\* One initial state is enough of a part that is not chosen.
MCInit ==
  /\ part \in {"accounts", "settings", "windows"}
  /\ OrganisationInit
  /\ part = "accounts" \/ Users \ unused = {CHOOSE u \in Users : TRUE}
  /\ part = "settings" \/ asked = CHOOSE s \in Secrets : TRUE
  /\ part = "windows" \/ \A w \in Windows : row[w] = NoWindow

MCNext ==
  /\ \/ part = "accounts" /\ AccountStep
     \/ part = "settings" /\ SettingStep
     \/ part = "windows" /\ WindowStep
  /\ UNCHANGED part

MCSpec == MCInit /\ [][MCNext]_<<part, accounts, setting, maintaining>>

\* Requests are interchangeable.
Symmetry == Permutations(Clients)
=============================================================================
