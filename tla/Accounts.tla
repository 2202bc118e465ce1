------------------------------ MODULE Accounts ------------------------------
(***************************************************************************)
(* The accounts of one organisation (internal/api/handlers/users.go,       *)
(* auth.go, auth_self_service.go, auth_admin_reset.go, password_reset.go,  *)
(* account_delete.go), the links that are mailed to their holders, and the *)
(* job that removes disabled accounts and then the organisation            *)
(* (internal/jobs/account_cleanup.go).                                     *)
(*                                                                         *)
(* A handler reads the row of a user, checks, and writes later; the writes *)
(* of UserStore.Update take every column but disabled_at, which only       *)
(* Disable and Enable touch.  Email and password hash are one field, cred: *)
(* the links for a new password, for deletion and for recovery fit only    *)
(* while both are what they were.  Every account has a verified email; a   *)
(* password that must be changed only closes other requests and is left    *)
(* out, as are second factors, which this build does not have.             *)
(***************************************************************************)
EXTENDS Integers, FiniteSets

CONSTANTS
  Users, Clients,
  MaxMembers,          \* FreeMaxMembers
  Grace,               \* accountDisableGracePeriod, in units of time
  MaxTime, MaxRequests \* bounds

ASSUME AccountsAssumption ==
  /\ Grace \in Nat /\ MaxMembers \in Nat
  /\ MaxTime \in Nat \ {0} /\ MaxRequests \in Nat

VARIABLES
  now,
  org,      \* whether the row of the organisation exists
  users,    \* rows of users, or NoUser
  unused,   \* ids that have not been given yet
  session,  \* the role in the token that each user holds
  links,    \* mailed links that may still be followed
  request, sent, creds,
  cleaner,
  leaving,  \* history: accounts disabled and not recovered since
  late,     \* history: accounts that came while the cleaner had decided
  lost      \* history: active accounts that the cleaner has removed

vars == <<now, org, users, unused, session, links, request, sent, creds, cleaner,
          leaving, late, lost>>

Roles == {"owner", "admin", "member"}
NoUser == [role |-> "none", cred |-> 0, disabled |-> 0]
Row == [role : Roles, cred : Nat, disabled : 0..MaxTime]
Link == [kind : {"password", "delete", "recover"}, user : Users, cred : Nat, at : 1..MaxTime]

Exists(u) == users[u] # NoUser
Active(u) == Exists(u) /\ users[u].disabled = 0
Members == {u \in Users : Active(u)}

Idle == LET u == CHOOSE u \in Users : TRUE
        IN  [pc |-> "idle", user |-> u, row |-> NoUser, by |-> u]
Sleeping == [pc |-> "idle", todo |-> {}, at |-> {}]

TypeOK ==
  /\ now \in 1..MaxTime /\ org \in BOOLEAN
  /\ users \in [Users -> Row \cup {NoUser}]
  /\ \A u \in Users : Exists(u) => org /\ u \notin unused
  /\ session \in [Users -> Roles \cup {"none"}]
  /\ links \subseteq Link /\ \A l \in links : l.cred <= creds
  /\ request \in [Clients -> [pc : {"idle", "row", "self", "transfer", "create", "delete",
                                    "disable", "enable"},
                              user : Users, row : Row \cup {NoUser}, by : Users]]
  /\ sent \in 0..MaxRequests
  /\ cleaner.pc \in {"idle", "next", "delete", "count", "sweep", "org"}
  /\ cleaner.todo \subseteq Users /\ cleaner.at \subseteq Users
  /\ Cardinality(cleaner.at) = (IF cleaner.pc = "delete" THEN 1 ELSE 0)

\* Register has made the organisation and its owner in one transaction; others
\* have been invited since, and some of those have left.
Init ==
  /\ now = 1 /\ org = TRUE
  /\ \E o \in Users : \E others \in SUBSET (Users \ {o}) :
     \E gone \in SUBSET others : \E role \in [others -> {"admin", "member"}] :
       /\ users = [u \in Users |->
                     IF u \in {o} \cup others
                     THEN [role     |-> IF u = o THEN "owner" ELSE role[u],
                           cred     |-> 1,
                           disabled |-> IF u \in gone THEN 1 ELSE 0]
                     ELSE NoUser]
       /\ unused = Users \ ({o} \cup others)
       /\ leaving = gone
  /\ session = [u \in Users |-> users[u].role]
  /\ links = {} /\ sent = 0 /\ creds = 1
  /\ request = [c \in Clients |-> Idle]
  /\ cleaner = Sleeping
  /\ late = {} /\ lost = {}

---------------------------------------------------------------------------
(***************************************************************************)
(* Requests.                                                               *)
(***************************************************************************)
history == <<leaving, late, lost>>
UsesRequest == sent < MaxRequests /\ sent' = sent + 1
GoTo(c, pc, u, row, by) ==
  request' = [request EXCEPT ![c] = [pc |-> pc, user |-> u, row |-> row, by |-> by]]
End(c) == request' = [request EXCEPT ![c] = Idle]
Begin(c, pc, u, row, by) ==
  UsesRequest /\ request[c].pc = "idle" /\ GoTo(c, pc, u, row, by)

\* Auth and DisabledAccountGuard: a token, and an account that is not disabled.
SignedIn(a) == session[a] # "none" /\ Active(a)
Manages(a) == SignedIn(a) /\ session[a] \in {"owner", "admin"}

\* Login and Refresh, for an account that is not disabled.
Login(u) ==
  /\ Active(u) /\ session[u] # users[u].role
  /\ session' = [session EXCEPT ![u] = users[u].role]
  /\ UNCHANGED <<now, org, users, unused, links, request, sent, creds, cleaner, history>>

Renewed(row) == [row EXCEPT !.cred = creds + 1]

\* What PATCH /users may make of a row: a new name leaves it, a new email not.
Edits(a, u) ==
  {users[u], Renewed(users[u])} \cup
  {[users[u] EXCEPT !.role = r] :
     r \in IF users[u].role = "owner" THEN {}
           ELSE {"member"} \cup IF session[a] = "owner" THEN {"admin"} ELSE {}}

Rewrite(c, pc, u, row) ==
  /\ Begin(c, pc, u, row, u)
  /\ creds' = IF row.cred > creds THEN row.cred ELSE creds
  /\ UNCHANGED <<now, org, users, unused, session, links, cleaner, history>>

ReadToUpdate(c, a, u) ==
  /\ Manages(a) /\ Exists(u)
  /\ \E row \in Edits(a, u) : Rewrite(c, "row", u, row)

\* UserHandler.ResetPassword.
ReadToReset(c, a, u) ==
  /\ Manages(a) /\ Exists(u) /\ users[u].role # "owner"
  /\ Rewrite(c, "row", u, Renewed(users[u]))

\* ChangePassword and ChangeEmail; they answer with a new token.
ReadSelf(c, u) == SignedIn(u) /\ Rewrite(c, "self", u, Renewed(users[u]))

BugWritten(row, old) == row
Written(row, old) == [row EXCEPT !.disabled = old.disabled]

WriteRow(c) ==
  LET r == request[c] IN
  /\ r.pc \in {"row", "self"}
  /\ IF Exists(r.user)
     THEN /\ users' = [users EXCEPT ![r.user] = Written(r.row, @)]
          /\ session' = IF r.pc = "self" THEN [session EXCEPT ![r.user] = r.row.role]
                        ELSE session
     ELSE UNCHANGED <<users, session>>
  /\ End(c)
  /\ UNCHANGED <<now, org, unused, links, sent, creds, cleaner, history>>

ReadToTransfer(c, a, u) ==
  /\ SignedIn(a) /\ session[a] = "owner" /\ u # a
  /\ Exists(u) /\ users[u].role = "admin"
  /\ Begin(c, "transfer", u, [users[u] EXCEPT !.role = "owner"], a)
  /\ UNCHANGED <<now, org, users, unused, session, links, creds, cleaner, history>>

\* One transaction; the caller's row is read in it, the other was read before.
Transfer(c) ==
  LET r == request[c] IN
  /\ r.pc = "transfer"
  /\ users' = IF Exists(r.user) /\ Exists(r.by)
              THEN [users EXCEPT ![r.user] = Written(r.row, @), ![r.by].role = "admin"]
              ELSE users
  /\ End(c)
  /\ UNCHANGED <<now, org, unused, session, links, sent, creds, cleaner, history>>

\* The free plan's members are counted first.
ReadToCreate(c, a, u, role) ==
  /\ Manages(a) /\ u \in unused /\ org
  /\ Cardinality(Members) < MaxMembers
  /\ Begin(c, "create", u, [role |-> role, cred |-> creds, disabled |-> 0], a)
  /\ UNCHANGED <<now, org, users, unused, session, links, creds, cleaner, history>>

Deciding(u) ==
  \/ cleaner.pc = "delete" /\ cleaner.at = {u}
  \/ cleaner.pc = "sweep"

\* The insert needs the organisation; a fresh id stands for a fresh email.
Create(c) ==
  LET r == request[c] IN
  /\ r.pc = "create"
  /\ IF org /\ r.user \in unused
     THEN /\ users' = [users EXCEPT ![r.user] = r.row]
          /\ unused' = unused \ {r.user}
          /\ late' = IF Deciding(r.user) THEN late \cup {r.user} ELSE late
     ELSE UNCHANGED <<users, unused, late>>
  /\ End(c)
  /\ UNCHANGED <<now, org, session, links, sent, creds, cleaner, leaving, lost>>

ReadToDelete(c, a, u) ==
  /\ Manages(a) /\ u # a /\ Exists(u) /\ users[u].role # "owner"
  /\ Begin(c, "delete", u, NoUser, a)
  /\ UNCHANGED <<now, org, users, unused, session, links, creds, cleaner, history>>

Delete(c) ==
  LET r == request[c] IN
  /\ r.pc = "delete"
  /\ users' = [users EXCEPT ![r.user] = NoUser]
  /\ End(c)
  /\ UNCHANGED <<now, org, unused, session, links, sent, creds, cleaner, history>>

---------------------------------------------------------------------------
(***************************************************************************)
(* Links.                                                                  *)
(***************************************************************************)
\* An owner leaves only as the last member.
MayLeave(u) == users[u].role = "owner" => Members \subseteq {u}

Mail(kind, u) ==
  /\ UsesRequest
  /\ links' = links \cup {[kind |-> kind, user |-> u, cred |-> users[u].cred, at |-> now]}
  /\ UNCHANGED <<now, org, users, unused, session, request, creds, cleaner, history>>

ForgotPassword(u) == Exists(u) /\ Mail("password", u)
RequestDeletion(u) == SignedIn(u) /\ MayLeave(u) /\ Mail("delete", u)
RequestRecovery(u) == Exists(u) /\ ~Active(u) /\ Mail("recover", u)

Fits(l) == Exists(l.user) /\ users[l.user].cred = l.cred

\* PasswordResetHandler.ResetPassword.
FollowReset(c, l) ==
  /\ l \in links /\ l.kind = "password" /\ Fits(l)
  /\ Rewrite(c, "row", l.user, Renewed(users[l.user]))

\* ConfirmDeletion and ConfirmRecovery check, and write one column.
FollowDelete(c, l) ==
  /\ l \in links /\ l.kind = "delete" /\ Fits(l)
  /\ Active(l.user) /\ MayLeave(l.user)
  /\ Begin(c, "disable", l.user, NoUser, l.user)
  /\ UNCHANGED <<now, org, users, unused, session, links, creds, cleaner, history>>

FollowRecover(c, l) ==
  /\ l \in links /\ l.kind = "recover" /\ Fits(l)
  /\ ~Active(l.user)
  /\ Begin(c, "enable", l.user, NoUser, l.user)
  /\ UNCHANGED <<now, org, users, unused, session, links, creds, cleaner, history>>

Disable(c) ==
  LET u == request[c].user IN
  /\ request[c].pc = "disable"
  /\ IF Active(u)
     THEN /\ users' = [users EXCEPT ![u].disabled = now]
          /\ leaving' = leaving \cup {u}
     ELSE UNCHANGED <<users, leaving>>
  /\ End(c)
  /\ UNCHANGED <<now, org, unused, session, links, sent, creds, cleaner, late, lost>>

Enable(c) ==
  LET u == request[c].user IN
  /\ request[c].pc = "enable"
  /\ IF Exists(u)
     THEN /\ users' = [users EXCEPT ![u].disabled = 0]
          /\ leaving' = leaving \ {u}
          /\ late' = IF Deciding(u) THEN late \cup {u} ELSE late
     ELSE UNCHANGED <<users, leaving, late>>
  /\ End(c)
  /\ UNCHANGED <<now, org, unused, session, links, sent, creds, cleaner, lost>>

\* The statement fails or the client goes away.
Fail(c) ==
  /\ request[c].pc # "idle" /\ End(c)
  /\ UNCHANGED <<now, org, users, unused, session, links, sent, creds, cleaner, history>>

---------------------------------------------------------------------------
(***************************************************************************)
(* cleanupDisabledAccounts, at the start of the process and every hour.    *)
(***************************************************************************)
requests == <<unused, session, links, request, sent, creds>>

ListDisabled ==
  /\ cleaner.pc = "idle"
  /\ cleaner' = [pc |-> "next", at |-> {},
                 todo |-> {u \in Users : /\ Exists(u) /\ ~Active(u)
                                         /\ users[u].disabled + Grace < now}]
  /\ cleaner'.todo # {}
  /\ UNCHANGED <<now, org, users, requests, history>>

BugStillDisabled(u) == Exists(u)
StillDisabled(u) == Exists(u) /\ ~Active(u)

\* "Re-fetch to guard against race with recovery".
Refetch(u) ==
  /\ cleaner.pc = "next" /\ u \in cleaner.todo
  /\ cleaner' = [pc |-> IF StillDisabled(u) THEN "delete" ELSE "next",
                 at |-> IF StillDisabled(u) THEN {u} ELSE {},
                 todo |-> cleaner.todo \ {u}]
  /\ UNCHANGED <<now, org, users, requests, history>>

ListEnds ==
  /\ cleaner.pc = "next" /\ cleaner.todo = {}
  /\ cleaner' = Sleeping
  /\ UNCHANGED <<now, org, users, requests, history>>

\* Without a row to delete the next account is due.
DeleteDisabled ==
  /\ cleaner.pc = "delete"
  /\ \E u \in cleaner.at :
       /\ users' = [users EXCEPT ![u] = NoUser]
       /\ lost' = IF Active(u) THEN lost \cup {u} ELSE lost
       /\ cleaner' = [cleaner EXCEPT !.pc = IF Exists(u) THEN "count" ELSE "next", !.at = {}]
  /\ UNCHANGED <<now, org, requests, leaving, late>>

\* ListByOrg shows active accounts only.
CountRemaining ==
  /\ cleaner.pc = "count"
  /\ cleaner' = [cleaner EXCEPT !.pc = IF Members = {} THEN "sweep" ELSE "next"]
  /\ UNCHANGED <<now, org, users, requests, history>>

\* OrgStore.Delete takes what belongs to the organisation, users included...
DeleteOrgUsers ==
  /\ cleaner.pc = "sweep"
  /\ users' = [u \in Users |-> NoUser]
  /\ lost' = lost \cup Members
  /\ cleaner' = [cleaner EXCEPT !.pc = "org"]
  /\ UNCHANGED <<now, org, requests, leaving, late>>

\* ... and its row, which a reference to it keeps.
Referenced == \E u \in Users : Exists(u)

DeleteOrg ==
  /\ cleaner.pc = "org"
  /\ org' = (org /\ Referenced)
  /\ cleaner' = [cleaner EXCEPT !.pc = "next"]
  /\ UNCHANGED <<now, users, requests, history>>

\* A statement fails and the next account is due, or the process ends.
CleanerFails ==
  /\ cleaner.pc # "idle"
  /\ cleaner' \in {Sleeping, [cleaner EXCEPT !.pc = "next", !.at = {}]}
  /\ UNCHANGED <<now, org, users, requests, history>>

\* A unit is longer than a link is good for: one may still be followed in the
\* unit after the one it was mailed in.
Tick ==
  /\ now < MaxTime
  /\ now' = now + 1
  /\ links' = {l \in links : l.at = now}
  /\ UNCHANGED <<org, users, unused, session, request, sent, creds, cleaner, history>>

Next ==
  \/ \E c \in Clients :
       \/ \E a, u \in Users :
            \/ ReadToUpdate(c, a, u) \/ ReadToReset(c, a, u) \/ ReadToTransfer(c, a, u)
            \/ ReadToDelete(c, a, u)
            \/ \E role \in Roles : ReadToCreate(c, a, u, role)
       \/ \E u \in Users : ReadSelf(c, u)
       \/ \E l \in links : FollowReset(c, l) \/ FollowDelete(c, l) \/ FollowRecover(c, l)
       \/ WriteRow(c) \/ Transfer(c) \/ Create(c) \/ Delete(c)
       \/ Disable(c) \/ Enable(c) \/ Fail(c)
  \/ \E u \in Users : \/ Login(u) \/ ForgotPassword(u) \/ RequestDeletion(u)
                      \/ RequestRecovery(u) \/ Refetch(u)
  \/ ListDisabled \/ ListEnds \/ DeleteDisabled \/ CountRemaining
  \/ DeleteOrgUsers \/ DeleteOrg \/ CleanerFails
  \/ Tick

Spec == Init /\ [][Next]_vars

---------------------------------------------------------------------------
\* "Re-fetch to guard against race with recovery": the cleanup never removes an
\* account that works, except one that was recovered or made when the cleanup
\* had read its row, or had counted the members, and had not yet deleted.
RecoveredIsKept == lost \subseteq late

\* An account whose deletion was confirmed stays disabled until it is
\* recovered, and one that was recovered stays enabled, whichever copies of its
\* row other requests write back meanwhile.
DisabledStays == \A u \in Users : Exists(u) => (Active(u) <=> u \notin leaving)

\* "hard-deletes user accounts that have been disabled for longer than 96
\* hours": an account that the cleanup takes while it is disabled has been so
\* for longer than the grace period.
GracePeriodKept ==
  [][cleaner' # cleaner =>
       \A u \in Users : Exists(u) /\ ~Active(u) /\ users'[u] = NoUser
                        => users[u].disabled + Grace < now]_vars
=============================================================================
