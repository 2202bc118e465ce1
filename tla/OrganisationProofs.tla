------------------------- MODULE OrganisationProofs -------------------------
(***************************************************************************)
(* What the members of an organisation look after, for any users, clients, *)
(* lists, windows and bounds: accounts that recover are kept and disabled  *)
(* ones stay so; lists are of one request and secrets survive; windows are *)
(* active when they occur, and their last event says so.                   *)
(***************************************************************************)
EXTENDS Organisation, FiniteSetTheorems, TLAPS

(***************************************************************************)
(* ACCOUNTS                                                                *)
(***************************************************************************)
RequestState ==
  [pc : {"idle", "row", "self", "transfer", "create", "delete", "disable", "enable"},
   user : Users, row : Row \cup {NoUser}, by : Users]
CleanerState ==
  [pc : {"idle", "next", "delete", "count", "sweep", "org"},
   todo : SUBSET Users, at : SUBSET Users]

\* A request that has read a row, or makes one, carries it.
CarriesRow(r) ==
  /\ r.pc \in {"row", "self", "transfer", "create"} => r.row \in Row
  /\ r.pc = "create" => r.row.disabled = 0

\* No row, stored or carried, has credentials that were not given out.
Carried ==
  /\ creds \in Nat
  /\ \A u \in Users : users[u].cred <= creds
  /\ \A c \in Clients : request[c].row.cred <= creds /\ CarriesRow(request[c])
  /\ leaving \subseteq Users /\ unused \subseteq Users

\* The account that the cleaner is about to delete.
Aimed ==
  /\ cleaner \in CleanerState
  /\ IF cleaner.pc = "delete" THEN \E u \in Users : cleaner.at = {u} ELSE cleaner.at = {}

\* What the cleaner has seen of an account is true still, or the account has
\* come since.
Kept ==
  /\ cleaner.pc = "delete" => \A u \in cleaner.at : Active(u) => u \in late
  /\ cleaner.pc = "sweep" => Members \subseteq late
  /\ RecoveredIsKept

\* Nobody has left whose id is still to be given.
Left == unused \cap leaving = {} /\ DisabledStays

AInv == TypeOK /\ Carried /\ Aimed /\ Kept /\ Left

---------------------------------------------------------------------------
LEMMA RowIsUser ==
  ASSUME NEW r \in Row
  PROVE  /\ r # NoUser
         /\ r.role \in Roles /\ r.cred \in Nat /\ r.disabled \in 0..MaxTime
BY DEF Row, NoUser, Roles

LEMMA CredOf == ASSUME NEW r \in Row \cup {NoUser} PROVE r.cred \in Nat
BY DEF Row, NoUser

LEMMA NoUserIsNone == NoUser.cred = 0 /\ NoUser.role = "none" /\ NoUser \notin Row
BY DEF NoUser, Row, Roles

LEMMA ExistsIsRow ==
  ASSUME TypeOK, NEW u \in Users PROVE Exists(u) <=> users[u] \in Row
BY RowIsUser DEF TypeOK, Exists

LEMMA WrittenIsRow ==
  ASSUME NEW r \in Row, NEW s \in Row
  PROVE  /\ Written(r, s) \in Row /\ Written(r, s).cred = r.cred
         /\ Written(r, s).disabled = s.disabled
BY DEF Written, Row

LEMMA RenewedIsRow ==
  ASSUME NEW r \in Row, creds \in Nat
  PROVE  Renewed(r) \in Row /\ Renewed(r).cred = creds + 1
BY DEF Renewed, Row

LEMMA WithRole ==
  ASSUME NEW r \in Row, NEW x \in Roles
  PROVE  LET s == [r EXCEPT !.role = x] IN
         s \in Row /\ s.cred = r.cred /\ s.disabled = r.disabled
BY DEF Row

LEMMA WithDisabled ==
  ASSUME NEW r \in Row, NEW d \in 0..MaxTime
  PROVE  LET s == [r EXCEPT !.disabled = d] IN
         s \in Row /\ s.cred = r.cred /\ s.disabled = d
BY DEF Row

LEMMA SizeOfAim == Aimed => Cardinality(cleaner.at) = (IF cleaner.pc = "delete" THEN 1 ELSE 0)
BY FS_Singleton, FS_EmptySet DEF Aimed

LEMMA AnyUser ==
  ASSUME TypeOK, NEW c \in Clients
  PROVE  /\ Idle \in RequestState /\ Idle.pc = "idle" /\ Idle.row = NoUser
         /\ request \in [Clients -> RequestState]
<1>1. request \in [Clients -> RequestState]
  BY DEF TypeOK, RequestState
<1>2. (CHOOSE u \in Users : TRUE) \in Users
  BY <1>1 DEF RequestState
<1> QED BY <1>1, <1>2 DEF Idle, RequestState

---------------------------------------------------------------------------
(***************************************************************************)
(* Steps that leave the members as they are.                               *)
(***************************************************************************)
\* Members come and go as before, and stay as enabled as they were.
LEMMA StayAsEnabled ==
  ASSUME TypeOK, Kept, Left, UNCHANGED <<unused, cleaner, history>>,
         \A u \in Users : Exists(u)' => Exists(u) /\ users'[u].disabled = users[u].disabled
  PROVE  Kept' /\ Left'
<1>1. \A u \in Users : Active(u)' => Active(u)
  BY DEF Active
<1>2. \A u \in Users : Exists(u)' => Exists(u) /\ (Active(u)' <=> Active(u))
  BY DEF Active
<1>3. Kept'
  <2>1. Members' \subseteq Members
    BY <1>1 DEF Members
  <2>2. cleaner.pc = "delete" => \A u \in cleaner.at : Active(u)' => u \in late
    BY <1>1 DEF Kept, TypeOK
  <2> QED BY <2>1, <2>2 DEF Kept, RecoveredIsKept, history
<1>4. Left'
  BY <1>2 DEF Left, DisabledStays, history
<1> QED BY <1>3, <1>4

LEMMA Turned ==
  ASSUME TypeOK, Carried, NEW c \in Clients, NEW r \in RequestState,
         request' = [request EXCEPT ![c] = r], creds' \in Nat, creds <= creds',
         r.row.cred <= creds', CarriesRow(r)
  PROVE  /\ request' \in [Clients -> RequestState]
         /\ \A d \in Clients : request'[d].row.cred <= creds' /\ CarriesRow(request'[d])
<1>1. request \in [Clients -> RequestState]
  BY AnyUser
<1>2. request' \in [Clients -> RequestState]
      /\ \A d \in Clients : request'[d] = IF d = c THEN r ELSE request[d]
  BY <1>1
<1>3. ASSUME NEW d \in Clients PROVE request[d].row.cred <= creds'
  <2>1. request[d].row.cred \in Nat
    BY <1>1, CredOf DEF RequestState
  <2>2. request[d].row.cred <= creds
    BY DEF Carried
  <2> QED BY <2>1, <2>2 DEF Carried
<1>4. ASSUME NEW d \in Clients
      PROVE  request'[d].row.cred <= creds' /\ CarriesRow(request'[d])
  <2>1. CASE d = c
    BY <1>2, <2>1
  <2>2. CASE d # c
    <3>1. request'[d] = request[d]
      BY <1>2, <2>2
    <3> QED BY <1>3, <3>1 DEF Carried
  <2> QED BY <2>1, <2>2
<1> QED BY <1>2, <1>4

LEMMA CredsGrow ==
  ASSUME TypeOK, Carried, creds' \in Nat, creds <= creds', NEW u \in Users
  PROVE  users[u].cred <= creds'
<1>1. users[u].cred \in Nat
  BY CredOf DEF TypeOK
<1> QED BY <1>1 DEF Carried

\* A request ends, and takes the row it carried with it.
LEMMA Ended ==
  ASSUME TypeOK, Carried, NEW c \in Clients, End(c), UNCHANGED creds
  PROVE  /\ request' \in [Clients -> RequestState]
         /\ \A d \in Clients : request'[d].row.cred <= creds' /\ CarriesRow(request'[d])
<1>1. Idle \in RequestState /\ Idle.pc = "idle" /\ Idle.row = NoUser
  BY AnyUser
<1>2. creds' \in Nat /\ creds <= creds' /\ Idle.row.cred <= creds'
  BY <1>1, NoUserIsNone DEF Carried
<1>3. CarriesRow(Idle)
  BY <1>1 DEF CarriesRow
<1> HIDE DEF Idle
<1> QED BY <1>1, <1>2, <1>3, Turned DEF End

\* A request begins with what it has read.
LEMMA Begun ==
  ASSUME AInv, NEW c \in Clients,
         NEW pc \in {"row", "self", "transfer", "create", "delete", "disable", "enable"},
         NEW u \in Users, NEW r \in Row \cup {NoUser}, NEW by \in Users,
         Begin(c, pc, u, r, by), creds' \in Nat, creds <= creds', r.cred <= creds',
         pc \in {"row", "self", "transfer", "create"} => r \in Row,
         pc = "create" => r.disabled = 0,
         UNCHANGED <<now, org, users, unused, session, links, cleaner, history>>
  PROVE  AInv'
<1> DEFINE x == [pc |-> pc, user |-> u, row |-> r, by |-> by]
<1>1. x \in RequestState /\ x.row = r /\ x.pc = pc /\ CarriesRow(x)
  BY DEF RequestState, CarriesRow
<1>2. request' = [request EXCEPT ![c] = x] /\ sent < MaxRequests /\ sent' = sent + 1
  BY DEF Begin, GoTo, UsesRequest
<1> HIDE DEF x
<1>3. /\ request' \in [Clients -> RequestState]
      /\ \A d \in Clients : request'[d].row.cred <= creds' /\ CarriesRow(request'[d])
  BY <1>1, <1>2, Turned DEF AInv
<1>4. sent' \in 0..MaxRequests
  BY <1>2, AccountsAssumption DEF AInv, TypeOK
<1>5. ASSUME NEW l \in links PROVE l.cred <= creds'
  BY <1>5 DEF AInv, TypeOK, Carried, Link
<1>6. TypeOK'
  BY <1>3, <1>4, <1>5 DEF AInv, TypeOK, RequestState, Exists
<1>7. Carried'
  BY <1>3, CredsGrow DEF AInv, Carried, history
<1>8. Aimed'
  BY DEF AInv, Aimed
<1>9. Kept' /\ Left'
  BY StayAsEnabled DEF AInv, Exists
<1> QED BY <1>6, <1>7, <1>8, <1>9 DEF AInv

---------------------------------------------------------------------------
(***************************************************************************)
(* The first statements of the requests.                                   *)
(***************************************************************************)
LEMMA RewriteSafe ==
  ASSUME AInv, NEW c \in Clients, NEW u \in Users, NEW r \in Row, NEW pc \in {"row", "self"},
         r.cred <= creds \/ r.cred = creds + 1, Rewrite(c, pc, u, r)
  PROVE  AInv'
<1>1. creds \in Nat /\ r.cred \in Nat
  BY RowIsUser DEF AInv, Carried
<1>2. creds' \in Nat /\ creds <= creds' /\ r.cred <= creds'
  BY <1>1 DEF Rewrite
<1> QED BY <1>2, Begun DEF Rewrite

LEMMA EditsAreRows ==
  ASSUME AInv, NEW a \in Users, NEW u \in Users, Exists(u), NEW r \in Edits(a, u)
  PROVE  r \in Row /\ (r.cred <= creds \/ r.cred = creds + 1)
<1>1. users[u] \in Row /\ users[u].cred <= creds /\ creds \in Nat
  BY ExistsIsRow DEF AInv, Carried
<1>2. CASE r = users[u]
  BY <1>1, <1>2
<1>3. CASE r = Renewed(users[u])
  BY <1>1, <1>3, RenewedIsRow
<1>4. ASSUME NEW x \in Roles, r = [users[u] EXCEPT !.role = x]
      PROVE  r \in Row /\ (r.cred <= creds \/ r.cred = creds + 1)
  BY <1>1, <1>4, WithRole
<1> QED BY <1>2, <1>3, <1>4 DEF Edits, Roles

LEMMA RenewedFits ==
  ASSUME AInv, NEW u \in Users, Exists(u)
  PROVE  Renewed(users[u]) \in Row /\ Renewed(users[u]).cred = creds + 1
BY ExistsIsRow, RenewedIsRow DEF AInv, Carried

LEMMA ReadsSafe ==
  ASSUME AInv, NEW c \in Clients, NEW a \in Users, NEW u \in Users,
         ReadToUpdate(c, a, u) \/ ReadToReset(c, a, u) \/ ReadSelf(c, u)
  PROVE  AInv'
<1>1. CASE ReadToUpdate(c, a, u)
  <2>1. PICK r \in Edits(a, u) : Exists(u) /\ Rewrite(c, "row", u, r)
    BY <1>1 DEF ReadToUpdate
  <2> QED BY <2>1, EditsAreRows, RewriteSafe
<1>2. CASE ReadToReset(c, a, u)
  BY <1>2, RenewedFits, RewriteSafe DEF ReadToReset
<1>3. CASE ReadSelf(c, u)
  BY <1>3, RenewedFits, RewriteSafe DEF ReadSelf, SignedIn, Active
<1> QED BY <1>1, <1>2, <1>3

LEMMA ReadOthersSafe ==
  ASSUME AInv, NEW c \in Clients, NEW a \in Users, NEW u \in Users,
         \/ ReadToTransfer(c, a, u) \/ ReadToDelete(c, a, u)
         \/ \E role \in Roles : ReadToCreate(c, a, u, role)
  PROVE  AInv'
<1>0. creds \in Nat /\ NoUser.cred <= creds /\ NoUser \in Row \cup {NoUser}
  BY NoUserIsNone DEF AInv, Carried
<1>1. CASE ReadToTransfer(c, a, u)
  <2>1. users[u] \in Row /\ users[u].cred <= creds
    BY <1>1, ExistsIsRow DEF AInv, Carried, ReadToTransfer
  <2> DEFINE r == [users[u] EXCEPT !.role = "owner"]
  <2>2. r \in Row /\ r.cred <= creds
    BY <2>1, WithRole DEF Roles
  <2>3. Begin(c, "transfer", u, r, a)
        /\ UNCHANGED <<now, org, users, unused, session, links, creds, cleaner, history>>
    BY <1>1 DEF ReadToTransfer
  <2> HIDE DEF r
  <2> QED BY <1>0, <2>2, <2>3, Begun
<1>2. CASE ReadToDelete(c, a, u)
  BY <1>0, <1>2, Begun DEF ReadToDelete
<1>3. ASSUME NEW role \in Roles, ReadToCreate(c, a, u, role) PROVE AInv'
  <2> DEFINE r == [role |-> role, cred |-> creds, disabled |-> 0]
  <2>1. r \in Row /\ r.cred <= creds /\ r.disabled = 0
    BY <1>0, AccountsAssumption DEF Row
  <2>2. Begin(c, "create", u, r, a)
        /\ UNCHANGED <<now, org, users, unused, session, links, creds, cleaner, history>>
    BY <1>3 DEF ReadToCreate
  <2> HIDE DEF r
  <2> QED BY <1>0, <2>1, <2>2, Begun
<1> QED BY <1>1, <1>2, <1>3

LEMMA FollowSafe ==
  ASSUME AInv, NEW c \in Clients, NEW l \in links,
         FollowReset(c, l) \/ FollowDelete(c, l) \/ FollowRecover(c, l)
  PROVE  AInv'
<1>1. l.user \in Users
  BY DEF AInv, TypeOK, Link
<1>2. creds \in Nat /\ NoUser.cred <= creds /\ NoUser \in Row \cup {NoUser}
  BY NoUserIsNone DEF AInv, Carried
<1>3. CASE FollowReset(c, l)
  BY <1>1, <1>3, RenewedFits, RewriteSafe DEF FollowReset, Fits
<1>4. CASE FollowDelete(c, l)
  BY <1>1, <1>2, <1>4, Begun DEF FollowDelete
<1>5. CASE FollowRecover(c, l)
  BY <1>1, <1>2, <1>5, Begun DEF FollowRecover
<1> QED BY <1>3, <1>4, <1>5

---------------------------------------------------------------------------
(***************************************************************************)
(* Writes that take every column but disabled_at, and deletions.           *)
(***************************************************************************)
\* The request of c ends; what it has made of the rows is as it says.
LEMMA RowsWritten ==
  ASSUME AInv, NEW c \in Clients, End(c),
         UNCHANGED <<now, org, unused, links, sent, creds, cleaner, history>>,
         session' \in [Users -> Roles \cup {"none"}],
         users' \in [Users -> Row \cup {NoUser}],
         \A u \in Users :
           /\ users'[u].cred <= creds
           /\ Exists(u)' => Exists(u) /\ users'[u].disabled = users[u].disabled
  PROVE  AInv'
<1>1. /\ request' \in [Clients -> RequestState]
      /\ \A d \in Clients : request'[d].row.cred <= creds' /\ CarriesRow(request'[d])
  BY Ended DEF AInv
<1>2. TypeOK'
  BY <1>1 DEF AInv, TypeOK, RequestState
<1>3. Carried' /\ Aimed'
  BY <1>1 DEF AInv, Carried, Aimed, history
<1>4. Kept' /\ Left'
  BY StayAsEnabled DEF AInv
<1> QED BY <1>2, <1>3, <1>4 DEF AInv

LEMMA WriteRowSafe == ASSUME AInv, NEW c \in Clients, WriteRow(c) PROVE AInv'
<1> DEFINE r == request[c]
<1>1. r \in RequestState /\ r.row \in Row /\ r.row.cred <= creds /\ r.user \in Users
  BY AnyUser DEF AInv, Carried, CarriesRow, WriteRow, RequestState
<1>2. End(c) /\ UNCHANGED <<now, org, unused, links, sent, creds, cleaner, history>>
  BY DEF WriteRow
<1>3. CASE Exists(r.user)
  <2> DEFINE x == Written(r.row, users[r.user])
  <2>1. users[r.user] \in Row
    BY <1>1, <1>3, ExistsIsRow DEF AInv
  <2>2. x \in Row /\ x.cred <= creds /\ x.disabled = users[r.user].disabled
    BY <1>1, <2>1, WrittenIsRow
  <2>3. users' = [users EXCEPT ![r.user] = x]
    BY <1>3 DEF WriteRow
  <2>4. session' \in [Users -> Roles \cup {"none"}]
    <3>1. r.row.role \in Roles
      BY <1>1, RowIsUser
    <3> QED BY <1>1, <1>3, <3>1 DEF WriteRow, AInv, TypeOK
  <2> HIDE DEF x, r
  <2>5. users' \in [Users -> Row \cup {NoUser}]
        /\ \A u \in Users : users'[u] = IF u = r.user THEN x ELSE users[u]
    BY <2>2, <2>3 DEF AInv, TypeOK
  <2>6. \A u \in Users :
          /\ users'[u].cred <= creds
          /\ Exists(u)' => Exists(u) /\ users'[u].disabled = users[u].disabled
    BY <1>3, <2>2, <2>5 DEF AInv, Carried, Exists
  <2> QED BY <1>2, <2>4, <2>5, <2>6, RowsWritten
<1>4. CASE ~Exists(r.user)
  <2>1. UNCHANGED <<users, session>>
    BY <1>4 DEF WriteRow
  <2> QED BY <1>2, <2>1, RowsWritten DEF AInv, TypeOK, Carried, Exists
<1> QED BY <1>3, <1>4

LEMMA TransferSafe == ASSUME AInv, NEW c \in Clients, Transfer(c) PROVE AInv'
<1> DEFINE r == request[c]
<1>1. r \in RequestState /\ r.row \in Row /\ r.row.cred <= creds
      /\ r.user \in Users /\ r.by \in Users
  BY AnyUser DEF AInv, Carried, CarriesRow, Transfer, RequestState
<1>2. End(c) /\ UNCHANGED <<now, org, unused, links, sent, creds, cleaner, history>>
      /\ UNCHANGED session
  BY DEF Transfer
<1>3. CASE Exists(r.user) /\ Exists(r.by)
  <2> DEFINE x == Written(r.row, users[r.user])
             step == [users EXCEPT ![r.user] = x]
             y == [step[r.by] EXCEPT !.role = "admin"]
  <2>1. users[r.user] \in Row /\ users[r.by] \in Row
    BY <1>1, <1>3, ExistsIsRow DEF AInv
  <2>2. x \in Row /\ x.cred <= creds /\ x.disabled = users[r.user].disabled
    BY <1>1, <2>1, WrittenIsRow
  <2>3. users' = [step EXCEPT ![r.by] = y]
    BY <1>3 DEF Transfer
  <2> HIDE DEF x, r
  <2>4. step \in [Users -> Row \cup {NoUser}]
        /\ \A u \in Users : step[u] = IF u = r.user THEN x ELSE users[u]
    BY <2>2 DEF AInv, TypeOK
  <2> HIDE DEF step
  <2>5. step[r.by] \in Row /\ step[r.by].cred <= creds
        /\ step[r.by].disabled = users[r.by].disabled
    BY <1>1, <2>1, <2>2, <2>4 DEF AInv, Carried
  <2>6. y \in Row /\ y.cred <= creds /\ y.disabled = users[r.by].disabled
    BY <2>5, WithRole DEF Roles
  <2> HIDE DEF y
  <2>7. users' \in [Users -> Row \cup {NoUser}]
        /\ \A u \in Users : users'[u] = IF u = r.by THEN y ELSE step[u]
    BY <2>3, <2>4, <2>6
  <2>8. \A u \in Users :
          /\ users'[u].cred <= creds
          /\ Exists(u)' => Exists(u) /\ users'[u].disabled = users[u].disabled
    BY <1>3, <2>2, <2>4, <2>6, <2>7 DEF AInv, Carried, Exists
  <2> QED BY <1>2, <2>7, <2>8, RowsWritten DEF AInv, TypeOK
<1>4. CASE ~(Exists(r.user) /\ Exists(r.by))
  <2>1. UNCHANGED users
    BY <1>4 DEF Transfer
  <2> QED BY <1>2, <2>1, RowsWritten DEF AInv, TypeOK, Carried, Exists
<1> QED BY <1>3, <1>4

LEMMA DeleteSafe == ASSUME AInv, NEW c \in Clients, Delete(c) PROVE AInv'
<1>1. users' = [users EXCEPT ![request[c].user] = NoUser]
  BY DEF Delete
<1>2. users' \in [Users -> Row \cup {NoUser}]
      /\ \A u \in Users : users'[u] = NoUser \/ users'[u] = users[u]
  BY <1>1 DEF AInv, TypeOK
<1>3. \A u \in Users :
        /\ users'[u].cred <= creds
        /\ Exists(u)' => Exists(u) /\ users'[u].disabled = users[u].disabled
  BY <1>2, NoUserIsNone DEF AInv, Carried, Exists
<1> QED BY <1>2, <1>3, RowsWritten DEF Delete, AInv, TypeOK

LEMMA FailSafe == ASSUME AInv, NEW c \in Clients, Fail(c) PROVE AInv'
BY RowsWritten DEF Fail, AInv, TypeOK, Carried, Exists

---------------------------------------------------------------------------
(***************************************************************************)
(* Accounts that come, are disabled and recover.                           *)
(***************************************************************************)
\* One row is replaced by another.
LEMMA OneRow ==
  ASSUME AInv, NEW u \in Users, NEW r \in Row, r.cred <= creds,
         users' = [users EXCEPT ![u] = r], UNCHANGED creds
  PROVE  /\ users' \in [Users -> Row \cup {NoUser}]
         /\ \A v \in Users : users'[v].cred <= creds'
         /\ \A v \in Users : users'[v] = IF v = u THEN r ELSE users[v]
<1>1. users' \in [Users -> Row \cup {NoUser}]
      /\ \A v \in Users : users'[v] = IF v = u THEN r ELSE users[v]
  BY DEF AInv, TypeOK
<1> QED BY <1>1 DEF AInv, Carried

\* The cleaner is aimed at one account only.
LEMMA AimedAt ==
  ASSUME AInv, cleaner.pc = "delete", NEW u \in cleaner.at PROVE cleaner.at = {u} /\ Deciding(u)
<1>1. cleaner.at = {u}
  BY DEF AInv, Aimed
<1> QED BY <1>1 DEF Deciding

\* An account becomes active; if the cleaner has decided, it is late.
LEMMA Awake ==
  ASSUME AInv, NEW u \in Users, UNCHANGED <<cleaner, lost>>,
         late' = (IF Deciding(u) THEN late \cup {u} ELSE late),
         \A v \in Users \ {u} : users'[v] = users[v]
  PROVE  Kept'
<1>1. \A v \in Users \ {u} : Active(v)' => Active(v)
  BY DEF Active, Exists
<1>2. ASSUME cleaner.pc = "delete", NEW v \in cleaner.at, Active(v)' PROVE v \in late'
  <2>1. v \in Users
    BY <1>2 DEF AInv, TypeOK
  <2>2. CASE v = u
    BY <1>2, <2>2, AimedAt
  <2>3. CASE v # u
    BY <1>1, <1>2, <2>1, <2>3 DEF AInv, Kept
  <2> QED BY <2>2, <2>3
<1>3. ASSUME cleaner.pc = "sweep" PROVE Members' \subseteq late'
  <2>1. late' = late \cup {u}
    BY <1>3 DEF Deciding
  <2> QED BY <1>1, <1>3, <2>1 DEF AInv, Kept, Members
<1>4. RecoveredIsKept'
  BY DEF AInv, Kept, RecoveredIsKept
<1> QED BY <1>2, <1>3, <1>4 DEF Kept

LEMMA CreateSafe == ASSUME AInv, NEW c \in Clients, Create(c) PROVE AInv'
<1>0. PICK u \in Users, r \in Row \cup {NoUser} : request[c].user = u /\ request[c].row = r
  BY AnyUser DEF AInv, RequestState
<1>1. request[c].pc = "create" /\ End(c)
      /\ UNCHANGED <<now, org, session, links, sent, creds, cleaner, leaving, lost>>
  BY DEF Create
<1>2. r \in Row /\ r.cred <= creds /\ r.disabled = 0
  BY <1>0, <1>1 DEF AInv, Carried, CarriesRow
<1>3. /\ request' \in [Clients -> RequestState]
      /\ \A d \in Clients : request'[d].row.cred <= creds' /\ CarriesRow(request'[d])
  BY <1>1, Ended DEF AInv
<1>4. CASE org /\ u \in unused
  <2>1. users' = [users EXCEPT ![u] = r] /\ unused' = unused \ {u}
        /\ late' = (IF Deciding(u) THEN late \cup {u} ELSE late)
    BY <1>0, <1>4 DEF Create
  <2>2. /\ users' \in [Users -> Row \cup {NoUser}]
        /\ \A v \in Users : users'[v].cred <= creds'
        /\ \A v \in Users : users'[v] = IF v = u THEN r ELSE users[v]
    BY <1>1, <1>2, <2>1, OneRow
  <2>3. TypeOK'
    BY <1>1, <1>3, <1>4, <2>1, <2>2 DEF AInv, TypeOK, RequestState, Exists
  <2>4. Carried' /\ Aimed'
    BY <1>1, <1>3, <2>1, <2>2 DEF AInv, Carried, Aimed
  <2>5. Kept'
    BY <1>1, <2>1, <2>2, Awake
  <2>6. u \notin leaving
    BY <1>4 DEF AInv, Left
  <2>7. Active(u)' /\ \A v \in Users \ {u} : users'[v] = users[v]
    BY <1>2, <2>2, RowIsUser DEF Active, Exists
  <2>8. Left'
    BY <1>1, <2>1, <2>6, <2>7 DEF AInv, Left, DisabledStays, Active, Exists
  <2> QED BY <2>3, <2>4, <2>5, <2>8 DEF AInv
<1>5. CASE ~(org /\ u \in unused)
  <2>1. UNCHANGED <<users, unused, late>>
    BY <1>0, <1>5 DEF Create
  <2> QED BY <1>1, <2>1, RowsWritten DEF AInv, TypeOK, Carried, Exists, history
<1> QED BY <1>4, <1>5

LEMMA DisableSafe == ASSUME AInv, NEW c \in Clients, Disable(c) PROVE AInv'
<1>0. PICK u \in Users : request[c].user = u
  BY AnyUser DEF AInv, RequestState
<1>1. End(c) /\ UNCHANGED <<now, org, unused, session, links, sent, creds, cleaner, late, lost>>
  BY DEF Disable
<1>3. /\ request' \in [Clients -> RequestState]
      /\ \A d \in Clients : request'[d].row.cred <= creds' /\ CarriesRow(request'[d])
  BY <1>1, Ended DEF AInv
<1>4. CASE Active(u)
  <2> DEFINE r == [users[u] EXCEPT !.disabled = now]
  <2>1. users' = [users EXCEPT ![u] = r] /\ leaving' = leaving \cup {u}
    BY <1>0, <1>4 DEF Disable
  <2>2. users[u] \in Row /\ users[u].cred <= creds /\ now \in 0..MaxTime /\ now # 0
    BY <1>4, ExistsIsRow, AccountsAssumption DEF AInv, TypeOK, Carried, Active
  <2>3. r \in Row /\ r.cred <= creds /\ r.disabled = now
    BY <2>2, WithDisabled
  <2> HIDE DEF r
  <2>4. /\ users' \in [Users -> Row \cup {NoUser}]
        /\ \A v \in Users : users'[v].cred <= creds'
        /\ \A v \in Users : users'[v] = IF v = u THEN r ELSE users[v]
    BY <1>1, <2>1, <2>3, OneRow
  <2>5. Exists(u) /\ Exists(u)' /\ ~Active(u)'
    BY <1>4, <2>2, <2>3, <2>4, RowIsUser DEF Active, Exists
  <2>6. \A v \in Users \ {u} : users'[v] = users[v]
    BY <2>4
  <2>7. TypeOK'
    BY <1>1, <1>3, <2>4, <2>5, <2>6 DEF AInv, TypeOK, RequestState, Exists
  <2>8. Carried' /\ Aimed'
    BY <1>1, <1>3, <2>1, <2>4 DEF AInv, Carried, Aimed
  <2>9. \A v \in Users : Active(v)' => Active(v)
    BY <2>5, <2>6 DEF Active, Exists
  <2>10. Kept'
    BY <1>1, <2>9 DEF AInv, TypeOK, Kept, RecoveredIsKept, Members
  <2>11. u \notin unused
    BY <2>5 DEF AInv, TypeOK
  <2>12. Left'
    BY <1>1, <2>1, <2>5, <2>6, <2>11 DEF AInv, Left, DisabledStays, Active, Exists
  <2> QED BY <2>7, <2>8, <2>10, <2>12 DEF AInv
<1>5. CASE ~Active(u)
  <2>1. UNCHANGED <<users, leaving>>
    BY <1>0, <1>5 DEF Disable
  <2> QED BY <1>1, <2>1, RowsWritten DEF AInv, TypeOK, Carried, Exists, history
<1> QED BY <1>4, <1>5

LEMMA EnableSafe == ASSUME AInv, NEW c \in Clients, Enable(c) PROVE AInv'
<1>0. PICK u \in Users : request[c].user = u
  BY AnyUser DEF AInv, RequestState
<1>1. End(c) /\ UNCHANGED <<now, org, unused, session, links, sent, creds, cleaner, lost>>
  BY DEF Enable
<1>3. /\ request' \in [Clients -> RequestState]
      /\ \A d \in Clients : request'[d].row.cred <= creds' /\ CarriesRow(request'[d])
  BY <1>1, Ended DEF AInv
<1>4. CASE Exists(u)
  <2> DEFINE r == [users[u] EXCEPT !.disabled = 0]
  <2>1. users' = [users EXCEPT ![u] = r] /\ leaving' = leaving \ {u}
        /\ late' = (IF Deciding(u) THEN late \cup {u} ELSE late)
    BY <1>0, <1>4 DEF Enable
  <2>2. users[u] \in Row /\ users[u].cred <= creds
    BY <1>4, ExistsIsRow DEF AInv, Carried
  <2>3. r \in Row /\ r.cred <= creds /\ r.disabled = 0
    BY <2>2, WithDisabled, AccountsAssumption
  <2> HIDE DEF r
  <2>4. /\ users' \in [Users -> Row \cup {NoUser}]
        /\ \A v \in Users : users'[v].cred <= creds'
        /\ \A v \in Users : users'[v] = IF v = u THEN r ELSE users[v]
    BY <1>1, <2>1, <2>3, OneRow
  <2>5. Exists(u)' /\ Active(u)'
    BY <2>3, <2>4, RowIsUser DEF Active, Exists
  <2>6. \A v \in Users \ {u} : users'[v] = users[v]
    BY <2>4
  <2>7. TypeOK'
    BY <1>1, <1>3, <1>4, <2>4, <2>6 DEF AInv, TypeOK, RequestState, Exists
  <2>8. Carried' /\ Aimed'
    BY <1>1, <1>3, <2>1, <2>4 DEF AInv, Carried, Aimed
  <2>9. Kept'
    BY <1>1, <2>1, <2>6, Awake
  <2>10. Left'
    BY <1>1, <2>1, <2>5, <2>6 DEF AInv, Left, DisabledStays, Active, Exists
  <2> QED BY <2>7, <2>8, <2>9, <2>10 DEF AInv
<1>5. CASE ~Exists(u)
  <2>1. UNCHANGED <<users, leaving, late>>
    BY <1>0, <1>5 DEF Enable
  <2> QED BY <1>1, <2>1, RowsWritten DEF AInv, TypeOK, Carried, Exists, history
<1> QED BY <1>4, <1>5

---------------------------------------------------------------------------
(***************************************************************************)
(* The cleaner.                                                            *)
(***************************************************************************)
\* A step of the cleaner that removes nobody.
LEMMA CleanerMoved ==
  ASSUME AInv, UNCHANGED <<now, users, requests, history>>,
         org' \in BOOLEAN, org /\ (\E u \in Users : Exists(u)) => org',
         Aimed', cleaner' \in CleanerState,
         cleaner'.pc = "delete" => \A u \in cleaner'.at : ~Active(u),
         cleaner'.pc = "sweep" => Members = {}
  PROVE  AInv'
<1>1. Cardinality(cleaner'.at) = (IF cleaner'.pc = "delete" THEN 1 ELSE 0)
  BY SizeOfAim, FS_Singleton, FS_EmptySet DEF Aimed
<1>2. TypeOK'
  BY <1>1 DEF AInv, TypeOK, requests, CleanerState, Exists
<1>3. Carried'
  BY DEF AInv, Carried, requests, history
<1>4. Kept'
  BY DEF AInv, Kept, RecoveredIsKept, history, Members, Active, Exists, CleanerState
<1>5. Left'
  BY DEF AInv, Left, DisabledStays, requests, history, Active, Exists
<1> QED BY <1>2, <1>3, <1>4, <1>5 DEF AInv

LEMMA CleanerSafe ==
  ASSUME AInv,
         \/ ListDisabled \/ ListEnds \/ CountRemaining \/ DeleteOrg \/ CleanerFails
         \/ \E u \in Users : Refetch(u)
  PROVE  AInv'
<1>1. cleaner \in CleanerState /\ org \in BOOLEAN
  BY DEF AInv, Aimed, TypeOK
<1>2. Sleeping \in CleanerState /\ Sleeping.pc = "idle" /\ Sleeping.at = {}
  BY DEF Sleeping, CleanerState
<1>3. CASE ListDisabled
  <2>1. cleaner'.pc = "next" /\ cleaner'.at = {} /\ cleaner' \in CleanerState
    BY <1>3 DEF ListDisabled, CleanerState
  <2> QED BY <1>1, <1>3, <2>1, CleanerMoved DEF ListDisabled, Aimed
<1>4. CASE ListEnds
  BY <1>1, <1>2, <1>4, CleanerMoved DEF ListEnds, Aimed
<1>5. CASE CountRemaining
  <2> DEFINE pc == IF Members = {} THEN "sweep" ELSE "next"
  <2>1. cleaner' = [cleaner EXCEPT !.pc = pc] /\ cleaner.pc = "count"
    BY <1>5 DEF CountRemaining
  <2>2. cleaner'.pc = pc /\ cleaner'.at = cleaner.at /\ cleaner' \in CleanerState
    BY <1>1, <2>1 DEF CleanerState
  <2>3. cleaner'.at = {}
    BY <2>1, <2>2 DEF AInv, Aimed
  <2> QED BY <1>1, <1>5, <2>2, <2>3, CleanerMoved DEF CountRemaining, Aimed
<1>6. CASE DeleteOrg
  <2>1. cleaner' = [cleaner EXCEPT !.pc = "next"] /\ cleaner.pc = "org"
    BY <1>6 DEF DeleteOrg
  <2>2. cleaner'.pc = "next" /\ cleaner'.at = cleaner.at /\ cleaner' \in CleanerState
    BY <1>1, <2>1 DEF CleanerState
  <2>3. cleaner'.at = {}
    BY <2>1, <2>2 DEF AInv, Aimed
  <2> QED BY <1>1, <1>6, <2>2, <2>3, CleanerMoved DEF DeleteOrg, Referenced, Aimed
<1>7. CASE CleanerFails
  <2>1. [cleaner EXCEPT !.pc = "next", !.at = {}] \in CleanerState
        /\ [cleaner EXCEPT !.pc = "next", !.at = {}].pc = "next"
        /\ [cleaner EXCEPT !.pc = "next", !.at = {}].at = {}
    BY <1>1 DEF CleanerState
  <2>2. cleaner' \in CleanerState /\ cleaner'.pc \in {"idle", "next"} /\ cleaner'.at = {}
    BY <1>2, <1>7, <2>1 DEF CleanerFails
  <2> QED BY <1>1, <1>7, <2>2, CleanerMoved DEF CleanerFails, Aimed
<1>8. ASSUME NEW u \in Users, Refetch(u) PROVE AInv'
  <2>1. cleaner' \in CleanerState
    BY <1>1, <1>8 DEF Refetch, CleanerState
  <2>2. CASE StillDisabled(u)
    <3>1. cleaner'.pc = "delete" /\ cleaner'.at = {u} /\ ~Active(u)
      BY <1>8, <2>2 DEF Refetch, StillDisabled
    <3> QED BY <1>1, <1>8, <2>1, <3>1, CleanerMoved DEF Refetch, Aimed
  <2>3. CASE ~StillDisabled(u)
    <3>1. cleaner'.pc = "next" /\ cleaner'.at = {}
      BY <1>8, <2>3 DEF Refetch
    <3> QED BY <1>1, <1>8, <2>1, <3>1, CleanerMoved DEF Refetch, Aimed
  <2> QED BY <2>2, <2>3
<1> QED BY <1>3, <1>4, <1>5, <1>6, <1>7, <1>8

\* The cleaner removes rows, and active ones only of those who came late.
LEMMA RowsRemoved ==
  ASSUME AInv, UNCHANGED <<now, org, requests, leaving, late>>,
         users' \in [Users -> Row \cup {NoUser}],
         \A u \in Users : users'[u] \in {NoUser, users[u]},
         lost' \subseteq late, Aimed', cleaner'.pc \notin {"delete", "sweep"}
  PROVE  AInv'
<1>1. \A u \in Users : Exists(u)' => Exists(u) /\ (Active(u)' <=> Active(u))
  BY DEF Exists, Active
<1>2. Cardinality(cleaner'.at) = (IF cleaner'.pc = "delete" THEN 1 ELSE 0)
  BY FS_EmptySet DEF Aimed
<1>3. TypeOK'
  BY <1>1, <1>2 DEF AInv, TypeOK, requests, Aimed, CleanerState
<1>4. Carried'
  BY NoUserIsNone DEF AInv, Carried, requests
<1>5. Kept' /\ Left'
  BY <1>1 DEF AInv, Kept, RecoveredIsKept, Left, DisabledStays, requests
<1> QED BY <1>3, <1>4, <1>5 DEF AInv

LEMMA RemovalSafe == ASSUME AInv, DeleteDisabled \/ DeleteOrgUsers PROVE AInv'
<1>1. cleaner \in CleanerState /\ users \in [Users -> Row \cup {NoUser}]
  BY DEF AInv, Aimed, TypeOK
<1>2. CASE DeleteDisabled
  <2>1. PICK u \in cleaner.at :
          /\ users' = [users EXCEPT ![u] = NoUser]
          /\ lost' = IF Active(u) THEN lost \cup {u} ELSE lost
          /\ cleaner' = [cleaner EXCEPT !.pc = IF Exists(u) THEN "count" ELSE "next",
                                        !.at = {}]
    BY <1>2 DEF DeleteDisabled
  <2>2. cleaner'.pc \in {"count", "next"} /\ cleaner'.at = {} /\ cleaner' \in CleanerState
    BY <1>1, <2>1 DEF CleanerState
  <2>3. Active(u) => u \in late
    BY <1>2 DEF AInv, Kept, DeleteDisabled
  <2>4. lost' \subseteq late
    BY <2>1, <2>3 DEF AInv, Kept, RecoveredIsKept
  <2>5. Aimed'
    BY <2>2 DEF Aimed
  <2>6. users' \in [Users -> Row \cup {NoUser}]
        /\ \A v \in Users : users'[v] \in {NoUser, users[v]}
    BY <1>1, <2>1
  <2> QED BY <1>2, <2>2, <2>4, <2>5, <2>6, RowsRemoved DEF DeleteDisabled
<1>3. CASE DeleteOrgUsers
  <2>1. cleaner' = [cleaner EXCEPT !.pc = "org"] /\ cleaner.pc = "sweep"
    BY <1>3 DEF DeleteOrgUsers
  <2>2. cleaner'.pc = "org" /\ cleaner'.at = {} /\ cleaner' \in CleanerState
    BY <1>1, <2>1 DEF AInv, Aimed, CleanerState
  <2>3. lost' \subseteq late
    BY <1>3, <2>1 DEF DeleteOrgUsers, AInv, Kept, RecoveredIsKept
  <2>4. Aimed'
    BY <2>2 DEF Aimed
  <2> QED BY <1>3, <2>2, <2>3, <2>4, RowsRemoved DEF DeleteOrgUsers
<1> QED BY <1>2, <1>3

---------------------------------------------------------------------------
(***************************************************************************)
(* Links, tokens, time.                                                    *)
(***************************************************************************)
LEMMA MailSafe ==
  ASSUME AInv, NEW u \in Users, NEW kind \in {"password", "delete", "recover"}, Mail(kind, u)
  PROVE  AInv'
<1> DEFINE l == [kind |-> kind, user |-> u, cred |-> users[u].cred, at |-> now]
<1>1. l \in Link /\ l.cred <= creds
  BY CredOf DEF AInv, TypeOK, Carried, Link
<1>2. links' = links \cup {l} /\ sent < MaxRequests /\ sent' = sent + 1
      /\ UNCHANGED <<now, org, users, unused, session, request, creds, cleaner, history>>
  BY DEF Mail, UsesRequest
<1> HIDE DEF l
<1>3. sent' \in 0..MaxRequests
  BY <1>2, AccountsAssumption DEF AInv, TypeOK
<1>4. TypeOK'
  BY <1>1, <1>2, <1>3 DEF AInv, TypeOK, Exists
<1>5. Carried' /\ Aimed'
  BY <1>2 DEF AInv, Carried, Aimed, history
<1>6. Kept' /\ Left'
  BY <1>2, StayAsEnabled DEF AInv, Exists
<1> QED BY <1>4, <1>5, <1>6 DEF AInv

LEMMA RestSafe == ASSUME AInv, Tick \/ (\E u \in Users : Login(u)) \/ UNCHANGED vars PROVE AInv'
<1>1. CASE Tick
  <2>1. now' \in 1..MaxTime
    BY <1>1, AccountsAssumption DEF Tick, AInv, TypeOK
  <2>2. TypeOK'
    BY <1>1, <2>1 DEF Tick, AInv, TypeOK, Exists
  <2>3. Carried' /\ Aimed'
    BY <1>1 DEF Tick, AInv, Carried, Aimed, history
  <2>4. Kept' /\ Left'
    BY <1>1, StayAsEnabled DEF Tick, AInv, Exists
  <2> QED BY <2>2, <2>3, <2>4 DEF AInv
<1>2. ASSUME NEW u \in Users, Login(u) PROVE AInv'
  <2>1. users[u].role \in Roles
    BY <1>2, ExistsIsRow, RowIsUser DEF Login, Active, AInv
  <2>2. TypeOK'
    BY <1>2, <2>1 DEF Login, AInv, TypeOK, Exists
  <2>3. Carried' /\ Aimed'
    BY <1>2 DEF Login, AInv, Carried, Aimed, history
  <2>4. Kept' /\ Left'
    BY <1>2, StayAsEnabled DEF Login, AInv, Exists
  <2> QED BY <2>2, <2>3, <2>4 DEF AInv
<1>3. CASE UNCHANGED vars
  <2>1. TypeOK'
    BY <1>3 DEF vars, AInv, TypeOK, Exists
  <2>2. Carried' /\ Aimed'
    BY <1>3 DEF vars, AInv, Carried, Aimed
  <2>3. Kept' /\ Left'
    BY <1>3, StayAsEnabled DEF vars, history, AInv, Exists
  <2> QED BY <2>1, <2>2, <2>3 DEF AInv
<1> QED BY <1>1, <1>2, <1>3

---------------------------------------------------------------------------
\* What Register and the invitations have left.
Founded(o, others, gone, role) ==
  /\ users = [u \in Users |->
                IF u \in {o} \cup others
                THEN [role     |-> IF u = o THEN "owner" ELSE role[u],
                      cred     |-> 1,
                      disabled |-> IF u \in gone THEN 1 ELSE 0]
                ELSE NoUser]
  /\ unused = Users \ ({o} \cup others)
  /\ leaving = gone

LEMMA AInit == Init => AInv
<1> SUFFICES ASSUME Init PROVE AInv
  OBVIOUS
<1>1. PICK o \in Users : \E others \in SUBSET (Users \ {o}) :
        \E gone \in SUBSET others : \E role \in [others -> {"admin", "member"}] :
          Founded(o, others, gone, role)
  BY DEF Init, Founded
<1>2. PICK others \in SUBSET (Users \ {o}) :
        \E gone \in SUBSET others : \E role \in [others -> {"admin", "member"}] :
          Founded(o, others, gone, role)
  BY <1>1
<1>3. PICK gone \in SUBSET others, role \in [others -> {"admin", "member"}] :
          Founded(o, others, gone, role)
  BY <1>2
<1> USE DEF Founded
<1>4. ASSUME NEW u \in {o} \cup others
      PROVE  /\ users[u] \in Row /\ users[u].cred = 1
             /\ users[u].disabled = IF u \in gone THEN 1 ELSE 0
  <2>1. (IF u = o THEN "owner" ELSE role[u]) \in Roles
    BY <1>3, <1>4 DEF Roles
  <2>2. (IF u \in gone THEN 1 ELSE 0) \in 0..MaxTime
    BY AccountsAssumption
  <2>3. users[u] = [role |-> IF u = o THEN "owner" ELSE role[u], cred |-> 1,
                    disabled |-> IF u \in gone THEN 1 ELSE 0]
    BY <1>3, <1>4
  <2> QED BY <2>1, <2>2, <2>3 DEF Row
<1>5. \A u \in Users \ ({o} \cup others) : users[u] = NoUser
  BY <1>3
<1>6. users \in [Users -> Row \cup {NoUser}]
  <2>1. \A u \in Users : users[u] \in Row \cup {NoUser}
    BY <1>4, <1>5
  <2>2. users = [u \in Users |-> users[u]]
    BY <1>3
  <2> HIDE DEF NoUser, Row
  <2> QED BY <2>1, <2>2
<1>7. now = 1 /\ org = TRUE /\ session = [u \in Users |-> users[u].role]
      /\ links = {} /\ sent = 0 /\ creds = 1 /\ request = [c \in Clients |-> Idle]
      /\ cleaner = Sleeping /\ late = {} /\ lost = {}
  BY DEF Init
<1>8. \A u \in Users : users[u].role \in Roles \cup {"none"} /\ users[u].cred <= 1
  BY <1>4, <1>5, NoUserIsNone, RowIsUser
<1>9. Idle \in RequestState /\ Idle.pc = "idle" /\ Idle.row = NoUser
  <2>1. (CHOOSE u \in Users : TRUE) \in Users
    OBVIOUS
  <2> QED BY <2>1 DEF Idle, RequestState
<1>10. cleaner \in CleanerState /\ cleaner.pc = "idle" /\ cleaner.at = {}
  BY <1>7 DEF Sleeping, CleanerState
<1>11. Aimed
  BY <1>10 DEF Aimed
<1>12. request \in [Clients -> RequestState] /\ \A c \in Clients : request[c] = Idle
  BY <1>7, <1>9
<1>13. \A u \in Users : Exists(u) <=> u \in {o} \cup others
  BY <1>4, <1>5, RowIsUser DEF Exists
<1>14. TypeOK
  <2>1. Cardinality(cleaner.at) = (IF cleaner.pc = "delete" THEN 1 ELSE 0)
    BY <1>11, SizeOfAim
  <2>2. session \in [Users -> Roles \cup {"none"}]
    BY <1>7, <1>8
  <2>3. now \in 1..MaxTime /\ sent \in 0..MaxRequests
    BY <1>7, AccountsAssumption
  <2> QED BY <1>3, <1>6, <1>7, <1>10, <1>12, <1>13, <2>1, <2>2, <2>3
             DEF TypeOK, RequestState, CleanerState
<1>15. Carried
  BY <1>3, <1>7, <1>8, <1>9, <1>12, NoUserIsNone DEF Carried, CarriesRow
<1>16. Kept
  BY <1>7, <1>10 DEF Kept, RecoveredIsKept
<1>17. Left
  BY <1>3, <1>4, <1>13 DEF Left, DisabledStays, Active
<1> QED BY <1>11, <1>14, <1>15, <1>16, <1>17 DEF AInv

LEMMA AStep == ASSUME AInv, [Next]_vars PROVE AInv'
<1>1. ASSUME NEW c \in Clients, NEW a \in Users, NEW u \in Users,
             \/ ReadToUpdate(c, a, u) \/ ReadToReset(c, a, u) \/ ReadToTransfer(c, a, u)
             \/ ReadToDelete(c, a, u) \/ ReadSelf(c, u)
             \/ \E role \in Roles : ReadToCreate(c, a, u, role)
      PROVE  AInv'
  BY <1>1, ReadsSafe, ReadOthersSafe
<1>2. ASSUME NEW c \in Clients,
             \/ WriteRow(c) \/ Transfer(c) \/ Create(c) \/ Delete(c)
             \/ Disable(c) \/ Enable(c) \/ Fail(c)
             \/ \E l \in links : FollowReset(c, l) \/ FollowDelete(c, l) \/ FollowRecover(c, l)
      PROVE  AInv'
  BY <1>2, WriteRowSafe, TransferSafe, CreateSafe, DeleteSafe, DisableSafe, EnableSafe,
     FailSafe, FollowSafe
<1>3. ASSUME NEW u \in Users, ForgotPassword(u) \/ RequestDeletion(u) \/ RequestRecovery(u)
      PROVE  AInv'
  BY <1>3, MailSafe DEF ForgotPassword, RequestDeletion, RequestRecovery
<1> QED BY <1>1, <1>2, <1>3, CleanerSafe, RemovalSafe, RestSafe DEF Next

\* The inductive invariant holds of every reachable state.
THEOREM AccountsInvariant == Spec => []AInv
BY AInit, AStep, PTL DEF Spec

\* The cleanup removes no active account but one that recovered, or came,
\* between its second look, or its count, and its deletion.
THEOREM RecoveredAccountsStay == Spec => []RecoveredIsKept
<1>1. AInv => RecoveredIsKept
  BY DEF AInv, Kept
<1> QED BY <1>1, AccountsInvariant, PTL

\* Whichever copies of a row are written back, an account is disabled from the
\* deletion that its holder confirms to the recovery.
THEOREM DisabledAccountsStay == Spec => []DisabledStays
<1>1. AInv => DisabledStays
  BY DEF AInv, Left
<1> QED BY <1>1, AccountsInvariant, PTL

---------------------------------------------------------------------------
(***************************************************************************)
(* SETTINGS                                                                *)
(***************************************************************************)
AnyList == StepLists \cup RuleLists \cup {<<>>}
ChangeState ==
  [pc : {"idle", "clear", "fill", "channel"}, o : Setting!Owners, list : AnyList,
   done : Nat, row : Setting!ChannelRow, new : Secrets \cup {NoSecret, Mask}]

\* The first n items of a list that c has brought.
Beginning(n, l, c) == {[pos |-> i, item |-> l[i], by |-> c] : i \in 1..n}

\* A request at work on a list has one of the right kind, and is within it.
AtWork(r) ==
  /\ r.pc \in {"clear", "fill"} => r.list \in Setting!Lists(r.o)
  /\ r.pc = "clear" => r.done = 0
  /\ r.pc = "fill" => r.done < Len(r.list)

WorkTyped ==
  /\ DOMAIN items = Setting!Owners /\ items = [o \in Setting!Owners |-> items[o]]
  /\ goal \in [Setting!Owners -> [by : Clients \cup {0}, list : AnyList]]
  /\ \A c \in Clients : AtWork(change[c])

\* What is there of a list, while one request fills it and afterwards.  The
\* request of an owner that is gone can do no more than end.
Whole(o) ==
  LET l == goal[o].list IN
  IF Setting!Filling(o) = {}
  THEN \E n \in 0..Len(l) :
         items[o] = Beginning(n, l, goal[o].by) /\ (o \notin cut => n = Len(l))
  ELSE o \in owners =>
         \A c \in Setting!Filling(o) :
           /\ goal[o].by = c /\ l = change[c].list
           /\ items[o] = Beginning(change[c].done, l, c)

\* A mask stands for a secret as long as none has been removed.
Secret ==
  ~removed => channel.secret # NoSecret /\ (~overtaken => channel.secret = asked)

LInv ==
  /\ Setting!TypeOK /\ WorkTyped /\ Secret
  /\ \A o \in Setting!Owners \ torn : Whole(o)

---------------------------------------------------------------------------
LEMMA SettingConstants ==
  /\ Setting!Owners # {} /\ Policies \cap RuledMonitors = {}
  /\ Builtins \cap Customs = {} /\ NoSecret \notin Secrets
  /\ StepLists \subseteq Seq({NoState}) /\ RuleLists \subseteq Seq(Setting!States)
  /\ MaxChanges \in Nat
BY PartsAssumption DEF Setting!SettingsAssumption

LEMMA ListLength == ASSUME NEW l \in AnyList PROVE Len(l) \in Nat
<1>1. l \in Seq({NoState}) \/ l \in Seq(Setting!States) \/ l = <<>>
  BY SettingConstants DEF AnyList
<1> QED BY <1>1

LEMMA ItemOf ==
  ASSUME NEW o \in Setting!Owners, NEW l \in Setting!Lists(o), NEW n \in Nat, n < Len(l)
  PROVE  IF o \in Policies THEN l[n + 1] = NoState ELSE l[n + 1] \in Setting!States
<1>1. CASE o \in Policies
  <2>1. l \in Seq({NoState})
    BY <1>1, SettingConstants DEF Setting!Lists
  <2>2. n + 1 \in 1..Len(l)
    BY <2>1
  <2> QED BY <1>1, <2>1, <2>2
<1>2. CASE o \notin Policies
  <2>1. l \in Seq(Setting!States)
    BY <1>2, SettingConstants DEF Setting!Lists
  <2>2. n + 1 \in 1..Len(l)
    BY <2>1
  <2> QED BY <1>2, <2>1, <2>2
<1> QED BY <1>1, <1>2

LEMMA BeginningEmpty == ASSUME NEW l, NEW c PROVE Beginning(0, l, c) = {}
BY DEF Beginning

LEMMA BeginningGrows ==
  ASSUME NEW l, NEW c, NEW n \in Nat
  PROVE  Beginning(n + 1, l, c) =
           Beginning(n, l, c) \cup {[pos |-> n + 1, item |-> l[n + 1], by |-> c]}
<1>1. 1..(n + 1) = (1..n) \cup {n + 1}
  OBVIOUS
<1> QED BY <1>1 DEF Beginning

LEMMA IdleChange ==
  /\ Setting!Idle \in ChangeState /\ Setting!Idle.pc = "idle" /\ AtWork(Setting!Idle)
  /\ Setting!Idle.done = 0
<1>1. (CHOOSE o \in Setting!Owners : TRUE) \in Setting!Owners
  BY SettingConstants
<1>2. [secret |-> NoSecret, enabled |-> TRUE] \in Setting!ChannelRow
  BY DEF Setting!ChannelRow
<1> QED BY <1>1, <1>2 DEF Setting!Idle, ChangeState, AnyList, AtWork

LEMMA ChangesTyped == Setting!TypeOK <=>
  /\ Setting!TypeOK /\ change \in [Clients -> ChangeState]
BY DEF Setting!TypeOK, ChangeState, AnyList

\* The request of c moves on to x.
LEMMA MovedOn ==
  ASSUME LInv, NEW c \in Clients, NEW x \in ChangeState, AtWork(x), Setting!GoTo(c, x)
  PROVE  /\ change' \in [Clients -> ChangeState]
         /\ \A d \in Clients : AtWork(change'[d])
         /\ \A d \in Clients : change'[d] = IF d = c THEN x ELSE change[d]
<1>1. change \in [Clients -> ChangeState]
  BY ChangesTyped DEF LInv
<1>2. change' \in [Clients -> ChangeState]
      /\ \A d \in Clients : change'[d] = IF d = c THEN x ELSE change[d]
  BY <1>1 DEF Setting!GoTo
<1> QED BY <1>2 DEF LInv, WorkTyped

\* A step that has to do with other owners, or that leaves o's list alone.
LEMMA Untouched ==
  ASSUME NEW o \in Setting!Owners, Whole(o), Setting!Filling(o)' = Setting!Filling(o),
         \A c \in Setting!Filling(o) : change'[c] = change[c],
         items'[o] = items[o], goal'[o] = goal[o], o \in owners' => o \in owners,
         o \in cut => o \in cut'
  PROVE  Whole(o)'
<1>1. CASE Setting!Filling(o) = {}
  BY <1>1 DEF Whole
<1>2. CASE Setting!Filling(o) # {}
  BY <1>2 DEF Whole
<1> QED BY <1>1, <1>2

LEMMA SameFillers ==
  ASSUME NEW o, NEW c \in Clients, NEW x,
         \A d \in Clients : change'[d] = IF d = c THEN x ELSE change[d],
         ~(x.pc = "fill" /\ x.o = o), ~(change[c].pc = "fill" /\ change[c].o = o)
  PROVE  /\ Setting!Filling(o)' = Setting!Filling(o)
         /\ \A d \in Setting!Filling(o) : change'[d] = change[d]
BY DEF Setting!Filling

\* A step that has nothing to do with lists.
LEMMA ListsAside ==
  ASSUME LInv, NEW c \in Clients, NEW x \in ChangeState,
         x.pc \in {"idle", "clear", "channel"}, AtWork(x), Setting!GoTo(c, x),
         change[c].pc # "fill", UNCHANGED Setting!children
  PROVE  /\ change' \in [Clients -> ChangeState] /\ WorkTyped'
         /\ \A o \in Setting!Owners \ torn' : Whole(o)'
<1>1. /\ change' \in [Clients -> ChangeState]
      /\ \A d \in Clients : AtWork(change'[d])
      /\ \A d \in Clients : change'[d] = IF d = c THEN x ELSE change[d]
  BY MovedOn
<1>2. WorkTyped'
  BY <1>1 DEF LInv, WorkTyped, Setting!children
<1>3. ASSUME NEW o \in Setting!Owners \ torn' PROVE Whole(o)'
  <2>1. /\ Setting!Filling(o)' = Setting!Filling(o)
        /\ \A d \in Setting!Filling(o) : change'[d] = change[d]
    BY <1>1, SameFillers
  <2> QED BY <2>1, Untouched DEF LInv, Setting!children
<1> QED BY <1>1, <1>2, <1>3

---------------------------------------------------------------------------
LEMMA ReadOwnerSafe ==
  ASSUME LInv, NEW c \in Clients, NEW o \in Setting!Owners, NEW l \in Setting!Lists(o),
         Setting!ReadOwner(c, o, l)
  PROVE  LInv'
<1> DEFINE x == [Setting!Idle EXCEPT !.pc = "clear", !.o = o, !.list = l]
<1>1. l \in AnyList
  BY DEF Setting!Lists, AnyList
<1>2. x \in ChangeState /\ x.pc = "clear" /\ AtWork(x)
  BY <1>1, IdleChange DEF ChangeState, AtWork
<1>3. Setting!GoTo(c, x) /\ change[c].pc = "idle" /\ changes < MaxChanges
      /\ changes' = changes + 1 /\ UNCHANGED <<Setting!children, Setting!channels>>
  BY DEF Setting!ReadOwner, Setting!Begin
<1> HIDE DEF x
<1>4. /\ change' \in [Clients -> ChangeState] /\ WorkTyped'
      /\ \A p \in Setting!Owners \ torn' : Whole(p)'
  BY <1>2, <1>3, ListsAside
<1>5. changes' \in 0..MaxChanges
  BY <1>3, SettingConstants DEF LInv, Setting!TypeOK
<1>6. Setting!TypeOK'
  BY <1>3, <1>4, <1>5
     DEF LInv, Setting!TypeOK, ChangeState, AnyList, Setting!children, Setting!channels
<1>7. Secret'
  BY <1>3 DEF LInv, Secret, Setting!channels
<1> QED BY <1>4, <1>6, <1>7 DEF LInv

LEMMA ChannelSafe ==
  ASSUME LInv, NEW c \in Clients,
         \/ \E new \in Secrets \cup {NoSecret, Mask} : Setting!ReadChannel(c, new)
         \/ \E enabled \in BOOLEAN : Setting!WriteChannel(c, enabled)
  PROVE  LInv'
<1>0. change \in [Clients -> ChangeState] /\ channel \in Setting!ChannelRow
  BY ChangesTyped DEF LInv, Setting!TypeOK
<1>1. ASSUME NEW new \in Secrets \cup {NoSecret, Mask}, Setting!ReadChannel(c, new) PROVE LInv'
  <2> DEFINE x == [Setting!Idle EXCEPT !.pc = "channel", !.row = channel, !.new = new]
  <2>1. x \in ChangeState /\ x.pc = "channel" /\ AtWork(x)
    BY <1>0, IdleChange DEF ChangeState, AtWork
  <2>2. Setting!GoTo(c, x) /\ change[c].pc = "idle" /\ changes < MaxChanges
        /\ changes' = changes + 1 /\ UNCHANGED <<Setting!children, Setting!channels>>
    BY <1>1 DEF Setting!ReadChannel, Setting!Begin
  <2> HIDE DEF x
  <2>3. /\ change' \in [Clients -> ChangeState] /\ WorkTyped'
        /\ \A p \in Setting!Owners \ torn' : Whole(p)'
    BY <2>1, <2>2, ListsAside
  <2>4. changes' \in 0..MaxChanges
    BY <2>2, SettingConstants DEF LInv, Setting!TypeOK
  <2>5. Setting!TypeOK'
    BY <2>2, <2>3, <2>4
       DEF LInv, Setting!TypeOK, ChangeState, AnyList, Setting!children, Setting!channels
  <2>6. Secret'
    BY <2>2 DEF LInv, Secret, Setting!channels
  <2> QED BY <2>3, <2>5, <2>6 DEF LInv
<1>2. ASSUME NEW enabled \in BOOLEAN, Setting!WriteChannel(c, enabled) PROVE LInv'
  <2>1. PICK r \in ChangeState : r = change[c]
    BY <1>0
  <2>2. PICK secret : secret = Setting!Merged(r.new, r.row.secret)
    OBVIOUS
  <2>3. /\ r.pc = "channel" /\ channel' = [secret |-> secret, enabled |-> enabled]
        /\ asked' = IF r.new = Mask THEN asked ELSE r.new
        /\ overtaken' = (overtaken \/ channel # r.row)
        /\ removed' = (removed \/ secret = NoSecret)
        /\ Setting!GoTo(c, Setting!Idle) /\ UNCHANGED <<Setting!children, view, changes>>
    BY <1>2, <2>1, <2>2 DEF Setting!WriteChannel
  <2>4. r.row \in Setting!ChannelRow /\ r.new \in Secrets \cup {NoSecret, Mask}
        /\ secret \in Secrets \cup {NoSecret, Mask}
    BY <2>2 DEF ChangeState, Setting!ChannelRow, Setting!Merged
  <2>5. /\ change' \in [Clients -> ChangeState] /\ WorkTyped'
        /\ \A p \in Setting!Owners \ torn' : Whole(p)'
    BY <2>1, <2>3, IdleChange, ListsAside
  <2>6. channel' \in Setting!ChannelRow
    BY <2>3, <2>4 DEF Setting!ChannelRow
  <2>7. Setting!TypeOK'
    BY <2>3, <2>5, <2>6 DEF LInv, Setting!TypeOK, ChangeState, AnyList, Setting!children
  <2>8. Secret'
    <3>1. CASE r.new = Mask /\ r.row.secret # NoSecret
      BY <2>2, <2>3, <3>1 DEF LInv, Secret, Setting!Merged
    <3>2. CASE r.new = Mask /\ r.row.secret = NoSecret
      BY <2>2, <2>3, <3>2 DEF LInv, Secret, Setting!Merged
    <3>3. CASE r.new # Mask
      BY <2>2, <2>3, <3>3 DEF LInv, Secret, Setting!Merged
    <3> QED BY <3>1, <3>2, <3>3
  <2> QED BY <2>5, <2>7, <2>8 DEF LInv
<1> QED BY <1>1, <1>2

\* Steps without a request: a look at the channel, owners and states that go.
LEMMA StatementsSafe ==
  ASSUME LInv,
         \/ \E c \in Clients : Setting!GetChannel(c)
         \/ \E o \in Setting!Owners : Setting!DeleteOwner(o)
         \/ \E s \in Setting!States : Setting!DeleteState(s)
         \/ UNCHANGED Setting!vars
  PROVE  LInv'
<1>0. change' = change /\ changes' \in 0..MaxChanges
  BY SettingConstants DEF LInv, Setting!TypeOK, Setting!GetChannel, Setting!DeleteOwner,
     Setting!DeleteState, Setting!OneStatement, Setting!vars
<1>1. ASSUME NEW o PROVE Setting!Filling(o)' = Setting!Filling(o)
  BY <1>0 DEF Setting!Filling
<1>2. ASSUME NEW c \in Clients, Setting!GetChannel(c) PROVE LInv'
  <2>1. view' \in [Clients -> Setting!Shown]
        /\ UNCHANGED <<Setting!children, channel, asked, overtaken, removed>>
    BY <1>2 DEF Setting!GetChannel, LInv, Setting!TypeOK, Setting!Redacted, Setting!Shown
  <2>2. Setting!TypeOK'
    BY <1>0, <2>1 DEF LInv, Setting!TypeOK, Setting!children
  <2>3. WorkTyped' /\ Secret'
    BY <1>0, <2>1 DEF LInv, WorkTyped, Secret, Setting!children
  <2>4. \A o \in Setting!Owners \ torn' : Whole(o)'
    BY <1>0, <1>1, <2>1, Untouched DEF LInv, Setting!children
  <2> QED BY <2>2, <2>3, <2>4 DEF LInv
<1>3. ASSUME NEW o \in Setting!Owners, Setting!DeleteOwner(o) PROVE LInv'
  <2>1. owners' = owners \ {o} /\ items' = [items EXCEPT ![o] = {}]
        /\ goal' = [goal EXCEPT ![o] = [by |-> 0, list |-> <<>>]]
        /\ UNCHANGED <<states, torn, cut, Setting!channels>>
    BY <1>3 DEF Setting!DeleteOwner
  <2>2. \A p \in Setting!Owners : items'[p] = IF p = o THEN {} ELSE items[p]
    BY <2>1 DEF LInv, WorkTyped
  <2>3. \A p \in Setting!Owners :
          goal'[p] = IF p = o THEN [by |-> 0, list |-> <<>>] ELSE goal[p]
    BY <2>1 DEF LInv, WorkTyped
  <2>4. Setting!TypeOK'
    BY <1>0, <2>1, <2>2 DEF LInv, Setting!TypeOK, Setting!channels
  <2>5. goal' \in [Setting!Owners -> [by : Clients \cup {0}, list : AnyList]]
    BY <2>1 DEF LInv, WorkTyped, AnyList
  <2>6. WorkTyped' /\ Secret'
    BY <1>0, <2>1, <2>5 DEF LInv, WorkTyped, Secret, Setting!channels
  <2>7. ASSUME NEW p \in Setting!Owners \ torn' PROVE Whole(p)'
    <3>1. CASE p = o
      <4>1. items'[p] = {} /\ goal'[p].list = <<>> /\ p \notin owners'
        BY <2>1, <2>2, <2>3, <3>1
      <4>2. items'[p] = Beginning(0, goal'[p].list, goal'[p].by) /\ 0 \in 0..Len(goal'[p].list)
            /\ 0 = Len(goal'[p].list)
        BY <4>1, BeginningEmpty
      <4> QED BY <4>1, <4>2 DEF Whole
    <3>2. CASE p # o
      BY <1>0, <1>1, <2>1, <2>2, <2>3, <3>2, Untouched DEF LInv
    <3> QED BY <3>1, <3>2
  <2> QED BY <2>4, <2>6, <2>7 DEF LInv
<1>4. ASSUME NEW s \in Setting!States, Setting!DeleteState(s) PROVE LInv'
  <2>1. s \in states \ Builtins /\ states' = states \ {s}
        /\ UNCHANGED <<owners, items, goal, torn, cut, Setting!channels>>
    BY <1>4 DEF Setting!DeleteState
  <2>2. \A o \in Setting!Owners : \A i \in items[o] : i.item # s
    BY <1>4 DEF Setting!DeleteState, Setting!Used
  <2>3. Setting!TypeOK'
    BY <1>0, <2>1, <2>2 DEF LInv, Setting!TypeOK, Setting!channels
  <2>4. WorkTyped' /\ Secret'
    BY <1>0, <2>1 DEF LInv, WorkTyped, Secret, Setting!channels
  <2>5. \A o \in Setting!Owners \ torn' : Whole(o)'
    BY <1>0, <1>1, <2>1, Untouched DEF LInv
  <2> QED BY <2>3, <2>4, <2>5 DEF LInv
<1>5. CASE UNCHANGED Setting!vars
  <2>1. Setting!TypeOK'
    BY <1>5 DEF Setting!vars, Setting!children, Setting!channels, LInv, Setting!TypeOK
  <2>2. WorkTyped' /\ Secret'
    BY <1>5 DEF Setting!vars, Setting!children, Setting!channels, LInv, WorkTyped, Secret
  <2>3. \A o \in Setting!Owners \ torn' : Whole(o)'
    BY <1>1, <1>5, Untouched DEF Setting!vars, Setting!children, LInv
  <2> QED BY <2>1, <2>2, <2>3 DEF LInv
<1> QED BY <1>2, <1>3, <1>4, <1>5

---------------------------------------------------------------------------
(***************************************************************************)
(* The statements of a replacement.                                        *)
(***************************************************************************)
\* One owner's list changes, and the request of c with it.
ListChanges(c, o, x) ==
  /\ change[c].o = o /\ (x.pc # "idle" => x.o = o)
  /\ UNCHANGED <<owners, states, Setting!channels, changes>>
  /\ DOMAIN items' = Setting!Owners /\ items' = [p \in Setting!Owners |-> items'[p]]
  /\ goal' \in [Setting!Owners -> [by : Clients \cup {0}, list : AnyList]]
  /\ \A p \in Setting!Owners \ {o} : items'[p] = items[p] /\ goal'[p] = goal[p]
  /\ \A p \in Setting!Owners \ {o} : p \in cut <=> p \in cut'
  /\ torn \subseteq torn' /\ torn' \subseteq Setting!Owners /\ cut' \subseteq Setting!Owners
  /\ \A i \in items'[o] :
       /\ i.pos \in Nat /\ i.by \in Clients \cup {0}
       /\ IF o \in Policies THEN i.item = NoState ELSE i.item \in states
  /\ o \notin owners => items'[o] = {}
  /\ o \notin torn' => Whole(o)'

LEMMA OneList ==
  ASSUME LInv, NEW c \in Clients, NEW o \in Setting!Owners, NEW x \in ChangeState,
         AtWork(x), Setting!GoTo(c, x), ListChanges(c, o, x)
  PROVE  LInv'
<1>0. /\ change[c].o = o /\ (x.pc # "idle" => x.o = o)
      /\ UNCHANGED <<owners, states, Setting!channels, changes>>
      /\ DOMAIN items' = Setting!Owners /\ items' = [p \in Setting!Owners |-> items'[p]]
      /\ goal' \in [Setting!Owners -> [by : Clients \cup {0}, list : AnyList]]
      /\ \A p \in Setting!Owners \ {o} : items'[p] = items[p] /\ goal'[p] = goal[p]
      /\ \A p \in Setting!Owners \ {o} : p \in cut <=> p \in cut'
      /\ torn \subseteq torn' /\ torn' \subseteq Setting!Owners
      /\ cut' \subseteq Setting!Owners
      /\ \A i \in items'[o] :
           /\ i.pos \in Nat /\ i.by \in Clients \cup {0}
           /\ IF o \in Policies THEN i.item = NoState ELSE i.item \in states
      /\ o \notin owners => items'[o] = {}
      /\ o \notin torn' => Whole(o)'
  BY DEF ListChanges
<1>1. /\ change' \in [Clients -> ChangeState]
      /\ \A d \in Clients : AtWork(change'[d])
      /\ \A d \in Clients : change'[d] = IF d = c THEN x ELSE change[d]
  BY MovedOn
<1>2. \A p \in Setting!Owners : \A i \in items'[p] :
        /\ i.pos \in Nat /\ i.by \in Clients \cup {0}
        /\ IF p \in Policies THEN i.item = NoState ELSE i.item \in states
  BY <1>0 DEF LInv, Setting!TypeOK
<1>3. \A p \in Setting!Owners \ owners : items'[p] = {}
  BY <1>0 DEF LInv, Setting!TypeOK
<1>4. Setting!TypeOK'
  BY <1>0, <1>1, <1>2, <1>3
     DEF LInv, Setting!TypeOK, ChangeState, AnyList, Setting!channels
<1>5. WorkTyped' /\ Secret'
  BY <1>0, <1>1 DEF LInv, WorkTyped, Secret, Setting!channels
<1>6. ASSUME NEW p \in Setting!Owners \ torn', p # o PROVE Whole(p)'
  <2>1. /\ Setting!Filling(p)' = Setting!Filling(p)
        /\ \A d \in Setting!Filling(p) : change'[d] = change[d]
    <3>1. ~(x.pc = "fill" /\ x.o = p) /\ ~(change[c].pc = "fill" /\ change[c].o = p)
      BY <1>0, <1>6
    <3> QED BY <1>1, <3>1, SameFillers
  <2>2. Whole(p) /\ items'[p] = items[p] /\ goal'[p] = goal[p] /\ owners' = owners
        /\ (p \in cut => p \in cut')
    BY <1>0, <1>6 DEF LInv
  <2> QED BY <2>1, <2>2, Untouched
<1> QED BY <1>0, <1>4, <1>5, <1>6 DEF LInv

LEMMA ClearSafe == ASSUME LInv, NEW c \in Clients, Setting!Clear(c) PROVE LInv'
<1>1. PICK r \in ChangeState : r = change[c]
  BY ChangesTyped DEF LInv
<1>2. PICK o \in Setting!Owners, l \in AnyList : r.o = o /\ r.list = l
  BY DEF ChangeState
<1> DEFINE x == IF l = <<>> THEN Setting!Idle ELSE [r EXCEPT !.pc = "fill"]
<1>3. /\ r.pc = "clear" /\ items' = [items EXCEPT ![o] = {}]
      /\ goal' = [goal EXCEPT ![o] = [by |-> c, list |-> l]]
      /\ torn' = IF Setting!Filling(o) = {} THEN torn ELSE torn \cup {o}
      /\ cut' = cut \ {o} /\ Setting!GoTo(c, x)
      /\ UNCHANGED <<owners, states, Setting!channels, changes>>
  BY <1>1, <1>2 DEF Setting!Clear, Setting!Kept
<1>4. r.done = 0 /\ l \in Setting!Lists(o) /\ Len(l) \in Nat /\ (l # <<>> => Len(l) > 0)
  <2>1. AtWork(r)
    BY <1>1 DEF LInv, WorkTyped
  <2>2. l \in Seq({NoState}) \/ l \in Seq(Setting!States) \/ l = <<>>
    BY SettingConstants DEF AnyList
  <2> QED BY <1>2, <1>3, <2>1, <2>2 DEF AtWork
<1>5. /\ x \in ChangeState /\ AtWork(x) /\ (x.pc # "idle" => x.o = o)
      /\ x.pc = "fill" <=> l # <<>>
      /\ l # <<>> => x.done = 0 /\ x.list = l /\ x.o = o
  <2>1. CASE l = <<>>
    BY <2>1, IdleChange
  <2>2. CASE l # <<>>
    BY <1>2, <1>4, <2>2 DEF ChangeState, AtWork
  <2> QED BY <2>1, <2>2
<1> HIDE DEF x
<1>6. /\ DOMAIN items' = Setting!Owners /\ items' = [p \in Setting!Owners |-> items'[p]]
      /\ items'[o] = {} /\ \A p \in Setting!Owners \ {o} : items'[p] = items[p]
  BY <1>3 DEF LInv, WorkTyped
<1>7. /\ goal' \in [Setting!Owners -> [by : Clients \cup {0}, list : AnyList]]
      /\ goal'[o] = [by |-> c, list |-> l]
      /\ \A p \in Setting!Owners \ {o} : goal'[p] = goal[p]
  BY <1>3 DEF LInv, WorkTyped
<1>8. ASSUME o \notin torn' PROVE Whole(o)'
  <2>1. Setting!Filling(o) = {}
    BY <1>3, <1>8
  <2>2. \A d \in Clients : change'[d] = IF d = c THEN x ELSE change[d]
    BY <1>3, <1>5, MovedOn
  <2>3. items'[o] = Beginning(0, l, c)
    BY <1>6, BeginningEmpty
  <2>4. CASE l = <<>>
    <3>1. Setting!Filling(o)' = {}
      BY <1>5, <2>1, <2>2, <2>4 DEF Setting!Filling
    <3>2. 0 \in 0..Len(l) /\ 0 = Len(l)
      BY <2>4
    <3> QED BY <1>7, <2>3, <3>1, <3>2 DEF Whole
  <2>5. CASE l # <<>>
    <3>1. Setting!Filling(o)' = {c}
      BY <1>5, <2>1, <2>2, <2>5 DEF Setting!Filling
    <3>2. change'[c].done = 0 /\ change'[c].list = l
      BY <1>5, <2>2, <2>5
    <3> QED BY <1>7, <2>3, <3>1, <3>2 DEF Whole
  <2> QED BY <2>4, <2>5
<1>9. torn \subseteq torn' /\ torn' \subseteq Setting!Owners /\ cut' \subseteq Setting!Owners
      /\ \A p \in Setting!Owners \ {o} : p \in cut <=> p \in cut'
  BY <1>3 DEF LInv, Setting!TypeOK
<1>10. ListChanges(c, o, x)
  BY <1>1, <1>2, <1>3, <1>5, <1>6, <1>7, <1>8, <1>9 DEF ListChanges
<1> QED BY <1>3, <1>5, <1>10, OneList

\* The request of c that was filling o's list ends short of it.
LEMMA StopsShort ==
  ASSUME LInv, NEW c \in Clients, NEW o \in Setting!Owners, o \notin torn,
         change[c].pc = "fill", change[c].o = o, Setting!GoTo(c, Setting!Idle),
         items'[o] = items[o], goal'[o] = goal[o], o \in cut', owners' = owners
  PROVE  Whole(o)'
<1>1. \A d \in Clients : change'[d] = IF d = c THEN Setting!Idle ELSE change[d]
  BY IdleChange, MovedOn
<1>2. Setting!Filling(o)' = Setting!Filling(o) \ {c} /\ c \in Setting!Filling(o)
  BY <1>1, IdleChange DEF Setting!Filling
<1>3. goal[o].list \in AnyList
  BY DEF LInv, WorkTyped
<1>4. CASE o \in owners
  <2>1. /\ goal[o].by = c /\ goal[o].list = change[c].list
        /\ items[o] = Beginning(change[c].done, goal[o].list, c)
        /\ \A d \in Setting!Filling(o) : goal[o].by = d
    BY <1>2, <1>4 DEF LInv, Whole
  <2>2. Setting!Filling(o)' = {}
    BY <1>2, <2>1
  <2>3. change[c].done \in Nat /\ change[c].done < Len(goal[o].list)
    BY <2>1, ChangesTyped DEF LInv, WorkTyped, AtWork, ChangeState
  <2>4. change[c].done \in 0..Len(goal[o].list)
    BY <1>3, <2>3, ListLength
  <2> QED BY <2>1, <2>2, <2>4 DEF Whole
<1>5. CASE o \notin owners
  <2>1. items[o] = {}
    BY <1>5 DEF LInv, Setting!TypeOK
  <2>2. items'[o] = Beginning(0, goal'[o].list, goal'[o].by) /\ 0 \in 0..Len(goal'[o].list)
    BY <1>3, <2>1, BeginningEmpty, ListLength
  <2> QED BY <1>5, <2>2 DEF Whole
<1> QED BY <1>4, <1>5

LEMMA FailsSafe == ASSUME LInv, NEW c \in Clients, Setting!Fail(c) PROVE LInv'
<1>1. PICK o \in Setting!Owners : change[c].o = o
  BY ChangesTyped DEF LInv, ChangeState
<1>2. /\ Setting!GoTo(c, Setting!Idle)
      /\ cut' = IF change[c].pc = "fill" THEN cut \cup {o} ELSE cut
      /\ UNCHANGED <<owners, items, states, goal, torn, Setting!channels, changes>>
  BY <1>1 DEF Setting!Fail
<1>3. ASSUME o \notin torn' PROVE Whole(o)'
  <2>1. CASE change[c].pc = "fill"
    BY <1>1, <1>2, <1>3, <2>1, StopsShort
  <2>2. CASE change[c].pc # "fill"
    <3>1. \A d \in Clients : change'[d] = IF d = c THEN Setting!Idle ELSE change[d]
      BY <1>2, IdleChange, MovedOn
    <3>2. /\ Setting!Filling(o)' = Setting!Filling(o)
          /\ \A d \in Setting!Filling(o) : change'[d] = change[d]
      BY <2>2, <3>1, IdleChange, SameFillers
    <3> QED BY <1>2, <1>3, <2>2, <3>2, Untouched DEF LInv
  <2> QED BY <2>1, <2>2
<1>4. DOMAIN items' = Setting!Owners /\ items' = [p \in Setting!Owners |-> items'[p]]
      /\ goal' \in [Setting!Owners -> [by : Clients \cup {0}, list : AnyList]]
  BY <1>2 DEF LInv, WorkTyped
<1>5. /\ torn' \subseteq Setting!Owners /\ cut' \subseteq Setting!Owners
      /\ \A i \in items'[o] :
           /\ i.pos \in Nat /\ i.by \in Clients \cup {0}
           /\ IF o \in Policies THEN i.item = NoState ELSE i.item \in states
      /\ o \notin owners => items'[o] = {}
  BY <1>2 DEF LInv, Setting!TypeOK
<1>6. ListChanges(c, o, Setting!Idle)
  BY <1>1, <1>2, <1>3, <1>4, <1>5, IdleChange DEF ListChanges
<1> QED BY <1>2, <1>6, IdleChange, OneList

LEMMA InsertSafe == ASSUME LInv, NEW c \in Clients, Setting!Insert(c) PROVE LInv'
<1>1. PICK r \in ChangeState : r = change[c]
  BY ChangesTyped DEF LInv
<1>2. PICK o \in Setting!Owners, l \in AnyList, k \in Nat : r.o = o /\ r.list = l /\ r.done = k
  BY DEF ChangeState
<1>3. /\ r.pc = "fill" /\ UNCHANGED <<owners, states, goal, torn, Setting!channels, changes>>
  BY <1>1 DEF Setting!Insert
<1>4. l \in Setting!Lists(o) /\ k < Len(l) /\ Len(l) \in Nat
  BY <1>1, <1>2, <1>3, ListLength DEF LInv, WorkTyped, AtWork
<1>5. goal' \in [Setting!Owners -> [by : Clients \cup {0}, list : AnyList]]
  BY <1>3 DEF LInv, WorkTyped
<1>6. CASE Setting!Insertable(o, l[k + 1])
  <2> DEFINE new == [pos |-> k + 1, item |-> l[k + 1], by |-> c]
             x == IF k + 1 = Len(l) THEN Setting!Idle ELSE [r EXCEPT !.done = k + 1]
  <2>1. items' = [items EXCEPT ![o] = @ \cup {new}] /\ Setting!GoTo(c, x) /\ cut' = cut
    BY <1>1, <1>2, <1>6 DEF Setting!Insert
  <2>2. /\ x \in ChangeState /\ AtWork(x) /\ (x.pc # "idle" => x.o = o)
        /\ IF k + 1 = Len(l) THEN x.pc = "idle"
           ELSE x.pc = "fill" /\ x.o = o /\ x.list = l /\ x.done = k + 1
    <3>1. CASE k + 1 = Len(l)
      BY <3>1, IdleChange
    <3>2. CASE k + 1 # Len(l)
      BY <1>2, <1>3, <1>4, <3>2 DEF ChangeState, AtWork
    <3> QED BY <3>1, <3>2
  <2>3. new.pos \in Nat /\ new.by \in Clients
        /\ IF o \in Policies THEN new.item = NoState ELSE new.item \in states
    BY <1>4, <1>6, ItemOf DEF Setting!Insertable
  <2> HIDE DEF x
  <2>4. /\ DOMAIN items' = Setting!Owners /\ items' = [p \in Setting!Owners |-> items'[p]]
        /\ items'[o] = items[o] \cup {new}
        /\ \A p \in Setting!Owners \ {o} : items'[p] = items[p]
    BY <2>1 DEF LInv, WorkTyped
  <2>5. o \in owners
    BY <1>6 DEF Setting!Insertable
  <2>6. ASSUME o \notin torn' PROVE Whole(o)'
    <3>1. \A d \in Clients : change'[d] = IF d = c THEN x ELSE change[d]
      BY <2>1, <2>2, MovedOn
    <3>2. c \in Setting!Filling(o)
      BY <1>1, <1>2, <1>3 DEF Setting!Filling
    <3>3. /\ goal[o].by = c /\ goal[o].list = l /\ items[o] = Beginning(k, l, c)
          /\ \A d \in Setting!Filling(o) : d = c
      BY <1>1, <1>2, <1>3, <2>5, <2>6, <3>2 DEF LInv, Whole
    <3>4. items'[o] = Beginning(k + 1, l, c)
      BY <2>4, <3>3, BeginningGrows
    <3>5. CASE k + 1 = Len(l)
      <4>1. Setting!Filling(o)' = {}
        BY <2>2, <3>1, <3>3, <3>5 DEF Setting!Filling
      <4>2. k + 1 \in 0..Len(l)
        BY <1>4, <3>5
      <4> QED BY <1>3, <3>3, <3>4, <3>5, <4>1, <4>2 DEF Whole
    <3>6. CASE k + 1 # Len(l)
      <4>1. Setting!Filling(o)' = {c}
        BY <2>2, <3>1, <3>2, <3>3, <3>6 DEF Setting!Filling
      <4>2. change'[c].done = k + 1 /\ change'[c].list = l
        BY <2>2, <3>1, <3>6
      <4> QED BY <1>3, <3>3, <3>4, <4>1, <4>2 DEF Whole
    <3> QED BY <3>5, <3>6
  <2>7. /\ torn' \subseteq Setting!Owners /\ cut' \subseteq Setting!Owners
        /\ \A i \in items'[o] :
             /\ i.pos \in Nat /\ i.by \in Clients \cup {0}
             /\ IF o \in Policies THEN i.item = NoState ELSE i.item \in states
    BY <1>3, <2>1, <2>3, <2>4 DEF LInv, Setting!TypeOK
  <2> HIDE DEF new
  <2>8. ListChanges(c, o, x)
    BY <1>1, <1>2, <1>3, <1>5, <2>1, <2>2, <2>4, <2>5, <2>6, <2>7 DEF ListChanges
  <2> QED BY <2>1, <2>2, <2>8, OneList
<1>7. CASE ~Setting!Insertable(o, l[k + 1])
  <2>1. cut' = cut \cup {o} /\ items' = items /\ Setting!GoTo(c, Setting!Idle)
    BY <1>1, <1>2, <1>7 DEF Setting!Insert
  <2>2. ASSUME o \notin torn' PROVE Whole(o)'
    BY <1>1, <1>2, <1>3, <2>1, <2>2, StopsShort
  <2>3. DOMAIN items' = Setting!Owners /\ items' = [p \in Setting!Owners |-> items'[p]]
    BY <2>1 DEF LInv, WorkTyped
  <2>4. /\ torn' \subseteq Setting!Owners /\ cut' \subseteq Setting!Owners
        /\ \A i \in items'[o] :
             /\ i.pos \in Nat /\ i.by \in Clients \cup {0}
             /\ IF o \in Policies THEN i.item = NoState ELSE i.item \in states
        /\ o \notin owners => items'[o] = {}
    BY <1>3, <2>1 DEF LInv, Setting!TypeOK
  <2>5. ListChanges(c, o, Setting!Idle)
    BY <1>1, <1>2, <1>3, <1>5, <2>1, <2>2, <2>3, <2>4, IdleChange DEF ListChanges
  <2> QED BY <2>1, <2>5, IdleChange, OneList
<1> QED BY <1>6, <1>7

---------------------------------------------------------------------------
LEMMA LInit == Setting!Init => LInv
<1> SUFFICES ASSUME Setting!Init PROVE LInv
  OBVIOUS
<1>1. /\ owners = Setting!Owners /\ states = Setting!States
      /\ items = [o \in Setting!Owners |-> {}]
      /\ goal = [o \in Setting!Owners |-> [by |-> 0, list |-> <<>>]]
      /\ torn = {} /\ cut = {} /\ view = [c \in Clients |-> NoSecret]
      /\ change = [c \in Clients |-> Setting!Idle] /\ changes = 0
  BY DEF Setting!Init
<1>2. PICK s \in Secrets : channel = [secret |-> s, enabled |-> TRUE] /\ asked = s
  BY DEF Setting!Init
<1>3. change \in [Clients -> ChangeState] /\ \A c \in Clients : change[c] = Setting!Idle
  BY <1>1, IdleChange
<1>4. channel \in Setting!ChannelRow /\ view \in [Clients -> Setting!Shown]
  BY <1>1, <1>2 DEF Setting!ChannelRow, Setting!Shown
<1>5. Setting!TypeOK
  BY <1>1, <1>3, <1>4, SettingConstants
     DEF Setting!TypeOK, ChangeState, AnyList, Setting!States
<1>6. WorkTyped
  BY <1>1, <1>3, IdleChange DEF WorkTyped, AnyList
<1>7. Secret
  BY <1>2, SettingConstants DEF Secret
<1>8. ASSUME NEW o \in Setting!Owners PROVE Whole(o)
  <2>1. Setting!Filling(o) = {}
    BY <1>3, IdleChange DEF Setting!Filling
  <2>2. goal[o].list = <<>> /\ items[o] = {}
    BY <1>1
  <2>3. items[o] = Beginning(0, goal[o].list, goal[o].by) /\ 0 \in 0..Len(goal[o].list)
        /\ 0 = Len(goal[o].list)
    BY <2>2, BeginningEmpty
  <2> QED BY <2>1, <2>3 DEF Whole
<1> QED BY <1>5, <1>6, <1>7, <1>8 DEF LInv

LEMMA LStep == ASSUME LInv, [Setting!Next]_Setting!vars PROVE LInv'
BY ReadOwnerSafe, ClearSafe, InsertSafe, FailsSafe, ChannelSafe, StatementsSafe
   DEF Setting!Next

\* The inductive invariant holds of every reachable state.
THEOREM SettingsInvariant == Setting!Spec => []LInv
BY LInit, LStep, PTL DEF Setting!Spec

LEMMA ListsAreWhole == ASSUME LInv PROVE Setting!ListsOfOneRequest
<1> SUFFICES ASSUME NEW o \in Setting!Owners \ torn
             PROVE  \E n \in 0..Len(goal[o].list) :
                      /\ items[o] = Beginning(n, goal[o].list, goal[o].by)
                      /\ Setting!Filling(o) = {} /\ o \notin cut => n = Len(goal[o].list)
  BY DEF Setting!ListsOfOneRequest, Beginning
<1>1. Whole(o) /\ goal[o].list \in AnyList
  BY DEF LInv, WorkTyped
<1>2. CASE Setting!Filling(o) = {}
  BY <1>1, <1>2 DEF Whole
<1>3. ASSUME NEW c \in Setting!Filling(o), o \in owners
      PROVE  \E n \in 0..Len(goal[o].list) : items[o] = Beginning(n, goal[o].list, goal[o].by)
  <2>1. c \in Clients /\ change[c].pc = "fill"
    BY DEF Setting!Filling
  <2>2. /\ goal[o].by = c /\ goal[o].list = change[c].list
        /\ items[o] = Beginning(change[c].done, goal[o].list, c)
    BY <1>1, <1>3 DEF Whole
  <2>3. change[c].done \in Nat /\ change[c].done < Len(goal[o].list)
    BY <2>1, <2>2, ChangesTyped DEF LInv, WorkTyped, AtWork, ChangeState
  <2>4. change[c].done \in 0..Len(goal[o].list)
    BY <1>1, <2>3, ListLength
  <2> QED BY <2>2, <2>4
<1>4. CASE o \notin owners
  <2>1. items[o] = {}
    BY <1>4 DEF LInv, Setting!TypeOK
  <2>2. items[o] = Beginning(0, goal[o].list, goal[o].by) /\ 0 \in 0..Len(goal[o].list)
    BY <1>1, <2>1, BeginningEmpty, ListLength
  <2> QED BY <1>2, <2>2
<1> QED BY <1>2, <1>3, <1>4

LEMMA SecretIsKept == ASSUME LInv PROVE Setting!SecretsKept
BY DEF LInv, Secret, Setting!SecretsKept

---------------------------------------------------------------------------
(***************************************************************************)
(* WINDOWS                                                                 *)
(***************************************************************************)
VisitState ==
  [pc : {"idle", "insert", "update", "delete", "emit"}, w : Windows,
   pre : Maintaining!Row, new : Maintaining!Row, offset : Nat,
   at : Maintaining!Times \cup {Never}]

\* The windows that are active at a time.
ActiveRows == [t \in Maintaining!Times |->
                 {win \in Maintaining!Window : Maintaining!IsActiveAt(win, t)}]

Visiting(w) == {c \in Clients : visit[c].pc # "idle" /\ visit[c].w = w}

\* The request on a window is the only one, goes by the time there is, and has
\* seen, or left, the row there is.
InTime(w) ==
  \A c \in Visiting(w) :
    /\ \A d \in Visiting(w) : d = c
    /\ visit[c].at \in {Never, slot}
    /\ IF visit[c].pc = "emit" THEN visit[c].new = row[w] ELSE visit[c].pre = row[w]

\* What subscribers think and the ticker does not, a request has told them, and
\* it is so; or it was so before the statement of a request that is to tell.
Followed(w) ==
  (told[w] = "started") # (known[w] = "active") =>
    /\ \A c \in Visiting(w) :
         visit[c].pc = "emit" => (told[w] = "started" <=> visit[c].pre \in ActiveRows[slot])
    /\ (\A c \in Visiting(w) : visit[c].pc # "emit") =>
         (told[w] = "started" <=> row[w] \in ActiveRows[slot])

\* The ticker knows what its last poll saw.
Polled == current => \A w \in Windows : known[w] = "active" <=> row[w] \in ActiveRows[slot]

WInv ==
  /\ Maintaining!TypeOK /\ Polled
  /\ \A w \in Windows \ unsure : InTime(w) /\ Followed(w)

---------------------------------------------------------------------------
LEMMA WindowConstants ==
  /\ DayLen \in Nat \ {0} /\ WeekLen \in Nat \ {0} /\ MonthLen \in Nat \ {0}
  /\ MaxSlot \in Nat /\ MaxVisits \in Nat /\ MaxUpsets \in Nat
  /\ Initial \subseteq Maintaining!Window
  /\ Bodies \subseteq [win : Maintaining!Window, offset : Nat]
  /\ NoWindow \notin Maintaining!Window
  /\ Never \notin Maintaining!Times /\ Windows # {}
BY PartsAssumption DEF Maintaining!MaintenanceAssumption

LEMMA Slots == Maintaining!Times \subseteq Nat
BY WindowConstants DEF Maintaining!Times

\* Days are DayLen slots long.
LEMMA DivMod ==
  ASSUME NEW L \in Nat \ {0}, NEW t \in Nat
  PROVE  /\ t \div L \in Nat /\ t % L \in Nat /\ t % L < L
         /\ t = L * (t \div L) + (t % L)
OBVIOUS

LEMMA Product == ASSUME NEW L \in Nat, NEW d \in Nat PROVE L * d \in Nat /\ L * d = d * L
OBVIOUS

LEMMA Difference ==
  ASSUME NEW n \in Nat, NEW m \in Nat, NEW r \in Nat, n = m + r PROVE n - m = r
OBVIOUS

LEMMA DayOfSlot ==
  ASSUME NEW L \in Nat \ {0}, NEW d \in Nat, NEW r \in Nat, r < L
  PROVE  (L * d + r) \div L = d
OBVIOUS

LEMMA LaterDay ==
  ASSUME NEW L \in Nat \ {0}, NEW d \in Nat, NEW e \in Nat, d < e
  PROVE  L * d + L <= L * e
OBVIOUS

\* An occurrence on the day of t covers t only after the window's start.
LEMMA SameDay ==
  ASSUME NEW L \in Nat \ {0}, NEW s \in Nat, NEW t \in Nat
  PROVE  /\ t >= s => s \div L <= t \div L
         /\ s \div L <= t \div L /\ t >= L * (t \div L) + (s % L) => t >= s
<1>1. PICK d \in Nat : d = t \div L
  BY DivMod
<1>2. PICK e \in Nat, r \in Nat : e = s \div L /\ r = s % L
  BY DivMod
<1>3. PICK q \in Nat : q = t % L
  BY DivMod
<1>4. t = L * d + q /\ q < L /\ s = L * e + r /\ r < L
  BY <1>1, <1>2, <1>3, DivMod
<1>5. PICK p \in Nat : p = L * d
  OBVIOUS
<1>6. PICK o \in Nat : o = L * e
  OBVIOUS
<1>7. (d < e => p + L <= o) /\ (e < d => o + L <= p) /\ (d = e => p = o)
  BY <1>5, <1>6, LaterDay
<1>8. t = p + q /\ s = o + r
  BY <1>4, <1>5, <1>6
<1>9. t >= s => e <= d
  BY <1>4, <1>7, <1>8
<1>10. e <= d /\ t >= p + r => t >= s
  BY <1>4, <1>7, <1>8
<1> QED BY <1>1, <1>2, <1>5, <1>9, <1>10

LEMMA StartOfDay ==
  ASSUME NEW L \in Nat \ {0}, NEW s \in Nat
  PROVE  s - (s \div L) * L = s % L
<1>1. PICK e \in Nat, r \in Nat : e = s \div L /\ r = s % L
  BY DivMod
<1>2. PICK m \in Nat : m = L * e /\ m = e * L
  BY Product
<1>3. s = m + r
  BY <1>1, <1>2, DivMod
<1>4. s - m = r
  BY <1>3, Difference
<1> QED BY <1>1, <1>2, <1>4

LEMMA IntegerDifference == ASSUME NEW n \in Nat, NEW s \in Nat PROVE n - s \in Int
OBVIOUS

LEMMA LastSlot ==
  ASSUME NEW o \in Nat, NEW n \in Nat, NEW s \in Nat PROVE o + n - s = o + (n - s)
OBVIOUS

\* The slots that are r into days of On between e and d.
Starts(L, r, e, d, On) == {f * L + r : f \in {g \in e..d : g \in On}}

\* Of those that last dur, only the one of day d that starts at o covers t.
OnlyOccurrence(L, s, t, dur, d, e, r, o, On) ==
  (t >= s /\ d \in On /\ t \in o..(o + dur)) <=>
    \E p \in Starts(L, r, e, d, On) : t \in p..(p + dur) /\ p \div L = d

LEMMA OccurrenceOfDay ==
  ASSUME NEW L \in Nat \ {0}, NEW s \in Nat, NEW t \in Nat, NEW dur \in Int,
         NEW d \in Nat, d = t \div L, NEW e \in Nat, e = s \div L,
         NEW r \in Nat, r = s % L, NEW o \in Nat, o = d * L + r, NEW On \in SUBSET Nat
  PROVE  OnlyOccurrence(L, s, t, dur, d, e, r, o, On)
<1>2. r < L
  BY DivMod
<1>3. \A f \in Nat : (f * L + r) \div L = f
  BY <1>2, Product, DayOfSlot
<1>4. PICK m \in Nat : m = L * d /\ m = d * L
  BY Product
<1>5. o = m + r
  BY <1>4
<1>6. (t >= s => e <= d) /\ (e <= d /\ t >= m + r => t >= s)
  BY <1>4, SameDay
<1>7. ASSUME t >= s, d \in On, t \in o..(o + dur)
      PROVE  o \in {f * L + r : f \in {g \in e..d : g \in On}} /\ o \div L = d
  <2>1. d \in e..d
    BY <1>6, <1>7
  <2>2. o = d * L + r
    BY <1>4, <1>5
  <2> QED BY <1>3, <1>7, <2>1, <2>2
<1>8. ASSUME NEW p \in {f * L + r : f \in {g \in e..d : g \in On}},
             t \in p..(p + dur), p \div L = d
      PROVE  t >= s /\ d \in On /\ t \in o..(o + dur)
  <2>1. PICK f \in e..d : f \in On /\ p = f * L + r
    BY <1>8
  <2>2. f \in Nat /\ e <= f /\ f <= d
    BY <2>1
  <2>3. f = d
    BY <1>3, <1>8, <2>1, <2>2
  <2>4. p = o
    BY <1>4, <1>5, <2>1, <2>3
  <2>5. t >= o
    BY <1>8, <2>4
  <2>6. t >= s
    BY <1>5, <1>6, <2>2, <2>3, <2>5
  <2> QED BY <1>8, <2>1, <2>3, <2>4, <2>6
<1> QED BY <1>7, <1>8 DEF Starts, OnlyOccurrence

Recurring(win) == win.rec \notin {"", "none"}

\* A recurring window is active in its occurrences, and on the day they start.
LEMMA ActiveOccurrence ==
  ASSUME NEW win \in Maintaining!Window, Recurring(win), NEW t \in Maintaining!Times
  PROVE  Maintaining!IsActiveAt(win, t) <=>
           /\ win.until = Never \/ t <= win.until
           /\ \E o \in Maintaining!Occurrences(win, t) :
                /\ t \in o..(o + (win.end - win.start))
                /\ Maintaining!Day(o) = Maintaining!Day(t)
<1>1. /\ win.start \in Maintaining!Times /\ win.end \in Maintaining!Times
      /\ win.rec \in {"daily", "weekly", "monthly"}
  BY DEF Maintaining!Window, Recurring
<1>2. PICK L \in Nat \ {0} : L = DayLen
  BY WindowConstants
<1>3. PICK s \in Nat, n \in Nat : s = win.start /\ n = win.end
  BY <1>1, Slots
<1>4. t \in Nat /\ n - s \in Int
  BY Slots, IntegerDifference
<1>5. PICK dur \in Int : dur = n - s
  BY <1>4
<1>6. PICK d \in Nat : d = t \div L
  BY <1>4, DivMod
<1>7. PICK e \in Nat, r \in Nat : e = s \div L /\ r = s % L
  BY DivMod
<1>8. PICK o \in Nat : o = d * L + r
  BY Product
<1>9. Maintaining!Day(t) = d /\ Maintaining!Day(win.start) = e
  BY <1>2, <1>3, <1>6, <1>7 DEF Maintaining!Day
<1>10. win.start - Maintaining!Midnight(win.start) = r
  BY <1>2, <1>3, <1>7, <1>9, StartOfDay DEF Maintaining!Midnight
<1> DEFINE On ==
             {f \in Nat :
                \/ win.rec = "daily"
                \/ win.rec = "weekly" /\ f % WeekLen \in win.days
                \/ win.rec = "monthly" /\ (f % MonthLen) + 1 = win.dom}
<1>11. {g \in e..d :
          \/ win.rec = "daily"
          \/ win.rec = "weekly" /\ g % WeekLen \in win.days
          \/ win.rec = "monthly" /\ (g % MonthLen) + 1 = win.dom}
       = {g \in e..d : g \in On}
  <2>1. \A g \in e..d : g \in Nat
    OBVIOUS
  <2> QED BY <2>1
<1>12. Maintaining!OnItsDay(win, t) <=> d \in On
  BY <1>1, <1>9 DEF Maintaining!OnItsDay, Maintaining!Weekday, Maintaining!DayOfMonth
<1>13. On \in SUBSET Nat
  OBVIOUS
<1> HIDE DEF On
<1>14. Maintaining!Occurrences(win, t) = Starts(L, r, e, d, On)
  BY <1>2, <1>9, <1>10, <1>11 DEF Maintaining!Occurrences, Starts
<1>15. Maintaining!InToday(win, 0, t) <=> t \in o..(o + dur)
  <2>0. s + 0 = s
    OBVIOUS
  <2>1. Maintaining!TodayStart(win, 0, t) = o
    BY <1>2, <1>3, <1>7, <1>8, <1>9, <2>0 DEF Maintaining!TodayStart, Maintaining!Midnight
  <2>2. o + n - s = o + dur
    BY <1>5, LastSlot
  <2> QED BY <1>3, <2>1, <2>2 DEF Maintaining!InToday
<1>16. Maintaining!IsActiveAt(win, t) <=>
         /\ win.until = Never \/ t <= win.until
         /\ t >= s /\ d \in On /\ t \in o..(o + dur)
  BY <1>1, <1>3, <1>12, <1>15 DEF Maintaining!IsActiveAt, Maintaining!ActiveFrom
<1>17. OnlyOccurrence(L, s, t, dur, d, e, r, o, On)
  BY <1>4, <1>6, <1>7, <1>8, <1>13, OccurrenceOfDay
<1>18. \A p : Maintaining!Day(p) = p \div L
  BY <1>2 DEF Maintaining!Day
<1>19. win.end - win.start = dur
  BY <1>3, <1>5
<1> QED BY <1>9, <1>14, <1>16, <1>17, <1>18, <1>19 DEF OnlyOccurrence

LEMMA ActiveWhenOccurring == ASSUME Maintaining!TypeOK PROVE Maintaining!ActiveInOccurrences
<1> SUFFICES ASSUME NEW w \in Windows, row[w] # NoWindow, row[w].rec # "none"
             PROVE  Maintaining!IsActiveAt(row[w], slot) <=>
                      /\ row[w].until = Never \/ slot <= row[w].until
                      /\ \E o \in Maintaining!Occurrences(row[w], slot) :
                           /\ slot \in o..(o + (row[w].end - row[w].start))
                           /\ Maintaining!Day(o) = Maintaining!Day(slot)
  BY DEF Maintaining!ActiveInOccurrences
<1>1. row[w] \in Maintaining!Window /\ Recurring(row[w])
  BY DEF Maintaining!TypeOK, Maintaining!Row, Recurring
<1>2. slot \in Maintaining!Times
  BY DEF Maintaining!TypeOK
<1> QED BY <1>1, <1>2, ActiveOccurrence

\* What the query selects holds all that is active.
LEMMA PagesSuppressed == ASSUME Maintaining!TypeOK PROVE Maintaining!SuppressedWhileActive
<1>1. ASSUME NEW w \in Windows, row[w] # NoWindow
      PROVE  Maintaining!IsActiveAt(row[w], slot) => Maintaining!Selected(row[w], slot)
  <2>1. row[w] \in Maintaining!Window /\ slot \in Maintaining!Times
    BY <1>1 DEF Maintaining!TypeOK, Maintaining!Row
  <2>2. row[w].start \in Nat /\ row[w].end \in Nat /\ slot \in Nat
    BY <2>1, Slots DEF Maintaining!Window
  <2>3. row[w].until = Never \/ row[w].until \in Nat
    BY <2>1, Slots DEF Maintaining!Window
  <2> QED BY <2>2, <2>3 DEF Maintaining!IsActiveAt, Maintaining!ActiveFrom,
                            Maintaining!Selected
<1> QED BY <1>1 DEF Maintaining!SuppressedWhileActive, Maintaining!Suppressing,
                    Maintaining!Active

---------------------------------------------------------------------------
(***************************************************************************)
(* The requests on windows.                                                *)
(***************************************************************************)
LEMMA ActiveRow ==
  ASSUME NEW win \in Maintaining!Row, NEW t \in Maintaining!Times
  PROVE  (win # NoWindow /\ Maintaining!IsActiveAt(win, t)) <=> win \in ActiveRows[t]
BY WindowConstants DEF ActiveRows, Maintaining!Row

LEMMA VisitsTyped == Maintaining!TypeOK => visit \in [Clients -> VisitState]
BY DEF Maintaining!TypeOK, VisitState

LEMMA IdleVisit ==
  /\ Maintaining!Idle \in VisitState /\ Maintaining!Idle.pc = "idle"
  /\ Maintaining!Idle.pre = NoWindow /\ Maintaining!Idle.new = NoWindow
  /\ Maintaining!Idle.offset = 0 /\ Maintaining!Idle.at = Never
<1>1. (CHOOSE w \in Windows : TRUE) \in Windows
  BY WindowConstants
<1> QED BY <1>1 DEF Maintaining!Idle, VisitState, Maintaining!Row

LEMMA StoredRow ==
  ASSUME NEW win \in Maintaining!Window
  PROVE  Maintaining!Stored(win) \in Maintaining!Row /\ Maintaining!Stored(win) # NoWindow
<1>1. Maintaining!Stored(win) \in Maintaining!Window /\ Maintaining!Stored(win).rec # ""
  BY DEF Maintaining!Stored, Maintaining!Window
<1> QED BY <1>1, WindowConstants DEF Maintaining!Row

LEMMA VisitMoves ==
  ASSUME WInv, NEW c \in Clients, NEW x \in VisitState, Maintaining!GoTo(c, x)
  PROVE  /\ visit' \in [Clients -> VisitState]
         /\ \A d \in Clients : visit'[d] = IF d = c THEN x ELSE visit[d]
BY VisitsTyped DEF WInv, Maintaining!GoTo

\* A step that has nothing to do with window w.
LEMMA WindowAside ==
  ASSUME NEW w \in Windows, InTime(w), Followed(w), slot' = slot,
         Visiting(w)' = Visiting(w), \A c \in Visiting(w) : visit'[c] = visit[c],
         row'[w] = row[w], told'[w] = told[w], known'[w] = known[w]
  PROVE  InTime(w)' /\ Followed(w)'
BY DEF InTime, Followed

\* A step of c's request, which is or becomes x, on window w.
VisitChanges(c, w, x) ==
  /\ visit[c].pc = "idle" \/ visit[c].w = w
  /\ x.pc = "idle" \/ x.w = w
  /\ x.pc \in {"update", "delete"} => x.pre # NoWindow
  /\ UNCHANGED <<slot, known, list>>
  /\ row' \in [Windows -> Maintaining!Row]
  /\ told' \in [Windows -> {"none", "started", "ended"}]
  /\ \A v \in Windows \ {w} : row'[v] = row[v] /\ told'[v] = told[v]
  /\ current' \in BOOLEAN /\ (current' => current /\ row' = row)
  /\ unsure \subseteq unsure' /\ unsure' \subseteq Windows
  /\ visits' \in 0..MaxVisits /\ upsets' \in 0..MaxUpsets
  /\ w \notin unsure' => InTime(w)' /\ Followed(w)'

LEMMA OneVisit ==
  ASSUME WInv, NEW c \in Clients, NEW w \in Windows, NEW x \in VisitState,
         Maintaining!GoTo(c, x), VisitChanges(c, w, x)
  PROVE  WInv'
<1>0. /\ visit[c].pc = "idle" \/ visit[c].w = w
      /\ x.pc = "idle" \/ x.w = w
      /\ x.pc \in {"update", "delete"} => x.pre # NoWindow
      /\ UNCHANGED <<slot, known, list>>
      /\ row' \in [Windows -> Maintaining!Row]
      /\ told' \in [Windows -> {"none", "started", "ended"}]
      /\ \A v \in Windows \ {w} : row'[v] = row[v] /\ told'[v] = told[v]
      /\ current' \in BOOLEAN /\ (current' => current /\ row' = row)
      /\ unsure \subseteq unsure' /\ unsure' \subseteq Windows
      /\ visits' \in 0..MaxVisits /\ upsets' \in 0..MaxUpsets
      /\ w \notin unsure' => InTime(w)' /\ Followed(w)'
  BY DEF VisitChanges
<1>1. /\ visit' \in [Clients -> VisitState]
      /\ \A d \in Clients : visit'[d] = IF d = c THEN x ELSE visit[d]
  BY VisitMoves
<1>2. \A d \in Clients : visit'[d].pc \in {"update", "delete"} => visit'[d].pre # NoWindow
  BY <1>0, <1>1 DEF WInv, Maintaining!TypeOK
<1>3. Maintaining!TypeOK'
  BY <1>0, <1>1, <1>2 DEF WInv, Maintaining!TypeOK, VisitState
<1>4. Polled'
  BY <1>0 DEF WInv, Polled
<1>5. ASSUME NEW v \in Windows \ unsure', v # w PROVE InTime(v)' /\ Followed(v)'
  <2>1. Visiting(v)' = Visiting(v) /\ \A d \in Visiting(v) : visit'[d] = visit[d]
    BY <1>0, <1>1, <1>5 DEF Visiting
  <2>2. InTime(v) /\ Followed(v) /\ slot' = slot
        /\ row'[v] = row[v] /\ told'[v] = told[v] /\ known'[v] = known[v]
    BY <1>0, <1>5 DEF WInv
  <2> QED BY <2>1, <2>2, WindowAside
<1> QED BY <1>0, <1>3, <1>4, <1>5 DEF WInv

\* A window with no request on it is told of as it is, or as the ticker saw it.
LEMMA Unvisited ==
  ASSUME NEW w \in Windows, Visiting(w) = {}, Followed(w)
  PROVE  (told[w] = "started") # (known[w] = "active") =>
           (told[w] = "started" <=> row[w] \in ActiveRows[slot])
BY DEF Followed

\* The request of c is the only one on w.
LEMMA OnlyVisit ==
  ASSUME NEW w \in Windows, InTime(w), NEW c \in Clients, c \in Visiting(w)
  PROVE  Visiting(w) = {c}
BY DEF InTime

\* A request on window w begins: it reads the row there is, or there is none.
LEMMA ReadingSafe ==
  ASSUME WInv, NEW c \in Clients, NEW w \in Windows, NEW x \in VisitState,
         x.pc \in {"insert", "update", "delete"}, x.w = w, x.pre = row[w],
         x.at \in {Never, slot}, x.pc = "insert" \/ row[w] # NoWindow,
         Maintaining!GoTo(c, x), Maintaining!Doubt(c, w), Maintaining!Send,
         visit[c].pc = "idle",
         UNCHANGED <<slot, row, current, known, list, told, upsets>>
  PROVE  WInv'
<1>1. \A d \in Clients : visit'[d] = IF d = c THEN x ELSE visit[d]
  BY VisitMoves
<1>2. /\ unsure' = unsure \/ unsure' = unsure \cup {w}
      /\ w \notin unsure' => Maintaining!Others(c, w) = {}
  BY DEF Maintaining!Doubt
<1>3. ASSUME w \notin unsure' PROVE InTime(w)' /\ Followed(w)'
  <2>1. Visiting(w)' = {c} /\ Visiting(w) = {}
    BY <1>1, <1>2, <1>3 DEF Visiting, Maintaining!Others
  <2>2. InTime(w)'
    BY <1>1, <2>1 DEF InTime
  <2>3. (told[w] = "started") # (known[w] = "active") =>
          (told[w] = "started" <=> row[w] \in ActiveRows[slot])
    BY <1>2, <1>3, <2>1, Unvisited DEF WInv
  <2>4. visit'[c].pc # "emit"
    BY <1>1
  <2>5. Followed(w)'
    BY <2>1, <2>3, <2>4 DEF Followed
  <2> QED BY <2>2, <2>5
<1>4. visits' \in 0..MaxVisits
  BY WindowConstants DEF WInv, Maintaining!TypeOK, Maintaining!Send
<1>5. VisitChanges(c, w, x)
  BY <1>2, <1>3, <1>4 DEF VisitChanges, WInv, Maintaining!TypeOK
<1> QED BY <1>5, OneVisit

LEMMA BodyOf ==
  ASSUME NEW body \in Bodies
  PROVE  body.win \in Maintaining!Window /\ body.offset \in Nat
BY WindowConstants

LEMMA ReadWindowSafe ==
  ASSUME WInv, NEW c \in Clients, NEW w \in Windows,
         \/ \E body \in Bodies : \/ Maintaining!Create(c, w, body)
                               \/ Maintaining!ReadWindow(c, w, body)
         \/ Maintaining!ReadToDelete(c, w)
  PROVE  WInv'
<1>1. row[w] \in Maintaining!Row /\ slot \in Maintaining!Times
  BY DEF WInv, Maintaining!TypeOK
<1>2. PICK p \in Maintaining!Row, t \in Maintaining!Times : p = row[w] /\ t = slot
  BY <1>1
<1>3. ASSUME NEW body \in Bodies, Maintaining!Create(c, w, body) PROVE WInv'
  <2>1. PICK s \in Maintaining!Row, o \in Nat :
          s = Maintaining!Stored(body.win) /\ o = body.offset
    BY BodyOf, StoredRow
  <2> DEFINE x == [Maintaining!Idle EXCEPT !.pc = "insert", !.w = w, !.new = s,
                                           !.offset = o, !.at = t]
  <2>2. x \in VisitState /\ x.pc = "insert" /\ x.w = w /\ x.pre = NoWindow /\ x.at = t
    BY IdleVisit DEF VisitState
  <2>3. /\ Maintaining!GoTo(c, x) /\ Maintaining!Send
        /\ visit[c].pc = "idle" /\ row[w] = NoWindow
        /\ Maintaining!Others(c, w) = {} /\ unsure' = unsure
        /\ UNCHANGED <<slot, row, current, known, list, told, upsets>>
    BY <1>2, <1>3, <2>1 DEF Maintaining!Create, Maintaining!ticker
  <2>4. Maintaining!Doubt(c, w)
    BY <2>3 DEF Maintaining!Doubt
  <2> HIDE DEF x
  <2> QED BY <1>2, <2>2, <2>3, <2>4, ReadingSafe
<1>4. ASSUME NEW body \in Bodies, Maintaining!ReadWindow(c, w, body) PROVE WInv'
  <2>1. PICK s \in Maintaining!Row, o \in Nat :
          s = Maintaining!Stored(body.win) /\ o = body.offset
    BY BodyOf, StoredRow
  <2> DEFINE x == [Maintaining!Idle EXCEPT !.pc = "update", !.w = w, !.pre = p, !.new = s,
                                           !.offset = o]
  <2>2. x \in VisitState /\ x.pc = "update" /\ x.w = w /\ x.pre = p /\ x.at = Never
    BY IdleVisit DEF VisitState
  <2>3. Maintaining!GoTo(c, x) /\ Maintaining!Doubt(c, w) /\ Maintaining!Send
        /\ visit[c].pc = "idle" /\ row[w] # NoWindow
        /\ UNCHANGED <<slot, row, current, known, list, told, upsets>>
    BY <1>2, <1>4, <2>1 DEF Maintaining!ReadWindow, Maintaining!ticker
  <2> HIDE DEF x
  <2> QED BY <1>2, <2>2, <2>3, ReadingSafe
<1>5. ASSUME Maintaining!ReadToDelete(c, w) PROVE WInv'
  <2> DEFINE x == [Maintaining!Idle EXCEPT !.pc = "delete", !.w = w, !.pre = p]
  <2>1. x \in VisitState /\ x.pc = "delete" /\ x.w = w /\ x.pre = p /\ x.at = Never
    BY IdleVisit DEF VisitState
  <2>2. Maintaining!GoTo(c, x) /\ Maintaining!Doubt(c, w) /\ Maintaining!Send
        /\ visit[c].pc = "idle" /\ row[w] # NoWindow
        /\ UNCHANGED <<slot, row, current, known, list, told, upsets>>
    BY <1>2, <1>5 DEF Maintaining!ReadToDelete, Maintaining!ticker
  <2> HIDE DEF x
  <2> QED BY <1>2, <2>1, <2>2, ReadingSafe
<1> QED BY <1>3, <1>4, <1>5

LEMMA ReadClockSafe ==
  ASSUME WInv, NEW c \in Clients, Maintaining!ReadClock(c) PROVE WInv'
<1>1. PICK r \in VisitState, t \in Maintaining!Times : r = visit[c] /\ t = slot
  BY VisitsTyped DEF WInv, Maintaining!TypeOK
<1>2. PICK w \in Windows, p \in Maintaining!Row, n \in Maintaining!Row :
        r.w = w /\ r.pre = p /\ r.new = n
  BY DEF VisitState
<1> DEFINE x == [r EXCEPT !.at = t]
<1>3. /\ r.pc \in {"delete", "emit"} /\ Maintaining!GoTo(c, x)
      /\ UNCHANGED <<slot, row, current, known, list, told, unsure, visits, upsets>>
  BY <1>1 DEF Maintaining!ReadClock, Maintaining!ticker
<1>4. x \in VisitState /\ x.pc = r.pc /\ x.w = w /\ x.pre = p /\ x.new = n /\ x.at = t
  BY <1>2 DEF VisitState
<1> HIDE DEF x
<1>5. \A d \in Clients : visit'[d] = IF d = c THEN x ELSE visit[d]
  BY <1>3, <1>4, VisitMoves
<1>6. Visiting(w)' = Visiting(w)
  BY <1>1, <1>2, <1>4, <1>5 DEF Visiting
<1>7. \A d \in Clients : /\ visit'[d].pc = visit[d].pc /\ visit'[d].pre = visit[d].pre
                        /\ visit'[d].new = visit[d].new
                        /\ visit'[d].at \in {visit[d].at, slot}
  BY <1>1, <1>2, <1>4, <1>5
<1>8. ASSUME w \notin unsure' PROVE InTime(w)' /\ Followed(w)'
  <2>0. Visiting(w) \subseteq Clients
    BY DEF Visiting
  <2>1. InTime(w) /\ Followed(w)
    BY <1>3, <1>8 DEF WInv
  <2>2. InTime(w)'
    BY <1>3, <1>6, <1>7, <2>0, <2>1 DEF InTime
  <2>3. Followed(w)'
    BY <1>3, <1>6, <1>7, <2>0, <2>1 DEF Followed
  <2> QED BY <2>2, <2>3
<1>9. x.pc \in {"update", "delete"} => x.pre # NoWindow
  BY <1>1, <1>2, <1>4 DEF WInv, Maintaining!TypeOK
<1>10. VisitChanges(c, w, x)
  BY <1>1, <1>2, <1>3, <1>4, <1>8, <1>9 DEF VisitChanges, WInv, Maintaining!TypeOK
<1> QED BY <1>3, <1>4, <1>10, OneVisit

LEMMA StatementSafe ==
  ASSUME WInv, NEW c \in Clients, Maintaining!Statement(c) PROVE WInv'
<1>1. PICK r \in VisitState : r = visit[c]
  BY VisitsTyped DEF WInv
<1>2. PICK w \in Windows, p \in Maintaining!Row, n \in Maintaining!Row :
        r.w = w /\ r.pre = p /\ r.new = n
  BY DEF VisitState
<1>3. /\ r.pc \in {"insert", "update", "delete"}
      /\ UNCHANGED <<slot, known, list, told, unsure, visits, upsets>>
  BY <1>1 DEF Maintaining!Statement, Maintaining!ticker
<1>4. c \in Visiting(w) /\ (r.pc # "insert" => p # NoWindow)
  BY <1>1, <1>2, <1>3 DEF WInv, Maintaining!TypeOK, Visiting
<1>5. ASSUME w \notin unsure
      PROVE  Visiting(w) = {c} /\ p = row[w] /\ r.at \in {Never, slot}
  BY <1>1, <1>2, <1>3, <1>4, <1>5, OnlyVisit DEF WInv, InTime
<1>6. CASE row[w] = NoWindow /\ r.pc # "insert"
  <2>1. Maintaining!GoTo(c, Maintaining!Idle) /\ row' = row /\ current' = current
    BY <1>1, <1>2, <1>6 DEF Maintaining!Statement
  <2>2. w \in unsure
    BY <1>4, <1>5, <1>6
  <2>3. VisitChanges(c, w, Maintaining!Idle)
    BY <1>1, <1>2, <1>3, <2>1, <2>2, IdleVisit DEF VisitChanges, WInv, Maintaining!TypeOK
  <2> QED BY <2>1, <2>3, IdleVisit, OneVisit
<1>7. CASE ~(row[w] = NoWindow /\ r.pc # "insert")
  <2> DEFINE x == [r EXCEPT !.pc = "emit"]
  <2>1. /\ Maintaining!GoTo(c, x) /\ row' = [row EXCEPT ![w] = n] /\ current' = FALSE
    BY <1>1, <1>2, <1>7 DEF Maintaining!Statement, Maintaining!Write
  <2>2. x \in VisitState /\ x.pc = "emit" /\ x.w = w /\ x.pre = p /\ x.new = n /\ x.at = r.at
    BY <1>2 DEF VisitState
  <2> HIDE DEF x
  <2>3. /\ row' \in [Windows -> Maintaining!Row] /\ row'[w] = n
        /\ \A v \in Windows \ {w} : row'[v] = row[v]
    BY <1>2, <2>1 DEF WInv, Maintaining!TypeOK
  <2>4. \A d \in Clients : visit'[d] = IF d = c THEN x ELSE visit[d]
    BY <2>1, <2>2, VisitMoves
  <2>5. ASSUME w \notin unsure' PROVE InTime(w)' /\ Followed(w)'
    <3>1. w \notin unsure /\ Visiting(w) = {c} /\ p = row[w] /\ r.at \in {Never, slot}
      BY <1>3, <1>5, <2>5
    <3>2. Visiting(w)' = {c}
      BY <2>2, <2>4, <3>1 DEF Visiting
    <3>3. visit'[c] = x
      BY <2>4
    <3>4. InTime(w)'
      BY <1>3, <2>2, <2>3, <3>1, <3>2, <3>3 DEF InTime
    <3>5. (told[w] = "started") # (known[w] = "active") =>
            (told[w] = "started" <=> p \in ActiveRows[slot])
      BY <1>1, <1>3, <3>1 DEF WInv, Followed
    <3>6. Followed(w)'
      BY <1>3, <2>2, <3>2, <3>3, <3>5 DEF Followed
    <3> QED BY <3>4, <3>6
  <2>6. VisitChanges(c, w, x)
    BY <1>1, <1>2, <1>3, <2>1, <2>2, <2>3, <2>5
       DEF VisitChanges, WInv, Maintaining!TypeOK
  <2> QED BY <2>1, <2>2, <2>6, OneVisit
<1> QED BY <1>6, <1>7

\* What the handler tells is the change from the row before to the row there is,
\* unless the client's offset misleads it; then the ticker notices.
LEMMA EventOf ==
  ASSUME NEW r
  PROVE  LET ev == Maintaining!Event(r) IN
         /\ ev \in {"none", "started", "ended"}
         /\ ev = "started" <=> ~Maintaining!Was(r) /\ Maintaining!Is(r)
         /\ ev = "ended" <=> Maintaining!Was(r) /\ ~Maintaining!Is(r)
<1>1. Maintaining!Was(r) \in BOOLEAN /\ Maintaining!Is(r) \in BOOLEAN
  BY DEF Maintaining!Was, Maintaining!Is
<1> QED BY <1>1 DEF Maintaining!Event

LEMMA NotMisled ==
  ASSUME NEW r \in VisitState, r.at \in Maintaining!Times, ~Maintaining!Misled(r)
  PROVE  /\ Maintaining!Was(r) <=> r.pre \in ActiveRows[r.at]
         /\ Maintaining!Is(r) <=> r.new \in ActiveRows[r.at]
<1>1. r.pre \in Maintaining!Row /\ r.new \in Maintaining!Row
  BY DEF VisitState
<1>2. Maintaining!Was(r) <=> r.pre \in ActiveRows[r.at]
  BY <1>1, ActiveRow DEF Maintaining!Was
<1>3. Maintaining!Is(r) <=> r.new # NoWindow /\ Maintaining!IsActiveAt(r.new, r.at)
  BY DEF Maintaining!Misled, Maintaining!Is
<1> QED BY <1>1, <1>2, <1>3, ActiveRow

LEMMA EmitSafe == ASSUME WInv, NEW c \in Clients, Maintaining!Emit(c) PROVE WInv'
<1>1. PICK r \in VisitState : r = visit[c]
  BY VisitsTyped DEF WInv
<1>2. PICK w \in Windows, p \in Maintaining!Row, n \in Maintaining!Row :
        r.w = w /\ r.pre = p /\ r.new = n
  BY DEF VisitState
<1>3. PICK ev \in {"none", "started", "ended"} : ev = Maintaining!Event(r)
  BY EventOf
<1>4. /\ r.pc = "emit" /\ r.at # Never /\ Maintaining!GoTo(c, Maintaining!Idle)
      /\ UNCHANGED <<slot, row, current, known, list, visits>>
      /\ \/ /\ told' = Maintaining!Tell(w, ev) /\ upsets' = upsets
            /\ unsure' = unsure \cup
                 {v \in {w} : Maintaining!Misled(r) /\ Maintaining!Unnoticed(told'[v], v, slot)}
         \/ /\ upsets < MaxUpsets /\ upsets' = upsets + 1
            /\ unsure' = unsure \cup {w} /\ UNCHANGED told
  BY <1>1, <1>2, <1>3 DEF Maintaining!Emit, Maintaining!ticker
<1>5. c \in Visiting(w) /\ slot \in Maintaining!Times /\ row[w] \in Maintaining!Row
  BY <1>1, <1>2, <1>4 DEF Visiting, WInv, Maintaining!TypeOK
<1>6. /\ told' \in [Windows -> {"none", "started", "ended"}]
      /\ \A v \in Windows \ {w} : told'[v] = told[v]
      /\ w \notin unsure' => told'[w] = IF ev = "none" THEN told[w] ELSE ev
  BY <1>4 DEF Maintaining!Tell, WInv, Maintaining!TypeOK
<1>7. ASSUME w \notin unsure' PROVE InTime(w)' /\ Followed(w)'
  <2>1. w \notin unsure
        /\ (~Maintaining!Misled(r) \/ ~Maintaining!Unnoticed(told'[w], w, slot))
    BY <1>4, <1>7
  <2>2. Visiting(w) = {c} /\ n = row[w] /\ r.at = slot
    BY <1>1, <1>2, <1>4, <1>5, <2>1, OnlyVisit DEF WInv, InTime
  <2>3. \A d \in Clients : visit'[d] = IF d = c THEN Maintaining!Idle ELSE visit[d]
    BY <1>4, IdleVisit, VisitMoves
  <2>4. Visiting(w)' = {}
    BY <2>2, <2>3, IdleVisit DEF Visiting
  <2>5. InTime(w)'
    BY <2>4 DEF InTime
  <2>6. (told[w] = "started") # (known[w] = "active") =>
          (told[w] = "started" <=> p \in ActiveRows[slot])
    BY <1>1, <1>2, <1>4, <1>5, <2>1 DEF WInv, Followed
  <2>7. (told'[w] = "started") # (known[w] = "active") =>
          (told'[w] = "started" <=> row[w] \in ActiveRows[slot])
    <3>1. CASE ~Maintaining!Misled(r)
      <4>1. /\ Maintaining!Was(r) <=> p \in ActiveRows[slot]
            /\ Maintaining!Is(r) <=> n \in ActiveRows[slot]
        BY <1>2, <1>5, <2>2, <3>1, NotMisled
      <4>2. /\ ev = "started" <=> ~Maintaining!Was(r) /\ Maintaining!Is(r)
            /\ ev = "ended" <=> Maintaining!Was(r) /\ ~Maintaining!Is(r)
        BY <1>3, EventOf
      <4> QED BY <1>6, <1>7, <2>2, <2>6, <4>1, <4>2
    <3>2. CASE ~Maintaining!Unnoticed(told'[w], w, slot)
      <4>1. Maintaining!Active(w, slot) <=> row[w] \in ActiveRows[slot]
        BY <1>5, ActiveRow DEF Maintaining!Active
      <4> QED BY <3>2, <4>1 DEF Maintaining!Unnoticed, Maintaining!Active
    <3> QED BY <2>1, <3>1, <3>2
  <2>8. Followed(w)'
    BY <1>4, <2>4, <2>7 DEF Followed
  <2> QED BY <2>5, <2>8
<1>8. upsets' \in 0..MaxUpsets /\ unsure \subseteq unsure' /\ unsure' \subseteq Windows
  BY <1>4, WindowConstants DEF WInv, Maintaining!TypeOK
<1>9. VisitChanges(c, w, Maintaining!Idle)
  BY <1>1, <1>2, <1>4, <1>6, <1>7, <1>8, IdleVisit
     DEF VisitChanges, WInv, Maintaining!TypeOK
<1> QED BY <1>4, <1>9, IdleVisit, OneVisit

---------------------------------------------------------------------------
(***************************************************************************)
(* The ticker, time and restarts.                                          *)
(***************************************************************************)
LEMMA PollListSafe == ASSUME WInv, Maintaining!PollList PROVE WInv'
<1>1. PICK t \in 0..slot : list' = [at |-> t, row |-> row]
  BY DEF Maintaining!PollList
<1>2. UNCHANGED <<slot, row, visit, known, told, current, unsure, visits, upsets>>
  BY DEF Maintaining!PollList
<1>3. t \in Maintaining!Times
  BY WindowConstants DEF WInv, Maintaining!TypeOK, Maintaining!Times
<1>4. Maintaining!TypeOK'
  BY <1>1, <1>2, <1>3 DEF WInv, Maintaining!TypeOK
<1>5. Polled'
  BY <1>2 DEF WInv, Polled
<1>6. \A w \in Windows : Visiting(w)' = Visiting(w)
  BY <1>2 DEF Visiting
<1>7. ASSUME NEW w \in Windows \ unsure' PROVE InTime(w)' /\ Followed(w)'
  BY <1>2, <1>6, <1>7, WindowAside DEF WInv
<1> QED BY <1>4, <1>5, <1>7 DEF WInv

\* After a poll the ticker and the subscribers agree, or a request has told
\* what the ticker's rows say.
LEMMA PollApplySafe == ASSUME WInv, Maintaining!PollApply PROVE WInv'
<1>0. PICK missed \in SUBSET {w \in Windows : Maintaining!TickerEvent(w) # "none"} :
        /\ IF missed = {} THEN UNCHANGED upsets
           ELSE upsets < MaxUpsets /\ upsets' = upsets + 1
        /\ told' = [w \in Windows |->
                      IF Maintaining!TickerEvent(w) = "none" \/ w \in missed THEN told[w]
                      ELSE Maintaining!TickerEvent(w)]
        /\ unsure' = unsure \cup missed \cup
             {w \in Windows : \/ \E c \in Clients : visit[c].pc # "idle" /\ visit[c].w = w
                              \/ list.row[w] # row[w]}
  BY DEF Maintaining!PollApply
<1>1. /\ known' = [w \in Windows |-> IF ~Maintaining!Listed(w) THEN "no"
                                     ELSE IF Maintaining!SeenActive(w) THEN "active"
                                     ELSE "inactive"]
      /\ current' = (list = [at |-> slot, row |-> row]) /\ list' = Maintaining!NoList
      /\ UNCHANGED <<slot, row, visit, visits>>
  BY DEF Maintaining!PollApply
<1>2. \A w \in Windows :
        Maintaining!TickerEvent(w) =
          IF known[w] # "active" /\ Maintaining!SeenActive(w) THEN "started"
          ELSE IF known[w] = "active" /\ ~Maintaining!SeenActive(w) THEN "ended" ELSE "none"
  BY DEF Maintaining!TickerEvent
<1>3. \A w \in Windows : Maintaining!SeenActive(w) => Maintaining!Listed(w)
  BY DEF Maintaining!SeenActive
<1>4. \A w \in Windows : known'[w] = "active" <=> Maintaining!SeenActive(w)
  BY <1>1, <1>3
<1>5. \A w \in Windows \ unsure' :
        told'[w] = IF Maintaining!TickerEvent(w) = "none" THEN told[w]
                   ELSE Maintaining!TickerEvent(w)
  BY <1>0
<1>6. known' \in [Windows -> {"no", "active", "inactive"}]
  BY <1>1
<1>7. told' \in [Windows -> {"none", "started", "ended"}]
  BY <1>0, <1>2 DEF WInv, Maintaining!TypeOK
<1>8. Maintaining!TypeOK'
  <2>1. upsets' \in 0..MaxUpsets
    BY <1>0, WindowConstants DEF WInv, Maintaining!TypeOK
  <2>2. unsure' \subseteq Windows
    BY <1>0 DEF WInv, Maintaining!TypeOK
  <2> QED BY <1>1, <1>6, <1>7, <2>1, <2>2
             DEF WInv, Maintaining!TypeOK, Maintaining!NoList, Maintaining!Row
<1>9. Polled'
  <2> SUFFICES ASSUME current', NEW w \in Windows
               PROVE  known'[w] = "active" <=> row'[w] \in ActiveRows[slot']
    BY DEF Polled
  <2>1. list.row[w] = row[w] /\ list.at = slot
    <3>1. list = [at |-> slot, row |-> row]
      BY <1>1, Zenon
    <3> QED BY <3>1
  <2>2. row[w] \in Maintaining!Row /\ slot \in Maintaining!Times
    BY DEF WInv, Maintaining!TypeOK
  <2>3. Maintaining!SeenActive(w) <=>
          row[w] # NoWindow /\ Maintaining!IsActiveAt(row[w], slot)
    BY <2>1 DEF Maintaining!SeenActive, Maintaining!Listed
  <2>4. Maintaining!SeenActive(w) <=> row[w] \in ActiveRows[slot]
    BY <2>2, <2>3, ActiveRow
  <2> QED BY <1>1, <1>4, <2>4
<1>10. ASSUME NEW w \in Windows \ unsure' PROVE InTime(w)' /\ Followed(w)'
  <2>1. Visiting(w) = {} /\ w \notin unsure
    BY <1>0 DEF Visiting
  <2>2. Visiting(w)' = {}
    BY <1>1, <2>1 DEF Visiting
  <2>3. InTime(w)'
    BY <2>2 DEF InTime
  <2>4. (told[w] = "started") # (known[w] = "active") =>
          (told[w] = "started" <=> row[w] \in ActiveRows[slot])
    BY <2>1, Unvisited DEF WInv
  <2>5. \/ (told'[w] = "started") = (known'[w] = "active")
        \/ told'[w] = told[w] /\ (known'[w] = "active" <=> known[w] = "active")
    <3>1. CASE known[w] # "active" /\ Maintaining!SeenActive(w)
      BY <1>2, <1>4, <1>5, <3>1
    <3>2. CASE known[w] = "active" /\ ~Maintaining!SeenActive(w)
      BY <1>2, <1>4, <1>5, <3>2
    <3>3. CASE known[w] = "active" /\ Maintaining!SeenActive(w)
      BY <1>2, <1>4, <1>5, <3>3
    <3>4. CASE known[w] # "active" /\ ~Maintaining!SeenActive(w)
      BY <1>2, <1>4, <1>5, <3>4
    <3> QED BY <3>1, <3>2, <3>3, <3>4
  <2>6. (told'[w] = "started") # (known'[w] = "active") =>
          (told'[w] = "started" <=> row[w] \in ActiveRows[slot])
    BY <2>4, <2>5
  <2>7. Followed(w)'
    BY <1>1, <2>2, <2>6 DEF Followed
  <2> QED BY <2>3, <2>7
<1> QED BY <1>8, <1>9, <1>10 DEF WInv

LEMMA TickSafe == ASSUME WInv, Maintaining!Tick PROVE WInv'
<1>1. /\ slot < MaxSlot /\ slot' = slot + 1 /\ current' = FALSE
      /\ unsure' = unsure \cup {w \in Windows : Maintaining!Undone(w)}
                          \cup Maintaining!InProgress
      /\ UNCHANGED <<row, visit, known, list, told, visits, upsets>>
  BY DEF Maintaining!Tick, Maintaining!ticker
<1>2. visit \in [Clients -> VisitState]
  BY VisitsTyped DEF WInv
<1>3. Maintaining!InProgress \subseteq Windows
  BY <1>2 DEF Maintaining!InProgress, VisitState
<1>4. slot \in Maintaining!Times /\ slot' \in Maintaining!Times
  BY <1>1, WindowConstants DEF WInv, Maintaining!TypeOK, Maintaining!Times
<1>5. Maintaining!TypeOK'
  BY <1>1, <1>3, <1>4 DEF WInv, Maintaining!TypeOK
<1>6. Polled'
  BY <1>1 DEF Polled
<1>7. ASSUME NEW w \in Windows \ unsure' PROVE InTime(w)' /\ Followed(w)'
  <2>1. Visiting(w) = {} /\ w \notin unsure /\ ~Maintaining!Undone(w)
    BY <1>1 DEF Visiting, Maintaining!InProgress
  <2>2. Visiting(w)' = {}
    BY <1>1, <2>1 DEF Visiting
  <2>3. InTime(w)'
    BY <2>2 DEF InTime
  <2>4. PICK t \in Maintaining!Times : t = slot + 1 /\ t = slot'
    BY <1>1, <1>4
  <2>5. row[w] \in Maintaining!Row
    BY DEF WInv, Maintaining!TypeOK
  <2>6. Maintaining!Active(w, slot + 1) <=>
          row[w] # NoWindow /\ Maintaining!IsActiveAt(row[w], t)
    BY <2>4 DEF Maintaining!Active
  <2>7. Maintaining!Active(w, slot + 1) <=> row[w] \in ActiveRows[t]
    BY <2>5, <2>6, ActiveRow
  <2>8. (told[w] = "started") # (known[w] = "active") =>
          (told[w] = "started" <=> row[w] \in ActiveRows[t])
    BY <2>1, <2>7 DEF Maintaining!Undone, Maintaining!Unnoticed, Maintaining!Active
  <2>9. Followed(w)'
    BY <1>1, <2>2, <2>4, <2>8 DEF Followed
  <2> QED BY <2>3, <2>9
<1> QED BY <1>5, <1>6, <1>7 DEF WInv

LEMMA RestartSafe == ASSUME WInv, Maintaining!Restart PROVE WInv'
<1>1. /\ upsets < MaxUpsets /\ upsets' = upsets + 1
      /\ known' = [w \in Windows |-> "no"] /\ list' = Maintaining!NoList
      /\ visit' = [c \in Clients |-> Maintaining!Idle]
      /\ unsure' = unsure \cup {w \in Windows : told[w] = "started"}
                          \cup Maintaining!InProgress
      /\ current' = FALSE /\ UNCHANGED <<slot, row, told, visits>>
  BY DEF Maintaining!Restart
<1>2. Maintaining!InProgress \subseteq Windows
  BY VisitsTyped DEF WInv, Maintaining!InProgress, VisitState
<1>3. /\ visit' \in [Clients -> VisitState]
      /\ \A c \in Clients : visit'[c] = Maintaining!Idle
  BY <1>1, IdleVisit
<1>4. upsets' \in 0..MaxUpsets
  BY <1>1, WindowConstants DEF WInv, Maintaining!TypeOK
<1>5. Maintaining!TypeOK'
  BY <1>1, <1>2, <1>3, <1>4, IdleVisit
     DEF WInv, Maintaining!TypeOK, VisitState, Maintaining!NoList, Maintaining!Row
<1>6. Polled'
  BY <1>1 DEF Polled
<1>7. \A w \in Windows : Visiting(w)' = {}
  BY <1>3, IdleVisit DEF Visiting
<1>8. ASSUME NEW w \in Windows \ unsure' PROVE InTime(w)' /\ Followed(w)'
  BY <1>1, <1>7 DEF InTime, Followed
<1> QED BY <1>5, <1>6, <1>8 DEF WInv

---------------------------------------------------------------------------
LEMMA WInit == Maintaining!Init => WInv
<1> SUFFICES ASSUME Maintaining!Init PROVE WInv
  OBVIOUS
<1>1. /\ slot = 0
      /\ row \in [Windows -> {Maintaining!Stored(win) : win \in Initial} \cup {NoWindow}]
      /\ visit = [c \in Clients |-> Maintaining!Idle]
      /\ known = [w \in Windows |-> "no"] /\ list = Maintaining!NoList
      /\ told = [w \in Windows |-> "none"] /\ current = FALSE /\ unsure = {}
      /\ visits = 0 /\ upsets = 0
  BY DEF Maintaining!Init
<1>2. {Maintaining!Stored(win) : win \in Initial} \subseteq Maintaining!Row
  BY WindowConstants, StoredRow
<1>3. row \in [Windows -> Maintaining!Row]
  BY <1>1, <1>2 DEF Maintaining!Row
<1>4. /\ visit \in [Clients -> VisitState]
      /\ \A c \in Clients : visit[c] = Maintaining!Idle
  BY <1>1, IdleVisit
<1>5. slot \in Maintaining!Times /\ visits \in 0..MaxVisits /\ upsets \in 0..MaxUpsets
  BY <1>1, WindowConstants DEF Maintaining!Times
<1>6. Maintaining!TypeOK
  BY <1>1, <1>3, <1>4, <1>5, IdleVisit
     DEF Maintaining!TypeOK, VisitState, Maintaining!NoList, Maintaining!Row
<1>7. Polled
  BY <1>1 DEF Polled
<1>8. \A w \in Windows : Visiting(w) = {}
  BY <1>4, IdleVisit DEF Visiting
<1>9. \A w \in Windows : InTime(w) /\ Followed(w)
  BY <1>1, <1>8 DEF InTime, Followed
<1> QED BY <1>6, <1>7, <1>9 DEF WInv

LEMMA WStutters == ASSUME WInv, UNCHANGED Maintaining!vars PROVE WInv'
<1>1. UNCHANGED <<slot, row, visit, known, list, told, current, unsure, visits, upsets>>
  BY DEF Maintaining!vars
<1>2. Maintaining!TypeOK' /\ Polled'
  BY <1>1 DEF WInv, Maintaining!TypeOK, Polled
<1>3. \A w \in Windows : Visiting(w)' = Visiting(w)
  BY <1>1 DEF Visiting
<1>4. ASSUME NEW w \in Windows \ unsure' PROVE InTime(w)' /\ Followed(w)'
  BY <1>1, <1>3, <1>4, WindowAside DEF WInv
<1> QED BY <1>2, <1>4 DEF WInv

LEMMA WStep == ASSUME WInv, [Maintaining!Next]_Maintaining!vars PROVE WInv'
BY ReadWindowSafe, ReadClockSafe, StatementSafe, EmitSafe, PollListSafe, PollApplySafe,
   TickSafe, RestartSafe, WStutters DEF Maintaining!Next

\* The inductive invariant holds of every reachable state.
THEOREM WindowsInvariant == Maintaining!Spec => []WInv
BY WInit, WStep, PTL DEF Maintaining!Spec

LEMMA LastEventsAreTrue == ASSUME WInv PROVE Maintaining!EventsFollowWindows
<1> SUFFICES ASSUME current, Maintaining!InProgress = {}, NEW w \in Windows \ unsure
             PROVE  told[w] = "started" <=> Maintaining!Active(w, slot)
  BY DEF Maintaining!EventsFollowWindows
<1>1. Visiting(w) = {}
  BY DEF Visiting, Maintaining!InProgress
<1>2. (told[w] = "started") # (known[w] = "active") =>
        (told[w] = "started" <=> row[w] \in ActiveRows[slot])
  BY <1>1, Unvisited DEF WInv
<1>3. known[w] = "active" <=> row[w] \in ActiveRows[slot]
  BY DEF WInv, Polled
<1>4. row[w] \in Maintaining!Row /\ slot \in Maintaining!Times
  BY DEF WInv, Maintaining!TypeOK
<1>5. Maintaining!Active(w, slot) <=> row[w] \in ActiveRows[slot]
  BY <1>4, ActiveRow DEF Maintaining!Active
<1> QED BY <1>2, <1>3, <1>5

---------------------------------------------------------------------------
(***************************************************************************)
(* THE ORGANISATION                                                        *)
(***************************************************************************)
\* A step of one part is a step or a stutter of the others.
LEMMA PartsRun == OrganisationSpec => Spec /\ Setting!Spec /\ Maintaining!Spec
<1>1. OrganisationInit => Init /\ Setting!Init /\ Maintaining!Init
  BY DEF OrganisationInit
<1>2. ASSUME [AccountStep \/ SettingStep \/ WindowStep]_<<accounts, setting, maintaining>>
      PROVE  [Next]_vars /\ [Setting!Next]_Setting!vars /\ [Maintaining!Next]_Maintaining!vars
  BY <1>2 DEF AccountStep, SettingStep, WindowStep, accounts, setting, maintaining,
              Setting!vars, Setting!children, Setting!channels, Maintaining!vars
<1> QED BY <1>1, <1>2, PTL DEF OrganisationSpec, Spec, Setting!Spec, Maintaining!Spec

\* The three parts stay well formed: users belong to an organisation, rules to
\* states and steps to policies that exist.
THEOREM OrganisationTypes == OrganisationSpec => []Types
<1>1. AInv /\ LInv /\ WInv => Types
  BY DEF AInv, LInv, WInv, Types
<1> QED BY <1>1, PartsRun, AccountsInvariant, SettingsInvariant, WindowsInvariant, PTL

\* However requests that replace steps and rules interleave and stop short, a
\* list is that of one of them, unless two replace it at once; and a secret
\* outlives the writes of clients that were only shown its mask.
THEOREM SettingsAreKept == OrganisationSpec => []SettingsKept
<1>1. LInv => SettingsKept
  BY ListsAreWhole, SecretIsKept DEF SettingsKept
<1> QED BY <1>1, PartsRun, SettingsInvariant, PTL

\* Whatever its recurrence, a window is active in its occurrences, and pages
\* are suppressed exactly while a window of the monitor itself is active.
THEOREM SuppressionFollowsWindows == OrganisationSpec => []SuppressedWhileActive
<1>1. WInv => SuppressedWhileActive
  BY ActiveWhenOccurring, PagesSuppressed DEF WInv, SuppressedWhileActive
<1> QED BY <1>1, PartsRun, WindowsInvariant, PTL

\* Whatever handlers and the ticker tell and in whichever order, the last
\* event of a window says whether it is active, with the stated exceptions.
THEOREM LastEventsFollowWindows == OrganisationSpec => []EventsFollowWindows
<1>1. WInv => EventsFollowWindows
  BY LastEventsAreTrue DEF EventsFollowWindows
<1> QED BY <1>1, PartsRun, WindowsInvariant, PTL
=============================================================================
