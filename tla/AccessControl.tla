---------------------------- MODULE AccessControl ----------------------------
(***************************************************************************)
(* Who may do what in one tenant: the users, their OIDC identities, their  *)
(* roles and queue memberships, and the administrators who change them.    *)
(*                                                                         *)
(* A request authenticates in one transaction, which in the OIDC mode      *)
(* (identity/oidc_service.py) creates an unknown user or refreshes a known *)
(* profile and in the developer mode (identity/service.py) does neither,   *)
(* and carries the roles it read as a snapshot. If the snapshot allows it  *)
(* (identity/authorization.py) it then runs one command of                 *)
(* admin/service.py in a second transaction: the tenant's advisory lock,   *)
(* the user row, the checks, the change and its audit row. Several         *)
(* requests run at once; a process may die between any two steps and       *)
(* loses its transaction.                                                  *)
(*                                                                         *)
(* A row's updated_at is a counter: its trigger moves it at every UPDATE.  *)
(* Names, e-mail addresses and locales are left out; a profile either      *)
(* differs from the token's or does not.                                   *)
(***************************************************************************)
EXTENDS Integers, Sequences, FiniteSets

CONSTANTS
    Requests,        \* HTTP requests, each served once
    Subjects,        \* subjects of the identity provider
    Users,           \* rows of identity.app_user, present or not yet inserted
    Roles,           \* role codes the catalogue knows
    Admin,           \* PLATFORM_ADMIN, the only role with ADMIN_IDENTITY_WRITE
    MemberRoles,     \* roles a member of the queue may have
    KnownUser,       \* the user each subject is linked to at the start, or None
    None             \* no user, no request

Absent == "NONE"       \* no membership row
Inactive == "INACTIVE" \* a membership row with active_flag false

ASSUME AccessAssumption ==
    /\ Admin \in Roles
    /\ Inactive \notin MemberRoles
    /\ None \notin Requests \cup Users
    /\ KnownUser \in [Subjects -> Users \cup {None}]
    /\ \E s \in Subjects : KnownUser[s] # None
    /\ IsFiniteSet(Subjects) /\ IsFiniteSet(Users)
    /\ Cardinality(Subjects) <= Cardinality(Users) \* a row is free for every newcomer
    /\ \A s, t \in Subjects : KnownUser[s] = KnownUser[t] /\ s # t => KnownUser[s] = None

VARIABLES
    mode,        \* settings.oidc_enabled: how this deployment authenticates
    user,        \* identity.app_user: present, active_flag, updated_at
    open,        \* identity.user_role: open assignments per user and role
    member,      \* identity.support_group_member of one queue
    shown,       \* employee_visible_flag of one request type, with updated_at
    linked,      \* identity.external_identity: the user of each subject
    inserting,   \* the request whose first login of a subject is uncommitted
    tenantLock,  \* pg_advisory_xact_lock of the tenant
    rowLock,     \* FOR UPDATE locks on identity.app_user
    req,         \* the requests
    trail,       \* audit.audit_event, in commit order
    events       \* requests with a DENIED row in audit.security_event

rows == <<mode, user, open, member, shown, linked>>
locks == <<inserting, tenantLock, rowLock>>
vars == <<mode, user, open, member, shown, linked, inserting, tenantLock, rowLock, req, trail, events>>

Present == {u \in Users : user[u].present}
IdentityOps == {"STATUS", "ASSIGN", "REMOVE"}

Commands ==
    [op : {"STATUS"}, target : Users, to : BOOLEAN, expected : Nat]
      \cup [op : {"ASSIGN", "REMOVE"}, target : Users, role : Roles]
      \cup [op : {"JOIN"}, target : Users, role : MemberRoles]
      \cup [op : {"LEAVE"}, target : Users]
      \cup [op : {"SHOW"}, to : BOOLEAN, expected : Nat]
NoCommand == [op |-> "NONE"]

\* identity.external_identity: at most one row of a subject.
Links == [Subjects -> Users \cup {None}]

TypeOK ==
    /\ user \in [Users -> [present : BOOLEAN, active : BOOLEAN, version : Nat]]
    /\ open \in [Users -> [Roles -> Nat]]
    /\ member \in [Users -> {Absent, Inactive} \cup MemberRoles]
    /\ mode \in {"oidc", "developer"}
    /\ shown \in [value : BOOLEAN, version : Nat]
    /\ linked \in Links
    /\ inserting \in [Subjects -> Requests \cup {None}]
    /\ tenantLock \in Requests \cup {None}
    /\ rowLock \in [Users -> Requests \cup {None}]
    /\ \A r \in Requests :
         /\ req[r].phase \in {"new", "unknown", "created", "known", "session", "waiting",
                              "tenant", "locked", "counted", "denied", "done", "refused", "crashed"}
         /\ req[r].subject \in Subjects \cup {None}
         /\ req[r].user \in Users \cup {None}
         /\ req[r].roles \subseteq Roles
         /\ req[r].cmd \in Commands \cup {NoCommand}
    /\ events \subseteq Requests

\* The users there at the start are administrators.
OpenAtStart(u, p) == IF p = Admin /\ \E s \in Subjects : KnownUser[s] = u THEN 1 ELSE 0

Init ==
    /\ mode \in {"oidc", "developer"}
    /\ user = [u \in Users |->
                 [present |-> \E s \in Subjects : KnownUser[s] = u, active |-> TRUE, version |-> 1]]
    /\ open = [u \in Users |-> [p \in Roles |-> OpenAtStart(u, p)]]
    /\ member = [u \in Users |-> Absent]
    /\ shown = [value |-> TRUE, version |-> 1]
    /\ linked = KnownUser
    /\ inserting = [s \in Subjects |-> None]
    /\ tenantLock = None
    /\ rowLock = [u \in Users |-> None]
    /\ req = [r \in Requests |-> [phase |-> "new", subject |-> None, user |-> None,
                                  roles |-> {}, cmd |-> NoCommand]]
    /\ trail = <<>>
    /\ events = {}

(***************************************************************************)
(* Transactions.                                                           *)
(***************************************************************************)

\* The end of r's transaction, either way: every lock it holds is released.
Release(r) ==
    /\ inserting' = [s \in Subjects |-> IF inserting[s] = r THEN None ELSE inserting[s]]
    /\ tenantLock' = IF tenantLock = r THEN None ELSE tenantLock
    /\ rowLock' = [u \in Users |-> IF rowLock[u] = r THEN None ELSE rowLock[u]]

Phase(r, p) == req' = [req EXCEPT ![r].phase = p]

\* The answer, or the loss, of r: its context and its command end with it.
End(r, p) == req' = [req EXCEPT ![r].phase = p, ![r].roles = {}, ![r].cmd = NoCommand]

\* The refusal is recorded in a transaction of its own and the caller told.
RecordSecurityEvent(r) == events' = events \cup {r}
Refuse(r) == End(r, "refused") /\ RecordSecurityEvent(r)

\* audit.audit_event in the transaction of the change: what changed, and how.
Record(r, what, from, to) ==
    trail' = Append(trail, [what |-> what, from |-> from, to |-> to, by |-> req[r].user])

EffectiveRoles(u) == {p \in Roles : open[u][p] > 0}

(***************************************************************************)
(* Authentication.                                                         *)
(***************************************************************************)

\* The user an external identity names, and in the developer mode the user whose
\* row has the subject: there nobody is provisioned.
ExternalIdentity(s) == linked[s]
UserBySubject(s) == KnownUser[s]

\* The user was found: an inactive one is refused, and the refusal kept.
Recognised(r, s, u) ==
    \/ /\ user[u].active
       /\ req' = [req EXCEPT ![r].phase = "known", ![r].subject = s, ![r].user = u]
       /\ UNCHANGED events
    \/ /\ ~ user[u].active
       /\ req' = [req EXCEPT ![r].phase = "refused", ![r].subject = s]
       /\ RecordSecurityEvent(r)

\* The external identity and its user, as the transaction finds them.
ResolveIdentity(r, s) ==
    \/ ExternalIdentity(s) # None /\ Recognised(r, s, ExternalIdentity(s))
    \/ /\ ExternalIdentity(s) = None
       /\ req' = [req EXCEPT ![r].phase = "unknown", ![r].subject = s]
       /\ UNCHANGED events

\* The developer mode never provisions: an unknown selector is refused.
DeveloperIdentity(r, s) ==
    \/ UserBySubject(s) # None /\ Recognised(r, s, UserBySubject(s))
    \/ UserBySubject(s) = None /\ Refuse(r)

\* require_authenticated_context: the one mechanism the deployment accepts. A
\* request without it is refused; most, not all, of these refusals are recorded.
Authenticate(r) ==
    /\ req[r].phase = "new"
    /\ \/ mode = "oidc" /\ \E s \in Subjects : ResolveIdentity(r, s)
       \/ mode = "developer" /\ \E s \in Subjects : DeveloperIdentity(r, s)
       \/ End(r, "refused") /\ (UNCHANGED events \/ RecordSecurityEvent(r))
    /\ UNCHANGED <<rows, locks, trail>>

\* Mutant of CreateUser: the user is inserted without looking at the unique indexes.
CreateUser_Mutant(r) ==
    LET s == req[r].subject IN
    /\ req[r].phase = "unknown"
    /\ inserting[s] = None
    /\ inserting' = [inserting EXCEPT ![s] = r]
    /\ Phase(r, "created")
    /\ UNCHANGED <<rows, tenantLock, rowLock, trail, events>>

\* JIT provisioning. The unique indexes on the subject make the second of two
\* first logins wait for the first; if that one commits, the second fails and
\* is answered 503.
CreateUser(r) ==
    LET s == req[r].subject IN
    /\ req[r].phase = "unknown"
    /\ inserting[s] = None
    /\ IF linked[s] = None
       THEN inserting' = [inserting EXCEPT ![s] = r] /\ Phase(r, "created")
       ELSE End(r, "refused") /\ UNCHANGED inserting
    /\ UNCHANGED <<rows, tenantLock, rowLock, trail, events>>

\* The commit of a first login: the user and the identity appear together. A
\* new user has no role.
PublishUser(r) ==
    /\ req[r].phase = "created"
    /\ LET u == CHOOSE v \in Users : v \notin Present IN
         /\ user' = [user EXCEPT ![u].present = TRUE]
         /\ linked' = [linked EXCEPT ![req[r].subject] = u]
         /\ req' = [req EXCEPT ![r].phase = "session", ![r].user = u]
    /\ Release(r)
    /\ UNCHANGED <<mode, open, member, shown, trail, events>>

\* synchronize_profile writes the row if the token differs, which waits for its
\* lock; the developer mode has no token.
SynchronizeProfile(u) ==
    \/ UNCHANGED user
    \/ /\ mode = "oidc" /\ rowLock[u] = None
       /\ user' = [user EXCEPT ![u].version = @ + 1]

\* A known user: the profile is refreshed and the roles of the moment become
\* the request's.
IssueContext(r) ==
    LET u == req[r].user IN
    /\ req[r].phase = "known"
    /\ SynchronizeProfile(u)
    /\ req' = [req EXCEPT ![r].phase = "session", ![r].roles = EffectiveRoles(u)]
    /\ UNCHANGED <<mode, open, member, shown, linked, locks, trail, events>>

(***************************************************************************)
(* Administration.                                                         *)
(***************************************************************************)

\* ROLE_PERMISSIONS, of the two permissions the commands need.
RolePermissions(p) == IF p = Admin THEN {"ADMIN_IDENTITY_WRITE", "ADMIN_CONFIG_WRITE"} ELSE {}

\* is_allowed: what the roles of the context, read at authentication, permit.
Allowed(r) == UNION {RolePermissions(p) : p \in req[r].roles}

\* The permission each endpoint of admin/api.py asks for.
Needed(c) == IF c.op = "SHOW" THEN "ADMIN_CONFIG_WRITE" ELSE "ADMIN_IDENTITY_WRITE"

\* require_permission on the endpoint, and _forbid_self_mutation.
ForbiddenTo(r, c) ==
    \/ Needed(c) \notin Allowed(r)
    \/ c.op \in IdentityOps /\ c.target = req[r].user

\* What the caller sends: about a user that exists, with the updated_at of
\* the user, or of the request type, that some earlier page showed.
Ask(r, c) ==
    /\ req[r].phase = "session"
    /\ c.op \notin {"SHOW"} => c.target \in Present
    /\ IF ForbiddenTo(r, c) THEN Refuse(r)
       ELSE req' = [req EXCEPT ![r].phase = "waiting", ![r].cmd = c] /\ UNCHANGED events
    /\ UNCHANGED <<rows, locks, trail>>

\* Mutant of LockTenantIdentity: identity commands of a tenant run side by side.
LockTenantIdentity_Mutant(r) ==
    /\ req[r].phase = "waiting" /\ req[r].cmd.op \in IdentityOps
    /\ Phase(r, "tenant")
    /\ UNCHANGED <<rows, locks, trail, events>>

\* lock_tenant_identity: one identity command of a tenant at a time.
LockTenantIdentity(r) ==
    /\ req[r].phase = "waiting" /\ req[r].cmd.op \in IdentityOps
    /\ tenantLock = None
    /\ tenantLock' = r
    /\ Phase(r, "tenant")
    /\ UNCHANGED <<rows, inserting, rowLock, trail, events>>

\* user_for_update, which add_queue_member takes without the tenant's lock.
UserForUpdate(r) ==
    LET c == req[r].cmd IN
    /\ \/ req[r].phase = "tenant"
       \/ req[r].phase = "waiting" /\ c.op = "JOIN"
    /\ rowLock[c.target] = None
    /\ rowLock' = [rowLock EXCEPT ![c.target] = r]
    /\ Phase(r, "locked")
    /\ UNCHANGED <<rows, inserting, tenantLock, trail, events>>

\* active_admin_count: active users with an open assignment, without u.
OtherAdmins(u) == {v \in Present \ {u} : user[v].active /\ open[v][Admin] > 0}

\* The command finds what it asks for and changes nothing.
Nothing(r) == End(r, "done") /\ UNCHANGED <<rows, trail>>

\* ConcurrencyError: the row moved since the caller read it.
Moved(r) == End(r, "refused") /\ UNCHANGED <<rows, trail>>

\* What _require_surviving_administrator guards: an effective deactivation,
\* and the removal of an administrator role that is assigned.
Demotes(c) ==
    \/ /\ c.op = "STATUS" /\ ~ c.to
       /\ user[c.target].active /\ user[c.target].version = c.expected
    \/ c.op = "REMOVE" /\ c.role = Admin /\ open[c.target][Admin] > 0

\* The survivors are counted in committed rows, before the change is written.
RequireSurvivingAdministrator(r) ==
    LET c == req[r].cmd IN
    /\ req[r].phase = "locked" /\ Demotes(c)
    /\ IF OtherAdmins(c.target) = {}
       THEN Phase(r, "denied") /\ Release(r)
       ELSE Phase(r, "counted") /\ UNCHANGED locks
    /\ UNCHANGED <<rows, trail, events>>

\* The user row is r's and the survivors, where they matter, are counted.
Cleared(r, op) ==
    /\ req[r].cmd.op = op
    /\ req[r].phase = IF Demotes(req[r].cmd) THEN "counted" ELSE "locked"

SetUserActive(u, to) == user' = [user EXCEPT ![u].active = to, ![u].version = @ + 1]

SetUserStatus(r) ==
    LET c == req[r].cmd  u == c.target IN
    /\ Cleared(r, "STATUS")
    /\ \/ user[u].active = c.to /\ Nothing(r)
       \/ user[u].active # c.to /\ user[u].version # c.expected /\ Moved(r)
       \/ /\ user[u].active # c.to /\ user[u].version = c.expected
          /\ SetUserActive(u, c.to)
          /\ Record(r, <<"ACTIVE", u>>, user[u].active, c.to)
          /\ End(r, "done")
          /\ UNCHANGED <<mode, open, member, shown, linked>>
    /\ Release(r)
    /\ UNCHANGED events

InsertRoleAssignment(u, p) == open' = [open EXCEPT ![u][p] = @ + 1]
CloseRoleAssignments(u, p) == open' = [open EXCEPT ![u][p] = 0]

\* The roles a caller may grant carry no privilege an administrator lacks, so
\* the check on privileged grants lets pass every caller that reaches it.
AssignRole(r) ==
    LET c == req[r].cmd  u == c.target IN
    /\ Cleared(r, "ASSIGN")
    /\ \/ open[u][c.role] > 0 /\ Nothing(r)
       \/ /\ open[u][c.role] = 0
          /\ InsertRoleAssignment(u, c.role)
          /\ Record(r, <<"ROLE", u, c.role>>, open[u][c.role], 1)
          /\ End(r, "done")
          /\ UNCHANGED <<mode, user, member, shown, linked>>
    /\ Release(r)
    /\ UNCHANGED events

RemoveRole(r) ==
    LET c == req[r].cmd  u == c.target IN
    /\ Cleared(r, "REMOVE")
    /\ \/ open[u][c.role] = 0 /\ Nothing(r)
       \/ /\ open[u][c.role] > 0
          /\ CloseRoleAssignments(u, c.role)
          /\ Record(r, <<"ROLE", u, c.role>>, open[u][c.role], 0)
          /\ End(r, "done")
          /\ UNCHANGED <<mode, user, member, shown, linked>>
    /\ Release(r)
    /\ UNCHANGED events

\* The one row of a user in a queue is inserted or reactivated, and never deleted.
UpsertQueueMember(u, role) == member' = [member EXCEPT ![u] = role]
DeactivateQueueMember(u) == member' = [member EXCEPT ![u] = Inactive]

\* Mutant of AddQueueMember: an unchanged membership is audited as added again.
AddQueueMember_Mutant(r) ==
    LET c == req[r].cmd  u == c.target IN
    /\ req[r].phase = "locked" /\ c.op = "JOIN"
    /\ member' = [member EXCEPT ![u] = c.role]
    /\ Record(r, <<"MEMBER", u>>, member[u], c.role)
    /\ End(r, "done")
    /\ Release(r)
    /\ UNCHANGED <<mode, user, open, shown, linked, events>>

\* The membership row is locked, compared and written in one transaction that
\* holds the user's row, so that two first memberships do not meet.
AddQueueMember(r) ==
    LET c == req[r].cmd  u == c.target IN
    /\ req[r].phase = "locked" /\ c.op = "JOIN"
    /\ \/ member[u] = c.role /\ Nothing(r)
       \/ /\ member[u] # c.role
          /\ UpsertQueueMember(u, c.role)
          /\ Record(r, <<"MEMBER", u>>, member[u], c.role)
          /\ End(r, "done")
          /\ UNCHANGED <<mode, user, open, shown, linked>>
    /\ Release(r)
    /\ UNCHANGED events

\* One UPDATE of an active membership; it takes no other lock.
RemoveQueueMember(r) ==
    LET c == req[r].cmd  u == c.target IN
    /\ req[r].phase = "waiting" /\ c.op = "LEAVE"
    /\ \/ member[u] \notin MemberRoles /\ Nothing(r)
       \/ /\ member[u] \in MemberRoles
          /\ DeactivateQueueMember(u)
          /\ Record(r, <<"MEMBER", u>>, member[u], Inactive)
          /\ End(r, "done")
          /\ UNCHANGED <<mode, user, open, shown, linked>>
    /\ UNCHANGED <<locks, events>>

SetVisibility(to) == shown' = [value |-> to, version |-> shown.version + 1]

SetRequestTypeVisibility(r) ==
    LET c == req[r].cmd IN
    /\ req[r].phase = "waiting" /\ c.op = "SHOW"
    /\ \/ shown.value = c.to /\ Nothing(r)
       \/ shown.value # c.to /\ shown.version # c.expected /\ Moved(r)
       \/ /\ shown.value # c.to /\ shown.version = c.expected
          /\ SetVisibility(c.to)
          /\ Record(r, <<"SHOWN">>, shown.value, c.to)
          /\ End(r, "done")
          /\ UNCHANGED <<mode, user, open, member, linked>>
    /\ UNCHANGED <<locks, events>>

\* _record_security_denial, after the rollback.
RecordDenial(r) ==
    /\ req[r].phase = "denied"
    /\ Refuse(r)
    /\ UNCHANGED <<rows, locks, trail>>

Open(r) == req[r].phase \notin {"new", "done", "refused", "crashed"}

\* The process dies, or the database ends the transaction: it is rolled back.
Crash(r) ==
    /\ Open(r)
    /\ End(r, "crashed")
    /\ Release(r)
    /\ UNCHANGED <<rows, trail, events>>

\* Every request is answered or lost: the run ends here, and nowhere else.
Served ==
    /\ \A r \in Requests : req[r].phase \in {"done", "refused", "crashed"}
    /\ UNCHANGED vars

\* The commands worth sending now: an updated_at that was once shown.
Askable ==
    [op : {"STATUS"}, target : Users, to : BOOLEAN, expected : 1..(2 * Cardinality(Requests))]
      \cup [op : {"ASSIGN", "REMOVE"}, target : Users, role : Roles]
      \cup [op : {"JOIN"}, target : Users, role : MemberRoles]
      \cup [op : {"LEAVE"}, target : Users]
      \cup [op : {"SHOW"}, to : BOOLEAN, expected : 1..shown.version]

Next ==
    \/ \E r \in Requests :
         \/ Authenticate(r) \/ CreateUser(r) \/ PublishUser(r) \/ IssueContext(r)
         \/ \E c \in Askable :
              (c.op = "STATUS" => c.expected <= user[c.target].version) /\ Ask(r, c)
         \/ LockTenantIdentity(r) \/ UserForUpdate(r) \/ RequireSurvivingAdministrator(r)
         \/ SetUserStatus(r) \/ AssignRole(r) \/ RemoveRole(r)
         \/ AddQueueMember(r) \/ RemoveQueueMember(r) \/ SetRequestTypeVisibility(r)
         \/ RecordDenial(r) \/ Crash(r)
    \/ Served

Spec == Init /\ [][Next]_vars

(***************************************************************************)
(* Properties.                                                             *)
(***************************************************************************)

\* The tenant always has an active administrator, whatever several
\* administrators do to each other at once with the roles they had when they
\* authenticated (_require_surviving_administrator under the advisory lock).
AlwaysAdministered == OtherAdmins(None) # {}

\* What the audit trail says, replayed, is what the tables hold: for each flag,
\* role and membership every audited change starts where the one before ended,
\* changes something, and the last one is the current value. No change is
\* lost, none is audited twice and no role has two open assignments.
Entries(t, what) == {i \in DOMAIN t : t[i].what = what}

\* Before its n-th entry the trail t says that what is v.
Says(t, n, what, first, v) ==
    \/ v = first /\ \A i \in Entries(t, what) : n <= i
    \/ \E i \in Entries(t, what) :
         i < n /\ t[i].to = v /\ \A j \in Entries(t, what) : j <= i \/ n <= j

Chained(t, what, first, now) ==
    /\ \A i \in Entries(t, what) :
         t[i].from # t[i].to /\ Says(t, i, what, first, t[i].from)
    /\ Says(t, Len(t) + 1, what, first, now)

TrailReplays ==
    /\ \A u \in Users :
         /\ Chained(trail, <<"ACTIVE", u>>, TRUE, user[u].active)
         /\ \A p \in Roles : Chained(trail, <<"ROLE", u, p>>, OpenAtStart(u, p), open[u][p])
         /\ Chained(trail, <<"MEMBER", u>>, Absent, member[u])
    /\ Chained(trail, <<"SHOWN">>, TRUE, shown.value)

\* A person is one user: every user belongs to exactly one subject, and every
\* request of a subject acts as the user that subject is linked to, although
\* two first logins may both find no user and both try to create one.
OnePersonOneUser ==
    /\ \A u \in Present : Cardinality({s \in Subjects : linked[s] = u}) = 1
    /\ \A r \in Requests : req[r].user # None => req[r].user = linked[req[r].subject]
=============================================================================
