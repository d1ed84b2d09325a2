------------------------- MODULE AccessControlProofs -------------------------
(***************************************************************************)
(* A tenant never loses its last administrator, and a person is one user:  *)
(* for any requests, subjects, users and roles, in both ways of signing in.*)
(***************************************************************************)
EXTENDS AccessControl, FiniteSetTheorems, FunctionTheorems, SequenceTheorems, TLAPS

\* Requests and user rows are records, whatever their fields hold.
IsReq(e) == e \in [phase : {e.phase}, subject : {e.subject}, user : {e.user},
                   roles : {e.roles}, cmd : {e.cmd}]

IsUser(e) == e \in [present : {e.present}, active : {e.active}, version : {e.version}]
UserShape == user = [u \in Users |-> user[u]] /\ \A u \in Users : IsUser(user[u])

Types ==
    /\ UserShape
    /\ open \in [Users -> [Roles -> Nat]]
    /\ linked \in Links
    /\ inserting = [s \in Subjects |-> inserting[s]]
    /\ req = [r \in Requests |-> req[r]]
    /\ \A r \in Requests : IsReq(req[r])

Deciding == {"tenant", "locked", "counted"}

\* An identity command holds the tenant's lock until it commits, so that the
\* survivors it counted are still there when it writes.
SerializedAt(r) ==
    /\ req[r].phase = "tenant" => req[r].cmd.op \in IdentityOps
    /\ req[r].phase \in Deciding /\ req[r].cmd.op \in IdentityOps => tenantLock = r
    /\ req[r].phase = "counted" =>
         req[r].cmd.op \in IdentityOps /\ OtherAdmins(req[r].cmd.target) # {}
Serialized == \A r \in Requests : SerializedAt(r)

\* Subjects and the users that are present correspond one to one, and those of
\* the start stay linked.
Linking ==
    /\ \A s, t \in Subjects : s # t /\ linked[s] = linked[t] => linked[s] = None
    /\ \A s \in Subjects : linked[s] # None => linked[s] \in Present
    /\ \A u \in Present : \E s \in Subjects : linked[s] = u
    /\ \A s \in Subjects : KnownUser[s] # None => linked[s] = KnownUser[s]

\* Whom a request acts as; an uncommitted first login keeps its subject's index.
ActingFor(r) ==
    /\ req[r].phase = "new" => req[r].user = None
    /\ req[r].phase \in {"unknown", "created"} => req[r].subject \in Subjects
    /\ req[r].phase = "created" =>
         inserting[req[r].subject] = r /\ linked[req[r].subject] = None
    /\ req[r].user # None =>
         req[r].subject \in Subjects /\ req[r].user = linked[req[r].subject]
Acting == \A r \in Requests : ActingFor(r)

IInv == Types /\ Serialized /\ AlwaysAdministered /\ Linking /\ Acting

-----------------------------------------------------------------------------
(* Requests                                                                *)

\* A step of r leaves the other requests alone and leads r to phase p.
Moves(r, p) ==
    /\ req' = [q \in Requests |-> req'[q]]
    /\ \A q \in Requests : IsReq(req'[q])
    /\ \A q \in Requests \ {r} : req'[q] = req[q]
    /\ req'[r].phase = p

\* It also keeps who r acts for.
Keeps(r) == req'[r].subject = req[r].subject /\ req'[r].user = req[r].user

LEMMA PhaseMoves ==
  ASSUME Types, NEW r \in Requests, NEW p, Phase(r, p)
  PROVE  Moves(r, p) /\ Keeps(r) /\ req'[r].cmd = req[r].cmd
  <1>1. /\ req' = [q \in Requests |-> req'[q]]
        /\ req'[r] = [req[r] EXCEPT !.phase = p]
        /\ \A q \in Requests \ {r} : req'[q] = req[q]
    BY DEF Types, Phase
  <1>2. /\ req'[r] \in [phase : {p}, subject : {req[r].subject}, user : {req[r].user},
                        roles : {req[r].roles}, cmd : {req[r].cmd}]
    BY <1>1 DEF Types, IsReq
  <1>3. QED
    BY <1>1, <1>2 DEF Types, IsReq, Moves, Keeps

LEMMA EndMoves ==
  ASSUME Types, NEW r \in Requests, NEW p, End(r, p)
  PROVE  Moves(r, p) /\ Keeps(r)
  <1>1. /\ req' = [q \in Requests |-> req'[q]]
        /\ req'[r] = [[[req[r] EXCEPT !.phase = p] EXCEPT !.roles = {}] EXCEPT !.cmd = NoCommand]
        /\ \A q \in Requests \ {r} : req'[q] = req[q]
    BY DEF Types, End
  <1>2. /\ req'[r] \in [phase : {p}, subject : {req[r].subject}, user : {req[r].user},
                        roles : {{}}, cmd : {NoCommand}]
    BY <1>1 DEF Types, IsReq
  <1>3. QED
    BY <1>1, <1>2 DEF Types, IsReq, Moves, Keeps

\* Steps that set the subject and the user of r.
LEMMA SignInMoves ==
  ASSUME Types, NEW r \in Requests, NEW p, NEW s
  PROVE  /\ \A u : req' = [req EXCEPT ![r].phase = p, ![r].subject = s, ![r].user = u]
              => Moves(r, p) /\ req'[r].subject = s /\ req'[r].user = u
         /\ req' = [req EXCEPT ![r].phase = p, ![r].subject = s]
              => Moves(r, p) /\ req'[r].subject = s /\ req'[r].user = req[r].user
         /\ \A u : req' = [req EXCEPT ![r].phase = p, ![r].user = u]
              => Moves(r, p) /\ req'[r].subject = req[r].subject /\ req'[r].user = u
         /\ \A x : req' = [req EXCEPT ![r].phase = p, ![r].roles = x] => Moves(r, p) /\ Keeps(r)
         /\ \A c : req' = [req EXCEPT ![r].phase = p, ![r].cmd = c] => Moves(r, p) /\ Keeps(r)
  <1> DEFINE Is(x, y, z, w) ==
               req'[r] \in [phase : {p}, subject : {x}, user : {y}, roles : {z}, cmd : {w}]
             Rest == /\ req' = [q \in Requests |-> req'[q]]
                     /\ \A q \in Requests \ {r} : req'[q] = req[q]
  <1>1. ASSUME NEW x, NEW y, NEW z, NEW w, Is(x, y, z, w), Rest
        PROVE  Moves(r, p) /\ req'[r].subject = x /\ req'[r].user = y
    BY <1>1 DEF Types, IsReq, Moves
  <1>2. ASSUME NEW u, req' = [req EXCEPT ![r].phase = p, ![r].subject = s, ![r].user = u]
        PROVE  Moves(r, p) /\ req'[r].subject = s /\ req'[r].user = u
    <2>1. Rest /\ Is(s, u, req[r].roles, req[r].cmd)
      BY <1>2 DEF Types, IsReq
    <2>2. QED
      BY <2>1, <1>1
  <1>3. ASSUME req' = [req EXCEPT ![r].phase = p, ![r].subject = s]
        PROVE  Moves(r, p) /\ req'[r].subject = s /\ req'[r].user = req[r].user
    <2>1. Rest /\ Is(s, req[r].user, req[r].roles, req[r].cmd)
      BY <1>3 DEF Types, IsReq
    <2>2. QED
      BY <2>1, <1>1
  <1>4. ASSUME NEW u, req' = [req EXCEPT ![r].phase = p, ![r].user = u]
        PROVE  Moves(r, p) /\ req'[r].subject = req[r].subject /\ req'[r].user = u
    <2>1. Rest /\ Is(req[r].subject, u, req[r].roles, req[r].cmd)
      BY <1>4 DEF Types, IsReq
    <2>2. QED
      BY <2>1, <1>1
  <1>5. ASSUME NEW x, req' = [req EXCEPT ![r].phase = p, ![r].roles = x]
        PROVE  Moves(r, p) /\ Keeps(r)
    <2>1. Rest /\ Is(req[r].subject, req[r].user, x, req[r].cmd)
      BY <1>5 DEF Types, IsReq
    <2>2. QED
      BY <2>1, <1>1 DEF Keeps
  <1>6. ASSUME NEW c, req' = [req EXCEPT ![r].phase = p, ![r].cmd = c]
        PROVE  Moves(r, p) /\ Keeps(r)
    <2>1. Rest /\ Is(req[r].subject, req[r].user, req[r].roles, c)
      BY <1>6 DEF Types, IsReq
    <2>2. QED
      BY <2>1, <1>1 DEF Keeps
  <1>7. QED
    BY <1>2, <1>3, <1>4, <1>5, <1>6

-----------------------------------------------------------------------------
(* What a step does to the rows and the locks                              *)

SigningIn == {"new", "unknown", "created"}

\* r leaves what others are inserting.
IndexKept(r) ==
    /\ inserting' = [s \in Subjects |-> inserting'[s]]
    /\ \A s \in Subjects : inserting[s] = r \/ inserting'[s] = inserting[s]

\* r takes neither lock, and may let go of its own.
Freed(r) == IndexKept(r) /\ (tenantLock = r \/ tenantLock' = tenantLock)

\* A step of r after it signed in: nobody appears and no identity changes.
Later(r) ==
    /\ Types'
    /\ linked' = linked /\ Present' = Present
    /\ \A s \in Subjects : inserting[s] = r \/ inserting'[s] = inserting[s]
    /\ Keeps(r) /\ \A q \in Requests \ {r} : req'[q] = req[q]
    /\ req'[r].phase \notin SigningIn

\* No administrator is lost.
Spared ==
    \A v \in Present :
        /\ v \in Present'
        /\ user[v].active => user'[v].active
        /\ open[v][Admin] > 0 => open'[v][Admin] > 0

\* A step of r that loses none and leaves r out of its critical section.
Harmless(r) ==
    /\ Spared
    /\ tenantLock = r \/ tenantLock' = tenantLock
    /\ \A q \in Requests \ {r} : req'[q] = req[q]
    /\ req'[r].phase \notin Deciding

\* What the rows may become without anyone appearing.
RowsTyped ==
    /\ UserShape' /\ \A v \in Users : user'[v].present = user[v].present
    /\ open' \in [Users -> [Roles -> Nat]]
    /\ linked' = linked

LEMMA Locks ==
  ASSUME Types, NEW r \in Requests, Release(r) \/ UNCHANGED locks
  PROVE  Freed(r)
  BY DEF Types, Release, locks, Freed, IndexKept

LEMMA SameRows ==
  ASSUME Types, UNCHANGED <<user, open, linked>>
  PROVE  RowsTyped /\ Spared /\ \A x : OtherAdmins(x)' = OtherAdmins(x)
  BY DEF Types, UserShape, IsUser, RowsTyped, Spared, Present, OtherAdmins

LEMMA LaterStep ==
  ASSUME Types, NEW r \in Requests, NEW p, Moves(r, p), Keeps(r), p \notin SigningIn,
         RowsTyped, IndexKept(r)
  PROVE  Later(r)
  <1>1. Types'
    BY DEF Types, Moves, RowsTyped, IndexKept
  <1>2. Present' = Present
    BY DEF RowsTyped, Present
  <1>3. QED
    BY <1>1, <1>2 DEF Later, Moves, RowsTyped, IndexKept

\* Spared survivors survive.
LEMMA SparedSurvive ==
  ASSUME Spared, NEW x
  PROVE  OtherAdmins(x) \subseteq OtherAdmins(x)'
  BY DEF Spared, OtherAdmins, Present

LEMMA HarmlessStep ==
  ASSUME Serialized, AlwaysAdministered, NEW r \in Requests, Harmless(r)
  PROVE  Serialized' /\ AlwaysAdministered'
  <1>1. AlwaysAdministered'
    BY SparedSurvive DEF AlwaysAdministered, Harmless
  <1>2. ASSUME NEW q \in Requests, q # r
        PROVE  SerializedAt(q)'
    <2>1. SerializedAt(q) /\ req'[q] = req[q] /\ (tenantLock = q => tenantLock' = q)
      BY <1>2 DEF Serialized, Harmless
    <2>2. OtherAdmins(req[q].cmd.target) # {} => OtherAdmins(req[q].cmd.target)' # {}
      BY <2>1, SparedSurvive DEF Harmless, SerializedAt, OtherAdmins, Present
    <2>3. QED
      BY <2>1, <2>2 DEF SerializedAt
  <1>3. SerializedAt(r)'
    BY DEF Harmless, Deciding, SerializedAt
  <1>4. QED
    BY <1>1, <1>2, <1>3 DEF Serialized

-----------------------------------------------------------------------------
(* Signing in                                                              *)

\* The identities of a step that only moves r on.
LEMMA LaterIdentities ==
  ASSUME Linking, Acting, NEW r \in Requests, Later(r)
  PROVE  Linking' /\ Acting'
  <1>1. Linking'
    BY DEF Linking, Later
  <1>2. ActingFor(r)'
    BY DEF Later, Keeps, SigningIn, Acting, ActingFor
  <1>3. ASSUME NEW q \in Requests, q # r
        PROVE  ActingFor(q)'
    BY <1>3 DEF Later, Acting, ActingFor
  <1>4. QED
    BY <1>1, <1>2, <1>3 DEF Acting

\* Authenticate, of a user who is there or of a subject nobody knows yet.
LEMMA AuthenticateMoves ==
  ASSUME Types, Linking, Acting, NEW r \in Requests, Authenticate(r)
  PROVE  /\ UNCHANGED <<rows, locks>>
         /\ \E p \in {"known", "refused", "unknown"} : Moves(r, p)
         /\ req'[r].phase = "unknown" => req'[r].subject \in Subjects
         /\ req'[r].user # None =>
              req'[r].subject \in Subjects /\ req'[r].user = linked[req'[r].subject]
  <1>1. req[r].user = None /\ UNCHANGED <<rows, locks>>
    BY DEF Authenticate, Acting, ActingFor
  <1>2. ASSUME NEW s \in Subjects, NEW u, u # None, linked[s] = u, Recognised(r, s, u)
        PROVE  /\ \E p \in {"known", "refused"} : Moves(r, p)
               /\ req'[r].subject = s /\ req'[r].user \in {u, None}
    <2>1. ASSUME req' = [req EXCEPT ![r].phase = "known", ![r].subject = s, ![r].user = u]
          PROVE  Moves(r, "known") /\ req'[r].subject = s /\ req'[r].user = u
      BY <2>1, SignInMoves
    <2>2. ASSUME req' = [req EXCEPT ![r].phase = "refused", ![r].subject = s]
          PROVE  Moves(r, "refused") /\ req'[r].subject = s /\ req'[r].user = None
      <3>1. Moves(r, "refused") /\ req'[r].subject = s /\ req'[r].user = req[r].user
        BY <2>2, SignInMoves
      <3>2. QED
        BY <1>1, <3>1
    <2>3. QED
      BY <1>2, <2>1, <2>2 DEF Recognised
  <1>3. ASSUME NEW s \in Subjects, ResolveIdentity(r, s), linked[s] = None
        PROVE  Moves(r, "unknown") /\ req'[r].subject = s /\ req'[r].user = None
    <2>1. req' = [req EXCEPT ![r].phase = "unknown", ![r].subject = s]
      BY <1>3 DEF ResolveIdentity, ExternalIdentity
    <2>2. Moves(r, "unknown") /\ req'[r].subject = s /\ req'[r].user = req[r].user
      BY <2>1, SignInMoves
    <2>3. QED
      BY <1>1, <2>2
  <1>4. ASSUME End(r, "refused")
        PROVE  Moves(r, "refused") /\ req'[r].user = None
    BY <1>1, <1>4, EndMoves DEF Keeps
  <1>5. CASE \E s \in Subjects : ResolveIdentity(r, s)
    BY <1>1, <1>2, <1>3, <1>5 DEF ResolveIdentity, ExternalIdentity, Moves
  <1>6. CASE \E s \in Subjects : DeveloperIdentity(r, s)
    BY <1>1, <1>2, <1>4, <1>6 DEF DeveloperIdentity, UserBySubject, Linking, Moves, Refuse
  <1>7. CASE End(r, "refused")
    BY <1>1, <1>4, <1>7 DEF Moves
  <1>8. QED
    BY <1>5, <1>6, <1>7 DEF Authenticate

LEMMA TypesStep ==
  ASSUME Types, NEW r \in Requests, NEW p, Moves(r, p), Freed(r),
         UserShape', open' \in [Users -> [Roles -> Nat]], linked' \in Links
  PROVE  Types'
  BY DEF Types, Moves, Freed, IndexKept

LEMMA AuthenticateStep ==
  ASSUME IInv, NEW r \in Requests, Authenticate(r)
  PROVE  IInv'
  <1>1. PICK p \in {"known", "refused", "unknown"} : Moves(r, p)
    BY AuthenticateMoves DEF IInv
  <1>2. UNCHANGED <<user, open, linked>> /\ UNCHANGED locks
    BY AuthenticateMoves DEF IInv, rows
  <1>3. RowsTyped /\ Spared /\ Freed(r)
    BY <1>2, SameRows, Locks DEF IInv
  <1>4. Types'
    BY <1>1, <1>2, <1>3, TypesStep DEF IInv, Types, RowsTyped
  <1>5. Serialized' /\ AlwaysAdministered'
    <2>1. Harmless(r)
      BY <1>1, <1>3 DEF Harmless, Moves, Freed, Deciding
    <2>2. QED
      BY <2>1, HarmlessStep DEF IInv
  <1>6. Linking'
    BY <1>2 DEF IInv, Linking, Present
  <1>7. ActingFor(r)'
    BY <1>1, <1>2, AuthenticateMoves DEF IInv, Moves, ActingFor
  <1>8. ASSUME NEW q \in Requests, q # r
        PROVE  ActingFor(q)'
    BY <1>1, <1>2, <1>8 DEF IInv, Acting, ActingFor, Moves, locks
  <1>9. QED
    BY <1>4, <1>5, <1>6, <1>7, <1>8 DEF IInv, Acting

\* The index entry of an uncommitted first login keeps every other one out.
LEMMA CreateUserStep ==
  ASSUME IInv, NEW r \in Requests, CreateUser(r)
  PROVE  IInv'
  <1> DEFINE s == req[r].subject
  <1>1. /\ s \in Subjects /\ inserting[s] = None
        /\ UNCHANGED <<user, open, linked, tenantLock>>
    BY DEF IInv, Acting, ActingFor, CreateUser, rows
  <1>2. RowsTyped /\ Spared
    BY <1>1, SameRows DEF IInv
  <1>3. CASE linked[s] = None
    <2>1. inserting' = [inserting EXCEPT ![s] = r] /\ Moves(r, "created") /\ Keeps(r)
      BY <1>3, PhaseMoves DEF CreateUser, IInv
    <2>2. Types'
      BY <1>1, <2>1 DEF IInv, Types, Moves, UserShape, IsUser
    <2>3. Serialized' /\ AlwaysAdministered'
      <3>1. Harmless(r)
        BY <1>1, <1>2, <2>1 DEF Harmless, Moves, Deciding
      <3>2. QED
        BY <3>1, HarmlessStep DEF IInv
    <2>4. Linking'
      BY <1>1 DEF IInv, Linking, Present
    <2>5. ActingFor(r)'
      BY <1>1, <1>3, <2>1 DEF IInv, Types, Acting, ActingFor, Moves, Keeps
    <2>6. ASSUME NEW q \in Requests, q # r
          PROVE  ActingFor(q)'
      <3>1. ActingFor(q) /\ req'[q] = req[q] /\ linked' = linked
        BY <1>1, <2>1, <2>6 DEF IInv, Acting, Moves
      <3>2. req[q].phase = "created" => req[q].subject # s
        BY <1>1, <3>1, AccessAssumption DEF ActingFor
      <3>3. req[q].phase = "created" => inserting'[req[q].subject] = inserting[req[q].subject]
        BY <2>1, <3>1, <3>2 DEF ActingFor, IInv, Types
      <3>4. QED
        BY <3>1, <3>3 DEF ActingFor
    <2>7. QED
      BY <2>2, <2>3, <2>4, <2>5, <2>6 DEF IInv, Acting
  <1>4. CASE linked[s] # None
    <2>1. Moves(r, "refused") /\ Keeps(r) /\ Freed(r)
      BY <1>1, <1>4, EndMoves, Locks DEF CreateUser, IInv, Freed, IndexKept, Types
    <2>2. Harmless(r)
      BY <1>2, <2>1 DEF Harmless, Moves, Freed, Deciding
    <2>3. Later(r)
      BY <1>2, <2>1, LaterStep DEF IInv, SigningIn, Freed
    <2>4. QED
      BY <2>2, <2>3, HarmlessStep, LaterIdentities DEF IInv, Later
  <1>5. QED
    BY <1>3, <1>4

\* While a subject has no user, a row is free for it.
LEMMA RoomForNewcomer ==
  ASSUME Types, Linking, NEW s \in Subjects, linked[s] = None
  PROVE  \E v \in Users : v \notin Present
  <1> SUFFICES ASSUME \A v \in Users : v \in Present
               PROVE  FALSE
    OBVIOUS
  <1> DEFINE T == Subjects \ {s}
             f == [u \in Users |-> CHOOSE t \in Subjects : linked[t] = u]
  <1>1. \A u \in Users : f[u] \in Subjects /\ linked[f[u]] = u
    BY DEF Linking
  <1>2. f \in [Users -> T]
    <2>1. \A u \in Users : f[u] \in T
      BY <1>1, AccessAssumption
    <2>2. QED
      BY <2>1
  <1>3. /\ IsFiniteSet(Users) /\ IsFiniteSet(Subjects) /\ IsFiniteSet(T)
        /\ Cardinality(T) = Cardinality(Subjects) - 1
        /\ Cardinality(Subjects) <= Cardinality(Users)
    BY AccessAssumption, FS_RemoveElement
  <1>4. Cardinality(T) < Cardinality(Users)
    BY <1>3, FS_CardinalityType
  <1> HIDE DEF f, T
  <1>5. PICK x \in Users, y \in Users : x # y /\ f[x] = f[y]
    BY <1>2, <1>3, <1>4, FS_PigeonHole
  <1>6. QED
    BY <1>1, <1>5

LEMMA PublishUserStep ==
  ASSUME IInv, NEW r \in Requests, PublishUser(r)
  PROVE  IInv'
  <1> DEFINE s == req[r].subject
             u == CHOOSE v \in Users : v \notin Present
  <1>1. s \in Subjects /\ inserting[s] = r /\ linked[s] = None
    BY DEF IInv, Acting, ActingFor, PublishUser
  <1>2. u \in Users /\ u \notin Present /\ u # None
    BY <1>1, RoomForNewcomer, AccessAssumption DEF IInv
  <1>3. /\ user' = [user EXCEPT ![u].present = TRUE]
        /\ linked' = [linked EXCEPT ![s] = u]
        /\ req' = [req EXCEPT ![r].phase = "session", ![r].user = u]
        /\ Release(r) /\ open' = open
    BY DEF PublishUser
  <1> HIDE DEF u
  <1>4. Moves(r, "session") /\ req'[r].subject = s /\ req'[r].user = u
    <2>1. \A x : req' = [req EXCEPT ![r].phase = "session", ![r].user = x]
                   => Moves(r, "session") /\ req'[r].subject = req[r].subject /\ req'[r].user = x
      BY SignInMoves DEF IInv
    <2>2. QED
      BY <1>3, <2>1
  <1>5. Freed(r)
    BY <1>3, Locks DEF IInv
  <1>6. /\ UserShape' /\ linked' \in Links
        /\ Present' = Present \cup {u}
        /\ \A v \in Present : user'[v].active = user[v].active
    <2>1. UserShape /\ linked \in Links
      BY DEF IInv, Types
    <2>2. UserShape' /\ linked' \in Links
      <3>1. /\ user' = [v \in Users |-> user'[v]]
            /\ \A v \in Users \ {u} : user'[v] = user[v]
            /\ user'[u] = [user[u] EXCEPT !.present = TRUE]
        BY <1>2, <1>3, <2>1 DEF UserShape
      <3>2. user'[u] \in [present : {TRUE}, active : {user[u].active}, version : {user[u].version}]
        BY <1>2, <2>1, <3>1 DEF UserShape, IsUser
      <3>3. UserShape'
        BY <2>1, <3>1, <3>2 DEF UserShape, IsUser
      <3>4. QED
        BY <1>2, <1>3, <2>1, <3>3 DEF Links
    <2>3. \A v \in Users : /\ user'[v].active = user[v].active
                           /\ user'[v].present = IF v = u THEN TRUE ELSE user[v].present
      BY <1>3, <2>1 DEF UserShape, IsUser
    <2>4. QED
      BY <1>2, <2>2, <2>3 DEF Present
  <1>7. Types'
    BY <1>3, <1>4, <1>5, <1>6, TypesStep DEF IInv, Types
  <1>8. Serialized' /\ AlwaysAdministered'
    <2>1. Harmless(r)
      BY <1>3, <1>4, <1>5, <1>6 DEF Harmless, Moves, Freed, Deciding, Spared
    <2>2. QED
      BY <2>1, HarmlessStep DEF IInv
  <1>9. \A t \in Subjects : linked'[t] = IF t = s THEN u ELSE linked[t]
    BY <1>3 DEF IInv, Types, Links
  <1>10. Linking'
    <2>1. Linking
      BY DEF IInv
    <2>2. \A t \in Subjects : linked[t] # u
      BY <1>2, <2>1 DEF Linking
    <2>3. \A t, w \in Subjects : t # w /\ linked'[t] = linked'[w] => linked'[t] = None
      BY <1>9, <2>1, <2>2 DEF Linking
    <2>4. \A t \in Subjects : linked'[t] # None => linked'[t] \in Present'
      BY <1>6, <1>9, <2>1 DEF Linking
    <2>5. \A v \in Present' : \E t \in Subjects : linked'[t] = v
      <3>1. \A v \in Present : v # None
        BY AccessAssumption DEF Present
      <3>2. \A v \in Present : \E t \in Subjects : t # s /\ linked[t] = v
        BY <1>1, <2>1, <3>1 DEF Linking
      <3>3. QED
        BY <1>1, <1>6, <1>9, <3>2
    <2>6. \A t \in Subjects : KnownUser[t] # None => linked'[t] = KnownUser[t]
      BY <1>1, <1>9, <2>1 DEF Linking
    <2>7. QED
      BY <2>3, <2>4, <2>5, <2>6 DEF Linking
  <1>11. ActingFor(r)'
    BY <1>1, <1>4, <1>9 DEF ActingFor, Moves
  <1>12. ASSUME NEW q \in Requests, q # r
         PROVE  ActingFor(q)'
    <2>1. ActingFor(q) /\ req'[q] = req[q]
      BY <1>4, <1>12 DEF IInv, Acting, Moves
    <2>2. /\ req[q].phase = "created" => req[q].subject # s
          /\ req[q].user # None => req[q].subject # s
      BY <1>1, <1>12, <2>1 DEF ActingFor
    <2>3. QED
      BY <1>5, <1>9, <1>12, <2>1, <2>2 DEF ActingFor, Freed, IndexKept
  <1>13. QED
    BY <1>7, <1>8, <1>10, <1>11, <1>12 DEF IInv, Acting

-----------------------------------------------------------------------------
(* Administering                                                           *)

\* The request that counted is the only one that may write: what it leaves of
\* others it counted correctly.
LEMMA Demotion ==
  ASSUME IInv, NEW r \in Requests, req[r].phase = "counted",
         \A q \in Requests \ {r} : req'[q] = req[q],
         req'[r].phase \notin Deciding, RowsTyped,
         \A v \in Users \ {req[r].cmd.target} :
           user'[v].active = user[v].active /\ open'[v] = open[v]
  PROVE  Serialized' /\ AlwaysAdministered'
  <1> DEFINE u == req[r].cmd.target
  <1>1. OtherAdmins(u) # {} /\ tenantLock = r
    BY DEF IInv, Serialized, SerializedAt, Deciding
  <1>2. \A v \in OtherAdmins(u) : v \in OtherAdmins(None)'
    BY AccessAssumption DEF OtherAdmins, Present, RowsTyped
  <1>3. AlwaysAdministered'
    BY <1>1, <1>2 DEF AlwaysAdministered
  <1>4. SerializedAt(r)'
    BY DEF SerializedAt, Deciding
  <1>5. ASSUME NEW q \in Requests, q # r
        PROVE  SerializedAt(q)'
    <2>1. SerializedAt(q) /\ req'[q] = req[q]
      BY <1>5 DEF IInv, Serialized
    <2>2. ~ (req[q].phase \in Deciding /\ req[q].cmd.op \in IdentityOps)
      BY <1>1, <1>5, <2>1 DEF SerializedAt
    <2>3. QED
      BY <2>1, <2>2 DEF SerializedAt, Deciding
  <1>6. QED
    BY <1>3, <1>4, <1>5 DEF Serialized

\* A step that ends r's transaction, or r itself.
LEMMA ClosingStep ==
  ASSUME IInv, NEW r \in Requests,
         NEW p \in {"denied", "done", "refused", "crashed"}, Moves(r, p), Keeps(r),
         Release(r) \/ UNCHANGED locks, RowsTyped,
         \/ Spared
         \/ /\ req[r].phase = "counted"
            /\ \A v \in Users \ {req[r].cmd.target} :
                 user'[v].active = user[v].active /\ open'[v] = open[v]
  PROVE  IInv'
  <1>1. Freed(r)
    BY Locks DEF IInv
  <1>2. Later(r)
    BY <1>1, LaterStep DEF IInv, Freed, SigningIn
  <1>3. Linking' /\ Acting'
    BY <1>2, LaterIdentities DEF IInv
  <1>4. Serialized' /\ AlwaysAdministered'
    <2>1. /\ \A q \in Requests \ {r} : req'[q] = req[q]
          /\ req'[r].phase \notin Deciding
          /\ tenantLock = r \/ tenantLock' = tenantLock
      BY <1>1 DEF Moves, Deciding, Freed
    <2>2. CASE Spared
      <3>1. Harmless(r)
        BY <2>1, <2>2 DEF Harmless
      <3>2. QED
        BY <3>1, HarmlessStep DEF IInv
    <2>3. CASE ~ Spared
      BY <2>1, <2>3, Demotion
    <2>4. QED
      BY <2>2, <2>3
  <1>5. QED
    BY <1>2, <1>3, <1>4 DEF IInv, Later

\* One that changes no row of a user.
LEMMA QuietEnd ==
  ASSUME IInv, NEW r \in Requests, NEW p \in {"done", "refused", "crashed"}, End(r, p),
         Release(r) \/ UNCHANGED locks, UNCHANGED <<user, open, linked>>
  PROVE  IInv'
  BY EndMoves, SameRows, ClosingStep DEF IInv

\* A step inside r's transaction, which changes no row.
LEMMA InnerStep ==
  ASSUME IInv, NEW r \in Requests, NEW p, Moves(r, p), Keeps(r), p \notin SigningIn,
         UNCHANGED <<user, open, linked, inserting>>,
         tenantLock = None \/ tenantLock' = tenantLock, SerializedAt(r)'
  PROVE  IInv'
  <1>1. RowsTyped /\ Spared /\ \A x : OtherAdmins(x)' = OtherAdmins(x)
    BY SameRows DEF IInv
  <1>2. IndexKept(r)
    BY DEF IInv, Types, IndexKept
  <1>3. Later(r)
    BY <1>1, <1>2, LaterStep DEF IInv
  <1>4. Linking' /\ Acting'
    BY <1>3, LaterIdentities DEF IInv
  <1>5. AlwaysAdministered'
    BY <1>1, SparedSurvive DEF IInv, AlwaysAdministered
  <1>6. ASSUME NEW q \in Requests, q # r
        PROVE  SerializedAt(q)'
    <2>1. SerializedAt(q) /\ req'[q] = req[q]
      BY <1>6 DEF IInv, Serialized, Moves
    <2>2. tenantLock = q => tenantLock' = q
      BY <1>6, AccessAssumption
    <2>3. QED
      BY <2>1, <2>2 DEF SerializedAt, OtherAdmins, Present
  <1>7. QED
    BY <1>3, <1>4, <1>5, <1>6 DEF IInv, Later, Serialized

-----------------------------------------------------------------------------
(* The actions                                                             *)

LEMMA IssueContextStep ==
  ASSUME IInv, NEW r \in Requests, IssueContext(r)
  PROVE  IInv'
  <1> DEFINE u == req[r].user
  <1>1. Moves(r, "session") /\ Keeps(r)
    BY SignInMoves DEF IInv, IssueContext
  <1>2. UNCHANGED locks /\ UNCHANGED <<open, linked>> /\ SynchronizeProfile(u)
    BY DEF IssueContext
  <1>3. RowsTyped /\ Spared
    <2>1. CASE UNCHANGED user
      BY <1>2, <2>1, SameRows DEF IInv
    <2>2. CASE user' = [user EXCEPT ![u].version = @ + 1]
      <3>1. /\ user' = [v \in Users |-> user'[v]]
            /\ \A v \in Users : user'[v] = IF v = u THEN [user[v] EXCEPT !.version = @ + 1]
                                           ELSE user[v]
        BY <2>2 DEF IInv, Types, UserShape
      <3>2. \A v \in Users :
              user'[v] \in [present : {user[v].present}, active : {user[v].active},
                            version : {user'[v].version}]
        BY <3>1 DEF IInv, Types, UserShape, IsUser
      <3>3. \A v \in Users : /\ IsUser(user'[v])
                             /\ user'[v].present = user[v].present
                             /\ user'[v].active = user[v].active
        BY <3>2 DEF IsUser
      <3>4. QED
        BY <1>2, <3>1, <3>3 DEF RowsTyped, UserShape, Spared, Present, IInv, Types
    <2>3. QED
      BY <1>2, <2>1, <2>2 DEF SynchronizeProfile
  <1>4. Later(r) /\ Harmless(r)
    <2>1. Freed(r)
      BY <1>2, Locks DEF IInv
    <2>2. Later(r)
      BY <1>1, <1>3, <2>1, LaterStep DEF IInv, SigningIn, Freed
    <2>3. QED
      BY <1>1, <1>3, <2>1, <2>2 DEF Harmless, Moves, Freed, Deciding
  <1>5. QED
    BY <1>4, LaterIdentities, HarmlessStep DEF IInv, Later

LEMMA AskStep ==
  ASSUME IInv, NEW r \in Requests, NEW c, Ask(r, c)
  PROVE  IInv'
  <1>1. UNCHANGED <<user, open, linked>> /\ UNCHANGED locks
    BY DEF Ask, rows
  <1>2. CASE ForbiddenTo(r, c)
    BY <1>1, <1>2, QuietEnd DEF Ask, Refuse
  <1>3. CASE ~ ForbiddenTo(r, c)
    <2>1. req' = [req EXCEPT ![r].phase = "waiting", ![r].cmd = c]
      BY <1>3 DEF Ask
    <2>2. Moves(r, "waiting") /\ Keeps(r)
      BY <2>1, SignInMoves DEF IInv
    <2>3. SerializedAt(r)'
      BY <2>2 DEF Moves, SerializedAt, Deciding
    <2>4. QED
      BY <1>1, <2>2, <2>3, InnerStep DEF SigningIn, locks
  <1>4. QED
    BY <1>2, <1>3

LEMMA LockTenantIdentityStep ==
  ASSUME IInv, NEW r \in Requests, LockTenantIdentity(r)
  PROVE  IInv'
  <1>1. /\ UNCHANGED <<user, open, linked, inserting>>
        /\ tenantLock = None /\ tenantLock' = r /\ req[r].cmd.op \in IdentityOps
    BY DEF LockTenantIdentity, rows
  <1>2. Moves(r, "tenant") /\ Keeps(r) /\ req'[r].cmd = req[r].cmd
    BY PhaseMoves DEF LockTenantIdentity, IInv
  <1>3. SerializedAt(r)'
    BY <1>1, <1>2 DEF Moves, SerializedAt
  <1>4. QED
    BY <1>1, <1>2, <1>3, InnerStep DEF SigningIn

LEMMA UserForUpdateStep ==
  ASSUME IInv, NEW r \in Requests, UserForUpdate(r)
  PROVE  IInv'
  <1>1. UNCHANGED <<user, open, linked, inserting, tenantLock>>
    BY DEF UserForUpdate, rows
  <1>2. Moves(r, "locked") /\ Keeps(r) /\ req'[r].cmd = req[r].cmd
    BY PhaseMoves DEF UserForUpdate, IInv
  <1>3. SerializedAt(r)'
    <2>1. req[r].cmd.op \in IdentityOps => tenantLock = r
      BY DEF UserForUpdate, IdentityOps, IInv, Serialized, SerializedAt, Deciding
    <2>2. QED
      BY <1>1, <1>2, <2>1 DEF Moves, SerializedAt
  <1>4. QED
    BY <1>1, <1>2, <1>3, InnerStep DEF SigningIn

LEMMA RequireSurvivingAdministratorStep ==
  ASSUME IInv, NEW r \in Requests, RequireSurvivingAdministrator(r)
  PROVE  IInv'
  <1> DEFINE u == req[r].cmd.target
  <1>1. /\ UNCHANGED <<user, open, linked>>
        /\ req[r].cmd.op \in IdentityOps /\ tenantLock = r
    BY DEF RequireSurvivingAdministrator, Demotes, IdentityOps, rows, IInv, Serialized,
           SerializedAt, Deciding
  <1>2. RowsTyped /\ Spared
    BY <1>1, SameRows DEF IInv
  <1>3. CASE OtherAdmins(u) = {}
    <2>1. Release(r) /\ Moves(r, "denied") /\ Keeps(r)
      BY <1>3, PhaseMoves DEF RequireSurvivingAdministrator, IInv
    <2>2. QED
      BY <1>2, <2>1, ClosingStep
  <1>4. CASE OtherAdmins(u) # {}
    <2>1. UNCHANGED <<inserting, tenantLock>>
      BY <1>4 DEF RequireSurvivingAdministrator, locks
    <2>2. Moves(r, "counted") /\ Keeps(r) /\ req'[r].cmd = req[r].cmd
      BY <1>4, PhaseMoves DEF RequireSurvivingAdministrator, IInv
    <2>3. SerializedAt(r)'
      BY <1>1, <1>2, <1>4, <2>1, <2>2 DEF Moves, SerializedAt, OtherAdmins, Present
    <2>4. QED
      BY <1>1, <2>1, <2>2, <2>3, InnerStep DEF SigningIn
  <1>5. QED
    BY <1>3, <1>4

LEMMA SetUserStatusStep ==
  ASSUME IInv, NEW r \in Requests, SetUserStatus(r)
  PROVE  IInv'
  <1> DEFINE c == req[r].cmd
             u == req[r].cmd.target
  <1>1. Release(r) /\ Cleared(r, "STATUS")
    BY DEF SetUserStatus
  <1>2. CASE Nothing(r) \/ Moved(r)
    BY <1>1, <1>2, QuietEnd DEF Nothing, Moved, rows
  <1>3. CASE /\ user[u].active # c.to /\ user[u].version = c.expected
             /\ SetUserActive(u, c.to) /\ End(r, "done") /\ UNCHANGED <<open, linked>>
    <2>1. /\ user' = [v \in Users |-> user'[v]]
          /\ \A v \in Users :
               user'[v] = IF v = u THEN [[user[v] EXCEPT !.active = c.to] EXCEPT !.version = @ + 1]
                          ELSE user[v]
      BY <1>3 DEF SetUserActive, IInv, Types, UserShape
    <2>2. \A v \in Users :
            user'[v] \in [present : {user[v].present},
                          active : {IF v = u THEN c.to ELSE user[v].active},
                          version : {user'[v].version}]
      BY <2>1 DEF IInv, Types, UserShape, IsUser
    <2>3. \A v \in Users : /\ IsUser(user'[v])
                           /\ user'[v].present = user[v].present
                           /\ user'[v].active = IF v = u THEN c.to ELSE user[v].active
      BY <2>2 DEF IsUser
    <2>4. RowsTyped
      BY <1>3, <2>1, <2>3 DEF RowsTyped, UserShape, IInv, Types
    <2>5. Moves(r, "done") /\ Keeps(r)
      BY <1>3, EndMoves DEF IInv
    <2>6. CASE c.to \/ ~ user[u].active
      <3>1. Spared
        BY <1>3, <2>3, <2>6 DEF Spared, Present
      <3>2. QED
        BY <1>1, <2>4, <2>5, <3>1, ClosingStep
    <2>7. CASE ~ c.to /\ user[u].active
      <3>1. req[r].phase = "counted"
        BY <1>1, <1>3, <2>7 DEF Cleared, Demotes
      <3>2. QED
        BY <1>1, <1>3, <2>3, <2>4, <2>5, <3>1, ClosingStep
    <2>8. QED
      BY <2>6, <2>7
  <1>4. QED
    BY <1>2, <1>3 DEF SetUserStatus

LEMMA AssignRoleStep ==
  ASSUME IInv, NEW r \in Requests, AssignRole(r)
  PROVE  IInv'
  <1> DEFINE p == req[r].cmd.role
             u == req[r].cmd.target
  <1>1. Release(r)
    BY DEF AssignRole
  <1>2. CASE Nothing(r)
    BY <1>1, <1>2, QuietEnd DEF Nothing, rows
  <1>3. CASE open[u][p] = 0 /\ InsertRoleAssignment(u, p) /\ End(r, "done") /\ UNCHANGED <<user, linked>>
    <2>1. open \in [Users -> [Roles -> Nat]]
      BY DEF IInv, Types
    <2>2. /\ open' \in [Users -> [Roles -> Nat]]
          /\ \A v \in Users, q \in Roles :
               open'[v][q] = IF v = u /\ q = p THEN open[v][q] + 1 ELSE open[v][q]
      <3>1. /\ open' = [v \in Users |-> open'[v]]
            /\ \A v \in Users : open'[v] = IF v = u THEN [open[v] EXCEPT ![p] = @ + 1] ELSE open[v]
        BY <1>3, <2>1 DEF InsertRoleAssignment
      <3>2. ASSUME NEW v \in Users
            PROVE  /\ open'[v] \in [Roles -> Nat]
                   /\ \A q \in Roles :
                        open'[v][q] = IF v = u /\ q = p THEN open[v][q] + 1 ELSE open[v][q]
        <4>1. open[v] \in [Roles -> Nat]
          BY <2>1
        <4>2. QED
          BY <3>1, <4>1
      <3>3. QED
        BY <3>1, <3>2
    <2>3. RowsTyped
      BY <1>3, <2>2 DEF RowsTyped, IInv, Types, UserShape, IsUser
    <2>4. Spared
      BY <1>3, <2>1, <2>2, AccessAssumption DEF Spared, Present
    <2>5. Moves(r, "done") /\ Keeps(r)
      BY <1>3, EndMoves DEF IInv
    <2>6. QED
      BY <1>1, <2>3, <2>4, <2>5, ClosingStep
  <1>4. QED
    BY <1>2, <1>3 DEF AssignRole

LEMMA RemoveRoleStep ==
  ASSUME IInv, NEW r \in Requests, RemoveRole(r)
  PROVE  IInv'
  <1> DEFINE p == req[r].cmd.role
             u == req[r].cmd.target
  <1>1. Release(r) /\ Cleared(r, "REMOVE")
    BY DEF RemoveRole
  <1>2. CASE Nothing(r)
    BY <1>1, <1>2, QuietEnd DEF Nothing, rows
  <1>3. CASE open[u][p] > 0 /\ CloseRoleAssignments(u, p) /\ End(r, "done") /\ UNCHANGED <<user, linked>>
    <2>1. open \in [Users -> [Roles -> Nat]]
      BY DEF IInv, Types
    <2>2. /\ open' \in [Users -> [Roles -> Nat]]
          /\ \A v \in Users \ {u} : open'[v] = open[v]
          /\ \A v \in Users, q \in Roles \ {p} : open'[v][q] = open[v][q]
      BY <1>3, <2>1 DEF CloseRoleAssignments
    <2>3. RowsTyped
      BY <1>3, <2>2 DEF RowsTyped, IInv, Types, UserShape, IsUser
    <2>4. Moves(r, "done") /\ Keeps(r)
      BY <1>3, EndMoves DEF IInv
    <2>5. CASE p # Admin
      <3>1. Spared
        BY <1>3, <2>2, <2>5, AccessAssumption DEF Spared, Present
      <3>2. QED
        BY <1>1, <2>3, <2>4, <3>1, ClosingStep
    <2>6. CASE p = Admin
      <3>1. req[r].phase = "counted"
        BY <1>1, <1>3, <2>6 DEF Cleared, Demotes
      <3>2. QED
        BY <1>1, <1>3, <2>2, <2>3, <2>4, <3>1, ClosingStep
    <2>7. QED
      BY <2>5, <2>6
  <1>4. QED
    BY <1>2, <1>3 DEF RemoveRole

\* The commands on memberships and on the catalogue, the record of a denial and
\* a crash leave users, roles and identities alone.
LEMMA OtherSteps ==
  ASSUME IInv, NEW r \in Requests,
         \/ AddQueueMember(r) \/ RemoveQueueMember(r) \/ SetRequestTypeVisibility(r)
         \/ RecordDenial(r) \/ Crash(r)
  PROVE  IInv'
  <1>1. \E p \in {"done", "refused", "crashed"} : End(r, p)
    BY DEF AddQueueMember, RemoveQueueMember, SetRequestTypeVisibility, RecordDenial, Crash,
           Nothing, Moved, Refuse
  <1>2. Release(r) \/ UNCHANGED locks
    BY DEF AddQueueMember, RemoveQueueMember, SetRequestTypeVisibility, RecordDenial, Crash
  <1>3. UNCHANGED <<user, open, linked>>
    BY DEF AddQueueMember, RemoveQueueMember, SetRequestTypeVisibility, RecordDenial, Crash,
           Nothing, Moved, rows
  <1>4. QED
    BY <1>1, <1>2, <1>3, QuietEnd

-----------------------------------------------------------------------------
(* The invariant                                                           *)

LEMMA InitIInv == Init => IInv
  <1> SUFFICES ASSUME Init
               PROVE  IInv
    OBVIOUS
  <1>1. /\ \A u \in Users : user[u] \in [present : {\E s \in Subjects : KnownUser[s] = u},
                                         active : {TRUE}, version : {1}]
        /\ \A r \in Requests : req[r] \in [phase : {"new"}, subject : {None}, user : {None},
                                           roles : {{}}, cmd : {NoCommand}]
    BY DEF Init
  <1>2. Types
    <2>1. UserShape
      BY <1>1 DEF Init, UserShape, IsUser
    <2>2. open \in [Users -> [Roles -> Nat]]
      BY DEF Init, OpenAtStart
    <2>3. QED
      BY <1>1, <2>1, <2>2, AccessAssumption DEF Init, Types, IsReq, Links
  <1>3. Serialized
    BY <1>1 DEF Serialized, SerializedAt, Deciding
  <1>4. Present = {u \in Users : \E s \in Subjects : KnownUser[s] = u}
    BY <1>1 DEF Present
  <1>5. AlwaysAdministered
    <2>1. PICK s \in Subjects : KnownUser[s] # None
      BY AccessAssumption
    <2>2. KnownUser[s] \in Users /\ KnownUser[s] \in Present /\ KnownUser[s] # None
      BY <1>4, <2>1, AccessAssumption
    <2>3. user[KnownUser[s]].active /\ open[KnownUser[s]][Admin] > 0
      BY <1>1, <2>2, AccessAssumption DEF Init, OpenAtStart
    <2>4. QED
      BY <2>2, <2>3 DEF AlwaysAdministered, OtherAdmins
  <1>6. Linking
    BY <1>4, AccessAssumption DEF Init, Linking
  <1>7. Acting
    BY <1>1 DEF Acting, ActingFor
  <1>8. QED
    BY <1>2, <1>3, <1>5, <1>6, <1>7 DEF IInv

LEMMA NextIInv == IInv /\ [Next]_vars => IInv'
  <1> SUFFICES ASSUME IInv, [Next]_vars
               PROVE  IInv'
    OBVIOUS
  <1>1. CASE UNCHANGED vars
    <2>1. /\ UNCHANGED <<user, open, linked, inserting>>
          /\ UNCHANGED <<tenantLock, req>>
      BY <1>1 DEF vars
    <2>2. Types'
      BY <2>1 DEF IInv, Types, UserShape, IsUser, IsReq
    <2>3. Serialized' /\ AlwaysAdministered'
      BY <2>1 DEF IInv, Serialized, SerializedAt, AlwaysAdministered, OtherAdmins, Present
    <2>4. Linking' /\ Acting'
      BY <2>1 DEF IInv, Linking, Acting, ActingFor, Present
    <2>5. QED
      BY <2>2, <2>3, <2>4 DEF IInv
  <1>2. ASSUME NEW r \in Requests,
               \/ Authenticate(r) \/ CreateUser(r) \/ PublishUser(r) \/ IssueContext(r)
               \/ \E c \in Askable : Ask(r, c)
        PROVE  IInv'
    BY <1>2, AuthenticateStep, CreateUserStep, PublishUserStep, IssueContextStep, AskStep
  <1>3. ASSUME NEW r \in Requests,
               LockTenantIdentity(r) \/ UserForUpdate(r) \/ RequireSurvivingAdministrator(r)
        PROVE  IInv'
    BY <1>3, LockTenantIdentityStep, UserForUpdateStep, RequireSurvivingAdministratorStep
  <1>4. ASSUME NEW r \in Requests,
               \/ SetUserStatus(r) \/ AssignRole(r) \/ RemoveRole(r)
               \/ AddQueueMember(r) \/ RemoveQueueMember(r) \/ SetRequestTypeVisibility(r)
               \/ RecordDenial(r) \/ Crash(r)
        PROVE  IInv'
    BY <1>4, SetUserStatusStep, AssignRoleStep, RemoveRoleStep, OtherSteps
  <1>5. QED
    BY <1>1, <1>2, <1>3, <1>4 DEF Next, Served

LEMMA IInvHolds == Spec => []IInv
  BY InitIInv, NextIInv, PTL DEF Spec

\* set_user_status, remove_role, _require_surviving_administrator: whatever
\* administrators do to each other at once, one that is active remains.
THEOREM TenantStaysAdministered == Spec => []AlwaysAdministered
  BY IInvHolds, PTL DEF IInv

\* JIT provisioning and the context of a request: a subject has one user, and
\* a user one subject, although two first logins may both find no user.
THEOREM PersonIsOneUser == Spec => []OnePersonOneUser
  <1>1. IInv => OnePersonOneUser
    <2> SUFFICES ASSUME IInv
                 PROVE  OnePersonOneUser
      OBVIOUS
    <2>1. ASSUME NEW u \in Present
          PROVE  Cardinality({s \in Subjects : linked[s] = u}) = 1
      <3>1. PICK s \in Subjects : linked[s] = u
        BY DEF IInv, Linking
      <3>2. {t \in Subjects : linked[t] = u} = {s}
        BY <3>1, AccessAssumption DEF IInv, Linking, Present
      <3>3. QED
        BY <3>2, FS_Singleton
    <2>2. QED
      BY <2>1 DEF IInv, Acting, ActingFor, OnePersonOneUser
  <1>2. QED
    BY <1>1, IInvHolds, PTL

-----------------------------------------------------------------------------
(* The audit trail                                                         *)

TrailShape == trail \in Seq({trail[i] : i \in DOMAIN trail})

\* What the trail needs beside the tables' own invariant.
Replay ==
    /\ TrailShape
    /\ member = [u \in Users |-> member[u]]
    /\ TrailReplays

\* An entry appended about the very thing starts where the trail stood, changes
\* it, and is where the trail stands; an entry about another thing alters nothing.
LEMMA ChainedAppend ==
  ASSUME NEW S, NEW t \in Seq(S), NEW e, NEW u, u = Append(t, e),
         NEW what, NEW first, NEW now, NEW next, Chained(t, what, first, now),
         IF e.what = what THEN e.from = now /\ e.to = next /\ now # next ELSE next = now
  PROVE  Chained(u, what, first, next)
  <1> DEFINE n == Len(t)
  <1>1. /\ n \in Nat /\ Len(u) = n + 1 /\ DOMAIN t = 1..n /\ DOMAIN u = 1..(n + 1)
        /\ \A i \in 1..n : u[i] = t[i]
        /\ u[n + 1] = e
    <2>1. t \in Seq(S \cup {e}) /\ e \in S \cup {e}
      BY SeqMonotonic
    <2>2. QED
      BY <2>1, AppendProperties, LenProperties
  <1> HIDE DEF n
  <1>2. Entries(t, what) = {i \in 1..n : t[i].what = what}
    BY <1>1 DEF Entries
  <1>3. Entries(u, what) = Entries(t, what) \cup (IF e.what = what THEN {n + 1} ELSE {})
    BY <1>1, <1>2 DEF Entries
  <1>4. ASSUME NEW m \in 1..(n + 1), NEW v, Says(t, m, what, first, v)
        PROVE  Says(u, m, what, first, v)
    <2>1. CASE v = first /\ \A i \in Entries(t, what) : m <= i
      BY <1>1, <1>3, <2>1 DEF Says
    <2>2. CASE \E i \in Entries(t, what) :
                 i < m /\ t[i].to = v /\ \A j \in Entries(t, what) : j <= i \/ m <= j
      <3>1. PICK i \in Entries(t, what) :
              i < m /\ t[i].to = v /\ \A j \in Entries(t, what) : j <= i \/ m <= j
        BY <2>2
      <3>2. i \in Entries(u, what) /\ u[i].to = v
        BY <1>1, <1>2, <1>3, <3>1
      <3>3. \A j \in Entries(u, what) : j <= i \/ m <= j
        BY <1>1, <1>3, <3>1
      <3>4. QED
        BY <3>1, <3>2, <3>3 DEF Says
    <2>3. QED
      BY <1>4, <2>1, <2>2 DEF Says
  <1>5. Says(u, n + 1, what, first, now)
    BY <1>1, <1>4 DEF Chained, n
  <1>6. ASSUME NEW i \in Entries(t, what)
        PROVE  u[i].from # u[i].to /\ Says(u, i, what, first, u[i].from)
    <2>1. i \in 1..(n + 1) /\ u[i] = t[i]
      BY <1>1, <1>2
    <2>2. t[i].from # t[i].to /\ Says(t, i, what, first, t[i].from)
      BY <1>6 DEF Chained
    <2>3. QED
      BY <1>4, <2>1, <2>2
  <1>7. CASE e.what = what
    <2>1. e.from = now /\ e.to = next /\ now # next
      BY <1>7
    <2>2. n + 1 \in Entries(u, what) /\ u[n + 1].to = next
      BY <1>1, <1>3, <1>7, <2>1
    <2>3. \A j \in Entries(u, what) : j <= n + 1
      BY <1>1, <1>2, <1>3
    <2>4. Says(u, n + 1 + 1, what, first, next)
      BY <1>1, <2>2, <2>3 DEF Says
    <2>5. \A i \in Entries(u, what) :
            u[i].from # u[i].to /\ Says(u, i, what, first, u[i].from)
      BY <1>1, <1>3, <1>5, <1>6, <2>1
    <2>6. QED
      BY <1>1, <2>4, <2>5 DEF Chained
  <1>8. CASE e.what # what
    <2>1. Entries(u, what) = Entries(t, what) /\ next = now
      BY <1>3, <1>8
    <2>2. \A i \in Entries(u, what) : i < n + 1
      BY <1>1, <1>2, <2>1
    <2>3. Says(u, n + 1 + 1, what, first, now)
      <3>1. CASE now = first /\ \A i \in Entries(u, what) : n + 1 <= i
        BY <1>1, <1>2, <2>1, <2>2, <3>1 DEF Says
      <3>2. CASE \E i \in Entries(u, what) : i < n + 1 /\ u[i].to = now
                   /\ \A j \in Entries(u, what) : j <= i \/ n + 1 <= j
        BY <1>1, <1>2, <2>1, <2>2, <3>2 DEF Says
      <3>3. QED
        BY <1>5, <3>1, <3>2 DEF Says
    <2>4. QED
      BY <1>1, <1>6, <2>1, <2>3 DEF Chained
  <1>9. QED
    BY <1>7, <1>8

\* The things the trail is about are told apart.
LEMMA Things ==
  /\ \A u, v : <<"ACTIVE", u>> = <<"ACTIVE", v>> <=> u = v
  /\ \A u, v : <<"MEMBER", u>> = <<"MEMBER", v>> <=> u = v
  /\ \A u, v, p, q : <<"ROLE", u, p>> = <<"ROLE", v, q>> <=> u = v /\ p = q
  /\ \A u, v : <<"ACTIVE", u>> # <<"MEMBER", v>>
  /\ \A u, v, p : <<"ACTIVE", u>> # <<"ROLE", v, p>> /\ <<"MEMBER", u>> # <<"ROLE", v, p>>
  /\ \A u, p : <<"SHOWN">> # <<"ACTIVE", u>> /\ <<"SHOWN">> # <<"MEMBER", u>>
               /\ <<"SHOWN">> # <<"ROLE", u, p>>
  OBVIOUS

\* A step that audits nothing leaves what the trail is about.
LEMMA Unaudited ==
  ASSUME Replay, UNCHANGED <<trail, open, member, shown>>,
         \A u \in Users : user'[u].active = user[u].active
  PROVE  Replay'
  BY DEF Replay, TrailShape, TrailReplays

\* An entry joins the trail and the tables follow it.
Follows(e) ==
    /\ trail' = Append(trail, e)
    /\ member' = [u \in Users |-> member'[u]]
    /\ \A u \in Users :
         IF e.what = <<"ACTIVE", u>>
         THEN e.from = user[u].active /\ e.to = user'[u].active /\ user[u].active # user'[u].active
         ELSE user'[u].active = user[u].active
    /\ \A u \in Users : \A p \in Roles :
         IF e.what = <<"ROLE", u, p>>
         THEN e.from = open[u][p] /\ e.to = open'[u][p] /\ open[u][p] # open'[u][p]
         ELSE open'[u][p] = open[u][p]
    /\ \A u \in Users :
         IF e.what = <<"MEMBER", u>>
         THEN e.from = member[u] /\ e.to = member'[u] /\ member[u] # member'[u]
         ELSE member'[u] = member[u]
    /\ IF e.what = <<"SHOWN">>
       THEN e.from = shown.value /\ e.to = shown'.value /\ shown.value # shown'.value
       ELSE shown'.value = shown.value

LEMMA Audited ==
  ASSUME Replay, NEW e, Follows(e)
  PROVE  Replay'
  <1> DEFINE S == {trail[i] : i \in DOMAIN trail}
             t == trail'
  <1>1. trail \in Seq(S) /\ t = Append(trail, e)
    BY DEF Replay, TrailShape, Follows
  <1>2. TrailShape'
    <2> DEFINE T == {t[i] : i \in DOMAIN t}
    <2>1. trail \in Seq(S \cup {e}) /\ e \in S \cup {e}
      BY <1>1, SeqMonotonic
    <2>2. t \in Seq(S \cup {e})
      BY <1>1, <2>1, AppendProperties
    <2>3. Len(t) \in Nat /\ t = [i \in 1..Len(t) |-> t[i]] /\ DOMAIN t = 1..Len(t)
      BY <2>2, LenProperties
    <2>4. \A i \in 1..Len(t) : t[i] \in T
      BY <2>3
    <2> HIDE DEF T
    <2>5. t \in Seq(T)
      BY <2>3, <2>4
    <2>6. QED
      BY <2>5 DEF TrailShape, T
  <1> HIDE DEF S
  <1>3. ASSUME NEW u \in Users
        PROVE  Chained(t, <<"ACTIVE", u>>, TRUE, user'[u].active)
    <2>1. Chained(trail, <<"ACTIVE", u>>, TRUE, user[u].active)
      BY DEF Replay, TrailReplays
    <2>2. IF e.what = <<"ACTIVE", u>>
          THEN e.from = user[u].active /\ e.to = user'[u].active /\ user[u].active # user'[u].active
          ELSE user'[u].active = user[u].active
      BY DEF Follows
    <2>3. \A first, now, next :
            /\ Chained(trail, <<"ACTIVE", u>>, first, now)
            /\ IF e.what = <<"ACTIVE", u>>
               THEN e.from = now /\ e.to = next /\ now # next ELSE next = now
            => Chained(t, <<"ACTIVE", u>>, first, next)
      BY <1>1, ChainedAppend
    <2>4. QED
      BY <2>1, <2>2, <2>3
  <1>4. ASSUME NEW u \in Users, NEW p \in Roles
        PROVE  Chained(t, <<"ROLE", u, p>>, OpenAtStart(u, p), open'[u][p])
    <2>1. Chained(trail, <<"ROLE", u, p>>, OpenAtStart(u, p), open[u][p])
      BY DEF Replay, TrailReplays
    <2>2. IF e.what = <<"ROLE", u, p>>
          THEN e.from = open[u][p] /\ e.to = open'[u][p] /\ open[u][p] # open'[u][p]
          ELSE open'[u][p] = open[u][p]
      BY DEF Follows
    <2>3. QED
      BY <1>1, <2>1, <2>2, ChainedAppend
  <1>5. ASSUME NEW u \in Users
        PROVE  Chained(t, <<"MEMBER", u>>, Absent, member'[u])
    <2>1. Chained(trail, <<"MEMBER", u>>, Absent, member[u])
      BY DEF Replay, TrailReplays
    <2>2. IF e.what = <<"MEMBER", u>>
          THEN e.from = member[u] /\ e.to = member'[u] /\ member[u] # member'[u]
          ELSE member'[u] = member[u]
      BY DEF Follows
    <2>3. QED
      BY <1>1, <2>1, <2>2, ChainedAppend
  <1>6. Chained(t, <<"SHOWN">>, TRUE, shown'.value)
    <2>1. Chained(trail, <<"SHOWN">>, TRUE, shown.value)
      BY DEF Replay, TrailReplays
    <2>2. IF e.what = <<"SHOWN">>
          THEN e.from = shown.value /\ e.to = shown'.value /\ shown.value # shown'.value
          ELSE shown'.value = shown.value
      BY DEF Follows
    <2>3. QED
      BY <1>1, <2>1, <2>2, ChainedAppend
  <1>7. TrailReplays'
    BY <1>3, <1>4, <1>5, <1>6 DEF TrailReplays, Absent
  <1>8. QED
    BY <1>2, <1>7 DEF Replay, Follows

\* What an audited command leaves alone stays as it is.
LEMMA NothingReplays ==
  ASSUME Replay, UNCHANGED <<rows, trail>>
  PROVE  Replay'
  BY Unaudited DEF rows

LEMMA SetUserStatusReplays ==
  ASSUME IInv, Replay, NEW r \in Requests, SetUserStatus(r)
  PROVE  Replay'
  <1> DEFINE c == req[r].cmd
             u == req[r].cmd.target
  <1>1. CASE Nothing(r) \/ Moved(r)
    BY <1>1, NothingReplays DEF Nothing, Moved
  <1>2. CASE /\ user[u].active # c.to
             /\ SetUserActive(u, c.to)
             /\ Record(r, <<"ACTIVE", u>>, user[u].active, c.to)
             /\ UNCHANGED <<open, member, shown>>
    <2> DEFINE e == [what |-> <<"ACTIVE", u>>, from |-> user[u].active, to |-> c.to,
                     by |-> req[r].user]
    <2>1. \A v \in Users : user'[v].active = IF v = u THEN c.to ELSE user[v].active
      BY <1>2 DEF SetUserActive, IInv, Types, UserShape, IsUser
    <2>2. /\ e.what = <<"ACTIVE", u>> /\ e.from = user[u].active /\ e.to = c.to
          /\ trail' = Append(trail, e)
      BY <1>2 DEF Record
    <2> HIDE DEF e
    <2>3. Follows(e)
      BY <1>2, <2>1, <2>2, Things DEF Follows, Replay
    <2>4. QED
      BY <2>3, Audited
  <1>3. QED
    BY <1>1, <1>2 DEF SetUserStatus

LEMMA RolesReplay ==
  ASSUME IInv, Replay, NEW r \in Requests, AssignRole(r) \/ RemoveRole(r)
  PROVE  Replay'
  <1> DEFINE p == req[r].cmd.role
             u == req[r].cmd.target
  <1>1. CASE Nothing(r)
    BY <1>1, NothingReplays DEF Nothing
  <1>2. ASSUME NEW from, NEW to, from = open[u][p],
               \/ from = 0 /\ to = 1 /\ InsertRoleAssignment(u, p)
               \/ from > 0 /\ to = 0 /\ CloseRoleAssignments(u, p),
               Record(r, <<"ROLE", u, p>>, from, to), UNCHANGED <<user, member, shown>>
        PROVE  Replay'
    <2> DEFINE e == [what |-> <<"ROLE", u, p>>, from |-> from, to |-> to, by |-> req[r].user]
    <2>1. open \in [Users -> [Roles -> Nat]]
      BY DEF IInv, Types
    <2>2. ASSUME NEW v \in Users, NEW q \in Roles
          PROVE  IF v = u /\ q = p THEN open'[v][q] = to /\ open[v][q] # to
                 ELSE open'[v][q] = open[v][q]
      <3>1. CASE from = 0 /\ to = 1 /\ InsertRoleAssignment(u, p)
        <4>1. open' = [open EXCEPT ![u] = [open[u] EXCEPT ![p] = open[u][p] + 1]] /\ open[u][p] + 1 = to
          BY <1>2, <2>1, <3>1 DEF InsertRoleAssignment
        <4>2. open[u][p] = 0 /\ to = 1
          BY <1>2, <3>1
        <4> HIDE DEF p, u
        <4>3. CASE v = u
          <5>1. open'[v] = [open[v] EXCEPT ![p] = to]
            BY <2>1, <4>1, <4>3
          <5>2. QED
            BY <2>1, <4>2, <4>3, <5>1
        <4>4. CASE v # u
          BY <2>1, <4>1, <4>4
        <4>5. QED
          BY <4>3, <4>4
      <3>2. CASE from > 0 /\ to = 0 /\ CloseRoleAssignments(u, p)
        <4>1. open' = [open EXCEPT ![u] = [open[u] EXCEPT ![p] = to]] /\ open[u][p] # to
          <5>1. open[u][p] # to
            BY <1>2, <3>2
          <5>2. open' = [open EXCEPT ![u] = [open[u] EXCEPT ![p] = to]]
            BY <3>2 DEF CloseRoleAssignments
          <5>3. QED
            BY <5>1, <5>2
        <4> HIDE DEF p, u
        <4>2. CASE v = u
          <5>1. open'[v] = [open[v] EXCEPT ![p] = to]
            BY <2>1, <4>1, <4>2
          <5>2. QED
            BY <2>1, <4>1, <4>2, <5>1
        <4>3. CASE v # u
          BY <2>1, <4>1, <4>3
        <4>4. QED
          BY <4>2, <4>3
      <3>3. QED
        BY <1>2, <3>1, <3>2
    <2>3. /\ e.what = <<"ROLE", u, p>> /\ e.from = open[u][p] /\ e.to = to
          /\ trail' = Append(trail, e)
      BY <1>2 DEF Record
    <2> HIDE DEF e
    <2>4. Follows(e)
      <3>1. /\ \A v \in Users : e.what # <<"ACTIVE", v>> /\ e.what # <<"MEMBER", v>>
            /\ e.what # <<"SHOWN">>
        BY <2>3, Things
      <3>2. \A v \in Users : \A q \in Roles : e.what = <<"ROLE", v, q>> <=> v = u /\ q = p
        BY <2>3, Things
      <3>3. \A v \in Users : \A q \in Roles :
              IF e.what = <<"ROLE", v, q>>
              THEN e.from = open[v][q] /\ e.to = open'[v][q] /\ open[v][q] # open'[v][q]
              ELSE open'[v][q] = open[v][q]
        <4> SUFFICES ASSUME NEW v \in Users, NEW q \in Roles
                     PROVE  IF e.what = <<"ROLE", v, q>>
                            THEN e.from = open[v][q] /\ e.to = open'[v][q] /\ open[v][q] # open'[v][q]
                            ELSE open'[v][q] = open[v][q]
          OBVIOUS
        <4>1. CASE v = u /\ q = p
          BY <4>1, <2>2, <2>3, <3>2
        <4>2. CASE ~(v = u /\ q = p)
          BY <4>2, <2>2, <3>2
        <4>3. QED
          BY <4>1, <4>2
      <3>4. /\ \A v \in Users : user'[v].active = user[v].active /\ member'[v] = member[v]
            /\ shown'.value = shown.value
        BY <1>2
      <3>5. member' = [v \in Users |-> member'[v]]
        BY <1>2 DEF Replay
      <3>6. QED
        BY <2>3, <3>1, <3>3, <3>4, <3>5 DEF Follows
    <2>5. QED
      BY <2>4, Audited
  <1>3. CASE AssignRole(r) /\ ~ Nothing(r)
    BY <1>2, <1>3 DEF AssignRole
  <1>4. CASE RemoveRole(r) /\ ~ Nothing(r)
    BY <1>2, <1>4 DEF RemoveRole
  <1>5. QED
    BY <1>1, <1>3, <1>4

LEMMA MembersReplay ==
  ASSUME IInv, Replay, NEW r \in Requests, AddQueueMember(r) \/ RemoveQueueMember(r)
  PROVE  Replay'
  <1> DEFINE u == req[r].cmd.target
  <1>1. CASE Nothing(r)
    BY <1>1, NothingReplays DEF Nothing
  <1>2. ASSUME NEW to, member[u] # to, member' = [member EXCEPT ![u] = to],
               Record(r, <<"MEMBER", u>>, member[u], to), UNCHANGED <<user, open, shown>>
        PROVE  Replay'
    <2> DEFINE e == [what |-> <<"MEMBER", u>>, from |-> member[u], to |-> to, by |-> req[r].user]
    <2>1. /\ member' = [v \in Users |-> member'[v]]
          /\ \A v \in Users : member'[v] = IF v = u THEN to ELSE member[v]
      BY <1>2 DEF Replay
    <2>2. /\ e.what = <<"MEMBER", u>> /\ e.from = member[u] /\ e.to = to
          /\ trail' = Append(trail, e)
      BY <1>2 DEF Record
    <2> HIDE DEF e
    <2>3. Follows(e)
      BY <1>2, <2>1, <2>2, Things DEF Follows
    <2>4. QED
      BY <2>3, Audited
  <1>3. CASE AddQueueMember(r) /\ ~ Nothing(r)
    BY <1>2, <1>3 DEF AddQueueMember, UpsertQueueMember
  <1>4. CASE RemoveQueueMember(r) /\ ~ Nothing(r)
    <2>1. member[u] \in MemberRoles /\ member[u] # Inactive
      BY <1>4, AccessAssumption DEF RemoveQueueMember
    <2>2. QED
      BY <1>2, <1>4, <2>1 DEF RemoveQueueMember, DeactivateQueueMember
  <1>5. QED
    BY <1>1, <1>3, <1>4

LEMMA VisibilityReplays ==
  ASSUME Replay, NEW r \in Requests, SetRequestTypeVisibility(r)
  PROVE  Replay'
  <1> DEFINE c == req[r].cmd
  <1>1. CASE Nothing(r) \/ Moved(r)
    BY <1>1, NothingReplays DEF Nothing, Moved
  <1>2. CASE /\ shown.value # c.to /\ SetVisibility(c.to)
             /\ Record(r, <<"SHOWN">>, shown.value, c.to)
             /\ UNCHANGED <<user, open, member>>
    <2> DEFINE e == [what |-> <<"SHOWN">>, from |-> shown.value, to |-> c.to, by |-> req[r].user]
    <2>1. /\ e.what = <<"SHOWN">> /\ e.from = shown.value /\ e.to = c.to
          /\ trail' = Append(trail, e) /\ shown'.value = c.to
      BY <1>2 DEF Record, SetVisibility
    <2> HIDE DEF e
    <2>2. Follows(e)
      BY <1>2, <2>1, Things DEF Follows, Replay
    <2>3. QED
      BY <2>2, Audited
  <1>3. QED
    BY <1>1, <1>2 DEF SetRequestTypeVisibility

\* The other steps audit nothing; a user that appears is active, as every row is.
LEMMA OthersReplay ==
  ASSUME IInv, Replay, NEW r \in Requests,
         \/ Authenticate(r) \/ CreateUser(r) \/ PublishUser(r) \/ IssueContext(r)
         \/ \E c \in Askable : Ask(r, c)
         \/ LockTenantIdentity(r) \/ UserForUpdate(r) \/ RequireSurvivingAdministrator(r)
         \/ RecordDenial(r) \/ Crash(r)
  PROVE  Replay'
  <1>1. UNCHANGED <<trail, open, member, shown>>
    BY DEF Authenticate, CreateUser, PublishUser, IssueContext, Ask, LockTenantIdentity,
           UserForUpdate, RequireSurvivingAdministrator, RecordDenial, Crash, rows
  <1>2. \/ UNCHANGED user
        \/ PublishUser(r)
        \/ IssueContext(r)
    BY DEF Authenticate, CreateUser, Ask, LockTenantIdentity,
           UserForUpdate, RequireSurvivingAdministrator, RecordDenial, Crash, rows
  <1>3. \A u \in Users : user'[u].active = user[u].active
    <2>1. CASE UNCHANGED user
      BY <2>1
    <2>2. CASE PublishUser(r)
      <3>1. PICK x : user' = [user EXCEPT ![x].present = TRUE]
        BY <2>2 DEF PublishUser
      <3>2. QED
        BY <3>1 DEF IInv, Types, UserShape, IsUser
    <2>3. CASE IssueContext(r)
      <3>1. CASE user' = [user EXCEPT ![req[r].user].version = @ + 1]
        BY <3>1 DEF IInv, Types, UserShape, IsUser
      <3>2. QED
        BY <2>3, <3>1 DEF IssueContext, SynchronizeProfile
    <2>4. QED
      BY <1>2, <2>1, <2>2, <2>3
  <1>4. QED
    BY <1>1, <1>3, Unaudited

LEMMA InitReplay == Init => Replay
  <1> SUFFICES ASSUME Init
               PROVE  Replay
    OBVIOUS
  <1>1. /\ trail = <<>> /\ member = [u \in Users |-> Absent] /\ shown.value = TRUE
        /\ \A u \in Users : user[u].active = TRUE
        /\ \A u \in Users : \A p \in Roles : open[u][p] = OpenAtStart(u, p)
    BY DEF Init
  <1>2. ASSUME NEW what, NEW first
        PROVE  Chained(<<>>, what, first, first)
    BY DEF Chained, Says, Entries
  <1>3. TrailReplays
    BY <1>1, <1>2 DEF TrailReplays
  <1>4. TrailShape
    BY <1>1 DEF TrailShape
  <1>5. QED
    BY <1>1, <1>3, <1>4 DEF Replay

LEMMA NextReplay == IInv /\ Replay /\ [Next]_vars => Replay'
  <1> SUFFICES ASSUME IInv, Replay, [Next]_vars
               PROVE  Replay'
    OBVIOUS
  <1>1. CASE UNCHANGED vars \/ Served
    BY <1>1, Unaudited DEF vars, Served
  <1>2. CASE \E r \in Requests :
               \/ Authenticate(r) \/ CreateUser(r) \/ PublishUser(r) \/ IssueContext(r)
               \/ \E c \in Askable : Ask(r, c)
               \/ LockTenantIdentity(r) \/ UserForUpdate(r) \/ RequireSurvivingAdministrator(r)
               \/ RecordDenial(r) \/ Crash(r)
    BY <1>2, OthersReplay
  <1>3. CASE \E r \in Requests : SetUserStatus(r)
    BY <1>3, SetUserStatusReplays
  <1>4. CASE \E r \in Requests : AssignRole(r) \/ RemoveRole(r)
    BY <1>4, RolesReplay
  <1>5. CASE \E r \in Requests : AddQueueMember(r) \/ RemoveQueueMember(r)
    BY <1>5, MembersReplay
  <1>6. CASE \E r \in Requests : SetRequestTypeVisibility(r)
    BY <1>6, VisibilityReplays
  <1>7. QED
    BY <1>1, <1>2, <1>3, <1>4, <1>5, <1>6 DEF Next

\* audit.audit_event: replayed, the trail is what the tables hold. Each change
\* of a flag, a role, a membership or the visibility starts where the one before
\* ended, whatever commands ran side by side, and none is lost or told twice.
THEOREM TrailTellsTheTables == Spec => []TrailReplays
  <1>1. IInv /\ Replay /\ [Next]_vars => IInv' /\ Replay'
    BY NextIInv, NextReplay
  <1>2. Spec => [](IInv /\ Replay)
    BY <1>1, InitIInv, InitReplay, PTL DEF Spec
  <1>3. QED
    BY <1>2, PTL DEF Replay
=============================================================================
