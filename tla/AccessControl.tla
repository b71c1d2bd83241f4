--------------------------- MODULE AccessControl ---------------------------
(***************************************************************************)
(* modules/rbac: roles, permissions, the grants between them, the roles of *)
(* each user, and the decision PermissionsGuard asks for.                  *)
(*                                                                         *)
(* A caller is one request under way, each await that matters a step.  A   *)
(* check that the table repeats when it is written (a unique name, a       *)
(* foreign key) is left to the table, so an operation that only checks and *)
(* writes is one step.  Any await may reject: the request ends (Fail) and  *)
(* nothing is rolled back.                                                 *)
(***************************************************************************)
EXTENDS Naturals

CONSTANTS
  User, Role, Permission, Grant,  \* ids, each inserted once
  Name,             \* names of roles and of permissions
  Action,
  Caller,
  DefaultName,      \* RBAC_ROLES.USER
  SeedRoles,        \* the rows the migration inserts, by id
  SeedPermissions,
  SeedGrants,
  MaxRequests,      \* bound: requests that are looked at
  None

RoleRows       == [name : Name]
PermissionRows == [name : Name, actions : SUBSET Action]
\* Without actions of its own a grant covers all of its permission.
GrantRows      == [role : Role, permission : Permission, actions : SUBSET Action]

Rows(table) == {id \in DOMAIN table : table[id] # None}

ASSUME AccessAssumption ==
  /\ MaxRequests \in Nat /\ DefaultName \in Name
  /\ None \notin RoleRows \cup PermissionRows \cup GrantRows
  /\ None \notin User \cup Role \cup Permission \cup Grant
  /\ SeedRoles \in [Role -> RoleRows \cup {None}]
  /\ SeedPermissions \in [Permission -> PermissionRows \cup {None}]
  /\ SeedGrants \in [Grant -> GrantRows \cup {None}]

\* The seeds keep the constraints of their tables.
ASSUME SeedAssumption ==
  /\ \A g \in Rows(SeedGrants) :
       /\ SeedGrants[g].role \in Rows(SeedRoles)
       /\ SeedGrants[g].permission \in Rows(SeedPermissions)
       /\ SeedGrants[g].actions \subseteq SeedPermissions[SeedGrants[g].permission].actions
  /\ \A g, h \in Rows(SeedGrants) :
       SeedGrants[g].role = SeedGrants[h].role
         /\ SeedGrants[g].permission = SeedGrants[h].permission => g = h
  /\ \A r, q \in Rows(SeedRoles) : SeedRoles[r].name = SeedRoles[q].name => r = q
  /\ \A p, q \in Rows(SeedPermissions) :
       SeedPermissions[p].name = SeedPermissions[q].name => p = q

VARIABLES
  users,       \* accounts that exist
  role, permission, grant,   \* rows by id, None where there is none
  assigned,    \* user_roles: assigned[u], the roles of u
  spent,       \* ids that were inserted once
  call,
  requests,    \* counts up to MaxRequests
  \* history, for the properties
  rev,         \* rev[u]: how often the roles of u were written
  answered,    \* answered[u]: the roles the last completed write left u with
  halved,      \* users whose last replacement failed after its delete
  contested,   \* ids of rows two requests were updating at a time
  catalogue    \* catalogue[p]: every action the permission p ever had

tables    == <<users, role, permission, grant, assigned, spent>>
ghostVars == <<rev, answered, halved, contested, catalogue>>
vars      == <<tables, call, requests, ghostVars>>

Steps == {"idle", "grants", "allowed", "denied", "clear", "assign", "role", "default",
          "saveRole", "savePermission", "insertGrant", "checkGrant", "saveGrant"}

Calls == [at : Steps, id : User \cup Role \cup Permission \cup Grant \cup {None},
          row : RoleRows \cup PermissionRows \cup GrantRows \cup {None},
          loaded : RoleRows \cup PermissionRows \cup GrantRows \cup {None},
          user : User \cup {None}, roles : SUBSET Role, since : Nat,
          name : Name \cup {None}, action : Action \cup {None}]

Idle == [at |-> "idle", id |-> None, row |-> None, loaded |-> None, user |-> None,
         roles |-> {}, since |-> 0, name |-> None, action |-> None]

TypeOK ==
  /\ users \in SUBSET User
  /\ role \in [Role -> RoleRows \cup {None}]
  /\ permission \in [Permission -> PermissionRows \cup {None}]
  /\ grant \in [Grant -> GrantRows \cup {None}]
  /\ assigned \in [User -> SUBSET Role]
  /\ spent \in SUBSET (User \cup Role \cup Permission \cup Grant)
  /\ call \in [Caller -> Calls] /\ requests \in 0..MaxRequests
  /\ rev \in [User -> Nat]
  /\ answered \in [User -> SUBSET Role]
  /\ halved \in SUBSET User
  /\ contested \in SUBSET (User \cup Role \cup Permission \cup Grant)
  /\ catalogue \in [Permission -> SUBSET Action]

Init ==
  /\ users = {}
  /\ role = SeedRoles /\ permission = SeedPermissions /\ grant = SeedGrants
  /\ assigned = [u \in User |-> {}]
  /\ spent = Rows(SeedRoles) \cup Rows(SeedPermissions) \cup Rows(SeedGrants)
  /\ call = [c \in Caller |-> Idle] /\ requests = 0
  /\ rev = [u \in User |-> 0]
  /\ answered = [u \in User |-> {}]
  /\ halved = {} /\ contested = {}
  /\ catalogue = [p \in Permission |->
                    IF SeedPermissions[p] = None THEN {} ELSE SeedPermissions[p].actions]

-----------------------------------------------------------------------------

Counted         == requests < MaxRequests /\ requests' = requests + 1
Begins(c, what) == call[c] = Idle /\ Counted /\ call' = [call EXCEPT ![c] = what]
At(c, step)     == call[c].at = step
Go(c, what)     == call' = [call EXCEPT ![c] = what]
Return(c)       == call' = [call EXCEPT ![c] = Idle]

\* What it means for the row id that one more request updates it.
Contest(id) ==
  contested' = IF \E d \in Caller : call[d].id = id THEN contested \cup {id} ELSE contested

\* The unique names and the unique pairs of the tables.
Free(table, n, id) == \A other \in Rows(table) \ {id} : table[other].name # n
FreePair(row, id)  ==
  \A g \in Rows(grant) \ {id} : grant[g].role # row.role \/ grant[g].permission # row.permission

\* What save() may leave of a loaded row: it compares with the row it selects
\* first, so a column the request did not change is written back if somebody
\* else changed it, unless that happened after the comparison.
Saved(rows, now, c) ==
  {x \in rows : \A col \in DOMAIN x :
     \/ x[col] = call[c].row[col]
     \/ call[c].row[col] = call[c].loaded[col] /\ x[col] = now[col]}

\* A row that is gone is inserted again, or, if it goes after the comparison, is
\* not found by the update.
Written(table, rows, id, c) ==
  IF table[id] # None THEN Saved(rows, table[id], c) ELSE {call[c].row, None}

-----------------------------------------------------------------------------
(* AccessService.canAccess, in two reads.                                  *)

\* A user without roles is refused without the second read.
ReadAssignments(c, u, n, a) ==
  /\ u \in users
  /\ assigned[u] # {}
  /\ Begins(c, [Idle EXCEPT !.at = "grants", !.user = u, !.name = n, !.action = a,
                            !.roles = assigned[u], !.since = rev[u]])
  /\ UNCHANGED <<tables, ghostVars>>

\* Fault: the actions of the permission itself are not looked at.
GrantAllowsListed(g, n, a) ==
  /\ permission[grant[g].permission].name = n
  /\ grant[g].actions = {} \/ a \in grant[g].actions

GrantAllows(g, n, a) ==
  LET p == permission[grant[g].permission] IN
  /\ p.name = n
  /\ a \in p.actions
  /\ grant[g].actions = {} \/ a \in grant[g].actions

ReadGrants(c) ==
  /\ At(c, "grants")
  /\ Go(c, [call[c] EXCEPT !.at =
       IF \E g \in Rows(grant) :
            grant[g].role \in call[c].roles /\ GrantAllows(g, call[c].name, call[c].action)
       THEN "allowed" ELSE "denied"])
  /\ UNCHANGED <<tables, requests, ghostVars>>

\* PermissionsGuard lets the request pass or answers 403.
Decide(c) ==
  /\ At(c, "allowed") \/ At(c, "denied")
  /\ Return(c)
  /\ UNCHANGED <<tables, requests, ghostVars>>

-----------------------------------------------------------------------------
(* UserRoleService.                                                        *)

RolesWritten(u, roles) ==
  /\ assigned' = [assigned EXCEPT ![u] = roles]
  /\ rev' = [rev EXCEPT ![u] = @ + 1]

\* UsersService.createUser, which goes on with assignDefaultUserRole.
CreateUser(c, u) ==
  /\ u \notin spent
  /\ users' = users \cup {u} /\ spent' = spent \cup {u}
  /\ Begins(c, [Idle EXCEPT !.at = "role", !.id = u])
  /\ UNCHANGED <<role, permission, grant, assigned, ghostVars>>

FindDefaultRole(c) ==
  /\ At(c, "role")
  /\ \E r \in Rows(role) :
       /\ role[r].name = DefaultName
       /\ IF r \in assigned[call[c].id] THEN Return(c)
          ELSE Go(c, [call[c] EXCEPT !.at = "default", !.roles = {r}])
  /\ UNCHANGED <<tables, requests, ghostVars>>

\* One insert, which both foreign keys and the unique pair must allow.
InsertDefaultRole(c) ==
  LET u == call[c].id IN
  /\ At(c, "default")
  /\ u \in users /\ call[c].roles \subseteq Rows(role)
  /\ call[c].roles \cap assigned[u] = {}
  /\ RolesWritten(u, assigned[u] \cup call[c].roles)
  /\ answered' = [answered EXCEPT ![u] = call[c].roles]
  /\ Return(c)
  /\ UNCHANGED <<users, role, permission, grant, spent, requests, halved, contested, catalogue>>

\* replaceUserRoles, after its two reads.
FindRoles(c, u, roles) ==
  /\ u \in users /\ roles \subseteq Rows(role)
  /\ Begins(c, [Idle EXCEPT !.at = "clear", !.id = u, !.roles = roles])
  /\ Contest(u)
  /\ UNCHANGED <<tables, rev, answered, halved, catalogue>>

\* Fault: the roles the user has are left alone.
ClearNothing(c) ==
  /\ At(c, "clear")
  /\ RolesWritten(call[c].id, assigned[call[c].id])
  /\ Go(c, [call[c] EXCEPT !.at = "assign"])
  /\ UNCHANGED <<users, role, permission, grant, spent, requests,
                 answered, halved, contested, catalogue>>

ClearRoles(c) ==
  /\ At(c, "clear")
  /\ RolesWritten(call[c].id, {})
  /\ Go(c, [call[c] EXCEPT !.at = "assign"])
  /\ UNCHANGED <<users, role, permission, grant, spent, requests,
                 answered, halved, contested, catalogue>>

\* All roles in one insert.
AssignRoles(c) ==
  LET u == call[c].id IN
  /\ At(c, "assign")
  /\ u \in users /\ call[c].roles \subseteq Rows(role)
  /\ call[c].roles \cap assigned[u] = {}
  /\ RolesWritten(u, assigned[u] \cup call[c].roles)
  /\ answered' = [answered EXCEPT ![u] = call[c].roles]
  /\ halved' = halved \ {u}
  /\ Return(c)
  /\ UNCHANGED <<users, role, permission, grant, spent, requests, contested, catalogue>>

\* UsersService.deleteUser; the assignments go with the user.
DeleteUser(u) ==
  /\ Counted
  /\ u \in users
  /\ users' = users \ {u}
  /\ RolesWritten(u, {})
  /\ UNCHANGED <<role, permission, grant, spent, call, answered, halved, contested, catalogue>>

-----------------------------------------------------------------------------
(* RoleService, PermissionService and GrantService.                        *)

CreateRole(r, n) ==
  /\ Counted
  /\ r \notin spent /\ Free(role, n, r)
  /\ role' = [role EXCEPT ![r] = [name |-> n]]
  /\ spent' = spent \cup {r}
  /\ UNCHANGED <<users, permission, grant, assigned, call, ghostVars>>

\* A new description alone saves the name that was loaded, too.
LoadRole(c, r, n) ==
  /\ r \in Rows(role)
  /\ Begins(c, [Idle EXCEPT !.at = "saveRole", !.id = r,
                            !.row = [name |-> n], !.loaded = role[r]])
  /\ Contest(r)
  /\ UNCHANGED <<tables, rev, answered, halved, catalogue>>

SaveRole(c) ==
  LET r == call[c].id IN
  /\ At(c, "saveRole")
  /\ \E x \in Written(role, RoleRows, r, c) :
       /\ x # None => Free(role, x.name, r)
       /\ role' = [role EXCEPT ![r] = x]
  /\ Return(c)
  /\ UNCHANGED <<users, permission, grant, assigned, spent, requests, ghostVars>>

\* The grants go with the role; the table refuses to let go of one in use.
DeleteRole(r) ==
  /\ Counted
  /\ r \in Rows(role) /\ \A u \in users : r \notin assigned[u]
  /\ role' = [role EXCEPT ![r] = None]
  /\ grant' = [g \in Grant |-> IF grant[g] # None /\ grant[g].role = r THEN None ELSE grant[g]]
  /\ UNCHANGED <<users, permission, assigned, spent, call, ghostVars>>

CreatePermission(p, row) ==
  /\ Counted
  /\ p \notin spent /\ row.actions # {} /\ Free(permission, row.name, p)
  /\ permission' = [permission EXCEPT ![p] = row]
  /\ catalogue' = [catalogue EXCEPT ![p] = @ \cup row.actions]
  /\ spent' = spent \cup {p}
  /\ UNCHANGED <<users, role, grant, assigned, call, rev, answered, halved, contested>>

LoadPermission(c, p, row) ==
  /\ p \in Rows(permission) /\ row.actions # {}
  /\ Begins(c, [Idle EXCEPT !.at = "savePermission", !.id = p,
                            !.row = row, !.loaded = permission[p]])
  /\ Contest(p)
  /\ UNCHANGED <<tables, rev, answered, halved, catalogue>>

\* Grants that name an action the permission loses are left as they are.
SavePermission(c) ==
  LET p == call[c].id IN
  /\ At(c, "savePermission")
  /\ \E x \in Written(permission, PermissionRows, p, c) :
       /\ x # None => Free(permission, x.name, p)
       /\ permission' = [permission EXCEPT ![p] = x]
       /\ catalogue' = [catalogue EXCEPT ![p] = @ \cup IF x = None THEN {} ELSE x.actions]
  /\ Return(c)
  /\ UNCHANGED <<users, role, grant, assigned, spent, requests, rev, answered, halved, contested>>

DeletePermission(p) ==
  /\ Counted
  /\ p \in Rows(permission)
  /\ permission' = [permission EXCEPT ![p] = None]
  /\ grant' = [g \in Grant |->
                 IF grant[g] # None /\ grant[g].permission = p THEN None ELSE grant[g]]
  /\ UNCHANGED <<users, role, assigned, spent, call, ghostVars>>

\* assertGrantActions
Fits(row) ==
  /\ row.role \in Rows(role) /\ row.permission \in Rows(permission)
  /\ row.actions \subseteq permission[row.permission].actions

\* The keys the table asks of a grant.
Storable(row, id) ==
  /\ row.role \in Rows(role) /\ row.permission \in Rows(permission)
  /\ FreePair(row, id)

CreateGrant(c, row) ==
  /\ Fits(row)
  /\ Begins(c, [Idle EXCEPT !.at = "insertGrant", !.row = row])
  /\ UNCHANGED <<tables, ghostVars>>

InsertGrant(c) ==
  /\ At(c, "insertGrant")
  /\ \E g \in Grant \ spent :
       /\ Storable(call[c].row, g)
       /\ grant' = [grant EXCEPT ![g] = call[c].row]
       /\ spent' = spent \cup {g}
  /\ Return(c)
  /\ UNCHANGED <<users, role, permission, assigned, requests, ghostVars>>

LoadGrant(c, g, row) ==
  /\ g \in Rows(grant)
  /\ Begins(c, [Idle EXCEPT !.at = "checkGrant", !.id = g, !.row = row, !.loaded = grant[g]])
  /\ Contest(g)
  /\ UNCHANGED <<tables, rev, answered, halved, catalogue>>

\* Fault: actions that are kept are not compared with the new permission.
CheckNewActions(c) ==
  /\ At(c, "checkGrant")
  /\ Fits(call[c].row) \/ call[c].row.actions = call[c].loaded.actions
  /\ Go(c, [call[c] EXCEPT !.at = "saveGrant"])
  /\ UNCHANGED <<tables, requests, ghostVars>>

CheckGrant(c) ==
  /\ At(c, "checkGrant")
  /\ Fits(call[c].row)
  /\ Go(c, [call[c] EXCEPT !.at = "saveGrant"])
  /\ UNCHANGED <<tables, requests, ghostVars>>

SaveGrant(c) ==
  LET g == call[c].id IN
  /\ At(c, "saveGrant")
  /\ \E x \in Written(grant, GrantRows, g, c) :
       /\ x # None => Storable(x, g)
       /\ grant' = [grant EXCEPT ![g] = x]
  /\ Return(c)
  /\ UNCHANGED <<users, role, permission, assigned, spent, requests, ghostVars>>

DeleteGrant(g) ==
  /\ Counted
  /\ g \in Rows(grant)
  /\ grant' = [grant EXCEPT ![g] = None]
  /\ UNCHANGED <<users, role, permission, assigned, spent, call, ghostVars>>

\* A check refuses, an await rejects, or the process restarts.
Fail(c) ==
  /\ ~At(c, "idle")
  /\ halved' = IF At(c, "assign") THEN halved \cup {call[c].id} ELSE halved
  /\ Return(c)
  /\ UNCHANGED <<tables, requests, rev, answered, contested, catalogue>>

Next ==
  \/ \E c \in Caller :
       \/ \E u \in User, n \in Name, a \in Action : ReadAssignments(c, u, n, a)
       \/ ReadGrants(c) \/ Decide(c)
       \/ \E u \in User : CreateUser(c, u)
       \/ FindDefaultRole(c) \/ InsertDefaultRole(c)
       \/ \E u \in User, roles \in SUBSET Role : FindRoles(c, u, roles)
       \/ ClearRoles(c) \/ AssignRoles(c)
       \/ \E r \in Role, n \in Name : LoadRole(c, r, n)
       \/ SaveRole(c)
       \/ \E p \in Permission, row \in PermissionRows : LoadPermission(c, p, row)
       \/ SavePermission(c)
       \/ \E row \in GrantRows : CreateGrant(c, row)
       \/ InsertGrant(c)
       \/ \E g \in Grant, row \in GrantRows : LoadGrant(c, g, row)
       \/ CheckGrant(c) \/ SaveGrant(c)
       \/ Fail(c)
  \/ \E u \in User : DeleteUser(u)
  \/ \E r \in Role, n \in Name : CreateRole(r, n)
  \/ \E r \in Role : DeleteRole(r)
  \/ \E p \in Permission, row \in PermissionRows : CreatePermission(p, row)
  \/ \E p \in Permission : DeletePermission(p)
  \/ \E g \in Grant : DeleteGrant(g)

Spec == Init /\ [][Next]_vars

-----------------------------------------------------------------------------
(* Properties.                                                             *)

\* What the tables say: some role of the user has a grant for the permission of
\* that name that covers the action, and the permission still has the action.
Allowed(u, n, a) ==
  \E r \in assigned[u], p \in Rows(permission), g \in Rows(grant) :
    /\ grant[g].role = r /\ grant[g].permission = p
    /\ permission[p].name = n
    /\ a \in permission[p].actions
           \cap (IF grant[g].actions = {} THEN permission[p].actions ELSE grant[g].actions)

\* Unless the roles of the user are written between its two reads, the guard
\* decides by the tables as they are at the second, whatever happened to roles,
\* permissions and grants between the two, stale actions of a grant included.
DecisionsAreExact ==
  [][\A c \in Caller :
       At(c, "grants") /\ call'[c].at \in {"allowed", "denied"} /\ rev[call[c].user] = call[c].since
         => (call'[c].at = "allowed" <=> Allowed(call[c].user, call[c].name, call[c].action))]_vars

\* A grant whose updates did not overlap only ever names actions that its
\* permission had at some time, however either was moved, saved from a stale
\* copy, or inserted again.  Two updates that overlap can break that: one moves
\* the grant, the other writes actions it checked for the old permission.
GrantsStayInCatalogue ==
  \A g \in Rows(grant) \ contested : grant[g].actions \subseteq catalogue[grant[g].permission]

\* While only one request at a time writes the roles of a user, the user has the
\* roles the last completed one asked for; or none, if a replacement failed
\* between its delete and its insert.
LoneReplaceIsExact ==
  \A u \in users \ contested :
    (\A c \in Caller : call[c].id # u)
      => assigned[u] = IF u \in halved THEN {} ELSE answered[u]

\* What the constraints of the tables promise.
TablesAreSound ==
  /\ \A u \in User : assigned[u] \subseteq IF u \in users THEN Rows(role) ELSE {}
  /\ \A g \in Rows(grant) :
       grant[g].role \in Rows(role) /\ grant[g].permission \in Rows(permission)
  /\ \A g, h \in Rows(grant) :
       grant[g].role = grant[h].role /\ grant[g].permission = grant[h].permission => g = h
  /\ \A r, q \in Rows(role) : role[r].name = role[q].name => r = q
  /\ \A p, q \in Rows(permission) : permission[p].name = permission[q].name => p = q
  /\ users \cup Rows(role) \cup Rows(permission) \cup Rows(grant) \subseteq spent

\* The rest of the inductive invariant: what a request knows.
CallsAreSound ==
  \A c \in Caller :
    /\ call[c].id # None => call[c].id \in spent
    /\ At(c, "grants") =>
         /\ call[c].user \in User /\ call[c].since <= rev[call[c].user]
         /\ rev[call[c].user] = call[c].since => call[c].roles = assigned[call[c].user]
    /\ call[c].at \in {"role", "default", "clear", "assign"} => call[c].id \in User
    /\ At(c, "saveRole") => call[c].id \in Role /\ {call[c].row, call[c].loaded} \subseteq RoleRows
    /\ At(c, "savePermission") =>
         call[c].id \in Permission /\ {call[c].row, call[c].loaded} \subseteq PermissionRows
    /\ call[c].at \in {"checkGrant", "saveGrant"} =>
         /\ call[c].id \in Grant /\ {call[c].row, call[c].loaded} \subseteq GrantRows
         /\ call[c].id \notin contested /\ grant[call[c].id] # None =>
              grant[call[c].id] = call[c].loaded
    /\ At(c, "insertGrant") => call[c].row \in GrantRows
    /\ call[c].at \in {"insertGrant", "saveGrant"} =>
         call[c].row.actions \subseteq catalogue[call[c].row.permission]

\* A permission has no action its catalogue misses.
CatalogueIsComplete ==
  \A p \in Rows(permission) : permission[p].actions \subseteq catalogue[p]

\* Two requests that update a row contest it.
UpdatesAreAlone ==
  \A c, d \in Caller : c # d /\ call[c].id # None /\ call[c].id = call[d].id =>
    call[c].id \in contested

\* Where the one writer of a user's roles stands says what they are.
WritersKnowRoles ==
  /\ halved \subseteq spent
  /\ \A u \in User \ spent : answered[u] = {}
  /\ \A c \in Caller :
       LET u == call[c].id IN
       u \in users \ contested =>
         /\ call[c].at \in {"role", "default"} =>
              assigned[u] = {} /\ answered[u] = {} /\ u \notin halved
         /\ At(c, "assign") => assigned[u] = {}
         /\ call[c].at \notin {"role", "default", "assign"} =>
              assigned[u] = IF u \in halved THEN {} ELSE answered[u]

IndInv ==
  /\ TypeOK /\ TablesAreSound /\ CallsAreSound /\ CatalogueIsComplete
  /\ UpdatesAreAlone /\ WritersKnowRoles
  /\ GrantsStayInCatalogue /\ LoneReplaceIsExact
=============================================================================
