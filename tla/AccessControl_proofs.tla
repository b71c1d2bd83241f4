------------------------ MODULE AccessControl_proofs ------------------------
(***************************************************************************)
(* Proofs about AccessControl and FileAccess, for every number of users,   *)
(* rows, files, callers and requests: what the guard decides, what a       *)
(* replacement of roles leaves, what a grant can name, and what a listed   *)
(* file stands for.                                                        *)
(***************************************************************************)
EXTENDS FileAccess, TLAPS

\* The seeded tables satisfy the invariant.
LEMMA InitStep == Init => IndInv
<1> SUFFICES ASSUME Init PROVE IndInv
  OBVIOUS
<1> USE AccessAssumption, SeedAssumption DEF Init, Idle, At, Rows
<1>1. TypeOK
  BY DEF TypeOK, Calls, Steps, PermissionRows
<1>2. TablesAreSound /\ CallsAreSound /\ UpdatesAreAlone /\ WritersKnowRoles
  BY DEF TablesAreSound, CallsAreSound, UpdatesAreAlone, WritersKnowRoles
<1>3. CatalogueIsComplete /\ GrantsStayInCatalogue /\ LoneReplaceIsExact
  BY DEF CatalogueIsComplete, GrantsStayInCatalogue, LoneReplaceIsExact, GrantRows
<1> QED
  BY <1>1, <1>2, <1>3 DEF IndInv

\* Each step of a request keeps it.
LEMMA StepIndInv == IndInv /\ [Next]_vars => IndInv'
<1> SUFFICES ASSUME IndInv, [Next]_vars PROVE IndInv'
  OBVIOUS
<1> USE AccessAssumption DEF IndInv, Idle, Begins, At, Go, Return, Counted,
             vars, tables, ghostVars
<1>a. \A c \in Caller : call[c] \in Calls
  BY DEF TypeOK
<1>b. Idle \in Calls
  BY DEF Calls, Steps
<1>1. ASSUME NEW c \in Caller, NEW u \in User, NEW n \in Name, NEW a \in Action,
              ReadAssignments(c, u, n, a) PROVE IndInv'
  <2>1. TypeOK'
    <3>1. [Idle EXCEPT !.at = "grants", !.user = u, !.name = n, !.action = a,
                       !.roles = assigned[u], !.since = rev[u]] \in Calls
      <4>1. assigned[u] \in SUBSET Role /\ rev[u] \in Nat
        BY DEF TypeOK
      <4> QED BY <4>1 DEF Calls, Steps
    <3>2. call' \in [Caller -> Calls]
      BY <1>1, <3>1 DEF ReadAssignments, TypeOK
    <3>3. requests' \in 0..MaxRequests
      BY <1>1 DEF ReadAssignments, TypeOK
    <3>4. UNCHANGED <<tables, ghostVars>>
      BY <1>1 DEF ReadAssignments
    <3> QED BY <3>2, <3>3, <3>4 DEF TypeOK
  <2>2. TablesAreSound'
    BY <1>1 DEF ReadAssignments, TablesAreSound, TypeOK
  <2>3. CallsAreSound'
    BY <1>1 DEF ReadAssignments, CallsAreSound, TablesAreSound, TypeOK
  <2>4. CatalogueIsComplete'
    BY <1>1 DEF ReadAssignments, CatalogueIsComplete
  <2>5. UpdatesAreAlone'
    BY <1>1 DEF ReadAssignments, UpdatesAreAlone, CallsAreSound, TypeOK
  <2>6. WritersKnowRoles'
    BY <1>1 DEF ReadAssignments, WritersKnowRoles, UpdatesAreAlone,
       CallsAreSound, TablesAreSound, LoneReplaceIsExact, TypeOK
  <2>7. GrantsStayInCatalogue'
    BY <1>1 DEF ReadAssignments, GrantsStayInCatalogue, CallsAreSound
  <2>8. LoneReplaceIsExact'
    BY <1>1 DEF ReadAssignments, LoneReplaceIsExact, WritersKnowRoles,
       UpdatesAreAlone, CallsAreSound, TablesAreSound
  <2> QED BY <2>1, <2>2, <2>3, <2>4, <2>5, <2>6, <2>7, <2>8
<1>2. ASSUME NEW c \in Caller, ReadGrants(c) PROVE IndInv'
  <2>1. TypeOK'
    <3>1. \A s \in Steps : [call[c] EXCEPT !.at = s] \in Calls
      BY <1>a DEF Calls
    <3>2. call' \in [Caller -> Calls]
      BY <1>2, <3>1 DEF ReadGrants, TypeOK, Steps
    <3> QED BY <1>2, <3>2 DEF ReadGrants, TypeOK
  <2>2. TablesAreSound'
    BY <1>2 DEF ReadGrants, TablesAreSound
  <2>3. CallsAreSound'
    BY <1>2 DEF ReadGrants, CallsAreSound, TablesAreSound
  <2>4. CatalogueIsComplete'
    BY <1>2 DEF ReadGrants, CatalogueIsComplete
  <2>5. UpdatesAreAlone'
    BY <1>2 DEF ReadGrants, UpdatesAreAlone, CallsAreSound, TypeOK
  <2>6. WritersKnowRoles'
    BY <1>2 DEF ReadGrants, WritersKnowRoles, UpdatesAreAlone, CallsAreSound,
       TablesAreSound, LoneReplaceIsExact, TypeOK
  <2>7. GrantsStayInCatalogue'
    BY <1>2 DEF ReadGrants, GrantsStayInCatalogue, CallsAreSound
  <2>8. LoneReplaceIsExact'
    BY <1>2 DEF ReadGrants, LoneReplaceIsExact, WritersKnowRoles,
       UpdatesAreAlone, CallsAreSound, TablesAreSound
  <2> QED BY <2>1, <2>2, <2>3, <2>4, <2>5, <2>6, <2>7, <2>8
<1>3. ASSUME NEW c \in Caller, Decide(c) PROVE IndInv'
  <2>1. TypeOK'
    BY <1>3 DEF Decide, TypeOK, Calls, Steps
  <2>2. TablesAreSound'
    BY <1>3 DEF Decide, TablesAreSound
  <2>3. CallsAreSound'
    BY <1>3 DEF Decide, CallsAreSound, TablesAreSound
  <2>4. CatalogueIsComplete'
    BY <1>3 DEF Decide, CatalogueIsComplete
  <2>5. UpdatesAreAlone'
    BY <1>3 DEF Decide, UpdatesAreAlone, CallsAreSound, TypeOK
  <2>6. WritersKnowRoles'
    BY <1>3 DEF Decide, WritersKnowRoles, UpdatesAreAlone, CallsAreSound,
       TablesAreSound, LoneReplaceIsExact, TypeOK
  <2>7. GrantsStayInCatalogue'
    BY <1>3 DEF Decide, GrantsStayInCatalogue, CallsAreSound
  <2>8. LoneReplaceIsExact'
    <3>1. call' = [call EXCEPT ![c] = Idle]
      BY <1>3 DEF Decide
    <3>2. \A d \in Caller : d # c => call'[d] = call[d]
      BY <3>1 DEF TypeOK
    <3>3. \A d \in Caller : call[d].id # call[c].id =>
            (call'[d].id = call[d].id)
      BY <3>2
    <3>4. \A u \in users \ contested : (\A d \in Caller : call'[d].id # u) =>
            \/ \A d \in Caller : call[d].id # u
            \/ call[c].id = u
      BY <3>2
    <3> QED BY <1>3, <3>4 DEF Decide, LoneReplaceIsExact, WritersKnowRoles, TablesAreSound,
           TypeOK
  <2> QED BY <2>1, <2>2, <2>3, <2>4, <2>5, <2>6, <2>7, <2>8
<1>4. ASSUME NEW c \in Caller, NEW u \in User, CreateUser(c, u) PROVE IndInv'
  <2>1. TypeOK'
    <3>1. [Idle EXCEPT !.at = "role", !.id = u] \in Calls
      BY <1>4, <1>a, <1>b DEF CreateUser, Calls, Steps
    <3>2. call' \in [Caller -> Calls]
      BY <1>4, <3>1 DEF CreateUser, TypeOK
    <3> QED BY <1>4, <3>2 DEF CreateUser, TypeOK
  <2>2. TablesAreSound'
    BY <1>4 DEF CreateUser, TablesAreSound
  <2>3. CallsAreSound'
    BY <1>4 DEF CreateUser, CallsAreSound, TablesAreSound
  <2>4. CatalogueIsComplete'
    BY <1>4 DEF CreateUser, CatalogueIsComplete
  <2>5. UpdatesAreAlone'
    BY <1>4 DEF CreateUser, UpdatesAreAlone, CallsAreSound, TypeOK
  <2>6. WritersKnowRoles'
    BY <1>4 DEF CreateUser, WritersKnowRoles, UpdatesAreAlone, CallsAreSound,
       TablesAreSound, LoneReplaceIsExact, TypeOK
  <2>7. GrantsStayInCatalogue'
    BY <1>4 DEF CreateUser, GrantsStayInCatalogue, CallsAreSound, TypeOK
  <2>8. LoneReplaceIsExact'
    BY <1>4 DEF CreateUser, LoneReplaceIsExact, WritersKnowRoles,
       UpdatesAreAlone, CallsAreSound, TablesAreSound, TypeOK
  <2> QED BY <2>1, <2>2, <2>3, <2>4, <2>5, <2>6, <2>7, <2>8
<1>5. ASSUME NEW c \in Caller, FindDefaultRole(c) PROVE IndInv'
  <2>0. PICK r \in Rows(role) : call' = [call EXCEPT ![c] =
          IF r \in assigned[call[c].id] THEN Idle
          ELSE [call[c] EXCEPT !.at = "default", !.roles = {r}]]
    BY <1>5 DEF FindDefaultRole
  <2>1. TypeOK'
    <3>1. {r} \in SUBSET Role
      BY DEF Rows, TypeOK
    <3>2. [call[c] EXCEPT !.at = "default", !.roles = {r}] \in Calls
      <4>1. call[c] \in Calls /\ "default" \in Steps
        BY <1>a DEF Steps
      <4> HIDE DEF IndInv, Idle
      <4> QED BY <3>1, <4>1 DEF Calls
    <3>3. call \in [Caller -> Calls]
      BY DEF TypeOK
    <3>4. call' \in [Caller -> Calls]
      <4>1. CASE call' = [call EXCEPT ![c] = Idle]
        BY <4>1, <3>3, <1>b
      <4>2. CASE call' = [call EXCEPT ![c] = [call[c] EXCEPT !.at = "default", !.roles = {r}]]
        BY <4>2, <3>2, <3>3
      <4> QED BY <2>0, <4>1, <4>2
    <3> QED BY <1>5, <3>4 DEF FindDefaultRole, TypeOK
  <2>2. TablesAreSound'
    BY <1>5, <2>0 DEF FindDefaultRole, TablesAreSound
  <2>3. CallsAreSound'
    BY <1>5, <2>0 DEF FindDefaultRole, CallsAreSound, TablesAreSound
  <2>4. CatalogueIsComplete'
    BY <1>5, <2>0 DEF FindDefaultRole, CatalogueIsComplete
  <2>5. UpdatesAreAlone'
    BY <1>5, <2>0 DEF FindDefaultRole, UpdatesAreAlone, CallsAreSound, TypeOK
  <2>6. WritersKnowRoles'
    BY <1>5, <2>0 DEF FindDefaultRole, WritersKnowRoles, UpdatesAreAlone,
       CallsAreSound, TablesAreSound, LoneReplaceIsExact, TypeOK
  <2>7. GrantsStayInCatalogue'
    BY <1>5, <2>0 DEF FindDefaultRole, GrantsStayInCatalogue, CallsAreSound,
       TypeOK
  <2>8. LoneReplaceIsExact'
    BY <1>5, <2>0 DEF FindDefaultRole, LoneReplaceIsExact, WritersKnowRoles,
       UpdatesAreAlone, CallsAreSound, TablesAreSound, TypeOK
  <2> QED BY <2>1, <2>2, <2>3, <2>4, <2>5, <2>6, <2>7, <2>8
<1>6. ASSUME NEW c \in Caller, InsertDefaultRole(c) PROVE IndInv'
  <2>1. TypeOK'
    BY <1>6 DEF InsertDefaultRole, RolesWritten, TypeOK, Calls, Steps
  <2>2. TablesAreSound'
    BY <1>6 DEF InsertDefaultRole, RolesWritten, TablesAreSound, TypeOK
  <2>3. CallsAreSound'
    BY <1>6 DEF InsertDefaultRole, RolesWritten, CallsAreSound, TablesAreSound,
       TypeOK, Calls
  <2>4. CatalogueIsComplete'
    BY <1>6 DEF InsertDefaultRole, RolesWritten, CatalogueIsComplete
  <2>5. UpdatesAreAlone'
    BY <1>6 DEF InsertDefaultRole, RolesWritten, UpdatesAreAlone, CallsAreSound,
       TypeOK
  <2>6. WritersKnowRoles'
    BY <1>6 DEF InsertDefaultRole, RolesWritten, WritersKnowRoles,
       UpdatesAreAlone, CallsAreSound, TablesAreSound, LoneReplaceIsExact,
       TypeOK
  <2>7. GrantsStayInCatalogue'
    BY <1>6 DEF InsertDefaultRole, RolesWritten, GrantsStayInCatalogue,
       CallsAreSound
  <2>8. LoneReplaceIsExact'
    <3> SUFFICES ASSUME NEW u \in users \ contested, \A d \in Caller : call'[d].id # u
                 PROVE  assigned'[u] = IF u \in halved' THEN {} ELSE answered'[u]
      BY <1>6 DEF InsertDefaultRole, LoneReplaceIsExact
    <3>1. \A d \in Caller : call'[d] = IF d = c THEN Idle ELSE call[d]
      BY <1>6 DEF InsertDefaultRole, TypeOK
    <3>2. CASE call[c].id = u
      BY <1>6, <3>2 DEF InsertDefaultRole, WritersKnowRoles, TypeOK, RolesWritten
    <3>3. CASE call[c].id # u
      <4>1. \A d \in Caller : call[d].id # u
        BY <3>1, <3>3
      <4>2. assigned[u] = IF u \in halved THEN {} ELSE answered[u]
        BY <4>1 DEF LoneReplaceIsExact
      <4> QED BY <1>6, <3>3, <4>2 DEF InsertDefaultRole, TypeOK, CallsAreSound, RolesWritten
    <3> QED BY <3>2, <3>3
  <2> QED BY <2>1, <2>2, <2>3, <2>4, <2>5, <2>6, <2>7, <2>8
<1>7. ASSUME NEW c \in Caller, NEW u \in User, NEW roles \in SUBSET Role,
              FindRoles(c, u, roles) PROVE IndInv'
  <2>1. TypeOK'
    <3>1. [Idle EXCEPT !.at = "clear", !.id = u, !.roles = roles] \in Calls
      BY <1>7, <1>a, <1>b DEF FindRoles, Calls, Steps
    <3>2. call' \in [Caller -> Calls]
      BY <1>7, <3>1 DEF FindRoles, TypeOK
    <3> QED BY <1>7, <3>2 DEF FindRoles, TypeOK, Contest
  <2>2. TablesAreSound'
    BY <1>7 DEF FindRoles, Contest, TablesAreSound
  <2>3. CallsAreSound'
    BY <1>7 DEF FindRoles, Contest, CallsAreSound, TablesAreSound
  <2>4. CatalogueIsComplete'
    BY <1>7 DEF FindRoles, Contest, CatalogueIsComplete
  <2>5. UpdatesAreAlone'
    BY <1>7 DEF FindRoles, Contest, UpdatesAreAlone, CallsAreSound, TypeOK
  <2>6. WritersKnowRoles'
    BY <1>7 DEF FindRoles, Contest, WritersKnowRoles, UpdatesAreAlone,
       CallsAreSound, TablesAreSound, LoneReplaceIsExact, TypeOK
  <2>7. GrantsStayInCatalogue'
    BY <1>7 DEF FindRoles, Contest, GrantsStayInCatalogue, CallsAreSound
  <2>8. LoneReplaceIsExact'
    BY <1>7 DEF FindRoles, Contest, LoneReplaceIsExact, WritersKnowRoles,
       UpdatesAreAlone, CallsAreSound, TablesAreSound
  <2> QED BY <2>1, <2>2, <2>3, <2>4, <2>5, <2>6, <2>7, <2>8
<1>8. ASSUME NEW c \in Caller, ClearRoles(c) PROVE IndInv'
  <2>1. TypeOK'
    <3>1. [call[c] EXCEPT !.at = "assign"] \in Calls
      BY <1>8, <1>a, <1>b DEF ClearRoles, Calls, Steps
    <3>2. call' \in [Caller -> Calls]
      BY <1>8, <3>1 DEF ClearRoles, TypeOK
    <3> QED BY <1>8, <3>2 DEF ClearRoles, TypeOK, RolesWritten, CallsAreSound
  <2>2. TablesAreSound'
    BY <1>8 DEF ClearRoles, RolesWritten, TablesAreSound, TypeOK
  <2>3. CallsAreSound'
    BY <1>8 DEF ClearRoles, RolesWritten, CallsAreSound, TablesAreSound, TypeOK,
       Calls
  <2>4. CatalogueIsComplete'
    BY <1>8 DEF ClearRoles, RolesWritten, CatalogueIsComplete
  <2>5. UpdatesAreAlone'
    BY <1>8 DEF ClearRoles, RolesWritten, UpdatesAreAlone, CallsAreSound, TypeOK
  <2>6. WritersKnowRoles'
    BY <1>8 DEF ClearRoles, RolesWritten, WritersKnowRoles, UpdatesAreAlone,
       CallsAreSound, TablesAreSound, LoneReplaceIsExact, TypeOK
  <2>7. GrantsStayInCatalogue'
    BY <1>8 DEF ClearRoles, RolesWritten, GrantsStayInCatalogue, CallsAreSound
  <2>8. LoneReplaceIsExact'
    BY <1>8 DEF ClearRoles, RolesWritten, LoneReplaceIsExact, WritersKnowRoles,
       UpdatesAreAlone, CallsAreSound, TablesAreSound
  <2> QED BY <2>1, <2>2, <2>3, <2>4, <2>5, <2>6, <2>7, <2>8
<1>9. ASSUME NEW c \in Caller, AssignRoles(c) PROVE IndInv'
  <2>1. TypeOK'
    BY <1>9 DEF AssignRoles, RolesWritten, TypeOK, Calls, Steps
  <2>2. TablesAreSound'
    BY <1>9 DEF AssignRoles, RolesWritten, TablesAreSound, TypeOK
  <2>3. CallsAreSound'
    BY <1>9 DEF AssignRoles, RolesWritten, CallsAreSound, TablesAreSound,
       TypeOK, Calls
  <2>4. CatalogueIsComplete'
    BY <1>9 DEF AssignRoles, RolesWritten, CatalogueIsComplete
  <2>5. UpdatesAreAlone'
    BY <1>9 DEF AssignRoles, RolesWritten, UpdatesAreAlone, CallsAreSound,
       TypeOK
  <2>6. WritersKnowRoles'
    BY <1>9 DEF AssignRoles, RolesWritten, WritersKnowRoles, UpdatesAreAlone,
       CallsAreSound, TablesAreSound, LoneReplaceIsExact, TypeOK
  <2>7. GrantsStayInCatalogue'
    BY <1>9 DEF AssignRoles, RolesWritten, GrantsStayInCatalogue, CallsAreSound
  <2>8. LoneReplaceIsExact'
    <3> SUFFICES ASSUME NEW u \in users \ contested, \A d \in Caller : call'[d].id # u
                 PROVE  assigned'[u] = IF u \in halved' THEN {} ELSE answered'[u]
      BY <1>9 DEF AssignRoles, LoneReplaceIsExact
    <3>1. \A d \in Caller : call'[d] = IF d = c THEN Idle ELSE call[d]
      BY <1>9 DEF AssignRoles, TypeOK
    <3>2. CASE call[c].id = u
      BY <1>9, <3>2 DEF AssignRoles, WritersKnowRoles, TypeOK, RolesWritten
    <3>3. CASE call[c].id # u
      <4>1. \A d \in Caller : call[d].id # u
        BY <3>1, <3>3
      <4>2. assigned[u] = IF u \in halved THEN {} ELSE answered[u]
        BY <4>1 DEF LoneReplaceIsExact
      <4> QED BY <1>9, <3>3, <4>2 DEF AssignRoles, TypeOK, CallsAreSound, RolesWritten
    <3> QED BY <3>2, <3>3
  <2> QED BY <2>1, <2>2, <2>3, <2>4, <2>5, <2>6, <2>7, <2>8
<1>10. ASSUME NEW c \in Caller, NEW r \in Role, NEW n \in Name, LoadRole(c, r, n) PROVE IndInv'
  <2>1. TypeOK'
    <3>1. [Idle EXCEPT !.at = "saveRole", !.id = r,
                       !.row = [name |-> n], !.loaded = role[r]] \in Calls
      <4>1. role[r] \in RoleRows /\ [name |-> n] \in RoleRows
        BY <1>10 DEF LoadRole, TypeOK, Rows, RoleRows
      <4>2. "saveRole" \in Steps
        BY DEF Steps
      <4> QED BY <1>b, <4>1, <4>2 DEF Calls
    <3>2. call' \in [Caller -> Calls]
      BY <1>10, <3>1 DEF LoadRole, TypeOK
    <3> QED BY <1>10, <3>2 DEF LoadRole, TypeOK, Contest
  <2>2. TablesAreSound'
    BY <1>10 DEF LoadRole, Contest, TablesAreSound
  <2>3. CallsAreSound'
    <3>1. [name |-> n] \in RoleRows /\ role[r] \in RoleRows /\ r \in spent
      BY <1>10 DEF LoadRole, RoleRows, Rows, TypeOK, TablesAreSound
    <3> QED BY <1>10, <3>1 DEF LoadRole, Contest, CallsAreSound, TypeOK
  <2>4. CatalogueIsComplete'
    BY <1>10 DEF LoadRole, Contest, CatalogueIsComplete
  <2>5. UpdatesAreAlone'
    BY <1>10 DEF LoadRole, Contest, UpdatesAreAlone, CallsAreSound, TypeOK
  <2>6. WritersKnowRoles'
    BY <1>10 DEF LoadRole, Contest, WritersKnowRoles, UpdatesAreAlone,
       CallsAreSound, TablesAreSound, LoneReplaceIsExact, TypeOK
  <2>7. GrantsStayInCatalogue'
    BY <1>10 DEF LoadRole, Contest, GrantsStayInCatalogue, CallsAreSound
  <2>8. LoneReplaceIsExact'
    BY <1>10 DEF LoadRole, Contest, LoneReplaceIsExact, WritersKnowRoles,
       UpdatesAreAlone, CallsAreSound, TablesAreSound
  <2> QED BY <2>1, <2>2, <2>3, <2>4, <2>5, <2>6, <2>7, <2>8
<1>11. ASSUME NEW c \in Caller, SaveRole(c) PROVE IndInv'
  <2>0. PICK x \in RoleRows \cup {None} :
          /\ role' = [role EXCEPT ![call[c].id] = x]
          /\ x \in Written(role, RoleRows, call[c].id, c)
          /\ x # None => Free(role, x.name, call[c].id)
    <3>1. Written(role, RoleRows, call[c].id, c) \subseteq RoleRows \cup {None}
      BY <1>11 DEF SaveRole, Written, Saved, CallsAreSound
    <3> QED BY <1>11, <3>1 DEF SaveRole
  <2>1. TypeOK'
    <3>1. call' \in [Caller -> Calls]
      BY <1>11, <1>b DEF SaveRole, TypeOK
    <3>2. role' \in [Role -> RoleRows \cup {None}]
      BY <2>0 DEF TypeOK
    <3> QED BY <1>11, <3>1, <3>2 DEF SaveRole, TypeOK
  <2>2. TablesAreSound'
    <3>1. call[c].id \in Role /\ call[c].id \in spent
      BY <1>11 DEF SaveRole, CallsAreSound
    <3>2. call[c].id \in Rows(role) => x # None
      BY <3>1, <2>0, <1>11 DEF Written, Saved, Rows, RoleRows
    <3> QED BY <1>11, <2>0, <3>1, <3>2 DEF SaveRole, Free, TablesAreSound, TypeOK, Rows
  <2>3. CallsAreSound'
    BY <1>11, <2>0 DEF SaveRole, Written, Saved, Free, CallsAreSound,
       TablesAreSound
  <2>4. CatalogueIsComplete'
    BY <1>11, <2>0 DEF SaveRole, Written, Saved, Free, CatalogueIsComplete
  <2>5. UpdatesAreAlone'
    BY <1>11, <2>0 DEF SaveRole, Written, Saved, Free, UpdatesAreAlone,
       CallsAreSound, TypeOK
  <2>6. WritersKnowRoles'
    BY <1>11, <2>0 DEF SaveRole, Written, Saved, Free, WritersKnowRoles,
       UpdatesAreAlone, CallsAreSound, TablesAreSound, LoneReplaceIsExact,
       TypeOK
  <2>7. GrantsStayInCatalogue'
    BY <1>11, <2>0 DEF SaveRole, Written, Saved, Free, GrantsStayInCatalogue,
       CallsAreSound
  <2>8. LoneReplaceIsExact'
    <3>1. call' = [call EXCEPT ![c] = Idle]
      BY <1>11 DEF SaveRole
    <3>2. \A d \in Caller : d # c => call'[d] = call[d]
      BY <3>1 DEF TypeOK
    <3>3. \A d \in Caller : call[d].id # call[c].id =>
            (call'[d].id = call[d].id)
      BY <3>2
    <3>4. \A u \in users \ contested : (\A d \in Caller : call'[d].id # u) =>
            \/ \A d \in Caller : call[d].id # u
            \/ call[c].id = u
      BY <3>2
    <3> QED BY <1>11, <3>4 DEF SaveRole, LoneReplaceIsExact, WritersKnowRoles, TablesAreSound,
           TypeOK
  <2> QED BY <2>1, <2>2, <2>3, <2>4, <2>5, <2>6, <2>7, <2>8
<1>12. ASSUME NEW c \in Caller, NEW p \in Permission, NEW row \in PermissionRows,
              LoadPermission(c, p, row) PROVE IndInv'
  <2>1. TypeOK'
    <3>1. [Idle EXCEPT !.at = "savePermission", !.id = p,
                       !.row = row, !.loaded = permission[p]] \in Calls
      BY <1>12, <1>a, <1>b DEF LoadPermission, Calls, Steps, TypeOK, Rows
    <3>2. call' \in [Caller -> Calls]
      BY <1>12, <3>1 DEF LoadPermission, TypeOK
    <3> QED BY <1>12, <3>2 DEF LoadPermission, TypeOK, Contest
  <2>2. TablesAreSound'
    BY <1>12 DEF LoadPermission, Contest, TablesAreSound, TypeOK, Rows
  <2>3. CallsAreSound'
    BY <1>12 DEF LoadPermission, Contest, CallsAreSound, TablesAreSound, TypeOK,
       Rows
  <2>4. CatalogueIsComplete'
    BY <1>12 DEF LoadPermission, Contest, CatalogueIsComplete
  <2>5. UpdatesAreAlone'
    BY <1>12 DEF LoadPermission, Contest, UpdatesAreAlone, CallsAreSound, TypeOK
  <2>6. WritersKnowRoles'
    BY <1>12 DEF LoadPermission, Contest, WritersKnowRoles, UpdatesAreAlone,
       CallsAreSound, TablesAreSound, LoneReplaceIsExact, TypeOK
  <2>7. GrantsStayInCatalogue'
    BY <1>12 DEF LoadPermission, Contest, GrantsStayInCatalogue, CallsAreSound
  <2>8. LoneReplaceIsExact'
    BY <1>12 DEF LoadPermission, Contest, LoneReplaceIsExact, WritersKnowRoles,
       UpdatesAreAlone, CallsAreSound, TablesAreSound
  <2> QED BY <2>1, <2>2, <2>3, <2>4, <2>5, <2>6, <2>7, <2>8
<1>13. ASSUME NEW c \in Caller, SavePermission(c) PROVE IndInv'
  <2>0. PICK x \in PermissionRows \cup {None} :
          /\ permission' = [permission EXCEPT ![call[c].id] = x]
          /\ x \in Written(permission, PermissionRows, call[c].id, c)
          /\ x # None => Free(permission, x.name, call[c].id)
          /\ catalogue' = [catalogue EXCEPT ![call[c].id] =
                             catalogue[call[c].id] \cup IF x = None THEN {} ELSE x.actions]
    <3>1. Written(permission, PermissionRows, call[c].id, c) \subseteq PermissionRows \cup {None}
      BY <1>13 DEF SavePermission, Written, Saved, CallsAreSound
    <3> HIDE DEF Written, Free
    <3>2. PICK x \in Written(permission, PermissionRows, call[c].id, c) :
            /\ x # None => Free(permission, x.name, call[c].id)
            /\ permission' = [permission EXCEPT ![call[c].id] = x]
            /\ catalogue' = [catalogue EXCEPT ![call[c].id] =
                               catalogue[call[c].id] \cup IF x = None THEN {} ELSE x.actions]
      BY <1>13, Zenon DEF SavePermission
    <3> QED BY <3>1, <3>2, Zenon
  <2>1. TypeOK'
    <3>1. call' \in [Caller -> Calls]
      BY <1>13, <1>b DEF SavePermission, TypeOK
    <3>2. permission' \in [Permission -> PermissionRows \cup {None}]
      BY <2>0 DEF TypeOK
    <3>3. (IF x = None THEN {} ELSE x.actions) \in SUBSET Action
      BY DEF PermissionRows
    <3>4. catalogue' \in [Permission -> SUBSET Action]
      BY <2>0, <3>3 DEF TypeOK
    <3> QED BY <1>13, <3>1, <3>2, <3>4 DEF SavePermission, TypeOK
  <2>2. TablesAreSound'
    <3>1. call[c].id \in Permission /\ call[c].id \in spent
      BY <1>13 DEF SavePermission, CallsAreSound
    <3>2. call[c].id \in Rows(permission) => x # None
      BY <3>1, <2>0, <1>13 DEF Written, Saved, Rows
    <3> QED BY <1>13, <2>0, <3>1, <3>2 DEF SavePermission, Free, TablesAreSound, TypeOK, Rows
  <2>3. CallsAreSound'
    <3>1. \A p \in Permission : catalogue[p] \subseteq catalogue'[p]
      BY <2>0 DEF TypeOK
    <3>2. \A d \in Caller : call'[d] = IF d = c THEN Idle ELSE call[d]
      BY <1>13 DEF SavePermission, TypeOK
    <3>3. \A d \in Caller : call[d].row \in GrantRows => call[d].row.permission \in Permission
      BY DEF GrantRows
    <3> QED BY <1>13, <3>1, <3>2, <3>3 DEF SavePermission, CallsAreSound
  <2>4. CatalogueIsComplete'
    BY <1>13, <2>0 DEF SavePermission, Written, Saved, Free,
       CatalogueIsComplete, TypeOK, Rows
  <2>5. UpdatesAreAlone'
    BY <1>13, <2>0 DEF SavePermission, Written, Saved, Free, UpdatesAreAlone,
       CallsAreSound
  <2>6. WritersKnowRoles'
    <3>1. \A d \in Caller : call'[d] = IF d = c THEN Idle ELSE call[d]
      BY <1>13 DEF SavePermission, TypeOK
    <3> QED BY <1>13, <3>1 DEF SavePermission, WritersKnowRoles, TablesAreSound, TypeOK
  <2>7. GrantsStayInCatalogue'
    BY <1>13, <2>0 DEF SavePermission, Written, Saved, Free,
       GrantsStayInCatalogue, CallsAreSound
  <2>8. LoneReplaceIsExact'
    <3>1. call' = [call EXCEPT ![c] = Idle]
      BY <1>13 DEF SavePermission
    <3>2. \A d \in Caller : d # c => call'[d] = call[d]
      BY <3>1 DEF TypeOK
    <3>3. \A d \in Caller : call[d].id # call[c].id =>
            (call'[d].id = call[d].id)
      BY <3>2
    <3>4. \A u \in users \ contested : (\A d \in Caller : call'[d].id # u) =>
            \/ \A d \in Caller : call[d].id # u
            \/ call[c].id = u
      BY <3>2
    <3> QED BY <1>13, <3>4 DEF SavePermission, LoneReplaceIsExact, WritersKnowRoles, TablesAreSound,
           TypeOK
  <2> QED BY <2>1, <2>2, <2>3, <2>4, <2>5, <2>6, <2>7, <2>8
<1>14. ASSUME NEW c \in Caller, NEW row \in GrantRows, CreateGrant(c, row) PROVE IndInv'
  <2>1. TypeOK'
    <3>1. [Idle EXCEPT !.at = "insertGrant", !.row = row] \in Calls
      BY <1>14, <1>a, <1>b DEF CreateGrant, Calls, Steps
    <3>2. call' \in [Caller -> Calls]
      BY <1>14, <3>1 DEF CreateGrant, TypeOK
    <3> QED BY <1>14, <3>2 DEF CreateGrant, TypeOK
  <2>2. TablesAreSound'
    BY <1>14 DEF CreateGrant, Fits, CatalogueIsComplete, TablesAreSound
  <2>3. CallsAreSound'
    BY <1>14 DEF CreateGrant, Fits, CatalogueIsComplete, CallsAreSound,
       TablesAreSound
  <2>4. CatalogueIsComplete'
    BY <1>14 DEF CreateGrant, Fits, CatalogueIsComplete
  <2>5. UpdatesAreAlone'
    BY <1>14 DEF CreateGrant, Fits, CatalogueIsComplete, UpdatesAreAlone,
       CallsAreSound, TypeOK
  <2>6. WritersKnowRoles'
    BY <1>14 DEF CreateGrant, Fits, CatalogueIsComplete, WritersKnowRoles,
       UpdatesAreAlone, CallsAreSound, TablesAreSound, LoneReplaceIsExact,
       TypeOK
  <2>7. GrantsStayInCatalogue'
    BY <1>14 DEF CreateGrant, Fits, CatalogueIsComplete, GrantsStayInCatalogue,
       CallsAreSound
  <2>8. LoneReplaceIsExact'
    BY <1>14 DEF CreateGrant, Fits, CatalogueIsComplete, LoneReplaceIsExact,
       WritersKnowRoles, UpdatesAreAlone, CallsAreSound, TablesAreSound
  <2> QED BY <2>1, <2>2, <2>3, <2>4, <2>5, <2>6, <2>7, <2>8
<1>15. ASSUME NEW c \in Caller, InsertGrant(c) PROVE IndInv'
  <2>0. PICK g \in Grant \ spent :
          /\ Storable(call[c].row, g)
          /\ grant' = [grant EXCEPT ![g] = call[c].row]
          /\ spent' = spent \cup {g}
    BY <1>15 DEF InsertGrant
  <2>1. TypeOK'
    <3>1. call' \in [Caller -> Calls]
      BY <1>15, <1>b DEF InsertGrant, TypeOK
    <3> QED BY <1>15, <2>0, <3>1 DEF InsertGrant, TypeOK, CallsAreSound
  <2>2. TablesAreSound'
    BY <1>15, <2>0 DEF InsertGrant, Storable, FreePair, TablesAreSound, Rows
  <2>3. CallsAreSound'
    BY <1>15, <2>0 DEF InsertGrant, Storable, FreePair, CallsAreSound,
       TablesAreSound
  <2>4. CatalogueIsComplete'
    BY <1>15, <2>0 DEF InsertGrant, Storable, FreePair, CatalogueIsComplete
  <2>5. UpdatesAreAlone'
    BY <1>15, <2>0 DEF InsertGrant, Storable, FreePair, UpdatesAreAlone,
       CallsAreSound, TypeOK
  <2>6. WritersKnowRoles'
    BY <1>15, <2>0 DEF InsertGrant, Storable, FreePair, WritersKnowRoles,
       UpdatesAreAlone, CallsAreSound, TablesAreSound, LoneReplaceIsExact,
       TypeOK
  <2>7. GrantsStayInCatalogue'
    BY <1>15, <2>0 DEF InsertGrant, Storable, FreePair, GrantsStayInCatalogue,
       CallsAreSound, Rows
  <2>8. LoneReplaceIsExact'
    <3>1. call' = [call EXCEPT ![c] = Idle]
      BY <1>15 DEF InsertGrant
    <3>2. \A d \in Caller : d # c => call'[d] = call[d]
      BY <3>1 DEF TypeOK
    <3>3. \A d \in Caller : call[d].id # call[c].id =>
            (call'[d].id = call[d].id)
      BY <3>2
    <3>4. \A u \in users \ contested : (\A d \in Caller : call'[d].id # u) =>
            \/ \A d \in Caller : call[d].id # u
            \/ call[c].id = u
      BY <3>2
    <3> QED BY <1>15, <3>4 DEF InsertGrant, LoneReplaceIsExact, WritersKnowRoles, TablesAreSound,
           TypeOK
  <2> QED BY <2>1, <2>2, <2>3, <2>4, <2>5, <2>6, <2>7, <2>8
<1>16. ASSUME NEW c \in Caller, NEW g \in Grant, NEW row \in GrantRows,
              LoadGrant(c, g, row) PROVE IndInv'
  <2>1. TypeOK'
    <3>1. [Idle EXCEPT !.at = "checkGrant", !.id = g, !.row = row, !.loaded = grant[g]] \in Calls
      BY <1>16, <1>a, <1>b DEF LoadGrant, Calls, Steps, TypeOK, Rows
    <3>2. call' \in [Caller -> Calls]
      BY <1>16, <3>1 DEF LoadGrant, TypeOK
    <3> QED BY <1>16, <3>2 DEF LoadGrant, TypeOK, Contest
  <2>2. TablesAreSound'
    BY <1>16 DEF LoadGrant, Contest, TablesAreSound, TypeOK, Rows
  <2>3. CallsAreSound'
    BY <1>16 DEF LoadGrant, Contest, CallsAreSound, TablesAreSound, TypeOK, Rows
  <2>4. CatalogueIsComplete'
    BY <1>16 DEF LoadGrant, Contest, CatalogueIsComplete
  <2>5. UpdatesAreAlone'
    BY <1>16 DEF LoadGrant, Contest, UpdatesAreAlone, CallsAreSound, TypeOK
  <2>6. WritersKnowRoles'
    BY <1>16 DEF LoadGrant, Contest, WritersKnowRoles, UpdatesAreAlone,
       CallsAreSound, TablesAreSound, LoneReplaceIsExact, TypeOK
  <2>7. GrantsStayInCatalogue'
    BY <1>16 DEF LoadGrant, Contest, GrantsStayInCatalogue, CallsAreSound
  <2>8. LoneReplaceIsExact'
    BY <1>16 DEF LoadGrant, Contest, LoneReplaceIsExact, WritersKnowRoles,
       UpdatesAreAlone, CallsAreSound, TablesAreSound
  <2> QED BY <2>1, <2>2, <2>3, <2>4, <2>5, <2>6, <2>7, <2>8
<1>17. ASSUME NEW c \in Caller, CheckGrant(c) PROVE IndInv'
  <2>1. TypeOK'
    <3>1. [call[c] EXCEPT !.at = "saveGrant"] \in Calls
      BY <1>17, <1>a, <1>b DEF CheckGrant, Calls, Steps
    <3>2. call' \in [Caller -> Calls]
      BY <1>17, <3>1 DEF CheckGrant, TypeOK
    <3> QED BY <1>17, <3>2 DEF CheckGrant, TypeOK
  <2>2. TablesAreSound'
    BY <1>17 DEF CheckGrant, Fits, CatalogueIsComplete, TablesAreSound
  <2>3. CallsAreSound'
    BY <1>17 DEF CheckGrant, Fits, CatalogueIsComplete, CallsAreSound,
       TablesAreSound
  <2>4. CatalogueIsComplete'
    BY <1>17 DEF CheckGrant, Fits, CatalogueIsComplete
  <2>5. UpdatesAreAlone'
    BY <1>17 DEF CheckGrant, Fits, CatalogueIsComplete, UpdatesAreAlone,
       CallsAreSound, TypeOK
  <2>6. WritersKnowRoles'
    BY <1>17 DEF CheckGrant, Fits, CatalogueIsComplete, WritersKnowRoles,
       UpdatesAreAlone, CallsAreSound, TablesAreSound, LoneReplaceIsExact,
       TypeOK
  <2>7. GrantsStayInCatalogue'
    BY <1>17 DEF CheckGrant, Fits, CatalogueIsComplete, GrantsStayInCatalogue,
       CallsAreSound
  <2>8. LoneReplaceIsExact'
    BY <1>17 DEF CheckGrant, Fits, CatalogueIsComplete, LoneReplaceIsExact,
       WritersKnowRoles, UpdatesAreAlone, CallsAreSound, TablesAreSound
  <2> QED BY <2>1, <2>2, <2>3, <2>4, <2>5, <2>6, <2>7, <2>8
<1>18. ASSUME NEW c \in Caller, SaveGrant(c) PROVE IndInv'
  <2>0. PICK x \in GrantRows \cup {None} :
          /\ grant' = [grant EXCEPT ![call[c].id] = x]
          /\ x \in Written(grant, GrantRows, call[c].id, c)
          /\ x # None => Storable(x, call[c].id)
    <3>1. Written(grant, GrantRows, call[c].id, c) \subseteq GrantRows \cup {None}
      BY <1>18 DEF SaveGrant, Written, Saved, CallsAreSound
    <3> QED BY <1>18, <3>1 DEF SaveGrant
  <2>1. TypeOK'
    <3>1. call' \in [Caller -> Calls]
      BY <1>18, <1>b DEF SaveGrant, TypeOK
    <3>2. grant' \in [Grant -> GrantRows \cup {None}]
      BY <2>0 DEF TypeOK
    <3> QED BY <1>18, <3>1, <3>2 DEF SaveGrant, TypeOK
  <2>2. TablesAreSound'
    <3>1. call[c].id \in Grant /\ call[c].id \in spent
      BY <1>18 DEF SaveGrant, CallsAreSound
    <3> QED BY <1>18, <2>0, <3>1 DEF SaveGrant, Storable, FreePair, TablesAreSound, TypeOK, Rows
  <2>3. CallsAreSound'
    <3>1. call' = [call EXCEPT ![c] = Idle]
      BY <1>18 DEF SaveGrant
    <3>2. \A d \in Caller : d # c => call'[d] = call[d]
      BY <3>1 DEF TypeOK
    <3>3. call'[c] = Idle
      BY <3>1 DEF TypeOK
    <3>4. call[c].id \in Grant /\ At(c, "saveGrant")
      BY <1>18 DEF SaveGrant, CallsAreSound
    <3>5. \A d \in Caller : d # c /\ call[d].id # None /\ call[d].id \notin contested =>
            call[d].id # call[c].id
      BY DEF UpdatesAreAlone
    <3>6. \A g \in Grant : g # call[c].id => grant'[g] = grant[g]
      BY <2>0 DEF TypeOK
    <3> QED BY <1>18, <3>2, <3>3, <3>5, <3>6 DEF SaveGrant, CallsAreSound
  <2>4. CatalogueIsComplete'
    BY <1>18, <2>0 DEF SaveGrant, Written, Saved, Storable, FreePair,
       CatalogueIsComplete
  <2>5. UpdatesAreAlone'
    BY <1>18, <2>0 DEF SaveGrant, Written, Saved, Storable, FreePair,
       UpdatesAreAlone, CallsAreSound, TypeOK
  <2>6. WritersKnowRoles'
    BY <1>18, <2>0 DEF SaveGrant, Written, Saved, Storable, FreePair,
       WritersKnowRoles, UpdatesAreAlone, CallsAreSound, TablesAreSound,
       LoneReplaceIsExact, TypeOK
  <2>7. GrantsStayInCatalogue'
    <3>1. call[c].id \in Grant /\ call[c].row \in GrantRows /\ call[c].loaded \in GrantRows
      BY <1>18 DEF SaveGrant, CallsAreSound
    <3>2. ASSUME call[c].id \notin contested, x # None PROVE x = call[c].row
      <4>1. CASE grant[call[c].id] = None
        BY <4>1, <3>2, <2>0 DEF Written
      <4>2. CASE grant[call[c].id] # None
        <5>1. grant[call[c].id] = call[c].loaded
          BY <1>18, <4>2, <3>2 DEF SaveGrant, CallsAreSound
        <5>2. x \in GrantRows /\ \A col \in DOMAIN x : x[col] = call[c].row[col]
          BY <5>1, <4>2, <2>0 DEF Written, Saved
        <5> QED BY <5>2, <3>1 DEF GrantRows
      <4> QED BY <4>1, <4>2
    <3>3. x # None /\ call[c].id \notin contested => x.actions \subseteq catalogue[x.permission]
      BY <1>18, <3>2 DEF SaveGrant, CallsAreSound
    <3> QED BY <1>18, <2>0, <3>1, <3>3 DEF SaveGrant, GrantsStayInCatalogue, TypeOK, Rows
  <2>8. LoneReplaceIsExact'
    <3>1. call' = [call EXCEPT ![c] = Idle]
      BY <1>18 DEF SaveGrant
    <3>2. \A d \in Caller : d # c => call'[d] = call[d]
      BY <3>1 DEF TypeOK
    <3>3. \A d \in Caller : call[d].id # call[c].id =>
            (call'[d].id = call[d].id)
      BY <3>2
    <3>4. \A u \in users \ contested : (\A d \in Caller : call'[d].id # u) =>
            \/ \A d \in Caller : call[d].id # u
            \/ call[c].id = u
      BY <3>2
    <3> QED BY <1>18, <3>4 DEF SaveGrant, LoneReplaceIsExact, WritersKnowRoles, TablesAreSound,
           TypeOK
  <2> QED BY <2>1, <2>2, <2>3, <2>4, <2>5, <2>6, <2>7, <2>8
<1>19. ASSUME NEW c \in Caller, Fail(c) PROVE IndInv'
  <2>1. TypeOK'
    <3>1. call' \in [Caller -> Calls]
      BY <1>19, <1>b DEF Fail, TypeOK
    <3>2. halved' \in SUBSET User
      BY <1>19 DEF Fail, TypeOK, CallsAreSound
    <3> QED BY <1>19, <3>1, <3>2 DEF Fail, TypeOK
  <2>2. TablesAreSound'
    BY <1>19 DEF Fail, TablesAreSound
  <2>3. CallsAreSound'
    BY <1>19 DEF Fail, CallsAreSound, TablesAreSound
  <2>4. CatalogueIsComplete'
    BY <1>19 DEF Fail, CatalogueIsComplete
  <2>5. UpdatesAreAlone'
    BY <1>19 DEF Fail, UpdatesAreAlone, CallsAreSound, TypeOK
  <2>6. WritersKnowRoles'
    BY <1>19 DEF Fail, WritersKnowRoles, UpdatesAreAlone, CallsAreSound,
       TablesAreSound, LoneReplaceIsExact, TypeOK
  <2>7. GrantsStayInCatalogue'
    BY <1>19 DEF Fail, GrantsStayInCatalogue, CallsAreSound
  <2>8. LoneReplaceIsExact'
    <3> SUFFICES ASSUME NEW u \in users \ contested, \A d \in Caller : call'[d].id # u
                 PROVE  assigned'[u] = IF u \in halved' THEN {} ELSE answered'[u]
      BY <1>19 DEF Fail, LoneReplaceIsExact
    <3>1. \A d \in Caller : call'[d] = IF d = c THEN Idle ELSE call[d]
      BY <1>19 DEF Fail, TypeOK
    <3>2. CASE call[c].id = u
      BY <1>19, <3>2 DEF Fail, WritersKnowRoles, TypeOK
    <3>3. CASE call[c].id # u
      <4>1. \A d \in Caller : call[d].id # u
        BY <3>1, <3>3
      <4>2. assigned[u] = IF u \in halved THEN {} ELSE answered[u]
        BY <4>1 DEF LoneReplaceIsExact
      <4> QED BY <1>19, <3>3, <4>2 DEF Fail, TypeOK, CallsAreSound
    <3> QED BY <3>2, <3>3
  <2> QED BY <2>1, <2>2, <2>3, <2>4, <2>5, <2>6, <2>7, <2>8
<1>20. ASSUME NEW u \in User, DeleteUser(u) PROVE IndInv'
  <2>1. TypeOK'
    BY <1>20 DEF DeleteUser, RolesWritten, TypeOK
  <2>2. TablesAreSound'
    BY <1>20 DEF DeleteUser, RolesWritten, TablesAreSound, TypeOK
  <2>3. CallsAreSound'
    BY <1>20 DEF DeleteUser, RolesWritten, CallsAreSound, TablesAreSound,
       TypeOK, Calls
  <2>4. CatalogueIsComplete'
    BY <1>20 DEF DeleteUser, RolesWritten, CatalogueIsComplete
  <2>5. UpdatesAreAlone'
    BY <1>20 DEF DeleteUser, RolesWritten, UpdatesAreAlone, CallsAreSound,
       TypeOK
  <2>6. WritersKnowRoles'
    BY <1>20 DEF DeleteUser, RolesWritten, WritersKnowRoles, UpdatesAreAlone,
       CallsAreSound, TablesAreSound, LoneReplaceIsExact, TypeOK
  <2>7. GrantsStayInCatalogue'
    BY <1>20 DEF DeleteUser, RolesWritten, GrantsStayInCatalogue, CallsAreSound
  <2>8. LoneReplaceIsExact'
    BY <1>20 DEF DeleteUser, RolesWritten, LoneReplaceIsExact, WritersKnowRoles,
       UpdatesAreAlone, CallsAreSound, TablesAreSound
  <2> QED BY <2>1, <2>2, <2>3, <2>4, <2>5, <2>6, <2>7, <2>8
<1>21. ASSUME NEW r \in Role, NEW n \in Name, CreateRole(r, n) PROVE IndInv'
  <2>1. TypeOK'
    BY <1>21 DEF CreateRole, TypeOK, RoleRows
  <2>2. TablesAreSound'
    BY <1>21 DEF CreateRole, Free, TablesAreSound, Rows
  <2>3. CallsAreSound'
    BY <1>21 DEF CreateRole, Free, CallsAreSound, TablesAreSound
  <2>4. CatalogueIsComplete'
    BY <1>21 DEF CreateRole, Free, CatalogueIsComplete
  <2>5. UpdatesAreAlone'
    BY <1>21 DEF CreateRole, Free, UpdatesAreAlone, CallsAreSound
  <2>6. WritersKnowRoles'
    BY <1>21 DEF CreateRole, Free, WritersKnowRoles, UpdatesAreAlone,
       CallsAreSound, TablesAreSound, LoneReplaceIsExact
  <2>7. GrantsStayInCatalogue'
    BY <1>21 DEF CreateRole, Free, GrantsStayInCatalogue, CallsAreSound
  <2>8. LoneReplaceIsExact'
    BY <1>21 DEF CreateRole, Free, LoneReplaceIsExact, WritersKnowRoles,
       UpdatesAreAlone, CallsAreSound, TablesAreSound
  <2> QED BY <2>1, <2>2, <2>3, <2>4, <2>5, <2>6, <2>7, <2>8
<1>22. ASSUME NEW r \in Role, DeleteRole(r) PROVE IndInv'
  <2>1. TypeOK'
    BY <1>22 DEF DeleteRole, TypeOK, Rows
  <2>2. TablesAreSound'
    BY <1>22 DEF DeleteRole, TablesAreSound, TypeOK, Rows
  <2>3. CallsAreSound'
    BY <1>22 DEF DeleteRole, CallsAreSound, TablesAreSound
  <2>4. CatalogueIsComplete'
    BY <1>22 DEF DeleteRole, CatalogueIsComplete
  <2>5. UpdatesAreAlone'
    BY <1>22 DEF DeleteRole, UpdatesAreAlone, CallsAreSound
  <2>6. WritersKnowRoles'
    BY <1>22 DEF DeleteRole, WritersKnowRoles, UpdatesAreAlone, CallsAreSound,
       TablesAreSound, LoneReplaceIsExact, TypeOK, Rows
  <2>7. GrantsStayInCatalogue'
    BY <1>22 DEF DeleteRole, GrantsStayInCatalogue, CallsAreSound, TypeOK, Rows
  <2>8. LoneReplaceIsExact'
    BY <1>22 DEF DeleteRole, LoneReplaceIsExact, WritersKnowRoles,
       UpdatesAreAlone, CallsAreSound, TablesAreSound
  <2> QED BY <2>1, <2>2, <2>3, <2>4, <2>5, <2>6, <2>7, <2>8
<1>23. ASSUME NEW p \in Permission, NEW row \in PermissionRows,
              CreatePermission(p, row) PROVE IndInv'
  <2>1. TypeOK'
    <3>1. row.actions \in SUBSET Action
      BY DEF PermissionRows
    <3>2. catalogue' \in [Permission -> SUBSET Action]
      BY <1>23, <3>1 DEF CreatePermission, TypeOK
    <3>3. permission' \in [Permission -> PermissionRows \cup {None}]
      BY <1>23 DEF CreatePermission, TypeOK
    <3> QED BY <1>23, <3>2, <3>3 DEF CreatePermission, TypeOK
  <2>2. TablesAreSound'
    BY <1>23 DEF CreatePermission, Free, TablesAreSound, Rows
  <2>3. CallsAreSound'
    BY <1>23 DEF CreatePermission, Free, CallsAreSound, TablesAreSound, TypeOK,
       Rows
  <2>4. CatalogueIsComplete'
    BY <1>23 DEF CreatePermission, Free, CatalogueIsComplete, TypeOK, Rows
  <2>5. UpdatesAreAlone'
    BY <1>23 DEF CreatePermission, Free, UpdatesAreAlone, CallsAreSound
  <2>6. WritersKnowRoles'
    BY <1>23 DEF CreatePermission, Free, WritersKnowRoles, UpdatesAreAlone,
       CallsAreSound, TablesAreSound, LoneReplaceIsExact
  <2>7. GrantsStayInCatalogue'
    BY <1>23 DEF CreatePermission, Free, GrantsStayInCatalogue, CallsAreSound
  <2>8. LoneReplaceIsExact'
    BY <1>23 DEF CreatePermission, Free, LoneReplaceIsExact, WritersKnowRoles,
       UpdatesAreAlone, CallsAreSound, TablesAreSound
  <2> QED BY <2>1, <2>2, <2>3, <2>4, <2>5, <2>6, <2>7, <2>8
<1>24. ASSUME NEW p \in Permission, DeletePermission(p) PROVE IndInv'
  <2>1. TypeOK'
    BY <1>24 DEF DeletePermission, TypeOK, Rows
  <2>2. TablesAreSound'
    BY <1>24 DEF DeletePermission, TablesAreSound, TypeOK, Rows
  <2>3. CallsAreSound'
    BY <1>24 DEF DeletePermission, CallsAreSound, TablesAreSound, Rows
  <2>4. CatalogueIsComplete'
    BY <1>24 DEF DeletePermission, CatalogueIsComplete, Rows
  <2>5. UpdatesAreAlone'
    BY <1>24 DEF DeletePermission, UpdatesAreAlone, CallsAreSound
  <2>6. WritersKnowRoles'
    BY <1>24 DEF DeletePermission, WritersKnowRoles, UpdatesAreAlone,
       CallsAreSound, TablesAreSound, LoneReplaceIsExact, TypeOK, Rows
  <2>7. GrantsStayInCatalogue'
    BY <1>24 DEF DeletePermission, GrantsStayInCatalogue, CallsAreSound, TypeOK,
       Rows
  <2>8. LoneReplaceIsExact'
    BY <1>24 DEF DeletePermission, LoneReplaceIsExact, WritersKnowRoles,
       UpdatesAreAlone, CallsAreSound, TablesAreSound
  <2> QED BY <2>1, <2>2, <2>3, <2>4, <2>5, <2>6, <2>7, <2>8
<1>25. ASSUME NEW g \in Grant, DeleteGrant(g) PROVE IndInv'
  <2>1. TypeOK'
    BY <1>25 DEF DeleteGrant, TypeOK, Rows
  <2>2. TablesAreSound'
    BY <1>25 DEF DeleteGrant, TablesAreSound, Rows
  <2>3. CallsAreSound'
    BY <1>25 DEF DeleteGrant, CallsAreSound, TablesAreSound
  <2>4. CatalogueIsComplete'
    BY <1>25 DEF DeleteGrant, CatalogueIsComplete
  <2>5. UpdatesAreAlone'
    BY <1>25 DEF DeleteGrant, UpdatesAreAlone, CallsAreSound
  <2>6. WritersKnowRoles'
    BY <1>25 DEF DeleteGrant, WritersKnowRoles, UpdatesAreAlone, CallsAreSound,
       TablesAreSound, LoneReplaceIsExact, Rows
  <2>7. GrantsStayInCatalogue'
    BY <1>25 DEF DeleteGrant, GrantsStayInCatalogue, CallsAreSound, Rows
  <2>8. LoneReplaceIsExact'
    BY <1>25 DEF DeleteGrant, LoneReplaceIsExact, WritersKnowRoles,
       UpdatesAreAlone, CallsAreSound, TablesAreSound
  <2> QED BY <2>1, <2>2, <2>3, <2>4, <2>5, <2>6, <2>7, <2>8
<1>26. CASE UNCHANGED vars
  BY <1>26 DEF TypeOK, TablesAreSound, CallsAreSound, CatalogueIsComplete,
     UpdatesAreAlone, WritersKnowRoles, GrantsStayInCatalogue, LoneReplaceIsExact, Rows
<1> QED BY <1>1, <1>2, <1>3, <1>4, <1>5, <1>6, <1>7, <1>8, <1>9, <1>10, <1>11, <1>12,
         <1>13, <1>14, <1>15, <1>16, <1>17, <1>18, <1>19, <1>20, <1>21, <1>22, <1>23,
         <1>24, <1>25, <1>26 DEF Next

\* The inductive invariant of the tables and the requests under way.
THEOREM Invariance == Spec => []IndInv
BY InitStep, StepIndInv, PTL DEF Spec

\* Names and pairs stay unique, keys stay valid, whatever save() writes.
THEOREM TablesStaySound == Spec => []TablesAreSound
BY Invariance, PTL DEF IndInv

\* A grant updated by one request at a time names only actions of its permission.
THEOREM GrantsKeepToCatalogue == Spec => []GrantsStayInCatalogue
BY Invariance, PTL DEF IndInv

\* A replacement nothing overlaps leaves the roles it was asked for, or none.
THEOREM ReplaceIsExact == Spec => []LoneReplaceIsExact
BY Invariance, PTL DEF IndInv

\* The guard decides by the tables at its second read.
THEOREM GuardIsExact == Spec => DecisionsAreExact
<1>1. IndInv /\ [Next]_vars =>
        [\A c \in Caller :
           At(c, "grants") /\ call'[c].at \in {"allowed", "denied"} /\ rev[call[c].user] = call[c].since
             => (call'[c].at = "allowed" <=>
                   Allowed(call[c].user, call[c].name, call[c].action))]_vars
  <2> SUFFICES ASSUME IndInv, Next, NEW c \in Caller,
                      At(c, "grants"), call'[c].at \in {"allowed", "denied"},
                      rev[call[c].user] = call[c].since
               PROVE  call'[c].at = "allowed" <=>
                        Allowed(call[c].user, call[c].name, call[c].action)
    OBVIOUS
  <2>1. ReadGrants(c)
    <3> USE DEF Begins, Go, Return, Idle
    <3>1. call \in [Caller -> Calls] /\ call' # call
      BY DEF IndInv, TypeOK, At
    <3>2. ASSUME NEW d \in Caller, NEW what, call' = [call EXCEPT ![d] = what]
          PROVE  d = c /\ what.at \in {"allowed", "denied"}
      BY <3>1, <3>2 DEF At
    <3>3. PICK d \in Caller :
            \/ \E u \in User, n \in Name, a \in Action : ReadAssignments(d, u, n, a)
            \/ ReadGrants(d) \/ Decide(d)
            \/ \E u \in User : CreateUser(d, u)
            \/ FindDefaultRole(d) \/ InsertDefaultRole(d)
            \/ \E u \in User, roles \in SUBSET Role : FindRoles(d, u, roles)
            \/ ClearRoles(d) \/ AssignRoles(d)
            \/ \E r \in Role, n \in Name : LoadRole(d, r, n)
            \/ SaveRole(d)
            \/ \E p \in Permission, row \in PermissionRows : LoadPermission(d, p, row)
            \/ SavePermission(d)
            \/ \E row \in GrantRows : CreateGrant(d, row)
            \/ InsertGrant(d)
            \/ \E g \in Grant, row \in GrantRows : LoadGrant(d, g, row)
            \/ CheckGrant(d) \/ SaveGrant(d)
            \/ Fail(d)
      BY <3>1 DEF Next, DeleteUser, CreateRole, DeleteRole, CreatePermission,
                  DeletePermission, DeleteGrant
    <3>4. \E what : call' = [call EXCEPT ![d] = what]
      <4>1. \A u, n, a : ReadAssignments(d, u, n, a) => \E what : call' = [call EXCEPT ![d] = what]
        BY DEF ReadAssignments
      <4>2. \A u, roles : CreateUser(d, u) \/ FindRoles(d, u, roles)
              => \E what : call' = [call EXCEPT ![d] = what]
        BY DEF CreateUser, FindRoles
      <4>3. \A r, n : LoadRole(d, r, n) => \E what : call' = [call EXCEPT ![d] = what]
        BY DEF LoadRole
      <4>4. \A p, row : LoadPermission(d, p, row) \/ CreateGrant(d, row) \/ LoadGrant(d, p, row)
              => \E what : call' = [call EXCEPT ![d] = what]
        BY DEF LoadPermission, CreateGrant, LoadGrant
      <4>5. ReadGrants(d) \/ Decide(d) \/ FindDefaultRole(d) \/ InsertDefaultRole(d)
              => \E what : call' = [call EXCEPT ![d] = what]
        BY DEF ReadGrants, Decide, FindDefaultRole, InsertDefaultRole
      <4>6. ClearRoles(d) \/ AssignRoles(d) \/ CheckGrant(d) \/ Fail(d)
              => \E what : call' = [call EXCEPT ![d] = what]
        BY DEF ClearRoles, AssignRoles, CheckGrant, Fail
      <4>7. SaveRole(d) \/ SavePermission(d) \/ InsertGrant(d) \/ SaveGrant(d)
              => \E what : call' = [call EXCEPT ![d] = what]
        BY DEF SaveRole, SavePermission, InsertGrant, SaveGrant
      <4> QED BY <3>3, <4>1, <4>2, <4>3, <4>4, <4>5, <4>6, <4>7
    <3>5. d = c
      BY <3>2, <3>4
    <3>0. call[d] # Idle
      BY <3>5 DEF At
    <3>6. ~ \/ \E u \in User, n \in Name, a \in Action : ReadAssignments(d, u, n, a)
            \/ \E u \in User : CreateUser(d, u)
            \/ \E u \in User, roles \in SUBSET Role : FindRoles(d, u, roles)
            \/ \E r \in Role, n \in Name : LoadRole(d, r, n)
      BY <3>0, Zenon DEF ReadAssignments, CreateUser, FindRoles, LoadRole
    <3>7. ~ \/ \E p \in Permission, row \in PermissionRows : LoadPermission(d, p, row)
            \/ \E row \in GrantRows : CreateGrant(d, row)
            \/ \E g \in Grant, row \in GrantRows : LoadGrant(d, g, row)
      BY <3>0, Zenon DEF LoadPermission, CreateGrant, LoadGrant
    <3>8. ~ (Decide(d) \/ FindDefaultRole(d) \/ InsertDefaultRole(d) \/ ClearRoles(d)
               \/ AssignRoles(d) \/ SaveRole(d) \/ SavePermission(d) \/ InsertGrant(d)
               \/ CheckGrant(d) \/ SaveGrant(d))
      BY <3>5 DEF At, Decide, FindDefaultRole, InsertDefaultRole, ClearRoles, AssignRoles,
                  SaveRole, SavePermission, InsertGrant, CheckGrant, SaveGrant
    <3>9. ReadGrants(d) \/ Fail(d)
      BY <3>3, <3>6, <3>7, <3>8, Zenon
    <3> QED
      BY <3>1, <3>5, <3>9 DEF Fail
  <2>2. call'[c].at = "allowed" <=> \E g \in Rows(grant) :
          grant[g].role \in call[c].roles /\ GrantAllows(g, call[c].name, call[c].action)
    BY <2>1 DEF ReadGrants, Go, IndInv, TypeOK, Calls
  <2>3. call[c].roles = assigned[call[c].user]
    BY DEF IndInv, CallsAreSound
  <2>4. \A g \in Rows(grant) : grant[g].permission \in Rows(permission)
    BY DEF IndInv, TablesAreSound
  <2> QED
    BY <2>2, <2>3, <2>4 DEF Allowed, GrantAllows
<1> QED
  BY <1>1, Invariance, PTL DEF Spec, DecisionsAreExact

-----------------------------------------------------------------------------
(* Uploads behind the guard.  An upload only ends the request the guard has *)
(* allowed, so what is proved of AccessControl holds beside uploads, too.   *)

\* A step of an upload is a step or a stutter of AccessControl.
THEOREM UploadsKeepAccess == FilesSpec => Spec
<1>1. InitFiles => Init
  BY DEF InitFiles
<1>2. [UploadStep \/ Rest]_<<vars, fileVars>> => [Next]_vars
  BY DEF UploadStep, Rest, Store, StoreFails, List, ListFails, Next
<1> QED
  BY <1>1, <1>2, PTL DEF FilesSpec, Spec

\* The inductive invariant: an upload between its object and its row has the
\* object, under the user it runs for.
FilesInv ==
  /\ FilesTypeOK /\ ListedFileIsStored
  /\ \A c \in Caller :
       upload[c] # None /\ call[c].user \in User =>
         upload[c] \in stored /\ publisher[upload[c]] = call[c].user

LEMMA FilesInit == InitFiles => FilesInv
BY FileAssumption DEF InitFiles, FilesInv, FilesTypeOK, ListedFileIsStored

\* Each step of an upload keeps it.
LEMMA UploadsKeepFiles ==
  ASSUME TypeOK, FilesInv, UploadStep
  PROVE  FilesInv'
<1> USE AccessAssumption, FileAssumption DEF FilesInv, ListedFileIsStored, MayUpload
<1>1. PICK c \in Caller : \/ \E f \in File : Store(c, f) \/ StoreFails(c, f)
                          \/ List(c) \/ ListFails(c)
  BY DEF UploadStep
<1>2. call \in [Caller -> Calls] /\ call[c].user \in User \cup {None} /\ users \subseteq User
  BY DEF TypeOK, Calls
<1>3. Decide(c) => /\ \A d \in Caller \ {c} : call'[d] = call[d]
                   /\ users' = users
  BY <1>2 DEF Decide, Return, tables, ghostVars
<1>4. ASSUME NEW f \in File, Store(c, f) PROVE FilesInv'
  <2>1. call' = call /\ users' = users
    BY <1>4 DEF Store, vars, tables
  <2> QED
    BY <1>2, <1>4, <2>1 DEF Store, FilesTypeOK
<1>5. ASSUME NEW f \in File, StoreFails(c, f) PROVE FilesInv'
  <2>1. upload[c] = None /\ upload' = upload
    BY <1>5 DEF StoreFails
  <2> QED
    BY <1>2, <1>3, <1>5, <2>1 DEF StoreFails, FilesTypeOK
<1>6. CASE List(c)
  BY <1>2, <1>3, <1>6 DEF List, FilesTypeOK
<1>7. CASE ListFails(c)
  BY <1>2, <1>3, <1>7 DEF ListFails, FilesTypeOK
<1> QED
  BY <1>1, <1>4, <1>5, <1>6, <1>7

\* The inductive invariant of uploads, on top of that of AccessControl.
THEOREM FilesInvariance == FilesSpec => []FilesInv
<1>1. FilesSpec => []TypeOK
  BY UploadsKeepAccess, Invariance, PTL DEF IndInv
<1>2. TypeOK /\ FilesInv /\ [UploadStep \/ Rest]_<<vars, fileVars>> => FilesInv'
  <2>1. ASSUME FilesInv, Rest PROVE FilesInv'
    BY <2>1 DEF Rest, FilesInv, FilesTypeOK, ListedFileIsStored
  <2>2. ASSUME FilesInv, UNCHANGED <<vars, fileVars>> PROVE FilesInv'
    BY <2>2 DEF FilesInv, FilesTypeOK, ListedFileIsStored, vars, tables, fileVars
  <2> QED
    BY <2>1, <2>2, UploadsKeepFiles
<1> QED
  BY <1>1, <1>2, FilesInit, PTL DEF FilesSpec

\* A listed file has its object and its publisher, whatever failed or was
\* deleted in between.
THEOREM ListedStaysStored == FilesSpec => []ListedFileIsStored
BY FilesInvariance, PTL DEF FilesInv
=============================================================================
