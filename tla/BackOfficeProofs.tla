---------------------------- MODULE BackOfficeProofs ----------------------------
(***************************************************************************)
(* Theorems about the back office for every value of the constants.  What  *)
(* an area keeps is proved of its component, whose behaviours those of the *)
(* back office are.                                                        *)
(***************************************************************************)
EXTENDS BackOffice, SharedLemmas

-----------------------------------------------------------------------------
(* Accounts, roles and rights (AccessControl).                             *)

\* The accounts fare in the back office as they do by themselves.
LEMMA AccountsAsAlone == Spec => A!Spec
<1>1. Init => A!Init
  BY DEF Init
<1>2. [Next]_vars => [A!Next]_(A!vars)
  BY DEF Next, vars, aVars, A!vars, A!rules
<1> QED
  BY <1>1, <1>2, PTL DEF Spec, A!Spec

Account == [status : {"invited", "active", "inactive"}, active : BOOLEAN, password : BOOLEAN]
Roles == [Locations -> {"none", "admin", "clerk"}]

\* What administrators ask for.
AdminOps ==
    [name : {"status"}, u : Users, on : BOOLEAN]
    \union [name : {"roles"}, u : Users, roles : Roles]
    \union [name : {"remove"}, u : Users, l : Locations]
    \union [name : {"lift"}, u : Users, l : Locations, lift : {"none", "grant", "revoke"}]
    \union [name : {"role"}, keys : SUBSET A!Keys, on : BOOLEAN]

\* Who will be an administrator, and whose account will be on, when a request is through.
AdminAfter(op, u) ==
    CASE op.name = "roles" /\ u = op.u -> \E l \in Locations : op.roles[l] = "admin"
      [] op.name = "remove" /\ u = op.u ->
            \E l \in Locations \ {op.l} : roleAt[u][l] = "admin"
      [] OTHER -> A!IsAdmin(u)
ActiveAfter(op, u) == IF op.name = "status" /\ u = op.u THEN op.on ELSE A!Active(u)

Remains(op) == \E u \in Users : AdminAfter(op, u) /\ ActiveAfter(op, u)

AccountTypes ==
    /\ admins \in AdminsOverlap /\ changes \in 0..MaxChanges
    /\ account \in [Users -> Account]
    /\ invited \subseteq Users
    /\ roleAt \in [Users -> Roles]
    /\ lift \in [Users -> [Locations -> {"none", "grant", "revoke"}]]
    /\ clerk \in [keys : SUBSET A!Keys, on : BOOLEAN]
    /\ admin \in [Reqs -> {A!Idle} \union [pc : {"write"}, op : AdminOps]]

\* One request at a time is under way, and it has been found in order: what it checked
\* still holds, since nothing but invitations that are accepted has come between.
AInv ==
    /\ AccountTypes
    /\ ~admins =>
        /\ \E u \in Users : A!IsAdmin(u) /\ A!Active(u)
        /\ \A p, q \in Reqs : admin[p].pc = "write" /\ admin[q].pc = "write" => p = q
        /\ \A q \in Reqs : admin[q].pc = "write" => Remains(admin[q].op)

\* The types say all of TypeOK.
LEMMA AccountsTyped == AccountTypes => A!TypeOK
<1> SUFFICES ASSUME AccountTypes PROVE A!TypeOK
  OBVIOUS
<1>1. \A q \in Reqs : admin[q].pc \in {"idle", "write"}
  BY DEF AccountTypes, A!Idle
<1> QED
  BY <1>1 DEF AccountTypes, A!TypeOK, Account, Roles

\* At the start there is one account, the administrator's, and no request.
LEMMA AccountsInit == A!AccessAssumption /\ A!Init => AInv
<1> SUFFICES ASSUME A!AccessAssumption, A!Init PROVE AInv
  OBVIOUS
<1>1. PICK m \in Locations :
        roleAt = [u \in Users |-> [l \in Locations |->
                        IF u = First /\ l = m THEN "admin" ELSE "none"]]
  BY DEF A!Init
<1>2. AccountTypes
  BY <1>1 DEF A!Init, AccountTypes, A!AccessAssumption, Account, Roles, A!Keys
<1>3. A!IsAdmin(First) /\ A!Active(First)
  BY <1>1 DEF A!Init, A!AccessAssumption, A!IsAdmin, A!Active
<1>4. \A q \in Reqs : admin[q].pc = "idle"
  BY DEF A!Init, A!Idle
<1> QED
  BY <1>2, <1>3, <1>4 DEF AInv, A!AccessAssumption

\* A request that leaves an administrator may be begun.
LEMMA AskKeeps ==
    ASSUME A!AccessAssumption, AInv, NEW q \in Reqs, NEW op \in AdminOps,
           ~admins => Remains(op), A!Ask(q, op)
    PROVE  AInv'
<1>1. /\ admin' = [admin EXCEPT ![q] = [pc |-> "write", op |-> op]]
      /\ changes < MaxChanges /\ changes' = changes + 1
      /\ UNCHANGED <<admins, account, invited, roleAt, lift, clerk>>
      /\ admins \/ \A p \in Reqs : admin[p].pc = "idle"
  BY DEF A!Ask, A!MayStart, A!rules
<1>2. AccountTypes'
  BY <1>1 DEF AInv, AccountTypes, A!AccessAssumption
<1>3. /\ admin'[q] = [pc |-> "write", op |-> op]
      /\ \A p \in Reqs \ {q} : admin'[p] = admin[p]
  BY <1>1 DEF AInv, AccountTypes
<1>4. ASSUME ~admins', NEW p \in Reqs, admin'[p].pc = "write" PROVE p = q /\ Remains(admin[p].op)'
  <2>1. p = q
    BY <1>1, <1>3, <1>4
  <2>2. Remains(op)
    BY <1>1, <1>4
  <2>3. \A u \in Users : /\ AdminAfter(op, u) => AdminAfter(op, u)'
                         /\ ActiveAfter(op, u) => ActiveAfter(op, u)'
    BY <1>1 DEF AdminAfter, ActiveAfter, A!IsAdmin, A!Active
  <2>4. Remains(op)'
    BY <2>2, <2>3 DEF Remains
  <2>5. admin'[p].op = op
    BY <2>1, <1>3
  <2> QED
    BY <2>1, <2>4, <2>5 DEF Remains, AdminAfter, ActiveAfter
<1>5. ~admins' => \E u \in Users : A!IsAdmin(u)' /\ A!Active(u)'
  BY <1>1 DEF AInv, A!IsAdmin, A!Active
<1> QED
  BY <1>2, <1>4, <1>5 DEF AInv

\* Locking an account (setStatus) leaves an administrator: the request was found in
\* order.
LEMMA SetStatusKeeps ==
    ASSUME A!AccessAssumption, AInv, NEW q \in Reqs, NEW u \in Users, NEW on \in BOOLEAN,
           A!SetStatus(q, u, on)
    PROVE  AInv'
<1> DEFINE op == [name |-> "status", u |-> u, on |-> on]
<1>1. op \in AdminOps
  BY DEF AdminOps
<1>2. ASSUME ~admins PROVE Remains(op)
  <2>1. PICK v \in Users : A!IsAdmin(v) /\ A!Active(v) /\ (v = u => on)
    <3>1. CASE on
      BY <3>1, <1>2 DEF AInv
    <3>2. CASE ~on /\ ~A!IsAdmin(u)
      BY <3>2, <1>2 DEF AInv
    <3>3. CASE ~on /\ A!HasOtherActiveAdmin(u)
      BY <3>3 DEF A!HasOtherActiveAdmin
    <3> QED
      BY <3>1, <3>2, <3>3 DEF A!SetStatus, A!KeepsAtLeastOneAdmin
  <2>2. AdminAfter(op, v) /\ ActiveAfter(op, v)
    BY <2>1 DEF AdminAfter, ActiveAfter
  <2> QED
    BY <2>2 DEF Remains
<1> QED
  BY <1>1, <1>2, AskKeeps DEF A!SetStatus

\* So does writing a user's roles at the branches (putWarehouseRoles).
LEMMA PutWarehouseRolesKeeps ==
    ASSUME A!AccessAssumption, AInv, NEW q \in Reqs, NEW u \in Users, NEW roles \in Roles,
           A!PutWarehouseRoles(q, u, roles)
    PROVE  AInv'
<1> DEFINE op == [name |-> "roles", u |-> u, roles |-> roles]
<1>1. op \in AdminOps
  BY DEF AdminOps
<1>2. ASSUME ~admins PROVE Remains(op)
  <2>1. PICK v \in Users : /\ A!IsAdmin(v) /\ A!Active(v)
                           /\ v = u => \E l \in Locations : roles[l] = "admin"
    <3>1. CASE \E l \in Locations : roles[l] = "admin"
      BY <3>1, <1>2 DEF AInv
    <3>2. CASE ~A!IsAdmin(u)
      BY <3>2, <1>2 DEF AInv
    <3>3. CASE A!HasOtherActiveAdmin(u)
      BY <3>3 DEF A!HasOtherActiveAdmin
    <3> QED
      BY <3>1, <3>2, <3>3 DEF A!PutWarehouseRoles, A!KeepsAtLeastOneAdmin
  <2>2. AdminAfter(op, v) /\ ActiveAfter(op, v)
    BY <2>1 DEF AdminAfter, ActiveAfter
  <2> QED
    BY <2>2 DEF Remains
<1> QED
  BY <1>1, <1>2, AskKeeps DEF A!PutWarehouseRoles

\* So does taking a role at one branch away (removeWarehouseRole).
LEMMA RemoveWarehouseRoleKeeps ==
    ASSUME A!AccessAssumption, AInv, NEW q \in Reqs, NEW u \in Users, NEW l \in Locations,
           A!RemoveWarehouseRole(q, u, l)
    PROVE  AInv'
<1> DEFINE op == [name |-> "remove", u |-> u, l |-> l]
<1>1. op \in AdminOps
  BY DEF AdminOps
<1>2. ASSUME ~admins PROVE Remains(op)
  <2>1. PICK v \in Users : /\ A!IsAdmin(v) /\ A!Active(v)
                           /\ v = u => \E m \in Locations \ {l} : roleAt[u][m] = "admin"
    <3>1. CASE \E m \in Locations \ {l} : roleAt[u][m] = "admin"
      BY <3>1, <1>2 DEF AInv
    <3>2. CASE ~A!IsAdmin(u)
      BY <3>2, <1>2 DEF AInv
    <3>3. CASE A!HasOtherActiveAdmin(u)
      BY <3>3 DEF A!HasOtherActiveAdmin
    <3>4. CASE roleAt[u][l] # "admin" /\ A!IsAdmin(u)
      BY <3>4, <1>2 DEF AInv, A!IsAdmin
    <3> QED
      BY <3>1, <3>2, <3>3, <3>4 DEF A!RemoveWarehouseRole, A!KeepsAtLeastOneAdmin
  <2>2. AdminAfter(op, v) /\ ActiveAfter(op, v)
    BY <2>1 DEF AdminAfter, ActiveAfter
  <2> QED
    BY <2>2 DEF Remains
<1> QED
  BY <1>1, <1>2, AskKeeps DEF A!RemoveWarehouseRole

\* Neither roles nor their exceptions make or unmake an administrator.
LEMMA NeitherKeeps ==
    ASSUME A!AccessAssumption, AInv, NEW q \in Reqs, NEW op \in AdminOps,
           op.name \in {"lift", "role"}, A!Ask(q, op)
    PROVE  AInv'
<1>1. ~admins => Remains(op)
  BY DEF AInv, Remains, AdminAfter, ActiveAfter
<1> QED
  BY <1>1, AskKeeps

\* The write does what its request was checked for.
LEMMA WriteKeeps ==
    ASSUME AInv, NEW q \in Reqs, A!Write(q)
    PROVE  AInv'
<1> DEFINE op == admin[q].op
<1>1. /\ admin[q].pc = "write" /\ admin[q] \in [pc : {"write"}, op : AdminOps] /\ op \in AdminOps
      /\ admin' = [admin EXCEPT ![q] = A!Idle]
      /\ UNCHANGED <<admins, invited, changes>>
  BY DEF A!Write, AInv, AccountTypes, A!Idle
<1>2. /\ account' = IF op.name = "status"
            THEN [account EXCEPT
                    ![op.u].active = op.on,
                    ![op.u].status = IF ~op.on THEN "inactive"
                                     ELSE IF account[op.u].password THEN "active"
                                     ELSE "invited"]
            ELSE account
      /\ roleAt' =
            CASE op.name = "roles" -> [roleAt EXCEPT ![op.u] = op.roles]
              [] op.name = "remove" -> [roleAt EXCEPT ![op.u][op.l] = "none"]
              [] OTHER -> roleAt
      /\ lift' = IF op.name = "lift" THEN [lift EXCEPT ![op.u][op.l] = op.lift] ELSE lift
      /\ clerk' = IF op.name = "role" THEN [keys |-> op.keys, on |-> op.on] ELSE clerk
  BY DEF A!Write
<1>3. account' \in [Users -> Account] /\ \A u \in Users : ActiveAfter(op, u) => A!Active(u)'
  <2> HIDE DEF op
  <2>1. CASE op.name # "status"
    BY <2>1, <1>2 DEF AInv, AccountTypes, ActiveAfter, A!Active
  <2>2. CASE op.name = "status"
    <3> DEFINE new == [account[op.u] EXCEPT
                          !.active = op.on,
                          !.status = IF ~op.on THEN "inactive"
                                     ELSE IF account[op.u].password THEN "active"
                                     ELSE "invited"]
    <3>1. op.u \in Users /\ op.on \in BOOLEAN
      BY <2>2, <1>1 DEF AdminOps
    <3>2. account[op.u] \in Account
      BY <3>1 DEF AInv, AccountTypes
    <3>3. /\ new \in Account /\ new.active = op.on
          /\ op.on => new.status # "inactive"
      BY <3>1, <3>2 DEF Account
    <3>4. account' = [account EXCEPT ![op.u] = new]
      BY <2>2, <1>2, <3>1 DEF AInv, AccountTypes
    <3> HIDE DEF new
    <3>5. account' \in [Users -> Account]
      BY <3>3, <3>4 DEF AInv, AccountTypes
    <3>6. ASSUME NEW u \in Users, ActiveAfter(op, u) PROVE A!Active(u)'
      <4>1. CASE u = op.u
        BY <4>1, <2>2, <3>1, <3>3, <3>4, <3>6 DEF AInv, AccountTypes, ActiveAfter, A!Active
      <4>2. CASE u # op.u
        BY <4>2, <3>4, <3>6 DEF AInv, AccountTypes, ActiveAfter, A!Active
      <4> QED
        BY <4>1, <4>2
    <3> QED
      BY <3>5, <3>6
  <2> QED
    BY <2>1, <2>2
<1>4. roleAt' \in [Users -> Roles] /\ \A u \in Users : AdminAfter(op, u) => A!IsAdmin(u)'
  <2> HIDE DEF op
  <2>1. CASE op.name = "roles"
    <3>1. op.u \in Users /\ op.roles \in Roles
      BY <2>1, <1>1 DEF AdminOps
    <3> QED
      BY <2>1, <3>1, <1>2 DEF AInv, AccountTypes, AdminAfter, A!IsAdmin, Roles
  <2>2. CASE op.name = "remove"
    <3>1. op.u \in Users /\ op.l \in Locations
      BY <2>2, <1>1 DEF AdminOps
    <3>2. roleAt' = [roleAt EXCEPT ![op.u] = [roleAt[op.u] EXCEPT ![op.l] = "none"]]
      BY <2>2, <1>2
    <3>3. [roleAt[op.u] EXCEPT ![op.l] = "none"] \in Roles
      BY <3>1 DEF AInv, AccountTypes, Roles
    <3>4. roleAt' \in [Users -> Roles]
      BY <3>2, <3>3 DEF AInv, AccountTypes
    <3>5. ASSUME NEW u \in Users, AdminAfter(op, u) PROVE A!IsAdmin(u)'
      BY <2>2, <3>1, <3>2, <3>5 DEF AInv, AccountTypes, Roles, AdminAfter, A!IsAdmin
    <3> QED
      BY <3>4, <3>5
  <2>3. CASE op.name \notin {"roles", "remove"}
    BY <2>3, <1>2 DEF AInv, AccountTypes, AdminAfter, A!IsAdmin
  <2> QED
    BY <2>1, <2>2, <2>3
<1>5. lift' \in [Users -> [Locations -> {"none", "grant", "revoke"}]]
  <2> HIDE DEF op
  <2>1. op.name = "lift" => /\ op.u \in Users /\ op.l \in Locations
                            /\ op.lift \in {"none", "grant", "revoke"}
    BY <1>1 DEF AdminOps
  <2> QED
    BY <1>2, <2>1 DEF AInv, AccountTypes
<1>6. clerk' \in [keys : SUBSET A!Keys, on : BOOLEAN]
  <2> HIDE DEF op
  <2>1. op.name = "role" => op.keys \in SUBSET A!Keys /\ op.on \in BOOLEAN
    BY <1>1 DEF AdminOps
  <2> QED
    BY <1>2, <2>1 DEF AInv, AccountTypes
<1>7. AccountTypes'
  BY <1>1, <1>3, <1>4, <1>5, <1>6 DEF AInv, AccountTypes
<1>8. ~admins' => \E u \in Users : A!IsAdmin(u)' /\ A!Active(u)'
  <2>1. ~admins => Remains(op)
    BY <1>1 DEF AInv
  <2> QED
    BY <1>1, <1>3, <1>4, <2>1 DEF Remains
<1>9. ~admins' => \A p \in Reqs : admin'[p].pc # "write"
  <2>1. \A p \in Reqs : admin'[p] = IF p = q THEN A!Idle ELSE admin[p]
    BY <1>1 DEF AInv, AccountTypes
  <2> QED
    BY <1>1, <2>1 DEF AInv, A!Idle
<1> QED
  BY <1>7, <1>8, <1>9 DEF AInv

\* An account that an invitation turns on takes nothing from anybody.
LEMMA AcceptKeeps ==
    ASSUME AInv, NEW u \in Users, A!Accept(u)
    PROVE  AInv'
<1>1. /\ account' = [account EXCEPT ![u] =
                        [status |-> "active", active |-> TRUE, password |-> TRUE]]
      /\ invited' = invited \ {u}
      /\ UNCHANGED <<admins, roleAt, lift, clerk, admin, changes>>
  BY DEF A!Accept
<1>2. AccountTypes'
  BY <1>1 DEF AInv, AccountTypes, Account
<1>3. \A v \in Users : A!Active(v) => A!Active(v)'
  BY <1>1 DEF AInv, AccountTypes, A!Active
<1>4. ASSUME NEW q \in Reqs, Remains(admin[q].op) PROVE Remains(admin[q].op)'
  <2>1. \A v \in Users : /\ AdminAfter(admin[q].op, v) => AdminAfter(admin[q].op, v)'
                         /\ ActiveAfter(admin[q].op, v) => ActiveAfter(admin[q].op, v)'
    BY <1>1, <1>3 DEF AdminAfter, ActiveAfter, A!IsAdmin
  <2> QED
    BY <1>4, <2>1 DEF Remains
<1> QED
  BY <1>1, <1>2, <1>3, <1>4 DEF AInv, A!IsAdmin

\* Every step of accounts keeps it, the requests' reads and invitations included.
LEMMA AccountsStep == A!AccessAssumption /\ AInv /\ [A!Next]_(A!vars) => AInv'
<1> SUFFICES ASSUME A!AccessAssumption, AInv, [A!Next]_(A!vars) PROVE AInv'
  OBVIOUS
<1>1. CASE UNCHANGED A!vars
  BY <1>1 DEF A!vars, A!rules, AInv, AccountTypes, Remains, AdminAfter, ActiveAfter, A!IsAdmin, A!Active
<1>2. ASSUME NEW q \in Reqs, NEW u \in Users, NEW on \in BOOLEAN, A!SetStatus(q, u, on)
      PROVE  AInv'
  BY <1>2, SetStatusKeeps
<1>3. ASSUME NEW q \in Reqs, NEW u \in Users, NEW roles \in Roles,
             A!PutWarehouseRoles(q, u, roles)
      PROVE  AInv'
  BY <1>3, PutWarehouseRolesKeeps
<1>4. ASSUME NEW q \in Reqs, NEW u \in Users, NEW l \in Locations,
             A!RemoveWarehouseRole(q, u, l)
      PROVE  AInv'
  BY <1>4, RemoveWarehouseRoleKeeps
<1>5. ASSUME NEW q \in Reqs, NEW u \in Users, NEW l \in Locations, NEW keep \in BOOLEAN,
             A!UpdateWarehousePermissions(q, u, l, keep)
      PROVE  AInv'
  <2> DEFINE has == "loc" \in clerk.keys
             op == [name |-> "lift", u |-> u, l |-> l,
                    lift |-> IF keep = has THEN "none" ELSE IF keep THEN "grant" ELSE "revoke"]
  <2>1. op \in AdminOps /\ op.name = "lift"
    BY DEF AdminOps
  <2>2. A!Ask(q, op)
    BY <1>5 DEF A!UpdateWarehousePermissions
  <2> HIDE DEF op
  <2> QED
    BY <2>1, <2>2, NeitherKeeps
<1>6. ASSUME NEW q \in Reqs, NEW keys \in SUBSET A!Keys, NEW on \in BOOLEAN,
             A!UpdateRole(q, keys, on)
      PROVE  AInv'
  <2> DEFINE op == [name |-> "role", keys |-> keys, on |-> on]
  <2>1. op \in AdminOps /\ op.name = "role" /\ A!Ask(q, op)
    BY <1>6 DEF AdminOps, A!UpdateRole
  <2> HIDE DEF op
  <2> QED
    BY <2>1, NeitherKeeps
<1>7. ASSUME NEW q \in Reqs, A!Write(q) PROVE AInv'
  BY <1>7, WriteKeeps
<1>8. ASSUME NEW u \in Users, A!Accept(u) PROVE AInv'
  BY <1>8, AcceptKeeps
<1> QED
  BY <1>1, <1>2, <1>3, <1>4, <1>5, <1>6, <1>7, <1>8 DEF A!Next, Roles

\* Accounts, roles and exceptions keep their types whatever is asked, and requests that
\* follow one another leave an administrator whose account is on: assertKeepsAtLeastOneAdmin
\* before each write, with invitations accepted between the check and the write.
THEOREM AdministratorRemains ==
    A!Spec => [](A!TypeOK /\ A!AdminRemains)
<1>1. A!Init => AInv
  BY AccountsInit, OperationsAssumption
<1>2. AInv /\ [A!Next]_(A!vars) => AInv'
  BY AccountsStep, OperationsAssumption
<1>3. AInv => A!TypeOK /\ A!AdminRemains
  BY AccountsTyped DEF AInv, A!AdminRemains
<1> QED
  BY <1>1, <1>2, <1>3, PTL DEF A!Spec

\* What roles and exceptions give at a location, key by key.
LEMMA RightsByKey ==
    ASSUME AccountTypes, NEW u \in Users, NEW l \in Locations
    PROVE  LET ofRoles == UNION {IF m = l THEN A!KeysOf(roleAt[u][m])
                                 ELSE A!OfScope(A!KeysOf(roleAt[u][m]), "system")
                                   : m \in Locations}
               held == A!Lifted(ofRoles, u, l)
           IN  \A k \in A!Keys :
                  k \in held <=> IF A!Scope[k] = "system" THEN k \in A!Rights(u).sys
                                 ELSE k \in A!Rights(u).at[l]
<1> DEFINE ofRoles == UNION {IF m = l THEN A!KeysOf(roleAt[u][m])
                             ELSE A!OfScope(A!KeysOf(roleAt[u][m]), "system")
                               : m \in Locations}
           held == A!Lifted(ofRoles, u, l)
<1>1. "sys" \in held <=> "sys" \in A!Rights(u).sys
  <2>1. "sys" \in held <=> "sys" \in ofRoles
    BY DEF A!Lifted
  <2>2. "sys" \in ofRoles <=> \E m \in Locations : "sys" \in A!KeysOf(roleAt[u][m])
    BY DEF A!OfScope, A!Scope
  <2>3. "sys" \in A!Rights(u).sys <=> \E m \in Locations : "sys" \in A!KeysOf(roleAt[u][m])
    BY DEF A!Rights, A!OfScope, A!Scope
  <2> QED
    BY <2>1, <2>2, <2>3
<1>2. "loc" \in held <=> "loc" \in A!Rights(u).at[l]
  <2>1. "loc" \in ofRoles <=> "loc" \in A!KeysOf(roleAt[u][l])
    BY DEF A!OfScope, A!Scope
  <2>2. "loc" \in A!OfScope(A!KeysOf(roleAt[u][l]), "location") <=> "loc" \in A!KeysOf(roleAt[u][l])
    BY DEF A!OfScope, A!Scope
  <2>3. A!Rights(u).at[l] = A!Lifted(A!OfScope(A!KeysOf(roleAt[u][l]), "location"), u, l)
    BY DEF A!Rights
  <2> HIDE DEF ofRoles
  <2> QED
    BY <2>1, <2>2, <2>3 DEF A!Lifted
<1> HIDE DEF held
<1>3. \A k \in A!Keys : k \in held <=> IF A!Scope[k] = "system" THEN k \in A!Rights(u).sys
                                     ELSE k \in A!Rights(u).at[l]
  BY <1>1, <1>2 DEF A!Keys, A!Scope
<1> QED
  BY <1>3 DEF held

\* Whoever usersWithPermissions names may do what it names them for, and nobody else.
LEMMA FanOut == AccountTypes => A!FanOutMatchesRights
<1> SUFFICES ASSUME AccountTypes, NEW l \in Locations, NEW keys \in (SUBSET A!Keys) \ {{}}
             PROVE  A!UsersWith(keys, l) =
                      {u \in Users : /\ account[u].active /\ account[u].status = "active"
                                     /\ \E m \in Locations : A!Member(u, m)
                                     /\ \A k \in keys : A!MayAt(A!Rights(u), k, l)}
  BY DEF A!FanOutMatchesRights
<1> DEFINE ofRoles(u) == UNION {IF m = l THEN A!KeysOf(roleAt[u][m])
                                ELSE A!OfScope(A!KeysOf(roleAt[u][m]), "system")
                                  : m \in Locations}
           held(u) == A!Lifted(ofRoles(u), u, l)
<1>1. ASSUME NEW u \in Users
      PROVE  (A!IsAdmin(u) \/ keys \subseteq held(u)) <=> \A k \in keys : A!MayAt(A!Rights(u), k, l)
  <2>1. \A k \in A!Keys :
            k \in held(u) <=> IF A!Scope[k] = "system" THEN k \in A!Rights(u).sys
                              ELSE k \in A!Rights(u).at[l]
    BY RightsByKey
  <2>2. A!Rights(u).admin = A!IsAdmin(u)
    BY DEF A!Rights
  <2> HIDE DEF held
  <2>3. \A k \in keys : A!MayAt(A!Rights(u), k, l) <=> (A!IsAdmin(u) \/ k \in held(u))
    BY <2>1, <2>2 DEF A!MayAt
  <2>4. keys # {}
    OBVIOUS
  <2> QED
    BY <2>3, <2>4
<1>2. A!UsersWith(keys, l) =
        {u \in {v \in Users : /\ account[v].active /\ account[v].status = "active"
                              /\ \E m \in Locations : A!Member(v, m)} :
            A!IsAdmin(u) \/ keys \subseteq held(u)}
  BY DEF A!UsersWith
<1> HIDE DEF held
<1> QED
  BY <1>1, <1>2

\* Who is told of something at a location (usersWithPermissions) are the members whose
\* rights (resolvePermissions) permit it there, whatever roles and exceptions there are.
THEOREM FanOutFollowsRights ==
    A!Spec => []A!FanOutMatchesRights
<1>1. A!Init => AInv
  BY AccountsInit, OperationsAssumption
<1>2. AInv /\ [A!Next]_(A!vars) => AInv'
  BY AccountsStep, OperationsAssumption
<1>3. AInv => A!FanOutMatchesRights
  BY FanOut DEF AInv
<1> QED
  BY <1>1, <1>2, <1>3, PTL DEF A!Spec

\* In the back office: an administrator whose account is on remains, and those who are
\* told of something are those who may do it.
THEOREM RightsAlwaysAddUp == Spec => []RightsAddUp
<1>1. A!AdminRemains /\ A!FanOutMatchesRights => RightsAddUp
  BY DEF RightsAddUp
<1> QED
  BY AccountsAsAlone, AdministratorRemains, FanOutFollowsRights, <1>1, PTL

-----------------------------------------------------------------------------
(* Sessions and the cache of resolved users (Sessions).                    *)

\* The sessions fare in the back office as they do by themselves.
LEMMA SessionsAsAlone == Spec => T!Spec
<1>1. Init => T!Init
  BY DEF Init
<1>2. [Next]_vars => [T!Next]_(T!vars)
  BY DEF Next, vars, tVars, T!vars, T!tokens, T!entries
<1> QED
  BY <1>1, <1>2, PTL DEF Spec, T!Spec

Token == [used : {"no", "grace", "past"}, revoked : {FALSE}]

Kept(f) == ~losses /\ f \notin out

\* A tab between its request and the answer.
Asking(f, t) ==
    /\ tab[f][t].token \in 1..Len(row[f])
    /\ row[f][tab[f][t].token].used # "past"
    /\ \A p \in Tabs :
          tab[f][p].pc = "answer" => tab[f][p].token # tab[f][t].token

\* A new token is known to the tab alone that gets it.
Answered(f, t) ==
    /\ tab[f][t].token \in 1..Len(row[f])
    /\ row[f][tab[f][t].token].used = "no"
    /\ tab[f][t].token # cookie[f]
    /\ \A p \in Tabs \ {t} :
          tab[f][p].pc = "answer" => tab[f][p].token # tab[f][t].token

\* The browser's token has been exchanged only if a tab is about to bring another.
CookieFresh(f) ==
    cookie[f] # 0 =>
        /\ row[f][cookie[f]].used # "past"
        /\ row[f][cookie[f]].used = "grace" =>
              \E t \in Tabs : tab[f][t].pc \in {"issue", "answer"}

\* A family that goes on: nothing of it is revoked.
Good(f) ==
    /\ row[f] \in Seq(Token)
    /\ cookie[f] \in 0..Len(row[f])
    /\ CookieFresh(f)
    /\ \A t \in Tabs : /\ tab[f][t].pc = "rotate" => Asking(f, t)
                       /\ tab[f][t].pc = "answer" => Answered(f, t)

SInv ==
    /\ DOMAIN row = Families /\ DOMAIN cookie = Families /\ DOMAIN tab = Families
    /\ \A f \in Families : DOMAIN tab[f] = Tabs
    /\ \A f \in T!CacheKeys : UserOf[f] \in locked => f \in out
    /\ \A f \in Families : Kept(f) => Good(f)

\* What a step leaves as it is.
Untouched(f) == row'[f] = row[f] /\ cookie'[f] = cookie[f] /\ tab'[f] = tab[f]

\* A family of tokens none of whose rows, tabs or cookies a step touches stays good.
LEMMA UntouchedGood ==
    ASSUME NEW f \in Families, Good(f), Untouched(f)
    PROVE  Good(f)'
BY DEF Good, Untouched, CookieFresh, Asking, Answered

\* A step of one family keeps the invariant if it keeps that family's part of it.
LEMMA OneFamily ==
    ASSUME SInv, NEW g \in Families,
           DOMAIN row' = Families, DOMAIN cookie' = Families, DOMAIN tab' = Families,
           DOMAIN tab'[g] = Tabs,
           losses' = losses, out \subseteq out',
           \A f \in T!CacheKeys : UserOf[f] \in locked' => f \in out',
           \A f \in Families \ {g} : Untouched(f),
           Kept(g)' => Good(g)'
    PROVE  SInv'
<1>1. ASSUME NEW f \in Families, Kept(f)' PROVE Good(f)'
  <2>1. CASE f = g
    BY <2>1, <1>1
  <2>2. CASE f # g
    BY <2>2, <1>1, UntouchedGood DEF SInv, Kept
  <2> QED
    BY <2>1, <2>2
<1>2. \A f \in Families : DOMAIN tab'[f] = Tabs
  BY DEF SInv, Untouched
<1> QED
  BY <1>1, <1>2 DEF SInv

\* A token of a family is marked.
LEMMA Marked ==
    ASSUME NEW s \in Seq(Token), NEW i \in 1..Len(s), NEW e \in Token
    PROVE  /\ [s EXCEPT ![i] = e] \in Seq(Token)
           /\ Len([s EXCEPT ![i] = e]) = Len(s)
           /\ \A j \in 1..Len(s) : [s EXCEPT ![i] = e][j] = IF j = i THEN e ELSE s[j]
<1> HIDE DEF Token
<1> QED
  BY ExceptSeq

\* At the start no family has a token.
LEMMA SessionsInit == T!Init => SInv
<1> SUFFICES ASSUME T!Init PROVE SInv
  OBVIOUS
<1>1. ASSUME NEW f \in Families PROVE Good(f)
  <2>1. row[f] = << >> /\ cookie[f] = 0
    BY DEF T!Init
  <2>2. \A t \in Tabs : tab[f][t].pc = "idle"
    BY DEF T!Init, T!Idle
  <2> QED
    BY <2>1, <2>2 DEF Good, CookieFresh
<1> QED
  BY <1>1 DEF T!Init, SInv

\* The token a tab is about to exchange is neither revoked nor used up, nor is the account off.
LEMMA NotRefused ==
    ASSUME SInv, NEW f \in Families, NEW t \in Tabs, Kept(f)
    PROVE  ~T!Refuse(f, t)
<1> SUFFICES ASSUME T!Refuse(f, t) PROVE FALSE
  OBVIOUS
<1>1. Good(f) /\ tab[f][t].pc = "rotate"
  BY DEF SInv, T!Refuse
<1>2. Asking(f, t)
  BY <1>1 DEF Good
<1>3. row[f][tab[f][t].token] \in Token
  BY <1>1, <1>2 DEF Good, Asking
<1>4. UserOf[f] \notin locked
  BY DEF SInv, Kept, T!CacheKeys
<1> QED
  BY <1>2, <1>3, <1>4 DEF T!Refuse, T!ReusedTooLate, Token, Asking

\* A login opens a family with one token, which the cookie has.
LEMMA LoginKeeps ==
    ASSUME SInv, NEW f \in Families, T!Login(f) PROVE SInv'
<1>1. /\ row' = [row EXCEPT ![f] = <<T!New>>] /\ cookie' = [cookie EXCEPT ![f] = 1]
      /\ UNCHANGED <<losses, tab, locked, out>> /\ row[f] = << >>
  BY DEF T!Login
<1>2. ASSUME Kept(f)' PROVE Good(f)'
  <2>1. Good(f)
    BY <1>1, <1>2 DEF SInv, Kept
  <2>2. \A t \in Tabs : tab[f][t].pc \notin {"rotate", "answer"}
    BY <1>1, <2>1 DEF Good, Asking, Answered
  <2>3. row'[f] = <<T!New>> /\ cookie'[f] = 1
    BY <1>1 DEF SInv
  <2>4. T!New \in Token /\ T!New.used = "no"
    BY DEF T!New, Token
  <2>5. row'[f] \in Seq(Token) /\ Len(row'[f]) = 1 /\ row'[f][1] = T!New
    BY <2>3, <2>4
  <2> QED
    BY <1>1, <2>2, <2>3, <2>4, <2>5 DEF Good, CookieFresh
<1> QED
  BY <1>1, <1>2, OneFamily DEF SInv, Untouched

\* A tab that sends the cookie's token holds one exchanged within the grace at most.
LEMMA SendKeeps ==
    ASSUME SInv, NEW f \in Families, NEW t \in Tabs, T!Send(f, t) PROVE SInv'
<1>1. /\ tab' = [tab EXCEPT ![f][t] = [pc |-> "rotate", token |-> cookie[f]]]
      /\ UNCHANGED <<losses, row, cookie, locked, out>>
      /\ cookie[f] # 0 /\ tab[f][t].pc = "idle"
  BY DEF T!Send
<1>2. /\ tab'[f][t] = [pc |-> "rotate", token |-> cookie[f]]
      /\ \A p \in Tabs \ {t} : tab'[f][p] = tab[f][p]
  BY <1>1 DEF SInv
<1>3. ASSUME Kept(f)' PROVE Good(f)'
  <2>1. Good(f)
    BY <1>1, <1>3 DEF SInv, Kept
  <2>2. CookieFresh(f)'
    BY <1>1, <1>2, <2>1 DEF Good, CookieFresh
  <2>3. Asking(f, t)'
    BY <1>1, <1>2, <2>1 DEF Good, CookieFresh, Asking, Answered
  <2>4. ASSUME NEW p \in Tabs \ {t} PROVE /\ tab'[f][p].pc = "rotate" => Asking(f, p)'
                                          /\ tab'[f][p].pc = "answer" => Answered(f, p)'
    BY <1>1, <1>2, <2>1, <2>4 DEF Good, Asking, Answered
  <2> QED
    BY <1>1, <1>2, <2>1, <2>2, <2>3, <2>4 DEF Good
<1> QED
  BY <1>1, <1>3, OneFamily DEF SInv, Untouched

\* A family that is refused has been logged out, or answers to it may be lost.
LEMMA RefuseKeeps ==
    ASSUME SInv, NEW f \in Families, NEW t \in Tabs, T!Refuse(f, t) PROVE SInv'
<1>1. /\ row' = [row EXCEPT ![f] = T!RevokedRows(f)]
      /\ tab' = [tab EXCEPT ![f][t] = T!Idle]
      /\ UNCHANGED <<losses, cookie, locked, out>>
  BY DEF T!Refuse, T!Revoke
<1>2. ~Kept(f)'
  BY <1>1, NotRefused DEF Kept
<1> QED
  BY <1>1, <1>2, OneFamily DEF SInv, Untouched

\* The exchange of a token finds none that is to be revoked (rotate).
LEMMA UseKeeps ==
    ASSUME SInv, NEW f \in Families, NEW t \in Tabs, T!Use(f, t) PROVE SInv'
<1> DEFINE k == tab[f][t].token
           r == [row[f][k] EXCEPT !.used = IF @ = "no" THEN "grace" ELSE @]
<1>1. /\ row' = [row EXCEPT ![f][k].used = IF @ = "no" THEN "grace" ELSE @]
      /\ tab' = [tab EXCEPT ![f][t].pc = "issue"]
      /\ UNCHANGED <<losses, cookie, locked, out>>
      /\ tab[f][t].pc = "rotate"
  BY DEF T!Use
<1>2. /\ tab'[f][t].pc = "issue"
      /\ \A p \in Tabs \ {t} : tab'[f][p] = tab[f][p]
  BY <1>1 DEF SInv
<1>3. ASSUME Kept(f)' PROVE Good(f)'
  <2>1. Good(f) /\ Asking(f, t)
    BY <1>1, <1>3 DEF SInv, Kept, Good
  <2>2. k \in 1..Len(row[f]) /\ row[f][k] \in Token
    BY <2>1 DEF Good, Asking
  <2>3. r \in Token /\ r.used # "past"
    BY <2>1, <2>2 DEF Token, Asking
  <2>4. row'[f] = [row[f] EXCEPT ![k] = r]
    BY <1>1 DEF SInv
  <2>5. /\ row'[f] \in Seq(Token) /\ Len(row'[f]) = Len(row[f])
        /\ \A j \in 1..Len(row[f]) : row'[f][j] = IF j = k THEN r ELSE row[f][j]
    <3> HIDE DEF r
    <3> QED
      BY <2>1, <2>2, <2>3, <2>4, Marked DEF Good
  <2>6. CookieFresh(f)'
    <3>1. cookie'[f] = cookie[f] /\ cookie[f] \in 0..Len(row[f])
      BY <1>1, <2>1 DEF Good
    <3>2. ASSUME cookie[f] # 0 PROVE row'[f][cookie[f]].used # "past"
      <4>1. cookie[f] \in 1..Len(row[f]) /\ row[f][cookie[f]].used # "past"
        BY <3>1, <3>2, <2>1 DEF Good, CookieFresh
      <4> HIDE DEF r
      <4> QED
        BY <4>1, <2>3, <2>5
    <3> QED
      BY <1>2, <3>1, <3>2 DEF CookieFresh
  <2>7. ASSUME NEW p \in Tabs PROVE /\ tab'[f][p].pc = "rotate" => Asking(f, p)'
                                    /\ tab'[f][p].pc = "answer" => Answered(f, p)'
    <3>1. CASE p = t
      BY <3>1, <1>2
    <3>2. ASSUME p # t, tab[f][p].pc = "rotate" PROVE Asking(f, p)'
      <4>1. Asking(f, p) /\ tab'[f][p] = tab[f][p]
        BY <3>2, <1>2, <2>1 DEF Good
      <4>2. row'[f][tab[f][p].token].used # "past"
        <5> HIDE DEF r
        <5> QED
          BY <4>1, <2>3, <2>5 DEF Asking
      <4>3. \A x \in Tabs : tab'[f][x].pc = "answer" => tab[f][x].pc = "answer" /\ tab'[f][x] = tab[f][x]
        BY <1>2
      <4> QED
        BY <4>1, <4>2, <4>3, <2>5 DEF Asking
    <3>3. ASSUME p # t, tab[f][p].pc = "answer" PROVE Answered(f, p)'
      <4>1. Answered(f, p) /\ tab'[f][p] = tab[f][p] /\ cookie'[f] = cookie[f]
        BY <3>3, <1>1, <1>2, <2>1 DEF Good
      <4>2. tab[f][p].token # k
        BY <3>3, <2>1 DEF Asking
      <4>3. row'[f][tab[f][p].token] = row[f][tab[f][p].token]
        <5> HIDE DEF r, k
        <5> QED
          BY <4>1, <4>2, <2>5 DEF Answered
      <4>4. \A x \in Tabs : tab'[f][x].pc = "answer" => tab[f][x].pc = "answer" /\ tab'[f][x] = tab[f][x]
        BY <1>2
      <4> HIDE DEF r, k
      <4> QED
        BY <4>1, <4>3, <4>4, <2>5 DEF Answered
    <3> QED
      BY <3>1, <3>2, <3>3, <1>2
  <2> QED
    BY <1>1, <2>1, <2>5, <2>6, <2>7 DEF Good
<1> QED
  BY <1>1, <1>3, OneFamily DEF SInv, Untouched

\* The new token is known to the tab alone that is about to bring it.
LEMMA IssueKeeps ==
    ASSUME SInv, NEW f \in Families, NEW t \in Tabs, T!Issue(f, t) PROVE SInv'
<1>1. /\ row' = [row EXCEPT ![f] = Append(@, T!New)]
      /\ tab' = [tab EXCEPT ![f][t] = [pc |-> "answer", token |-> Len(row[f]) + 1]]
      /\ UNCHANGED <<losses, cookie, locked, out>>
  BY DEF T!Issue
<1>2. /\ tab'[f][t] = [pc |-> "answer", token |-> Len(row[f]) + 1]
      /\ \A p \in Tabs \ {t} : tab'[f][p] = tab[f][p]
  BY <1>1 DEF SInv
<1>3. ASSUME Kept(f)' PROVE Good(f)'
  <2>1. Good(f)
    BY <1>1, <1>3 DEF SInv, Kept
  <2>2. T!New \in Token /\ T!New.used = "no"
    BY DEF T!New, Token
  <2>3. /\ row'[f] \in Seq(Token) /\ Len(row'[f]) = Len(row[f]) + 1
        /\ \A j \in 1..Len(row[f]) : row'[f][j] = row[f][j]
        /\ row'[f][Len(row[f]) + 1] = T!New
    BY <1>1, <2>1, <2>2 DEF SInv, Good
  <2>4. Len(row[f]) \in Nat
    BY <2>1 DEF Good
  <2>5. CookieFresh(f)'
    BY <1>1, <1>2, <2>1, <2>3, <2>4 DEF Good, CookieFresh
  <2>6. Answered(f, t)'
    BY <1>1, <1>2, <2>1, <2>2, <2>3, <2>4 DEF Good, Answered
  <2>7. ASSUME NEW p \in Tabs \ {t} PROVE /\ tab'[f][p].pc = "rotate" => Asking(f, p)'
                                          /\ tab'[f][p].pc = "answer" => Answered(f, p)'
    BY <1>1, <1>2, <2>1, <2>3, <2>4, <2>7 DEF Good, Asking, Answered
  <2> QED
    BY <1>1, <1>2, <2>1, <2>3, <2>4, <2>5, <2>6, <2>7 DEF Good
<1> QED
  BY <1>1, <1>3, OneFamily DEF SInv, Untouched

\* The browser goes on with the token of the last answer, which nobody has sent yet.
LEMMA AnswerKeeps ==
    ASSUME SInv, NEW f \in Families, NEW t \in Tabs, T!Answer(f, t) PROVE SInv'
<1>1. /\ tab' = [tab EXCEPT ![f][t] = T!Idle]
      /\ UNCHANGED <<losses, row, locked, out>>
      /\ tab[f][t].pc = "answer"
      /\ cookie' = [cookie EXCEPT ![f] = tab[f][t].token] \/ (losses /\ UNCHANGED cookie)
  BY DEF T!Answer
<1>2. /\ tab'[f][t].pc = "idle"
      /\ \A p \in Tabs \ {t} : tab'[f][p] = tab[f][p]
  BY <1>1 DEF SInv, T!Idle
<1>3. ASSUME Kept(f)' PROVE Good(f)'
  <2>1. Good(f) /\ Answered(f, t)
    BY <1>1, <1>3 DEF SInv, Kept, Good
  <2>2. cookie'[f] = tab[f][t].token
    BY <1>1, <1>3 DEF SInv, Kept
  <2>3. cookie'[f] \in 0..Len(row[f]) /\ CookieFresh(f)'
    BY <1>1, <2>1, <2>2 DEF Good, Answered, CookieFresh
  <2>4. ASSUME NEW p \in Tabs PROVE /\ tab'[f][p].pc = "rotate" => Asking(f, p)'
                                    /\ tab'[f][p].pc = "answer" => Answered(f, p)'
    BY <1>1, <1>2, <2>1, <2>2 DEF Good, Asking, Answered
  <2> QED
    BY <1>1, <2>1, <2>3, <2>4 DEF Good
<1>4. DOMAIN cookie' = Families /\ \A g \in Families \ {f} : cookie'[g] = cookie[g]
  BY <1>1 DEF SInv
<1> QED
  BY <1>1, <1>3, <1>4, OneFamily DEF SInv, Untouched

\* When no tab asks, the browser's token has not been exchanged.
LEMMA GraceEndsKeeps ==
    ASSUME SInv, NEW f \in Families, NEW i, T!GraceEnds(f, i) PROVE SInv'
<1>1. /\ row' = [row EXCEPT ![f][i].used = "past"]
      /\ i \in DOMAIN row[f] /\ row[f][i].used = "grace"
      /\ \A t \in Tabs : tab[f][t].pc = "idle"
      /\ UNCHANGED <<losses, cookie, tab, locked, out>>
  BY DEF T!GraceEnds
<1>2. ASSUME Kept(f)' PROVE Good(f)'
  <2> DEFINE r == [row[f][i] EXCEPT !.used = "past"]
  <2>1. Good(f)
    BY <1>1, <1>2 DEF SInv, Kept
  <2>2. i \in 1..Len(row[f]) /\ r \in Token
    <3>1. i \in 1..Len(row[f])
      BY <1>1, <2>1 DEF Good
    <3>2. row[f][i] \in Token
      BY <2>1, <3>1 DEF Good
    <3> QED
      BY <3>1, <3>2 DEF Token
  <2>3. row'[f] = [row[f] EXCEPT ![i] = r]
    BY <1>1 DEF SInv
  <2>4. /\ row'[f] \in Seq(Token) /\ Len(row'[f]) = Len(row[f])
        /\ \A j \in 1..Len(row[f]) : row'[f][j] = IF j = i THEN r ELSE row[f][j]
    <3> HIDE DEF r
    <3> QED
      BY <2>1, <2>2, <2>3, Marked DEF Good
  <2>5. cookie[f] # 0 => cookie[f] # i /\ row[f][cookie[f]].used # "grace"
    BY <1>1, <2>1 DEF Good, CookieFresh
  <2>6. CookieFresh(f)'
    BY <1>1, <2>1, <2>4, <2>5 DEF Good, CookieFresh
  <2>7. \A t \in Tabs : tab'[f][t].pc = "idle"
    BY <1>1
  <2>8. cookie'[f] \in 0..Len(row'[f])
    BY <1>1, <2>1, <2>4 DEF Good
  <2> QED
    BY <2>4, <2>6, <2>7, <2>8 DEF Good
<1> QED
  BY <1>1, <1>2, OneFamily DEF SInv, Untouched

\* A logout ends the family, of which nothing is claimed any more.
LEMMA LogoutKeeps ==
    ASSUME SInv, NEW f \in Families, T!Logout(f) PROVE SInv'
<1>1. /\ row' = [row EXCEPT ![f] = T!RevokedRows(f)] /\ cookie' = [cookie EXCEPT ![f] = 0]
      /\ out' = out \union {f} /\ UNCHANGED <<losses, tab, locked>>
  BY DEF T!Logout, T!Revoke
<1>2. ~Kept(f)'
  BY <1>1 DEF Kept
<1> QED
  BY <1>1, <1>2, OneFamily DEF SInv, Untouched

\* A family whose tokens expired is gone, with the cookie and the tabs.
LEMMA CleanupKeeps ==
    ASSUME SInv, NEW f \in Families, T!Cleanup(f) PROVE SInv'
<1>1. /\ row' = [row EXCEPT ![f] = << >>] /\ cookie' = [cookie EXCEPT ![f] = 0]
      /\ \A t \in Tabs : tab[f][t].pc = "idle"
      /\ UNCHANGED <<losses, tab, locked, out>>
  BY DEF T!Cleanup
<1>2. row'[f] = << >> /\ cookie'[f] = 0
  BY <1>1 DEF SInv
<1>3. \A t \in Tabs : tab'[f][t].pc = "idle"
  BY <1>1
<1>4. row'[f] \in Seq(Token) /\ Len(row'[f]) = 0
  BY <1>2
<1>5. Good(f)'
  BY <1>2, <1>3, <1>4 DEF Good, CookieFresh
<1> QED
  BY <1>1, <1>5, OneFamily DEF SInv, Untouched

\* Whoever is locked out, or loses a key, has no family that goes on.
LEMMA OthersKeep ==
    ASSUME SInv, UNCHANGED <<losses, row, cookie, tab>>, out \subseteq out',
           \A f \in T!CacheKeys : UserOf[f] \in locked' => f \in out'
    PROVE  SInv'
<1>1. ASSUME NEW f \in Families, Kept(f)' PROVE Good(f)'
  BY <1>1, UntouchedGood DEF SInv, Kept, Untouched
<1> QED
  BY <1>1 DEF SInv

\* Every step of the tokens keeps the families good.
LEMMA SessionsStep == SInv /\ [T!Next]_(T!vars) => SInv'
<1> SUFFICES ASSUME SInv, [T!Next]_(T!vars) PROVE SInv'
  OBVIOUS
<1>1. CASE UNCHANGED T!vars
  BY <1>1, OthersKeep DEF T!vars, T!tokens, SInv
<1>2. ASSUME NEW f \in Families, T!Login(f) \/ T!Logout(f) \/ T!Cleanup(f) PROVE SInv'
  BY <1>2, LoginKeeps, LogoutKeeps, CleanupKeeps
<1>3. ASSUME NEW f \in Families, NEW t \in Tabs,
             T!Send(f, t) \/ T!Refuse(f, t) \/ T!Use(f, t) \/ T!Issue(f, t) \/ T!Answer(f, t)
      PROVE  SInv'
  BY <1>3, SendKeeps, RefuseKeeps, UseKeeps, IssueKeeps, AnswerKeeps
<1>4. ASSUME NEW f \in Families, NEW i \in 1..MaxTokens, T!GraceEnds(f, i) PROVE SInv'
  BY <1>4, GraceEndsKeeps
<1>5. ASSUME NEW f \in T!CacheKeys, T!Resolve(f) \/ T!Age(f) PROVE SInv'
  BY <1>5, OthersKeep DEF T!Resolve, T!Age, T!tokens, SInv
<1>6. ASSUME NEW k \in ApiKeys, T!RevokeKey(k) PROVE SInv'
  BY <1>6, OthersKeep DEF T!RevokeKey, SInv
<1>7. ASSUME NEW u \in T!Owners, T!Lock(u) PROVE SInv'
  BY <1>7, OthersKeep DEF T!Lock, SInv
<1> QED
  BY <1>1, <1>2, <1>3, <1>4, <1>5, <1>6, <1>7 DEF T!Next

\* The tabs of a browser that exchange one token at the same time, and get their answers,
\* never end their own session: rotate's REUSE_GRACE_MS keeps it from taking them for a
\* thief, however many they are and however often they ask.
THEOREM TabsNeverEndSession == T!Spec => []T!TabsKeepSession
<1>1. SInv => T!TabsKeepSession
  <2> SUFFICES ASSUME SInv, NEW f \in Families, Kept(f), cookie[f] # 0
               PROVE  ~row[f][cookie[f]].revoked
    BY DEF T!TabsKeepSession, Kept
  <2>1. row[f] \in Seq(Token) /\ cookie[f] \in 1..Len(row[f])
    BY DEF SInv, Good
  <2>2. row[f][cookie[f]] \in Token
    BY <2>1
  <2> QED
    BY <2>2 DEF Token
<1> QED
  BY SessionsInit, SessionsStep, <1>1, PTL DEF T!Spec

\* What the cache's index covers, with the types the step needs.
CInv ==
    /\ cache \subseteq T!CacheKeys
    /\ DOMAIN byUser = T!Owners
    /\ T!IndexCoversCache

\* A key's user is a user.
LEMMA KeysHaveUsers == \A f \in T!CacheKeys : UserOf[f] \in T!Owners
BY DEF T!Owners

\* Whatever is dropped from the cache, the index has lost no more than that.
LEMMA DropCovers ==
    ASSUME CInv, NEW keys, T!Drop(keys)
    PROVE  CInv'
<1>1. cache' = cache \ keys /\ byUser' = [u \in T!Owners |-> byUser[u] \ keys]
  BY DEF T!Drop, T!Unindexed
<1>2. ASSUME NEW f \in cache' PROVE f \in byUser'[UserOf[f]]
  BY <1>1, <1>2, KeysHaveUsers DEF CInv, T!IndexCoversCache
<1> QED
  BY <1>1, <1>2 DEF CInv, T!IndexCoversCache

\* Entries of the user that the index forgets are those that go.
LEMMA InvalidateCovers ==
    ASSUME CInv, NEW u \in T!Owners, T!InvalidateUser(u)
    PROVE  CInv'
<1>1. cache' = cache \ byUser[u] /\ byUser' = [byUser EXCEPT ![u] = {}]
  BY DEF T!InvalidateUser
<1>2. ASSUME NEW f \in cache' PROVE f \in byUser'[UserOf[f]]
  <2>1. f \in byUser[UserOf[f]] /\ UserOf[f] \in T!Owners /\ f \notin byUser[u]
    BY <1>1, <1>2, KeysHaveUsers DEF CInv, T!IndexCoversCache
  <2> QED
    BY <1>1, <2>1 DEF CInv
<1> QED
  BY <1>1, <1>2 DEF CInv, T!IndexCoversCache

\* Room is made before the user's keys are looked up: the new entry is in the index, and
\* those that stay still are.
LEMMA ResolveCovers ==
    ASSUME CInv, NEW f \in T!CacheKeys, T!Resolve(f)
    PROVE  CInv'
<1> DEFINE gone == T!Evicted
           rest == [u \in T!Owners |-> byUser[u] \ gone]
<1>1. /\ cache' = (cache \ (gone \union {f})) \union {f}
      /\ byUser' = [rest EXCEPT ![UserOf[f]] = rest[UserOf[f]] \union {f}]
  BY DEF T!Resolve, T!KeysAfterSet, T!Unindexed
<1> HIDE DEF gone
<1>2. UserOf[f] \in T!Owners
  BY KeysHaveUsers
<1>3. ASSUME NEW g \in cache' PROVE g \in byUser'[UserOf[g]]
  <2>1. CASE g = f
    BY <1>1, <1>2, <2>1
  <2>2. CASE g # f
    <3>1. g \in cache \ gone /\ UserOf[g] \in T!Owners
      BY <1>1, <1>3, <2>2, KeysHaveUsers DEF CInv
    <3>2. g \in byUser[UserOf[g]]
      BY <3>1 DEF CInv, T!IndexCoversCache
    <3> QED
      BY <1>1, <1>2, <3>1, <3>2
  <2> QED
    BY <2>1, <2>2
<1> QED
  BY <1>1, <1>3 DEF CInv, T!IndexCoversCache

\* Every step of the cache keeps its index: no entry is out of reach of an invalidation.
LEMMA CacheStep == CInv /\ [T!Next]_(T!vars) => CInv'
<1> SUFFICES ASSUME CInv, [T!Next]_(T!vars) PROVE CInv'
  OBVIOUS
<1> USE DEF T!entries
<1>1. CASE UNCHANGED <<cache, byUser>>
  BY <1>1 DEF CInv, T!IndexCoversCache
<1>2. ASSUME NEW f \in Families, T!Login(f) \/ T!Logout(f) \/ T!Cleanup(f) PROVE CInv'
  BY <1>1, <1>2, DropCovers DEF T!Login, T!Logout, T!Cleanup, T!Revoke
<1>3. ASSUME NEW f \in Families, NEW t \in Tabs,
             T!Send(f, t) \/ T!Refuse(f, t) \/ T!Use(f, t) \/ T!Issue(f, t) \/ T!Answer(f, t)
      PROVE  CInv'
  BY <1>1, <1>3, DropCovers DEF T!Send, T!Refuse, T!Use, T!Issue, T!Answer, T!Revoke
<1>4. ASSUME NEW f \in Families, NEW i \in 1..MaxTokens, T!GraceEnds(f, i) PROVE CInv'
  BY <1>1, <1>4 DEF T!GraceEnds
<1>5. ASSUME NEW f \in T!CacheKeys, T!Resolve(f) \/ T!Age(f) PROVE CInv'
  BY <1>1, <1>5, ResolveCovers DEF T!Age
<1>6. ASSUME NEW k \in ApiKeys, T!RevokeKey(k) PROVE CInv'
  <2>1. UserOf[k] \in T!Owners
    BY KeysHaveUsers DEF T!CacheKeys
  <2> QED
    BY <1>6, <2>1, InvalidateCovers DEF T!RevokeKey
<1>7. ASSUME NEW u \in T!Owners, T!Lock(u) PROVE CInv'
  BY <1>7, InvalidateCovers DEF T!Lock
<1>8. CASE UNCHANGED T!vars
  BY <1>1, <1>8 DEF T!vars
<1> QED
  BY <1>2, <1>3, <1>4, <1>5, <1>6, <1>7, <1>8 DEF T!Next

\* invalidateUser reaches every session and key of the user that is in the cache, however
\* entries came, were dropped and were evicted.
THEOREM IndexAlwaysCovers == T!Spec => []T!IndexCoversCache
<1>1. T!Init => CInv
  BY DEF T!Init, CInv, T!IndexCoversCache
<1>2. CInv => T!IndexCoversCache
  BY DEF CInv
<1> QED
  BY <1>1, CacheStep, <1>2, PTL DEF T!Spec

\* In the back office: no browser's tabs end their own session, and a change of rights
\* reaches every entry of the user in AuthCacheService.
THEOREM SessionsAlwaysKept == Spec => []SessionsKept
<1>1. T!TabsKeepSession /\ T!IndexCoversCache => SessionsKept
  BY DEF SessionsKept
<1> QED
  BY SessionsAsAlone, TabsNeverEndSession, IndexAlwaysCovers, <1>1, PTL

-----------------------------------------------------------------------------
(* Stocktakes (Stocktake).                                                 *)

\* The stocktakes fare in the back office as they do by themselves.
LEMMA StocktakesAsAlone == Spec => S!Spec
<1>1. Init => S!Init
  BY DEF Init
<1>2. [Next]_vars => [S!Next]_(S!vars)
  BY DEF Next, vars, sVars, S!vars
<1> QED
  BY <1>1, <1>2, PTL DEF Spec, S!Spec

CountedLine(s, v) == v \in DOMAIN sheet[s].items /\ sheet[s].items[v].counted # S!NotCounted

SheetFields == {"status", "items", "diff", "lines"}
CounterFields == {"pc", "op", "s", "counted", "work", "next", "diff", "lines"}

\* What is under way is about a sheet that is still open, and takes in counted lines of
\* it alone: nobody has ended or rewritten the sheet since the request read it.
Counting(q) ==
    /\ DOMAIN counter[q] = CounterFields
    /\ counter[q].s \in Sheets
    /\ sheet[counter[q].s].status = "checking"
    /\ \A v \in counter[q].next \union DOMAIN counter[q].work : CountedLine(counter[q].s, v)

\* One request at a time is under way, so none meets a sheet changed behind its back.
CountInv ==
    /\ sheet = [s \in Sheets |-> sheet[s]]
    /\ \A s \in Sheets : DOMAIN sheet[s] = SheetFields
    /\ counter = [q \in Reqs |-> counter[q]]
    /\ posted = [s \in Sheets |-> [v \in Shelved |-> posted[s][v]]]
    /\ counters = "none" =>
        /\ \A p, q \in Reqs : S!Active(p) /\ S!Active(q) => p = q
        /\ \A q \in Reqs : S!Active(q) => Counting(q)
        /\ \A s \in Sheets, v \in Shelved :
              posted[s][v] # 0 => sheet[s].status = "balanced" /\ CountedLine(s, v)

\* At the start no sheet is balanced and nothing was adjusted.
LEMMA CountInit == S!Init => CountInv
<1> SUFFICES ASSUME S!Init PROVE CountInv
  OBVIOUS
<1>1. \A q \in Reqs : ~S!Active(q)
  BY DEF S!Init, S!Active, S!NoReq
<1>2. \A s \in Sheets, v \in Shelved : posted[s][v] = 0
  BY DEF S!Init, S!NoAdjustment
<1>3. \A s \in Sheets : DOMAIN sheet[s] = SheetFields
  BY DEF S!Init, S!NoSheet, SheetFields
<1>4. posted = [s \in Sheets |-> [v \in Shelved |-> posted[s][v]]]
  BY DEF S!Init, S!NoAdjustment
<1>5. sheet = [s \in Sheets |-> sheet[s]] /\ counter = [q \in Reqs |-> counter[q]]
  BY DEF S!Init
<1> QED
  BY <1>1, <1>2, <1>3, <1>4, <1>5 DEF CountInv

\* A new sheet is nobody's yet.
LEMMA CreateKeeps == ASSUME CountInv, NEW s \in Sheets, S!Create(s) PROVE CountInv'
<1>1. PICK x : /\ DOMAIN x = SheetFields /\ x.status = "checking"
               /\ sheet' = [sheet EXCEPT ![s] = x]
  <2>1. PICK items : sheet' = [sheet EXCEPT ![s] = [S!NoSheet EXCEPT !.status = "checking",
                                                        !.items = items]]
    BY DEF S!Create
  <2> QED
    BY <2>1 DEF S!NoSheet, SheetFields
<1>2. sheet[s].status = "none" /\ UNCHANGED <<posted, counter, counters>>
  BY DEF S!Create
<1>3. \A t \in Sheets : sheet'[t] = IF t = s THEN x ELSE sheet[t]
  BY <1>1 DEF CountInv
<1>4. sheet' = [t \in Sheets |-> sheet'[t]] /\ \A t \in Sheets : DOMAIN sheet'[t] = SheetFields
  BY <1>1, <1>3 DEF CountInv
<1>5. \A q \in Reqs : S!Active(q)' <=> S!Active(q)
  BY <1>2 DEF S!Active
<1>6. ASSUME counters = "none", NEW q \in Reqs, S!Active(q) PROVE Counting(q)'
  <2>1. Counting(q) /\ counter[q].s # s
    BY <1>2, <1>6 DEF CountInv, Counting
  <2> QED
    BY <1>2, <1>3, <2>1 DEF Counting, CountedLine
<1>7. ASSUME counters = "none", NEW t \in Sheets, NEW v \in Shelved, posted[t][v] # 0
      PROVE  sheet'[t].status = "balanced" /\ CountedLine(t, v)'
  <2>1. t # s /\ sheet[t].status = "balanced" /\ CountedLine(t, v)
    BY <1>2, <1>7 DEF CountInv
  <2> QED
    BY <1>3, <2>1 DEF CountedLine
<1> QED
  BY <1>2, <1>4, <1>5, <1>6, <1>7 DEF CountInv

\* A request starts on an open sheet, and alone.
LEMMA ReadKeeps ==
    ASSUME CountInv, NEW q \in Reqs, NEW s \in Sheets, S!Read(q, s) PROVE CountInv'
<1> DEFINE lines == {v \in DOMAIN sheet[s].items : sheet[s].items[v].counted # S!NotCounted}
           At(op, counted, next) ==
              [pc |-> "read", op |-> op, s |-> s, counted |-> counted, work |-> << >>,
               next |-> next, diff |-> 0, lines |-> 0]
           Fits(r) == /\ DOMAIN r = CounterFields /\ r.s = s
                      /\ \A v \in r.next \union DOMAIN r.work : CountedLine(s, v)
<1>0. ASSUME NEW op, NEW counted, NEW next, next \subseteq lines
      PROVE  Fits(At(op, counted, next))
  BY <1>0 DEF CounterFields, CountedLine
<1>1. PICK r : counter' = [counter EXCEPT ![q] = r] /\ Fits(r)
  <2>1. CASE \E V \in SUBSET Shelved : \E counted \in [V -> S!Counts] :
               counter' = [counter EXCEPT ![q] = At("update", counted, {})]
    <3>1. PICK counted : counter' = [counter EXCEPT ![q] = At("update", counted, {})]
      BY <2>1
    <3>2. Fits(At("update", counted, {}))
      BY <1>0
    <3> HIDE DEF At, Fits
    <3> QED
      BY <3>1, <3>2
  <2>2. CASE counter' = [counter EXCEPT ![q] = At("cancel", << >>, {})]
    <3>1. Fits(At("cancel", << >>, {}))
      BY <1>0
    <3> HIDE DEF At, Fits
    <3> QED
      BY <2>2, <3>1
  <2>3. CASE counter' = [counter EXCEPT ![q] =
               At("balance", [v \in lines |-> sheet[s].items[v].counted], lines)]
    <3>1. Fits(At("balance", [v \in lines |-> sheet[s].items[v].counted], lines))
      BY <1>0
    <3> HIDE DEF At, Fits, lines
    <3> QED
      BY <2>3, <3>1
  <2> QED
    BY <2>1, <2>2, <2>3 DEF S!Read
<1>2. S!MayStart(q) /\ sheet[s].status = "checking" /\ UNCHANGED <<sheet, posted, counters>>
  BY DEF S!Read, S!Editable
<1>3. \A p \in Reqs : counter'[p] = IF p = q THEN r ELSE counter[p]
  BY <1>1 DEF CountInv
<1>4. counter' = [p \in Reqs |-> counter'[p]]
  BY <1>1 DEF CountInv
<1>5. ASSUME counters = "none", NEW p \in Reqs, S!Active(p)' PROVE p = q /\ Counting(p)'
  <2>1. p = q
    BY <1>2, <1>3, <1>5 DEF S!MayStart, S!Active
  <2> QED
    BY <1>1, <1>2, <1>3, <2>1 DEF Counting, CountedLine
<1> QED
  BY <1>2, <1>4, <1>5 DEF CountInv, CountedLine

\* A request that is through leaves the others' sheets as they are, and it had none.
LEMMA EndKeeps ==
    ASSUME CountInv, NEW q \in Reqs, S!Done(q), UNCHANGED counters,
           sheet' = [s \in Sheets |-> sheet'[s]],
           \A s \in Sheets : DOMAIN sheet'[s] = SheetFields,
           posted' = [s \in Sheets |-> [v \in Shelved |-> posted'[s][v]]],
           S!Active(q),
           counters = "none" => \A s \in Sheets, v \in Shelved :
              posted'[s][v] # 0 => sheet'[s].status = "balanced" /\ CountedLine(s, v)'
    PROVE  CountInv'
<1>1. counter' = [counter EXCEPT ![q] = [pc |-> "idle"]]
  BY DEF S!Done, S!NoReq
<1>2. \A p \in Reqs : counter'[p] = IF p = q THEN [pc |-> "idle"] ELSE counter[p]
  BY <1>1 DEF CountInv
<1>3. counter' = [p \in Reqs |-> counter'[p]]
  BY <1>1 DEF CountInv
<1>4. counters = "none" => \A p \in Reqs : ~S!Active(p)'
  BY <1>2 DEF CountInv, S!Active
<1> QED
  BY <1>3, <1>4 DEF CountInv

\* A sheet that is written again is not one that is being balanced (update).
LEMMA UpdateKeeps == ASSUME CountInv, NEW q \in Reqs, S!Update(q) PROVE CountInv'
<1> DEFINE s == counter[q].s
           x == [sheet[s] EXCEPT !.items = S!Items(@, counter[q].counted)]
<1>1. S!Active(q) /\ S!Done(q) /\ UNCHANGED <<posted, counters>>
  BY DEF S!Update, S!At, S!Active
<1>2. sheet' = [sheet EXCEPT ![s] = x]
  BY DEF S!Update
<1>3. \A t \in Sheets : sheet'[t] = IF t = s THEN x ELSE sheet[t]
  BY <1>2 DEF CountInv
<1>4. \A t \in Sheets : DOMAIN sheet'[t] = SheetFields
  BY <1>3 DEF CountInv
<1>5. ASSUME counters = "none", NEW t \in Sheets, NEW v \in Shelved, posted[t][v] # 0
      PROVE  sheet'[t].status = "balanced" /\ CountedLine(t, v)'
  <2>1. t # s /\ sheet[t].status = "balanced" /\ CountedLine(t, v)
    BY <1>1, <1>5 DEF CountInv, Counting
  <2> QED
    BY <1>3, <2>1 DEF CountedLine
<1>6. sheet' = [t \in Sheets |-> sheet'[t]]
  BY <1>2 DEF CountInv
<1>7. posted' = [t \in Sheets |-> [v \in Shelved |-> posted'[t][v]]]
  BY <1>1 DEF CountInv
<1> QED
  BY <1>1, <1>4, <1>5, <1>6, <1>7, EndKeeps

\* A cancelled sheet has adjusted nothing (cancel).
LEMMA CancelKeeps == ASSUME CountInv, NEW q \in Reqs, S!Cancel(q) PROVE CountInv'
<1> DEFINE s == counter[q].s
           x == [sheet[s] EXCEPT !.status = "cancelled"]
<1>1. S!Active(q) /\ S!Done(q) /\ UNCHANGED <<posted, counters>>
  BY DEF S!Cancel, S!At, S!Active
<1>2. sheet' = [sheet EXCEPT ![s] = x]
  BY DEF S!Cancel
<1>3. \A t \in Sheets : sheet'[t] = IF t = s THEN x ELSE sheet[t]
  BY <1>2 DEF CountInv
<1>4. \A t \in Sheets : DOMAIN sheet'[t] = SheetFields
  BY <1>3 DEF CountInv
<1>5. ASSUME counters = "none", NEW t \in Sheets, NEW v \in Shelved, posted[t][v] # 0
      PROVE  sheet'[t].status = "balanced" /\ CountedLine(t, v)'
  <2>1. t # s /\ sheet[t].status = "balanced" /\ CountedLine(t, v)
    BY <1>1, <1>5 DEF CountInv, Counting
  <2> QED
    BY <1>3, <2>1 DEF CountedLine
<1>6. sheet' = [t \in Sheets |-> sheet'[t]]
  BY <1>2 DEF CountInv
<1>7. posted' = [t \in Sheets |-> [v \in Shelved |-> posted'[t][v]]]
  BY <1>1 DEF CountInv
<1> QED
  BY <1>1, <1>4, <1>5, <1>6, <1>7, EndKeeps

\* The adjustments appear with the sheet's new status, on the lines it took in.
LEMMA BalancedKeeps == ASSUME CountInv, NEW q \in Reqs, S!Balanced(q) PROVE CountInv'
<1> DEFINE s == counter[q].s
           x == [sheet[s] EXCEPT !.status = "balanced", !.diff = counter[q].diff,
                                 !.lines = counter[q].lines]
<1>1. S!Active(q) /\ S!Done(q) /\ UNCHANGED counters
  BY DEF S!Balanced, S!At, S!Active
<1>2. sheet' = [sheet EXCEPT ![s] = x]
  BY DEF S!Balanced
<1>3. PICK f : /\ posted' = [posted EXCEPT ![s] = [v \in Shelved |-> f[v]]]
               /\ \A v \in Shelved \ DOMAIN counter[q].work : f[v] = posted[s][v]
  <2>1. posted' = [posted EXCEPT ![s] = [v \in Shelved |->
            IF v \in DOMAIN counter[q].work
            THEN posted[s][v] + counter[q].work[v]["on_hand"] - shelves[v]["on_hand"]
            ELSE posted[s][v]]]
    BY DEF S!Balanced, CountInv
  <2> QED
    BY <2>1
<1>4. \A t \in Sheets : sheet'[t] = IF t = s THEN x ELSE sheet[t]
  BY <1>2 DEF CountInv
<1>5. \A t \in Sheets : DOMAIN sheet'[t] = SheetFields
  BY <1>4 DEF CountInv
<1>6. posted' = [t \in Sheets |-> [v \in Shelved |-> posted'[t][v]]]
  BY <1>3 DEF CountInv
<1>7. ASSUME counters = "none", NEW t \in Sheets, NEW v \in Shelved, posted'[t][v] # 0
      PROVE  sheet'[t].status = "balanced" /\ CountedLine(t, v)'
  <2>1. Counting(q)
    BY <1>1, <1>7 DEF CountInv
  <2>2. CASE t = s
    <3>1. posted[s][v] = 0
      BY <1>7, <2>1, <2>2 DEF CountInv, Counting
    <3>2. posted'[s][v] = f[v]
      BY <1>3, <2>2 DEF CountInv
    <3>3. v \in DOMAIN counter[q].work
      BY <1>3, <1>7, <2>2, <3>1, <3>2
    <3>4. CountedLine(s, v)
      BY <2>1, <3>3 DEF Counting
    <3>5. x.status = "balanced" /\ x.items = sheet[s].items
      BY <2>2 DEF CountInv, SheetFields
    <3> QED
      BY <1>4, <2>2, <3>4, <3>5 DEF CountedLine
  <2>3. CASE t # s
    <3>1. posted'[t][v] = posted[t][v]
      BY <1>3, <2>3 DEF CountInv
    <3>2. sheet[t].status = "balanced" /\ CountedLine(t, v)
      BY <1>7, <3>1 DEF CountInv
    <3> QED
      BY <1>4, <2>3, <3>2 DEF CountedLine
  <2> QED
    BY <2>2, <2>3
<1>8. sheet' = [t \in Sheets |-> sheet'[t]]
  BY <1>2 DEF CountInv
<1> QED
  BY <1>1, <1>5, <1>6, <1>7, <1>8, EndKeeps

\* A request that goes on takes in no more than it had to.
LEMMA OnwardKeeps ==
    ASSUME CountInv, NEW q \in Reqs, S!Active(q), NEW r,
           counter' = [counter EXCEPT ![q] = r],
           DOMAIN counter[q] = CounterFields
             => /\ DOMAIN r = CounterFields /\ r.s = counter[q].s
                /\ r.next \union DOMAIN r.work
                      \subseteq counter[q].next \union DOMAIN counter[q].work,
           UNCHANGED <<sheet, posted, counters>>
    PROVE  CountInv'
<1>1. \A p \in Reqs : counter'[p] = IF p = q THEN r ELSE counter[p]
  BY DEF CountInv
<1>2. counter' = [p \in Reqs |-> counter'[p]]
  BY DEF CountInv
<1>3. ASSUME counters = "none", NEW p \in Reqs, S!Active(p)' PROVE p = q /\ Counting(p)'
  <2>1. p = q
    BY <1>1, <1>3 DEF CountInv, S!Active
  <2>2. Counting(q)
    BY <1>3 DEF CountInv
  <2> QED
    BY <1>1, <2>1, <2>2 DEF Counting, CountedLine
<1> QED
  BY <1>2, <1>3 DEF CountInv, CountedLine

\* Reading one row of the stock changes neither sheets nor stock.
LEMMA PeekKeeps ==
    ASSUME CountInv, NEW q \in Reqs, NEW v, S!Active(q), S!Peek(q, v) PROVE CountInv'
<1> DEFINE diff == counter[q].counted[v] - shelves[v]["on_hand"]
           sum == counter[q].diff + diff
           lines == IF diff = 0 THEN counter[q].lines ELSE counter[q].lines + 1
           r == [counter[q] EXCEPT !.pc = "adjust", !.diff = sum, !.lines = lines]
<1>1. counter' = [counter EXCEPT ![q] = r] /\ UNCHANGED <<sheet, posted, counters>>
  BY DEF S!Peek
<1> HIDE DEF sum, lines
<1>2. DOMAIN counter[q] = CounterFields
        => /\ DOMAIN r = CounterFields /\ r.s = counter[q].s
           /\ r.next = counter[q].next /\ r.work = counter[q].work
  BY DEF CounterFields
<1> HIDE DEF r
<1>3. DOMAIN counter[q] = CounterFields
        => /\ DOMAIN r = CounterFields /\ r.s = counter[q].s
           /\ r.next \union DOMAIN r.work
                 \subseteq counter[q].next \union DOMAIN counter[q].work
  BY <1>2
<1> QED
  BY <1>1, <1>3, OnwardKeeps

\* Adjusting one row adds one line of the sheet to what it has adjusted (balance).
LEMMA AdjustKeeps ==
    ASSUME CountInv, NEW q \in Reqs, NEW v \in S!Turn(q), S!Active(q), S!Adjust(q, v)
    PROVE  CountInv'
<1>1. v \in counter[q].next
  BY DEF S!Turn
<1> DEFINE w == [x \in DOMAIN counter[q].work \union {v} |->
                    IF x = v
                    THEN S!AfterLine(shelves[v], S!Adjustment(v, counter[q].counted[v]))
                    ELSE counter[q].work[x]]
<1>2. counter' = [counter EXCEPT ![q] =
            [counter[q] EXCEPT !.pc = "read", !.next = counter[q].next \ {v}, !.work = w]]
  BY DEF S!Adjust
<1>w. DOMAIN w = DOMAIN counter[q].work \union {v}
  OBVIOUS
<1> HIDE DEF w
<1> DEFINE r == [counter[q] EXCEPT !.pc = "read", !.next = counter[q].next \ {v}, !.work = w]
<1>3. DOMAIN counter[q] = CounterFields
        => /\ DOMAIN r = CounterFields /\ r.s = counter[q].s
           /\ r.next = counter[q].next \ {v} /\ r.work = w
  BY DEF CounterFields
<1>4. UNCHANGED <<sheet, posted, counters>>
  BY DEF S!Adjust
<1> HIDE DEF r
<1>5. counter' = [counter EXCEPT ![q] = r]
  BY <1>2 DEF r
<1>6. DOMAIN counter[q] = CounterFields
        => /\ DOMAIN r = CounterFields /\ r.s = counter[q].s
           /\ r.next \union DOMAIN r.work
                 \subseteq counter[q].next \union DOMAIN counter[q].work
  BY <1>1, <1>w, <1>3
<1> QED
  BY <1>4, <1>5, <1>6, OnwardKeeps

\* A balance that fails takes back all its lines with its transaction.
LEMMA FailKeeps == ASSUME CountInv, NEW q \in Reqs, S!Fail(q) PROVE CountInv'
<1>1. S!Active(q) /\ S!Done(q) /\ UNCHANGED <<sheet, posted, counters>>
  BY DEF S!Fail
<1> QED
  BY <1>1, EndKeeps DEF CountInv, CountedLine

\* Every step of stocktakes keeps the invariant.
LEMMA CountStep == CountInv /\ [S!Next]_(S!vars) => CountInv'
<1> SUFFICES ASSUME CountInv, [S!Next]_(S!vars) PROVE CountInv'
  OBVIOUS
<1>1. CASE \E s \in Sheets : S!Create(s)
  BY <1>1, CreateKeeps
<1>2. CASE \E q \in Reqs, s \in Sheets : S!Read(q, s)
  BY <1>2, ReadKeeps
<1>3. ASSUME NEW q \in Reqs,
             S!Update(q) \/ S!Cancel(q) \/ S!Balanced(q) \/ S!Fail(q)
      PROVE  CountInv'
  BY <1>3, UpdateKeeps, CancelKeeps, BalancedKeeps, FailKeeps
<1>4. ASSUME NEW q \in Reqs, S!Active(q), NEW v \in S!Turn(q), S!Peek(q, v) \/ S!Adjust(q, v)
      PROVE  CountInv'
  BY <1>4, PeekKeeps, AdjustKeeps
<1>5. CASE UNCHANGED <<sheet, posted, counter, counters>>
  BY <1>5 DEF CountInv, Counting, CountedLine, S!Active
<1>6. CASE \E v \in Shelved : S!Others(v)
  BY <1>5, <1>6 DEF S!Others
<1>7. CASE UNCHANGED S!vars
  BY <1>5, <1>7 DEF S!vars
<1> QED
  BY <1>1, <1>2, <1>3, <1>4, <1>6, <1>7 DEF S!Next

\* "Half a sheet balanced" never happens, one request at a time (StocktakeService.balance):
\* whatever is adjusted belongs to a balanced sheet and to a line of it that was counted.
THEOREM SheetAlwaysTellsTheStock == Spec => []SheetTellsTheStock
<1>1. CountInv => SheetTellsTheStock
  BY DEF CountInv, SheetTellsTheStock, S!SheetTellsTheStock, CountedLine
<1> QED
  BY <1>1, StocktakesAsAlone, CountInit, CountStep, PTL DEF S!Spec
-----------------------------------------------------------------------------
(* Codes of documents (DocumentCodes).                                     *)

\* The codes fare in the back office as they do by themselves.
LEMMA CodesAsAlone == Spec => N!Spec
<1>1. Init => N!Init
  BY DEF Init
<1>2. [Next]_vars => [N!Next]_(N!vars)
  BY DEF Next, vars, nVars, N!vars
<1> QED
  BY <1>1, <1>2, PTL DEF Spec, N!Spec

\* What is assumed of the kinds of documents.
LEMMA CodesAssumed == N!CodesAssumption
BY OperationsAssumption DEF OperationsAssumption

Digit == 0..Radix - 1

\* The bounds are numbers; there are two digits at least.
LEMMA RadixIs == Radix \in Nat /\ Radix >= 2 /\ Width \in Nat /\ Width >= 1 /\ MaxIds \in Nat
BY CodesAssumed DEF N!CodesAssumption

\* Products of the radix.
LEMMA TimesRadix ==
    ASSUME NEW x \in Nat, NEW y \in Nat
    PROVE  /\ Radix * x \in Nat /\ (x = 0 => Radix * x = 0)
           /\ x >= 1 => Radix * x >= Radix /\ Radix * x > x
           /\ x < y => Radix * x + Radix <= Radix * y
<1>1. Radix \in Nat /\ Radix >= 2
  BY RadixIs
<1>2. x >= 1 => Radix * x >= Radix /\ Radix * x > x
  <2>1. ASSUME NEW z \in Nat, x = z + 1 PROVE Radix * x >= Radix /\ Radix * x > x
    <3>1. Radix * x = Radix * z + Radix
      BY <1>1, <2>1
    <3>2. Radix * z >= z
      BY <1>1
    <3>3. PICK p \in Nat : p = Radix * z
      BY <1>1
    <3> QED
      BY <1>1, <2>1, <3>1, <3>2, <3>3
  <2>2. x >= 1 => x - 1 \in Nat /\ x = (x - 1) + 1
    OBVIOUS
  <2> QED
    BY <2>1, <2>2
<1>3. ASSUME x < y PROVE Radix * x + Radix <= Radix * y
  <2>1. PICK z \in Nat : y = x + 1 + z
    <3>1. y - x - 1 \in Nat /\ y = x + 1 + (y - x - 1)
      BY <1>3
    <3> QED
      BY <3>1
  <2>2. Radix * y = Radix * x + Radix + Radix * z
    BY <1>1, <2>1
  <2>3. Radix * z \in Nat /\ Radix * x \in Nat /\ Radix * y \in Nat
    BY <1>1
  <2>4. PICK p \in Nat, q \in Nat, s \in Nat : p = Radix * x /\ q = Radix * z /\ s = Radix * y
    BY <2>3
  <2>5. s = p + Radix + q
    BY <2>2, <2>4
  <2>6. p + Radix <= s
    BY <1>1, <2>5
  <2> QED
    BY <2>4, <2>6
<1> QED
  BY <1>1, <1>2, <1>3

\* A number is its last digit and what comes before it.
LEMMA LastDigit ==
    ASSUME NEW n \in Nat
    PROVE  /\ n \div Radix \in Nat /\ n % Radix \in Digit
           /\ n = Radix * (n \div Radix) + (n % Radix)
           /\ n < Radix => n \div Radix = 0 /\ n % Radix = n
           /\ n >= Radix => n \div Radix < n /\ n \div Radix >= 1
<1>1. Radix \in Nat /\ Radix >= 2
  BY RadixIs
<1>2. PICK q \in Int : q = n \div Radix
  BY <1>1
<1>3. PICK r \in Int : r = n % Radix
  BY <1>1
<1>4. n = Radix * q + r /\ 0 <= r /\ r < Radix
  BY <1>1, <1>2, <1>3
<1>5. q >= 0
  <2>1. ASSUME q <= -1 PROVE FALSE
    <3>1. Radix * q <= Radix * (-1)
      BY <1>1, <2>1
    <3> QED
      BY <1>1, <1>4, <3>1
  <2> QED
    BY <2>1
<1>6. PICK p \in Nat : p = Radix * q
  BY <1>5, TimesRadix
<1>7. /\ n = p + r /\ r \in Nat /\ r < Radix
      /\ q = 0 => p = 0
      /\ q >= 1 => p >= Radix /\ p > q
  <2>1. q \in Nat
    BY <1>5
  <2> QED
    BY <1>4, <1>6, <2>1, TimesRadix
<1>8. /\ n < Radix => q = 0 /\ r = n
      /\ n >= Radix => q < n /\ q >= 1
  BY <1>1, <1>5, <1>7
<1>9. q \in Nat /\ r \in Digit
  BY <1>1, <1>5, <1>7 DEF Digit
<1> QED
  BY <1>2, <1>3, <1>4, <1>8, <1>9

\* Numbers of more digits: the first ones decide, then the last.
LEMMA Carry ==
    ASSUME NEW x \in Nat, NEW y \in Nat, NEW a \in Digit, NEW b \in Digit
    PROVE  /\ Radix * x + a < Radix * y + b <=> x < y \/ (x = y /\ a < b)
           /\ Radix * x + a = Radix * y + b <=> x = y /\ a = b
<1>1. Radix \in Nat /\ a \in Nat /\ b \in Nat /\ a < Radix /\ b < Radix
  BY RadixIs DEF Digit
<1>2. PICK p \in Nat : p = Radix * x
  BY TimesRadix
<1>3. PICK q \in Nat : q = Radix * y
  BY TimesRadix
<1>4. x < y => p + Radix <= q
  BY <1>2, <1>3, TimesRadix
<1>5. y < x => q + Radix <= p
  BY <1>2, <1>3, TimesRadix
<1>6. x = y => p = q
  BY <1>2, <1>3
<1>7. /\ p + a < q + b <=> x < y \/ (x = y /\ a < b)
      /\ p + a = q + b <=> x = y /\ a = b
  BY <1>1, <1>4, <1>5, <1>6
<1> QED
  BY <1>2, <1>3, <1>7

-----------------------------------------------------------------------------
(* Texts of digits.                                                        *)

\* d gives the digits of the numbers up to n.
DigitsUpTo(d, n) ==
    d = [m \in 0..n |-> IF m < Radix THEN <<m>> ELSE Append(d[m \div Radix], m % Radix)]

\* There is such a function up to any number.
LEMMA DigitsExist == \A n \in Nat : \E d : DigitsUpTo(d, n)
<1> DEFINE Bad == {n \in Nat : ~ \E d : DigitsUpTo(d, n)}
<1>1. SUFFICES ASSUME Bad # {} PROVE FALSE
  OBVIOUS
<1>2. PICK n \in Bad : \A k \in Bad : n <= k
  BY <1>1, LeastNatural
<1>3. n \in Nat /\ Radix \in Nat /\ Radix >= 2
  BY RadixIs
<1>4. CASE n = 0
  <2> DEFINE d == [m \in 0..0 |-> <<m>>]
  <2>1. d = [m \in 0..n |-> IF m < Radix THEN <<m>> ELSE Append(d[m \div Radix], m % Radix)]
    BY <1>3, <1>4
  <2> QED
    BY <2>1 DEF DigitsUpTo
<1>5. CASE n # 0
  <2>1. n - 1 \in Nat /\ n - 1 \notin Bad
    BY <1>2, <1>3, <1>5
  <2>2. PICK g : DigitsUpTo(g, n - 1)
    BY <2>1
  <2> DEFINE last == IF n < Radix THEN <<n>> ELSE Append(g[n \div Radix], n % Radix)
             d == [m \in 0..n |-> IF m = n THEN last ELSE g[m]]
  <2>3. \A m \in 0..(n - 1) :
           g[m] = IF m < Radix THEN <<m>> ELSE Append(g[m \div Radix], m % Radix)
    BY <2>1, <2>2 DEF DigitsUpTo
  <2>4. \A m \in 0..n : m >= Radix => m \div Radix \in 0..(n - 1) /\ m \div Radix # n
    <3> TAKE m \in 0..n
    <3>1. m \in Nat
      OBVIOUS
    <3>2. PICK k \in Nat : k = m \div Radix
      BY <3>1, LastDigit
    <3>3. m >= Radix => k < m
      BY <3>1, <3>2, LastDigit
    <3> QED
      BY <1>3, <3>2, <3>3
  <2>5. ASSUME NEW m \in 0..n
        PROVE  d[m] = IF m < Radix THEN <<m>> ELSE Append(d[m \div Radix], m % Radix)
    <3>1. m >= Radix => d[m \div Radix] = g[m \div Radix]
      <4> HIDE DEF last
      <4>1. m >= Radix => m \div Radix \in 0..n /\ m \div Radix # n
        BY <1>3, <2>4
      <4> QED
        BY <4>1
    <3>2. m < Radix \/ m >= Radix
      BY <1>3
    <3>3. m # n => d[m] = g[m] /\ m \in 0..(n - 1)
      BY <1>3
    <3>4. m = n => d[m] = last
      OBVIOUS
    <3> HIDE DEF d
    <3> QED
      BY <1>3, <2>3, <3>1, <3>2, <3>3, <3>4
  <2>6. d = [m \in 0..n |-> d[m]]
    OBVIOUS
  <2> HIDE DEF d
  <2>7. d = [m \in 0..n |-> IF m < Radix THEN <<m>> ELSE Append(d[m \div Radix], m % Radix)]
    BY <2>5, <2>6
  <2> QED
    BY <1>2, <1>3, <2>7 DEF DigitsUpTo
<1> QED
  BY <1>4, <1>5

\* Two of them agree where both are defined.
LEMMA DigitsAgree ==
    ASSUME NEW n \in Nat, NEW k \in Nat, NEW d, NEW e, DigitsUpTo(d, n), DigitsUpTo(e, k)
    PROVE  \A m \in 0..n : m <= k => d[m] = e[m]
<1> DEFINE Bad == {m \in 0..n : m <= k /\ d[m] # e[m]}
<1>1. SUFFICES ASSUME Bad # {} PROVE FALSE
  OBVIOUS
<1>2. PICK m \in Bad : \A j \in Bad : m <= j
  <2>1. Bad \subseteq Nat
    OBVIOUS
  <2> HIDE DEF Bad
  <2> QED
    BY <1>1, <2>1, LeastNatural
<1>3. m \in Nat /\ m <= n /\ m <= k /\ d[m] # e[m] /\ Radix \in Nat /\ Radix >= 2
  BY <1>2, RadixIs
<1>4. /\ d[m] = IF m < Radix THEN <<m>> ELSE Append(d[m \div Radix], m % Radix)
      /\ e[m] = IF m < Radix THEN <<m>> ELSE Append(e[m \div Radix], m % Radix)
  <2>1. m \in 0..n /\ m \in 0..k
    BY <1>3
  <2> QED
    BY <2>1 DEF DigitsUpTo
<1>5. PICK q \in Nat : q = m \div Radix /\ (m >= Radix => q < m)
  BY <1>3, LastDigit
<1>6. m >= Radix => q \in 0..n /\ q <= k /\ ~ (m <= q)
  BY <1>3, <1>5
<1>7. m >= Radix => d[q] = e[q]
  BY <1>2, <1>6
<1> QED
  BY <1>3, <1>4, <1>5, <1>7

\* The digits of a number are those of what comes before its last digit, and that.
LEMMA DigitsUnfold ==
    ASSUME NEW n \in Nat
    PROVE  /\ n < Radix => N!Digits(n) = <<n>>
           /\ n >= Radix => N!Digits(n) = Append(N!Digits(n \div Radix), n % Radix)
<1> DEFINE Upto(k) == CHOOSE d : DigitsUpTo(d, k)
<1>1. \A k \in Nat : DigitsUpTo(Upto(k), k) /\ N!Digits(k) = Upto(k)[k]
  BY DigitsExist DEF N!Digits, DigitsUpTo
<1>2. PICK q \in Nat : q = n \div Radix /\ (n >= Radix => q < n)
  BY LastDigit
<1> HIDE DEF Upto
<1>3. Upto(n)[n] = IF n < Radix THEN <<n>> ELSE Append(Upto(n)[q], n % Radix)
  <2>1. n \in 0..n
    OBVIOUS
  <2> QED
    BY <1>1, <1>2, <2>1 DEF DigitsUpTo
<1>4. n >= Radix => Upto(n)[q] = Upto(q)[q]
  <2>1. q \in 0..q
    OBVIOUS
  <2> QED
    BY <1>1, <1>2, <2>1, DigitsAgree, RadixIs
<1>5. n < Radix \/ n >= Radix
  BY RadixIs
<1> QED
  <2>1. N!Digits(n) = Upto(n)[n] /\ N!Digits(q) = Upto(q)[q]
    BY <1>1
  <2>2. ~ (n < Radix /\ n >= Radix)
    BY RadixIs
  <2> QED
    BY <1>2, <1>3, <1>4, <1>5, <2>1, <2>2

\* v gives the values of the beginnings of s up to n digits.
ValuesUpTo(v, s, n) == v = [i \in 0..n |-> IF i = 0 THEN 0 ELSE Radix * v[i - 1] + s[i]]

\* There is such a function up to any length.
LEMMA ValuesExist == ASSUME NEW s PROVE \A n \in Nat : \E v : ValuesUpTo(v, s, n)
<1> DEFINE Bad == {n \in Nat : ~ \E v : ValuesUpTo(v, s, n)}
<1>1. SUFFICES ASSUME Bad # {} PROVE FALSE
  OBVIOUS
<1>2. PICK n \in Bad : \A k \in Bad : n <= k
  BY <1>1, LeastNatural
<1>3. CASE n = 0
  <2> DEFINE v == [i \in 0..0 |-> 0]
  <2>1. v = [i \in 0..n |-> IF i = 0 THEN 0 ELSE Radix * v[i - 1] + s[i]]
    BY <1>3
  <2> QED
    BY <2>1 DEF ValuesUpTo
<1>4. CASE n # 0
  <2>1. n \in Nat /\ n - 1 \in Nat /\ n - 1 \notin Bad
    BY <1>2, <1>4
  <2>2. PICK g : ValuesUpTo(g, s, n - 1)
    BY <2>1
  <2> DEFINE last == Radix * g[n - 1] + s[n]
             v == [i \in 0..n |-> IF i = n THEN last ELSE g[i]]
  <2>3. \A i \in 0..(n - 1) : g[i] = IF i = 0 THEN 0 ELSE Radix * g[i - 1] + s[i]
    BY <2>1, <2>2 DEF ValuesUpTo
  <2>4. ASSUME NEW i \in 0..n
        PROVE  v[i] = IF i = 0 THEN 0 ELSE Radix * v[i - 1] + s[i]
    <3>1. i # 0 => v[i - 1] = g[i - 1]
      <4> HIDE DEF last
      <4>1. i # 0 => i - 1 \in 0..n /\ i - 1 # n
        BY <2>1
      <4> QED
        BY <4>1
    <3>2. i # n => v[i] = g[i] /\ i \in 0..(n - 1)
      BY <2>1
    <3>3. i = n => v[i] = last /\ i # 0
      BY <1>4
    <3> HIDE DEF v
    <3> QED
      BY <2>3, <3>1, <3>2, <3>3
  <2>5. v = [i \in 0..n |-> v[i]]
    OBVIOUS
  <2> HIDE DEF v
  <2>6. v = [i \in 0..n |-> IF i = 0 THEN 0 ELSE Radix * v[i - 1] + s[i]]
    BY <2>4, <2>5
  <2> QED
    BY <1>2, <2>6 DEF ValuesUpTo
<1> QED
  BY <1>3, <1>4

\* Those of texts that begin alike agree so far.
LEMMA ValuesAgree ==
    ASSUME NEW n \in Nat, NEW k \in Nat, n <= k, NEW s, NEW t,
           \A i \in 1..n : s[i] = t[i],
           NEW v, NEW w, ValuesUpTo(v, s, n), ValuesUpTo(w, t, k)
    PROVE  \A i \in 0..n : v[i] = w[i]
<1> DEFINE Bad == {i \in 0..n : v[i] # w[i]}
<1>1. SUFFICES ASSUME Bad # {} PROVE FALSE
  OBVIOUS
<1>2. PICK i \in Bad : \A j \in Bad : i <= j
  <2>1. Bad \subseteq Nat
    OBVIOUS
  <2> HIDE DEF Bad
  <2> QED
    BY <1>1, <2>1, LeastNatural
<1>3. i \in 0..n /\ i \in 0..k /\ v[i] # w[i]
  BY <1>2
<1>4. /\ v[i] = IF i = 0 THEN 0 ELSE Radix * v[i - 1] + s[i]
      /\ w[i] = IF i = 0 THEN 0 ELSE Radix * w[i - 1] + t[i]
  BY <1>3 DEF ValuesUpTo
<1>5. i # 0 => i \in 1..n /\ i - 1 \in 0..n /\ ~ (i <= i - 1)
  BY <1>3
<1>6. i # 0 => v[i - 1] = w[i - 1] /\ s[i] = t[i]
  BY <1>2, <1>5
<1> QED
  BY <1>3, <1>4, <1>6

\* The value of a text is Radix times that of what comes before its last digit, and that.
LEMMA ValueUnfolds ==
    /\ \A s : Len(s) = 0 => N!Value(s) = 0
    /\ \A s, t : /\ Len(s) \in Nat /\ Len(t) = Len(s) + 1
                 /\ \A i \in 1..Len(s) : s[i] = t[i]
                 => N!Value(t) = Radix * N!Value(s) + t[Len(t)]
<1> DEFINE V(s) == CHOOSE v : ValuesUpTo(v, s, Len(s))
<1>1. ASSUME NEW s, Len(s) \in Nat PROVE ValuesUpTo(V(s), s, Len(s)) /\ N!Value(s) = V(s)[Len(s)]
  <2>1. ValuesUpTo(V(s), s, Len(s))
    BY <1>1, ValuesExist
  <2> QED
    BY <2>1 DEF N!Value, ValuesUpTo
<1> HIDE DEF V
<1>2. ASSUME NEW s, Len(s) = 0 PROVE N!Value(s) = 0
  BY <1>1, <1>2 DEF ValuesUpTo
<1>3. ASSUME NEW s, NEW t, Len(s) \in Nat, Len(t) = Len(s) + 1,
             \A i \in 1..Len(s) : s[i] = t[i]
      PROVE  N!Value(t) = Radix * N!Value(s) + t[Len(t)]
  <2>1. PICK n \in Nat : n = Len(s)
    BY <1>3
  <2>2. Len(t) = n + 1 /\ n + 1 \in Nat /\ n <= n + 1 /\ n \in 0..n
    BY <1>3, <2>1
  <2>3. ValuesUpTo(V(s), s, n) /\ ValuesUpTo(V(t), t, n + 1)
    BY <1>1, <2>1, <2>2
  <2>4. V(s)[n] = V(t)[n]
    <3>1. PICK v, w : v = V(s) /\ w = V(t)
      OBVIOUS
    <3>2. \A i \in 1..n : s[i] = t[i]
      BY <1>3, <2>1
    <3>3. ValuesUpTo(v, s, n) /\ ValuesUpTo(w, t, n + 1)
      BY <2>3, <3>1
    <3>4. PICK k \in Nat : k = n + 1
      BY <2>2
    <3>5. \A i \in 0..n : v[i] = w[i]
      BY <2>2, <3>2, <3>3, <3>4, ValuesAgree
    <3> QED
      BY <2>2, <3>1, <3>5
  <2>5. V(t)[n + 1] = Radix * V(t)[n] + t[n + 1]
    <3>1. n + 1 \in 0..(n + 1) /\ n + 1 # 0 /\ (n + 1) - 1 = n
      BY <2>1
    <3>2. V(t)[n + 1] = Radix * V(t)[(n + 1) - 1] + t[n + 1]
      BY <2>3, <3>1 DEF ValuesUpTo
    <3> QED
      BY <3>1, <3>2
  <2>6. N!Value(s) = V(s)[n]
    BY <1>1, <2>1
  <2>7. N!Value(t) = V(t)[n + 1]
    BY <1>1, <2>2
  <2> QED
    BY <2>1, <2>2, <2>4, <2>5, <2>6, <2>7
<1> QED
  BY <1>2, <1>3

Texts == Seq(Digit)

\* A text that is not empty is a shorter one and a last digit.
LEMMA LastOf ==
    ASSUME NEW t \in Texts, NEW n \in Nat, Len(t) = n + 1
    PROVE  \E s \in Texts : /\ Len(s) = n /\ t[n + 1] \in Digit
                            /\ \A i \in 1..n : s[i] = t[i]
                            /\ N!Value(t) = Radix * N!Value(s) + t[n + 1]
<1>1. t[n + 1] \in Digit /\ \A i \in 1..n : t[i] \in Digit
  BY DEF Texts
<1>2. PICK s \in Texts : Len(s) = n /\ \A i \in 1..n : s[i] = t[i]
  <2> DEFINE s == [i \in 1..n |-> t[i]]
  <2>1. s \in [1..n -> Digit]
    BY <1>1
  <2>2. s \in Seq(Digit) /\ Len(s) = n
    BY <2>1
  <2>3. \A i \in 1..n : s[i] = t[i]
    OBVIOUS
  <2> HIDE DEF s
  <2> QED
    BY <2>2, <2>3 DEF Texts
<1>3. N!Value(t) = Radix * N!Value(s) + t[n + 1]
  BY <1>2, ValueUnfolds
<1> QED
  BY <1>1, <1>2, <1>3

\* Values are numbers.
LEMMA ValueType == \A s \in Texts : N!Value(s) \in Nat
<1> DEFINE Bad == {n \in Nat : \E s \in Texts : Len(s) = n /\ N!Value(s) \notin Nat}
<1>1. SUFFICES ASSUME Bad # {} PROVE FALSE
  BY DEF Texts
<1>2. PICK n \in Bad : \A k \in Bad : n <= k
  BY <1>1, LeastNatural
<1>3. PICK t \in Texts : Len(t) = n /\ N!Value(t) \notin Nat
  BY <1>2
<1>4. n # 0
  BY <1>3, ValueUnfolds
<1>5. n - 1 \in Nat /\ n - 1 \notin Bad /\ n = (n - 1) + 1
  BY <1>2, <1>4
<1>6. PICK s \in Texts : /\ Len(s) = n - 1 /\ t[n] \in Digit
                         /\ N!Value(t) = Radix * N!Value(s) + t[n]
  BY <1>3, <1>5, LastOf
<1>7. N!Value(s) \in Nat /\ t[n] \in Nat
  BY <1>5, <1>6, RadixIs DEF Digit
<1>8. Radix * N!Value(s) \in Nat
  BY <1>7, TimesRadix
<1> QED
  BY <1>3, <1>6, <1>7, <1>8

\* Of two texts as long as each other the one of the smaller value is smaller where they
\* first differ; those of the same value are the same.
LEMMA ValueOrder ==
    \A n \in Nat : \A s, t \in Texts : Len(s) = n /\ Len(t) = n =>
        /\ N!Value(s) < N!Value(t) =>
              \E i \in 1..n : s[i] < t[i] /\ \A j \in 1..i - 1 : s[j] = t[j]
        /\ N!Value(s) = N!Value(t) => \A j \in 1..n : s[j] = t[j]
<1> DEFINE Ordered(n, s, t) ==
              /\ N!Value(s) < N!Value(t) =>
                    \E i \in 1..n : s[i] < t[i] /\ \A j \in 1..i - 1 : s[j] = t[j]
              /\ N!Value(s) = N!Value(t) => \A j \in 1..n : s[j] = t[j]
           Bad == {n \in Nat : \E s, t \in Texts : Len(s) = n /\ Len(t) = n /\ ~ Ordered(n, s, t)}
<1>1. SUFFICES ASSUME Bad # {} PROVE FALSE
  OBVIOUS
<1>2. PICK n \in Bad : \A k \in Bad : n <= k
  BY <1>1, LeastNatural
<1>3. PICK s \in Texts, t \in Texts : Len(s) = n /\ Len(t) = n /\ ~ Ordered(n, s, t)
  BY <1>2
<1>4. n # 0
  <2>1. n = 0 => N!Value(s) = 0 /\ N!Value(t) = 0 /\ 1..n = {}
    BY <1>3, ValueUnfolds
  <2> QED
    BY <1>3, <2>1
<1>5. n \in Nat /\ n - 1 \in Nat /\ n - 1 \notin Bad /\ n = (n - 1) + 1
  BY <1>2, <1>4
<1>6. PICK k \in Nat : k = n - 1
  BY <1>5
<1>7. PICK a \in Texts : /\ Len(a) = k /\ s[n] \in Digit /\ \A i \in 1..k : a[i] = s[i]
                         /\ N!Value(s) = Radix * N!Value(a) + s[n]
  BY <1>3, <1>5, <1>6, LastOf
<1>8. PICK b \in Texts : /\ Len(b) = k /\ t[n] \in Digit /\ \A i \in 1..k : b[i] = t[i]
                         /\ N!Value(t) = Radix * N!Value(b) + t[n]
  BY <1>3, <1>5, <1>6, LastOf
<1>9. Ordered(k, a, b)
  <2> HIDE DEF Ordered
  <2> QED
    BY <1>5, <1>6, <1>7, <1>8
<1>10. N!Value(a) \in Nat /\ N!Value(b) \in Nat
  BY ValueType
<1>11. ASSUME N!Value(s) < N!Value(t)
       PROVE  \E i \in 1..n : s[i] < t[i] /\ \A j \in 1..i - 1 : s[j] = t[j]
  <2>1. N!Value(a) < N!Value(b) \/ (N!Value(a) = N!Value(b) /\ s[n] < t[n])
    BY <1>7, <1>8, <1>10, <1>11, Carry
  <2>2. CASE N!Value(a) < N!Value(b)
    <3>1. PICK i \in 1..k : a[i] < b[i] /\ \A j \in 1..i - 1 : a[j] = b[j]
      BY <1>9, <2>2
    <3>2. i \in 1..n /\ \A j \in 1..i - 1 : j \in 1..k
      BY <1>5, <1>6
    <3> QED
      BY <1>7, <1>8, <3>1, <3>2
  <2>3. CASE N!Value(a) = N!Value(b) /\ s[n] < t[n]
    <3>1. \A j \in 1..k : a[j] = b[j]
      BY <1>9, <2>3
    <3>2. n \in 1..n /\ \A j \in 1..n - 1 : s[j] = t[j]
      BY <1>4, <1>5, <1>6, <1>7, <1>8, <3>1
    <3> QED
      BY <2>3, <3>2
  <2> QED
    BY <2>1, <2>2, <2>3
<1>12. ASSUME N!Value(s) = N!Value(t) PROVE \A j \in 1..n : s[j] = t[j]
  <2>1. N!Value(a) = N!Value(b) /\ s[n] = t[n]
    BY <1>7, <1>8, <1>10, <1>12, Carry
  <2>2. \A j \in 1..k : a[j] = b[j]
    BY <1>9, <2>1
  <2>3. \A j \in 1..n : j = n \/ j \in 1..k
    BY <1>5, <1>6
  <2> QED
    BY <1>7, <1>8, <2>1, <2>2, <2>3
<1> QED
  BY <1>3, <1>11, <1>12

-----------------------------------------------------------------------------
(* Padded numbers.                                                         *)

\* Zeros in front of a number.
Zeros(w) == [i \in 1..w |-> 0]
Padding(n) == Zeros(Width - Len(N!Digits(n)))
Padded(n) == Padding(n) \o N!Digits(n)

\* A number has digits.
LEMMA DigitsType ==
    \A n \in Nat : N!Digits(n) \in Texts /\ Len(N!Digits(n)) >= 1
<1> DEFINE Bad == {n \in Nat : ~ (N!Digits(n) \in Texts /\ Len(N!Digits(n)) >= 1)}
<1>1. SUFFICES ASSUME Bad # {} PROVE FALSE
  OBVIOUS
<1>2. PICK n \in Bad : \A k \in Bad : n <= k
  BY <1>1, LeastNatural
<1>3. PICK q \in Nat : q = n \div Radix /\ (n >= Radix => q < n)
  BY LastDigit
<1>4. n \in Nat /\ n % Radix \in Digit /\ (n < Radix => n \in Digit)
  BY LastDigit, RadixIs DEF Digit
<1>5. ~ (N!Digits(n) \in Texts /\ Len(N!Digits(n)) >= 1)
  BY <1>2
<1>6. CASE n < Radix
  <2>1. N!Digits(n) = <<n>>
    BY <1>6, DigitsUnfold
  <2>2. <<n>> \in Seq(Digit) /\ Len(<<n>>) = 1
    BY <1>4, <1>6
  <2> QED
    BY <1>5, <2>1, <2>2 DEF Texts
<1>7. CASE n >= Radix
  <2>1. N!Digits(n) = Append(N!Digits(q), n % Radix)
    BY <1>3, <1>7, DigitsUnfold
  <2>2. N!Digits(q) \in Seq(Digit) /\ Len(N!Digits(q)) >= 1
    <3>1. q \notin Bad
      BY <1>2, <1>3, <1>7
    <3> QED
      BY <3>1 DEF Texts
  <2>3. PICK d : d = N!Digits(q)
    OBVIOUS
  <2>4. PICK x \in Digit : x = n % Radix
    BY <1>4
  <2>5. Append(d, x) \in Seq(Digit) /\ Len(Append(d, x)) = Len(d) + 1 /\ Len(d) \in Nat
    BY <2>2, <2>3
  <2>6. Len(d) + 1 >= 1
    BY <2>5
  <2> QED
    BY <1>5, <2>1, <2>3, <2>4, <2>5, <2>6 DEF Texts
<1> QED
  BY <1>4, <1>6, <1>7, RadixIs

\* How many digits a number has.
DigitCount(n) == Len(N!Digits(n))

\* One more than what comes before the last digit.
LEMMA DigitsCounted ==
    ASSUME NEW n \in Nat
    PROVE  /\ DigitCount(n) \in Nat /\ DigitCount(n) >= 1
           /\ n < Radix => DigitCount(n) = 1
           /\ n >= Radix => DigitCount(n) = DigitCount(n \div Radix) + 1
<1>1. \A k \in Nat : DigitCount(k) \in Nat /\ DigitCount(k) >= 1
  <2> TAKE k \in Nat
  <2>1. PICK d : d = N!Digits(k)
    OBVIOUS
  <2>2. d \in Seq(Digit) /\ Len(d) >= 1
    BY <2>1, DigitsType DEF Texts
  <2> QED
    BY <2>1, <2>2 DEF DigitCount
<1>2. ASSUME n < Radix PROVE DigitCount(n) = 1
  <2>1. N!Digits(n) = <<n>>
    BY <1>2, DigitsUnfold
  <2> QED
    BY <2>1 DEF DigitCount
<1>3. ASSUME n >= Radix PROVE DigitCount(n) = DigitCount(n \div Radix) + 1
  <2>1. n \div Radix \in Nat /\ n % Radix \in Digit
    BY LastDigit
  <2>2. PICK d, x : d = N!Digits(n \div Radix) /\ x = n % Radix
    OBVIOUS
  <2>3. N!Digits(n) = Append(d, x)
    BY <1>3, <2>2, DigitsUnfold
  <2>4. d \in Seq(Digit) /\ x \in Digit
    BY <2>1, <2>2, DigitsType DEF Texts
  <2>5. Len(Append(d, x)) = Len(d) + 1
    BY <2>4
  <2> QED
    BY <2>2, <2>3, <2>5 DEF DigitCount
<1> QED
  BY <1>1, <1>2, <1>3

\* Of two numbers the greater has no fewer digits.
LEMMA DigitsGrow ==
    \A n \in Nat : \A m \in 0..n : DigitCount(m) <= DigitCount(n)
<1> DEFINE Bad == {n \in Nat : \E m \in 0..n : ~ (DigitCount(m) <= DigitCount(n))}
<1>1. SUFFICES ASSUME Bad # {} PROVE FALSE
  OBVIOUS
<1>2. PICK n \in Bad : \A k \in Bad : n <= k
  BY <1>1, LeastNatural
<1>3. PICK m \in 0..n : ~ (DigitCount(m) <= DigitCount(n))
  BY <1>2
<1>4. n \in Nat /\ m \in Nat /\ m <= n
  BY <1>2, <1>3
<1>5. /\ DigitCount(m) \in Nat /\ DigitCount(m) >= 1
      /\ DigitCount(n) \in Nat /\ DigitCount(n) >= 1
      /\ m < Radix => DigitCount(m) = 1
  BY <1>4, DigitsCounted
<1>6. m >= Radix /\ n >= Radix
  BY <1>3, <1>4, <1>5, RadixIs
<1>7. PICK a \in Nat, r \in Digit :
          a = m \div Radix /\ m = Radix * a + r
  <2>1. m \div Radix \in Nat /\ m % Radix \in Digit
        /\ m = Radix * (m \div Radix) + (m % Radix)
    BY <1>4, LastDigit
  <2> QED
    BY <2>1
<1>8. PICK b \in Nat, s \in Digit :
          b = n \div Radix /\ n = Radix * b + s /\ b < n
  <2>1. n \div Radix \in Nat /\ n % Radix \in Digit /\ n \div Radix < n
        /\ n = Radix * (n \div Radix) + (n % Radix)
    BY <1>4, <1>6, LastDigit
  <2> QED
    BY <2>1
<1>9. a <= b
  <2>1. b < a => n < m
    BY <1>7, <1>8, Carry
  <2> QED
    BY <1>4, <2>1
<1>10. DigitCount(a) <= DigitCount(b)
  <2>1. b \notin Bad /\ a \in 0..b
    BY <1>2, <1>4, <1>8, <1>9
  <2> QED
    BY <2>1
<1>11. DigitCount(m) = DigitCount(a) + 1 /\ DigitCount(n) = DigitCount(b) + 1
  BY <1>4, <1>6, <1>7, <1>8, DigitsCounted
<1>12. DigitCount(a) \in Nat /\ DigitCount(b) \in Nat
  BY DigitsCounted
<1> QED
  BY <1>3, <1>10, <1>11, <1>12

\* So many zeros are worth nothing.
LEMMA ZerosAreNothing == \A w \in Nat : Zeros(w) \in Texts /\ Len(Zeros(w)) = w /\ N!Value(Zeros(w)) = 0
<1>1. ASSUME NEW w \in Nat
      PROVE  Zeros(w) \in Texts /\ Len(Zeros(w)) = w /\ \A i \in 1..w : Zeros(w)[i] = 0
  <2>1. Zeros(w) \in [1..w -> Digit]
    BY RadixIs DEF Zeros, Digit
  <2>2. Zeros(w) \in Seq(Digit) /\ Len(Zeros(w)) = w
    BY <2>1
  <2>3. \A i \in 1..w : Zeros(w)[i] = 0
    BY DEF Zeros
  <2> QED
    BY <2>2, <2>3 DEF Texts
<1> DEFINE Bad == {w \in Nat : N!Value(Zeros(w)) # 0}
<1>2. SUFFICES ASSUME Bad # {} PROVE FALSE
  BY <1>1
<1>3. PICK w \in Bad : \A k \in Bad : w <= k
  BY <1>2, LeastNatural
<1>4. w # 0
  <2>1. Len(Zeros(0)) = 0
    BY <1>1
  <2>2. N!Value(Zeros(0)) = 0
    BY <2>1, ValueUnfolds
  <2> QED
    BY <1>3, <2>2
<1>5. w \in Nat /\ w - 1 \in Nat /\ w - 1 \notin Bad
  BY <1>3, <1>4
<1>6. PICK k \in Nat : k = w - 1 /\ w = k + 1
  BY <1>5
<1>7. N!Value(Zeros(k)) = 0
  BY <1>5, <1>6
<1>8. PICK s, t : s = Zeros(k) /\ t = Zeros(w)
  OBVIOUS
<1>9. /\ Len(s) = k /\ Len(t) = k + 1 /\ t[k + 1] = 0
      /\ \A i \in 1..k : s[i] = t[i]
  <2>1. \A i \in 1..k : i \in 1..w /\ s[i] = 0
    BY <1>1, <1>6, <1>8
  <2>2. \A i \in 1..w : t[i] = 0
    BY <1>1, <1>5, <1>8
  <2>3. Len(s) = k /\ Len(t) = w /\ k + 1 \in 1..w
    BY <1>1, <1>5, <1>6, <1>8
  <2> QED
    BY <1>6, <2>1, <2>2, <2>3
<1>10. N!Value(t) = Radix * N!Value(s) + 0
  BY <1>9, ValueUnfolds
<1>11. Radix * N!Value(s) = 0
  BY <1>7, <1>8, RadixIs
<1> QED
  BY <1>3, <1>8, <1>10, <1>11

\* A last digit behind two texts put together.
LEMMA AppendBehind ==
    ASSUME NEW z \in Texts, NEW d \in Texts, NEW x \in Digit
    PROVE  N!Value(z \o Append(d, x)) = Radix * N!Value(z \o d) + x
<1>1. z \in Seq(Digit) /\ d \in Seq(Digit)
  BY DEF Texts
<1>2. PICK e : e = Append(d, x)
  OBVIOUS
<1>3. /\ e \in Seq(Digit) /\ Len(e) = Len(d) + 1 /\ e[Len(d) + 1] = x
      /\ \A i \in 1..Len(d) : e[i] = d[i]
  BY <1>1, <1>2, AppendProperties
<1>4. PICK s, t : s = z \o d /\ t = z \o e
  OBVIOUS
<1>5. /\ Len(s) = Len(z) + Len(d) /\ Len(t) = Len(z) + Len(e)
      /\ \A i \in 1..Len(z) + Len(d) : s[i] = IF i <= Len(z) THEN z[i] ELSE d[i - Len(z)]
      /\ \A i \in 1..Len(z) + Len(e) : t[i] = IF i <= Len(z) THEN z[i] ELSE e[i - Len(z)]
  BY <1>1, <1>3, <1>4, ConcatProperties
<1>6. Len(z) \in Nat /\ Len(d) \in Nat
  BY <1>1, LenProperties
<1>7. Len(s) \in Nat /\ Len(t) = Len(s) + 1
  BY <1>3, <1>5, <1>6
<1>8. \A i \in 1..Len(s) : s[i] = t[i]
  <2> TAKE i \in 1..Len(s)
  <2>1. i \in 1..Len(z) + Len(d) /\ i \in 1..Len(z) + Len(e)
    BY <1>3, <1>5, <1>6
  <2>2. i <= Len(z) => s[i] = z[i] /\ t[i] = z[i]
    BY <1>5, <2>1
  <2>3. ~ (i <= Len(z)) => /\ i - Len(z) \in 1..Len(d)
                          /\ s[i] = d[i - Len(z)] /\ t[i] = e[i - Len(z)]
    BY <1>5, <1>6, <2>1
  <2> QED
    BY <1>3, <2>2, <2>3
<1>9. t[Len(t)] = x
  <2>1. Len(t) \in 1..Len(z) + Len(e) /\ ~ (Len(t) <= Len(z)) /\ Len(t) - Len(z) = Len(d) + 1
    BY <1>3, <1>5, <1>6
  <2> QED
    BY <1>3, <1>5, <2>1
<1>10. N!Value(t) = Radix * N!Value(s) + t[Len(t)]
  BY <1>7, <1>8, ValueUnfolds
<1> QED
  BY <1>2, <1>4, <1>9, <1>10

\* A number is the value of its digits, whatever zeros stand before them.
LEMMA ValueOfDigits ==
    ASSUME NEW z \in Texts, N!Value(z) = 0
    PROVE  \A n \in Nat : N!Value(z \o N!Digits(n)) = n
<1> DEFINE Bad == {n \in Nat : N!Value(z \o N!Digits(n)) # n}
<1>1. SUFFICES ASSUME Bad # {} PROVE FALSE
  OBVIOUS
<1>2. PICK n \in Bad : \A k \in Bad : n <= k
  BY <1>1, LeastNatural
<1>3. n \in Nat /\ N!Value(z \o N!Digits(n)) # n
  BY <1>2
<1>4. PICK q \in Nat, x \in Digit :
          /\ q = n \div Radix /\ x = n % Radix /\ n = Radix * q + x
          /\ n >= Radix => q < n
          /\ n < Radix => n = x
  <2>1. /\ n \div Radix \in Nat /\ n % Radix \in Digit
        /\ n = Radix * (n \div Radix) + (n % Radix)
        /\ n >= Radix => n \div Radix < n
        /\ n < Radix => n = n % Radix
    BY <1>3, LastDigit
  <2> QED
    BY <2>1
<1>5. CASE n < Radix
  <2>1. N!Digits(n) = <<x>>
    BY <1>3, <1>4, <1>5, DigitsUnfold
  <2>2. << >> \in Texts /\ Append(<< >>, x) = <<x>>
    BY DEF Texts
  <2>3. z \o << >> = z
    BY ConcatEmptySeq DEF Texts
  <2>4. N!Value(z \o <<x>>) = Radix * N!Value(z \o << >>) + x
    BY <2>2, AppendBehind
  <2>5. Radix * 0 + x = x
    BY RadixIs DEF Digit
  <2> QED
    BY <1>3, <1>4, <1>5, <2>1, <2>3, <2>4, <2>5
<1>6. CASE n >= Radix
  <2>1. PICK d : d = N!Digits(q)
    OBVIOUS
  <2>2. N!Digits(n) = Append(d, x)
    BY <1>3, <1>4, <1>6, <2>1, DigitsUnfold
  <2>3. d \in Texts
    BY <2>1, DigitsType
  <2>4. N!Value(z \o Append(d, x)) = Radix * N!Value(z \o d) + x
    BY <2>3, AppendBehind
  <2>5. N!Value(z \o d) = q
    <3>1. q \notin Bad
      BY <1>2, <1>3, <1>4, <1>6
    <3> QED
      BY <2>1, <3>1
  <2> QED
    BY <1>3, <1>4, <2>2, <2>4, <2>5
<1> QED
  BY <1>3, <1>5, <1>6, RadixIs

\* A padded number is a text of that value, of as many digits as the number or the width.
LEMMA PaddedIs ==
    ASSUME NEW n \in Nat
    PROVE  /\ Padded(n) \in Texts /\ N!Value(Padded(n)) = n
           /\ Len(Padded(n)) = IF DigitCount(n) < Width THEN Width ELSE DigitCount(n)
<1>1. PICK d \in Texts : d = N!Digits(n) /\ Len(d) \in Nat /\ Len(d) = DigitCount(n)
  BY DigitsType, DigitsCounted DEF DigitCount
<1>2. PICK z : z = Padding(n)
  OBVIOUS
<1>3. /\ z \in Texts /\ N!Value(z) = 0
      /\ Len(z) = IF DigitCount(n) < Width THEN Width - DigitCount(n) ELSE 0
  <2>1. Padding(n) = Zeros(Width - DigitCount(n))
    BY <1>1 DEF Padding
  <2>2. CASE DigitCount(n) <= Width
    <3>1. PICK w \in Nat : w = Width - DigitCount(n)
      BY <1>1, <2>2, RadixIs
    <3>2. Zeros(w) \in Texts /\ Len(Zeros(w)) = w /\ N!Value(Zeros(w)) = 0
      BY ZerosAreNothing
    <3>3. z = Zeros(w)
      BY <1>2, <2>1, <3>1
    <3> QED
      BY <1>1, <2>2, <3>1, <3>2, <3>3, RadixIs
  <2>3. CASE ~ (DigitCount(n) <= Width)
    <3>1. 1..Width - DigitCount(n) = {} /\ 1..0 = {}
      BY <1>1, <2>3, RadixIs
    <3>2. Zeros(Width - DigitCount(n)) = Zeros(0)
      BY <3>1 DEF Zeros
    <3>3. Zeros(0) \in Texts /\ Len(Zeros(0)) = 0 /\ N!Value(Zeros(0)) = 0
      BY ZerosAreNothing
    <3>4. z = Zeros(0)
      BY <1>2, <2>1, <3>2
    <3> QED
      BY <1>1, <2>3, <3>3, <3>4, RadixIs
  <2> QED
    BY <2>2, <2>3
<1>4. Padded(n) = z \o d
  BY <1>1, <1>2 DEF Padded
<1>5. N!Value(z \o d) = n
  BY <1>1, <1>3, ValueOfDigits
<1>6. z \o d \in Seq(Digit) /\ Len(z \o d) = Len(z) + Len(d)
  BY <1>1, <1>3, ConcatProperties DEF Texts
<1> QED
  BY <1>1, <1>3, <1>4, <1>5, <1>6, RadixIs DEF Texts

\* c is smaller than d where they first differ.
FirstBelow(c, d) ==
    \E i \in 1..Len(c) : i <= Len(d) /\ c[i] < d[i] /\ \A j \in 1..i - 1 : c[j] = d[j]

\* A text begins another when its digits are the first of the other.
LEMMA Begins ==
    ASSUME NEW s \in Texts, NEW t \in Texts
    PROVE  N!IsPrefix(s, t) <=> Len(s) <= Len(t) /\ \A i \in 1..Len(s) : s[i] = t[i]
<1>1. s \in Seq(Digit) /\ t \in Seq(Digit) /\ Len(s) \in Nat /\ Len(t) \in Nat
  BY LenProperties DEF Texts
<1>2. SubSeq(s, 1, Len(s)) = s
  BY <1>1, SubSeqFull
<1>3. ASSUME Len(s) <= Len(t)
      PROVE  /\ SubSeq(t, 1, Len(s)) \in Seq(Digit) /\ Len(SubSeq(t, 1, Len(s))) = Len(s)
             /\ \A i \in 1..Len(s) : SubSeq(t, 1, Len(s))[i] = t[i]
  <2>1. PICK n \in Nat : n = Len(s)
    BY <1>1
  <2>2. \A i \in 1..n : t[i] \in Digit
    BY <1>1, <1>3, <2>1
  <2>3. /\ SubSeq(t, 1, n) \in Seq(Digit)
        /\ Len(SubSeq(t, 1, n)) = IF 1 <= n THEN n - 1 + 1 ELSE 0
        /\ \A i \in 1..n - 1 + 1 : SubSeq(t, 1, n)[i] = t[1 + i - 1]
    BY <2>2, SubSeqProperties
  <2>4. \A i \in 1..n : i \in 1..n - 1 + 1 /\ 1 + i - 1 = i
    OBVIOUS
  <2> QED
    BY <2>1, <2>3, <2>4
<1>4. ASSUME Len(s) <= Len(t)
      PROVE  s = SubSeq(t, 1, Len(s)) <=> \A i \in 1..Len(s) : s[i] = t[i]
  <2>1. PICK u : u = SubSeq(t, 1, Len(s))
    OBVIOUS
  <2>2. u \in Seq(Digit) /\ Len(u) = Len(s) /\ \A i \in 1..Len(s) : u[i] = t[i]
    BY <1>3, <1>4, <2>1
  <2>3. (\A i \in 1..Len(s) : s[i] = u[i]) => s = u
    BY <1>1, <2>2, SeqEqual
  <2> QED
    BY <2>1, <2>2, <2>3
<1> QED
  BY <1>2, <1>4 DEF N!IsPrefix

\* Of two texts as long as each other the smaller is so where they first differ.
LEMMA SameLength ==
    ASSUME NEW s \in Texts, NEW t \in Texts, Len(s) = Len(t)
    PROVE  N!TextBelow(s, t) <=> FirstBelow(s, t)
<1>1. ~ (s # t /\ N!IsPrefix(s, t))
  BY Begins, SeqEqual DEF Texts
<1> QED
  BY <1>1 DEF N!TextBelow, FirstBelow

\* Neither of two texts is below the other where they first differ, if that is below it.
LEMMA FirstBelowOneWay ==
    ASSUME NEW s \in Texts, NEW t \in Texts
    PROVE  ~ (FirstBelow(s, t) /\ FirstBelow(t, s))
<1> SUFFICES ASSUME FirstBelow(s, t), FirstBelow(t, s) PROVE FALSE
  OBVIOUS
<1>1. PICK i \in 1..Len(s) : i <= Len(t) /\ s[i] < t[i] /\ \A j \in 1..i - 1 : s[j] = t[j]
  BY DEF FirstBelow
<1>2. PICK k \in 1..Len(t) : k <= Len(s) /\ t[k] < s[k] /\ \A j \in 1..k - 1 : t[j] = s[j]
  BY DEF FirstBelow
<1>3. Len(s) \in Nat /\ Len(t) \in Nat /\ i \in Nat /\ k \in Nat
  BY LenProperties DEF Texts
<1>4. /\ s[i] \in Nat /\ t[i] \in Nat /\ s[k] \in Nat /\ t[k] \in Nat
  <2>1. i \in 1..Len(t) /\ k \in 1..Len(s)
    BY <1>1, <1>2, <1>3
  <2>2. s[i] \in Digit /\ t[i] \in Digit /\ s[k] \in Digit /\ t[k] \in Digit
    BY <2>1, ElementOfSeq DEF Texts
  <2> QED
    BY <2>2, RadixIs DEF Digit
<1>5. ~ (i < k)
  <2>1. i < k => i \in 1..k - 1
    BY <1>3
  <2> QED
    BY <1>1, <1>2, <1>4, <2>1
<1>6. ~ (k < i)
  <2>1. k < i => k \in 1..i - 1
    BY <1>3
  <2> QED
    BY <1>1, <1>2, <1>4, <2>1
<1>7. i = k
  BY <1>3, <1>5, <1>6
<1> QED
  BY <1>1, <1>2, <1>4, <1>7

\* Nor of codes.
LEMMA CodeBelowOneWay ==
    ASSUME NEW s \in Texts, NEW t \in Texts, N!CodeBelow(s, t)
    PROVE  ~ N!CodeBelow(t, s) /\ s # t
<1>1. Len(s) \in Nat /\ Len(t) \in Nat
  BY LenProperties DEF Texts
<1>2. CASE Len(s) < Len(t)
  <2>1. ~ (Len(t) < Len(s)) /\ Len(s) # Len(t)
    BY <1>1, <1>2
  <2> QED
    BY <2>1 DEF N!CodeBelow
<1>3. CASE ~ (Len(s) < Len(t))
  <2>1. Len(s) = Len(t) /\ N!TextBelow(s, t)
    BY <1>3 DEF N!CodeBelow
  <2>2. FirstBelow(s, t)
    BY <2>1, SameLength
  <2>3. ~ FirstBelow(t, s) /\ s # t
    BY <2>2, FirstBelowOneWay
  <2>4. ~ N!TextBelow(t, s)
    BY <2>1, <2>3, SameLength
  <2> QED
    BY <1>1, <2>1, <2>3, <2>4 DEF N!CodeBelow
<1> QED
  BY <1>2, <1>3

-----------------------------------------------------------------------------
(* Prefixes and numbers.                                                   *)

\* The text of a number under a prefix.
TextOf(p, n) == p \o Padded(n)

\* It is the model's.
LEMMA TextIs ==
    ASSUME NEW k, k.prefix \in Texts, NEW n \in Nat
    PROVE  N!Text(k, n) = TextOf(k.prefix, n)
<1>1. N!Digits(n) \in Seq(Digit) /\ k.prefix \in Seq(Digit)
  BY DigitsType DEF Texts
<1>2. Padding(n) \in Seq(Digit)
  <2>1. \A i \in 1..Width - Len(N!Digits(n)) : 0 \in Digit
    BY RadixIs DEF Digit
  <2>2. PICK w \in Nat : 1..w = 1..Width - Len(N!Digits(n))
    <3>1. PICK d \in Nat : d = Len(N!Digits(n))
      BY DigitsCounted DEF DigitCount
    <3>2. CASE Width >= d
      <4>1. Width - d \in Nat
        BY <3>2, RadixIs
      <4> QED
        BY <3>1, <4>1
    <3>3. CASE ~ (Width >= d)
      <4>1. 1..Width - d = 1..0
        BY <3>3, RadixIs
      <4> QED
        BY <3>1, <4>1
    <3> QED
      BY <3>2, <3>3
  <2>3. Padding(n) = Zeros(w)
    BY <2>2 DEF Padding, Zeros
  <2> QED
    BY <2>3, ZerosAreNothing DEF Texts
<1>3. PICK d, z, p : d = N!Digits(n) /\ z = Padding(n) /\ p = k.prefix
  OBVIOUS
<1>4. p \o (z \o d) = (p \o z) \o d
  <2>1. d \in Seq(Digit) /\ z \in Seq(Digit) /\ p \in Seq(Digit)
    BY <1>1, <1>2, <1>3
  <2> QED
    BY <2>1, ConcatAssociative
<1>5. N!Text(k, n) = (k.prefix \o z) \o d
  BY <1>3 DEF N!Text, Padding, Zeros
<1> QED
  BY <1>3, <1>4, <1>5 DEF TextOf, Padded

\* It is as long as the prefix and the padded number, which stand in it one behind the other.
LEMMA TextDigits ==
    ASSUME NEW p \in Texts, NEW n \in Nat
    PROVE  /\ TextOf(p, n) \in Texts
           /\ Len(p) \in Nat /\ Len(Padded(n)) \in Nat /\ Len(Padded(n)) >= Width
           /\ Len(TextOf(p, n)) = Len(p) + Len(Padded(n))
           /\ \A i \in 1..Len(p) : TextOf(p, n)[i] = p[i]
           /\ \A i \in 1..Len(Padded(n)) : TextOf(p, n)[Len(p) + i] = Padded(n)[i]
<1>1. p \in Seq(Digit) /\ Padded(n) \in Seq(Digit)
  BY PaddedIs DEF Texts
<1>2. PICK t, u : t = Padded(n) /\ u = p \o t
  OBVIOUS
<1>3. /\ u \in Seq(Digit) /\ Len(u) = Len(p) + Len(t)
      /\ \A i \in 1..Len(p) + Len(t) : u[i] = IF i <= Len(p) THEN p[i] ELSE t[i - Len(p)]
  BY <1>1, <1>2, ConcatProperties
<1>4. Len(p) \in Nat /\ Len(t) \in Nat
  BY <1>1, <1>2, LenProperties
<1>5. Len(t) >= Width
  <2>1. PICK c \in Nat : c = DigitCount(n)
    BY DigitsCounted
  <2>2. Len(t) = IF c < Width THEN Width ELSE c
    BY <1>2, <2>1, PaddedIs
  <2> QED
    BY <2>2, RadixIs
<1>6. \A i \in 1..Len(p) : u[i] = p[i]
  <2> TAKE i \in 1..Len(p)
  <2>1. i \in 1..Len(p) + Len(t) /\ i <= Len(p)
    BY <1>4
  <2> QED
    BY <1>3, <2>1
<1>7. \A i \in 1..Len(t) : u[Len(p) + i] = t[i]
  <2> TAKE i \in 1..Len(t)
  <2>1. Len(p) + i \in 1..Len(p) + Len(t) /\ ~ (Len(p) + i <= Len(p)) /\ (Len(p) + i) - Len(p) = i
    BY <1>4
  <2> QED
    BY <1>3, <2>1
<1> QED
  BY <1>2, <1>3, <1>4, <1>5, <1>6, <1>7 DEF TextOf, Texts

\* The number can be read from it.
LEMMA NumberRead ==
    ASSUME NEW k, k.prefix \in Texts, NEW n \in Nat
    PROVE  N!NumberIn(k, TextOf(k.prefix, n)) = n
<1>1. PICK p \in Texts : p = k.prefix
  OBVIOUS
<1>2. PICK t, u : t = Padded(n) /\ u = TextOf(p, n)
  OBVIOUS
<1>3. /\ u \in Seq(Digit) /\ t \in Seq(Digit) /\ Len(p) \in Nat /\ Len(t) \in Nat
      /\ Len(u) = Len(p) + Len(t)
      /\ \A i \in 1..Len(t) : u[Len(p) + i] = t[i]
  BY <1>2, TextDigits, PaddedIs DEF Texts
<1>4. PICK a \in Int, b \in Int : a = Len(p) + 1 /\ b = Len(u)
  BY <1>3
<1>5. PICK v : v = SubSeq(u, a, b)
  OBVIOUS
<1>6. /\ v \in Seq(Digit) /\ Len(v) = IF a <= b THEN b - a + 1 ELSE 0
      /\ \A i \in 1..b - a + 1 : v[i] = u[a + i - 1]
  <2>1. \A i \in a..b : u[i] \in Digit
    <3> TAKE i \in a..b
    <3>1. i \in 1..Len(u)
      BY <1>3, <1>4
    <3> QED
      BY <1>3, <3>1
  <2> QED
    BY <1>5, <2>1, SubSeqProperties
<1>7. Len(v) = Len(t) /\ b - a + 1 = Len(t)
  BY <1>3, <1>4, <1>6
<1>8. \A i \in 1..Len(v) : v[i] = t[i]
  <2> TAKE i \in 1..Len(v)
  <2>1. i \in 1..b - a + 1 /\ a + i - 1 = Len(p) + i /\ i \in 1..Len(t)
    BY <1>3, <1>4, <1>7
  <2> QED
    BY <1>3, <1>6, <2>1
<1>9. v = t
  BY <1>3, <1>6, <1>7, <1>8, SeqEqual
<1>10. N!NumberIn(k, u) = N!Value(v)
  BY <1>1, <1>4, <1>5 DEF N!NumberIn
<1> QED
  BY <1>1, <1>2, <1>9, <1>10, PaddedIs

\* Codes under one prefix are ordered as their numbers.
LEMMA TextsInOrder ==
    ASSUME NEW p \in Texts, NEW m \in Nat, NEW n \in Nat, m < n
    PROVE  N!CodeBelow(TextOf(p, m), TextOf(p, n))
<1>1. PICK s \in Texts, t \in Texts : s = Padded(m) /\ t = Padded(n)
  BY PaddedIs
<1>2. PICK u \in Texts, v \in Texts : u = TextOf(p, m) /\ v = TextOf(p, n)
  BY TextDigits
<1>3. /\ Len(p) \in Nat /\ Len(s) \in Nat /\ Len(t) \in Nat
      /\ Len(u) = Len(p) + Len(s) /\ Len(v) = Len(p) + Len(t)
      /\ \A i \in 1..Len(p) : u[i] = p[i] /\ v[i] = p[i]
      /\ \A i \in 1..Len(s) : u[Len(p) + i] = s[i]
      /\ \A i \in 1..Len(t) : v[Len(p) + i] = t[i]
  <2>1. /\ Len(p) \in Nat /\ Len(s) \in Nat /\ Len(u) = Len(p) + Len(s)
        /\ \A i \in 1..Len(p) : u[i] = p[i]
        /\ \A i \in 1..Len(s) : u[Len(p) + i] = s[i]
    <3>1. /\ Len(p) \in Nat /\ Len(Padded(m)) \in Nat
          /\ Len(TextOf(p, m)) = Len(p) + Len(Padded(m))
          /\ \A i \in 1..Len(p) : TextOf(p, m)[i] = p[i]
          /\ \A i \in 1..Len(Padded(m)) : TextOf(p, m)[Len(p) + i] = Padded(m)[i]
      BY TextDigits
    <3> QED
      BY <1>1, <1>2, <3>1
  <2>2. /\ Len(t) \in Nat /\ Len(v) = Len(p) + Len(t)
        /\ \A i \in 1..Len(p) : v[i] = p[i]
        /\ \A i \in 1..Len(t) : v[Len(p) + i] = t[i]
    <3>1. /\ Len(p) \in Nat /\ Len(Padded(n)) \in Nat
          /\ Len(TextOf(p, n)) = Len(p) + Len(Padded(n))
          /\ \A i \in 1..Len(p) : TextOf(p, n)[i] = p[i]
          /\ \A i \in 1..Len(Padded(n)) : TextOf(p, n)[Len(p) + i] = Padded(n)[i]
      BY TextDigits
    <3> QED
      BY <1>1, <1>2, <3>1
  <2> QED
    BY <2>1, <2>2
<1>4. Len(s) <= Len(t)
  <2>1. /\ DigitCount(m) <= DigitCount(n)
        /\ DigitCount(m) \in Nat /\ DigitCount(n) \in Nat
    BY DigitsGrow, DigitsCounted
  <2> QED
    BY <1>1, <2>1, PaddedIs, RadixIs
<1>5. CASE Len(s) = Len(t)
  <2>1. N!Value(s) = m /\ N!Value(t) = n
    BY <1>1, PaddedIs
  <2>2. PICK i \in 1..Len(s) : s[i] < t[i] /\ \A j \in 1..i - 1 : s[j] = t[j]
    BY <1>3, <1>5, <2>1, ValueOrder
  <2>3. PICK l \in Nat : l = Len(p) + i
    BY <1>3
  <2>4. l \in 1..Len(u) /\ l <= Len(v) /\ u[l] < v[l]
    BY <1>3, <1>5, <2>2, <2>3
  <2>5. ASSUME NEW j \in 1..l - 1 PROVE u[j] = v[j]
    <3>1. CASE j <= Len(p)
      <4>1. j \in 1..Len(p)
        BY <3>1
      <4> QED
        BY <1>3, <4>1
    <3>2. CASE ~ (j <= Len(p))
      <4>1. PICK d \in 1..i - 1 : j = Len(p) + d
        <5>1. j - Len(p) \in 1..i - 1 /\ j = Len(p) + (j - Len(p))
          BY <1>3, <2>3, <3>2
        <5> QED
          BY <5>1
      <4>2. d \in 1..Len(s) /\ d \in 1..Len(t)
        BY <1>3, <1>5
      <4> QED
        BY <1>3, <2>2, <4>1, <4>2
    <3> QED
      BY <3>1, <3>2
  <2>6. FirstBelow(u, v)
    BY <2>4, <2>5 DEF FirstBelow
  <2>7. N!TextBelow(u, v)
    BY <1>3, <1>5, <2>6, SameLength
  <2> QED
    BY <1>2, <1>3, <1>5, <2>7 DEF N!CodeBelow
<1>6. CASE Len(s) # Len(t)
  <2>1. Len(u) < Len(v)
    BY <1>3, <1>4, <1>6
  <2> QED
    BY <1>2, <2>1 DEF N!CodeBelow
<1> QED
  BY <1>5, <1>6

\* The prefix begins them.
LEMMA PrefixBegins ==
    ASSUME NEW p \in Texts, NEW n \in Nat
    PROVE  N!IsPrefix(p, TextOf(p, n))
<1>1. TextOf(p, n) \in Texts /\ Len(p) <= Len(TextOf(p, n))
  BY TextDigits
<1> QED
  BY <1>1, TextDigits, Begins

\* Of two texts that begin the same text one begins the other.
LEMMA BeginTheSame ==
    ASSUME NEW p \in Texts, NEW q \in Texts, NEW t \in Texts,
           N!IsPrefix(p, t), N!IsPrefix(q, t)
    PROVE  N!IsPrefix(p, q) \/ N!IsPrefix(q, p)
<1>1. Len(p) \in Nat /\ Len(q) \in Nat
  BY LenProperties DEF Texts
<1>2. /\ \A i \in 1..Len(p) : p[i] = t[i]
      /\ \A i \in 1..Len(q) : q[i] = t[i]
  BY Begins
<1>3. CASE Len(p) <= Len(q)
  <2>1. \A i \in 1..Len(p) : p[i] = q[i]
    BY <1>1, <1>2, <1>3
  <2> QED
    BY <1>3, <2>1, Begins
<1>4. CASE ~ (Len(p) <= Len(q))
  <2>1. Len(q) <= Len(p) /\ \A i \in 1..Len(q) : q[i] = p[i]
    BY <1>1, <1>2, <1>4
  <2> QED
    BY <2>1, Begins
<1> QED
  BY <1>3, <1>4

-----------------------------------------------------------------------------
(* The next number.                                                        *)

\* Of finitely many things one has the greatest number.
LEMMA FiniteTop ==
    ASSUME NEW all, IsFiniteSet(all), all # {}, NEW f \in [all -> Nat]
    PROVE  \E x \in all : \A y \in all : f[y] <= f[x]
<1> DEFINE Fine == {some \in SUBSET all : some # {} => \E x \in some : \A y \in some : f[y] <= f[x]}
<1>1. ASSUME NEW some \in SUBSET all, \A part \in SUBSET some : part # some => part \in Fine PROVE some \in Fine
  <2> SUFFICES ASSUME NEW x \in some PROVE \E z \in some : \A y \in some : f[y] <= f[z]
    OBVIOUS
  <2>1. \A y \in some : f[y] \in Nat
    OBVIOUS
  <2>2. CASE some \ {x} = {}
    <3>1. \A y \in some : y = x
      BY <2>2
    <3> QED
      BY <2>1, <3>1
  <2>3. CASE some \ {x} # {}
    <3>1. some \ {x} \in Fine
      BY <1>1
    <3>2. PICK w \in some \ {x} : \A y \in some \ {x} : f[y] <= f[w]
      BY <2>3, <3>1
    <3>3. CASE f[w] <= f[x]
      <4>1. \A y \in some : f[y] <= f[x]
        BY <2>1, <3>2, <3>3
      <4> QED
        BY <4>1
    <3>4. CASE ~ (f[w] <= f[x])
      <4>1. \A y \in some : f[y] <= f[w]
        BY <2>1, <3>2, <3>4
      <4> QED
        BY <4>1
    <3> QED
      BY <3>3, <3>4
  <2> QED
    BY <2>2, <2>3
<1>2. Fine = SUBSET all
  <2> HIDE DEF Fine
  <2>1. Fine \in SUBSET (SUBSET all)
    BY DEF Fine
  <2> QED
    BY <1>1, <2>1, SubsetInduction
<1>3. all \in Fine
  <2> HIDE DEF Fine
  <2> QED
    BY <1>2
<1> QED
  BY <1>3

\* What is read as a number is one.
LEMMA NumberType ==
    ASSUME NEW k, k.prefix \in Texts, NEW c \in Texts
    PROVE  N!NumberIn(k, c) \in Nat
<1>1. PICK a \in Int, b \in Int : a = Len(k.prefix) + 1 /\ b = Len(c) /\ a >= 1
  BY LenProperties DEF Texts
<1>2. \A i \in a..b : c[i] \in Digit
  <2> TAKE i \in a..b
  <2>1. i \in 1..Len(c)
    BY <1>1
  <2> QED
    BY <2>1, ElementOfSeq DEF Texts
<1>3. SubSeq(c, a, b) \in Texts
  BY <1>2, SubSeqProperties DEF Texts
<1> QED
  BY <1>1, <1>3, ValueType DEF N!NumberIn

\* Codes under a prefix, and what is behind the highest of them.
LEMMA HighestThere ==
    ASSUME NEW p \in Texts, NEW C, IsFiniteSet(C), NEW e \in C,
           \A c \in C : \E m \in Nat : c = TextOf(p, m)
    PROVE  N!Highest(C) # {}
<1> DEFINE f == [c \in C |-> CHOOSE m \in Nat : c = TextOf(p, m)]
<1>1. \A c \in C : f[c] \in Nat /\ c = TextOf(p, f[c])
  OBVIOUS
<1>2. f \in [C -> Nat]
  BY <1>1
<1> HIDE DEF f
<1>3. PICK t \in C : \A d \in C : f[d] <= f[t]
  BY <1>2, FiniteTop
<1>4. ASSUME NEW d \in C \ {t} PROVE N!CodeBelow(d, t)
  <2>1. PICK i \in Nat, j \in Nat : i = f[d] /\ j = f[t] /\ d = TextOf(p, i) /\ t = TextOf(p, j)
    BY <1>1
  <2>2. i <= j /\ i # j
    BY <1>3, <2>1
  <2>3. i < j
    BY <2>2
  <2> QED
    BY <2>1, <2>3, TextsInOrder
<1>5. t \in N!Highest(C)
  BY <1>4 DEF N!Highest, N!Below
<1> QED
  BY <1>5

\* What is behind the highest code of a prefix is above them all.
LEMMA AfterHighest ==
    ASSUME NEW k, NEW p \in Texts, p = k.prefix, NEW C, IsFiniteSet(C),
           \A c \in C : \E m \in Nat : c = TextOf(p, m),
           NEW n, n = N!After(k, N!Highest(C))
    PROVE  n \in Nat \ {0} /\ \A c \in C : N!CodeBelow(c, TextOf(p, n))
<1>1. CASE C = {}
  <2>1. N!Highest(C) = {}
    BY <1>1 DEF N!Highest
  <2> QED
    BY <1>1, <2>1 DEF N!After
<1>2. CASE C # {}
  <2>1. N!Highest(C) # {}
    BY <1>2, HighestThere
  <2>2. PICK t : t = CHOOSE c \in N!Highest(C) : TRUE
    OBVIOUS
  <2>3. t \in N!Highest(C)
    BY <2>1, <2>2
  <2>4. t \in C /\ \A d \in C \ {t} : N!CodeBelow(d, t)
    BY <2>3 DEF N!Highest, N!Below
  <2>5. PICK m \in Nat : t = TextOf(p, m)
    BY <2>4
  <2>6. n = N!NumberIn(k, t) + 1
    BY <2>1, <2>2 DEF N!After
  <2>7. N!NumberIn(k, t) = m
    BY <2>5, NumberRead
  <2>8. n = m + 1 /\ n \in Nat \ {0}
    BY <2>6, <2>7
  <2>9. ASSUME NEW c \in C PROVE N!CodeBelow(c, TextOf(p, n))
    <3>1. PICK j \in Nat : c = TextOf(p, j)
      OBVIOUS
    <3>2. c \in Texts /\ t \in Texts
      BY <2>5, <3>1, TextDigits
    <3>3. ~ (m < j)
      <4>1. m < j => N!CodeBelow(t, c)
        BY <2>5, <3>1, TextsInOrder
      <4>2. c = t \/ N!CodeBelow(c, t)
        BY <2>4
      <4> QED
        BY <3>2, <4>1, <4>2, CodeBelowOneWay
    <3>4. j < n
      BY <2>8, <3>3
    <3> QED
      BY <2>8, <3>1, <3>4, TextsInOrder
  <2> QED
    BY <2>8, <2>9
<1> QED
  BY <1>1, <1>2

\* Of codes as long as each other the greatest text is the highest.
LEMMA GreatestIsHighest ==
    ASSUME NEW C \in SUBSET Texts, \A c, d \in C : Len(c) = Len(d)
    PROVE  N!Greatest(C) = N!Highest(C)
<1>1. \A c, d \in C : N!CodeBelow(c, d) <=> N!TextBelow(c, d)
  <2> TAKE c, d \in C
  <2>1. Len(c) \in Nat /\ Len(c) = Len(d) /\ ~ (Len(c) < Len(d))
    BY LenProperties DEF Texts
  <2> QED
    BY <2>1 DEF N!CodeBelow
<1> QED
  BY <1>1 DEF N!Greatest, N!Highest, N!Below

-----------------------------------------------------------------------------
(* What the rows and the requests of a table are.                          *)

Here == {k \in Kinds : k.table = table}
Rows == [id : Nat, code : Texts]
Requests ==
    {N!Idle} \union [pc : {"coded", "inserted"}, id : Nat, code : Texts, typed : BOOLEAN,
                     scheme : N!Schemes, prefix : Texts, beside : BOOLEAN]

CodeTypes ==
    /\ papers \in SUBSET Rows /\ IsFiniteSet(papers) /\ serial \in Nat
    /\ drawer \in [Reqs -> Requests]
    /\ table \in {k.table : k \in Kinds}

\* The rows under a prefix.
CountedUnder(p) == Cardinality({r \in papers : N!IsPrefix(p, r.code)})

\* The code of a row is typed, or has a number that is not above those of the table.
RowTrue(r) ==
    \E k \in Here :
       \/ k.scheme \in {"sequence", "latest"} /\ r.code \in TypedCodes
       \/ \E m \in Nat \ {0} :
             /\ r.code = TextOf(k.prefix, m)
             /\ k.scheme = "count" => m <= CountedUnder(k.prefix)
             /\ k.scheme = "latest" => m <= r.id

\* A request's code is typed, or has a number that will not be above them.
RequestTrue(x) ==
    \E k \in Here :
       /\ k.scheme = x.scheme /\ k.prefix = x.prefix
       /\ x.typed => k.scheme \in {"sequence", "latest"} /\ x.code \in TypedCodes
       /\ ~ x.typed => \E m \in Nat \ {0} :
             /\ x.code = TextOf(k.prefix, m)
             /\ k.scheme = "count" => m <= CountedUnder(k.prefix) + 1
             /\ k.scheme = "latest" => m <= IF x.pc = "coded" THEN serial + 1 ELSE x.id

\* No two rows, inserted or committed, share an id or a code.
RowsDiffer ==
    /\ \A r \in papers : r.id \in 1..serial
    /\ \A r, s \in papers : r # s => r.id # s.id /\ r.code # s.code
    /\ \A q \in Reqs : drawer[q].pc = "inserted" =>
          /\ drawer[q].id \in 1..serial
          /\ \A r \in papers : r.id # drawer[q].id /\ r.code # drawer[q].code
          /\ \A p \in Reqs : p # q /\ drawer[p].pc = "inserted" =>
                drawer[p].id # drawer[q].id /\ drawer[p].code # drawer[q].code

\* A number taken under the lock of its prefix.
UnderLock(q) == drawer[q].pc # "idle" /\ drawer[q].scheme = "sequence" /\ ~ drawer[q].typed

Locked ==
    \A p, q \in Reqs : p # q /\ UnderLock(p) /\ UnderLock(q) => drawer[p].prefix # drawer[q].prefix

PrefixAlone(p) == \A k \in Here : k.prefix = p => N!Alone(k)

\* It stays above the numbers of its prefix, if it was not drawn beside typed ones.
Above ==
    \A q \in Reqs : UnderLock(q) /\ ~ drawer[q].beside /\ PrefixAlone(drawer[q].prefix) =>
        \A r \in papers : r.code \notin TypedCodes /\ N!IsPrefix(drawer[q].prefix, r.code) =>
            N!CodeBelow(r.code, drawer[q].code)

RowsTrue == \A r \in papers : RowTrue(r)
RequestsTrue == \A q \in Reqs : drawer[q].pc # "idle" => RequestTrue(drawer[q])

CodesInv ==
    /\ CodeTypes /\ RowsTrue /\ RequestsTrue
    /\ RowsDiffer /\ Locked /\ Above

\* Kinds of one table.
LEMMA HereFacts ==
    ASSUME NEW k \in Here
    PROVE  /\ k \in Kinds /\ k.prefix \in Texts /\ k.scheme \in N!Schemes
           /\ \A l \in Here : /\ k.scheme = l.scheme
                              /\ k.scheme \in {"highest", "latest"} => k = l
           /\ k.scheme = "count" => N!Alone(k) /\ ~ \E l \in Here : l.deleted
<1>1. k \in Kinds /\ k.prefix \in Texts /\ k.scheme \in N!Schemes
  BY CodesAssumed DEF Here, N!CodesAssumption, N!Code, Texts, Digit
<1>2. ASSUME NEW l \in Here
      PROVE  k.scheme = l.scheme /\ (k.scheme \in {"highest", "latest"} => k = l)
  BY CodesAssumed DEF Here, N!CodesAssumption
<1>3. \A l \in Here : l.scheme = "count" => N!Alone(l) /\ ~ l.deleted
  BY CodesAssumed DEF Here, N!CodesAssumption
<1> QED
  BY <1>1, <1>2, <1>3

\* A text that begins with the prefix of a kind that stands alone is of no other kind.
LEMMA OneKind ==
    ASSUME NEW k \in Here, NEW l \in Here, N!Alone(k), NEW t \in Texts,
           N!IsPrefix(k.prefix, t), N!IsPrefix(l.prefix, t)
    PROVE  k = l
<1>1. N!IsPrefix(k.prefix, l.prefix) \/ N!IsPrefix(l.prefix, k.prefix)
  BY HereFacts, BeginTheSame
<1> QED
  BY <1>1 DEF Here, N!Alone

\* The codes of finitely many rows are finitely many.
LEMMA CodesFinite ==
    ASSUME CodeTypes
    PROVE  IsFiniteSet(N!Codes) /\ N!Codes \subseteq Texts
<1>1. papers \subseteq Rows /\ IsFiniteSet(papers)
  BY DEF CodeTypes
<1> DEFINE f == [r \in papers |-> r.code]
           Image == {f[r] : r \in papers}
<1>2. IsFiniteSet(Image)
  <2>1. f \in Surjection(papers, Image)
    BY DEF Surjection
  <2> QED
    BY <1>1, <2>1, FS_Surjection
<1>3. Image = N!Codes
  BY DEF N!Codes
<1>4. N!Codes \subseteq Texts
  BY <1>1 DEF N!Codes, Rows
<1> QED
  BY <1>2, <1>3, <1>4

\* What is counted is a number, and more rows are no fewer.
LEMMA CountedType ==
    ASSUME CodeTypes, NEW p
    PROVE  /\ CountedUnder(p) \in Nat
           /\ N!Cardinality({r \in papers : N!IsPrefix(p, r.code)}) = CountedUnder(p)
<1>1. IsFiniteSet({r \in papers : N!IsPrefix(p, r.code)})
  BY FS_Subset DEF CodeTypes
<1> QED
  BY <1>1, FS_CardinalityType DEF CountedUnder, N!Cardinality, Cardinality

\* The row with the highest id.
LEMMA LatestThere ==
    ASSUME CodeTypes, RowsDiffer, papers # {}
    PROVE  \E r \in papers : (CHOOSE s \in N!Latest : TRUE) = r /\ \A s \in papers : s.id <= r.id
<1> DEFINE Ids == {r.id : r \in papers}
<1>1. Ids \subseteq 0..serial /\ Ids # {} /\ serial \in Nat
  BY DEF CodeTypes, RowsDiffer
<1>2. PICK i \in Ids : \A j \in Ids : j <= i
  <2> HIDE DEF Ids
  <2> QED
    BY <1>1, GreatestUpTo
<1>3. PICK r \in papers : r.id = i
  OBVIOUS
<1>4. \A s \in papers : s.id <= r.id
  BY <1>2, <1>3
<1>5. r \in N!Latest
  BY <1>4 DEF N!Latest
<1>6. PICK x : x = CHOOSE s \in N!Latest : TRUE
  OBVIOUS
<1>7. x \in N!Latest
  BY <1>5, <1>6
<1> QED
  BY <1>6, <1>7 DEF N!Latest

\* The next number, of each scheme.
LEMMA NextNumberIs ==
    ASSUME CodeTypes, RowsDiffer, NEW k \in Here
    PROVE  /\ N!NextNumber(k) \in Nat \ {0}
           /\ k.scheme = "sequence" =>
                 N!NextNumber(k) = N!After(k, N!Highest({c \in N!Codes : N!Fits(k, c)}))
           /\ k.scheme = "highest" => N!NextNumber(k) = N!After(k, N!Greatest(N!Codes))
           /\ k.scheme = "count" => N!NextNumber(k) = CountedUnder(k.prefix) + 1
           /\ k.scheme = "latest" =>
                 /\ N!NextNumber(k) <= serial + 1
                 /\ \A r \in papers : r.id < N!NextNumber(k)
<1>1. k.prefix \in Texts /\ k.scheme \in N!Schemes /\ serial \in Nat
  BY HereFacts DEF CodeTypes
<1>2. N!Codes \subseteq Texts
  BY CodesFinite
<1>3. ASSUME NEW found \in SUBSET N!Codes PROVE N!After(k, found) \in Nat \ {0}
  <2>1. CASE found = {}
    BY <2>1 DEF N!After
  <2>2. CASE found # {}
    <3>1. PICK c \in found : c = CHOOSE d \in found : TRUE
      BY <2>2
    <3>2. N!NumberIn(k, c) \in Nat
      BY <1>1, <1>2, NumberType
    <3>3. N!After(k, found) = N!NumberIn(k, c) + 1
      BY <2>2, <3>1 DEF N!After
    <3> QED
      BY <3>2, <3>3
  <2> QED
    BY <2>1, <2>2
<1>4. CASE k.scheme = "sequence"
  <2>1. N!NextNumber(k) = N!After(k, N!Highest({c \in N!Codes : N!Fits(k, c)}))
    BY <1>4 DEF N!NextNumber
  <2>2. N!Highest({c \in N!Codes : N!Fits(k, c)}) \in SUBSET N!Codes
    BY DEF N!Highest
  <2> QED
    BY <1>3, <1>4, <2>1, <2>2
<1>5. CASE k.scheme = "highest"
  <2>1. N!NextNumber(k) = N!After(k, N!Greatest(N!Codes))
    BY <1>5 DEF N!NextNumber
  <2>2. N!Greatest(N!Codes) \in SUBSET N!Codes
    BY DEF N!Greatest
  <2> QED
    BY <1>3, <1>5, <2>1, <2>2
<1>6. CASE k.scheme = "count"
  <2>1. N!NextNumber(k) = CountedUnder(k.prefix) + 1
    BY <1>6, CountedType DEF N!NextNumber
  <2>2. PICK n \in Nat : n = CountedUnder(k.prefix)
    <3>1. PICK p : p = k.prefix
      OBVIOUS
    <3>2. CountedUnder(p) \in Nat
      BY CountedType
    <3> QED
      BY <3>1, <3>2
  <2> QED
    BY <1>6, <2>1, <2>2
<1>7. CASE k.scheme = "latest"
  <2>1. CASE papers = {}
    <3>1. N!NextNumber(k) = 1
      BY <1>7, <2>1 DEF N!NextNumber
    <3> QED
      BY <1>1, <1>7, <2>1, <3>1
  <2>2. CASE papers # {}
    <3>1. PICK r \in papers : /\ (CHOOSE s \in N!Latest : TRUE) = r
                              /\ \A s \in papers : s.id <= r.id
      BY <2>2, LatestThere
    <3>2. N!NextNumber(k) = r.id + 1
      BY <1>7, <2>2, <3>1 DEF N!NextNumber
    <3>3. \A s \in papers : s.id \in 1..serial
      BY DEF RowsDiffer
    <3>4. r.id \in 1..serial /\ \A s \in papers : s.id \in Nat
      BY <1>1, <3>3
    <3> QED
      BY <1>1, <1>7, <3>1, <3>2, <3>4
  <2> QED
    BY <2>1, <2>2
<1> QED
  BY <1>1, <1>4, <1>5, <1>6, <1>7 DEF N!Schemes

-----------------------------------------------------------------------------
(* Each step keeps it.                                                     *)

\* What holds of a row or a request as long as the rows are the same.
LEMMA RowsStay ==
    ASSUME UNCHANGED <<papers, table>>
    PROVE  \A r : RowTrue(r)' <=> RowTrue(r)
BY DEF RowTrue, CountedUnder, Here

\* Nor does a request change with the rows the same, as more ids are taken.
LEMMA RequestsStay ==
    ASSUME serial \in Nat, UNCHANGED <<papers, table>>, serial' \in Nat, serial <= serial'
    PROVE  \A x : RequestTrue(x) => RequestTrue(x)'
<1> TAKE x
<1> HAVE RequestTrue(x)
<1>1. PICK k \in Here :
         /\ k.scheme = x.scheme /\ k.prefix = x.prefix
         /\ x.typed => k.scheme \in {"sequence", "latest"} /\ x.code \in TypedCodes
         /\ ~ x.typed => \E m \in Nat \ {0} :
               /\ x.code = TextOf(k.prefix, m)
               /\ k.scheme = "count" => m <= CountedUnder(k.prefix) + 1
               /\ k.scheme = "latest" => m <= IF x.pc = "coded" THEN serial + 1 ELSE x.id
  BY DEF RequestTrue
<1>2. Here' = Here /\ \A p : CountedUnder(p)' = CountedUnder(p)
  BY DEF Here, CountedUnder
<1>3. ASSUME ~ x.typed
      PROVE  \E m \in Nat \ {0} :
               /\ x.code = TextOf(k.prefix, m)
               /\ k.scheme = "count" => m <= CountedUnder(k.prefix) + 1
               /\ k.scheme = "latest" => m <= IF x.pc = "coded" THEN serial' + 1 ELSE x.id
  <2>1. PICK m \in Nat \ {0} :
               /\ x.code = TextOf(k.prefix, m)
               /\ k.scheme = "count" => m <= CountedUnder(k.prefix) + 1
               /\ k.scheme = "latest" => m <= IF x.pc = "coded" THEN serial + 1 ELSE x.id
    BY <1>1, <1>3
  <2>2. \A a, b \in Nat : serial <= b /\ a <= serial + 1 => a <= b + 1
    OBVIOUS
  <2> QED
    BY <2>1, <2>2
<1> QED
  BY <1>1, <1>2, <1>3 DEF RequestTrue

\* What holds of each request of the next state holds of them there.
LEMMA AllRequests ==
    ASSUME \A p \in Reqs : \A y : y = drawer'[p] /\ y.pc # "idle" => RequestTrue(y)'
    PROVE  RequestsTrue'
BY DEF RequestsTrue, RequestTrue

\* The same of rows.
LEMMA AllRows ==
    ASSUME \A r \in papers' : RowTrue(r)'
    PROVE  RowsTrue'
BY DEF RowsTrue, RowTrue

\* One request changes.
LEMMA OneDrawn ==
    ASSUME CodeTypes, NEW q \in Reqs, NEW x, drawer' = [drawer EXCEPT ![q] = x]
    PROVE  drawer'[q] = x /\ \A p \in Reqs \ {q} : drawer'[p] = drawer[p]
BY DEF CodeTypes

\* A request that ends.
LEMMA EndingKeeps ==
    ASSUME CodesInv, NEW q \in Reqs, drawer' = [drawer EXCEPT ![q] = N!Idle],
           UNCHANGED <<papers, table>>, serial' \in Nat, serial <= serial'
    PROVE  CodesInv'
<1>1. drawer'[q] = N!Idle /\ \A p \in Reqs \ {q} : drawer'[p] = drawer[p]
  BY OneDrawn DEF CodesInv
<1>2. \A p \in Reqs : drawer'[p].pc # "idle" => p # q /\ drawer'[p] = drawer[p]
  BY <1>1 DEF N!Idle
<1>3. CodeTypes'
  <2>1. N!Idle \in Requests
    BY DEF Requests
  <2> QED
    BY <2>1 DEF CodesInv, CodeTypes, Rows
<1>4. RowsTrue'
  BY RowsStay, AllRows DEF CodesInv, RowsTrue
<1>5. RequestsTrue'
  <2> SUFFICES ASSUME NEW p \in Reqs, NEW y, y = drawer'[p], y.pc # "idle"
               PROVE  RequestTrue(y)'
    BY AllRequests
  <2>1. RequestTrue(y)
    BY <1>2 DEF CodesInv, RequestsTrue
  <2> QED
    BY <2>1, RequestsStay DEF CodesInv, CodeTypes
<1>6. RowsDiffer'
  <2>1. \A i \in 1..serial : i \in 1..serial'
    BY DEF CodesInv, CodeTypes
  <2>2. \A p \in Reqs : drawer'[p].pc = "inserted" => drawer'[p] = drawer[p]
    BY <1>2
  <2> QED
    BY <2>1, <2>2 DEF CodesInv, RowsDiffer
<1>7. \A p \in Reqs : UnderLock(p)' => UnderLock(p) /\ drawer'[p] = drawer[p]
  BY <1>2 DEF UnderLock
<1>8. Locked'
  BY <1>7 DEF CodesInv, Locked
<1>9. Above'
  <2>1. \A p : PrefixAlone(p)' <=> PrefixAlone(p)
    BY DEF PrefixAlone, Here
  <2> QED
    BY <1>7, <2>1 DEF CodesInv, Above
<1> QED
  BY <1>3, <1>4, <1>5, <1>6, <1>8, <1>9 DEF CodesInv

\* A request that gets its code.
LEMMA DrawnKeeps ==
    ASSUME CodesInv, NEW q \in Reqs, drawer[q].pc = "idle", NEW k \in Here, NEW c \in Texts,
           NEW typed \in BOOLEAN, N!Have(q, k, c, typed),
           typed => k.scheme \in {"sequence", "latest"} /\ c \in TypedCodes,
           ~ typed => \E m \in Nat \ {0} :
              /\ c = TextOf(k.prefix, m)
              /\ k.scheme = "count" => m <= CountedUnder(k.prefix) + 1
              /\ k.scheme = "latest" => m <= serial + 1,
           ~ typed /\ k.scheme = "sequence" => \A p \in Reqs : ~ N!Holds(p, k),
           ~ typed /\ k.scheme = "sequence" /\ N!ByHand = {} /\ PrefixAlone(k.prefix) =>
              \A r \in papers : r.code \notin TypedCodes /\ N!IsPrefix(k.prefix, r.code) =>
                 N!CodeBelow(r.code, c)
    PROVE  CodesInv'
<1>1. PICK x : x = [pc |-> "coded", id |-> 0, code |-> c, typed |-> typed, scheme |-> k.scheme,
                    prefix |-> k.prefix, beside |-> N!ByHand # {}]
  OBVIOUS
<1>2. drawer' = [drawer EXCEPT ![q] = x] /\ UNCHANGED <<papers, serial, table>>
  BY <1>1 DEF N!Have
<1>3. /\ x.pc = "coded" /\ x.code = c /\ x.typed = typed /\ x.scheme = k.scheme
      /\ x.prefix = k.prefix /\ x.beside = (N!ByHand # {})
  BY <1>1
<1>4. drawer'[q] = x /\ \A p \in Reqs \ {q} : drawer'[p] = drawer[p]
  BY <1>2, OneDrawn DEF CodesInv
<1>5. x \in Requests
  <2>1. k.prefix \in Texts /\ k.scheme \in N!Schemes
    BY HereFacts
  <2>2. (N!ByHand # {}) \in BOOLEAN
    OBVIOUS
  <2> QED
    BY <1>1, <2>1, <2>2 DEF Requests
<1>6. CodeTypes'
  BY <1>2, <1>5 DEF CodesInv, CodeTypes, Rows
<1>7. RowsTrue'
  BY <1>2, RowsStay, AllRows DEF CodesInv, RowsTrue
<1>8. serial \in Nat /\ serial <= serial'
  BY <1>2 DEF CodesInv, CodeTypes
<1>9. RequestTrue(x)
  BY <1>3 DEF RequestTrue
<1>10. RequestsTrue'
  <2> SUFFICES ASSUME NEW p \in Reqs, NEW y, y = drawer'[p], y.pc # "idle"
               PROVE  RequestTrue(y)'
    BY AllRequests
  <2>1. RequestTrue(y)
    BY <1>4, <1>9 DEF CodesInv, RequestsTrue
  <2> QED
    BY <1>2, <1>8, <2>1, RequestsStay
<1>11. RowsDiffer'
  <2>1. \A p \in Reqs : drawer'[p].pc = "inserted" => p # q /\ drawer'[p] = drawer[p]
    BY <1>3, <1>4
  <2> QED
    BY <1>2, <2>1 DEF CodesInv, RowsDiffer
<1>12. \A p \in Reqs \ {q} : UnderLock(p)' <=> UnderLock(p)
  BY <1>4 DEF UnderLock
<1>13. UnderLock(q)' => ~ typed /\ k.scheme = "sequence"
  BY <1>3, <1>4 DEF UnderLock
<1>14. Locked'
  <2>1. ASSUME NEW p \in Reqs \ {q}, UnderLock(p), UnderLock(q)' PROVE drawer[p].prefix # k.prefix
    BY <1>13, <2>1 DEF UnderLock, N!Holds
  <2>2. SUFFICES ASSUME NEW p \in Reqs, NEW o \in Reqs, p # o, UnderLock(p)', UnderLock(o)'
                 PROVE  drawer'[p].prefix # drawer'[o].prefix
    BY DEF Locked
  <2>3. CASE p = q
    BY <1>3, <1>4, <1>12, <2>1, <2>2, <2>3
  <2>4. CASE o = q
    BY <1>3, <1>4, <1>12, <2>1, <2>2, <2>4
  <2>5. CASE p # q /\ o # q
    BY <1>4, <1>12, <2>2, <2>5 DEF CodesInv, Locked
  <2> QED
    BY <2>3, <2>4, <2>5
<1>15. Above'
  <2>1. \A p : PrefixAlone(p)' <=> PrefixAlone(p)
    BY <1>2 DEF PrefixAlone, Here
  <2>2. SUFFICES ASSUME NEW p \in Reqs, UnderLock(p)', ~ drawer'[p].beside,
                        PrefixAlone(drawer'[p].prefix), NEW r \in papers,
                        r.code \notin TypedCodes, N!IsPrefix(drawer'[p].prefix, r.code)
                 PROVE  N!CodeBelow(r.code, drawer'[p].code)
    BY <1>2, <2>1 DEF Above
  <2>3. CASE p = q
    BY <1>3, <1>4, <1>13, <2>2, <2>3
  <2>4. CASE p # q
    BY <1>4, <1>12, <2>2, <2>4 DEF CodesInv, Above
  <2> QED
    BY <2>3, <2>4
<1> QED
  BY <1>6, <1>7, <1>10, <1>11, <1>14, <1>15 DEF CodesInv

\* A number under a prefix that stands alone, with no typed code in the table, is above all
\* those of the prefix.
LEMMA NumberAbove ==
    ASSUME CodeTypes, RowsTrue, NEW k \in Here, k.scheme = "sequence", N!Alone(k),
           N!ByHand = {}, NEW n, n = N!After(k, N!Highest({c \in N!Codes : N!Fits(k, c)}))
    PROVE  \A r \in papers : N!IsPrefix(k.prefix, r.code) => N!CodeBelow(r.code, TextOf(k.prefix, n))
<1> DEFINE C == {c \in N!Codes : N!Fits(k, c)}
<1>1. k.prefix \in Texts /\ IsFiniteSet(N!Codes) /\ N!Codes \subseteq Texts
  BY HereFacts, CodesFinite
<1>2. ASSUME NEW r \in papers, N!IsPrefix(k.prefix, r.code)
      PROVE  r.code \in C /\ \E m \in Nat : r.code = TextOf(k.prefix, m)
  <2>1. r.code \in N!Codes /\ r.code \in Texts
    BY <1>1 DEF N!Codes
  <2>2. r.code \notin TypedCodes
    BY <2>1 DEF N!ByHand
  <2>3. PICK l \in Here, m \in Nat : r.code = TextOf(l.prefix, m)
    BY <2>2 DEF RowsTrue, RowTrue
  <2>4. l.prefix \in Texts /\ N!IsPrefix(l.prefix, r.code)
    BY <2>3, HereFacts, PrefixBegins
  <2>5. k = l
    BY <1>2, <2>1, <2>4, OneKind
  <2>6. Len(r.code) >= Len(k.prefix) + Width
    <3>1. /\ Len(k.prefix) \in Nat /\ Len(Padded(m)) \in Nat /\ Len(Padded(m)) >= Width
          /\ Len(TextOf(k.prefix, m)) = Len(k.prefix) + Len(Padded(m))
      BY <1>1, TextDigits
    <3> QED
      BY <2>3, <2>5, <3>1, RadixIs
  <2> QED
    BY <1>2, <2>1, <2>3, <2>5, <2>6 DEF N!Fits
<1>3. IsFiniteSet(C)
  BY <1>1, FS_Subset
<1>4. \A c \in C : \E m \in Nat : c = TextOf(k.prefix, m)
  BY <1>2 DEF N!Codes, N!Fits
<1>5. PICK p : p = k.prefix
  OBVIOUS
<1> HIDE DEF C
<1>6. n = N!After(k, N!Highest(C))
  BY DEF C
<1>7. \A c \in C : N!CodeBelow(c, TextOf(p, n))
  BY <1>1, <1>3, <1>4, <1>5, <1>6, AfterHighest
<1> QED
  BY <1>2, <1>5, <1>7

\* The program draws the next number.
LEMMA NumberKeeps ==
    ASSUME CodesInv, NEW q \in Reqs, NEW k \in Kinds, N!Number(q, k)
    PROVE  CodesInv'
<1>1. PICK n : n = N!NextNumber(k)
  OBVIOUS
<1>2. /\ drawer[q].pc = "idle" /\ k.table = table
      /\ k.scheme = "sequence" => \A p \in Reqs : ~ N!Holds(p, k)
      /\ N!Have(q, k, N!Text(k, n), FALSE)
  BY <1>1 DEF N!Number
<1>3. k \in Here /\ k.prefix \in Texts
  BY <1>2, HereFacts DEF Here
<1>4. CodeTypes /\ RowsTrue /\ RowsDiffer /\ serial \in Nat
  BY DEF CodesInv, CodeTypes
<1>5. /\ n \in Nat \ {0}
      /\ k.scheme = "sequence" => n = N!After(k, N!Highest({c \in N!Codes : N!Fits(k, c)}))
      /\ k.scheme = "count" => n = CountedUnder(k.prefix) + 1
      /\ k.scheme = "latest" => n <= serial + 1
  BY <1>1, <1>3, <1>4, NextNumberIs
<1>6. PICK c : c = TextOf(k.prefix, n)
  OBVIOUS
<1>7. c \in Texts /\ N!Text(k, n) = c
  BY <1>3, <1>5, <1>6, TextIs, TextDigits
<1>8. \E m \in Nat \ {0} :
         /\ c = TextOf(k.prefix, m)
         /\ k.scheme = "count" => m <= CountedUnder(k.prefix) + 1
         /\ k.scheme = "latest" => m <= serial + 1
  <2>1. k.scheme = "count" => n <= CountedUnder(k.prefix) + 1
    BY <1>5
  <2> QED
    BY <1>5, <1>6, <2>1
<1>9. ASSUME k.scheme = "sequence", N!ByHand = {}, PrefixAlone(k.prefix)
      PROVE  \A r \in papers : r.code \notin TypedCodes /\ N!IsPrefix(k.prefix, r.code) =>
                N!CodeBelow(r.code, c)
  <2>1. N!Alone(k)
    BY <1>3, <1>9 DEF PrefixAlone
  <2> QED
    BY <1>3, <1>4, <1>5, <1>6, <1>9, <2>1, NumberAbove
<1>10. PICK typed \in BOOLEAN : typed = FALSE
  OBVIOUS
<1>11. N!Have(q, k, c, typed)
  BY <1>2, <1>7, <1>10
<1> QED
  BY <1>2, <1>3, <1>7, <1>8, <1>9, <1>10, <1>11, DrawnKeeps

\* A code is typed.
LEMMA TypeCodeKeeps ==
    ASSUME CodesInv, NEW q \in Reqs, NEW k \in Kinds, NEW c \in TypedCodes, N!TypeCode(q, k, c)
    PROVE  CodesInv'
<1>1. /\ drawer[q].pc = "idle" /\ k.table = table
      /\ k.scheme \in {"sequence", "latest"}
      /\ N!Have(q, k, c, TRUE)
  BY DEF N!TypeCode
<1>2. k \in Here
  BY <1>1 DEF Here
<1>3. c \in Texts
  BY CodesAssumed DEF N!CodesAssumption, N!Code, Texts, Digit
<1>4. PICK typed \in BOOLEAN : typed = TRUE
  OBVIOUS
<1>5. N!Have(q, k, c, typed)
  BY <1>1, <1>4
<1> QED
  BY <1>1, <1>2, <1>3, <1>4, <1>5, DrawnKeeps

\* A request is refused or fails.
LEMMA RefusedKeeps ==
    ASSUME CodesInv, NEW q \in Reqs, N!Refused(q) \/ N!Rollback(q)
    PROVE  CodesInv'
<1>1. serial \in Nat
  BY DEF CodesInv, CodeTypes
<1>2. /\ drawer' = [drawer EXCEPT ![q] = N!Idle] /\ UNCHANGED <<papers, table>>
      /\ serial' \in {serial, serial + 1}
  BY DEF N!Refused, N!Rollback
<1>3. serial' \in Nat /\ serial <= serial'
  BY <1>1, <1>2
<1> QED
  BY <1>2, <1>3, EndingKeeps

\* A request takes the next id, for a code that nobody else has inserted.
LEMMA InsertKeeps == ASSUME CodesInv, NEW q \in Reqs, N!Insert(q) PROVE CodesInv'
<1>1. PICK y : y = drawer[q]
  OBVIOUS
<1>2. PICK x : x = [y EXCEPT !.pc = "inserted", !.id = serial + 1]
  OBVIOUS
<1>3. /\ y.pc = "coded" /\ N!Free(q, y.code)
      /\ serial' = serial + 1 /\ drawer' = [drawer EXCEPT ![q] = x]
      /\ UNCHANGED <<papers, table>>
  BY <1>1, <1>2 DEF N!Insert
<1>4. serial \in Nat /\ serial' \in Nat /\ serial <= serial' /\ y \in Requests
  BY <1>1, <1>3 DEF CodesInv, CodeTypes
<1>5. y # N!Idle
  BY <1>3 DEF N!Idle
<1>6. /\ x \in Requests /\ x.pc = "inserted" /\ x.id = serial + 1 /\ x.code = y.code
      /\ x.typed = y.typed /\ x.scheme = y.scheme /\ x.prefix = y.prefix /\ x.beside = y.beside
  <2>1. y \in [pc : {"coded", "inserted"}, id : Nat, code : Texts, typed : BOOLEAN,
               scheme : N!Schemes, prefix : Texts, beside : BOOLEAN]
    BY <1>4, <1>5 DEF Requests
  <2>2. x = [pc |-> "inserted", id |-> serial + 1, code |-> y.code, typed |-> y.typed,
             scheme |-> y.scheme, prefix |-> y.prefix, beside |-> y.beside]
    BY <1>2, <2>1
  <2>3. serial + 1 \in Nat
    BY <1>4
  <2> QED
    BY <2>1, <2>2, <2>3 DEF Requests
<1>7. drawer'[q] = x /\ \A p \in Reqs \ {q} : drawer'[p] = drawer[p]
  BY <1>3, OneDrawn DEF CodesInv
<1>8. CodeTypes'
  BY <1>3, <1>4, <1>6 DEF CodesInv, CodeTypes, Rows
<1>9. RowsTrue'
  BY <1>3, RowsStay, AllRows DEF CodesInv, RowsTrue
<1>10. RequestTrue(x)
  <2>1. RequestTrue(y)
    BY <1>1, <1>3 DEF CodesInv, RequestsTrue
  <2> QED
    BY <1>3, <1>6, <2>1 DEF RequestTrue
<1>11. RequestsTrue'
  <2> SUFFICES ASSUME NEW p \in Reqs, NEW z, z = drawer'[p], z.pc # "idle"
               PROVE  RequestTrue(z)'
    BY AllRequests
  <2>1. RequestTrue(z)
    BY <1>7, <1>10 DEF CodesInv, RequestsTrue
  <2> QED
    BY <1>3, <1>4, <2>1, RequestsStay
<1>12. RowsDiffer'
  <2>1. RowsDiffer
    BY DEF CodesInv
  <2>2. \A i \in 1..serial : i \in 1..serial' /\ i # serial + 1
    BY <1>3, <1>4
  <2>3. \A r \in papers' : r.id \in 1..serial'
    BY <1>3, <2>1, <2>2 DEF RowsDiffer
  <2>4. \A r, s \in papers' : r # s => r.id # s.id /\ r.code # s.code
    BY <1>3, <2>1 DEF RowsDiffer
  <2>5. ASSUME NEW p \in Reqs, drawer'[p].pc = "inserted"
        PROVE  /\ drawer'[p].id \in 1..serial'
               /\ \A r \in papers : r.id # drawer'[p].id /\ r.code # drawer'[p].code
    <3>1. CASE p = q
      <4>1. serial + 1 \in 1..serial' /\ \A r \in papers : r.id # serial + 1
        BY <1>3, <1>4, <2>1, <2>2 DEF RowsDiffer
      <4>2. \A r \in papers : r.code # y.code
        BY <1>3 DEF N!Free, N!Codes
      <4> QED
        BY <1>6, <1>7, <3>1, <4>1, <4>2
    <3>2. CASE p # q
      BY <1>7, <2>1, <2>2, <2>5, <3>2 DEF RowsDiffer
    <3> QED
      BY <3>1, <3>2
  <2>6. ASSUME NEW p \in Reqs \ {q}, drawer'[p].pc = "inserted"
        PROVE  drawer'[p].id # x.id /\ drawer'[p].code # x.code
    <3>1. drawer[p].pc = "inserted" /\ drawer[p].id \in 1..serial /\ drawer'[p] = drawer[p]
      BY <1>7, <2>1, <2>6 DEF RowsDiffer
    <3>2. drawer[p].code # y.code
      BY <1>3, <3>1 DEF N!Free
    <3> QED
      BY <1>6, <2>2, <3>1, <3>2
  <2>7. ASSUME NEW p \in Reqs, NEW o \in Reqs, p # o,
               drawer'[p].pc = "inserted", drawer'[o].pc = "inserted"
        PROVE  drawer'[o].id # drawer'[p].id /\ drawer'[o].code # drawer'[p].code
    <3>1. CASE p = q
      BY <1>7, <2>6, <2>7, <3>1
    <3>2. CASE o = q
      BY <1>7, <2>6, <2>7, <3>2
    <3>3. CASE p # q /\ o # q
      BY <1>7, <2>1, <2>7, <3>3 DEF RowsDiffer
    <3> QED
      BY <3>1, <3>2, <3>3
  <2> QED
    BY <1>3, <2>3, <2>4, <2>5, <2>7 DEF RowsDiffer
<1>13. \A p \in Reqs : /\ UnderLock(p)' => UnderLock(p)
                       /\ drawer'[p].prefix = drawer[p].prefix \/ ~ UnderLock(p)'
                       /\ drawer'[p].code = drawer[p].code \/ ~ UnderLock(p)'
                       /\ drawer'[p].beside = drawer[p].beside \/ ~ UnderLock(p)'
  <2> TAKE p \in Reqs
  <2>1. CASE p = q
    BY <1>1, <1>3, <1>6, <1>7, <2>1 DEF UnderLock
  <2>2. CASE p # q
    BY <1>7, <2>2 DEF UnderLock
  <2> QED
    BY <2>1, <2>2
<1>14. Locked'
  BY <1>13 DEF CodesInv, Locked
<1>15. Above'
  <2>1. \A p : PrefixAlone(p)' <=> PrefixAlone(p)
    BY <1>3 DEF PrefixAlone, Here
  <2>2. SUFFICES ASSUME NEW p \in Reqs, UnderLock(p)', ~ drawer'[p].beside,
                        PrefixAlone(drawer'[p].prefix), NEW r \in papers,
                        r.code \notin TypedCodes, N!IsPrefix(drawer'[p].prefix, r.code)
                 PROVE  N!CodeBelow(r.code, drawer'[p].code)
    BY <1>3, <2>1 DEF Above
  <2> QED
    BY <1>13, <2>2 DEF CodesInv, Above
<1> QED
  BY <1>8, <1>9, <1>11, <1>12, <1>14, <1>15 DEF CodesInv

\* A row that is new, of the request that commits.
LEMMA CommitKeeps == ASSUME CodesInv, NEW q \in Reqs, N!Commit(q) PROVE CodesInv'
<1>1. PICK y : y = drawer[q]
  OBVIOUS
<1>2. PICK new : new = [id |-> y.id, code |-> y.code]
  OBVIOUS
<1>3. /\ y.pc = "inserted" /\ papers' = papers \union {new}
      /\ drawer' = [drawer EXCEPT ![q] = N!Idle] /\ UNCHANGED <<serial, table>>
  BY <1>1, <1>2 DEF N!Commit
<1>4. /\ papers \subseteq Rows /\ IsFiniteSet(papers) /\ serial \in Nat /\ y \in Requests
      /\ CodeTypes
  BY <1>1 DEF CodesInv, CodeTypes
<1>5. /\ new \in Rows /\ new.id = y.id /\ new.code = y.code /\ y.code \in Texts
      /\ y.typed \in BOOLEAN
  <2>1. y \in [pc : {"coded", "inserted"}, id : Nat, code : Texts, typed : BOOLEAN,
               scheme : N!Schemes, prefix : Texts, beside : BOOLEAN]
    BY <1>3, <1>4 DEF Requests, N!Idle
  <2> QED
    BY <1>2, <2>1 DEF Rows
<1>6. /\ new.id \in 1..serial
      /\ \A r \in papers : r.id # new.id /\ r.code # new.code
      /\ \A p \in Reqs \ {q} : drawer[p].pc = "inserted" =>
            drawer[p].id # new.id /\ drawer[p].code # new.code
  BY <1>1, <1>3, <1>5 DEF CodesInv, RowsDiffer
<1>7. drawer'[q] = N!Idle /\ \A p \in Reqs \ {q} : drawer'[p] = drawer[p]
  BY <1>3, OneDrawn DEF CodesInv
<1>8. \A p \in Reqs : drawer'[p].pc # "idle" => p # q /\ drawer'[p] = drawer[p]
  BY <1>7 DEF N!Idle
<1>9. Here' = Here
  BY <1>3 DEF Here
<1>10. IsFiniteSet(papers') /\ CodeTypes'
  <2>1. IsFiniteSet(papers')
    BY <1>3, <1>4, FS_AddElement
  <2>2. N!Idle \in Requests
    BY DEF Requests
  <2> QED
    BY <1>3, <1>4, <1>5, <2>1, <2>2 DEF CodeTypes
<1>11. ASSUME NEW p
       PROVE  /\ CountedUnder(p) \in Nat /\ CountedUnder(p)' \in Nat
              /\ CountedUnder(p) <= CountedUnder(p)'
              /\ N!IsPrefix(p, new.code) => CountedUnder(p)' = CountedUnder(p) + 1
  <2> DEFINE c == {r \in papers : N!IsPrefix(p, r.code)}
             d == {r \in papers' : N!IsPrefix(p, r.code)}
  <2>1. IsFiniteSet(c) /\ IsFiniteSet(d)
    BY <1>4, <1>10, FS_Subset
  <2>2. c \subseteq d
    BY <1>3
  <2>3. N!IsPrefix(p, new.code) => d = c \union {new} /\ new \notin c
    BY <1>3, <1>6
  <2>4. CountedUnder(p) = Cardinality(c) /\ CountedUnder(p)' = Cardinality(d)
    BY DEF CountedUnder
  <2> HIDE DEF c, d
  <2>5. Cardinality(c) \in Nat /\ Cardinality(d) \in Nat
    BY <2>1, FS_CardinalityType
  <2>6. Cardinality(c) <= Cardinality(d)
    BY <2>1, <2>2, FS_Subset
  <2>7. new \notin c => Cardinality(c \union {new}) = Cardinality(c) + 1
    BY <2>1, FS_AddElement
  <2> QED
    BY <2>3, <2>4, <2>5, <2>6, <2>7
<1>12. RequestTrue(y)
  BY <1>1, <1>3 DEF CodesInv, RequestsTrue
<1>13. PICK l \in Here :
         /\ l.scheme = y.scheme /\ l.prefix = y.prefix
         /\ y.typed => l.scheme \in {"sequence", "latest"} /\ y.code \in TypedCodes
         /\ ~ y.typed => \E m \in Nat \ {0} :
               /\ y.code = TextOf(l.prefix, m)
               /\ l.scheme = "count" => m <= CountedUnder(l.prefix) + 1
               /\ l.scheme = "latest" => m <= y.id
  BY <1>3, <1>12 DEF RequestTrue
<1>14. l.prefix \in Texts
  BY HereFacts
<1>15. RowTrue(new)'
  <2>1. CASE y.typed
    BY <1>5, <1>9, <1>13, <2>1 DEF RowTrue
  <2>2. CASE ~ y.typed
    <3>1. PICK m \in Nat \ {0} :
               /\ y.code = TextOf(l.prefix, m)
               /\ l.scheme = "count" => m <= CountedUnder(l.prefix) + 1
               /\ l.scheme = "latest" => m <= y.id
      BY <1>13, <2>2
    <3>2. N!IsPrefix(l.prefix, new.code)
      BY <1>5, <1>14, <3>1, PrefixBegins
    <3>3. CountedUnder(l.prefix)' = CountedUnder(l.prefix) + 1
      <4>1. PICK p : p = l.prefix
        OBVIOUS
      <4> QED
        BY <1>11, <3>2, <4>1
    <3>4. l.scheme = "count" => m <= CountedUnder(l.prefix)'
      BY <3>1, <3>3
    <3> QED
      BY <1>5, <1>9, <3>1, <3>4 DEF RowTrue
  <2> QED
    BY <2>1, <2>2
<1>16. ASSUME NEW r \in papers PROVE RowTrue(r)'
  <2>1. PICK k \in Here :
           \/ k.scheme \in {"sequence", "latest"} /\ r.code \in TypedCodes
           \/ \E m \in Nat \ {0} :
                 /\ r.code = TextOf(k.prefix, m)
                 /\ k.scheme = "count" => m <= CountedUnder(k.prefix)
                 /\ k.scheme = "latest" => m <= r.id
    BY DEF CodesInv, RowsTrue, RowTrue
  <2>2. CASE k.scheme \in {"sequence", "latest"} /\ r.code \in TypedCodes
    BY <1>9, <2>2 DEF RowTrue
  <2>3. ASSUME NEW m \in Nat \ {0}, r.code = TextOf(k.prefix, m),
               k.scheme = "count" => m <= CountedUnder(k.prefix),
               k.scheme = "latest" => m <= r.id
        PROVE  RowTrue(r)'
    <3>1. k.scheme = "count" => m <= CountedUnder(k.prefix)'
      <4>1. PICK p : p = k.prefix
        OBVIOUS
      <4>2. PICK a \in Nat, b \in Nat :
               a = CountedUnder(p) /\ b = CountedUnder(p)' /\ a <= b
        BY <1>11
      <4>3. a = CountedUnder(k.prefix) /\ b = CountedUnder(k.prefix)'
        BY <4>1, <4>2
      <4> QED
        BY <2>3, <4>2, <4>3
    <3> QED
      BY <1>9, <2>3, <3>1 DEF RowTrue
  <2> QED
    BY <2>1, <2>2, <2>3
<1>17. RowsTrue'
  <2>1. \A r \in papers' : r = new \/ r \in papers
    BY <1>3
  <2>2. \A r \in papers' : RowTrue(r)'
    BY <1>15, <1>16, <2>1
  <2> QED
    BY <2>2, AllRows
<1>18. RequestsTrue'
  <2> SUFFICES ASSUME NEW p \in Reqs, NEW z, z = drawer'[p], z.pc # "idle"
               PROVE  RequestTrue(z)'
    BY AllRequests
  <2>1. RequestTrue(z)
    BY <1>8 DEF CodesInv, RequestsTrue
  <2>2. PICK k \in Here :
         /\ k.scheme = z.scheme /\ k.prefix = z.prefix
         /\ z.typed => k.scheme \in {"sequence", "latest"} /\ z.code \in TypedCodes
         /\ ~ z.typed => \E m \in Nat \ {0} :
               /\ z.code = TextOf(k.prefix, m)
               /\ k.scheme = "count" => m <= CountedUnder(k.prefix) + 1
               /\ k.scheme = "latest" => m <= IF z.pc = "coded" THEN serial + 1 ELSE z.id
    BY <2>1 DEF RequestTrue
  <2>3. ASSUME NEW m \in Nat, m <= CountedUnder(k.prefix) + 1
        PROVE  m <= CountedUnder(k.prefix)' + 1
    <3>1. PICK o : o = k.prefix
      OBVIOUS
    <3>2. PICK a \in Nat, b \in Nat : a = CountedUnder(o) /\ b = CountedUnder(o)' /\ a <= b
      BY <1>11
    <3>3. a = CountedUnder(k.prefix) /\ b = CountedUnder(k.prefix)'
      BY <3>1, <3>2
    <3> QED
      BY <2>3, <3>2, <3>3
  <2>4. ~ z.typed => \E m \in Nat \ {0} :
               /\ z.code = TextOf(k.prefix, m)
               /\ k.scheme = "count" => m <= CountedUnder(k.prefix)' + 1
               /\ k.scheme = "latest" => m <= IF z.pc = "coded" THEN serial + 1 ELSE z.id
    BY <2>2, <2>3
  <2> QED
    BY <1>3, <1>9, <2>2, <2>4 DEF RequestTrue
<1>19. RowsDiffer'
  <2>1. RowsDiffer
    BY DEF CodesInv
  <2>2. \A r \in papers' : r.id \in 1..serial'
    BY <1>3, <1>6, <2>1 DEF RowsDiffer
  <2>3. ASSUME NEW r \in papers', NEW s \in papers', r # s PROVE r.id # s.id /\ r.code # s.code
    <3>1. CASE r \in papers /\ s \in papers
      BY <2>1, <2>3, <3>1 DEF RowsDiffer
    <3>2. CASE r = new /\ s \in papers
      BY <1>6, <3>2
    <3>3. CASE s = new /\ r \in papers
      BY <1>6, <3>3
    <3> QED
      BY <1>3, <2>3, <3>1, <3>2, <3>3
  <2>4. ASSUME NEW p \in Reqs, drawer'[p].pc = "inserted"
        PROVE  /\ drawer'[p].id \in 1..serial'
               /\ \A r \in papers' : r.id # drawer'[p].id /\ r.code # drawer'[p].code
               /\ \A o \in Reqs : o # p /\ drawer'[o].pc = "inserted" =>
                     drawer'[o].id # drawer'[p].id /\ drawer'[o].code # drawer'[p].code
    <3>1. p # q /\ drawer'[p] = drawer[p]
      BY <1>8, <2>4
    <3>2. /\ drawer[p].id \in 1..serial
          /\ \A r \in papers : r.id # drawer[p].id /\ r.code # drawer[p].code
          /\ \A o \in Reqs : o # p /\ drawer[o].pc = "inserted" =>
                     drawer[o].id # drawer[p].id /\ drawer[o].code # drawer[p].code
      BY <2>1, <2>4, <3>1 DEF RowsDiffer
    <3>3. new.id # drawer[p].id /\ new.code # drawer[p].code
      BY <1>6, <2>4, <3>1
    <3>4. \A o \in Reqs : drawer'[o].pc = "inserted" => drawer'[o] = drawer[o]
      BY <1>8
    <3> QED
      BY <1>3, <3>1, <3>2, <3>3, <3>4
  <2> QED
    BY <2>2, <2>3, <2>4 DEF RowsDiffer
<1>20. \A p \in Reqs : UnderLock(p)' => UnderLock(p) /\ p # q /\ drawer'[p] = drawer[p]
  BY <1>8 DEF UnderLock
<1>21. Locked'
  BY <1>20 DEF CodesInv, Locked
<1>22. Above'
  <2>1. \A p : PrefixAlone(p)' <=> PrefixAlone(p)
    BY <1>3 DEF PrefixAlone, Here
  <2>2. SUFFICES ASSUME NEW p \in Reqs, UnderLock(p)', ~ drawer'[p].beside,
                        PrefixAlone(drawer'[p].prefix), NEW r \in papers',
                        r.code \notin TypedCodes, N!IsPrefix(drawer'[p].prefix, r.code)
                 PROVE  N!CodeBelow(r.code, drawer'[p].code)
    BY <2>1 DEF Above
  <2>3. UnderLock(p) /\ p # q /\ drawer'[p] = drawer[p]
    BY <1>20, <2>2
  <2>4. CASE r \in papers
    BY <2>2, <2>3, <2>4 DEF CodesInv, Above
  <2>5. CASE r = new
    <3>1. ~ y.typed
      BY <1>5, <1>13, <2>2, <2>5
    <3>2. PICK k \in Here : k.scheme = drawer[p].scheme /\ k.prefix = drawer[p].prefix
      BY <2>3 DEF CodesInv, RequestsTrue, RequestTrue, UnderLock
    <3>3. k.scheme = "sequence" /\ N!Alone(k)
      BY <2>2, <2>3, <3>2 DEF UnderLock, PrefixAlone
    <3>4. l.scheme = "sequence"
      BY <3>3, HereFacts
    <3>5. UnderLock(q)
      BY <1>1, <1>3, <1>13, <3>1, <3>4 DEF UnderLock
    <3>6. drawer[p].prefix # y.prefix
      BY <1>1, <2>3, <3>5 DEF CodesInv, Locked
    <3>7. N!IsPrefix(l.prefix, new.code)
      BY <1>5, <1>13, <1>14, <3>1, PrefixBegins
    <3>8. N!IsPrefix(k.prefix, new.code) /\ new.code \in Texts
      BY <1>5, <2>2, <2>3, <2>5, <3>2
    <3>9. k = l
      BY <3>3, <3>7, <3>8, OneKind
    <3> QED
      BY <1>13, <3>2, <3>6, <3>9
  <2> QED
    BY <1>3, <2>4, <2>5
<1> QED
  BY <1>10, <1>17, <1>18, <1>19, <1>21, <1>22 DEF CodesInv

\* Rows are deleted where they are not counted.
LEMMA DeleteKeeps == ASSUME CodesInv, NEW gone \in papers, N!Delete(gone) PROVE CodesInv'
<1>1. /\ papers' = papers \ {gone} /\ UNCHANGED <<serial, drawer, table>>
      /\ \E k \in Here : k.deleted
  BY DEF N!Delete, Here
<1>2. Here' = Here /\ \A k \in Here : k.scheme # "count"
  <2>1. Here' = Here
    BY <1>1 DEF Here
  <2> QED
    BY <1>1, <2>1, HereFacts
<1>3. papers' \subseteq papers /\ IsFiniteSet(papers')
  BY <1>1, FS_Subset DEF CodesInv, CodeTypes
<1>4. CodeTypes'
  BY <1>1, <1>3 DEF CodesInv, CodeTypes
<1>5. RowsTrue'
  <2>1. ASSUME NEW r \in papers' PROVE RowTrue(r)'
    <3>1. RowTrue(r)
      BY <1>3 DEF CodesInv, RowsTrue
    <3> QED
      BY <1>1, <1>2, <3>1 DEF RowTrue
  <2> QED
    BY <2>1, AllRows
<1>6. RequestsTrue'
  <2> SUFFICES ASSUME NEW p \in Reqs, NEW z, z = drawer'[p], z.pc # "idle"
               PROVE  RequestTrue(z)'
    BY AllRequests
  <2>1. RequestTrue(z)
    BY <1>1 DEF CodesInv, RequestsTrue
  <2> QED
    BY <1>1, <1>2, <2>1 DEF RequestTrue
<1>7. RowsDiffer'
  BY <1>1, <1>3 DEF CodesInv, RowsDiffer
<1>8. \A p \in Reqs : UnderLock(p)' <=> UnderLock(p)
  BY <1>1 DEF UnderLock
<1>9. Locked'
  BY <1>1, <1>8 DEF CodesInv, Locked
<1>10. Above'
  <2>1. \A p : PrefixAlone(p)' <=> PrefixAlone(p)
    BY <1>1 DEF PrefixAlone, Here
  <2> QED
    BY <1>1, <1>3, <1>8, <2>1 DEF CodesInv, Above
<1> QED
  BY <1>4, <1>5, <1>6, <1>7, <1>9, <1>10 DEF CodesInv

\* The table is empty at first.
LEMMA CodesStart == ASSUME N!Init PROVE CodesInv
<1>1. papers = {} /\ serial = 0 /\ drawer = [q \in Reqs |-> N!Idle]
      /\ table \in {k.table : k \in Kinds}
  BY DEF N!Init
<1>2. \A q \in Reqs : drawer[q].pc = "idle"
  BY <1>1 DEF N!Idle
<1>3. CodeTypes
  BY <1>1, FS_EmptySet DEF CodeTypes, Requests
<1>4. RowsTrue /\ RequestsTrue /\ RowsDiffer /\ Locked /\ Above
  BY <1>1, <1>2 DEF RowsTrue, RequestsTrue, RowsDiffer, Locked, Above, UnderLock
<1> QED
  BY <1>3, <1>4 DEF CodesInv

\* Whoever draws, inserts, commits or deletes, it stays so.
LEMMA CodesKept == N!Spec => []CodesInv
<1>1. CodesInv /\ [N!Next]_(N!vars) => CodesInv'
  <2> SUFFICES ASSUME CodesInv, [N!Next]_(N!vars) PROVE CodesInv'
    OBVIOUS
  <2>1. ASSUME NEW q \in Reqs, NEW k \in Kinds, N!Number(q, k) PROVE CodesInv'
    BY <2>1, NumberKeeps
  <2>2. ASSUME NEW q \in Reqs, NEW k \in Kinds, NEW c \in TypedCodes, N!TypeCode(q, k, c)
        PROVE  CodesInv'
    BY <2>2, TypeCodeKeeps
  <2>3. ASSUME NEW q \in Reqs, N!Insert(q) PROVE CodesInv'
    BY <2>3, InsertKeeps
  <2>4. ASSUME NEW q \in Reqs, N!Refused(q) \/ N!Rollback(q) PROVE CodesInv'
    BY <2>4, RefusedKeeps
  <2>5. ASSUME NEW q \in Reqs, N!Commit(q) PROVE CodesInv'
    BY <2>5, CommitKeeps
  <2>6. ASSUME NEW r \in papers, N!Delete(r) PROVE CodesInv'
    BY <2>6, DeleteKeeps
  <2>7. CASE UNCHANGED N!vars
    <3>1. UNCHANGED <<papers, serial, drawer, table>>
      BY <2>7 DEF N!vars
    <3>2. CodeTypes' /\ serial \in Nat /\ serial <= serial'
      BY <3>1 DEF CodesInv, CodeTypes, Rows
    <3>3. RowsTrue'
      BY <3>1, RowsStay, AllRows DEF CodesInv, RowsTrue
    <3>4. RequestsTrue'
      <4> SUFFICES ASSUME NEW p \in Reqs, NEW y, y = drawer'[p], y.pc # "idle"
                   PROVE  RequestTrue(y)'
        BY AllRequests
      <4>1. RequestTrue(y)
        BY <3>1 DEF CodesInv, RequestsTrue
      <4> QED
        BY <3>1, <3>2, <4>1, RequestsStay
    <3>5. RowsDiffer' /\ Locked' /\ Above'
      BY <3>1 DEF CodesInv, RowsDiffer, Locked, Above, UnderLock, PrefixAlone, Here
    <3> QED
      BY <3>2, <3>3, <3>4, <3>5 DEF CodesInv
  <2> QED
    BY <2>1, <2>2, <2>3, <2>4, <2>5, <2>6, <2>7 DEF N!Next
<1> QED
  BY <1>1, CodesStart, PTL DEF N!Spec

\* Nobody waits for, or is refused, a number taken under its lock.
LEMMA NumbersAreFree == CodesInv => N!NumberedUnderLock
<1> SUFFICES ASSUME CodesInv, N!ByHand = {}, NEW q \in Reqs,
                    drawer[q].pc = "coded", drawer[q].scheme = "sequence", ~ drawer[q].beside,
                    \A p \in Reqs : ~ N!Typed(p),
                    \A k \in Kinds : k.table = table /\ k.prefix = drawer[q].prefix => N!Alone(k)
             PROVE  N!Free(q, drawer[q].code)
  BY DEF N!NumberedUnderLock
<1>1. UnderLock(q) /\ PrefixAlone(drawer[q].prefix)
  BY DEF N!Typed, UnderLock, PrefixAlone, Here
<1>2. PICK x : x = drawer[q]
  OBVIOUS
<1>3. RequestTrue(x) /\ ~ x.typed
  BY <1>1, <1>2 DEF CodesInv, RequestsTrue, UnderLock
<1>4. PICK k \in Here, m \in Nat : /\ k.scheme = x.scheme /\ k.prefix = x.prefix
                                   /\ x.code = TextOf(k.prefix, m)
  BY <1>3 DEF RequestTrue
<1>5. /\ k.prefix \in Texts /\ x.code \in Texts /\ N!IsPrefix(k.prefix, x.code)
      /\ N!Alone(k) /\ k.scheme = "sequence"
  BY <1>1, <1>2, <1>4, HereFacts, TextDigits, PrefixBegins DEF PrefixAlone
<1>6. x.code \notin N!Codes
  <2> SUFFICES ASSUME NEW r \in papers, r.code = x.code PROVE FALSE
    BY DEF N!Codes
  <2>1. r.code \notin TypedCodes
    BY DEF N!ByHand, N!Codes
  <2>2. N!CodeBelow(x.code, x.code)
    BY <1>1, <1>2, <1>4, <1>5, <2>1 DEF CodesInv, Above
  <2> QED
    BY <1>5, <2>2, CodeBelowOneWay
<1>7. ASSUME NEW p \in Reqs \ {q}, drawer[p].pc = "inserted" PROVE drawer[p].code # x.code
  <2>1. PICK y : y = drawer[p]
    OBVIOUS
  <2>2. RequestTrue(y) /\ ~ y.typed
    BY <1>7, <2>1 DEF CodesInv, RequestsTrue, N!Typed
  <2>3. PICK l \in Here, n \in Nat : /\ l.scheme = y.scheme /\ l.prefix = y.prefix
                                     /\ y.code = TextOf(l.prefix, n)
    BY <2>2 DEF RequestTrue
  <2>4. l.prefix \in Texts /\ N!IsPrefix(l.prefix, y.code) /\ l.scheme = "sequence"
    BY <1>5, <2>3, HereFacts, PrefixBegins
  <2>5. UnderLock(p)
    BY <1>7, <2>1, <2>2, <2>3, <2>4 DEF UnderLock
  <2>6. l # k
    BY <1>1, <1>2, <1>4, <2>1, <2>3, <2>5 DEF CodesInv, Locked
  <2> QED
    BY <1>5, <2>1, <2>4, <2>6, OneKind
<1> QED
  BY <1>2, <1>6, <1>7 DEF N!Free

\* The next number is in no row.
LEMMA NextNumbersAreFree == CodesInv => N!NextIsFree
<1> SUFFICES ASSUME CodesInv, NEW k \in Kinds, k.table = table,
                    k.scheme = "sequence" =>
                       N!Alone(k) /\ \A c \in N!Codes : N!Fits(k, c) => N!WellFormed(k, c),
                    k.scheme = "highest" =>
                       \A c \in N!Codes : Len(c) <= Len(k.prefix) + Width,
                    k.scheme = "latest" => N!ByHand = {},
                    N!Text(k, N!NextNumber(k)) \in N!Codes
             PROVE  FALSE
  BY DEF N!NextIsFree
<1>1. PICK n : n = N!NextNumber(k)
  OBVIOUS
<1>2. k \in Here /\ k.prefix \in Texts /\ k.scheme \in N!Schemes
  BY HereFacts DEF Here
<1>3. CodeTypes /\ RowsTrue /\ RowsDiffer
  BY DEF CodesInv
<1>4. IsFiniteSet(N!Codes) /\ N!Codes \subseteq Texts
  BY <1>3, CodesFinite
<1>5. /\ n \in Nat \ {0}
      /\ k.scheme = "sequence" => n = N!After(k, N!Highest({c \in N!Codes : N!Fits(k, c)}))
      /\ k.scheme = "highest" => n = N!After(k, N!Greatest(N!Codes))
      /\ k.scheme = "count" => n = CountedUnder(k.prefix) + 1
      /\ k.scheme = "latest" => \A r \in papers : r.id < n
  BY <1>1, <1>2, <1>3, NextNumberIs
<1>6. PICK p \in Texts : p = k.prefix
  BY <1>2
<1>7. PICK t \in Texts : t = TextOf(p, n) /\ t \in N!Codes
  BY <1>1, <1>2, <1>5, <1>6, TextIs, TextDigits
<1>8. N!IsPrefix(p, t) /\ Len(t) >= Len(p) + Width
  <2>1. /\ Len(p) \in Nat /\ Len(Padded(n)) \in Nat /\ Len(Padded(n)) >= Width
        /\ Len(TextOf(p, n)) = Len(p) + Len(Padded(n))
    BY <1>5, TextDigits
  <2> QED
    BY <1>5, <1>7, <2>1, PrefixBegins, RadixIs
<1>9. PICK taken \in papers : taken.code = t
  BY <1>7 DEF N!Codes
<1>10. PICK l \in Here :
           \/ l.scheme \in {"sequence", "latest"} /\ t \in TypedCodes
           \/ \E m \in Nat \ {0} :
                 /\ t = TextOf(l.prefix, m)
                 /\ l.scheme = "count" => m <= CountedUnder(l.prefix)
                 /\ l.scheme = "latest" => m <= taken.id
  BY <1>3, <1>9 DEF RowsTrue, RowTrue
<1>11. l.scheme = k.scheme /\ l.prefix \in Texts
  BY <1>2, HereFacts
<1>12. ASSUME NEW m \in Nat, t = TextOf(p, m) PROVE m = n
  <2>1. N!NumberIn(k, t) = m /\ N!NumberIn(k, t) = n
    BY <1>2, <1>5, <1>6, <1>7, <1>12, NumberRead
  <2> QED
    BY <2>1
<1>13. CASE k.scheme = "sequence"
  <2> DEFINE C == {c \in N!Codes : N!Fits(k, c)}
  <2>1. \A c \in C : \E m \in Nat : c = TextOf(p, m)
    <3> TAKE c \in C
    <3>1. c = N!Text(k, N!NumberIn(k, c)) /\ c \in Texts
      BY <1>4, <1>13 DEF N!WellFormed
    <3>2. N!NumberIn(k, c) \in Nat
      BY <1>2, <3>1, NumberType
    <3> QED
      BY <1>2, <1>6, <3>1, <3>2, TextIs
  <2>2. IsFiniteSet(C)
    BY <1>4, FS_Subset
  <2>3. t \in C
    BY <1>6, <1>7, <1>8 DEF N!Fits
  <2> HIDE DEF C
  <2>4. n = N!After(k, N!Highest(C))
    BY <1>5, <1>13 DEF C
  <2>5. N!CodeBelow(t, TextOf(p, n))
    BY <1>6, <2>1, <2>2, <2>3, <2>4, AfterHighest
  <2> QED
    BY <1>7, <2>5, CodeBelowOneWay
<1>14. CASE k.scheme = "highest"
  <2>1. \A c \in N!Codes : /\ \E m \in Nat : c = TextOf(p, m)
                           /\ Len(c) = Len(p) + Width
    <3> TAKE c \in N!Codes
    <3>1. PICK r \in papers : r.code = c
      BY DEF N!Codes
    <3>2. PICK h \in Here : h.scheme \in {"sequence", "latest"} \/
                            \E m \in Nat : c = TextOf(h.prefix, m)
      BY <1>3, <3>1 DEF RowsTrue, RowTrue
    <3>3. h = k
      BY <1>2, <1>14, HereFacts
    <3>4. PICK m \in Nat : c = TextOf(p, m)
      BY <1>6, <1>14, <3>2, <3>3
    <3>5. /\ Len(p) \in Nat /\ Len(Padded(m)) \in Nat /\ Len(Padded(m)) >= Width
          /\ Len(TextOf(p, m)) = Len(p) + Len(Padded(m))
      BY TextDigits
    <3>6. Len(c) <= Len(p) + Width
      BY <1>6, <1>14
    <3> QED
      BY <3>4, <3>5, <3>6, RadixIs
  <2>2. PICK C : C = N!Codes
    OBVIOUS
  <2>3. N!Greatest(C) = N!Highest(C)
    BY <1>4, <2>1, <2>2, GreatestIsHighest
  <2>4. n = N!After(k, N!Highest(C))
    BY <1>5, <1>14, <2>2, <2>3
  <2>5. N!CodeBelow(t, TextOf(p, n))
    BY <1>4, <1>6, <1>7, <2>1, <2>2, <2>4, AfterHighest
  <2> QED
    BY <1>7, <2>5, CodeBelowOneWay
<1>15. CASE k.scheme = "count"
  <2>1. PICK m \in Nat \ {0} : t = TextOf(l.prefix, m) /\ m <= CountedUnder(l.prefix)
    BY <1>10, <1>11, <1>15
  <2>2. N!IsPrefix(l.prefix, t)
    BY <1>11, <2>1, PrefixBegins
  <2>3. k = l
    BY <1>2, <1>6, <1>8, <1>15, <2>2, HereFacts, OneKind
  <2>4. PICK a \in Nat : a = CountedUnder(p)
    BY <1>3, CountedType
  <2>5. m = n
    BY <1>6, <1>12, <2>1, <2>3
  <2>6. n = a + 1 /\ n <= a
    BY <1>5, <1>6, <1>15, <2>1, <2>3, <2>4, <2>5
  <2> QED
    BY <2>4, <2>6
<1>16. CASE k.scheme = "latest"
  <2>1. t \notin TypedCodes
    BY <1>7, <1>16 DEF N!ByHand
  <2>2. k = l
    BY <1>2, <1>16, HereFacts
  <2>3. PICK m \in Nat \ {0} : t = TextOf(p, m) /\ m <= taken.id
    BY <1>6, <1>10, <1>16, <2>1, <2>2
  <2>4. m = n
    BY <1>12, <2>3
  <2>5. taken.id < n /\ taken.id \in Nat
    BY <1>3, <1>5, <1>16 DEF CodeTypes, Rows
  <2> QED
    BY <1>5, <2>3, <2>4, <2>5
<1> QED
  BY <1>2, <1>13, <1>14, <1>15, <1>16 DEF N!Schemes

\* `nextSequentialCode' and the other schemes: the next number is never taken, and one
\* drawn under the lock is not refused.
THEOREM CodesAreAlwaysFree == Spec => []CodesAreFree
<1>1. CodesInv => CodesAreFree
  BY NumbersAreFree, NextNumbersAreFree DEF CodesAreFree
<1> QED
  BY <1>1, CodesAsAlone, CodesKept, PTL

\* The table's rows are rows, no two of one id or code.
LEMMA CodesTyped == CodesInv => N!TypeOK
<1> SUFFICES ASSUME CodesInv PROVE N!TypeOK
  OBVIOUS
<1>1. \A r \in papers : r.id \in 1..serial /\ r.code \in N!Code
  BY DEF CodesInv, CodeTypes, RowsDiffer, Rows, N!Code, Texts, Digit
<1>2. \A r, s \in papers : r # s => r.id # s.id /\ r.code # s.code
  BY DEF CodesInv, RowsDiffer
<1>3. \A q \in Reqs : drawer[q].pc \in {"idle", "coded", "inserted"}
  <2> TAKE q \in Reqs
  <2>1. drawer[q] \in Requests
    BY DEF CodesInv, CodeTypes
  <2> QED
    BY <2>1 DEF Requests, N!Idle
<1> QED
  BY <1>1, <1>2, <1>3 DEF N!TypeOK

-----------------------------------------------------------------------------
(* What is read off the stock (StockReports).                              *)

\* The stock's reports fare in the back office as they do by themselves.
LEMMA StockReportsAsAlone == Spec => R!Spec
<1>1. Init => R!Init
  BY DEF Init
<1>2. [Next]_vars => [R!Next]_(R!vars)
  BY DEF Next, vars, rVars, R!vars
<1> QED
  BY <1>1, <1>2, PTL DEF Spec, R!Spec

\* What is assumed of documents and files.
LEMMA ReportsAssumed ==
    /\ \A doc \in Documents : /\ doc.onHand \in Int /\ doc.committed \in Int
                              /\ doc.incoming \in Int /\ doc.sold \in Int
    /\ \A f \in Files : DOMAIN f \subseteq Variants /\ f \in [DOMAIN f -> Nat]
BY OperationsAssumption DEF OperationsAssumption, R!ReportsAssumption

StockRow == [onHand : Nat, committed : Nat, incoming : Nat]

SumsRow == [old : Int, in : Nat, out : Nat, supply : Int, transfer : Int, adjusted : Int,
            committed : Int]

\* Lists and reconciliations under way, and imports.
ListReq == [pc : {"rows"}, alone : BOOLEAN, ids : SUBSET Variants]

RowsReq == [pc : {"extras", "sums"}, alone : BOOLEAN,
            rows : UNION {[some -> StockRow] : some \in SUBSET Variants}]

ImportReq == [pc : {"import"}, alone : BOOLEAN, left : SUBSET Variants,
              file : UNION {[some -> Nat] : some \in SUBSET Variants}]

ReportTypes ==
    /\ level \in [Variants -> StockRow \union {R!NoLevel}]
    /\ book \in [Variants -> SumsRow]
    /\ sold \in [Variants -> [last15 : Int, last30 : Int]]
    /\ opened \in [Variants -> Int] /\ lost \in [Variants -> Nat]
    /\ posts \in Nat
    /\ reader \in {R!Idle} \union ListReq \union RowsReq \union ImportReq

\* The sums of a variant's movements are its levels, but for what was overwritten, and
\* those of before the period are what was on hand when it began.
SumsTell(v) ==
    /\ R!LevelOf(v).onHand + lost[v] = book[v].old + book[v].in - book[v].out
    /\ R!LevelOf(v).committed = book[v].committed
    /\ R!LevelOf(v).incoming = book[v].supply + book[v].transfer + book[v].adjusted
    /\ lost[v] = 0 => opened[v] = book[v].old

\* A request that nothing has disturbed knows the stock as it is.
KnowsStock(r) ==
    /\ r.pc = "extras" /\ r.alone => \A v \in DOMAIN r.rows : r.rows[v] = R!LevelOf(v)
    /\ r.pc = "sums" /\ r.alone =>
          DOMAIN r.rows = R!Stocked /\ \A v \in R!Stocked : r.rows[v] = level[v]
    /\ r.pc = "import" =>
          /\ r.left \subseteq DOMAIN r.file
          /\ r.alone => \A v \in DOMAIN r.file \ r.left : R!LevelOf(v).onHand = r.file[v]

ReportInv ==
    /\ ReportTypes
    /\ \A v \in Variants : SumsTell(v)
    /\ KnowsStock(reader)
    /\ reader # R!Idle => told = R!Nothing
    /\ R!BalancesTrue /\ R!MismatchesTrue /\ R!ImportsHold

\* A level is a row of the stock.
LEMMA LevelIsRow ==
    ASSUME ReportTypes, NEW v \in Variants
    PROVE  /\ R!LevelOf(v) \in StockRow
           /\ v \in R!Stocked <=> level[v] # R!NoLevel
           /\ v \in R!Stocked => level[v] \in StockRow /\ R!LevelOf(v) = level[v]
BY DEF ReportTypes, R!LevelOf, R!Zeros, R!Stocked, R!NoLevel, StockRow

\* In the beginning there is nothing to tell.
LEMMA ReportsBegin == R!Init => ReportInv
<1> SUFFICES ASSUME R!Init PROVE ReportInv
  OBVIOUS
<1>1. /\ level = [v \in Variants |-> R!NoLevel]
      /\ book = [v \in Variants |-> R!NoMoves]
      /\ sold = [v \in Variants |-> [last15 |-> 0, last30 |-> 0]]
      /\ reader = R!Idle /\ told = R!Nothing /\ posts = 0
      /\ opened = [v \in Variants |-> 0] /\ lost = [v \in Variants |-> 0]
  BY DEF R!Init
<1>2. ReportTypes
  <2>1. R!NoMoves \in SumsRow
    BY DEF R!NoMoves, SumsRow
  <2>2. [last15 |-> 0, last30 |-> 0] \in [last15 : Int, last30 : Int]
    OBVIOUS
  <2> QED
    BY <1>1, <2>1, <2>2 DEF ReportTypes
<1>3. \A v \in Variants : SumsTell(v)
  BY <1>1 DEF SumsTell, R!LevelOf, R!NoMoves, R!Zeros
<1>4. KnowsStock(reader)
  BY <1>1 DEF KnowsStock, R!Idle
<1>5. R!BalancesTrue /\ R!MismatchesTrue /\ R!ImportsHold
  BY <1>1 DEF R!BalancesTrue, R!MismatchesTrue, R!ImportsHold, R!Nothing
<1> QED
  BY <1>1, <1>2, <1>3, <1>4, <1>5 DEF ReportInv

\* Whatever says nothing says nothing wrong.
LEMMA NothingTold ==
    told' = R!Nothing => (R!BalancesTrue /\ R!MismatchesTrue /\ R!ImportsHold)'
BY DEF R!BalancesTrue, R!MismatchesTrue, R!ImportsHold, R!Nothing

\* A request knows nothing of what was there if it has been disturbed.
LEMMA DisturbedKnows ==
    ASSUME ReportInv, R!Disturb
    PROVE  /\ KnowsStock(reader)' /\ told' = R!Nothing
           /\ reader' \in {R!Idle} \union ListReq \union RowsReq \union ImportReq
<1>1. told' = R!Nothing
  BY DEF R!Disturb
<1>2. CASE reader = R!Idle
  <2>1. reader' = R!Idle
    BY <1>2 DEF R!Disturb
  <2> QED
    BY <1>1, <2>1 DEF KnowsStock, R!Idle
<1>3. CASE reader \in ListReq
  <2>1. reader' = [reader EXCEPT !.alone = FALSE] /\ reader'.pc = "rows" /\ reader' \in ListReq
    <3>1. reader.pc = "rows"
      BY <1>3 DEF ListReq
    <3>2. reader # R!Idle
      BY <3>1 DEF R!Idle
    <3>3. reader' = [reader EXCEPT !.alone = FALSE]
      BY <3>2 DEF R!Disturb
    <3> QED
      BY <1>3, <3>3 DEF ListReq
  <2> QED
    BY <1>1, <2>1 DEF KnowsStock
<1>4. CASE reader \in RowsReq
  <2>1. /\ reader' = [reader EXCEPT !.alone = FALSE] /\ reader'.pc \in {"extras", "sums"}
        /\ reader' \in RowsReq /\ reader'.alone = FALSE
    <3>1. reader.pc \in {"extras", "sums"}
      BY <1>4 DEF RowsReq
    <3>2. reader # R!Idle
      BY <3>1 DEF R!Idle
    <3>3. reader' = [reader EXCEPT !.alone = FALSE]
      BY <3>2 DEF R!Disturb
    <3> QED
      BY <1>4, <3>3 DEF RowsReq
  <2> QED
    BY <1>1, <2>1 DEF KnowsStock
<1>5. CASE reader \in ImportReq
  <2>1. /\ reader' = [reader EXCEPT !.alone = FALSE] /\ reader'.pc = "import"
        /\ reader' \in ImportReq /\ reader'.alone = FALSE
        /\ reader'.left = reader.left /\ reader'.file = reader.file
    <3>1. reader.pc = "import"
      BY <1>5 DEF ImportReq
    <3>2. reader # R!Idle
      BY <3>1 DEF R!Idle
    <3>3. reader' = [reader EXCEPT !.alone = FALSE]
      BY <3>2 DEF R!Disturb
    <3> QED
      BY <1>5, <3>3 DEF ImportReq
  <2>2. reader.pc = "import" /\ reader.left \subseteq DOMAIN reader.file
    BY <1>5 DEF ReportInv, KnowsStock, ImportReq
  <2> QED
    BY <1>1, <2>1, <2>2 DEF KnowsStock
<1> QED
  BY <1>2, <1>3, <1>4, <1>5 DEF ReportInv, ReportTypes

\* A movement of the stock on hand is in the sums.
LEMMA OnHandInSums ==
    ASSUME NEW b \in SumsRow, NEW change \in Int
    PROVE  LET c == R!OnHandMoved(b, change)
           IN  /\ c \in SumsRow
               /\ c.in - c.out = b.in - b.out + change /\ c.old = b.old
               /\ c.committed = b.committed /\ c.supply = b.supply
               /\ c.transfer = b.transfer /\ c.adjusted = b.adjusted
<1>1. b.in \in Nat /\ b.out \in Nat
  BY DEF SumsRow
<1>2. CASE change > 0
  <2>1. R!OnHandMoved(b, change) = [b EXCEPT !.in = b.in + change] /\ b.in + change \in Nat
    BY <1>1, <1>2 DEF R!OnHandMoved
  <2> QED
    BY <1>1, <2>1 DEF SumsRow
<1>3. CASE ~ (change > 0)
  <2>1. R!OnHandMoved(b, change) = [b EXCEPT !.out = b.out - change] /\ b.out - change \in Nat
    BY <1>1, <1>3 DEF R!OnHandMoved
  <2> QED
    BY <1>1, <2>1 DEF SumsRow
<1> QED
  BY <1>2, <1>3

\* So is one of what is announced, of whatever type.
LEMMA IncomingInSums ==
    ASSUME NEW b \in SumsRow, NEW type, NEW change \in Int
    PROVE  LET c == R!IncomingMoved(b, type, change)
           IN  /\ c \in SumsRow
               /\ c.supply + c.transfer + c.adjusted = b.supply + b.transfer + b.adjusted + change
               /\ c.old = b.old /\ c.in = b.in /\ c.out = b.out /\ c.committed = b.committed
<1>1. b.supply \in Int /\ b.transfer \in Int /\ b.adjusted \in Int
  BY DEF SumsRow
<1>2. CASE R!IncomingMoved(b, type, change) = [b EXCEPT !.supply = b.supply + change]
  BY <1>1, <1>2 DEF SumsRow
<1>3. CASE R!IncomingMoved(b, type, change) = [b EXCEPT !.transfer = b.transfer + change]
  BY <1>1, <1>3 DEF SumsRow
<1>4. CASE R!IncomingMoved(b, type, change) = [b EXCEPT !.adjusted = b.adjusted + change]
  BY <1>1, <1>4 DEF SumsRow
<1> QED
  BY <1>2, <1>3, <1>4 DEF R!IncomingMoved

\* A document's movements change the level and the sums by as much.
LEMMA PostedTells ==
    ASSUME ReportInv, NEW v \in Variants, NEW doc \in Documents, R!Post(v, doc)
    PROVE  ReportInv'
<1> DEFINE l == R!LevelOf(v)
           new == [onHand |-> l.onHand + doc.onHand, committed |-> l.committed + doc.committed,
                   incoming |-> l.incoming + doc.incoming]
           base == [book[v] EXCEPT !.committed = @ + doc.committed]
           after == R!IncomingMoved(R!OnHandMoved(base, doc.onHand), doc.type, doc.incoming)
<1>1. /\ doc.onHand \in Int /\ doc.committed \in Int /\ doc.incoming \in Int /\ doc.sold \in Int
  BY ReportsAssumed
<1>2. ReportTypes /\ l \in StockRow /\ book[v] \in SumsRow
  BY LevelIsRow DEF ReportInv, ReportTypes
<1>3. new \in StockRow
  BY <1>1, <1>2 DEF R!Post, StockRow
<1>4. /\ base \in SumsRow /\ base.committed = book[v].committed + doc.committed
      /\ base.old = book[v].old /\ base.in = book[v].in /\ base.out = book[v].out
      /\ base.supply = book[v].supply /\ base.transfer = book[v].transfer
      /\ base.adjusted = book[v].adjusted
  BY <1>1, <1>2 DEF SumsRow
<1>5. PICK b \in SumsRow : b = base
  BY <1>4
<1>6. PICK c \in SumsRow : c = R!OnHandMoved(b, doc.onHand)
  BY <1>1, OnHandInSums
<1>7. /\ c.in - c.out = b.in - b.out + doc.onHand /\ c.old = b.old /\ c.committed = b.committed
      /\ c.supply = b.supply /\ c.transfer = b.transfer /\ c.adjusted = b.adjusted
  BY <1>1, <1>6, OnHandInSums
<1>8. PICK d \in SumsRow : d = R!IncomingMoved(c, doc.type, doc.incoming)
  BY <1>1, IncomingInSums
<1>9. /\ d.supply + d.transfer + d.adjusted = c.supply + c.transfer + c.adjusted + doc.incoming
      /\ d.old = c.old /\ d.in = c.in /\ d.out = c.out /\ d.committed = c.committed
  BY <1>1, <1>8, IncomingInSums
<1>10. /\ level' = [level EXCEPT ![v] = new] /\ book' = [book EXCEPT ![v] = d]
       /\ posts' = posts + 1
       /\ sold' = [sold EXCEPT ![v] = [last15 |-> sold[v].last15 + doc.sold,
                                       last30 |-> sold[v].last30 + doc.sold]]
       /\ R!Disturb /\ opened' = opened /\ lost' = lost
  <2>1. book' = [book EXCEPT ![v] = after]
    BY <1>2 DEF R!Post, ReportTypes
  <2>2. after = d
    BY <1>5, <1>6, <1>8
  <2> HIDE DEF after
  <2>3. book' = [book EXCEPT ![v] = d]
    BY <2>1, <2>2
  <2>4. sold' = [sold EXCEPT ![v] = [last15 |-> sold[v].last15 + doc.sold,
                                       last30 |-> sold[v].last30 + doc.sold]]
    BY <1>2 DEF R!Post, ReportTypes
  <2> QED
    BY <2>3, <2>4 DEF R!Post
<1>11. KnowsStock(reader)' /\ told' = R!Nothing
       /\ reader' \in {R!Idle} \union ListReq \union RowsReq \union ImportReq
  BY <1>10, DisturbedKnows
<1>12. ReportTypes'
  <2>1. sold[v] \in [last15 : Int, last30 : Int]
    BY <1>2 DEF ReportTypes
  <2>2. [last15 |-> sold[v].last15 + doc.sold, last30 |-> sold[v].last30 + doc.sold]
           \in [last15 : Int, last30 : Int]
    BY <1>1, <2>1
  <2> HIDE DEF new
  <2> QED
    BY <1>2, <1>3, <1>8, <1>10, <1>11, <2>2 DEF ReportTypes
<1>13. \A w \in Variants : SumsTell(w)'
  <2> TAKE w \in Variants
  <2>1. SumsTell(w)
    BY DEF ReportInv
  <2>2. CASE w # v
    <3>1. level'[w] = level[w] /\ book'[w] = book[w] /\ lost'[w] = lost[w] /\ opened'[w] = opened[w]
      BY <1>10, <2>2, <1>2 DEF ReportTypes
    <3> QED
      BY <2>1, <3>1 DEF SumsTell, R!LevelOf
  <2>3. CASE w = v
    <3>1. level'[v] = new /\ book'[v] = d /\ lost'[v] = lost[v] /\ opened'[v] = opened[v]
      BY <1>10, <1>2 DEF ReportTypes
    <3>2. new # R!NoLevel
      BY <1>3 DEF R!NoLevel, StockRow
    <3>3. R!LevelOf(v)' = new
      BY <3>1, <3>2 DEF R!LevelOf
    <3>4. /\ new.onHand = l.onHand + doc.onHand /\ new.committed = l.committed + doc.committed
          /\ new.incoming = l.incoming + doc.incoming
      OBVIOUS
    <3>5. /\ l.onHand \in Nat /\ l.committed \in Nat /\ l.incoming \in Nat /\ lost[v] \in Nat
      BY <1>2 DEF StockRow, ReportTypes
    <3>6. /\ l.onHand + lost[v] = book[v].old + book[v].in - book[v].out
          /\ l.committed = book[v].committed
          /\ l.incoming = book[v].supply + book[v].transfer + book[v].adjusted
          /\ lost[v] = 0 => opened[v] = book[v].old
      BY <2>1, <2>3 DEF SumsTell
    <3> HIDE DEF new, l, base
    <3>7. /\ new.onHand + lost[v] = d.old + d.in - d.out /\ new.committed = d.committed
          /\ new.incoming = d.supply + d.transfer + d.adjusted
          /\ lost[v] = 0 => opened[v] = d.old
      BY <3>4, <3>5, <3>6, <1>1, <1>4, <1>5, <1>7, <1>9, <1>2, <1>6, <1>8 DEF SumsRow
    <3> QED
      BY <2>3, <3>1, <3>3, <3>7 DEF SumsTell
  <2> QED
    BY <2>2, <2>3
<1> QED
  BY <1>11, <1>12, <1>13, NothingTold DEF ReportInv

\* A unit that Sapo's resync overwrites is missing from the level and told of as lost.
LEMMA LostTells ==
    ASSUME ReportInv, NEW v \in Variants, R!Lose(v)
    PROVE  ReportInv'
<1>1. ReportTypes /\ level[v].onHand > 0 /\ R!Disturb
  BY DEF ReportInv, R!Lose
<1>2. level[v] \in StockRow /\ R!LevelOf(v) = level[v]
  BY <1>1 DEF ReportTypes, R!NoLevel, R!LevelOf
<1>3. PICK n \in Nat : n = level[v].onHand - 1
  BY <1>1, <1>2 DEF StockRow
<1>4. PICK new \in StockRow : new = [level[v] EXCEPT !.onHand = n]
  BY <1>2 DEF StockRow
<1>5. /\ level' = [level EXCEPT ![v] = new] /\ book' = book /\ opened' = opened
      /\ lost' = [lost EXCEPT ![v] = @ + 1] /\ posts' = posts + 1 /\ sold' = sold
  BY <1>3, <1>4 DEF R!Lose
<1>6. KnowsStock(reader)' /\ told' = R!Nothing
      /\ reader' \in {R!Idle} \union ListReq \union RowsReq \union ImportReq
  BY <1>1, DisturbedKnows
<1>7. ReportTypes'
  BY <1>1, <1>5, <1>6 DEF ReportTypes
<1>8. \A w \in Variants : SumsTell(w)'
  <2> TAKE w \in Variants
  <2>1. SumsTell(w)
    BY DEF ReportInv
  <2>2. CASE w # v
    <3>1. level'[w] = level[w] /\ book'[w] = book[w] /\ lost'[w] = lost[w] /\ opened'[w] = opened[w]
      BY <1>5, <2>2, <1>1 DEF ReportTypes
    <3> QED
      BY <2>1, <3>1 DEF SumsTell, R!LevelOf
  <2>3. CASE w = v
    <3>1. level'[v] = new /\ book'[v] = book[v] /\ lost'[v] = lost[v] + 1 /\ opened'[v] = opened[v]
      BY <1>5, <1>1 DEF ReportTypes
    <3>2. new # R!NoLevel
      BY <1>4 DEF R!NoLevel, StockRow
    <3>3. R!LevelOf(v)' = new
      BY <3>1, <3>2 DEF R!LevelOf
    <3>4. /\ new.onHand = level[v].onHand - 1 /\ new.committed = level[v].committed
          /\ new.incoming = level[v].incoming /\ level[v].onHand \in Nat
      BY <1>2, <1>3, <1>4 DEF StockRow
    <3>5. lost[v] \in Nat /\ book[v].old \in Int /\ book[v].in \in Nat /\ book[v].out \in Nat
      BY <1>1 DEF ReportTypes, SumsRow
    <3> QED
      BY <1>2, <2>1, <2>3, <3>1, <3>3, <3>4, <3>5 DEF SumsTell
  <2> QED
    BY <2>2, <2>3
<1> QED
  BY <1>6, <1>7, <1>8, NothingTold DEF ReportInv

\* With a new month the sums of the last one become what was there before.
LEMMA MonthTells == ASSUME ReportInv, R!NewMonth PROVE ReportInv'
<1>1. ReportTypes /\ R!Disturb
  BY DEF ReportInv, R!NewMonth
<1>2. /\ level' = level /\ sold' = sold /\ lost' = lost /\ posts' = posts
      /\ opened' = [v \in Variants |-> R!LevelOf(v).onHand]
      /\ book' = [v \in Variants |-> [book[v] EXCEPT !.old = @ + book[v].in - book[v].out,
                                                   !.in = 0, !.out = 0]]
  BY DEF R!NewMonth
<1>3. KnowsStock(reader)' /\ told' = R!Nothing
      /\ reader' \in {R!Idle} \union ListReq \union RowsReq \union ImportReq
  BY <1>1, DisturbedKnows
<1>4. ASSUME NEW v \in Variants
      PROVE  /\ book'[v] \in SumsRow /\ opened'[v] = R!LevelOf(v).onHand /\ opened'[v] \in Int
             /\ book'[v].old = book[v].old + book[v].in - book[v].out
             /\ book'[v].in = 0 /\ book'[v].out = 0 /\ book'[v].committed = book[v].committed
             /\ book'[v].supply = book[v].supply /\ book'[v].transfer = book[v].transfer
             /\ book'[v].adjusted = book[v].adjusted
  <2>1. book[v] \in SumsRow /\ R!LevelOf(v) \in StockRow
    BY <1>1, LevelIsRow DEF ReportTypes
  <2>2. PICK n \in Int : n = book[v].old + book[v].in - book[v].out
    BY <2>1 DEF SumsRow
  <2>3. book'[v] = [book[v] EXCEPT !.old = n, !.in = 0, !.out = 0]
    BY <1>2, <2>2
  <2>4. PICK b \in SumsRow : b = book[v]
    BY <2>1
  <2>5. PICK c : c = [b EXCEPT !.old = n, !.in = 0, !.out = 0]
    OBVIOUS
  <2>6. /\ c \in SumsRow /\ c.old = n /\ c.in = 0 /\ c.out = 0 /\ c.committed = b.committed
        /\ c.supply = b.supply /\ c.transfer = b.transfer /\ c.adjusted = b.adjusted
    BY <2>4, <2>5 DEF SumsRow
  <2>7. book'[v] = c
    BY <2>3, <2>4, <2>5
  <2>8. opened'[v] = R!LevelOf(v).onHand /\ opened'[v] \in Int
    <3>1. PICK n0 \in Int : n0 = R!LevelOf(v).onHand
      BY <2>1 DEF StockRow
    <3>2. opened'[v] = R!LevelOf(v).onHand
      BY <1>2
    <3> QED
      BY <3>1, <3>2
  <2> QED
    BY <2>2, <2>4, <2>6, <2>7, <2>8
<1>5. ReportTypes'
  <2>1. book' \in [Variants -> SumsRow]
    BY <1>2, <1>4
  <2>2. opened' \in [Variants -> Int]
    BY <1>2, <1>4
  <2> QED
    BY <1>1, <1>2, <1>3, <2>1, <2>2 DEF ReportTypes
<1>6. \A v \in Variants : SumsTell(v)'
  <2> TAKE v \in Variants
  <2>1. SumsTell(v)
    BY DEF ReportInv
  <2>2. R!LevelOf(v)' = R!LevelOf(v) /\ lost'[v] = lost[v]
    BY <1>2 DEF R!LevelOf
  <2>3. /\ book[v].old \in Int /\ book[v].in \in Nat /\ book[v].out \in Nat /\ lost[v] \in Nat
        /\ R!LevelOf(v).onHand \in Nat
    BY <1>1, LevelIsRow DEF ReportTypes, SumsRow, StockRow
  <2> QED
    BY <1>4, <2>1, <2>2, <2>3 DEF SumsTell
<1> QED
  BY <1>3, <1>5, <1>6, NothingTold DEF ReportInv

\* Sales grow old.
LEMMA FortnightTells == ASSUME ReportInv, R!Fortnight PROVE ReportInv'
<1>1. ReportTypes /\ R!Disturb /\ \A v \in Variants : SumsTell(v)
  BY DEF ReportInv, R!Fortnight
<1>2. /\ level' = level /\ lost' = lost /\ posts' = posts /\ opened' = opened /\ book' = book
      /\ sold' = [v \in Variants |-> [last15 |-> 0, last30 |-> sold[v].last15]]
  BY DEF R!Fortnight
<1>3. KnowsStock(reader)' /\ told' = R!Nothing
      /\ reader' \in {R!Idle} \union ListReq \union RowsReq \union ImportReq
  BY <1>1, DisturbedKnows
<1>4. ReportTypes'
  <2>1. \A v \in Variants : sold[v].last15 \in Int
    BY <1>1 DEF ReportTypes
  <2>2. sold' \in [Variants -> [last15 : Int, last30 : Int]]
    BY <1>2, <2>1
  <2> QED
    BY <1>1, <1>2, <1>3, <2>2 DEF ReportTypes
<1>5. \A v \in Variants : SumsTell(v)'
  BY <1>1, <1>2 DEF SumsTell, R!LevelOf
<1> QED
  BY <1>3, <1>4, <1>5, NothingTold DEF ReportInv

\* A request that asks of the stock changes nothing of it.
LEMMA AskedTells ==
    ASSUME ReportInv, NEW work \in ListReq \union RowsReq \union ImportReq, KnowsStock(work),
           reader' = work, told' = R!Nothing,
           UNCHANGED <<level, book, sold, opened, lost>>, posts' \in Nat
    PROVE  ReportInv'
<1>1. ReportTypes'
  BY DEF ReportInv, ReportTypes
<1>2. \A v \in Variants : SumsTell(v)'
  BY DEF ReportInv, SumsTell, R!LevelOf
<1>3. KnowsStock(reader)'
  BY DEF KnowsStock, R!LevelOf, R!Stocked
<1> QED
  BY <1>1, <1>2, <1>3, NothingTold DEF ReportInv

\* The ways to ask.
LEMMA AskingTells ==
    ASSUME ReportInv,
           \/ \E q \in R!Queries : R!ListCatalogue(q) \/ R!ListLevels(q)
           \/ R!ReadRows \/ R!ScanLowStock \/ R!Reconcile
           \/ \E f \in Files : R!Import(f)
    PROVE  ReportInv'
<1>0. ReportTypes /\ posts \in Nat
  BY DEF ReportInv, ReportTypes
<1>1. ASSUME NEW q \in R!Queries, R!ListCatalogue(q) PROVE ReportInv'
  <2>1. PICK ids \in SUBSET Variants : ids = {v \in Variants : R!VariantWhere(q, v)}
    OBVIOUS
  <2>2. PICK work \in ListReq : work = [pc |-> "rows", alone |-> TRUE, ids |-> ids]
    BY DEF ListReq
  <2>3. /\ reader' = work /\ told' = R!Nothing /\ posts' = posts
        /\ UNCHANGED <<level, book, sold, opened, lost>>
    BY <1>1, <2>1, <2>2 DEF R!ListCatalogue, R!Ask
  <2>4. KnowsStock(work)
    BY <2>2 DEF KnowsStock
  <2> QED
    BY <1>0, <2>3, <2>4, AskedTells
<1>2. ASSUME NEW ids \in SUBSET R!Stocked, NEW kind \in {"extras", "sums"},
             kind = "sums" => ids = R!Stocked,
             R!Ask([pc |-> kind, alone |-> TRUE, rows |-> [v \in ids |-> level[v]]])
      PROVE  ReportInv'
  <2>1. \A v \in ids : v \in Variants /\ level[v] \in StockRow /\ R!LevelOf(v) = level[v]
    BY <1>0, LevelIsRow DEF R!Stocked
  <2>2. PICK rows \in [ids -> StockRow] : rows = [v \in ids |-> level[v]]
    BY <2>1
  <2>3. PICK work \in RowsReq : work = [pc |-> kind, alone |-> TRUE, rows |-> rows]
    BY <1>2, <2>1 DEF RowsReq
  <2>4. /\ reader' = work /\ told' = R!Nothing /\ posts' = posts
        /\ UNCHANGED <<level, book, sold, opened, lost>>
    BY <1>2, <2>2, <2>3 DEF R!Ask
  <2>5. KnowsStock(work)
    BY <1>2, <2>1, <2>2, <2>3 DEF KnowsStock
  <2> QED
    BY <1>0, <2>4, <2>5, AskedTells
<1>3. ASSUME NEW q \in R!Queries, R!ListLevels(q) PROVE ReportInv'
  <2>1. PICK ids \in SUBSET R!Stocked : ids = {v \in Variants : R!LevelWhere(q, v)}
    BY DEF R!LevelWhere
  <2>2. R!Ask([pc |-> "extras", alone |-> TRUE, rows |-> [v \in ids |-> level[v]]])
    BY <1>3, <2>1 DEF R!ListLevels
  <2> QED
    BY <1>2, <2>2
<1>4. ASSUME R!ScanLowStock PROVE ReportInv'
  <2>1. PICK ids \in SUBSET R!Stocked :
            ids = {v \in R!Stocked : level[v].onHand > 0 \/ level[v].committed > 0}
    OBVIOUS
  <2>2. R!Ask([pc |-> "extras", alone |-> TRUE, rows |-> [v \in ids |-> level[v]]])
    BY <1>4, <2>1 DEF R!ScanLowStock
  <2> QED
    BY <1>2, <2>2
<1>5. ASSUME R!Reconcile PROVE ReportInv'
  <2>1. PICK ids \in SUBSET R!Stocked : ids = R!Stocked
    OBVIOUS
  <2>2. R!Ask([pc |-> "sums", alone |-> TRUE, rows |-> [v \in ids |-> level[v]]])
    BY <1>5, <2>1 DEF R!Reconcile
  <2> QED
    BY <1>2, <2>1, <2>2
<1>6. ASSUME R!ReadRows PROVE ReportInv'
  <2>1. reader \in ListReq /\ reader # R!Idle
    BY <1>6 DEF R!ReadRows, ReportInv, ReportTypes, R!Idle, ListReq, RowsReq, ImportReq
  <2>2. \A v \in reader.ids : v \in Variants /\ R!LevelOf(v) \in StockRow
    BY <1>0, <2>1, LevelIsRow DEF ListReq
  <2>3. PICK rows \in [reader.ids -> StockRow] : rows = [v \in reader.ids |-> R!LevelOf(v)]
    BY <2>2
  <2>4. PICK work \in RowsReq : work = [pc |-> "extras", alone |-> reader.alone, rows |-> rows]
    BY <2>1 DEF RowsReq, ListReq
  <2>5. /\ reader' = work /\ told' = R!Nothing /\ posts' = posts
        /\ UNCHANGED <<level, book, sold, opened, lost>>
    BY <1>6, <2>1, <2>3, <2>4 DEF R!ReadRows, ReportInv
  <2>6. KnowsStock(work)
    BY <2>3, <2>4 DEF KnowsStock
  <2> QED
    BY <1>0, <2>5, <2>6, AskedTells
<1>7. ASSUME NEW f \in Files, R!Import(f) PROVE ReportInv'
  <2>1. DOMAIN f \in SUBSET Variants /\ f \in [DOMAIN f -> Nat]
    BY ReportsAssumed
  <2>2. PICK work \in ImportReq :
            work = [pc |-> "import", alone |-> TRUE, file |-> f, left |-> DOMAIN f]
    BY <2>1 DEF ImportReq
  <2>3. /\ reader' = work /\ told' = R!Nothing /\ posts' \in Nat
        /\ UNCHANGED <<level, book, sold, opened, lost>>
    BY <1>0, <1>7, <2>2 DEF R!Import
  <2>4. KnowsStock(work)
    BY <2>2 DEF KnowsStock
  <2> QED
    BY <2>3, <2>4, AskedTells
<1> QED
  BY <1>1, <1>3, <1>4, <1>5, <1>6, <1>7

\* The answers tell the stock as it is.
LEMMA AnsweringTells ==
    ASSUME ReportInv, R!Enrich \/ R!RunLedger \/ R!CompareSums \/ R!EndImport
    PROVE  ReportInv'
<1>1. /\ UNCHANGED <<level, book, sold, opened, lost, posts>>
      /\ reader' = R!Idle
  BY DEF R!Enrich, R!RunLedger, R!CompareSums, R!EndImport
<1>2. ReportTypes /\ \A v \in Variants : SumsTell(v)
  BY DEF ReportInv
<1>3. ReportTypes' /\ (\A v \in Variants : SumsTell(v)') /\ KnowsStock(reader)'
  BY <1>1, <1>2 DEF ReportTypes, SumsTell, R!LevelOf, KnowsStock, R!Idle
<1>4. SUFFICES (R!BalancesTrue /\ R!MismatchesTrue /\ R!ImportsHold)'
  BY <1>1, <1>3 DEF ReportInv
<1>5. ASSUME NEW v \in Variants
      PROVE  /\ R!LevelOf(v) \in StockRow /\ book[v] \in SumsRow
             /\ lost[v] \in Nat /\ opened[v] \in Int
             /\ R!LevelOf(v)' = R!LevelOf(v) /\ book'[v] = book[v] /\ lost'[v] = lost[v]
             /\ opened'[v] = opened[v]
  BY <1>1, <1>2, LevelIsRow DEF ReportTypes, R!LevelOf
<1>6. CASE R!Enrich /\ reader.alone
  <2>1. reader \in RowsReq /\ reader.pc = "extras"
    BY <1>2, <1>6 DEF R!Enrich, ReportTypes, R!Idle, ListReq, RowsReq, ImportReq
  <2>2. PICK rows : rows = reader.rows
    OBVIOUS
  <2>3. DOMAIN rows \subseteq Variants /\ \A v \in DOMAIN rows : rows[v] = R!LevelOf(v)
    BY <1>6, <2>1, <2>2 DEF ReportInv, KnowsStock, RowsReq
  <2>4. PICK answer :
            answer = [v \in DOMAIN rows |->
                        LET b == book[v] IN
                        [opening |-> R!Opening(rows[v], b), closing |-> rows[v].onHand,
                         onTheWay |-> b.supply + b.transfer,
                         need |-> R!Need(sold[v], rows[v], b.supply + b.transfer)]]
    OBVIOUS
  <2>5. told' = [of |-> "list", rows |-> answer]
    BY <1>6, <2>2, <2>4 DEF R!Enrich
  <2>6. told'.of = "list" /\ told'.rows = answer /\ DOMAIN answer = DOMAIN rows
    BY <2>4, <2>5
  <2>7. ASSUME NEW v \in DOMAIN answer
        PROVE  /\ lost'[v] = 0 => /\ answer[v].opening = opened'[v]
                                  /\ answer[v].closing = R!LevelOf(v)'.onHand
               /\ book'[v].adjusted = 0 => answer[v].onTheWay = R!LevelOf(v)'.incoming
    <3>1. v \in Variants /\ rows[v] = R!LevelOf(v)
      BY <2>3, <2>6
    <3>2. /\ answer[v].opening = rows[v].onHand - (book[v].in - book[v].out)
          /\ answer[v].closing = rows[v].onHand
          /\ answer[v].onTheWay = book[v].supply + book[v].transfer
      BY <2>4, <2>6 DEF R!Opening
    <3>3. /\ R!LevelOf(v).onHand + lost[v] = book[v].old + book[v].in - book[v].out
          /\ R!LevelOf(v).incoming = book[v].supply + book[v].transfer + book[v].adjusted
          /\ lost[v] = 0 => opened[v] = book[v].old
      BY <1>2, <3>1 DEF SumsTell
    <3>4. /\ R!LevelOf(v).onHand \in Nat /\ R!LevelOf(v).incoming \in Nat
          /\ book[v].old \in Int /\ book[v].in \in Nat /\ book[v].out \in Nat
          /\ book[v].supply \in Int /\ book[v].transfer \in Int /\ book[v].adjusted \in Int
      BY <1>5, <3>1 DEF StockRow, SumsRow
    <3> QED
      BY <1>5, <3>1, <3>2, <3>3, <3>4
  <2>8. R!BalancesTrue'
    BY <2>6, <2>7 DEF R!BalancesTrue
  <2> QED
    BY <2>6, <2>8 DEF R!MismatchesTrue, R!ImportsHold
<1>7. CASE R!RunLedger
  <2>1. PICK ids \in SUBSET Variants :
            ids = {v \in Variants : book[v].old # 0 \/ book[v].in # book[v].out}
    OBVIOUS
  <2>2. PICK answer :
            answer = [v \in ids |->
                        [opening |-> book[v].old,
                         closing |-> book[v].old + book[v].in - book[v].out]]
    OBVIOUS
  <2>3. told' = [of |-> "ledger", rows |-> answer]
    BY <1>7, <2>1, <2>2 DEF R!RunLedger
  <2>4. told'.of = "ledger" /\ told'.rows = answer /\ DOMAIN answer = ids
    BY <2>2, <2>3
  <2>5. ASSUME NEW v \in DOMAIN answer, lost'[v] = 0
        PROVE  answer[v].opening = opened'[v] /\ answer[v].closing = R!LevelOf(v)'.onHand
    <3>1. v \in Variants
      BY <2>1, <2>4
    <3>2. /\ answer[v].opening = book[v].old
          /\ answer[v].closing = book[v].old + book[v].in - book[v].out
      BY <2>2, <2>4
    <3>3. /\ R!LevelOf(v).onHand + lost[v] = book[v].old + book[v].in - book[v].out
          /\ lost[v] = 0 => opened[v] = book[v].old
      BY <1>2, <3>1 DEF SumsTell
    <3>4. /\ R!LevelOf(v).onHand \in Nat
          /\ book[v].old \in Int /\ book[v].in \in Nat /\ book[v].out \in Nat
      BY <1>5, <3>1 DEF StockRow, SumsRow
    <3> QED
      BY <1>5, <2>5, <3>1, <3>2, <3>3, <3>4
  <2>6. R!BalancesTrue'
    BY <2>4, <2>5 DEF R!BalancesTrue
  <2> QED
    BY <2>4, <2>6 DEF R!MismatchesTrue, R!ImportsHold
<1>8. CASE R!CompareSums /\ reader.alone
  <2>1. reader \in RowsReq /\ reader.pc = "sums"
    BY <1>2, <1>8 DEF R!CompareSums, ReportTypes, R!Idle, ListReq, RowsReq, ImportReq
  <2>2. PICK rows : rows = reader.rows
    OBVIOUS
  <2>3. DOMAIN rows = R!Stocked /\ \A v \in R!Stocked : rows[v] = level[v]
    BY <1>8, <2>1, <2>2 DEF ReportInv, KnowsStock
  <2>4. told' = [of |-> "mismatches", ids |-> {v \in DOMAIN rows : R!Mismatch(rows[v], book[v])}]
    BY <1>8, <2>2 DEF R!CompareSums
  <2>5. ASSUME NEW v \in R!Stocked PROVE R!Mismatch(rows[v], book[v]) <=> lost[v] # 0
    <3>1. v \in Variants /\ rows[v] = R!LevelOf(v)
      BY <1>2, <2>3, LevelIsRow DEF R!Stocked
    <3>2. SumsTell(v)
      BY <1>2, <3>1
    <3>3. /\ R!LevelOf(v).onHand \in Nat /\ R!LevelOf(v).incoming \in Nat
          /\ book[v].old \in Int /\ book[v].in \in Nat /\ book[v].out \in Nat
          /\ book[v].supply \in Int /\ book[v].transfer \in Int /\ book[v].adjusted \in Int
          /\ lost[v] \in Nat
      BY <1>5, <3>1 DEF StockRow, SumsRow
    <3> QED
      BY <3>1, <3>2, <3>3 DEF SumsTell, R!Mismatch
  <2>6. R!Stocked' = R!Stocked
    BY <1>1 DEF R!Stocked
  <2>7. told'.of = "mismatches" /\ told'.ids = {v \in R!Stocked : lost[v] # 0}
    BY <2>3, <2>4, <2>5
  <2>8. R!MismatchesTrue'
    BY <1>1, <2>6, <2>7 DEF R!MismatchesTrue
  <2> QED
    BY <2>7, <2>8 DEF R!BalancesTrue, R!ImportsHold
<1>9. CASE R!EndImport /\ reader.alone
  <2>1. reader \in ImportReq /\ reader.pc = "import" /\ reader.left = {}
    BY <1>2, <1>9 DEF R!EndImport, ReportTypes, R!Idle, ListReq, RowsReq, ImportReq
  <2>2. told' = [of |-> "import", file |-> reader.file]
    BY <1>9 DEF R!EndImport
  <2>3. DOMAIN reader.file \subseteq Variants
    BY <2>1 DEF ImportReq
  <2>4. \A v \in DOMAIN reader.file : R!LevelOf(v).onHand = reader.file[v]
    BY <1>9, <2>1 DEF ReportInv, KnowsStock
  <2>5. \A v \in DOMAIN reader.file : R!LevelOf(v)'.onHand = reader.file[v]
    BY <1>5, <2>3, <2>4
  <2>6. told'.of = "import" /\ told'.file = reader.file
    BY <2>2
  <2>7. R!ImportsHold'
    BY <2>5, <2>6 DEF R!ImportsHold
  <2> QED
    BY <2>6, <2>7 DEF R!BalancesTrue, R!MismatchesTrue
<1>10. CASE told' = R!Nothing
  BY <1>10, NothingTold
<1> QED
  BY <1>6, <1>7, <1>8, <1>9, <1>10 DEF R!Enrich, R!RunLedger, R!CompareSums, R!EndImport

\* A row of a count is taken in, or refused and left out.
LEMMA RowsImportedTell ==
    ASSUME ReportInv, NEW v \in Variants, R!ImportRow(v) \/ R!RefuseRow(v)
    PROVE  ReportInv'
<1>1. /\ ReportTypes /\ reader.pc = "import" /\ v \in reader.left
      /\ UNCHANGED <<sold, told, opened, lost, posts>>
  BY DEF ReportInv, R!ImportRow, R!RefuseRow
<1>2. reader \in ImportReq /\ reader # R!Idle
  BY <1>1 DEF ReportTypes, R!Idle, ListReq, RowsReq, ImportReq
<1>3. PICK file, left, alone :
          /\ file = reader.file /\ left = reader.left /\ alone = reader.alone
          /\ reader = [pc |-> "import", alone |-> alone, left |-> left, file |-> file]
  BY <1>2 DEF ImportReq
<1>4. /\ alone \in BOOLEAN /\ left \subseteq DOMAIN file /\ v \in left
      /\ DOMAIN file \subseteq Variants /\ file \in [DOMAIN file -> Nat]
      /\ alone => \A w \in DOMAIN file \ left : R!LevelOf(w).onHand = file[w]
  BY <1>1, <1>2, <1>3 DEF ReportInv, KnowsStock, ImportReq
<1>5. told' = R!Nothing
  BY <1>1, <1>2 DEF ReportInv
<1>6. CASE R!RefuseRow(v)
  <2>1. PICK fewer : fewer = [i \in DOMAIN file \ {v} |-> file[i]]
    OBVIOUS
  <2>2. DOMAIN fewer = DOMAIN file \ {v} /\ fewer \in [DOMAIN fewer -> Nat]
        /\ \A w \in DOMAIN fewer : fewer[w] = file[w]
    BY <1>4, <2>1
  <2>3. PICK work : work = [pc |-> "import", alone |-> alone, left |-> left \ {v}, file |-> fewer]
    OBVIOUS
  <2>4. reader' = work
    <3>1. reader' = [reader EXCEPT !.left = reader.left \ {v},
                                   !.file = [i \in DOMAIN reader.file \ {v} |-> reader.file[i]]]
      BY <1>6 DEF R!RefuseRow
    <3>2. reader.left = left /\ reader.file = file
      BY <1>3
    <3>3. reader' = [reader EXCEPT !.left = left \ {v}, !.file = fewer]
      BY <2>1, <3>1, <3>2
    <3>4. reader = [pc |-> "import", alone |-> alone, left |-> left, file |-> file]
      BY <1>3
    <3>5. PICK less : less = left \ {v}
      OBVIOUS
    <3>6. [reader EXCEPT !.left = less] = [pc |-> "import", alone |-> alone, left |-> less, file |-> file]
      BY <3>4
    <3>7. PICK mid : mid = [pc |-> "import", alone |-> alone, left |-> less, file |-> file]
      OBVIOUS
    <3>8. reader' = [mid EXCEPT !.file = fewer]
      BY <3>3, <3>5, <3>6, <3>7
    <3>9. [mid EXCEPT !.file = fewer] = [pc |-> "import", alone |-> alone, left |-> less, file |-> fewer]
      BY <3>7
    <3> QED
      BY <2>3, <3>5, <3>8, <3>9
  <2>5. work \in ImportReq
    <3>1. DOMAIN fewer \in SUBSET Variants /\ left \ {v} \in SUBSET Variants
      BY <1>4, <2>2
    <3> QED
      BY <1>4, <2>2, <2>3, <3>1 DEF ImportReq
  <2>6. KnowsStock(work)
    BY <1>4, <2>2, <2>3 DEF KnowsStock
  <2>7. UNCHANGED <<level, book, sold, opened, lost>> /\ posts' \in Nat
    BY <1>1, <1>6 DEF R!RefuseRow, ReportTypes
  <2> QED
    BY <1>5, <2>4, <2>5, <2>6, <2>7, AskedTells
<1>7. CASE R!ImportRow(v)
  <2>1. PICK l \in StockRow : l = R!LevelOf(v)
    BY <1>1, LevelIsRow
  <2>2. file[v] \in Nat /\ l.onHand \in Nat
    BY <1>4, <2>1 DEF StockRow
  <2>3. PICK n \in Nat : n = file[v]
    BY <2>2
  <2>4. PICK change \in Int : change = n - l.onHand
    BY <2>2, <2>3
  <2>5. PICK b \in SumsRow : b = R!OnHandMoved(book[v], change)
    BY <1>1, OnHandInSums DEF ReportTypes
  <2>6. PICK new \in StockRow : new = [l EXCEPT !.onHand = n]
    BY DEF StockRow
  <2>7. PICK work : work = [pc |-> "import", alone |-> alone, left |-> left \ {v}, file |-> file]
    OBVIOUS
  <2>8. /\ reader' = work /\ level' = [level EXCEPT ![v] = new] /\ book' = [book EXCEPT ![v] = b]
    <3>1. reader.file[v] = n
      BY <1>3, <2>3
    <3>2. level' = [level EXCEPT ![v] = new]
      BY <1>7, <2>1, <2>6, <3>1 DEF R!ImportRow
    <3>3. book' = [book EXCEPT ![v] = R!OnHandMoved(book[v], change)]
      BY <1>1, <1>7, <2>1, <2>4, <3>1 DEF R!ImportRow, ReportTypes
    <3>4. reader' = work
      <4>1. reader' = [reader EXCEPT !.left = reader.left \ {v}]
        BY <1>7 DEF R!ImportRow
      <4>2. reader = [pc |-> "import", alone |-> alone, left |-> left, file |-> file]
        BY <1>3
      <4>3. reader.left = left
        BY <1>3
      <4>4. reader' = [reader EXCEPT !.left = left \ {v}]
        BY <4>1, <4>3
      <4> QED
        BY <2>7, <4>2, <4>4
    <3> QED
      BY <2>5, <3>2, <3>3, <3>4
  <2>9. /\ level'[v] = new /\ book'[v] = b
        /\ \A w \in Variants \ {v} : level'[w] = level[w] /\ book'[w] = book[w]
    BY <1>1, <2>8 DEF ReportTypes
  <2>10. new # R!NoLevel
    BY DEF R!NoLevel, StockRow
  <2>11. R!LevelOf(v)' = new /\ \A w \in Variants \ {v} : R!LevelOf(w)' = R!LevelOf(w)
    BY <2>9, <2>10 DEF R!LevelOf
  <2>12. new.onHand = n /\ new.committed = l.committed /\ new.incoming = l.incoming
    BY <2>6 DEF StockRow
  <2>13. work \in ImportReq
    <3>1. left \ {v} \in SUBSET Variants
      BY <1>4
    <3> QED
      BY <1>4, <2>7, <3>1 DEF ImportReq
  <2>14. ReportTypes'
    BY <1>1, <2>8, <2>13 DEF ReportTypes
  <2>15. \A w \in Variants : SumsTell(w)'
    <3> TAKE w \in Variants
    <3>1. SumsTell(w)
      BY DEF ReportInv
    <3>2. CASE w # v
      BY <1>1, <2>9, <2>11, <3>1, <3>2 DEF SumsTell
    <3>3. CASE w = v
      <4>1. book[v] \in SumsRow
        BY <1>1 DEF ReportTypes
      <4>2. /\ b.in - b.out = book[v].in - book[v].out + change /\ b.old = book[v].old
            /\ b.committed = book[v].committed /\ b.supply = book[v].supply
            /\ b.transfer = book[v].transfer /\ b.adjusted = book[v].adjusted
        BY <2>5, <4>1, OnHandInSums
      <4>3. /\ book[v].old \in Int /\ book[v].in \in Nat /\ book[v].out \in Nat
            /\ b.in \in Nat /\ b.out \in Nat /\ lost[v] \in Nat
        BY <1>1, <4>1 DEF SumsRow, ReportTypes
      <4>4. new.onHand + lost[v] = b.old + b.in - b.out
        BY <2>1, <2>2, <2>4, <2>12, <3>1, <3>3, <4>2, <4>3 DEF SumsTell
      <4> QED
        BY <1>1, <2>1, <2>9, <2>11, <2>12, <3>1, <3>3, <4>2, <4>4 DEF SumsTell
    <3> QED
      BY <3>2, <3>3
  <2>16. KnowsStock(reader)'
    <3>1. \A w \in DOMAIN file : R!LevelOf(w)' = (IF w = v THEN new ELSE R!LevelOf(w))
      BY <1>4, <2>11
    <3>2. alone => \A w \in DOMAIN file \ (left \ {v}) : R!LevelOf(w)'.onHand = file[w]
      BY <1>4, <2>3, <2>12, <3>1
    <3>3. reader'.pc = "import" /\ reader'.left = left \ {v} /\ reader'.file = file
          /\ reader'.alone = alone
      BY <2>7, <2>8
    <3> QED
      BY <1>4, <3>2, <3>3 DEF KnowsStock
  <2> QED
    BY <1>5, <2>14, <2>15, <2>16, NothingTold DEF ReportInv
<1> QED
  BY <1>6, <1>7

\* What is told of the stock is so.
LEMMA ReportsKept == R!Spec => []ReportInv
<1>1. ASSUME ReportInv, R!Next PROVE ReportInv'
  BY <1>1, PostedTells, LostTells, MonthTells, FortnightTells, AskingTells, AnsweringTells,
     RowsImportedTell DEF R!Next
<1>2. ReportInv /\ UNCHANGED R!vars => ReportInv'
  <2> SUFFICES ASSUME ReportInv, UNCHANGED R!vars PROVE ReportInv'
    OBVIOUS
  <2>1. UNCHANGED <<level, book, sold, reader, told, opened, lost, posts>>
    BY DEF R!vars
  <2>2. ReportTypes' /\ (\A v \in Variants : SumsTell(v)')
    BY <2>1 DEF ReportInv, ReportTypes, SumsTell, R!LevelOf
  <2>3. KnowsStock(reader)' /\ (reader # R!Idle => told = R!Nothing)'
    BY <2>1 DEF ReportInv, KnowsStock, R!LevelOf, R!Stocked
  <2>4. (R!BalancesTrue /\ R!MismatchesTrue /\ R!ImportsHold)'
    BY <2>1 DEF ReportInv, R!BalancesTrue, R!MismatchesTrue, R!ImportsHold, R!LevelOf, R!Stocked
  <2> QED
    BY <2>2, <2>3, <2>4 DEF ReportInv
<1> QED
  BY <1>1, <1>2, ReportsBegin, PTL DEF R!Spec

\* `buildLevelWhere' and `buildVariantWhere' find the same variants.
LEMMA BranchesAlwaysAgree == R!BranchesAgree
<1> SUFFICES ASSUME NEW q \in R!Queries, NEW v \in Variants
             PROVE  /\ v \in R!Stocked /\ ~(q.low /\ q.status # "any") =>
                          (R!LevelWhere(q, v) <=> R!VariantWhere(q, v))
                    /\ v \notin R!Stocked =>
                          (R!VariantWhere(q, v) <=> /\ R!StatusFits(q.status, 0)
                                                    /\ R!InRange(q.range, 0))
  BY DEF R!BranchesAgree
<1>1. q.low \in BOOLEAN /\ q.status \in {"any", "in_stock", "out_of_stock", "negative"}
  BY DEF R!Queries
<1>2. CASE q.status = "any"
  BY <1>1, <1>2 DEF R!LevelWhere, R!VariantWhere, R!StatusFits
<1>3. CASE q.status = "out_of_stock"
  BY <1>1, <1>3 DEF R!LevelWhere, R!VariantWhere, R!StatusFits
<1>4. CASE q.status \in {"in_stock", "negative"}
  BY <1>1, <1>4 DEF R!LevelWhere, R!VariantWhere, R!StatusFits
<1> QED
  BY <1>1, <1>2, <1>3, <1>4

\* What is told of the stock is so, whichever of the ways it is found out in.
THEOREM StockReportsTell ==
    R!Spec => [](R!BalancesTrue /\ R!MismatchesTrue /\ R!ImportsHold /\ R!BranchesAgree)
<1>1. ReportInv => R!BalancesTrue /\ R!MismatchesTrue /\ R!ImportsHold /\ R!BranchesAgree
  BY BranchesAlwaysAgree DEF ReportInv
<1> QED
  BY <1>1, ReportsKept, PTL

\* Levels are rows, and sums of what came and went are not negative.
LEMMA ReportsTyped == ReportInv => R!TypeOK
<1> SUFFICES ASSUME ReportTypes PROVE R!TypeOK
  BY DEF ReportInv
<1>1. ASSUME NEW v \in R!Stocked PROVE level[v] \in [DOMAIN R!Zeros -> Nat]
  <2>1. level[v] \in StockRow
    BY LevelIsRow DEF R!Stocked
  <2>2. DOMAIN R!Zeros = {"onHand", "committed", "incoming"}
    BY DEF R!Zeros
  <2> QED
    BY <2>1, <2>2 DEF StockRow
<1>2. \A v \in Variants : book[v].in >= 0 /\ book[v].out >= 0
  BY DEF ReportTypes, SumsRow
<1> QED
  BY <1>1, <1>2 DEF R!TypeOK

-----------------------------------------------------------------------------
(* Pages of the ledgers of debt (DebtLedgers).                             *)

\* The ledgers fare in the back office as they do by themselves.
LEMMA DebtsAsAlone == Spec => E!Spec
<1>1. Init => E!Init
  BY DEF Init
<1>2. [Next]_vars => [E!Next]_(E!vars)
  BY DEF Next, vars, eVars, E!vars
<1> QED
  BY <1>1, <1>2, PTL DEF Spec, E!Spec

\* What is assumed of amounts and pages.
LEMMA LedgersAssumed ==
    /\ \A a \in Amounts : a \in Int /\ a # 0
    /\ PageSize \in Nat /\ PageSize >= 1 /\ MaxEntries \in Nat /\ MaxMoment \in Nat
    /\ MaxMoment >= 1
BY OperationsAssumption DEF OperationsAssumption, E!LedgersAssumption

EntryTypes ==
    /\ entry \in Seq(E!Entry)
    /\ clock \in 1..MaxMoment
    /\ \A i, j \in DOMAIN entry : i < j => entry[i].at <= entry[j].at
    /\ \A i \in DOMAIN entry : entry[i].at <= clock
    /\ whose \in {"supplier", "customer"}

\* An entry has a moment and an amount.
LEMMA EntryIs ==
    ASSUME EntryTypes, NEW i \in DOMAIN entry
    PROVE  /\ i \in Nat /\ entry[i] \in E!Entry /\ entry[i].at \in Nat
           /\ entry[i].amount \in Int /\ entry[i].amount # 0
<1>1. i \in Nat /\ entry[i] \in E!Entry
  BY ElementOfSeq DEF EntryTypes
<1>2. PICK r : r = entry[i]
  OBVIOUS
<1>3. /\ r.at \in 1..MaxMoment /\ r.amount \in Amounts /\ r.type \in E!Types
      /\ r.state \in {"uncommitted", "there", "undone"}
  BY <1>1, <1>2 DEF E!Entry
<1>4. r.amount \in Int /\ r.amount # 0
  BY <1>3, LedgersAssumed
<1>5. r.at \in Nat
  BY <1>3, LedgersAssumed
<1> QED
  BY <1>1, <1>2, <1>4, <1>5

\* Entries are ordered by their moments and then by their ids.
LEMMA NewerOrders ==
    ASSUME EntryTypes, NEW i \in DOMAIN entry, NEW j \in DOMAIN entry, NEW k \in DOMAIN entry
    PROVE  /\ ~E!Newer(i, i)
           /\ E!Newer(i, j) \/ E!Newer(j, i) \/ i = j
           /\ E!Newer(i, j) => ~E!Newer(j, i) /\ entry[j].at <= entry[i].at
           /\ E!Newer(i, j) /\ E!Newer(j, k) => E!Newer(i, k)
BY EntryIs DEF E!Newer

\* There are finitely many entries.
LEMMA EntriesFinite ==
    ASSUME EntryTypes, NEW those \in SUBSET DOMAIN entry
    PROVE  IsFiniteSet(those)
<1>1. DOMAIN entry = 1..Len(entry) /\ Len(entry) \in Nat
  BY DEF EntryTypes
<1>2. IsFiniteSet(1..Len(entry))
  BY <1>1, FS_Interval
<1> QED
  BY <1>1, <1>2, FS_Subset

\* What adds up the amounts of some entries.
Owed(those) == SumFunctionOnSet([i \in DOMAIN entry |-> entry[i].amount], those)

\* It is the sum.
LEMMA SumIsOwed == \A those : E!Sum(those) = Owed(those)
BY DEF Owed, E!Sum, E!SumFunctionOnSet, SumFunctionOnSet, E!FoldFunctionOnSet,
       FoldFunctionOnSet, E!MapThenFoldSet, MapThenFoldSet

\* Amounts owed for two parts add up.
LEMMA OwedInParts ==
    ASSUME EntryTypes, NEW those \in SUBSET DOMAIN entry, NEW fewer \in SUBSET those
    PROVE  /\ Owed(those) \in Int /\ Owed(fewer) \in Int /\ Owed(those \ fewer) \in Int
           /\ Owed(those) = Owed(fewer) + Owed(those \ fewer)
<1> DEFINE f == [i \in DOMAIN entry |-> entry[i].amount]
<1>1. \A x \in those : f[x] \in Int
  BY EntryIs
<1>2. IsFiniteSet(those)
  BY EntriesFinite
<1> HIDE DEF f
<1>3. SumFunctionOnSet(f, those) \in Int
  BY <1>1, <1>2, SumType
<1>4. /\ SumFunctionOnSet(f, those) = SumFunctionOnSet(f, fewer) + SumFunctionOnSet(f, those \ fewer)
      /\ SumFunctionOnSet(f, fewer) \in Int /\ SumFunctionOnSet(f, those \ fewer) \in Int
  BY <1>1, <1>2, SumInParts
<1> QED
  BY <1>3, <1>4 DEF f, Owed

\* One entry less owes its amount less.
LEMMA OwedWithout ==
    ASSUME EntryTypes, NEW those \in SUBSET DOMAIN entry, NEW x \in those
    PROVE  Owed(those \ {x}) = Owed(those) - entry[x].amount /\ Owed(those) \in Int
<1> DEFINE f == [i \in DOMAIN entry |-> entry[i].amount]
<1>1. (\A y \in those : f[y] \in Int) /\ f[x] = entry[x].amount
  BY EntryIs
<1>2. IsFiniteSet(those) /\ IsFiniteSet(those \ {x})
  BY EntriesFinite
<1> HIDE DEF f
<1>3. SumFunctionOnSet(f, those) = f[x] + SumFunctionOnSet(f, those \ {x})
  BY <1>1, <1>2, SumTakeOut
<1>4. SumFunctionOnSet(f, those) \in Int /\ SumFunctionOnSet(f, those \ {x}) \in Int
  BY <1>1, <1>2, SumType
<1>5. SumFunctionOnSet(f, those \ {x}) = SumFunctionOnSet(f, those) - entry[x].amount
  BY <1>1, <1>3, <1>4
<1> QED
  BY <1>4, <1>5 DEF f, Owed

\* The rows of page n of a book, the newest first: no entry of the book lies between two of
\* them, and each is where the entries above it put it.
Paged(those, rows, n) ==
    /\ rows \in Seq(those)
    /\ \A k \in 2..Len(rows) : \A i \in those :
          E!Newer(rows[k - 1], i) <=> i = rows[k] \/ E!Newer(rows[k], i)
    /\ \A i \in those : \A k \in 1..PageSize :
          (Cardinality({j \in those : E!Newer(j, i)}) = (n - 1) * PageSize + k - 1)
             <=> (k \in DOMAIN rows /\ rows[k] = i)

\* In an order of the book by its moments and ids, so many come before an entry as stand
\* above it.
LEMMA AboveInOrder ==
    ASSUME EntryTypes, NEW those \in SUBSET DOMAIN entry, NEW s \in E!SetToSeqs(those),
           \A m, n \in DOMAIN s : m < n => ~E!Newer(s[n], s[m])
    PROVE  /\ s \in Seq(those) /\ Len(s) = Cardinality(those) /\ Cardinality(those) \in Nat
           /\ \A i \in those : \E k \in 1..Len(s) : s[k] = i
           /\ \A k, l \in 1..Len(s) : /\ s[k] = s[l] => k = l
                                      /\ k < l <=> E!Newer(s[k], s[l])
           /\ \A k \in 1..Len(s) : Cardinality({j \in those : E!Newer(j, s[k])}) = k - 1
<1>1. IsFiniteSet(those) /\ Cardinality(those) \in Nat
  BY EntriesFinite, FS_CardinalityType
<1>2. PICK c \in Nat : c = Cardinality(those)
  BY <1>1
<1>3. s \in [1..c -> those] /\ \A i, j \in 1..c : i # j => s[i] # s[j]
  BY <1>2 DEF E!SetToSeqs, E!Cardinality, Cardinality
<1>4. s \in Seq(those) /\ Len(s) = c /\ DOMAIN s = 1..c
  BY <1>3
<1>5. s \in Injection(1..c, those)
  BY <1>3 DEF Injection, IsInjective
<1>6. IsFiniteSet(1..c) /\ Cardinality(1..c) = c
  BY FS_Interval
<1>7. s \in Surjection(1..c, those)
  BY <1>1, <1>2, <1>5, <1>6, FS_Injection
<1>8. \A i \in those : \E k \in 1..c : s[k] = i
  BY <1>7 DEF Surjection
<1>9. \A k, l \in 1..c : k < l <=> E!Newer(s[k], s[l])
  <2> TAKE k, l \in 1..c
  <2>1. s[k] \in DOMAIN entry /\ s[l] \in DOMAIN entry
    BY <1>3
  <2>2. k < l => E!Newer(s[k], s[l])
    <3>1. ASSUME k < l PROVE E!Newer(s[k], s[l])
      <4>1. ~E!Newer(s[l], s[k]) /\ s[k] # s[l]
        BY <1>3, <1>4, <3>1
      <4> QED
        BY <2>1, <4>1, NewerOrders
    <3> QED
      BY <3>1
  <2>3. l < k => E!Newer(s[l], s[k])
    <3>1. ASSUME l < k PROVE E!Newer(s[l], s[k])
      <4>1. ~E!Newer(s[k], s[l]) /\ s[k] # s[l]
        BY <1>3, <1>4, <3>1
      <4> QED
        BY <2>1, <4>1, NewerOrders
    <3> QED
      BY <3>1
  <2>4. E!Newer(s[k], s[l]) => ~E!Newer(s[l], s[k]) /\ (k = l => FALSE)
    BY <2>1, NewerOrders
  <2>5. k \in Nat /\ l \in Nat
    OBVIOUS
  <2> QED
    BY <2>2, <2>3, <2>4, <2>5
<1>10. ASSUME NEW k \in 1..c PROVE Cardinality({j \in those : E!Newer(j, s[k])}) = k - 1
  <2> DEFINE over == {j \in those : E!Newer(j, s[k])}
             f == [m \in 1..k - 1 |-> s[m]]
  <2>1. f \in [1..k - 1 -> over]
    <3>1. \A m \in 1..k - 1 : m \in 1..c /\ m < k /\ s[m] \in those
      BY <1>3
    <3>2. \A m \in 1..k - 1 : s[m] \in over
      BY <1>9, <3>1
    <3> HIDE DEF over
    <3> QED
      BY <3>2
  <2>2. \A j \in over : \E m \in 1..k - 1 : f[m] = j
    <3> TAKE j \in over
    <3>1. PICK m \in 1..c : s[m] = j
      BY <1>8
    <3>2. m < k
      BY <1>9, <3>1
    <3>3. m \in 1..k - 1
      BY <3>2
    <3> QED
      BY <3>1, <3>3
  <2>3. \A a, b \in 1..k - 1 : f[a] = f[b] => a = b
    BY <1>3
  <2> HIDE DEF f, over
  <2>4. f \in Injection(1..k - 1, over) /\ f \in Surjection(1..k - 1, over)
    BY <2>1, <2>2, <2>3 DEF Injection, Surjection, IsInjective
  <2>5. IsFiniteSet(1..k - 1) /\ Cardinality(1..k - 1) = k - 1
    BY FS_Interval
  <2>6. Cardinality(over) = Cardinality(1..k - 1)
    BY <2>4, <2>5, FS_Surjection
  <2> QED
    BY <2>5, <2>6 DEF over
<1> QED
  BY <1>1, <1>2, <1>3, <1>4, <1>8, <1>9, <1>10

\* Page n of an order of the book by its moments and ids is page n of the book.
LEMMA PageOfOrder ==
    ASSUME EntryTypes, NEW those \in SUBSET DOMAIN entry, NEW s \in E!SetToSeqs(those),
           \A m, n \in DOMAIN s : m < n => ~E!Newer(s[n], s[m]), NEW n \in Nat, n >= 1
    PROVE  Paged(those, E!PageOf(s, n), n)
<1>1. /\ s \in Seq(those) /\ Len(s) = Cardinality(those) /\ Cardinality(those) \in Nat
      /\ \A i \in those : \E k \in 1..Len(s) : s[k] = i
      /\ \A k, l \in 1..Len(s) : /\ s[k] = s[l] => k = l
                                 /\ k < l <=> E!Newer(s[k], s[l])
      /\ \A k \in 1..Len(s) : Cardinality({j \in those : E!Newer(j, s[k])}) = k - 1
  BY AboveInOrder
<1>2. PICK c \in Nat : c = Len(s)
  BY <1>1
<1>3. PICK w \in Nat : w = PageSize /\ w >= 1
  BY LedgersAssumed
<1>4. PICK a \in Nat : a = (n - 1) * w
  BY <1>3
<1>5. n * PageSize = a + w /\ (n - 1) * PageSize = a
  BY <1>3, <1>4
<1>6. PICK b \in Nat : b = E!Min({n * PageSize, Len(s)}) /\ b <= a + w /\ b <= c
                       /\ (b = a + w \/ b = c)
  <2>1. PICK b \in {a + w, c} : \A y \in {a + w, c} : b <= y
    <3>1. CASE a + w <= c
      BY <1>2, <1>3, <1>4, <3>1
    <3>2. CASE c <= a + w
      BY <1>2, <1>3, <1>4, <3>2
    <3> QED
      BY <3>1, <3>2, <1>2, <1>3, <1>4
  <2>2. \A x \in {a + w, c} : (\A y \in {a + w, c} : x <= y) => x = b
    BY <1>2, <1>3, <1>4, <2>1
  <2>3. E!Min({a + w, c}) = b
    BY <2>1, <2>2 DEF E!Min
  <2>4. {n * PageSize, Len(s)} = {a + w, c}
    BY <1>2, <1>5
  <2>5. b \in Nat /\ b <= a + w /\ b <= c /\ (b = a + w \/ b = c)
    BY <2>1, <1>3
  <2> QED
    BY <2>3, <2>4, <2>5
<1>60. b <= a + w /\ b <= c /\ (b = a + w \/ b = c)
  BY <1>6
<1>7. PICK rows : rows = E!PageOf(s, n)
  OBVIOUS
<1>8. rows = SubSeq(s, a + 1, b)
  BY <1>5, <1>6, <1>7 DEF E!PageOf
<1>9. /\ rows \in Seq(those)
      /\ Len(rows) = IF a + 1 <= b THEN b - a ELSE 0
      /\ \A k \in 1..Len(rows) : rows[k] = s[a + k]
  <2>1. s \in Seq(those) /\ a + 1 \in Nat /\ a + 1 >= 1 /\ b \in Nat /\ b <= Len(s)
    BY <1>1, <1>2, <1>60
  <2>2. /\ rows \in Seq(those)
        /\ Len(rows) = IF a + 1 <= b THEN b - (a + 1) + 1 ELSE 0
        /\ \A k \in 1..b - (a + 1) + 1 : rows[k] = s[(a + 1) + k - 1]
    BY <2>1, <1>8, SubSeqProperties
  <2> QED
    BY <2>2
<1>10. \A k \in 1..Len(rows) : a + k \in 1..c /\ rows[k] = s[a + k] /\ k \in Nat /\ k <= w
  BY <1>2, <1>3, <1>60, <1>9
<1>11. \A k \in Nat : k >= 1 /\ k <= w /\ a + k <= c => k \in 1..Len(rows)
  BY <1>2, <1>3, <1>60, <1>9
<1>12. DOMAIN rows = 1..Len(rows) /\ Len(rows) \in Nat
  BY <1>9
<1>13. ASSUME NEW k \in 2..Len(rows), NEW i \in those
       PROVE  E!Newer(rows[k - 1], i) <=> i = rows[k] \/ E!Newer(rows[k], i)
  <2>1. PICK m \in 1..c : s[m] = i
    BY <1>1, <1>2
  <2>2. k \in 1..Len(rows) /\ k - 1 \in 1..Len(rows) /\ k \in Nat
    BY <1>12
  <2>3. rows[k] = s[a + k] /\ a + k \in 1..c /\ rows[k - 1] = s[a + (k - 1)] /\ a + (k - 1) \in 1..c
    BY <1>10, <2>2
  <2>4. /\ E!Newer(rows[k - 1], i) <=> a + (k - 1) < m
        /\ E!Newer(rows[k], i) <=> a + k < m
        /\ i = rows[k] <=> a + k = m
    BY <1>1, <1>2, <2>1, <2>3
  <2> QED
    BY <2>1, <2>2, <2>4, <1>4
<1>14. ASSUME NEW i \in those, NEW k \in 1..PageSize
       PROVE  (Cardinality({j \in those : E!Newer(j, i)}) = (n - 1) * PageSize + k - 1)
                <=> (k \in DOMAIN rows /\ rows[k] = i)
  <2>1. PICK m \in 1..c : s[m] = i
    BY <1>1, <1>2
  <2>2. Cardinality({j \in those : E!Newer(j, i)}) = m - 1
    BY <1>1, <1>2, <2>1
  <2>3. k \in Nat /\ k >= 1 /\ k <= w
    BY <1>3
  <2>4. k \in DOMAIN rows /\ rows[k] = i <=> m = a + k
    <3>1. ASSUME k \in DOMAIN rows, rows[k] = i PROVE m = a + k
      BY <3>1, <1>1, <1>2, <1>10, <1>12, <2>1
    <3>2. ASSUME m = a + k PROVE k \in DOMAIN rows /\ rows[k] = i
      BY <3>2, <1>10, <1>11, <1>12, <2>1, <2>3
    <3> QED
      BY <3>1, <3>2
  <2>5. m - 1 = a + k - 1 <=> m = a + k
    BY <2>1, <2>3, <1>4
  <2> QED
    BY <2>2, <2>4, <2>5, <1>5
<1> QED
  BY <1>7, <1>9, <1>13, <1>14 DEF Paged

\* The sums that a supplier's page was given.
SumsTrue(r) ==
    /\ r.total = Owed(E!There)
    /\ r.opening = Owed({i \in E!There : E!Before(r.period, i)})
    /\ r.decreased = Owed({i \in E!There : E!Within(r.period, i) /\ entry[i].amount > 0})
    /\ r.increased = -Owed({i \in E!There : E!Within(r.period, i) /\ entry[i].amount < 0})

\* What was computed from them: each row's balance and the one of the period's end.
RunningTrue(r) ==
    r.type = "any" =>
        \A n \in DOMAIN r.rows :
            r.balances[n] = Owed({i \in E!There : ~E!Newer(i, r.rows[n])})

ClosingTrue(r) ==
    E!Open \in {r.period.from, r.period.to} \/ r.period.from <= r.period.to =>
        r.closing = Owed({i \in E!There : r.period.to = E!Open \/ entry[i].at <= r.period.to})

\* What is told of a supplier's and of a customer's ledger, unless an entry came meanwhile.
SupplierTrue(r) ==
    r.alone =>
        /\ r.pc # "rows" => Paged(E!Matching(r), r.rows, r.page)
        /\ r.pc = "newer" => SumsTrue(r)
        /\ r.pc = "answered" => RunningTrue(r) /\ ClosingTrue(r)

CustomerTrue(r) ==
    r.alone /\ (\A i, j \in E!There : i # j => entry[i].at # entry[j].at) =>
        Paged(E!There, r.rows, r.page)

\* Others see the same entries as before.
Quiet == E!There' = E!There /\ \A i \in E!There : entry'[i] = entry[i]

\* Entries that are seen are entries.
LEMMA ThereAre == E!There \subseteq DOMAIN entry
BY DEF E!There

\* The same entries owe the same.
LEMMA OwedKept ==
    ASSUME EntryTypes, EntryTypes', Quiet, NEW those \in SUBSET E!There
    PROVE  Owed(those)' = Owed(those)
<1> DEFINE f == [i \in DOMAIN entry |-> entry[i].amount]
           g == [i \in DOMAIN entry' |-> entry'[i].amount]
<1>1. those \subseteq DOMAIN entry /\ those \subseteq DOMAIN entry'
  BY DEF Quiet, E!There
<1>2. IsFiniteSet(those)
  BY <1>1, EntriesFinite
<1>3. \A i \in those : g[i] = f[i]
  BY <1>1 DEF Quiet
<1>4. Owed(those) = SumFunctionOnSet(f, those) /\ Owed(those)' = SumFunctionOnSet(g, those)
  BY DEF Owed
<1> HIDE DEF f, g
<1>5. SumFunctionOnSet(g, those) = SumFunctionOnSet(f, those)
  BY <1>2, <1>3, SumSame
<1> QED
  BY <1>4, <1>5

\* What was told stays true as long as others see the same entries.
LEMMA ToldStays ==
    ASSUME EntryTypes, EntryTypes', Quiet, NEW r
    PROVE  /\ SupplierTrue(r) => SupplierTrue(r)'
           /\ CustomerTrue(r) => CustomerTrue(r)'
<1>0. PICK there : there = E!There
  OBVIOUS
<1>1. E!There = there /\ E!There' = there /\ \A i \in there : entry'[i] = entry[i]
  BY <1>0 DEF Quiet
<1>2. \A i, j \in there : E!Newer(i, j)' <=> E!Newer(i, j)
  BY <1>1 DEF E!Newer
<1>3. \A i \in there : /\ E!Within(r.period, i)' <=> E!Within(r.period, i)
                       /\ E!Before(r.period, i)' <=> E!Before(r.period, i)
  BY <1>1 DEF E!Within, E!Before
<1>4. E!Matching(r)' = E!Matching(r) /\ E!Matching(r) \subseteq there
  BY <1>1, <1>3 DEF E!Matching
<1>5. ASSUME NEW those \in SUBSET there, NEW rows, NEW n, Paged(those, rows, n)
      PROVE  Paged(those, rows, n)'
  <2>1. rows \in Seq(those)
    BY <1>5 DEF Paged
  <2>2. \A k \in 1..Len(rows) : rows[k] \in those
    BY <2>1
  <2>3. Len(rows) \in Nat
    BY <2>1
  <2>4. ASSUME NEW k \in 2..Len(rows), NEW i \in those
        PROVE  E!Newer(rows[k - 1], i)' <=> i = rows[k] \/ E!Newer(rows[k], i)'
    <3>1. k \in 1..Len(rows) /\ k - 1 \in 1..Len(rows)
      BY <2>3
    <3>2. rows[k] \in there /\ rows[k - 1] \in there /\ i \in there
      BY <2>2, <3>1
    <3>3. E!Newer(rows[k - 1], i) <=> i = rows[k] \/ E!Newer(rows[k], i)
      BY <1>5 DEF Paged
    <3> QED
      BY <1>2, <3>2, <3>3
  <2>5. \A i \in those : {j \in those : E!Newer(j, i)'} = {j \in those : E!Newer(j, i)}
    BY <1>2
  <2>6. \A i \in those : \A k \in 1..PageSize :
           (Cardinality({j \in those : E!Newer(j, i)'}) = (n - 1) * PageSize + k - 1)
              <=> (k \in DOMAIN rows /\ rows[k] = i)
    BY <1>5, <2>5 DEF Paged
  <2> QED
    BY <2>1, <2>4, <2>6 DEF Paged
<1>6. ASSUME NEW those \in SUBSET there PROVE Owed(those)' = Owed(those)
  <2>1. those \in SUBSET E!There
    BY <1>1
  <2> QED
    BY <2>1, OwedKept
<1>7. SumsTrue(r) => SumsTrue(r)'
  <2>1. PICK first : first = {i \in there : E!Before(r.period, i)}
    OBVIOUS
  <2>2. PICK up : up = {i \in there : E!Within(r.period, i) /\ entry[i].amount > 0}
    OBVIOUS
  <2>3. PICK down : down = {i \in there : E!Within(r.period, i) /\ entry[i].amount < 0}
    OBVIOUS
  <2>4. /\ first = {i \in there : E!Before(r.period, i)'}
        /\ up = {i \in there : E!Within(r.period, i)' /\ entry'[i].amount > 0}
        /\ down = {i \in there : E!Within(r.period, i)' /\ entry'[i].amount < 0}
    BY <1>1, <1>3, <2>1, <2>2, <2>3
  <2>5. /\ Owed(there)' = Owed(there) /\ Owed(first)' = Owed(first)
        /\ Owed(up)' = Owed(up) /\ Owed(down)' = Owed(down)
    BY <1>6, <2>1, <2>2, <2>3
  <2>6. SumsTrue(r) => /\ r.total = Owed(there) /\ r.opening = Owed(first)
                       /\ r.decreased = Owed(up) /\ r.increased = -Owed(down)
    BY <1>1, <2>1, <2>2, <2>3 DEF SumsTrue
  <2>7. (/\ r.total = Owed(there)' /\ r.opening = Owed(first)'
         /\ r.decreased = Owed(up)' /\ r.increased = -(Owed(down)')) => SumsTrue(r)'
    <3>1. /\ {i \in E!There : E!Before(r.period, i)}' = first
          /\ {i \in E!There : E!Within(r.period, i) /\ entry[i].amount > 0}' = up
          /\ {i \in E!There : E!Within(r.period, i) /\ entry[i].amount < 0}' = down
          /\ E!There' = there
      BY <1>1, <2>4
    <3> QED
      BY <3>1 DEF SumsTrue
  <2> QED
    BY <2>5, <2>6, <2>7
<1>8. Paged(E!Matching(r), r.rows, r.page) /\ RunningTrue(r) => RunningTrue(r)'
  <2> SUFFICES ASSUME Paged(E!Matching(r), r.rows, r.page), RunningTrue(r), r.type = "any",
                      NEW n \in DOMAIN r.rows
               PROVE  r.balances[n] = Owed({i \in E!There : ~E!Newer(i, r.rows[n])})'
    BY DEF RunningTrue
  <2>1. PICK x : x = r.rows[n]
    OBVIOUS
  <2>2. x \in there
    <3>1. r.rows \in Seq(E!Matching(r))
      BY DEF Paged
    <3> QED
      BY <1>4, <2>1, <3>1, ElementOfSeq
  <2>3. PICK left : left = {i \in there : ~E!Newer(i, x)}
    OBVIOUS
  <2>4. left = {i \in there : ~(E!Newer(i, x)')}
    BY <1>2, <2>2, <2>3
  <2>5. r.balances[n] = Owed(left)
    BY <1>1, <2>1, <2>3 DEF RunningTrue
  <2>6. Owed(left)' = Owed(left)
    BY <1>6, <2>3
  <2> QED
    BY <1>1, <2>1, <2>4, <2>5, <2>6
<1>9. ClosingTrue(r) => ClosingTrue(r)'
  <2>1. PICK left : left = {i \in there : r.period.to = E!Open \/ entry[i].at <= r.period.to}
    OBVIOUS
  <2>2. left = {i \in there : r.period.to = E!Open \/ entry'[i].at <= r.period.to}
    BY <1>1, <2>1
  <2>3. Owed(left)' = Owed(left)
    BY <1>6, <2>1
  <2> QED
    BY <1>1, <2>1, <2>2, <2>3 DEF ClosingTrue, E!Open
<1>10. SupplierTrue(r) => SupplierTrue(r)'
  <2>1. PICK those : those = E!Matching(r)
    OBVIOUS
  <2>2. those \subseteq there /\ E!Matching(r)' = those
    BY <1>4, <2>1
  <2>3. Paged(those, r.rows, r.page) => Paged(those, r.rows, r.page)'
    BY <1>5, <2>2
  <2>4. Paged(E!Matching(r), r.rows, r.page) => Paged(E!Matching(r), r.rows, r.page)'
    BY <2>1, <2>2, <2>3 DEF Paged
  <2> QED
    BY <1>7, <1>8, <1>9, <2>4 DEF SupplierTrue
<1>11. CustomerTrue(r) => CustomerTrue(r)'
  <2>1. Paged(there, r.rows, r.page) => Paged(there, r.rows, r.page)'
    BY <1>5
  <2>2. Paged(E!There, r.rows, r.page) => Paged(E!There, r.rows, r.page)'
    BY <1>1, <2>1 DEF Paged
  <2> QED
    BY <1>1, <2>2 DEF CustomerTrue
<1> QED
  BY <1>10, <1>11

\* The sums of a period that does not end before it begins make the balance of its end.
LEMMA PeriodAddsUp ==
    ASSUME EntryTypes, NEW p \in Periods, E!Open \in {p.from, p.to} \/ p.from <= p.to
    PROVE  LET first == {i \in E!There : E!Before(p, i)}
               up == {i \in E!There : E!Within(p, i) /\ entry[i].amount > 0}
               down == {i \in E!There : E!Within(p, i) /\ entry[i].amount < 0}
               last == {i \in E!There : p.to = E!Open \/ entry[i].at <= p.to}
           IN  /\ Owed(last) = Owed(first) + Owed(up) + Owed(down)
               /\ Owed(first) \in Int /\ Owed(up) \in Int /\ Owed(down) \in Int
<1> DEFINE first == {i \in E!There : E!Before(p, i)}
           up == {i \in E!There : E!Within(p, i) /\ entry[i].amount > 0}
           down == {i \in E!There : E!Within(p, i) /\ entry[i].amount < 0}
           last == {i \in E!There : p.to = E!Open \/ entry[i].at <= p.to}
           inside == {i \in E!There : E!Within(p, i)}
<1>1. \A i \in E!There : i \in DOMAIN entry /\ entry[i].at \in Nat
                         /\ entry[i].amount \in Int /\ entry[i].amount # 0
  BY ThereAre, EntryIs
<1>2. PICK a \in Int, b \in Int : a = p.from /\ b = p.to
  <2>1. {p.from, p.to} \subseteq 1..MaxMoment \union {E!Open}
    BY OperationsAssumption DEF OperationsAssumption, E!LedgersAssumption
  <2>2. \A x \in 1..MaxMoment \union {E!Open} : x \in Int
    BY LedgersAssumed DEF E!Open
  <2> QED
    BY <2>1, <2>2
<1>3. a = -1 \/ b = -1 \/ a <= b
  BY <1>2 DEF E!Open
<1>4. \A i \in E!There : /\ i \in first <=> a # -1 /\ entry[i].at < a
                         /\ i \in inside <=> (a = -1 \/ a <= entry[i].at)
                                             /\ (b = -1 \/ entry[i].at <= b)
                         /\ i \in last <=> b = -1 \/ entry[i].at <= b
  BY <1>2 DEF E!Open, E!Before, E!Within
<1>5. \A i \in E!There : /\ i \in up <=> i \in inside /\ entry[i].amount > 0
                         /\ i \in down <=> i \in inside /\ entry[i].amount < 0
  OBVIOUS
<1>6. /\ last \in SUBSET DOMAIN entry /\ first \subseteq E!There /\ inside \subseteq E!There
      /\ up \subseteq E!There /\ down \subseteq E!There /\ last \subseteq E!There
  BY <1>1
<1> HIDE DEF first, up, down, last, inside
<1>7. first \subseteq last /\ last \ first = inside
  <2>1. \A i \in E!There : (i \in first => i \in last) /\ (i \in inside <=> i \in last /\ i \notin first)
    BY <1>1, <1>3, <1>4
  <2> QED
    BY <1>6, <2>1
<1>8. up \subseteq inside /\ inside \ up = down
  <2>1. \A i \in E!There : (i \in up => i \in inside) /\ (i \in down <=> i \in inside /\ i \notin up)
    BY <1>1, <1>5
  <2> QED
    BY <1>6, <2>1
<1>9. Owed(last) = Owed(first) + Owed(inside) /\ Owed(first) \in Int
  BY <1>6, <1>7, OwedInParts
<1>10. inside \in SUBSET DOMAIN entry
  BY <1>6, <1>7
<1>11. Owed(inside) = Owed(up) + Owed(down) /\ Owed(up) \in Int /\ Owed(down) \in Int
  BY <1>8, <1>10, OwedInParts
<1>12. Owed(last) = Owed(first) + Owed(up) + Owed(down)
  BY <1>9, <1>11
<1> QED
  BY <1>9, <1>11, <1>12 DEF first, up, down, last

\* What is owed after the entry of a row, and after the one below it.
LEMMA RowsBalance ==
    ASSUME EntryTypes, NEW p \in Periods, NEW x \in E!There, NEW y \in E!There,
           E!Within(p, x), E!Within(p, y),
           \A i \in E!There : E!Within(p, i) => (E!Newer(x, i) <=> i = y \/ E!Newer(y, i))
    PROVE  Owed({i \in E!There : ~E!Newer(i, y)})
               = Owed({i \in E!There : ~E!Newer(i, x)}) - entry[x].amount
<1> DEFINE upto(z) == {i \in E!There : ~E!Newer(i, z)}
<1>1. \A i \in E!There : i \in DOMAIN entry /\ entry[i].at \in Nat
  BY ThereAre, EntryIs
<1>2. PICK a \in Int, b \in Int : a = p.from /\ b = p.to
  <2>1. {p.from, p.to} \subseteq 1..MaxMoment \union {E!Open}
    BY OperationsAssumption DEF OperationsAssumption, E!LedgersAssumption
  <2>2. \A z \in 1..MaxMoment \union {E!Open} : z \in Int
    BY LedgersAssumed DEF E!Open
  <2> QED
    BY <2>1, <2>2
<1>3. \A i \in E!There : E!Within(p, i) <=> (a = -1 \/ a <= entry[i].at)
                                            /\ (b = -1 \/ entry[i].at <= b)
  BY <1>2 DEF E!Open, E!Within
<1>4. x \in DOMAIN entry /\ y \in DOMAIN entry
  BY <1>1
<1>5. ASSUME NEW i \in E!There PROVE E!Newer(x, i) <=> i = y \/ E!Newer(y, i)
  <2>1. CASE E!Within(p, i)
    BY <2>1
  <2>2. CASE ~E!Within(p, i)
    <3>1. PICK l \in Nat, m \in Nat, n \in Nat :
             l = entry[i].at /\ m = entry[x].at /\ n = entry[y].at
      BY <1>1
    <3>2. /\ (a = -1 \/ a <= m) /\ (b = -1 \/ m <= b)
          /\ (a = -1 \/ a <= n) /\ (b = -1 \/ n <= b)
          /\ ~((a = -1 \/ a <= l) /\ (b = -1 \/ l <= b))
      BY <1>3, <2>2, <3>1
    <3>3. (l < m /\ l < n) \/ (m < l /\ n < l)
      BY <3>2
    <3>4. i # y
      BY <2>2
    <3> QED
      BY <3>1, <3>3, <3>4 DEF E!Newer
  <2> QED
    BY <2>1, <2>2
<1>6. E!Newer(x, y) /\ x # y
  BY <1>4, <1>5, NewerOrders
<1>7. \A i \in E!There : i \in upto(y) <=> i \in upto(x) /\ i # x
  <2> TAKE i \in E!There
  <2>1. i \in DOMAIN entry
    BY <1>1
  <2>2. /\ ~E!Newer(i, x) <=> i = x \/ E!Newer(x, i)
        /\ ~E!Newer(i, y) <=> i = y \/ E!Newer(y, i)
    BY <1>4, <2>1, NewerOrders
  <2>3. ~E!Newer(x, x)
    BY <1>4, NewerOrders
  <2> QED
    BY <1>5, <2>2, <2>3
<1>8. x \in upto(x) /\ upto(x) \in SUBSET DOMAIN entry /\ upto(y) \subseteq E!There
      /\ upto(x) \subseteq E!There
  BY <1>1, <1>4, NewerOrders
<1> HIDE DEF upto
<1>9. upto(y) = upto(x) \ {x}
  BY <1>7, <1>8
<1>10. Owed(upto(y)) = Owed(upto(x)) - entry[x].amount
  BY <1>8, <1>9, OwedWithout
<1> QED
  BY <1>10 DEF upto

\* The balances computed back through the rows of a page are what their entries left behind.
LEMMA RunningBack ==
    ASSUME EntryTypes, NEW p \in Periods, NEW those, NEW rows, NEW n, Paged(those, rows, n),
           those = {i \in E!There : E!Within(p, i)},
           NEW start, rows # <<>> => start = Owed({i \in E!There : ~E!Newer(i, rows[1])})
    PROVE  \A k \in DOMAIN rows :
              E!Balances(start, rows)[k] = Owed({i \in E!There : ~E!Newer(i, rows[k])})
<1> DEFINE left(k) == Owed({i \in E!There : ~E!Newer(i, rows[k])})
           Counted(g) == g = [k \in 1..Len(rows) |->
                              IF k = 1 THEN start ELSE g[k - 1] - entry[rows[k - 1]].amount]
           c == [k \in 1..Len(rows) |-> left(k)]
<1>1. rows \in Seq(those) /\ Len(rows) \in Nat /\ DOMAIN rows = 1..Len(rows)
  BY DEF Paged
<1>2. \A k \in 1..Len(rows) : rows[k] \in E!There /\ E!Within(p, rows[k])
  BY <1>1
<1>3. 1 \in 1..Len(rows) => left(1) = start
  <2>1. 1 \in 1..Len(rows) => rows # <<>>
    BY <1>1
  <2> QED
    BY <2>1
<1>4. ASSUME NEW k \in 2..Len(rows) PROVE left(k) = left(k - 1) - entry[rows[k - 1]].amount
  <2>1. k \in 1..Len(rows) /\ k - 1 \in 1..Len(rows)
    BY <1>1
  <2>2. PICK x, y : x = rows[k - 1] /\ y = rows[k]
    OBVIOUS
  <2>3. x \in E!There /\ y \in E!There /\ E!Within(p, x) /\ E!Within(p, y)
    BY <1>2, <2>1, <2>2
  <2>4. \A i \in E!There : E!Within(p, i) => (E!Newer(x, i) <=> i = y \/ E!Newer(y, i))
    BY <2>2 DEF Paged
  <2>5. Owed({i \in E!There : ~E!Newer(i, y)})
            = Owed({i \in E!There : ~E!Newer(i, x)}) - entry[x].amount
    BY <2>3, <2>4, RowsBalance
  <2> QED
    BY <2>2, <2>5
<1> HIDE DEF left
<1>5. Counted(c)
  <2>1. ASSUME NEW k \in 1..Len(rows)
        PROVE  left(k) = IF k = 1 THEN start ELSE c[k - 1] - entry[rows[k - 1]].amount
    <3>1. CASE k = 1
      BY <1>3, <3>1
    <3>2. CASE k # 1
      <4>1. k \in 2..Len(rows) /\ k - 1 \in 1..Len(rows)
        BY <1>1, <3>2
      <4> QED
        BY <1>4, <3>2, <4>1
    <3> QED
      BY <3>1, <3>2
  <2> QED
    BY <2>1
<1> HIDE DEF c
<1>6. PICK g : g = E!Balances(start, rows) /\ Counted(g)
  <2>1. E!Balances(start, rows) = CHOOSE g : Counted(g)
    BY DEF E!Balances
  <2> HIDE DEF Counted
  <2> QED
    BY <1>5, <2>1
<1>7. \A k \in 1..Len(rows) :
         g[k] = IF k = 1 THEN start ELSE g[k - 1] - entry[rows[k - 1]].amount
  BY <1>6
<1>8. \A k \in 1..Len(rows) : g[k] = left(k)
  <2> DEFINE Bad == {k \in 1..Len(rows) : g[k] # left(k)}
  <2> SUFFICES ASSUME Bad # {} PROVE FALSE
    OBVIOUS
  <2>1. Bad \subseteq Nat
    BY <1>1
  <2>2. PICK k \in Bad : \A l \in Bad : k <= l
    BY <2>1, LeastNatural
  <2>3. CASE k = 1
    BY <1>3, <1>7, <2>3
  <2>4. CASE k # 1
    <3>1. k \in 2..Len(rows) /\ k - 1 \in 1..Len(rows) /\ k \in Nat
      BY <1>1, <2>4
    <3>2. k - 1 \notin Bad
      BY <2>2, <3>1
    <3>3. g[k - 1] = left(k - 1)
      BY <3>1, <3>2
    <3> QED
      BY <1>4, <1>7, <2>4, <3>1, <3>3
  <2> QED
    BY <2>3, <2>4
<1> QED
  BY <1>1, <1>6, <1>8 DEF left

\* The balance of the first row of a page is the supplier's less what is above the row.
LEMMA RunningStart ==
    ASSUME EntryTypes, NEW x \in E!There
    PROVE  Owed(E!There) - Owed({i \in E!There : E!Newer(i, x)})
               = Owed({i \in E!There : ~E!Newer(i, x)})
<1> DEFINE over == {i \in E!There : E!Newer(i, x)}
           left == {i \in E!There : ~E!Newer(i, x)}
<1>1. E!There \in SUBSET DOMAIN entry
  BY ThereAre
<1>2. over \in SUBSET E!There /\ E!There \ over = left
  OBVIOUS
<1> HIDE DEF over, left
<1>3. Owed(E!There) = Owed(over) + Owed(left) /\ Owed(over) \in Int /\ Owed(left) \in Int
  BY <1>1, <1>2, OwedInParts
<1>4. Owed(E!There) - Owed(over) = Owed(left)
  BY <1>3
<1> QED
  BY <1>4 DEF over, left

\* A page of a supplier's ledger and a page of a customer's.
SupplierPage(r) ==
    \E k, t, p, n, a, rows, total, first, less, more, balances, last :
       /\ k \in {"rows", "sums", "newer", "answered"} /\ t \in E!Types \union {"any"}
       /\ p \in Periods /\ n \in Nat /\ n >= 1 /\ a \in BOOLEAN
       /\ r = [pc |-> k, type |-> t, period |-> p, page |-> n, alone |-> a, rows |-> rows,
               total |-> total, opening |-> first, decreased |-> less, increased |-> more,
               balances |-> balances, closing |-> last]

CustomerPage(r) ==
    \E k, n, a, rows, total, debt :
       /\ k \in {"debt", "answered"} /\ n \in Nat /\ n >= 1 /\ a \in BOOLEAN
       /\ r = [pc |-> k, page |-> n, alone |-> a, rows |-> rows, total |-> total, debt |-> debt]

\* What is known of the page that is read.
PageKnown(r) ==
    \/ r = E!Idle
    \/ whose = "supplier" /\ SupplierPage(r) /\ SupplierTrue(r)
    \/ whose = "customer" /\ CustomerPage(r) /\ CustomerTrue(r)

PagesKnown == \A r : r = page => PageKnown(r)

\* The inductive invariant of the ledgers of debt.
DebtInv == EntryTypes /\ PagesKnown

\* It holds at the beginning.
LEMMA DebtStarts == E!Init => DebtInv
<1> SUFFICES ASSUME E!Init PROVE DebtInv
  OBVIOUS
<1>1. entry = <<>> /\ clock = 1 /\ page = E!Idle /\ whose \in {"supplier", "customer"}
  BY DEF E!Init
<1>2. EntryTypes
  BY <1>1, LedgersAssumed DEF EntryTypes
<1>3. PagesKnown
  BY <1>1 DEF PagesKnown, PageKnown
<1> QED
  BY <1>2, <1>3 DEF DebtInv

\* A step that others do not see leaves what was told true.
LEMMA QuietStep ==
    ASSUME DebtInv, EntryTypes', Quiet, UNCHANGED <<page, whose>>
    PROVE  DebtInv'
<1>1. PagesKnown'
  <2>1. SUFFICES ASSUME NEW r, r = page PROVE PageKnown(r)'
    BY DEF PagesKnown
  <2>2. PageKnown(r)
    BY <2>1 DEF DebtInv, PagesKnown
  <2>3. (SupplierTrue(r) => SupplierTrue(r)') /\ (CustomerTrue(r) => CustomerTrue(r)')
    BY ToldStays DEF DebtInv
  <2> QED
    BY <2>2, <2>3 DEF PageKnown, SupplierPage, CustomerPage, E!Idle
<1> QED
  BY <1>1 DEF DebtInv

\* A page that is read while the ledger changes tells nothing for certain.
LEMMA ChangedStep ==
    ASSUME DebtInv, EntryTypes', E!Changed, whose' = whose
    PROVE  DebtInv'
<1>1. PICK r : r = page
  OBVIOUS
<1>2. PageKnown(r)
  BY <1>1 DEF DebtInv, PagesKnown
<1>3. PICK q : q = page'
  OBVIOUS
<1>4. q = IF r = E!Idle THEN E!Idle ELSE [r EXCEPT !.alone = FALSE]
  BY <1>1, <1>3 DEF E!Changed
<1>5. PageKnown(q)'
  <2>1. CASE r = E!Idle
    BY <1>4, <2>1 DEF PageKnown, E!Idle
  <2>2. CASE r # E!Idle /\ whose = "supplier" /\ SupplierPage(r)
    <3>1. PICK k, t, p, n, a, rows, total, first, less, more, balances, last :
          /\ k \in {"rows", "sums", "newer", "answered"} /\ t \in E!Types \union {"any"}
          /\ p \in Periods /\ n \in Nat /\ n >= 1 /\ a \in BOOLEAN
          /\ r = [pc |-> k, type |-> t, period |-> p, page |-> n, alone |-> a, rows |-> rows,
                  total |-> total, opening |-> first, decreased |-> less, increased |-> more,
                  balances |-> balances, closing |-> last]
      BY <2>2 DEF SupplierPage
    <3>2. q = [pc |-> k, type |-> t, period |-> p, page |-> n, alone |-> FALSE, rows |-> rows,
               total |-> total, opening |-> first, decreased |-> less, increased |-> more,
               balances |-> balances, closing |-> last]
      BY <1>4, <2>2, <3>1
    <3>3. SupplierPage(q) /\ q.alone = FALSE
      <4>1. FALSE \in BOOLEAN
        OBVIOUS
      <4> QED
        BY <3>1, <3>2, <4>1 DEF SupplierPage
    <3>4. SupplierPage(q)' /\ SupplierTrue(q)'
      BY <3>3 DEF SupplierPage, SupplierTrue
    <3> QED
      BY <2>2, <3>4 DEF PageKnown
  <2>3. CASE r # E!Idle /\ whose = "customer" /\ CustomerPage(r)
    <3>1. PICK k, n, a, rows, total, debt :
          /\ k \in {"debt", "answered"} /\ n \in Nat /\ n >= 1 /\ a \in BOOLEAN
          /\ r = [pc |-> k, page |-> n, alone |-> a, rows |-> rows, total |-> total,
                  debt |-> debt]
      BY <2>3 DEF CustomerPage
    <3>2. q = [pc |-> k, page |-> n, alone |-> FALSE, rows |-> rows, total |-> total,
               debt |-> debt]
      BY <1>4, <2>3, <3>1
    <3>3. CustomerPage(q) /\ q.alone = FALSE
      <4>1. FALSE \in BOOLEAN
        OBVIOUS
      <4> QED
        BY <3>1, <3>2, <4>1 DEF CustomerPage
    <3>4. CustomerPage(q)' /\ CustomerTrue(q)'
      BY <3>3 DEF CustomerPage, CustomerTrue
    <3> QED
      BY <2>3, <3>4 DEF PageKnown
  <2> QED
    BY <1>2, <2>1, <2>2, <2>3 DEF PageKnown
<1>6. PagesKnown'
  BY <1>3, <1>5 DEF PagesKnown
<1> QED
  BY <1>6 DEF DebtInv

\* An entry that is written has the latest moment.
LEMMA AppendedTypes ==
    ASSUME EntryTypes, NEW type \in E!Types, NEW a \in Amounts,
           NEW state \in {"uncommitted", "there", "undone"},
           entry' = E!New(type, a, state), UNCHANGED <<clock, whose>>
    PROVE  /\ EntryTypes'
           /\ \A i \in DOMAIN entry : i \in DOMAIN entry' /\ entry'[i] = entry[i]
           /\ \A i \in DOMAIN entry' \ DOMAIN entry : entry'[i].state = state
<1>1. PICK e : e = [type |-> type, amount |-> a, at |-> clock, state |-> state]
  OBVIOUS
<1>2. e \in E!Entry /\ e.at = clock /\ e.state = state /\ clock \in Nat
  BY <1>1, LedgersAssumed DEF EntryTypes, E!Entry
<1>3. entry' = Append(entry, e) /\ entry \in Seq(E!Entry)
  BY <1>1 DEF E!New, EntryTypes
<1>4. /\ entry' \in Seq(E!Entry) /\ Len(entry') = Len(entry) + 1 /\ Len(entry) \in Nat
      /\ \A i \in 1..Len(entry) : entry'[i] = entry[i]
      /\ entry'[Len(entry) + 1] = e
  BY <1>2, <1>3, AppendProperties
<1>5. /\ DOMAIN entry = 1..Len(entry) /\ DOMAIN entry' = 1..(Len(entry) + 1)
      /\ \A i \in DOMAIN entry' \ DOMAIN entry : i = Len(entry) + 1
  BY <1>3, <1>4
<1>6. \A i \in DOMAIN entry' : entry'[i].at <= clock
  <2>1. \A i \in DOMAIN entry : entry'[i].at <= clock
    BY <1>4, <1>5 DEF EntryTypes
  <2>2. entry'[Len(entry) + 1].at <= clock
    BY <1>2, <1>4
  <2> QED
    BY <1>5, <2>1, <2>2
<1>7. ASSUME NEW i \in DOMAIN entry', NEW j \in DOMAIN entry', i < j
      PROVE  entry'[i].at <= entry'[j].at
  <2>1. CASE j \in DOMAIN entry
    <3>1. i \in DOMAIN entry
      BY <1>4, <1>5, <1>7, <2>1
    <3> QED
      BY <1>4, <1>5, <1>7, <2>1, <3>1 DEF EntryTypes
  <2>2. CASE j \notin DOMAIN entry
    <3>1. entry'[j].at = clock
      BY <1>2, <1>4, <1>5, <2>2
    <3> QED
      BY <1>6, <3>1
  <2> QED
    BY <2>1, <2>2
<1>8. EntryTypes'
  BY <1>4, <1>6, <1>7 DEF EntryTypes
<1> QED
  BY <1>2, <1>4, <1>5, <1>8

\* A step that only changes the page keeps the invariant if it is known of the new one.
LEMMA PageStep ==
    ASSUME DebtInv, UNCHANGED <<entry, clock, whose>>, NEW q, q = page', PageKnown(q)
    PROVE  DebtInv'
<1>1. EntryTypes /\ EntryTypes' /\ Quiet
  BY DEF DebtInv, EntryTypes, Quiet, E!There
<1>2. PageKnown(q)'
  BY <1>1, ToldStays DEF PageKnown, SupplierPage, CustomerPage
<1>3. PagesKnown'
  BY <1>2 DEF PagesKnown
<1> QED
  BY <1>1, <1>3 DEF DebtInv

\* Only a supplier's page is read in several queries.
LEMMA SupplierRead ==
    ASSUME DebtInv, NEW r, r = page, r.pc \in {"rows", "sums", "newer"}
    PROVE  whose = "supplier" /\ SupplierPage(r) /\ SupplierTrue(r)
<1>1. PageKnown(r)
  BY DEF DebtInv, PagesKnown
<1>2. r # E!Idle
  BY DEF E!Idle
<1>3. ~CustomerPage(r)
  BY DEF CustomerPage
<1> QED
  BY <1>1, <1>2, <1>3 DEF PageKnown

\* A page is asked for, of a supplier's ledger or of a customer's.
LEMMA AskSupplierStep ==
    ASSUME DebtInv, NEW t \in E!Types \union {"any"}, NEW p \in Periods, NEW n \in Nat, n >= 1,
           E!AskSupplier(t, p, n)
    PROVE  DebtInv'
<1>1. PICK q : q = page'
  OBVIOUS
<1>2. /\ whose = "supplier" /\ UNCHANGED <<entry, clock, whose>>
      /\ q = [pc |-> "rows", type |-> t, period |-> p, page |-> n, alone |-> TRUE,
              rows |-> <<>>, total |-> 0, opening |-> 0, decreased |-> 0, increased |-> 0,
              balances |-> <<>>, closing |-> 0]
  BY <1>1 DEF E!AskSupplier
<1>3. SupplierPage(q)
  <2>1. TRUE \in BOOLEAN
    OBVIOUS
  <2> QED
    BY <1>2, <2>1 DEF SupplierPage
<1>4. SupplierTrue(q)
  <2>1. q.pc = "rows"
    BY <1>2
  <2> QED
    BY <2>1 DEF SupplierTrue
<1>5. PageKnown(q)
  BY <1>2, <1>3, <1>4 DEF PageKnown
<1> QED
  BY <1>1, <1>2, <1>5, PageStep

\* A request for a customer's ledger begins.
LEMMA AskCustomerStep ==
    ASSUME DebtInv, NEW n \in Nat, n >= 1, E!AskCustomer(n)
    PROVE  DebtInv'
<1>1. PICK q : q = page'
  OBVIOUS
<1>2. /\ whose = "customer" /\ UNCHANGED <<entry, clock, whose>>
      /\ \E s \in E!Orders(E!There) :
            q = [pc |-> "debt", page |-> n, alone |-> TRUE, rows |-> E!PageOf(s, n),
                 total |-> 0, debt |-> 0]
  BY <1>1 DEF E!AskCustomer
<1>3. PICK s \in E!Orders(E!There) :
         q = [pc |-> "debt", page |-> n, alone |-> TRUE, rows |-> E!PageOf(s, n),
              total |-> 0, debt |-> 0]
  BY <1>2
<1>4. CustomerPage(q)
  <2>1. TRUE \in BOOLEAN
    OBVIOUS
  <2> QED
    BY <1>3, <2>1 DEF CustomerPage
<1>5. CustomerTrue(q)
  <2> SUFFICES ASSUME \A i, j \in E!There : i # j => entry[i].at # entry[j].at
               PROVE  Paged(E!There, q.rows, q.page)
    BY DEF CustomerTrue
  <2>1. /\ s \in E!SetToSeqs(E!There) /\ whose = "customer" /\ EntryTypes
        /\ \A m, l \in DOMAIN s : m < l => ~E!Above(s[l], s[m])
    BY <1>2, <1>3 DEF E!Orders, DebtInv
  <2>2. \A l \in DOMAIN s : s[l] \in E!There
    BY <2>1 DEF E!SetToSeqs
  <2>3. \A m, l \in DOMAIN s : m < l => ~E!Newer(s[l], s[m])
    <3> SUFFICES ASSUME NEW m \in DOMAIN s, NEW l \in DOMAIN s, m < l
                 PROVE  ~E!Newer(s[l], s[m])
      OBVIOUS
    <3>1. ~(entry[s[l]].at > entry[s[m]].at)
      BY <2>1 DEF E!Above, E!NewerOfCustomer
    <3>2. s[l] \in E!There /\ s[m] \in E!There
      BY <2>2
    <3>3. CASE s[l] = s[m]
      <4>1. s[l] \in DOMAIN entry
        BY <3>2, ThereAre
      <4> QED
        BY <2>1, <3>3, <4>1, NewerOrders
    <3>4. CASE s[l] # s[m]
      BY <3>1, <3>2, <3>4 DEF E!Newer
    <3> QED
      BY <3>3, <3>4
  <2>4. E!There \in SUBSET DOMAIN entry
    BY ThereAre
  <2>5. Paged(E!There, E!PageOf(s, n), n)
    BY <2>1, <2>3, <2>4, PageOfOrder
  <2>6. q.rows = E!PageOf(s, n) /\ q.page = n
    BY <1>3
  <2> QED
    BY <2>5, <2>6
<1>6. PageKnown(q)
  BY <1>2, <1>4, <1>5 DEF PageKnown
<1> QED
  BY <1>1, <1>2, <1>6, PageStep

\* The rows of a supplier's page are read.
LEMMA ReadRowsStep == ASSUME DebtInv, E!ReadRows PROVE DebtInv'
<1>1. PICK r : r = page
  OBVIOUS
<1>2. PICK q : q = page'
  OBVIOUS
<1>3. /\ r.pc = "rows" /\ UNCHANGED <<entry, clock, whose>>
      /\ \E s \in E!Orders(E!Matching(r)) :
            q = [r EXCEPT !.pc = "sums", !.rows = E!PageOf(s, r.page)]
  BY <1>1, <1>2 DEF E!ReadRows
<1>4. PICK s \in E!Orders(E!Matching(r)) :
         q = [r EXCEPT !.pc = "sums", !.rows = E!PageOf(s, r.page)]
  BY <1>3
<1>5. whose = "supplier" /\ SupplierPage(r)
  BY <1>1, <1>3, SupplierRead
<1>6. PICK k, t, p, n, a, rows, total, first, less, more, balances, last :
      /\ k \in {"rows", "sums", "newer", "answered"} /\ t \in E!Types \union {"any"}
      /\ p \in Periods /\ n \in Nat /\ n >= 1 /\ a \in BOOLEAN
      /\ r = [pc |-> k, type |-> t, period |-> p, page |-> n, alone |-> a, rows |-> rows,
              total |-> total, opening |-> first, decreased |-> less, increased |-> more,
              balances |-> balances, closing |-> last]
  BY <1>5 DEF SupplierPage
<1>7. PICK given : given = E!PageOf(s, n)
  OBVIOUS
<1>8. r.page = n /\ r.type = t /\ r.period = p
  BY <1>6
<1>9. q = [pc |-> "sums", type |-> t, period |-> p, page |-> n, alone |-> a, rows |-> given,
           total |-> total, opening |-> first, decreased |-> less, increased |-> more,
           balances |-> balances, closing |-> last]
  <2>1. PICK h : h = [r EXCEPT !.pc = "sums"]
    OBVIOUS
  <2>2. h = [pc |-> "sums", type |-> t, period |-> p, page |-> n, alone |-> a, rows |-> rows,
             total |-> total, opening |-> first, decreased |-> less, increased |-> more,
             balances |-> balances, closing |-> last]
    BY <1>6, <2>1
  <2>3. q = [h EXCEPT !.rows = given]
    BY <1>4, <1>7, <1>8, <2>1
  <2> QED
    BY <2>2, <2>3
<1>10. SupplierPage(q)
  BY <1>6, <1>9 DEF SupplierPage
<1>11. q.pc = "sums" /\ q.rows = given /\ q.page = n /\ q.type = t /\ q.period = p
  BY <1>9
<1>12. Paged(E!Matching(q), q.rows, q.page)
  <2>1. E!Matching(q) = E!Matching(r)
    BY <1>8, <1>11 DEF E!Matching
  <2>2. PICK those : those = E!Matching(r)
    OBVIOUS
  <2>3. /\ s \in E!SetToSeqs(those) /\ those \in SUBSET DOMAIN entry
        /\ \A m, l \in DOMAIN s : m < l => ~E!Above(s[l], s[m])
    BY <1>4, <2>2, ThereAre DEF E!Orders, E!Matching
  <2>4. \A m, l \in DOMAIN s : m < l => ~E!Newer(s[l], s[m])
    BY <1>5, <2>3 DEF E!Above
  <2>5. EntryTypes /\ n \in Nat /\ n >= 1
    BY <1>6 DEF DebtInv
  <2>6. Paged(those, E!PageOf(s, n), n)
    BY <2>3, <2>4, <2>5, PageOfOrder
  <2> QED
    BY <1>7, <1>11, <2>1, <2>2, <2>6
<1>13. SupplierTrue(q)
  BY <1>11, <1>12 DEF SupplierTrue
<1>14. PageKnown(q)
  BY <1>5, <1>10, <1>13 DEF PageKnown
<1> QED
  BY <1>2, <1>3, <1>14, PageStep

\* The sums of its period are read.
LEMMA ReadSumsStep == ASSUME DebtInv, E!ReadSums PROVE DebtInv'
<1>1. PICK r : r = page
  OBVIOUS
<1>2. PICK q : q = page'
  OBVIOUS
<1>3. PICK total, first, up, down :
         /\ total = Owed(E!There) /\ first = Owed({i \in E!There : E!Before(r.period, i)})
         /\ up = Owed({i \in E!There : E!Within(r.period, i) /\ entry[i].amount > 0})
         /\ down = -Owed({i \in E!There : E!Within(r.period, i) /\ entry[i].amount < 0})
  OBVIOUS
<1>4. /\ r.pc = "sums" /\ UNCHANGED <<entry, clock, whose>>
      /\ q = [r EXCEPT !.pc = "newer", !.total = total, !.opening = first,
                       !.decreased = up, !.increased = down]
  <2>1. PICK inside : inside = {i \in E!There : E!Within(r.period, i)}
    OBVIOUS
  <2>2. /\ r.pc = "sums" /\ UNCHANGED <<entry, clock, whose>>
        /\ q = [r EXCEPT !.pc = "newer", !.total = Owed(E!There),
                         !.opening = Owed({i \in E!There : E!Before(r.period, i)}),
                         !.decreased = Owed({i \in inside : entry[i].amount > 0}),
                         !.increased = -Owed({i \in inside : entry[i].amount < 0})]
    <3>1. \A those : E!Sum(those) = Owed(those)
      BY SumIsOwed
    <3> HIDE DEF E!Sum, Owed
    <3> QED
      BY <1>1, <1>2, <2>1, <3>1 DEF E!ReadSums
  <2>3. /\ {i \in inside : entry[i].amount > 0}
             = {i \in E!There : E!Within(r.period, i) /\ entry[i].amount > 0}
        /\ {i \in inside : entry[i].amount < 0}
             = {i \in E!There : E!Within(r.period, i) /\ entry[i].amount < 0}
    BY <2>1
  <2> QED
    BY <1>3, <2>2, <2>3
<1>5. whose = "supplier" /\ SupplierPage(r) /\ SupplierTrue(r)
  BY <1>1, <1>4, SupplierRead
<1>6. PICK k, t, p, n, a, rows, total0, first0, less, more, balances, last :
      /\ k \in {"rows", "sums", "newer", "answered"} /\ t \in E!Types \union {"any"}
      /\ p \in Periods /\ n \in Nat /\ n >= 1 /\ a \in BOOLEAN
      /\ r = [pc |-> k, type |-> t, period |-> p, page |-> n, alone |-> a, rows |-> rows,
              total |-> total0, opening |-> first0, decreased |-> less, increased |-> more,
              balances |-> balances, closing |-> last]
  BY <1>5 DEF SupplierPage
<1>7. q = [pc |-> "newer", type |-> t, period |-> p, page |-> n, alone |-> a, rows |-> rows,
           total |-> total, opening |-> first, decreased |-> up, increased |-> down,
           balances |-> balances, closing |-> last]
  <2>1. PICK h : h = [r EXCEPT !.pc = "newer", !.total = total]
    OBVIOUS
  <2>2. h = [pc |-> "newer", type |-> t, period |-> p, page |-> n, alone |-> a, rows |-> rows,
             total |-> total, opening |-> first0, decreased |-> less, increased |-> more,
             balances |-> balances, closing |-> last]
    BY <1>6, <2>1
  <2>3. q = [h EXCEPT !.opening = first, !.decreased = up, !.increased = down]
    BY <1>4, <2>1
  <2> QED
    BY <2>2, <2>3
<1>8. SupplierPage(q)
  BY <1>6, <1>7 DEF SupplierPage
<1>9. /\ q.pc = "newer" /\ q.rows = r.rows /\ q.page = r.page /\ q.type = r.type
      /\ q.period = r.period /\ q.alone = r.alone
      /\ q.total = total /\ q.opening = first /\ q.decreased = up /\ q.increased = down
  BY <1>6, <1>7
<1>10. E!Matching(q) = E!Matching(r)
  BY <1>9 DEF E!Matching
<1>11. SumsTrue(q)
  BY <1>3, <1>9 DEF SumsTrue
<1>12. SupplierTrue(q)
  <2>1. r.alone => Paged(E!Matching(r), r.rows, r.page)
    BY <1>4, <1>5 DEF SupplierTrue
  <2> QED
    BY <1>9, <1>10, <1>11, <2>1 DEF SupplierTrue
<1>13. PageKnown(q)
  BY <1>5, <1>8, <1>12 DEF PageKnown
<1> QED
  BY <1>2, <1>4, <1>13, PageStep

\* What is above its first row is read, and the balances are computed.
LEMMA ReadNewerStep == ASSUME DebtInv, E!ReadNewer PROVE DebtInv'
<1>1. PICK r : r = page
  OBVIOUS
<1>2. PICK q : q = page'
  OBVIOUS
<1>3. PICK over : over = IF r.rows = <<>> THEN {}
                         ELSE {i \in E!There : E!Newer(i, r.rows[1])}
  OBVIOUS
<1>4. PICK told0, last0 : /\ told0 = E!Balances(r.total - Owed(over), r.rows)
                          /\ last0 = r.opening + r.decreased - r.increased
  OBVIOUS
<1>5. /\ r.pc = "newer" /\ UNCHANGED <<entry, clock, whose>>
      /\ q = [r EXCEPT !.pc = "answered", !.balances = told0, !.closing = last0]
  <2>1. \A those : E!Sum(those) = Owed(those)
    BY SumIsOwed
  <2> QED
    BY <1>1, <1>2, <1>3, <1>4, <2>1 DEF E!ReadNewer
<1>6. whose = "supplier" /\ SupplierPage(r) /\ SupplierTrue(r)
  BY <1>1, <1>5, SupplierRead
<1>7. PICK k, t, p, n, a, rows, total, first, less, more, balances, last :
      /\ k \in {"rows", "sums", "newer", "answered"} /\ t \in E!Types \union {"any"}
      /\ p \in Periods /\ n \in Nat /\ n >= 1 /\ a \in BOOLEAN
      /\ r = [pc |-> k, type |-> t, period |-> p, page |-> n, alone |-> a, rows |-> rows,
              total |-> total, opening |-> first, decreased |-> less, increased |-> more,
              balances |-> balances, closing |-> last]
  BY <1>6 DEF SupplierPage
<1>8. q = [pc |-> "answered", type |-> t, period |-> p, page |-> n, alone |-> a, rows |-> rows,
           total |-> total, opening |-> first, decreased |-> less, increased |-> more,
           balances |-> told0, closing |-> last0]
  BY <1>5, <1>7
<1>9. SupplierPage(q)
  BY <1>7, <1>8 DEF SupplierPage
<1>10. /\ q.pc = "answered" /\ q.rows = rows /\ q.page = n /\ q.type = t /\ q.period = p
       /\ q.alone = a /\ q.balances = told0 /\ q.closing = last0
       /\ r.pc = k /\ r.rows = rows /\ r.page = n /\ r.type = t /\ r.period = p
       /\ r.alone = a /\ r.total = total /\ r.opening = first /\ r.decreased = less
       /\ r.increased = more
  BY <1>7, <1>8
<1>11. E!Matching(q) = E!Matching(r)
  BY <1>10 DEF E!Matching
<1>12. a => Paged(E!Matching(q), rows, n) /\ SumsTrue(r)
  BY <1>5, <1>6, <1>10, <1>11 DEF SupplierTrue
<1>13. ASSUME a PROVE RunningTrue(q)
  <2> SUFFICES ASSUME t = "any"
               PROVE  \A m \in DOMAIN rows :
                         told0[m] = Owed({i \in E!There : ~E!Newer(i, rows[m])})
    BY <1>10 DEF RunningTrue
  <2>1. E!Matching(q) = {i \in E!There : E!Within(p, i)}
    BY <1>10 DEF E!Matching
  <2>2. PICK those : those = E!Matching(q)
    OBVIOUS
  <2>3. EntryTypes /\ p \in Periods /\ Paged(those, rows, n)
        /\ those = {i \in E!There : E!Within(p, i)}
    BY <1>7, <1>12, <1>13, <2>1, <2>2 DEF DebtInv
  <2>4. PICK start : start = r.total - Owed(over)
    OBVIOUS
  <2>5. ASSUME rows # <<>> PROVE start = Owed({i \in E!There : ~E!Newer(i, rows[1])})
    <3>1. rows[1] \in E!There
      <4>1. rows \in Seq(those)
        BY <2>3 DEF Paged
      <4>2. 1 \in DOMAIN rows
        BY <2>5, <4>1
      <4> QED
        BY <2>3, <4>1, <4>2, ElementOfSeq
    <3>2. PICK x : x = rows[1]
      OBVIOUS
    <3>3. r.total = Owed(E!There) /\ over = {i \in E!There : E!Newer(i, x)}
      BY <1>3, <1>10, <1>12, <1>13, <2>5, <3>2 DEF SumsTrue
    <3>4. start = Owed(E!There) - Owed({i \in E!There : E!Newer(i, x)})
      BY <2>4, <3>3
    <3> QED
      BY <2>3, <3>1, <3>2, <3>4, RunningStart
  <2>6. \A m \in DOMAIN rows :
           E!Balances(start, rows)[m] = Owed({i \in E!There : ~E!Newer(i, rows[m])})
    BY <2>3, <2>5, RunningBack
  <2> QED
    BY <1>4, <1>10, <2>4, <2>6
<1>14. ASSUME a PROVE ClosingTrue(q)
  <2> SUFFICES ASSUME E!Open \in {p.from, p.to} \/ p.from <= p.to
               PROVE  last0 = Owed({i \in E!There : p.to = E!Open \/ entry[i].at <= p.to})
    BY <1>10 DEF ClosingTrue
  <2>1. PICK x, y, z, s : /\ x = Owed({i \in E!There : E!Before(p, i)})
                          /\ y = Owed({i \in E!There : E!Within(p, i) /\ entry[i].amount > 0})
                          /\ z = Owed({i \in E!There : E!Within(p, i) /\ entry[i].amount < 0})
                          /\ s = Owed({i \in E!There : p.to = E!Open \/ entry[i].at <= p.to})
    OBVIOUS
  <2>2. s = x + y + z /\ x \in Int /\ y \in Int /\ z \in Int
    BY <1>7, <2>1, PeriodAddsUp DEF DebtInv
  <2>3. first = x /\ less = y /\ more = -z
    BY <1>10, <1>12, <1>14, <2>1 DEF SumsTrue
  <2>4. last0 = s
    BY <1>4, <1>10, <2>2, <2>3
  <2> QED
    BY <2>1, <2>4
<1>15. SupplierTrue(q)
  BY <1>10, <1>12, <1>13, <1>14 DEF SupplierTrue
<1>16. PageKnown(q)
  BY <1>6, <1>9, <1>15 DEF PageKnown
<1> QED
  BY <1>2, <1>5, <1>16, PageStep

\* The debt beside a customer's page is read.
LEMMA ReadDebtStep == ASSUME DebtInv, E!ReadDebt PROVE DebtInv'
<1>1. PICK r : r = page
  OBVIOUS
<1>2. PICK q : q = page'
  OBVIOUS
<1>3. PICK total0, debt0 : total0 = E!Cardinality(E!There) /\ debt0 = E!Sum(E!There)
  OBVIOUS
<1>4. /\ r.pc = "debt" /\ UNCHANGED <<entry, clock, whose>>
      /\ q = [r EXCEPT !.pc = "answered", !.total = total0, !.debt = debt0]
  BY <1>1, <1>2, <1>3 DEF E!ReadDebt
<1>5. whose = "customer" /\ CustomerPage(r) /\ CustomerTrue(r)
  <2>1. PageKnown(r)
    BY <1>1 DEF DebtInv, PagesKnown
  <2>2. r # E!Idle
    BY <1>4 DEF E!Idle
  <2>3. ~SupplierPage(r)
    BY <1>4 DEF SupplierPage
  <2> QED
    BY <2>1, <2>2, <2>3 DEF PageKnown
<1>6. PICK k, n, a, rows, total, debt :
      /\ k \in {"debt", "answered"} /\ n \in Nat /\ n >= 1 /\ a \in BOOLEAN
      /\ r = [pc |-> k, page |-> n, alone |-> a, rows |-> rows, total |-> total, debt |-> debt]
  BY <1>5 DEF CustomerPage
<1>7. q = [pc |-> "answered", page |-> n, alone |-> a, rows |-> rows, total |-> total0,
           debt |-> debt0]
  BY <1>4, <1>6
<1>8. CustomerPage(q)
  BY <1>6, <1>7 DEF CustomerPage
<1>9. q.alone = r.alone /\ q.rows = r.rows /\ q.page = r.page
  BY <1>6, <1>7
<1>10. CustomerTrue(q)
  BY <1>5, <1>9 DEF CustomerTrue
<1>11. PageKnown(q)
  BY <1>5, <1>8, <1>10 DEF PageKnown
<1> QED
  BY <1>2, <1>4, <1>11, PageStep

\* Entries are written, committed and undone.
LEMMA EntrySteps ==
    /\ DebtInv /\ (\E a \in Amounts : E!WriteEntry(a) \/ E!Adjust(a)) => DebtInv'
    /\ DebtInv /\ (\E i \in DOMAIN entry : E!EndEntry(i)) => DebtInv'
<1>1. ASSUME DebtInv, NEW a \in Amounts, E!WriteEntry(a) PROVE DebtInv'
  <2>1. entry' = E!New("document", a, "uncommitted") /\ UNCHANGED <<clock, page, whose>>
    BY <1>1 DEF E!WriteEntry
  <2>2. /\ EntryTypes'
        /\ \A i \in DOMAIN entry : i \in DOMAIN entry' /\ entry'[i] = entry[i]
        /\ \A i \in DOMAIN entry' \ DOMAIN entry : entry'[i].state = "uncommitted"
    <3>1. "document" \in E!Types /\ "uncommitted" \in {"uncommitted", "there", "undone"}
      BY DEF E!Types
    <3> QED
      BY <1>1, <2>1, <3>1, AppendedTypes DEF DebtInv
  <2>3. Quiet
    BY <2>2 DEF Quiet, E!There
  <2> QED
    BY <1>1, <2>1, <2>2, <2>3, QuietStep
<1>2. ASSUME DebtInv, NEW a \in Amounts, E!Adjust(a) PROVE DebtInv'
  <2>1. entry' = E!New("adjustment", a, "there") /\ UNCHANGED <<clock, whose>> /\ E!Changed
    BY <1>2 DEF E!Adjust, E!Adjustment
  <2>2. EntryTypes'
    <3>1. "adjustment" \in E!Types /\ "there" \in {"uncommitted", "there", "undone"}
      BY DEF E!Types
    <3> QED
      BY <1>2, <2>1, <3>1, AppendedTypes DEF DebtInv
  <2> QED
    BY <1>2, <2>1, <2>2, ChangedStep
<1>3. ASSUME DebtInv, NEW i \in DOMAIN entry, E!EndEntry(i) PROVE DebtInv'
  <2>1. PICK state \in {"there", "undone"} :
           /\ entry[i].state = "uncommitted"
           /\ entry' = [entry EXCEPT ![i].state = state]
           /\ UNCHANGED <<clock, whose>>
           /\ IF state = "there" THEN E!Changed ELSE UNCHANGED page
    BY <1>3 DEF E!EndEntry
  <2>2. PICK e : e = [entry[i] EXCEPT !.state = state]
    OBVIOUS
  <2>3. EntryTypes /\ entry \in Seq(E!Entry) /\ entry[i] \in E!Entry
    BY <1>3, EntryIs DEF DebtInv, EntryTypes
  <2>4. e \in E!Entry /\ e.at = entry[i].at /\ e.state = state
    BY <2>2, <2>3 DEF E!Entry
  <2>5. entry' = [entry EXCEPT ![i] = e]
    BY <2>1, <2>2
  <2>6. /\ entry' \in Seq(E!Entry) /\ DOMAIN entry' = DOMAIN entry
        /\ \A j \in DOMAIN entry : entry'[j].at = entry[j].at
        /\ entry'[i].state = state
        /\ \A j \in DOMAIN entry : j # i => entry'[j] = entry[j]
    BY <2>3, <2>4, <2>5
  <2>7. EntryTypes'
    BY <2>1, <2>3, <2>6 DEF EntryTypes
  <2>8. CASE state = "there"
    BY <1>3, <2>1, <2>7, <2>8, ChangedStep
  <2>9. CASE state = "undone"
    <3>1. Quiet
      BY <2>1, <2>6, <2>9 DEF Quiet, E!There
    <3> QED
      BY <1>3, <2>1, <2>7, <2>9, <3>1, QuietStep
  <2> QED
    BY <2>8, <2>9
<1> QED
  BY <1>1, <1>2, <1>3

\* Each step keeps the invariant of the ledgers of debt.
LEMMA DebtSteps == DebtInv /\ [E!Next]_(E!vars) => DebtInv'
<1> SUFFICES ASSUME DebtInv, [E!Next]_(E!vars) PROVE DebtInv'
  OBVIOUS
<1>1. CASE UNCHANGED E!vars
  <2>1. EntryTypes' /\ Quiet /\ UNCHANGED <<page, whose>>
    BY <1>1 DEF E!vars, DebtInv, EntryTypes, Quiet, E!There
  <2> QED
    BY <2>1, QuietStep
<1>2. CASE E!Tick
  <2>1. EntryTypes' /\ Quiet /\ UNCHANGED <<page, whose>>
    <3>1. clock' \in 1..MaxMoment /\ clock \in Nat /\ clock' = clock + 1
      BY <1>2, LedgersAssumed DEF E!Tick, DebtInv, EntryTypes
    <3>2. EntryTypes /\ UNCHANGED <<entry, page, whose>>
      BY <1>2 DEF E!Tick, DebtInv
    <3>3. \A i \in DOMAIN entry : entry[i].at \in Nat /\ entry[i].at <= clock
      BY <3>2, EntryIs DEF EntryTypes
    <3>4. \A i \in DOMAIN entry : entry[i].at <= clock'
      BY <3>1, <3>3
    <3> QED
      BY <3>1, <3>2, <3>4 DEF EntryTypes, Quiet, E!There
  <2> QED
    BY <2>1, QuietStep
<1>3. CASE E!Leave
  <2>1. page' = E!Idle /\ UNCHANGED <<entry, clock, whose>>
    BY <1>3 DEF E!Leave
  <2>2. PICK q : q = page'
    OBVIOUS
  <2>3. PageKnown(q)
    BY <2>1, <2>2 DEF PageKnown
  <2> QED
    BY <2>1, <2>2, <2>3, PageStep
<1>4. ASSUME NEW n \in 1..MaxEntries \div PageSize + 1, E!AskCustomer(n) PROVE DebtInv'
  <2>1. n \in Nat /\ n >= 1
    OBVIOUS
  <2> QED
    BY <1>4, <2>1, AskCustomerStep
<1>5. ASSUME NEW n \in 1..MaxEntries \div PageSize + 1, NEW t \in E!Types \union {"any"},
             NEW p \in Periods, E!AskSupplier(t, p, n)
      PROVE  DebtInv'
  <2>1. n \in Nat /\ n >= 1
    OBVIOUS
  <2> QED
    BY <1>5, <2>1, AskSupplierStep
<1> QED
  BY <1>1, <1>2, <1>3, <1>4, <1>5, EntrySteps, ReadRowsStep, ReadSumsStep, ReadNewerStep,
     ReadDebtStep DEF E!Next

\* The invariant of the ledgers of debt always holds.
LEMMA DebtKept == E!Spec => []DebtInv
BY DebtStarts, DebtSteps, PTL DEF E!Spec

\* A page that is read alone and answered tells what is true.
LEMMA PageTells ==
    ASSUME DebtInv
    PROVE  /\ E!Answered("supplier") => SupplierTrue(page) /\ page.alone
                                        /\ page.pc = "answered"
           /\ E!Answered("customer") => CustomerTrue(page) /\ page.alone
           /\ page.pc \in {"idle", "rows", "sums", "newer", "debt", "answered"}
<1>1. PICK r : r = page
  OBVIOUS
<1>2. PageKnown(r)
  BY <1>1 DEF DebtInv, PagesKnown
<1>3. r.pc \in {"idle", "rows", "sums", "newer", "debt", "answered"}
  BY <1>2 DEF PageKnown, SupplierPage, CustomerPage, E!Idle
<1>4. r = E!Idle => r.pc = "idle"
  BY DEF E!Idle
<1>5. /\ E!Answered("supplier") => SupplierTrue(r) /\ r.alone /\ r.pc = "answered"
      /\ E!Answered("customer") => CustomerTrue(r) /\ r.alone
  BY <1>1, <1>2, <1>4 DEF PageKnown, E!Answered
<1> QED
  BY <1>1, <1>3, <1>5

\* The running balances of a supplier's page are those that the entries left behind, the
\* closing balance is that of the period's end, and an entry's row is where the entries
\* above it put it (DebtLedgers).
THEOREM DebtLedgersTell ==
    E!Spec => [](E!RunningBalancesTrue /\ E!PeriodsClose /\ E!PagesMeet)
<1>1. ASSUME DebtInv PROVE E!RunningBalancesTrue
  <2> SUFFICES ASSUME E!Answered("supplier"), page.type = "any", NEW n \in DOMAIN page.rows
               PROVE  page.balances[n] = E!Sum({i \in E!There : ~E!Newer(i, page.rows[n])})
    BY DEF E!RunningBalancesTrue
  <2>1. RunningTrue(page)
    BY <1>1, PageTells DEF SupplierTrue
  <2>2. page.balances[n] = Owed({i \in E!There : ~E!Newer(i, page.rows[n])})
    BY <2>1 DEF RunningTrue
  <2>3. \A those : E!Sum(those) = Owed(those)
    BY SumIsOwed
  <2> HIDE DEF E!Sum, Owed
  <2> QED
    BY <2>2, <2>3
<1>2. ASSUME DebtInv PROVE E!PeriodsClose
  <2> SUFFICES ASSUME E!Answered("supplier"), \/ E!Open \in {page.period.from, page.period.to}
                                              \/ page.period.from <= page.period.to
               PROVE  page.closing = E!Sum({i \in E!There : \/ page.period.to = E!Open
                                                            \/ entry[i].at <= page.period.to})
    BY DEF E!PeriodsClose
  <2>1. ClosingTrue(page)
    BY <1>2, PageTells DEF SupplierTrue
  <2>2. page.closing = Owed({i \in E!There : page.period.to = E!Open
                                             \/ entry[i].at <= page.period.to})
    BY <2>1 DEF ClosingTrue
  <2>3. \A those : E!Sum(those) = Owed(those)
    BY SumIsOwed
  <2> HIDE DEF E!Sum, Owed
  <2> QED
    BY <2>2, <2>3
<1>3. ASSUME DebtInv PROVE E!PagesMeet
  <2>1. ASSUME E!Answered("supplier") PROVE Paged(E!Matching(page), page.rows, page.page)
    BY <1>3, <2>1, PageTells DEF SupplierTrue
  <2>2. ASSUME E!Answered("customer"), \A i, j \in E!There : i # j => entry[i].at # entry[j].at
        PROVE  Paged(E!There, page.rows, page.page)
    BY <1>3, <2>2, PageTells DEF CustomerTrue
  <2>3. \A those : E!Cardinality(those) = Cardinality(those)
    BY DEF E!Cardinality, Cardinality
  <2> QED
    BY <2>1, <2>2, <2>3 DEF E!PagesMeet, Paged
<1> QED
  BY <1>1, <1>2, <1>3, DebtKept, PTL

\* The ledgers of debt have their types.
LEMMA DebtTyped == DebtInv => E!TypeOK
BY PageTells DEF DebtInv, EntryTypes, E!TypeOK

-----------------------------------------------------------------------------
(* Dashboards of the sales (SalesReports).                                 *)

\* The dashboards fare in the back office as they do by themselves.
LEMMA SalesAsAlone == Spec => B!Spec
<1>1. Init => B!Init
  BY DEF Init
<1>2. [Next]_vars => [B!Next]_(B!vars)
  BY DEF Next, vars, bVars, B!vars
<1> QED
  BY <1>1, <1>2, PTL DEF Spec, B!Spec

\* The beginnings of the first months.
Starts(f, n) == f = [m \in 1..n |-> IF m = 1 THEN 0 ELSE f[m - 1] + 24 * DaysOf(m - 1)]

\* There are such.
LEMMA StartsExist == \A n \in Nat : \E f : Starts(f, n)
<1> DEFINE Bad == {n \in Nat : ~ \E f : Starts(f, n)}
<1> SUFFICES ASSUME Bad # {} PROVE FALSE
  OBVIOUS
<1>1. PICK n \in Bad : \A l \in Bad : n <= l
  BY LeastNatural
<1>2. CASE n = 0
  <2>1. PICK f : f = [m \in 1..0 |-> 0]
    OBVIOUS
  <2>2. f = [m \in 1..0 |-> IF m = 1 THEN 0 ELSE f[m - 1] + 24 * DaysOf(m - 1)]
    BY <2>1
  <2>3. Starts(f, n)
    BY <1>2, <2>2 DEF Starts
  <2> QED
    BY <2>3
<1>3. CASE n # 0
  <2>1. n - 1 \in Nat /\ n - 1 \notin Bad
    BY <1>1, <1>3
  <2>2. PICK f : Starts(f, n - 1)
    BY <2>1
  <2>3. PICK g : g = [m \in 1..n |-> IF m = 1 THEN 0 ELSE f[m - 1] + 24 * DaysOf(m - 1)]
    OBVIOUS
  <2>4. \A m \in 1..n - 1 : f[m] = IF m = 1 THEN 0 ELSE f[m - 1] + 24 * DaysOf(m - 1)
    BY <2>2 DEF Starts
  <2>5. \A m \in 1..n - 1 : g[m] = f[m]
    BY <2>1, <2>3, <2>4
  <2>6. \A m \in 1..n : g[m] = IF m = 1 THEN 0 ELSE g[m - 1] + 24 * DaysOf(m - 1)
    <3> TAKE m \in 1..n
    <3>1. m # 1 => m - 1 \in 1..n - 1
      OBVIOUS
    <3> QED
      BY <2>3, <2>5, <3>1
  <2>7. Starts(g, n)
    BY <2>3, <2>6 DEF Starts
  <2> QED
    BY <2>7
<1> QED
  BY <1>2, <1>3

\* The calendar: each month begins after the one before it.
LEMMA CalendarIs ==
    /\ Calendar \in [1..54 -> Nat] /\ Calendar[1] = 0
    /\ \A m \in 1..53 : Calendar[m] < Calendar[m + 1]
    /\ \A m \in 1..54 : Calendar[m] \in Nat
<1>1. PICK f : Calendar = [m \in 1..54 |-> f[m]] /\ Starts(f, 54)
  <2>1. PICK f : f = CHOOSE g : Starts(g, 54)
    OBVIOUS
  <2>2. Calendar = [m \in 1..54 |-> f[m]]
    BY <2>1 DEF Calendar, Starts
  <2>3. Starts(f, 54)
    BY <2>1, StartsExist
  <2> QED
    BY <2>2, <2>3
<1>2. \A m \in 1..54 : f[m] = IF m = 1 THEN 0 ELSE f[m - 1] + 24 * DaysOf(m - 1)
  BY <1>1 DEF Starts
<1>3. \A m \in 1..53 : DaysOf(m) \in Nat /\ DaysOf(m) >= 1
  BY DEF DaysOf
<1>4. f[1] = 0
  BY <1>2
<1>5. ASSUME NEW m \in 1..53 PROVE f[m + 1] = f[m] + 24 * DaysOf(m)
  <2>1. m + 1 \in 1..54 /\ m + 1 # 1 /\ (m + 1) - 1 = m
    OBVIOUS
  <2> QED
    BY <1>2, <2>1
<1>6. \A m \in 1..54 : f[m] \in Nat
  <2> DEFINE Bad == {m \in 1..54 : f[m] \notin Nat}
  <2> SUFFICES ASSUME Bad # {} PROVE FALSE
    OBVIOUS
  <2>1. Bad \subseteq Nat
    OBVIOUS
  <2>2. PICK m \in Bad : \A l \in Bad : m <= l
    BY <2>1, LeastNatural
  <2>3. CASE m = 1
    BY <1>4, <2>3
  <2>4. CASE m # 1
    <3>1. PICK l \in 1..53 : m = l + 1
      <4>1. m - 1 \in 1..53 /\ m = (m - 1) + 1
        BY <2>4
      <4> QED
        BY <4>1
    <3>2. l \notin Bad
      BY <2>2, <3>1
    <3>3. f[l] \in Nat
      BY <3>2
    <3>4. f[m] \in Nat
      BY <1>3, <1>5, <3>1, <3>3
    <3> QED
      BY <3>4
  <2> QED
    BY <2>3, <2>4
<1>7. \A m \in 1..53 : f[m] < f[m + 1]
  <2> TAKE m \in 1..53
  <2>1. f[m] \in Nat
    BY <1>6
  <2> QED
    BY <1>3, <1>5, <2>1
<1>8. Calendar \in [1..54 -> Nat] /\ \A m \in 1..54 : Calendar[m] = f[m]
  BY <1>1, <1>6
<1> QED
  BY <1>4, <1>6, <1>7, <1>8

\* It is a sequence.
LEMMA CalendarLength == Len(Calendar) = 54 /\ Calendar \in Seq(Nat)
<1>1. PICK n \in Nat : n = 54
  OBVIOUS
<1>2. Calendar \in [1..n -> Nat]
  BY <1>1, CalendarIs
<1>3. Calendar \in Seq(Nat) /\ Len(Calendar) = n
  BY <1>2
<1> QED
  BY <1>1, <1>3

\* A later month begins later.
LEMMA CalendarGrows == \A m, n \in 1..54 : m < n => Calendar[m] < Calendar[n]
<1> TAKE m \in 1..54
<1> DEFINE Bad == {n \in 1..54 : m < n /\ ~(Calendar[m] < Calendar[n])}
<1> SUFFICES ASSUME Bad # {} PROVE FALSE
  OBVIOUS
<1>1. Bad \subseteq Nat
  OBVIOUS
<1>2. PICK n \in Bad : \A l \in Bad : n <= l
  BY <1>1, LeastNatural
<1>3. PICK k \in 1..53 : n = k + 1 /\ m <= k
  <2>1. n - 1 \in 1..53 /\ n = (n - 1) + 1 /\ m <= n - 1
    OBVIOUS
  <2> QED
    BY <2>1
<1>4. Calendar[k] < Calendar[n] /\ Calendar[k] \in Nat /\ Calendar[m] \in Nat
      /\ Calendar[n] \in Nat
  BY <1>3, CalendarIs
<1>5. m = k \/ Calendar[m] < Calendar[k]
  <2>1. k \notin Bad
    BY <1>2, <1>3
  <2> QED
    BY <1>3, <2>1
<1> QED
  BY <1>4, <1>5

\* The month of an hour of the calendar.
LEMMA MonthIs ==
    ASSUME NEW t \in Nat, t < Calendar[54]
    PROVE  /\ B!MonthOf(t) \in 1..53
           /\ Calendar[B!MonthOf(t)] <= t /\ t < Calendar[B!MonthOf(t) + 1]
           /\ \A m \in 1..53 : Calendar[m] <= t /\ t < Calendar[m + 1] => m = B!MonthOf(t)
<1> DEFINE Begun == {m \in 1..54 : Calendar[m] <= t}
           Is(m) == Calendar[m] <= t /\ t < Calendar[m + 1]
<1>1. 1 \in Begun /\ Begun \subseteq 0..54
  BY CalendarIs
<1>2. PICK m \in Begun : \A l \in Begun : l <= m
  BY <1>1, GreatestUpTo
<1>3. m \in 1..53 /\ m + 1 \in 1..54
  <2>1. m # 54
    BY CalendarIs
  <2> QED
    BY <2>1
<1>4. t < Calendar[m + 1]
  <2>1. m + 1 \notin Begun
    BY <1>2, <1>3
  <2> QED
    BY <1>3, <2>1, CalendarIs
<1>5. Is(m)
  BY <1>4
<1>6. \A l \in 1..53 : Is(l) => l = m
  <2> SUFFICES ASSUME NEW l \in 1..53, Is(l), l # m PROVE FALSE
    OBVIOUS
  <2>1. l \in Begun
    OBVIOUS
  <2>2. l + 1 \in 1..54 /\ l + 1 <= m
    BY <1>2, <1>3, <2>1
  <2>3. Calendar[l + 1] <= Calendar[m]
    <3>1. l + 1 = m \/ l + 1 < m
      BY <1>3, <2>2
    <3> QED
      BY <1>3, <2>2, <3>1, CalendarGrows, CalendarIs
  <2> QED
    BY <1>3, <1>5, <2>2, <2>3, CalendarIs
<1>7. B!MonthOf(t) = CHOOSE l \in 1..53 : Is(l)
  BY CalendarLength DEF B!MonthOf
<1> HIDE DEF Is
<1>8. B!MonthOf(t) = m
  BY <1>3, <1>5, <1>6, <1>7
<1> QED
  BY <1>3, <1>5, <1>6, <1>8 DEF Is

\* A month's beginning is of the month; later hours are not of earlier months.
LEMMA MonthBegins == \A m \in 1..53 : B!MonthOf(Calendar[m]) = m
<1> TAKE m \in 1..53
<1>1. m \in 1..54 /\ m + 1 \in 1..54
  OBVIOUS
<1>2. Calendar[m] \in Nat /\ Calendar[m] < Calendar[m + 1] /\ Calendar[m] < Calendar[54]
  BY <1>1, CalendarIs, CalendarGrows
<1> QED
  BY <1>2, MonthIs

\* An earlier hour is of no later month.
LEMMA MonthsOrdered ==
    ASSUME NEW t \in Nat, NEW u \in Nat, t <= u, u < Calendar[54]
    PROVE  B!MonthOf(t) <= B!MonthOf(u)
<1>1. t < Calendar[54]
  BY CalendarIs
<1>2. PICK m \in 1..53, n \in 1..53 :
         /\ m = B!MonthOf(t) /\ n = B!MonthOf(u) /\ Calendar[m] <= t /\ u < Calendar[n + 1]
  BY <1>1, MonthIs
<1> SUFFICES ASSUME n < m PROVE FALSE
  BY <1>2
<1>3. n + 1 \in 1..54 /\ m \in 1..54 /\ (n + 1 = m \/ n + 1 < m)
  OBVIOUS
<1>4. Calendar[n + 1] <= Calendar[m] /\ Calendar[n + 1] \in Nat /\ Calendar[m] \in Nat
  BY <1>3, CalendarGrows, CalendarIs
<1> QED
  BY <1>2, <1>4

\* What is assumed of the orders, the moments and the periods asked for.
LEMMA SalesAssumed ==
    /\ IsFiniteSet(Sales) /\ IsFiniteSet(Staff) /\ KindOf \in [Sales -> B!KindType]
    /\ Moments \in Seq(Nat) /\ Moments # <<>>
    /\ \A i \in DOMAIN Moments :
          /\ i > 1 => Moments[i - 1] < Moments[i]
          /\ Calendar[25] <= Moments[i] /\ Moments[i] < Calendar[54]
    /\ \A c \in Customs :
          /\ c.first \in Nat /\ c.last \in Nat
          /\ c.first <= c.last =>
                /\ c.last - c.first < c.first
                /\ c.last * 24 + 24 <= Calendar[54]
                /\ B!MonthOf(c.last * 24 + 24 - 1) <= B!MonthOf(c.first * 24) + 12
<1>1. B!SalesAssumption
  BY OperationsAssumption DEF OperationsAssumption
<1>2. Len(Calendar) = 54
  BY CalendarLength
<1>3. IsFiniteSet(Sales) /\ IsFiniteSet(Staff)
  BY <1>1 DEF B!SalesAssumption, B!IsFiniteSet, IsFiniteSet
<1>4. /\ KindOf \in [Sales -> B!KindType] /\ Moments \in Seq(Nat) /\ Moments # <<>>
      /\ \A i \in DOMAIN Moments :
            /\ i > 1 => Moments[i - 1] < Moments[i]
            /\ Calendar[25] <= Moments[i] /\ Moments[i] < Calendar[54]
  BY <1>1, <1>2 DEF B!SalesAssumption
<1>5. \A c \in Customs :
         /\ c.first \in Nat /\ c.last \in Nat
         /\ c.first <= c.last =>
               /\ c.last - c.first < c.first
               /\ c.last * 24 + 24 <= Calendar[54]
               /\ B!MonthOf(c.last * 24 + 24 - 1) <= B!MonthOf(c.first * 24) + 12
  BY <1>1, <1>2 DEF B!SalesAssumption, B!Day
<1> QED
  BY <1>3, <1>4, <1>5

\* It is some hour of the calendar.
LEMMA NowIs ==
    ASSUME past \in DOMAIN Moments
    PROVE  B!now \in Nat /\ Calendar[25] <= B!now /\ B!now < Calendar[54]
<1>1. Moments[past] \in Nat
  BY SalesAssumed, ElementOfSeq
<1> QED
  BY <1>1, SalesAssumed DEF B!now

\* A period by its name and its bounds.
Spans(p, range, from, to, prevFrom, prevTo) ==
    /\ p.range = range /\ p.from = from /\ p.to = to /\ p.prevFrom = prevFrom
    /\ p.prevTo = prevTo /\ p.bucket = B!BucketFor(from, to)

\* The periods that an hour makes.
LEMMA PeriodsAre ==
    ASSUME NEW t \in Nat, NEW d, d = B!StartOfDay(t), NEW w, w = B!StartOfWeek(t),
           NEW m, m = B!MonthOf(t), NEW y, y = B!FirstOfYear(m), NEW p \in B!PeriodsOf(t)
    PROVE  \/ Spans(p, "today", d, t, d - 24, d - 24 + (t - d))
           \/ Spans(p, "yesterday", d - 24, d, d - 48, d - 24)
           \/ Spans(p, "this_week", w, t, w - 168, w - 168 + (t - w))
           \/ Spans(p, "last_week", w - 168, w, w - 336, w - 168)
           \/ Spans(p, "this_month", Calendar[m], t, Calendar[m - 1],
                    Calendar[m - 1] + (t - Calendar[m]))
           \/ Spans(p, "last_month", Calendar[m - 1], Calendar[m], Calendar[m - 2],
                    Calendar[m - 1])
           \/ Spans(p, "this_year", Calendar[y], t, Calendar[y - 12],
                    Calendar[y - 12] + (t - Calendar[y]))
           \/ Spans(p, "last_year", Calendar[y - 12], Calendar[y], Calendar[y - 24],
                    Calendar[y - 12])
           \/ \E c \in Customs : LET from == c.first * 24
                                     to == c.last * 24 + 24
                                 IN  Spans(p, "custom", from, to, from - (to - from),
                                           from - (to - from) + (to - from))
<1> DEFINE customs == {LET from == c.first * B!Day
                           to == c.last * B!Day + B!Day
                       IN  B!Running("custom", from, to, from - (to - from)) : c \in Customs}
<1>1. \/ p = B!Running("today", d, t, d - 24)
      \/ p = B!Whole("yesterday", d - 24, d, d - 2 * 24)
      \/ p = B!Running("this_week", w, t, w - 7 * 24)
      \/ p = B!Whole("last_week", w - 7 * 24, w, w - 14 * 24)
      \/ p = B!Running("this_month", Calendar[m], t, Calendar[m - 1])
      \/ p = B!Whole("last_month", Calendar[m - 1], Calendar[m], Calendar[m - 2])
      \/ p = B!Running("this_year", Calendar[y], t, Calendar[y - 12])
      \/ p = B!Whole("last_year", Calendar[y - 12], Calendar[y], Calendar[y - 24])
      \/ p \in customs
  BY DEF B!PeriodsOf, B!Day
<1>2. \A range, from, to, prevFrom, prevTo :
         p = B!WithPrev(range, from, to, prevFrom, prevTo)
             => Spans(p, range, from, to, prevFrom, prevTo)
  BY DEF B!WithPrev, Spans
<1>3. \A range, from, to, prevFrom :
         /\ p = B!Running(range, from, to, prevFrom)
                => Spans(p, range, from, to, prevFrom, prevFrom + (to - from))
         /\ p = B!Whole(range, from, to, prevFrom)
                => Spans(p, range, from, to, prevFrom, from)
  BY <1>2 DEF B!Running, B!Whole
<1>4. ASSUME p \in customs
      PROVE  \E c \in Customs : LET from == c.first * 24
                                   to == c.last * 24 + 24
                               IN  Spans(p, "custom", from, to, from - (to - from),
                                         from - (to - from) + (to - from))
  <2>1. PICK c \in Customs : p = LET from == c.first * B!Day
                                    to == c.last * B!Day + B!Day
                                IN  B!Running("custom", from, to, from - (to - from))
    BY <1>4
  <2>2. PICK from, to : from = c.first * 24 /\ to = c.last * 24 + 24
    OBVIOUS
  <2>3. p = B!Running("custom", from, to, from - (to - from))
    BY <2>1, <2>2 DEF B!Day
  <2>4. Spans(p, "custom", from, to, from - (to - from), from - (to - from) + (to - from))
    BY <1>3, <2>3
  <2> QED
    BY <2>2, <2>4
<1>5. d \in Int /\ w \in Int
  BY DEF B!StartOfDay, B!StartOfWeek, B!Day
<1>6. d - 2 * 24 = d - 48 /\ w - 7 * 24 = w - 168 /\ w - 14 * 24 = w - 336
  BY <1>5
<1> HIDE DEF customs
<1>7. \/ p = B!Running("today", d, t, d - 24)
      \/ p = B!Whole("yesterday", d - 24, d, d - 48)
      \/ p = B!Running("this_week", w, t, w - 168)
      \/ p = B!Whole("last_week", w - 168, w, w - 336)
      \/ p = B!Running("this_month", Calendar[m], t, Calendar[m - 1])
      \/ p = B!Whole("last_month", Calendar[m - 1], Calendar[m], Calendar[m - 2])
      \/ p = B!Running("this_year", Calendar[y], t, Calendar[y - 12])
      \/ p = B!Whole("last_year", Calendar[y - 12], Calendar[y], Calendar[y - 24])
      \/ p \in customs
  BY <1>1, <1>6
<1> QED
  BY <1>3, <1>4, <1>7

\* Days, weeks, months and years begin before the hour, and months and years after those
\* before them.
LEMMA SpansBegin ==
    ASSUME NEW t \in Nat, Calendar[25] <= t, t < Calendar[54],
           NEW d, d = B!StartOfDay(t), NEW w, w = B!StartOfWeek(t),
           NEW m, m = B!MonthOf(t), NEW y, y = B!FirstOfYear(m)
    PROVE  /\ d \in Int /\ d <= t /\ t < d + 24
           /\ w \in Int /\ w <= t /\ t < w + 168
           /\ m \in 25..53 /\ y \in 25..53 /\ y <= m /\ m <= y + 11
           /\ Calendar[m] <= t /\ t < Calendar[m + 1] /\ Calendar[y] <= t
<1>1. d \in Int /\ d <= t /\ t < d + 24
  BY DEF B!StartOfDay, B!Day
<1>2. w \in Int /\ w <= t /\ t < w + 168
  <2>1. PICK q \in Nat : q = (t \div 24 + 5) % 7 /\ q <= 6
    <3>1. t \div 24 \in Nat
      OBVIOUS
    <3> QED
      BY <3>1
  <2>2. w = d - 24 * q
    BY <2>1 DEF B!StartOfWeek, B!Day
  <2> QED
    BY <1>1, <2>1, <2>2
<1>3. m \in 1..53 /\ Calendar[m] <= t /\ t < Calendar[m + 1]
  BY MonthIs
<1>4. m >= 25
  <2> SUFFICES ASSUME m < 25 PROVE FALSE
    BY <1>3
  <2>1. m + 1 \in 1..54 /\ (m + 1 = 25 \/ m + 1 < 25)
    BY <1>3
  <2> QED
    BY <1>3, <2>1, CalendarGrows, CalendarIs
<1>5. y \in 25..53 /\ y <= m /\ m <= y + 11
  <2>1. PICK q \in Nat, r \in Nat : m - 1 = 12 * q + r /\ r <= 11 /\ r = (m - 1) % 12
    <3>1. PICK n \in Nat : n = m - 1
      BY <1>3
    <3>2. n \div 12 \in Nat /\ (n % 12) \in Nat
      OBVIOUS
    <3>3. (n % 12) <= 11 /\ n = 12 * (n \div 12) + (n % 12)
      OBVIOUS
    <3> QED
      BY <3>1, <3>2, <3>3
  <2>2. y = 12 * q + 1
    BY <1>3, <2>1 DEF B!FirstOfYear
  <2> QED
    BY <1>3, <1>4, <2>1, <2>2
<1>6. Calendar[y] <= Calendar[m]
  <2>1. y \in 1..54 /\ m \in 1..54 /\ (y = m \/ y < m)
    BY <1>3, <1>5
  <2> QED
    BY <2>1, CalendarGrows, CalendarIs
<1>7. Calendar[y] <= t
  BY <1>3, <1>5, <1>6, CalendarIs
<1> QED
  BY <1>1, <1>2, <1>3, <1>4, <1>5, <1>7

\* Each range but the custom ones names a period.
LEMMA PeriodNamed ==
    ASSUME NEW t \in Nat,
           NEW r \in {"today", "yesterday", "this_week", "last_week", "this_month",
                      "last_month", "this_year", "last_year"}
    PROVE  LET p == CHOOSE x \in B!PeriodsOf(t) : x.range = r
           IN  p \in B!PeriodsOf(t) /\ p.range = r
<1>1. \E x \in B!PeriodsOf(t) : x.range = r
  <2>1. PICK d, w, m, y : /\ d = B!StartOfDay(t) /\ w = B!StartOfWeek(t) /\ m = B!MonthOf(t)
                          /\ y = B!FirstOfYear(m)
    OBVIOUS
  <2>2. \A range, from, to, prevFrom :
           /\ B!Running(range, from, to, prevFrom).range = range
           /\ B!Whole(range, from, to, prevFrom).range = range
    BY DEF B!Running, B!Whole, B!WithPrev
  <2>3. /\ B!Running("today", d, t, d - B!Day) \in B!PeriodsOf(t)
        /\ B!Whole("yesterday", d - B!Day, d, d - 2 * B!Day) \in B!PeriodsOf(t)
        /\ B!Running("this_week", w, t, w - 7 * B!Day) \in B!PeriodsOf(t)
        /\ B!Whole("last_week", w - 7 * B!Day, w, w - 14 * B!Day) \in B!PeriodsOf(t)
        /\ B!Running("this_month", Calendar[m], t, Calendar[m - 1]) \in B!PeriodsOf(t)
        /\ B!Whole("last_month", Calendar[m - 1], Calendar[m], Calendar[m - 2])
               \in B!PeriodsOf(t)
        /\ B!Running("this_year", Calendar[y], t, Calendar[y - 12]) \in B!PeriodsOf(t)
        /\ B!Whole("last_year", Calendar[y - 12], Calendar[y], Calendar[y - 24])
               \in B!PeriodsOf(t)
    BY <2>1 DEF B!PeriodsOf
  <2> QED
    BY <2>2, <2>3
<1> QED
  BY <1>1

\* The period compared with is over before the other begins, or has outlasted its month or
\* year; what runs now continues what was last (PeriodsApart).
LEMMA PeriodsStayApart == past \in DOMAIN Moments => B!PeriodsApart
<1> SUFFICES ASSUME past \in DOMAIN Moments PROVE B!PeriodsApart
  OBVIOUS
<1>1. PICK t \in Nat : t = B!now /\ Calendar[25] <= t /\ t < Calendar[54]
  BY NowIs
<1>2. PICK d, w, m, y : /\ d = B!StartOfDay(t) /\ w = B!StartOfWeek(t) /\ m = B!MonthOf(t)
                        /\ y = B!FirstOfYear(m)
  OBVIOUS
<1>3. /\ d \in Int /\ d <= t /\ t < d + 24
      /\ w \in Int /\ w <= t /\ t < w + 168
      /\ m \in 25..53 /\ y \in 25..53 /\ y <= m /\ m <= y + 11
      /\ Calendar[m] <= t /\ t < Calendar[m + 1] /\ Calendar[y] <= t
  BY <1>1, <1>2, SpansBegin
<1>4. PICK a \in Nat, a1 \in Nat, a2 \in Nat, b \in Nat, b1 \in Nat, b2 \in Nat :
         /\ a = Calendar[m] /\ a1 = Calendar[m - 1] /\ a2 = Calendar[m - 2]
         /\ b = Calendar[y] /\ b1 = Calendar[y - 12] /\ b2 = Calendar[y - 24]
         /\ a2 < a1 /\ a1 < a /\ b2 < b1 /\ b1 < b /\ a <= t /\ b <= t
  <2>1. /\ m \in 1..54 /\ m - 1 \in 1..54 /\ m - 2 \in 1..54 /\ m - 2 < m - 1 /\ m - 1 < m
        /\ y \in 1..54 /\ y - 12 \in 1..54 /\ y - 24 \in 1..54 /\ y - 24 < y - 12
        /\ y - 12 < y
    BY <1>3
  <2>2. /\ Calendar[m] \in Nat /\ Calendar[m - 1] \in Nat /\ Calendar[m - 2] \in Nat
        /\ Calendar[y] \in Nat /\ Calendar[y - 12] \in Nat /\ Calendar[y - 24] \in Nat
    BY <2>1, CalendarIs
  <2>3. /\ Calendar[m - 2] < Calendar[m - 1] /\ Calendar[m - 1] < Calendar[m]
        /\ Calendar[y - 24] < Calendar[y - 12] /\ Calendar[y - 12] < Calendar[y]
    BY <2>1, CalendarGrows
  <2>4. PICK a, a1, a2, b, b1, b2 :
           /\ a = Calendar[m] /\ a1 = Calendar[m - 1] /\ a2 = Calendar[m - 2]
           /\ b = Calendar[y] /\ b1 = Calendar[y - 12] /\ b2 = Calendar[y - 24]
    OBVIOUS
  <2>5. /\ a \in Nat /\ a1 \in Nat /\ a2 \in Nat /\ b \in Nat /\ b1 \in Nat /\ b2 \in Nat
        /\ a2 < a1 /\ a1 < a /\ b2 < b1 /\ b1 < b /\ a <= t /\ b <= t
    BY <1>3, <2>2, <2>3, <2>4
  <2> QED
    BY <2>4, <2>5
<1>5. ASSUME NEW p \in B!PeriodsOf(t)
      PROVE  \/ Spans(p, "today", d, t, d - 24, d - 24 + (t - d))
             \/ Spans(p, "yesterday", d - 24, d, d - 48, d - 24)
             \/ Spans(p, "this_week", w, t, w - 168, w - 168 + (t - w))
             \/ Spans(p, "last_week", w - 168, w, w - 336, w - 168)
             \/ Spans(p, "this_month", a, t, a1, a1 + (t - a))
             \/ Spans(p, "last_month", a1, a, a2, a1)
             \/ Spans(p, "this_year", b, t, b1, b1 + (t - b))
             \/ Spans(p, "last_year", b1, b, b2, b1)
             \/ \E c \in Customs : LET from == c.first * 24
                                       to == c.last * 24 + 24
                                   IN  Spans(p, "custom", from, to, from - (to - from),
                                             from - (to - from) + (to - from))
  BY <1>2, <1>4, PeriodsAre
<1>6. PICK today, yesterday, week, week1, month, month1, year, year1 :
         /\ today = CHOOSE p \in B!PeriodsOf(t) : p.range = "today"
         /\ yesterday = CHOOSE p \in B!PeriodsOf(t) : p.range = "yesterday"
         /\ week = CHOOSE p \in B!PeriodsOf(t) : p.range = "this_week"
         /\ week1 = CHOOSE p \in B!PeriodsOf(t) : p.range = "last_week"
         /\ month = CHOOSE p \in B!PeriodsOf(t) : p.range = "this_month"
         /\ month1 = CHOOSE p \in B!PeriodsOf(t) : p.range = "last_month"
         /\ year = CHOOSE p \in B!PeriodsOf(t) : p.range = "this_year"
         /\ year1 = CHOOSE p \in B!PeriodsOf(t) : p.range = "last_year"
  OBVIOUS
<1>7. /\ today \in B!PeriodsOf(t) /\ today.range = "today"
      /\ yesterday \in B!PeriodsOf(t) /\ yesterday.range = "yesterday"
      /\ week \in B!PeriodsOf(t) /\ week.range = "this_week"
      /\ week1 \in B!PeriodsOf(t) /\ week1.range = "last_week"
      /\ month \in B!PeriodsOf(t) /\ month.range = "this_month"
      /\ month1 \in B!PeriodsOf(t) /\ month1.range = "last_month"
      /\ year \in B!PeriodsOf(t) /\ year.range = "this_year"
      /\ year1 \in B!PeriodsOf(t) /\ year1.range = "last_year"
  <2>1. today \in B!PeriodsOf(t) /\ today.range = "today"
    BY <1>6, PeriodNamed
  <2>2. yesterday \in B!PeriodsOf(t) /\ yesterday.range = "yesterday"
    BY <1>6, PeriodNamed
  <2>3. week \in B!PeriodsOf(t) /\ week.range = "this_week"
    BY <1>6, PeriodNamed
  <2>4. week1 \in B!PeriodsOf(t) /\ week1.range = "last_week"
    BY <1>6, PeriodNamed
  <2>5. month \in B!PeriodsOf(t) /\ month.range = "this_month"
    BY <1>6, PeriodNamed
  <2>6. month1 \in B!PeriodsOf(t) /\ month1.range = "last_month"
    BY <1>6, PeriodNamed
  <2>7. year \in B!PeriodsOf(t) /\ year.range = "this_year"
    BY <1>6, PeriodNamed
  <2>8. year1 \in B!PeriodsOf(t) /\ year1.range = "last_year"
    BY <1>6, PeriodNamed
  <2> QED
    BY <2>1, <2>2, <2>3, <2>4, <2>5, <2>6, <2>7, <2>8
<1>8. /\ today.from = d /\ today.prevFrom = d - 24
      /\ yesterday.from = d - 24 /\ yesterday.to = d
  BY <1>5, <1>7 DEF Spans
<1>9. /\ week.from = w /\ week.prevFrom = w - 168
      /\ week1.from = w - 168 /\ week1.to = w
  BY <1>5, <1>7 DEF Spans
<1>10. /\ month.from = a /\ month.prevFrom = a1
       /\ month1.from = a1 /\ month1.to = a
  BY <1>5, <1>7 DEF Spans
<1>11. /\ year.from = b /\ year.prevFrom = b1
       /\ year1.from = b1 /\ year1.to = b
  BY <1>5, <1>7 DEF Spans
<1>12. ASSUME NEW p \in B!PeriodsOf(t), p.from < p.to
       PROVE  \/ p.prevFrom <= p.prevTo /\ p.prevTo <= p.from
              \/ p.range = "this_month" /\ t - p.from > a - a1
              \/ p.range = "this_year" /\ t - p.from > b - b1
  <2>1. CASE Spans(p, "today", d, t, d - 24, d - 24 + (t - d))
    BY <1>3, <2>1 DEF Spans
  <2>2. CASE Spans(p, "yesterday", d - 24, d, d - 48, d - 24)
    BY <1>3, <2>2 DEF Spans
  <2>3. CASE Spans(p, "this_week", w, t, w - 168, w - 168 + (t - w))
    BY <1>3, <2>3 DEF Spans
  <2>4. CASE Spans(p, "last_week", w - 168, w, w - 336, w - 168)
    BY <1>3, <2>4 DEF Spans
  <2>5. CASE Spans(p, "this_month", a, t, a1, a1 + (t - a))
    BY <1>4, <2>5 DEF Spans
  <2>6. CASE Spans(p, "last_month", a1, a, a2, a1)
    BY <1>4, <2>6 DEF Spans
  <2>7. CASE Spans(p, "this_year", b, t, b1, b1 + (t - b))
    BY <1>4, <2>7 DEF Spans
  <2>8. CASE Spans(p, "last_year", b1, b, b2, b1)
    BY <1>4, <2>8 DEF Spans
  <2>9. ASSUME NEW c \in Customs,
               LET from == c.first * 24
                   to == c.last * 24 + 24
               IN  Spans(p, "custom", from, to, from - (to - from),
                         from - (to - from) + (to - from))
        PROVE  p.prevFrom <= p.prevTo /\ p.prevTo <= p.from
    <3>0. PICK k \in Nat, l \in Nat : k = c.first /\ l = c.last
      BY SalesAssumed
    <3>1. PICK from \in Int, to \in Int : from = c.first * 24 /\ to = c.last * 24 + 24
      <4>1. k * 24 \in Int /\ l * 24 + 24 \in Int
        OBVIOUS
      <4> QED
        BY <3>0, <4>1
    <3>2. p.from = from /\ p.to = to /\ p.prevFrom = from - (to - from)
          /\ p.prevTo = from - (to - from) + (to - from)
      BY <2>9, <3>1 DEF Spans
    <3> QED
      BY <1>12, <3>2
  <2> QED
    BY <1>5, <2>1, <2>2, <2>3, <2>4, <2>5, <2>6, <2>7, <2>8, <2>9
<1>13. ASSUME NEW p \in B!PeriodsOf(t), p.from < p.to
       PROVE  \/ p.prevFrom <= p.prevTo /\ p.prevTo <= p.from
              \/ p.range = "this_month" /\ t - p.from > month1.to - month1.from
              \/ p.range = "this_year" /\ t - p.from > year1.to - year1.from
  BY <1>10, <1>11, <1>12, <1>13
<1> DEFINE of(r) == CHOOSE p \in B!PeriodsOf(B!now) : p.range = r
           last == [this_week |-> "last_week", this_month |-> "last_month",
                    this_year |-> "last_year", today |-> "yesterday"]
<1>14. /\ of("today") = today /\ of("yesterday") = yesterday
       /\ of("this_week") = week /\ of("last_week") = week1
       /\ of("this_month") = month /\ of("last_month") = month1
       /\ of("this_year") = year /\ of("last_year") = year1
  BY <1>1, <1>6
<1>15. /\ last["this_week"] = "last_week" /\ last["this_month"] = "last_month"
       /\ last["this_year"] = "last_year" /\ last["today"] = "yesterday"
       /\ DOMAIN last = {"this_week", "this_month", "this_year", "today"}
  OBVIOUS
<1> HIDE DEF of, last
<1>16. \A p \in B!PeriodsOf(B!now) : p.from < p.to =>
          \/ p.prevFrom <= p.prevTo /\ p.prevTo <= p.from
          \/ /\ p.range \in {"this_month", "this_year"}
             /\ B!now - p.from > of(last[p.range]).to - of(last[p.range]).from
  BY <1>1, <1>13, <1>14, <1>15
<1>17. \A r \in DOMAIN last : /\ of(last[r]).to = of(r).from
                              /\ of(last[r]).from = of(r).prevFrom
  BY <1>8, <1>9, <1>10, <1>11, <1>14, <1>15
<1> QED
  BY <1>16, <1>17 DEF B!PeriodsApart, of, last

\* A period's bounds are hours.
LEMMA PeriodTypes ==
    ASSUME past \in DOMAIN Moments, NEW p \in B!PeriodsOf(B!now)
    PROVE  /\ p.from \in Int /\ p.to \in Int /\ p.prevFrom \in Int /\ p.prevTo \in Int
           /\ p.bucket = B!BucketFor(p.from, p.to)
           /\ p.range = "today" => p.from = B!StartOfDay(B!now) /\ p.to = B!now
<1>1. PICK t \in Nat : t = B!now /\ Calendar[25] <= t /\ t < Calendar[54]
  BY NowIs
<1>2. PICK d, w, m, y : /\ d = B!StartOfDay(t) /\ w = B!StartOfWeek(t) /\ m = B!MonthOf(t)
                        /\ y = B!FirstOfYear(m)
  OBVIOUS
<1>3. d \in Int /\ w \in Int /\ m \in 25..53 /\ y \in 25..53
  BY <1>1, <1>2, SpansBegin
<1>4. PICK a, a1, a2, b, b1, b2 :
         /\ a = Calendar[m] /\ a1 = Calendar[m - 1] /\ a2 = Calendar[m - 2]
         /\ b = Calendar[y] /\ b1 = Calendar[y - 12] /\ b2 = Calendar[y - 24]
  OBVIOUS
<1>5. a \in Nat /\ a1 \in Nat /\ a2 \in Nat /\ b \in Nat /\ b1 \in Nat /\ b2 \in Nat
  BY <1>3, <1>4, CalendarIs
<1>6. \/ Spans(p, "today", d, t, d - 24, d - 24 + (t - d))
      \/ Spans(p, "yesterday", d - 24, d, d - 48, d - 24)
      \/ Spans(p, "this_week", w, t, w - 168, w - 168 + (t - w))
      \/ Spans(p, "last_week", w - 168, w, w - 336, w - 168)
      \/ Spans(p, "this_month", a, t, a1, a1 + (t - a))
      \/ Spans(p, "last_month", a1, a, a2, a1)
      \/ Spans(p, "this_year", b, t, b1, b1 + (t - b))
      \/ Spans(p, "last_year", b1, b, b2, b1)
      \/ \E c \in Customs : LET from == c.first * 24
                                to == c.last * 24 + 24
                            IN  Spans(p, "custom", from, to, from - (to - from),
                                      from - (to - from) + (to - from))
  BY <1>1, <1>2, <1>4, PeriodsAre
<1>7. ASSUME NEW c \in Customs,
             LET from == c.first * 24
                 to == c.last * 24 + 24
             IN  Spans(p, "custom", from, to, from - (to - from),
                       from - (to - from) + (to - from))
      PROVE  /\ p.from \in Int /\ p.to \in Int /\ p.prevFrom \in Int /\ p.prevTo \in Int
             /\ p.bucket = B!BucketFor(p.from, p.to) /\ p.range = "custom"
  <2>1. PICK k \in Nat, l \in Nat : k = c.first /\ l = c.last
    BY SalesAssumed
  <2>2. PICK from, to : from = k * 24 /\ to = l * 24 + 24
    OBVIOUS
  <2>3. from \in Int /\ to \in Int
    BY <2>2
  <2>4. Spans(p, "custom", from, to, from - (to - from), from - (to - from) + (to - from))
    BY <1>7, <2>1, <2>2
  <2> QED
    BY <2>3, <2>4 DEF Spans
<1> QED
  BY <1>1, <1>2, <1>3, <1>5, <1>6, <1>7 DEF Spans

\* A period that is charted by months, and the one before it, are of the calendar; it is of
\* thirteen months or less.
LEMMA MonthlyPeriods ==
    ASSUME past \in DOMAIN Moments, NEW p \in B!PeriodsOf(B!now), p.from < p.to,
           p.bucket = "month"
    PROVE  /\ p.from \in Nat /\ p.to \in Nat /\ p.to <= Calendar[54]
           /\ p.prevFrom \in Nat /\ p.prevTo \in Nat /\ p.prevTo <= Calendar[54]
           /\ B!MonthOf(p.to - 1) <= B!MonthOf(p.from) + 12
<1>1. PICK t \in Nat : t = B!now /\ Calendar[25] <= t /\ t < Calendar[54]
  BY NowIs
<1>2. PICK d, w, m, y : /\ d = B!StartOfDay(t) /\ w = B!StartOfWeek(t) /\ m = B!MonthOf(t)
                        /\ y = B!FirstOfYear(m)
  OBVIOUS
<1>3. /\ d \in Int /\ d <= t /\ t < d + 24
      /\ w \in Int /\ w <= t /\ t < w + 168
      /\ m \in 25..53 /\ y \in 25..53 /\ y <= m /\ m <= y + 11
      /\ Calendar[m] <= t /\ t < Calendar[m + 1] /\ Calendar[y] <= t
  BY <1>1, <1>2, SpansBegin
<1>4. PICK a, a1, a2, b, b1, b2, z :
         /\ a = Calendar[m] /\ a1 = Calendar[m - 1] /\ a2 = Calendar[m - 2]
         /\ b = Calendar[y] /\ b1 = Calendar[y - 12] /\ b2 = Calendar[y - 24]
         /\ z = Calendar[54]
  OBVIOUS
<1>5. /\ a \in Nat /\ a1 \in Nat /\ a2 \in Nat /\ b \in Nat /\ b1 \in Nat /\ b2 \in Nat
      /\ a1 < a /\ b1 < b /\ z \in Nat /\ t < z /\ a <= t /\ b <= t
  <2>1. /\ m \in 1..54 /\ m - 1 \in 1..54 /\ m - 2 \in 1..54 /\ m - 1 < m
        /\ y \in 1..54 /\ y - 12 \in 1..54 /\ y - 24 \in 1..54 /\ y - 12 < y /\ 54 \in 1..54
    BY <1>3
  <2>2. /\ Calendar[m] \in Nat /\ Calendar[m - 1] \in Nat /\ Calendar[m - 2] \in Nat
        /\ Calendar[y] \in Nat /\ Calendar[y - 12] \in Nat /\ Calendar[y - 24] \in Nat
        /\ Calendar[54] \in Nat
    BY <2>1, CalendarIs
  <2>3. Calendar[m - 1] < Calendar[m] /\ Calendar[y - 12] < Calendar[y]
    BY <2>1, CalendarGrows
  <2> QED
    BY <1>1, <1>3, <1>4, <2>2, <2>3
<1>6. \/ Spans(p, "today", d, t, d - 24, d - 24 + (t - d))
      \/ Spans(p, "yesterday", d - 24, d, d - 48, d - 24)
      \/ Spans(p, "this_week", w, t, w - 168, w - 168 + (t - w))
      \/ Spans(p, "last_week", w - 168, w, w - 336, w - 168)
      \/ Spans(p, "this_month", a, t, a1, a1 + (t - a))
      \/ Spans(p, "last_month", a1, a, a2, a1)
      \/ Spans(p, "this_year", b, t, b1, b1 + (t - b))
      \/ Spans(p, "last_year", b1, b, b2, b1)
      \/ \E c \in Customs : LET from == c.first * 24
                                to == c.last * 24 + 24
                            IN  Spans(p, "custom", from, to, from - (to - from),
                                      from - (to - from) + (to - from))
  BY <1>1, <1>2, <1>4, PeriodsAre
<1>7. \A from, to \in Int : to - from <= 168 => B!BucketFor(from, to) # "month"
  BY DEF B!BucketFor, B!Day
<1>8. ~Spans(p, "today", d, t, d - 24, d - 24 + (t - d))
      /\ ~Spans(p, "yesterday", d - 24, d, d - 48, d - 24)
  BY <1>3, <1>7 DEF Spans
<1>9. ~Spans(p, "this_week", w, t, w - 168, w - 168 + (t - w))
      /\ ~Spans(p, "last_week", w - 168, w, w - 336, w - 168)
  BY <1>3, <1>7 DEF Spans
<1>10. /\ B!MonthOf(a) = m /\ B!MonthOf(a1) = m - 1 /\ B!MonthOf(b) = y
       /\ B!MonthOf(b1) = y - 12
  <2>1. m \in 1..53 /\ m - 1 \in 1..53 /\ y \in 1..53 /\ y - 12 \in 1..53
    BY <1>3
  <2> QED
    BY <1>4, <2>1, MonthBegins
<1>11. \A u \in Nat : u <= t => B!MonthOf(u) \in 1..53 /\ B!MonthOf(u) <= m
  <2> SUFFICES ASSUME NEW u \in Nat, u <= t
               PROVE  B!MonthOf(u) \in 1..53 /\ B!MonthOf(u) <= m
    OBVIOUS
  <2>1. u < Calendar[54]
    BY <1>1, <1>4, <1>5
  <2>2. B!MonthOf(u) \in 1..53
    BY <2>1, MonthIs
  <2>3. B!MonthOf(u) <= B!MonthOf(t)
    BY <1>1, MonthsOrdered
  <2> QED
    BY <1>2, <2>2, <2>3
<1>12. CASE Spans(p, "this_month", a, t, a1, a1 + (t - a))
  <2>1. p.from = a /\ p.to = t /\ p.prevFrom = a1 /\ p.prevTo = a1 + (t - a) /\ a < t
    BY <1>12 DEF Spans
  <2>2. t - 1 \in Nat /\ t - 1 <= t
    BY <1>5, <2>1
  <2>3. B!MonthOf(t - 1) \in 1..53 /\ B!MonthOf(t - 1) <= m
    BY <1>11, <2>2
  <2>4. PICK u : u = B!MonthOf(p.to - 1) /\ u = B!MonthOf(t - 1)
    BY <2>1
  <2>5. u <= B!MonthOf(p.from) + 12
    BY <1>3, <1>10, <2>1, <2>3, <2>4
  <2>6. /\ p.from \in Nat /\ p.to \in Nat /\ p.to <= z
        /\ p.prevFrom \in Nat /\ p.prevTo \in Nat /\ p.prevTo <= z
    BY <1>5, <2>1
  <2> QED
    BY <1>4, <2>4, <2>5, <2>6
<1>13. CASE Spans(p, "last_month", a1, a, a2, a1)
  <2>1. p.from = a1 /\ p.to = a /\ p.prevFrom = a2 /\ p.prevTo = a1
    BY <1>13 DEF Spans
  <2>2. a - 1 \in Nat /\ a - 1 <= t
    BY <1>5
  <2>3. B!MonthOf(a - 1) \in 1..53 /\ B!MonthOf(a - 1) <= m
    BY <1>11, <2>2
  <2>4. PICK u : u = B!MonthOf(p.to - 1) /\ u = B!MonthOf(a - 1)
    BY <2>1
  <2>5. u <= B!MonthOf(p.from) + 12
    BY <1>3, <1>10, <2>1, <2>3, <2>4
  <2>6. /\ p.from \in Nat /\ p.to \in Nat /\ p.to <= z
        /\ p.prevFrom \in Nat /\ p.prevTo \in Nat /\ p.prevTo <= z
    BY <1>5, <2>1
  <2> QED
    BY <1>4, <2>4, <2>5, <2>6
<1>14. CASE Spans(p, "this_year", b, t, b1, b1 + (t - b))
  <2>1. p.from = b /\ p.to = t /\ p.prevFrom = b1 /\ p.prevTo = b1 + (t - b) /\ b < t
    BY <1>14 DEF Spans
  <2>2. t - 1 \in Nat /\ t - 1 <= t
    BY <1>5, <2>1
  <2>3. B!MonthOf(t - 1) \in 1..53 /\ B!MonthOf(t - 1) <= m
    BY <1>11, <2>2
  <2>4. PICK u : u = B!MonthOf(p.to - 1) /\ u = B!MonthOf(t - 1)
    BY <2>1
  <2>5. u <= B!MonthOf(p.from) + 12
    BY <1>3, <1>10, <2>1, <2>3, <2>4
  <2>6. /\ p.from \in Nat /\ p.to \in Nat /\ p.to <= z
        /\ p.prevFrom \in Nat /\ p.prevTo \in Nat /\ p.prevTo <= z
    BY <1>5, <2>1
  <2> QED
    BY <1>4, <2>4, <2>5, <2>6
<1>15. CASE Spans(p, "last_year", b1, b, b2, b1)
  <2>1. p.from = b1 /\ p.to = b /\ p.prevFrom = b2 /\ p.prevTo = b1
    BY <1>15 DEF Spans
  <2>2. b - 1 \in Nat /\ b - 1 <= b /\ b < z
    BY <1>5
  <2>3. B!MonthOf(b - 1) \in 1..53 /\ B!MonthOf(b - 1) <= y
    <3>1. b - 1 < Calendar[54] /\ b < Calendar[54]
      BY <1>4, <1>5, <2>2
    <3>2. PICK u \in Nat : u = b - 1
      BY <2>2
    <3>3. B!MonthOf(u) \in 1..53 /\ B!MonthOf(u) <= B!MonthOf(b)
      <4>1. u < Calendar[54] /\ u <= b
        BY <3>1, <3>2, <1>5
      <4>2. B!MonthOf(u) \in 1..53
        BY <4>1, MonthIs
      <4>3. B!MonthOf(u) <= B!MonthOf(b)
        BY <1>5, <3>1, <4>1, MonthsOrdered
      <4> QED
        BY <4>2, <4>3
    <3> QED
      BY <1>10, <3>2, <3>3
  <2>4. PICK u : u = B!MonthOf(p.to - 1) /\ u = B!MonthOf(b - 1)
    BY <2>1
  <2>5. u <= B!MonthOf(p.from) + 12
    BY <1>3, <1>10, <2>1, <2>3, <2>4
  <2>6. /\ p.from \in Nat /\ p.to \in Nat /\ p.to <= z
        /\ p.prevFrom \in Nat /\ p.prevTo \in Nat /\ p.prevTo <= z
    BY <1>5, <2>1
  <2> QED
    BY <1>4, <2>4, <2>5, <2>6
<1>16. ASSUME NEW c \in Customs,
              LET from == c.first * 24
                  to == c.last * 24 + 24
              IN  Spans(p, "custom", from, to, from - (to - from),
                        from - (to - from) + (to - from))
       PROVE  /\ p.from \in Nat /\ p.to \in Nat /\ p.to <= Calendar[54]
              /\ p.prevFrom \in Nat /\ p.prevTo \in Nat /\ p.prevTo <= Calendar[54]
              /\ B!MonthOf(p.to - 1) <= B!MonthOf(p.from) + 12
  <2>1. PICK k \in Nat, l \in Nat : k = c.first /\ l = c.last
    BY SalesAssumed
  <2>2. PICK from, to : from = k * 24 /\ to = l * 24 + 24
    OBVIOUS
  <2>3. from \in Nat /\ to \in Nat
    BY <2>2
  <2>4. Spans(p, "custom", from, to, from - (to - from), from - (to - from) + (to - from))
    BY <1>16, <2>1, <2>2
  <2>5. p.from = from /\ p.to = to /\ p.prevFrom = from - (to - from)
        /\ p.prevTo = from - (to - from) + (to - from) /\ from < to
    BY <2>4 DEF Spans
  <2>6. k <= l
    BY <2>2, <2>5
  <2>7. l - k < k /\ to <= Calendar[54] /\ B!MonthOf(to - 1) <= B!MonthOf(from) + 12
    BY <2>1, <2>2, <2>6, SalesAssumed
  <2>8. p.prevFrom \in Nat /\ p.prevTo = from
    BY <2>2, <2>3, <2>5, <2>7
  <2>9. from <= Calendar[54]
    BY <1>4, <1>5, <2>3, <2>5, <2>7
  <2> QED
    BY <2>3, <2>5, <2>7, <2>8, <2>9
<1> QED
  BY <1>6, <1>8, <1>9, <1>12, <1>13, <1>14, <1>15, <1>16

\* The beginnings of the columns of a chart by months.
Columns(f, from, n) == f = [i \in 0..n |-> IF i = 0 THEN from ELSE B!NextMonth(f[i - 1])]

\* There are such.
LEMMA ColumnsExist == \A from : \A n \in Nat : \E f : Columns(f, from, n)
<1> TAKE from
<1> DEFINE Bad == {n \in Nat : ~ \E f : Columns(f, from, n)}
<1> SUFFICES ASSUME Bad # {} PROVE FALSE
  OBVIOUS
<1>1. PICK n \in Bad : \A l \in Bad : n <= l
  BY LeastNatural
<1>2. CASE n = 0
  <2>1. PICK f : f = [i \in 0..0 |-> from]
    OBVIOUS
  <2>2. f = [i \in 0..0 |-> IF i = 0 THEN from ELSE B!NextMonth(f[i - 1])]
    BY <2>1
  <2>3. Columns(f, from, n)
    BY <1>2, <2>2 DEF Columns
  <2> QED
    BY <2>3
<1>3. CASE n # 0
  <2>1. n - 1 \in Nat /\ n - 1 \notin Bad
    BY <1>1, <1>3
  <2>2. PICK f : Columns(f, from, n - 1)
    BY <2>1
  <2>3. PICK g : g = [i \in 0..n |-> IF i = 0 THEN from ELSE B!NextMonth(f[i - 1])]
    OBVIOUS
  <2>4. \A i \in 0..n - 1 : f[i] = IF i = 0 THEN from ELSE B!NextMonth(f[i - 1])
    BY <2>2 DEF Columns
  <2>5. \A i \in 0..n - 1 : g[i] = f[i]
    BY <2>1, <2>3, <2>4
  <2>6. \A i \in 0..n : g[i] = IF i = 0 THEN from ELSE B!NextMonth(g[i - 1])
    <3> TAKE i \in 0..n
    <3>1. i # 0 => i - 1 \in 0..n - 1
      OBVIOUS
    <3> QED
      BY <2>3, <2>5, <3>1
  <2>7. Columns(g, from, n)
    BY <2>3, <2>6 DEF Columns
  <2> QED
    BY <2>7
<1> QED
  BY <1>2, <1>3

\* Of a period that begins with a month, the columns are its months.
LEMMA ColumnsAre ==
    ASSUME NEW f, NEW m \in 1..53, Columns(f, Calendar[m], 12)
    PROVE  \A i \in 0..12 : m + i <= 54 => f[i] = Calendar[m + i]
<1>1. \A i \in 0..12 : f[i] = IF i = 0 THEN Calendar[m] ELSE B!NextMonth(f[i - 1])
  BY DEF Columns
<1> DEFINE Bad == {i \in 0..12 : m + i <= 54 /\ f[i] # Calendar[m + i]}
<1> SUFFICES ASSUME Bad # {} PROVE FALSE
  OBVIOUS
<1>2. Bad \subseteq Nat
  OBVIOUS
<1>3. PICK i \in Bad : \A l \in Bad : i <= l
  BY <1>2, LeastNatural
<1>4. i # 0
  BY <1>1
<1>5. PICK k \in 0..11 : i = k + 1
  <2>1. i - 1 \in 0..11 /\ i = (i - 1) + 1
    BY <1>4
  <2> QED
    BY <2>1
<1>6. f[k] = Calendar[m + k]
  <2>1. k \notin Bad
    BY <1>3, <1>5
  <2> QED
    BY <1>5, <2>1
<1>7. m + k \in 1..53
  BY <1>5
<1>8. PICK n \in 1..53 : n = m + k
  BY <1>7
<1>9. B!NextMonth(Calendar[n]) = Calendar[n + 1]
  <2>1. B!MonthOf(Calendar[n]) = n
    BY MonthBegins
  <2>2. Calendar[n] \in Nat /\ Calendar[n + 1] \in Nat
    BY CalendarIs
  <2>3. B!NextMonth(Calendar[n]) = Calendar[n] + Calendar[n + 1] - Calendar[n]
    BY <2>1 DEF B!NextMonth
  <2> QED
    BY <2>2, <2>3
<1>10. f[i] = B!NextMonth(f[k])
  <2>1. i \in 0..12 /\ i # 0 /\ i - 1 = k
    BY <1>4, <1>5
  <2> QED
    BY <1>1, <2>1
<1>11. m + i = n + 1
  BY <1>5, <1>8
<1> QED
  BY <1>6, <1>8, <1>9, <1>10, <1>11

\* A chart by months of a period that begins with one has a column for each of its months.
LEMMA MonthColumns ==
    ASSUME NEW p, p.bucket = "month", NEW m \in 1..53, NEW l \in 1..53, p.from = Calendar[m],
           p.from < p.to, p.to \in Nat, p.to <= Calendar[54], l = B!MonthOf(p.to - 1),
           l <= m + 12
    PROVE  B!Size(p) \in Nat /\ l - m < B!Size(p)
<1>1. PICK f : f = CHOOSE g : Columns(g, p.from, 12)
  OBVIOUS
<1>2. Columns(f, Calendar[m], 12)
  <2>1. 12 \in Nat
    OBVIOUS
  <2> QED
    BY <1>1, <2>1, ColumnsExist
<1>3. PICK U : U = {i \in 0..12 : f[i] < p.to}
  OBVIOUS
<1>4. PICK to \in Nat : to = p.to /\ to - 1 \in Nat /\ to - 1 < Calendar[54]
  BY CalendarIs
<1>5. Calendar[m] <= to - 1 /\ Calendar[l] <= to - 1
  <2>1. Calendar[m] \in Nat
    BY CalendarIs
  <2>2. Calendar[l] <= to - 1
    BY <1>4, MonthIs
  <2> QED
    BY <1>4, <2>1, <2>2
<1>6. m <= l
  <2>1. B!MonthOf(Calendar[m]) = m
    BY MonthBegins
  <2>2. Calendar[m] \in Nat
    BY CalendarIs
  <2>3. B!MonthOf(Calendar[m]) <= B!MonthOf(to - 1)
    BY <1>4, <1>5, <2>2, MonthsOrdered
  <2> QED
    BY <1>4, <2>1, <2>3
<1>7. 0..l - m \subseteq U
  <2> SUFFICES ASSUME NEW i \in 0..l - m PROVE i \in U
    OBVIOUS
  <2>1. i \in 0..12 /\ m + i <= 54 /\ m + i \in 1..54 /\ m + i <= l
    OBVIOUS
  <2>2. f[i] = Calendar[m + i]
    BY <1>2, <2>1, ColumnsAre
  <2>3. PICK n \in 1..54 : n = m + i /\ n <= l
    BY <2>1
  <2>4. Calendar[n] <= Calendar[l]
    <3>1. n = l \/ n < l
      BY <2>3
    <3>2. Calendar[l] \in Nat
      BY CalendarIs
    <3> QED
      BY <3>1, <3>2, CalendarGrows, CalendarIs
  <2>5. Calendar[n] \in Nat /\ Calendar[l] \in Nat
    BY CalendarIs
  <2>6. f[i] < p.to
    BY <1>4, <1>5, <2>2, <2>3, <2>4, <2>5
  <2> QED
    BY <1>3, <2>1, <2>6
<1>8. IsFiniteSet(U)
  <2>1. IsFiniteSet(0..12)
    <3>1. 0 \in Int /\ 12 \in Int
      OBVIOUS
    <3> QED
      BY <3>1, FS_Interval
  <2>2. U \subseteq 0..12
    BY <1>3
  <2> QED
    BY <2>1, <2>2, FS_Subset
<1>9. Cardinality(U) \in Nat
  BY <1>8, FS_CardinalityType
<1>10. Cardinality(0..l - m) <= Cardinality(U)
  BY <1>7, <1>8, FS_Subset
<1>11. Cardinality(0..l - m) = l - m + 1
  <2>1. 0 \in Int /\ l - m \in Int /\ ~(0 > l - m)
    BY <1>6
  <2>2. PICK k \in Int : k = l - m
    BY <2>1
  <2>3. Cardinality(0..k) = k - 0 + 1
    BY <2>1, <2>2, FS_Interval
  <2> QED
    BY <2>2, <2>3
<1>12. B!Size(p) = Cardinality(U)
  <2>1. Cardinality(U) # 0
    BY <1>6, <1>9, <1>10, <1>11
  <2>2. B!Cardinality(U) = Cardinality(U)
    BY DEF B!Cardinality, Cardinality
  <2> HIDE DEF Columns
  <2>3. B!Size(p) = IF B!Cardinality(U) = 0 THEN 1 ELSE B!Cardinality(U)
    BY <1>1, <1>3 DEF B!Size, Columns
  <2> QED
    BY <2>1, <2>2, <2>3
<1> QED
  BY <1>6, <1>9, <1>10, <1>11, <1>12

\* Every hour of a stretch has its column in the chart of a period, laid from its beginning.
Covers(p, from, to) == \A t \in Int : from <= t /\ t < to => B!Charted(p, from, t)

\* By hours and by days, a chart holds a stretch that is no longer than its period.
LEMMA HoursCharted ==
    ASSUME NEW p, NEW from \in Int, NEW to \in Int, p.from = from, p.to = to, from < to,
           NEW f \in Int, NEW l \in Int, l - f <= to - from, p.bucket = "hour"
    PROVE  Covers(p, f, l)
<1>1. B!Size(p) = to - from
  BY DEF B!Size
<1> SUFFICES ASSUME NEW t \in Int, f <= t, t < l PROVE B!Charted(p, f, t)
  BY DEF Covers
<1>2. B!BucketIdx(p.bucket, f, t) = t - f
  BY DEF B!BucketIdx
<1> QED
  BY <1>1, <1>2 DEF B!Charted

\* The same by days.
LEMMA DaysCharted ==
    ASSUME NEW p, NEW from \in Int, NEW to \in Int, p.from = from, p.to = to, from < to,
           NEW f \in Int, NEW l \in Int, l - f <= to - from, p.bucket = "day"
    PROVE  Covers(p, f, l)
<1>1. PICK n : n = (to - from + 23) \div 24
  OBVIOUS
<1>2. n \in Int /\ n >= 1 /\ 24 * n >= to - from /\ 24 * n <= to - from + 23
  BY <1>1
<1>3. B!Size(p) = n
  <2>1. to - from + 24 - 1 = to - from + 23
    OBVIOUS
  <2>2. B!Size(p) = IF (to - from + 24 - 1) \div 24 = 0 THEN 1
                    ELSE (to - from + 24 - 1) \div 24
    BY DEF B!Size, B!Day
  <2> QED
    BY <1>1, <1>2, <2>1, <2>2
<1> SUFFICES ASSUME NEW t \in Int, f <= t, t < l PROVE B!Charted(p, f, t)
  BY DEF Covers
<1>4. PICK k : k = (t - f) \div 24
  OBVIOUS
<1>5. k \in Int /\ k >= 0 /\ 24 * k <= t - f
  BY <1>4
<1>6. B!BucketIdx(p.bucket, f, t) = k
  BY <1>4 DEF B!BucketIdx, B!Day
<1>7. k \in 0..n - 1
  <2>1. 24 * k < 24 * n
    BY <1>2, <1>5
  <2> QED
    BY <1>2, <1>5, <2>1
<1> QED
  BY <1>3, <1>6, <1>7 DEF B!Charted

\* By months, it holds a stretch of the calendar that reaches into no more of them.
LEMMA MonthsCharted ==
    ASSUME NEW p, p.bucket = "month", B!FirstOfMonth(p.from), p.from \in Nat, p.to \in Nat,
           p.from < p.to, p.to <= Calendar[54], B!MonthOf(p.to - 1) <= B!MonthOf(p.from) + 12,
           NEW f \in Nat, NEW l \in Nat, l <= Calendar[54],
           f < l => B!LastMonth(f, l) <= B!LastMonth(p.from, p.to)
    PROVE  Covers(p, f, l)
<1>1. PICK from \in Nat, to \in Nat, z \in Nat :
         from = p.from /\ to = p.to /\ z = Calendar[54] /\ from < to /\ to <= z /\ l <= z
  <2>1. Calendar[54] \in Nat
    BY CalendarIs
  <2> QED
    BY <2>1
<1>2. to - 1 \in Nat /\ from < z /\ to - 1 < z
  BY <1>1
<1>3. B!MonthOf(from) \in 1..53 /\ B!MonthOf(to - 1) \in 1..53
  BY <1>1, <1>2, MonthIs
<1>4. PICK m \in 1..53, n \in 1..53 : m = B!MonthOf(from) /\ n = B!MonthOf(to - 1)
  BY <1>3
<1>5. B!Size(p) \in Nat /\ n - m < B!Size(p)
  <2>1. p.from = Calendar[m]
    BY <1>1, <1>4 DEF B!FirstOfMonth
  <2>2. n = B!MonthOf(p.to - 1) /\ n <= m + 12
    BY <1>1, <1>4
  <2> QED
    BY <2>1, <2>2, MonthColumns
<1>6. B!LastMonth(p.from, p.to) = n - m
  BY <1>1, <1>4 DEF B!LastMonth
<1> SUFFICES ASSUME NEW t \in Int, f <= t, t < l PROVE B!Charted(p, f, t)
  BY DEF Covers
<1>7. t \in Nat /\ l - 1 \in Nat /\ t <= l - 1 /\ l - 1 < z /\ f < z /\ t < z /\ f < l
  BY <1>1
<1>8. B!MonthOf(f) \in 1..53 /\ B!MonthOf(t) \in 1..53 /\ B!MonthOf(l - 1) \in 1..53
  BY <1>1, <1>7, MonthIs
<1>9. PICK i \in 1..53, j \in 1..53, k \in 1..53 :
         i = B!MonthOf(f) /\ j = B!MonthOf(t) /\ k = B!MonthOf(l - 1)
  BY <1>8
<1>10. i <= j
  BY <1>1, <1>7, <1>9, MonthsOrdered
<1>11. j <= k
  BY <1>1, <1>7, <1>9, MonthsOrdered
<1>12. k - i <= n - m
  BY <1>6, <1>7, <1>9 DEF B!LastMonth
<1>13. B!BucketIdx(p.bucket, f, t) = j - i
  BY <1>9 DEF B!BucketIdx
<1> QED
  BY <1>5, <1>10, <1>11, <1>12, <1>13 DEF B!Charted

\* The period before is no longer, or reaches into no more months.
Follows(p) ==
    IF p.bucket = "month" THEN B!LastMonth(p.prevFrom, p.prevTo) <= B!LastMonth(p.from, p.to)
    ELSE p.prevTo - p.prevFrom <= p.to - p.from

\* The chart of a period holds all of it, and all of the period before if that follows it.
LEMMA PeriodsCharted ==
    ASSUME past \in DOMAIN Moments, NEW p \in B!PeriodsOf(B!now), p.from < p.to,
           p.bucket = "month" => B!FirstOfMonth(p.from)
    PROVE  Covers(p, p.from, p.to) /\ (Follows(p) => Covers(p, p.prevFrom, p.prevTo))
<1>1. /\ p.from \in Int /\ p.to \in Int /\ p.prevFrom \in Int /\ p.prevTo \in Int
      /\ p.bucket = B!BucketFor(p.from, p.to)
  BY PeriodTypes
<1>2. p.bucket \in {"hour", "day", "month"}
  BY <1>1 DEF B!BucketFor
<1>3. PICK from \in Int, to \in Int, f \in Int, l \in Int :
         from = p.from /\ to = p.to /\ f = p.prevFrom /\ l = p.prevTo /\ from < to
  BY <1>1
<1>4. CASE p.bucket = "hour"
  <2>1. Covers(p, from, to)
    BY <1>3, <1>4, HoursCharted
  <2>2. Follows(p) => Covers(p, f, l)
    BY <1>3, <1>4, HoursCharted DEF Follows
  <2> QED
    BY <1>3, <2>1, <2>2
<1>5. CASE p.bucket = "day"
  <2>1. Covers(p, from, to)
    BY <1>3, <1>5, DaysCharted
  <2>2. Follows(p) => Covers(p, f, l)
    BY <1>3, <1>5, DaysCharted DEF Follows
  <2> QED
    BY <1>3, <2>1, <2>2
<1>6. CASE p.bucket = "month"
  <2>1. /\ p.from \in Nat /\ p.to \in Nat /\ p.to <= Calendar[54]
        /\ p.prevFrom \in Nat /\ p.prevTo \in Nat /\ p.prevTo <= Calendar[54]
        /\ B!MonthOf(p.to - 1) <= B!MonthOf(p.from) + 12
    BY <1>6, MonthlyPeriods
  <2>2. PICK x \in Int, y \in Int : x = B!LastMonth(p.from, p.to) /\ y = x
    <3>1. B!MonthOf(p.from) \in 1..53 /\ B!MonthOf(p.to - 1) \in 1..53
      <4>1. p.to - 1 \in Nat /\ p.to - 1 < Calendar[54] /\ p.from < Calendar[54]
        BY <1>3, <2>1, CalendarIs
      <4> QED
        BY <2>1, <4>1, MonthIs
    <3> QED
      BY <3>1 DEF B!LastMonth
  <2>3. B!LastMonth(p.from, p.to) <= B!LastMonth(p.from, p.to)
    BY <2>2
  <2>4. B!FirstOfMonth(p.from)
    BY <1>6
  <2>5. Covers(p, from, to)
    BY <1>3, <1>6, <2>1, <2>3, <2>4, MonthsCharted
  <2>6. Follows(p) => Covers(p, f, l)
    BY <1>3, <1>6, <2>1, <2>4, MonthsCharted DEF Follows
  <2> QED
    BY <1>3, <2>5, <2>6
<1> QED
  BY <1>2, <1>4, <1>5, <1>6

\* A sum is that of the sums over the elements of each key.
LEMMA SumByKey ==
    ASSUME NEW f, NEW key, NEW X, NEW K, IsFiniteSet(X), IsFiniteSet(K),
           \A x \in X : f[x] \in Int /\ key[x] \in K,
           NEW g, \A k \in K : g[k] = SumFunctionOnSet(f, {x \in X : key[x] = k})
    PROVE  SumFunctionOnSet(f, X) = SumFunctionOnSet(g, K)
<1> DEFINE Of(J) == {x \in X : key[x] \in J}
           Summed == {J \in SUBSET K : SumFunctionOnSet(g, J) = SumFunctionOnSet(f, Of(J))}
<1>1. \A k \in K : g[k] \in Int
  <2> TAKE k \in K
  <2>1. PICK Y \in SUBSET X : Y = {x \in X : key[x] = k}
    OBVIOUS
  <2>2. IsFiniteSet(Y)
    BY <2>1, FS_Subset
  <2>3. SumFunctionOnSet(f, Y) \in Int
    BY <2>1, <2>2, SumType
  <2> QED
    BY <2>1, <2>3
<1>2. ASSUME NEW J \in SUBSET K, \A V \in SUBSET J : V # J => V \in Summed
      PROVE  J \in Summed
  <2>1. CASE J = {}
    <3>1. Of(J) = {}
      BY <2>1
    <3>2. SumFunctionOnSet(g, J) = SumFunctionOnSet(f, Of(J))
      BY <2>1, <3>1, SumOfNone
    <3> QED
      BY <3>2
  <2>2. CASE J # {}
    <3>1. PICK k : k \in J
      BY <2>2
    <3>2. PICK V \in SUBSET J : V = J \ {k}
      OBVIOUS
    <3>3. SumFunctionOnSet(g, V) = SumFunctionOnSet(f, Of(V))
      <4>1. V # J
        BY <3>1, <3>2
      <4> QED
        BY <1>2, <4>1
    <3>4. PICK W \in SUBSET X : W = Of(J)
      OBVIOUS
    <3>5. PICK U \in SUBSET W : U = {x \in X : key[x] = k}
      <4>1. {x \in X : key[x] = k} \subseteq W
        BY <3>1, <3>4
      <4> QED
        BY <4>1
    <3>6. W \ U = Of(V)
      BY <3>2, <3>4, <3>5
    <3>7. IsFiniteSet(W) /\ IsFiniteSet(J)
      BY FS_Subset
    <3>8. SumFunctionOnSet(f, W) = SumFunctionOnSet(f, U) + SumFunctionOnSet(f, W \ U)
      BY <3>7, SumInParts
    <3>9. SumFunctionOnSet(g, J) = g[k] + SumFunctionOnSet(g, J \ {k})
      <4>1. \A j \in J : g[j] \in Int
        BY <1>1
      <4> QED
        BY <3>1, <3>7, <4>1, SumTakeOut
    <3>10. g[k] = SumFunctionOnSet(f, U)
      BY <3>1, <3>5
    <3> HIDE DEF Of
    <3>11. SumFunctionOnSet(g, J) = SumFunctionOnSet(f, Of(J))
      BY <3>2, <3>3, <3>4, <3>6, <3>8, <3>9, <3>10
    <3> QED
      BY <3>11
  <2> QED
    BY <2>1, <2>2
<1>3. Summed = SUBSET K
  <2>1. Summed \in SUBSET (SUBSET K)
    OBVIOUS
  <2> HIDE DEF Summed
  <2> QED
    BY <1>2, <2>1, SubsetInduction
<1>4. SumFunctionOnSet(g, K) = SumFunctionOnSet(f, Of(K))
  <2>1. K \in Summed
    BY <1>3
  <2> QED
    BY <2>1
<1>5. Of(K) = X
  OBVIOUS
<1> QED
  BY <1>4, <1>5

\* The keys of finitely many are finitely many.
LEMMA KeysFinite ==
    ASSUME NEW key, NEW X, IsFiniteSet(X)
    PROVE  IsFiniteSet({key[x] : x \in X})
<1> DEFINE K == {key[x] : x \in X}
           f == [x \in X |-> key[x]]
<1>1. f \in Surjection(X, K)
  BY DEF Surjection
<1> HIDE DEF K, f
<1>2. IsFiniteSet(K)
  BY <1>1, FS_Surjection
<1> QED
  BY <1>2 DEF K

\* The sums of an instance are sums.
LEMMA SameSums ==
    \A f, X : /\ B!SumFunctionOnSet(f, X) = SumFunctionOnSet(f, X)
              /\ B!SumFunction(f) = SumFunctionOnSet(f, DOMAIN f)
              /\ B!Cardinality(X) = Cardinality(X)
BY DEF B!SumFunctionOnSet, SumFunctionOnSet, B!FoldFunctionOnSet, FoldFunctionOnSet,
       B!MapThenFoldSet, MapThenFoldSet, B!SumFunction, SumFunction, B!Cardinality, Cardinality

SaleRow == [status : {"open", "cancelled"}, created : Int, confirmed : Int]

\* No order is of the future.
SaleTypes ==
    /\ past \in DOMAIN Moments
    /\ sale \in [Sales -> {B!None} \union SaleRow]
    /\ \A o \in B!There : sale[o].created <= B!now /\ sale[o].confirmed <= B!now

\* What has been sold by warehouse, staff and channel, and of what has come in.
CellsAre(cells) == IsFiniteSet(DOMAIN cells) /\ \A c \in DOMAIN cells : cells[c].revenue \in Int
RatesAre(rates) ==
    \A s \in Staff : /\ rates[s].total \in Nat /\ rates[s].closed \in Nat
                     /\ rates[s].closed <= rates[s].total

\* A request asks for a period of the hour, and has the answers of it: those that the
\* queries would have now, if nothing has come between.
Known(v) ==
    \/ v = B!Idle
    \/ /\ v = [pc |-> "query", of |-> v.of, view |-> v.view, period |-> v.period,
               at |-> v.at, alone |-> v.alone, got |-> v.got]
       /\ v.of \in {"overview", "sales"} /\ v.alone \in BOOLEAN /\ v.at = B!now
       /\ v.period \in B!PeriodsOf(B!now) /\ v.period.from < v.period.to
       /\ \E Any : v.got \in Seq(Any)
       /\ v.of = "sales" => /\ Len(v.got) >= 1 => CellsAre(v.got[1])
                            /\ Len(v.got) >= 2 => CellsAre(v.got[2])
                            /\ Len(v.got) >= 3 => RatesAre(v.got[3])
       /\ v.alone => \A i \in 1..Len(v.got) : v.got[i] = B!Answer(v, B!QueriesOf[v.of][i])

SalesInv ==
    /\ SaleTypes
    /\ \A v : v = viewer => Known(v)
    /\ B!ChartsAddUp /\ B!RowsAddUp /\ B!BlocksAgree

\* What the orders are worth.
LEMMA WorthTyped == \A o \in Sales : B!Revenue(o) \in Int /\ B!Net(o) \in Int
<1> TAKE o \in Sales
<1>1. KindOf[o] \in B!KindType
  BY SalesAssumed
<1>2. /\ KindOf[o].total \in Nat /\ KindOf[o].refunded \in Nat
      /\ KindOf[o].ofChannel \in Nat \union {-1}
  BY <1>1 DEF B!KindType, B!Unknown
<1> QED
  BY <1>2 DEF B!Revenue, B!Net, B!Unknown

RevenueOfAll == [o \in Sales |-> B!Revenue(o)]

\* The sums of revenue are sums of one function.
LEMMA RevenueIs ==
    ASSUME NEW X \in SUBSET Sales
    PROVE  /\ B!RevenueOf(X) = SumFunctionOnSet(RevenueOfAll, X) /\ B!RevenueOf(X) \in Int
           /\ IsFiniteSet(X)
<1>1. IsFiniteSet(X)
  BY SalesAssumed, FS_Subset
<1>2. \A o \in X : RevenueOfAll[o] = B!Revenue(o) /\ B!Revenue(o) \in Int
  BY WorthTyped DEF RevenueOfAll
<1>3. PICK f : f = [o \in X |-> B!Revenue(o)]
  OBVIOUS
<1>4. SumFunctionOnSet(f, X) = SumFunctionOnSet(RevenueOfAll, X)
  <2>1. \A o \in X : f[o] = RevenueOfAll[o]
    BY <1>2, <1>3
  <2> QED
    BY <1>1, <2>1, SumSame
<1>5. B!RevenueOf(X) = SumFunctionOnSet(f, X)
  BY <1>3, SameSums DEF B!RevenueOf
<1>6. SumFunctionOnSet(RevenueOfAll, X) \in Int
  BY <1>1, <1>2, SumType
<1> QED
  BY <1>1, <1>4, <1>5, <1>6

\* An order is closed at some hour that is over, if it is.
LEMMA ClosedWhen ==
    ASSUME SaleTypes, NEW o \in B!There
    PROVE  /\ o \in Sales /\ sale[o] \in SaleRow
           /\ sale[o].created \in Int /\ sale[o].created <= B!now
           /\ B!ClosedAt(o) \in Int /\ B!ClosedAt(o) <= B!now
<1>1. o \in Sales /\ sale[o] \in SaleRow
  BY DEF SaleTypes, B!There
<1>2. /\ sale[o].created \in Int /\ sale[o].created <= B!now
      /\ sale[o].confirmed \in Int /\ sale[o].confirmed <= B!now
  BY <1>1 DEF SaleTypes, SaleRow
<1> QED
  BY <1>1, <1>2 DEF B!ClosedAt

\* The answers have their types.
LEMMA CellsTyped ==
    ASSUME NEW view, NEW from, NEW to
    PROVE  CellsAre(B!Cells(view, from, to))
<1>1. PICK X \in SUBSET Sales : X = B!Closed(view, from, to)
  BY DEF B!Closed, B!There
<1>2. PICK key : key = [o \in X |-> B!CellOf(o)]
  OBVIOUS
<1>3. IsFiniteSet({key[o] : o \in X})
  BY RevenueIs, KeysFinite
<1>4. {key[o] : o \in X} = {B!CellOf(o) : o \in X}
  BY <1>2
<1>5. PICK cells : cells = B!Cells(view, from, to)
  OBVIOUS
<1>6. cells = [c \in {B!CellOf(o) : o \in X} |->
                  [orders |-> B!Cardinality({o \in X : B!CellOf(o) = c}),
                   revenue |-> B!RevenueOf({o \in X : B!CellOf(o) = c})]]
  BY <1>1, <1>5 DEF B!Cells
<1>7. DOMAIN cells = {B!CellOf(o) : o \in X}
  BY <1>6
<1>8. \A c \in DOMAIN cells : cells[c].revenue \in Int
  <2> TAKE c \in DOMAIN cells
  <2>1. PICK Y \in SUBSET Sales : Y = {o \in X : B!CellOf(o) = c}
    OBVIOUS
  <2>2. B!RevenueOf(Y) \in Int
    BY RevenueIs
  <2>3. cells[c].revenue = B!RevenueOf(Y)
    BY <1>6, <1>7, <2>1
  <2> QED
    BY <2>2, <2>3
<1> QED
  BY <1>3, <1>4, <1>5, <1>7, <1>8 DEF CellsAre

\* The rates of closing have theirs.
LEMMA RatesTyped ==
    ASSUME NEW view, NEW from, NEW to
    PROVE  RatesAre(B!Cohorts(view, from, to))
<1> SUFFICES ASSUME NEW s \in Staff
             PROVE  LET rates == B!Cohorts(view, from, to)
                    IN  /\ rates[s].total \in Nat /\ rates[s].closed \in Nat
                        /\ rates[s].closed <= rates[s].total
  BY DEF RatesAre
<1>1. PICK X \in SUBSET Sales :
         X = {o \in B!Placed(view, from, to) : KindOf[o].staff = s}
  BY DEF B!Placed, B!There
<1>2. PICK Y \in SUBSET X : Y = {o \in X : B!Live(o) /\ B!ClosedAt(o) # B!Never}
  OBVIOUS
<1>3. /\ B!Cohorts(view, from, to)[s].total = Cardinality(X)
      /\ B!Cohorts(view, from, to)[s].closed = Cardinality(Y)
  BY <1>1, <1>2, SameSums DEF B!Cohorts
<1>4. IsFiniteSet(X) /\ IsFiniteSet(Y)
  BY SalesAssumed, FS_Subset
<1>5. Cardinality(X) \in Nat /\ Cardinality(Y) \in Nat /\ Cardinality(Y) <= Cardinality(X)
  BY <1>4, FS_CardinalityType, FS_Subset
<1> QED
  BY <1>3, <1>5

\* What the cells tell of adds up to what was closed.
LEMMA CellsTotal ==
    ASSUME NEW view, NEW from, NEW to
    PROVE  LET cells == B!Cells(view, from, to)
           IN  B!CellSum(cells, DOMAIN cells) = B!RevenueOf(B!Closed(view, from, to))
<1>1. PICK X \in SUBSET Sales : X = B!Closed(view, from, to)
  BY DEF B!Closed, B!There
<1>2. PICK key : key = [o \in Sales |-> B!CellOf(o)]
  OBVIOUS
<1>3. PICK cells, K : cells = B!Cells(view, from, to) /\ K = DOMAIN cells
  OBVIOUS
<1>4. cells = [c \in {B!CellOf(o) : o \in X} |->
                  [orders |-> B!Cardinality({o \in X : B!CellOf(o) = c}),
                   revenue |-> B!RevenueOf({o \in X : B!CellOf(o) = c})]]
  BY <1>1, <1>3 DEF B!Cells
<1>5. K = {B!CellOf(o) : o \in X}
  BY <1>3, <1>4
<1>6. IsFiniteSet(K) /\ IsFiniteSet(X)
  <2>1. CellsAre(cells)
    BY <1>3, CellsTyped
  <2> QED
    BY <1>3, <2>1, RevenueIs DEF CellsAre
<1>7. PICK g : g = [c \in K |-> cells[c].revenue]
  OBVIOUS
<1>8. \A c \in K : g[c] = SumFunctionOnSet(RevenueOfAll, {o \in X : key[o] = c})
  <2> TAKE c \in K
  <2>1. PICK Y \in SUBSET Sales : Y = {o \in X : B!CellOf(o) = c}
    OBVIOUS
  <2>2. g[c] = B!RevenueOf(Y)
    BY <1>4, <1>5, <1>7, <2>1
  <2>3. Y = {o \in X : key[o] = c}
    BY <1>2, <2>1
  <2> QED
    BY <2>2, <2>3, RevenueIs
<1>9. \A o \in X : RevenueOfAll[o] \in Int /\ key[o] \in K
  BY <1>2, <1>5, WorthTyped DEF RevenueOfAll
<1>10. SumFunctionOnSet(RevenueOfAll, X) = SumFunctionOnSet(g, K)
  BY <1>6, <1>8, <1>9, SumByKey
<1>11. B!CellSum(cells, K) = SumFunctionOnSet(g, K)
  BY <1>7, SameSums DEF B!CellSum
<1> QED
  BY <1>1, <1>3, <1>10, <1>11, RevenueIs

\* A chart that has a column for every hour of a stretch sums to what was placed or closed
\* in it.
LEMMA ChartHolds ==
    ASSUME SaleTypes, NEW p, NEW view, NEW from, NEW to, Covers(p, from, to)
    PROVE  /\ B!ChartOfPlaced(p, view, from, to) = B!Results(view, from, to).net
           /\ B!ChartOfClosed(p, view, from, to) = B!RevenueOf(B!Closed(view, from, to))
<1>1. \A o \in B!Placed(view, from, to) : B!Charted(p, from, sale[o].created)
  <2> TAKE o \in B!Placed(view, from, to)
  <2>1. o \in B!There /\ from <= sale[o].created /\ sale[o].created < to
    BY DEF B!Placed, B!In
  <2>2. PICK t \in Int : t = sale[o].created
    BY <2>1, ClosedWhen
  <2> QED
    BY <2>1, <2>2 DEF Covers
<1>2. \A o \in B!Closed(view, from, to) : B!Charted(p, from, B!ClosedAt(o))
  <2> TAKE o \in B!Closed(view, from, to)
  <2>1. o \in B!There /\ from <= B!ClosedAt(o) /\ B!ClosedAt(o) < to
    BY DEF B!Closed, B!In
  <2>2. PICK t \in Int : t = B!ClosedAt(o)
    BY <2>1, ClosedWhen
  <2> QED
    BY <2>1, <2>2 DEF Covers
<1>3. {o \in B!Placed(view, from, to) : B!Live(o) /\ B!Charted(p, from, sale[o].created)}
      = {o \in B!Placed(view, from, to) : B!Live(o)}
  BY <1>1
<1>4. {o \in B!Closed(view, from, to) : B!Charted(p, from, B!ClosedAt(o))}
      = B!Closed(view, from, to)
  BY <1>2
<1>5. B!Results(view, from, to).net = B!NetOf({o \in B!Placed(view, from, to) : B!Live(o)})
  BY DEF B!Results
<1> QED
  BY <1>3, <1>4, <1>5 DEF B!ChartOfPlaced, B!ChartOfClosed

\* The funnel counts what the results tell of.
LEMMA FunnelCounts ==
    ASSUME SaleTypes, NEW view, NEW from, NEW to
    PROVE  LET results == B!Results(view, from, to)
               funnel == B!Funnel(view, from, to)
           IN  funnel.active = results.orders /\ funnel.total = results.orders + results.cancelled
<1>1. PICK X \in SUBSET Sales : X = B!Placed(view, from, to)
  BY DEF B!Placed, B!There
<1>2. PICK Y \in SUBSET X : Y = {o \in X : B!Live(o)}
  OBVIOUS
<1>3. /\ B!Funnel(view, from, to).active = Cardinality(Y)
      /\ B!Funnel(view, from, to).total = Cardinality(X)
      /\ B!Results(view, from, to).orders = Cardinality(Y)
      /\ B!Results(view, from, to).cancelled = Cardinality(X \ Y)
  BY <1>1, <1>2, SameSums DEF B!Funnel, B!Results
<1>4. IsFiniteSet(X)
  BY RevenueIs
<1>5. IsFiniteSet(Y) /\ IsFiniteSet(X \ Y) /\ X \ (X \ Y) = Y
  BY <1>4, FS_Subset, FS_Difference
<1>6. Cardinality(X) = Cardinality(Y) + Cardinality(X \ Y)
  <2>1. X = Y \union (X \ Y) /\ Y \intersect (X \ Y) = {}
    OBVIOUS
  <2>2. PICK W : W = X \ Y
    OBVIOUS
  <2>3. Cardinality(Y \union W) = Cardinality(Y) + Cardinality(W) - Cardinality(Y \intersect W)
    BY <1>5, <2>2, FS_Union
  <2>4. Cardinality(Y \intersect W) = 0
    <3>1. Cardinality({}) = 0
      BY FS_EmptySet
    <3> QED
      BY <2>1, <2>2, <3>1
  <2>5. Cardinality(Y) \in Nat /\ Cardinality(W) \in Nat
    BY <1>5, <2>2, FS_CardinalityType
  <2> QED
    <3>1. PICK k \in Nat, l \in Nat : k = Cardinality(Y) /\ l = Cardinality(W)
      BY <2>5
    <3>2. X = Y \union W
      BY <2>1, <2>2
    <3>3. Cardinality(X) = k + l - 0
      BY <2>3, <2>4, <3>1, <3>2
    <3>4. k + l - 0 = k + l
      BY <3>1
    <3> QED
      BY <2>2, <3>1, <3>3, <3>4
<1> QED
  BY <1>3, <1>6

\* Today's sales are those of the hours that are over, and of this one.
LEMMA TodayIs ==
    ASSUME SaleTypes, NEW view
    PROVE  LET today == B!StartOfDay(B!now)
           IN  B!RevenueOf(B!Closed(view, today, today + B!Day))
               = B!RevenueOf(B!Closed(view, today, B!now))
                 + B!RevenueOf(B!Closed(view, B!now, B!now + 1))
<1>1. PICK t \in Nat : t = B!now
  BY NowIs DEF SaleTypes
<1>2. PICK d : d = B!StartOfDay(t)
  OBVIOUS
<1>3. d \in Int /\ d <= t /\ t < d + 24
  BY <1>2 DEF B!StartOfDay, B!Day
<1>4. PICK X \in SUBSET Sales, Y \in SUBSET Sales, Z \in SUBSET Sales :
         /\ X = B!Closed(view, d, d + 24) /\ Y = B!Closed(view, d, t)
         /\ Z = B!Closed(view, t, t + 1)
  BY DEF B!Closed, B!There
<1>5. \A o \in B!There : B!ClosedAt(o) \in Int /\ B!ClosedAt(o) <= t
  BY <1>1, ClosedWhen
<1>6. Y \in SUBSET X /\ Z = X \ Y
  <2>1. \A o \in B!There : /\ d <= B!ClosedAt(o) /\ B!ClosedAt(o) < t =>
                                 B!ClosedAt(o) < d + 24
                           /\ t <= B!ClosedAt(o) <=> B!ClosedAt(o) = t
    BY <1>3, <1>5
  <2>2. \A o \in Sales : o \in X <=> /\ o \in B!There /\ B!Live(o) /\ B!Fits(o, view)
                                     /\ d <= B!ClosedAt(o) /\ B!ClosedAt(o) < d + 24
    BY <1>4 DEF B!Closed, B!In
  <2>3. \A o \in Sales : o \in Y <=> /\ o \in B!There /\ B!Live(o) /\ B!Fits(o, view)
                                     /\ d <= B!ClosedAt(o) /\ B!ClosedAt(o) < t
    BY <1>4 DEF B!Closed, B!In
  <2>4. \A o \in Sales : o \in Z <=> /\ o \in B!There /\ B!Live(o) /\ B!Fits(o, view)
                                     /\ t <= B!ClosedAt(o) /\ B!ClosedAt(o) < t + 1
    BY <1>4 DEF B!Closed, B!In
  <2>5. \A o \in Sales : o \in Y => o \in X
    BY <2>1, <2>2, <2>3
  <2>6. \A o \in Sales : o \in Z <=> o \in X /\ o \notin Y
    <3> TAKE o \in Sales
    <3>1. CASE o \in B!There /\ B!Live(o) /\ B!Fits(o, view)
      <4>1. PICK c \in Int : c = B!ClosedAt(o) /\ c <= t
        BY <1>5, <3>1
      <4> QED
        BY <1>1, <1>3, <2>2, <2>3, <2>4, <3>1, <4>1
    <3>2. CASE ~(o \in B!There /\ B!Live(o) /\ B!Fits(o, view))
      BY <2>2, <2>3, <2>4, <3>2
    <3> QED
      BY <3>1, <3>2
  <2> QED
    BY <2>5, <2>6
<1>7. SumFunctionOnSet(RevenueOfAll, X)
      = SumFunctionOnSet(RevenueOfAll, Y) + SumFunctionOnSet(RevenueOfAll, X \ Y)
  <2>1. \A o \in X : RevenueOfAll[o] \in Int
    BY WorthTyped DEF RevenueOfAll
  <2>2. IsFiniteSet(X)
    BY RevenueIs
  <2> QED
    BY <1>6, <2>1, <2>2, SumInParts
<1>8. B!RevenueOf(X) = B!RevenueOf(Y) + B!RevenueOf(Z)
  BY <1>6, <1>7, RevenueIs
<1> QED
  BY <1>1, <1>2, <1>4, <1>8 DEF B!Day

\* A part of the cells sums what the whole of them does of it.
LEMMA CellSumIs ==
    ASSUME NEW cells, CellsAre(cells), NEW f, f = [c \in DOMAIN cells |-> cells[c].revenue],
           NEW X \in SUBSET DOMAIN cells
    PROVE  B!CellSum(cells, X) = SumFunctionOnSet(f, X) /\ IsFiniteSet(X)
<1>1. PICK g : g = [c \in X |-> cells[c].revenue]
  OBVIOUS
<1>2. IsFiniteSet(X)
  BY FS_Subset DEF CellsAre
<1>3. \A c \in X : g[c] = f[c]
  BY <1>1
<1>4. SumFunctionOnSet(g, X) = SumFunctionOnSet(f, X)
  BY <1>2, <1>3, SumSame
<1>5. B!CellSum(cells, X) = SumFunctionOnSet(g, X)
  BY <1>1, SameSums DEF B!CellSum
<1> QED
  BY <1>2, <1>4, <1>5

\* Rows by a key of the cells add up to the total.
LEMMA RowsTotal ==
    ASSUME NEW cells, CellsAre(cells), NEW key, NEW K, IsFiniteSet(K),
           \A c \in DOMAIN cells : key[c] \in K, NEW rows, DOMAIN rows = K,
           \A k \in K : rows[k] = B!CellSum(cells, {c \in DOMAIN cells : key[c] = k})
    PROVE  B!CellSum(cells, DOMAIN cells) = B!SumFunction(rows)
<1>1. PICK f, X : f = [c \in DOMAIN cells |-> cells[c].revenue] /\ X = DOMAIN cells
  OBVIOUS
<1>2. IsFiniteSet(X) /\ \A c \in X : f[c] \in Int /\ key[c] \in K
  BY <1>1 DEF CellsAre
<1>3. \A k \in K : rows[k] = SumFunctionOnSet(f, {c \in X : key[c] = k})
  <2> TAKE k \in K
  <2>1. PICK Y \in SUBSET DOMAIN cells : Y = {c \in X : key[c] = k}
    BY <1>1
  <2>2. rows[k] = B!CellSum(cells, Y)
    BY <1>1, <2>1
  <2>3. B!CellSum(cells, Y) = SumFunctionOnSet(f, Y)
    BY <1>1, CellSumIs
  <2> QED
    BY <2>1, <2>2, <2>3
<1>4. SumFunctionOnSet(f, X) = SumFunctionOnSet(rows, K)
  BY <1>2, <1>3, SumByKey
<1>5. B!CellSum(cells, X) = SumFunctionOnSet(f, X)
  <2>1. X \in SUBSET DOMAIN cells
    BY <1>1
  <2> QED
    BY <1>1, <2>1, CellSumIs
<1>6. DOMAIN rows = K
  OBVIOUS
<1>7. B!SumFunction(rows) = SumFunctionOnSet(rows, K)
  BY <1>6, SameSums
<1> QED
  BY <1>1, <1>4, <1>5, <1>7

\* What an answer depends on.
LEMMA AnswerDepends ==
    \A v, w, q : v.of = w.of /\ v.period = w.period /\ v.view = w.view /\ v.at = w.at
                    => B!Answer(v, q) = B!Answer(w, q)
BY DEF B!Answer

\* A telling of a chart and of the chart before it is right, if the charts hold what the
\* figures do.
ChartsTrue(p, chart, prevChart, figure, prevFigure) ==
    (p.bucket = "month" => B!FirstOfMonth(p.from)) =>
        chart = figure /\ (Follows(p) => prevChart = prevFigure)

\* The overview's chart, results and funnel agree.
LEMMA OverviewAgrees ==
    ASSUME SaleTypes, NEW v, Known(v), v # B!Idle, v.of = "overview", Len(v.got) = 5,
           v.alone, NEW r, r = B!TellOverview(v)
    PROVE  /\ ChartsTrue(r.period, r.chart, r.prevChart, r.results.net, r.prevResults.net)
           /\ r.funnel.active = r.results.orders
           /\ r.funnel.total = r.results.orders + r.results.cancelled
<1>1. /\ v.period \in B!PeriodsOf(B!now) /\ v.period.from < v.period.to
      /\ \A i \in 1..5 : v.got[i] = B!Answer(v, B!QueriesOf["overview"][i])
  BY DEF Known
<1>2. /\ v.got[1] = B!Answer(v, "results") /\ v.got[2] = B!Answer(v, "prevResults")
      /\ v.got[3] = B!Answer(v, "funnel") /\ v.got[4] = B!Answer(v, "chart")
      /\ v.got[5] = B!Answer(v, "prevChart")
  BY <1>1 DEF B!QueriesOf
<1>3. PICK p, view : p = v.period /\ view = v.view
  OBVIOUS
<1>4. /\ r.period = p
      /\ r.results = B!Results(view, p.from, p.to)
      /\ r.prevResults = B!Results(view, p.prevFrom, p.prevTo)
      /\ r.funnel = B!Funnel(view, p.from, p.to)
      /\ r.chart = B!ChartOfPlaced(p, view, p.from, p.to)
      /\ r.prevChart = B!ChartOfPlaced(p, view, p.prevFrom, p.prevTo)
  BY <1>2, <1>3 DEF B!TellOverview, B!Answer
<1>5. ChartsTrue(p, r.chart, r.prevChart, r.results.net, r.prevResults.net)
  <2> SUFFICES ASSUME p.bucket = "month" => B!FirstOfMonth(p.from)
               PROVE  /\ r.chart = r.results.net
                      /\ Follows(p) => r.prevChart = r.prevResults.net
    BY DEF ChartsTrue
  <2>1. Covers(p, p.from, p.to) /\ (Follows(p) => Covers(p, p.prevFrom, p.prevTo))
    BY <1>1, <1>3, PeriodsCharted DEF SaleTypes
  <2>2. r.chart = r.results.net
    BY <1>4, <2>1, ChartHolds
  <2>3. Follows(p) => r.prevChart = r.prevResults.net
    BY <1>4, <2>1, ChartHolds
  <2> QED
    BY <2>2, <2>3
<1> QED
  BY <1>4, <1>5, FunnelCounts

\* The rows of the sales add up, whatever has gone on between the queries.
LEMMA RowsAgree ==
    ASSUME NEW v, Known(v), v # B!Idle, v.of = "sales", Len(v.got) = 6,
           NEW r, r = B!TellSales(v)
    PROVE  /\ r.total = r.online + r.pos
           /\ r.total = B!SumFunction(r.locations) /\ r.total = B!SumFunction(r.staff)
           /\ \A s \in Staff : r.rates[s].closed <= r.rates[s].total
<1>1. PICK cells, prev, rates : cells = v.got[1] /\ prev = v.got[2] /\ rates = v.got[3]
  OBVIOUS
<1>2. CellsAre(cells) /\ CellsAre(prev) /\ RatesAre(rates)
  BY <1>1 DEF Known
<1>3. PICK online : online = {c \in DOMAIN cells : c.channel # "pos"}
  OBVIOUS
<1>4. /\ r.total = B!CellSum(cells, DOMAIN cells)
      /\ r.online = B!CellSum(cells, online)
      /\ r.pos = B!CellSum(cells, DOMAIN cells \ online)
      /\ r.locations = B!LocationRows(cells, prev) /\ r.staff = B!StaffRows(cells, rates)
      /\ r.rates = rates
  BY <1>1, <1>3 DEF B!TellSales
<1>5. r.total = r.online + r.pos
  <2>1. PICK X \in SUBSET DOMAIN cells, Y \in SUBSET DOMAIN cells, Z \in SUBSET DOMAIN cells :
           X = DOMAIN cells /\ Y = online /\ Z = X \ Y
    BY <1>3
  <2>2. PICK f : f = [c \in DOMAIN cells |-> cells[c].revenue]
    OBVIOUS
  <2>3. /\ B!CellSum(cells, X) = SumFunctionOnSet(f, X) /\ IsFiniteSet(X)
        /\ B!CellSum(cells, Y) = SumFunctionOnSet(f, Y)
        /\ B!CellSum(cells, Z) = SumFunctionOnSet(f, Z)
    BY <1>2, <2>2, CellSumIs
  <2>4. \A c \in X : f[c] \in Int
    BY <1>2, <2>1, <2>2 DEF CellsAre
  <2>5. SumFunctionOnSet(f, X) = SumFunctionOnSet(f, Y) + SumFunctionOnSet(f, X \ Y)
    <3>1. Y \in SUBSET X
      BY <2>1
    <3> QED
      BY <2>3, <2>4, <3>1, SumInParts
  <2> QED
    BY <1>4, <2>1, <2>3, <2>5
<1>6. r.total = B!SumFunction(r.locations)
  <2>1. PICK X : X = DOMAIN cells \union DOMAIN prev
    OBVIOUS
  <2>2. PICK key : key = [c \in X |-> c.location]
    OBVIOUS
  <2>3. PICK K : K = {key[c] : c \in X}
    OBVIOUS
  <2>4. IsFiniteSet(K)
    <3>1. IsFiniteSet(X)
      BY <1>2, <2>1, FS_Union DEF CellsAre
    <3> QED
      BY <2>3, <3>1, KeysFinite
  <2>5. \A c \in DOMAIN cells : key[c] \in K /\ key[c] = c.location
    BY <2>1, <2>2, <2>3
  <2>6. K = {c.location : c \in DOMAIN cells \union DOMAIN prev}
    BY <2>1, <2>2, <2>3
  <2>7. r.locations = [k \in K |-> B!CellSum(cells, {c \in DOMAIN cells : c.location = k})]
    BY <1>4, <2>6 DEF B!LocationRows
  <2>8. \A k : {c \in DOMAIN cells : c.location = k} = {c \in DOMAIN cells : key[c] = k}
    BY <2>5
  <2>9. PICK rows : rows = r.locations
    OBVIOUS
  <2>10. /\ DOMAIN rows = K
         /\ \A k \in K : rows[k] = B!CellSum(cells, {c \in DOMAIN cells : key[c] = k})
    BY <2>7, <2>8, <2>9
  <2>11. B!CellSum(cells, DOMAIN cells) = B!SumFunction(rows)
    BY <1>2, <2>4, <2>5, <2>10, RowsTotal
  <2> QED
    BY <1>4, <2>9, <2>11
<1>7. r.total = B!SumFunction(r.staff)
  <2>1. PICK X : X = DOMAIN cells
    OBVIOUS
  <2>2. PICK key : key = [c \in X |-> c.staff]
    OBVIOUS
  <2>3. PICK J, more : J = {key[c] : c \in X} /\ more = {s \in Staff : rates[s].total > 0}
    OBVIOUS
  <2>4. PICK K : K = J \union more
    OBVIOUS
  <2>5. IsFiniteSet(K)
    <3>1. IsFiniteSet(J)
      BY <1>2, <2>1, <2>3, KeysFinite DEF CellsAre
    <3>2. IsFiniteSet(more)
      BY <2>3, SalesAssumed, FS_Subset
    <3> QED
      BY <2>4, <3>1, <3>2, FS_Union
  <2>6. \A c \in DOMAIN cells : key[c] \in K /\ key[c] = c.staff
    BY <2>1, <2>2, <2>3, <2>4
  <2>7. J = {c.staff : c \in DOMAIN cells}
    BY <2>1, <2>2, <2>3
  <2>8. r.staff = [k \in K |-> B!CellSum(cells, {c \in DOMAIN cells : c.staff = k})]
    BY <1>4, <2>3, <2>4, <2>7 DEF B!StaffRows
  <2>9. \A k : {c \in DOMAIN cells : c.staff = k} = {c \in DOMAIN cells : key[c] = k}
    BY <2>6
  <2>10. PICK rows : rows = r.staff
    OBVIOUS
  <2>11. /\ DOMAIN rows = K
         /\ \A k \in K : rows[k] = B!CellSum(cells, {c \in DOMAIN cells : key[c] = k})
    BY <2>8, <2>9, <2>10
  <2>12. B!CellSum(cells, DOMAIN cells) = B!SumFunction(rows)
    BY <1>2, <2>5, <2>6, <2>11, RowsTotal
  <2> QED
    BY <1>4, <2>10, <2>12
<1>8. \A s \in Staff : r.rates[s].closed <= r.rates[s].total
  BY <1>2, <1>4 DEF RatesAre
<1> QED
  BY <1>5, <1>6, <1>7, <1>8

\* The chart of the sales agrees with their total, and today's sales with those of the period
\* that is today.
LEMMA SalesAgree ==
    ASSUME SaleTypes, NEW v, Known(v), v # B!Idle, v.of = "sales", Len(v.got) = 6,
           v.alone, NEW r, r = B!TellSales(v)
    PROVE  /\ ChartsTrue(r.period, r.chart, r.prevChart, r.total, r.prevTotal)
           /\ r.period.range = "today" =>
                 r.today = r.total + B!RevenueOf(B!Closed(r.view, r.at, r.at + 1))
<1>1. /\ v.period \in B!PeriodsOf(B!now) /\ v.period.from < v.period.to /\ v.at = B!now
      /\ \A i \in 1..6 : v.got[i] = B!Answer(v, B!QueriesOf["sales"][i])
  BY DEF Known
<1>2. /\ v.got[1] = B!Answer(v, "cells") /\ v.got[2] = B!Answer(v, "prevCells")
      /\ v.got[4] = B!Answer(v, "chart") /\ v.got[5] = B!Answer(v, "prevChart")
      /\ v.got[6] = B!Answer(v, "today")
  BY <1>1 DEF B!QueriesOf
<1>3. PICK p, view : p = v.period /\ view = v.view
  OBVIOUS
<1>4. PICK cells, prev : /\ cells = B!Cells(view, p.from, p.to)
                         /\ prev = B!Cells(view, p.prevFrom, p.prevTo)
  OBVIOUS
<1>5. PICK today : today = B!StartOfDay(B!now)
  OBVIOUS
<1>6. /\ v.got[1] = cells /\ v.got[2] = prev
      /\ v.got[4] = B!ChartOfClosed(p, view, p.from, p.to)
      /\ v.got[5] = B!ChartOfClosed(p, view, p.prevFrom, p.prevTo)
      /\ v.got[6] = B!RevenueOf(B!Closed(view, today, today + B!Day))
  BY <1>1, <1>2, <1>3, <1>4, <1>5 DEF B!Answer
<1>7. /\ r.period = p /\ r.view = view /\ r.at = B!now
      /\ r.total = B!CellSum(cells, DOMAIN cells)
      /\ r.prevTotal = B!CellSum(prev, DOMAIN prev)
      /\ r.chart = v.got[4] /\ r.prevChart = v.got[5] /\ r.today = v.got[6]
  BY <1>1, <1>3, <1>6 DEF B!TellSales
<1>8. /\ r.total = B!RevenueOf(B!Closed(view, p.from, p.to))
      /\ r.prevTotal = B!RevenueOf(B!Closed(view, p.prevFrom, p.prevTo))
  BY <1>4, <1>7, CellsTotal
<1>9. ChartsTrue(p, r.chart, r.prevChart, r.total, r.prevTotal)
  <2> SUFFICES ASSUME p.bucket = "month" => B!FirstOfMonth(p.from)
               PROVE  r.chart = r.total /\ (Follows(p) => r.prevChart = r.prevTotal)
    BY DEF ChartsTrue
  <2>1. Covers(p, p.from, p.to) /\ (Follows(p) => Covers(p, p.prevFrom, p.prevTo))
    BY <1>1, <1>3, PeriodsCharted DEF SaleTypes
  <2>2. r.chart = r.total
    BY <1>6, <1>7, <1>8, <2>1, ChartHolds
  <2>3. Follows(p) => r.prevChart = r.prevTotal
    BY <1>6, <1>7, <1>8, <2>1, ChartHolds
  <2> QED
    BY <2>2, <2>3
<1>10. ASSUME p.range = "today"
       PROVE  r.today = r.total + B!RevenueOf(B!Closed(r.view, r.at, r.at + 1))
  <2>1. PICK t \in Nat : t = B!now
    BY NowIs DEF SaleTypes
  <2>2. p.from = today /\ p.to = t
    BY <1>1, <1>3, <1>5, <1>10, <2>1, PeriodsAre DEF Spans
  <2> QED
    BY <1>5, <1>6, <1>7, <1>8, <2>1, <2>2, TodayIs
<1> QED
  BY <1>7, <1>9, <1>10

\* What is told stays right while neither it nor the orders change.
LEMMA FiguresStay ==
    ASSUME SalesInv, sale' = sale, shown' = shown
    PROVE  (B!ChartsAddUp /\ B!RowsAddUp /\ B!BlocksAgree)'
<1>1. B!ChartsAddUp'
  BY DEF SalesInv, B!ChartsAddUp
<1>2. B!RowsAddUp'
  BY DEF SalesInv, B!RowsAddUp
<1>3. \A view, from, to : B!Closed(view, from, to)' = B!Closed(view, from, to)
  BY DEF B!Closed, B!There, B!Live, B!ClosedAt, B!In, B!Fits
<1>4. B!BlocksAgree'
  BY <1>3 DEF SalesInv, B!BlocksAgree
<1> QED
  BY <1>1, <1>2, <1>4

\* Nothing is told wrong of nothing.
LEMMA NothingShown ==
    shown' = B!Nothing => (B!ChartsAddUp /\ B!RowsAddUp /\ B!BlocksAgree)'
BY DEF B!ChartsAddUp, B!RowsAddUp, B!BlocksAgree, B!Nothing

\* The queries read what they did while the orders stay.
LEMMA AnswersStay ==
    ASSUME sale' = sale
    PROVE  \A v, q : B!Answer(v, q)' = B!Answer(v, q)
<1>1. \A view, from, to : /\ B!Closed(view, from, to)' = B!Closed(view, from, to)
                          /\ B!Placed(view, from, to)' = B!Placed(view, from, to)
  BY DEF B!Closed, B!Placed, B!There, B!Live, B!ClosedAt, B!In, B!Fits
<1>2. \A o : /\ B!Live(o)' <=> B!Live(o)
             /\ B!ClosedAt(o)' = B!ClosedAt(o)
  BY DEF B!Live, B!ClosedAt
<1>3. \A view, from, to : B!Results(view, from, to)' = B!Results(view, from, to)
  BY <1>1, <1>2 DEF B!Results
<1>4. \A view, from, to : B!Funnel(view, from, to)' = B!Funnel(view, from, to)
  BY <1>1, <1>2 DEF B!Funnel
<1>5. \A view, from, to : B!Cells(view, from, to)' = B!Cells(view, from, to)
  BY <1>1 DEF B!Cells
<1>6. \A view, from, to : B!Cohorts(view, from, to)' = B!Cohorts(view, from, to)
  BY <1>1, <1>2 DEF B!Cohorts
<1>7. \A p, view, from, to :
         /\ B!ChartOfPlaced(p, view, from, to)' = B!ChartOfPlaced(p, view, from, to)
         /\ B!ChartOfClosed(p, view, from, to)' = B!ChartOfClosed(p, view, from, to)
  BY <1>1, <1>2 DEF B!ChartOfPlaced, B!ChartOfClosed
<1> QED
  BY <1>1, <1>3, <1>4, <1>5, <1>6, <1>7 DEF B!Answer

\* A request knows what it did while the orders and the clock stay.
LEMMA KnownStays ==
    ASSUME sale' = sale, past' = past
    PROVE  \A v : Known(v) => Known(v)'
<1>1. B!now' = B!now
  BY DEF B!now
<1>2. \A v, q : B!Answer(v, q)' = B!Answer(v, q)
  BY AnswersStay
<1> QED
  BY <1>1, <1>2 DEF Known

\* In the beginning there is nothing to know.
LEMMA SalesBegin == B!Init => SalesInv
<1> SUFFICES ASSUME B!Init PROVE SalesInv
  OBVIOUS
<1>1. past = 1 /\ viewer = B!Idle /\ shown = B!Nothing /\ sale = [o \in Sales |-> B!None]
  BY DEF B!Init
<1>2. 1 \in DOMAIN Moments
  BY SalesAssumed
<1>3. SaleTypes
  BY <1>1, <1>2 DEF SaleTypes, B!There
<1>4. B!ChartsAddUp /\ B!RowsAddUp /\ B!BlocksAgree
  BY <1>1 DEF B!ChartsAddUp, B!RowsAddUp, B!BlocksAgree, B!Nothing
<1> QED
  BY <1>1, <1>3, <1>4 DEF SalesInv, Known

\* An order changes.
LEMMA SaleChanges ==
    ASSUME SalesInv, NEW o \in Sales, NEW new \in SaleRow, new.created <= B!now,
           new.confirmed <= B!now, B!Change(o, new)
    PROVE  SalesInv'
<1>1. /\ sale' = [sale EXCEPT ![o] = new] /\ past' = past /\ shown' = B!Nothing
      /\ viewer = B!Idle => viewer' = B!Idle
      /\ viewer # B!Idle => viewer' = [viewer EXCEPT !.alone = FALSE]
  BY DEF B!Change
<1>2. B!now' = B!now
  BY <1>1 DEF B!now
<1>3. SaleTypes'
  <2>1. past' \in DOMAIN Moments /\ sale' \in [Sales -> {B!None} \union SaleRow]
    BY <1>1 DEF SalesInv, SaleTypes
  <2>2. \A u \in Sales : sale'[u] # B!None =>
           sale'[u].created <= B!now /\ sale'[u].confirmed <= B!now
    <3> TAKE u \in Sales
    <3>1. CASE u = o
      <4>1. sale'[u] = new
        BY <1>1, <3>1 DEF SalesInv, SaleTypes
      <4> QED
        BY <4>1
    <3>2. CASE u # o
      <4>1. sale'[u] = sale[u]
        BY <1>1, <3>2 DEF SalesInv, SaleTypes
      <4> QED
        BY <4>1 DEF SalesInv, SaleTypes, B!There
    <3> QED
      BY <3>1, <3>2
  <2> QED
    BY <1>2, <2>1, <2>2 DEF SaleTypes, B!There
<1>4. \A v : v = viewer' => Known(v)'
  <2>1. CASE viewer = B!Idle
    BY <1>1, <2>1 DEF Known
  <2>2. CASE viewer # B!Idle
    <3>1. PICK w : w = viewer
      OBVIOUS
    <3>2. Known(w) /\ w # B!Idle
      BY <2>2, <3>1 DEF SalesInv
    <3>3. PICK v : v = [w EXCEPT !.alone = FALSE]
      OBVIOUS
    <3>4. w = [pc |-> "query", of |-> w.of, view |-> w.view, period |-> w.period,
               at |-> w.at, alone |-> w.alone, got |-> w.got]
      BY <3>2 DEF Known
    <3>5. v = [pc |-> "query", of |-> w.of, view |-> w.view, period |-> w.period,
               at |-> w.at, alone |-> FALSE, got |-> w.got]
      <4>1. PICK of, view, period, at, alone, got :
               w = [pc |-> "query", of |-> of, view |-> view, period |-> period,
                    at |-> at, alone |-> alone, got |-> got]
        BY <3>4
      <4>2. /\ of = w.of /\ view = w.view /\ period = w.period /\ at = w.at /\ got = w.got
        BY <4>1
      <4>3. v = [pc |-> "query", of |-> of, view |-> view, period |-> period,
                 at |-> at, alone |-> FALSE, got |-> got]
        BY <3>3, <4>1
      <4> QED
        BY <4>2, <4>3
    <3>6. /\ v.pc = "query" /\ v.of = w.of /\ v.view = w.view /\ v.period = w.period
          /\ v.at = w.at /\ v.alone = FALSE /\ v.got = w.got
      BY <3>5
    <3>7. Known(v)'
      <4>1. v = [pc |-> "query", of |-> v.of, view |-> v.view, period |-> v.period,
                 at |-> v.at, alone |-> v.alone, got |-> v.got]
        BY <3>5, <3>6
      <4>2. /\ v.of \in {"overview", "sales"} /\ v.alone \in BOOLEAN /\ v.at = B!now'
            /\ v.period \in B!PeriodsOf(B!now') /\ v.period.from < v.period.to
            /\ \E Any : v.got \in Seq(Any)
        BY <1>2, <3>2, <3>6 DEF Known
      <4>3. v.of = "sales" => /\ Len(v.got) >= 1 => CellsAre(v.got[1])
                              /\ Len(v.got) >= 2 => CellsAre(v.got[2])
                              /\ Len(v.got) >= 3 => RatesAre(v.got[3])
        BY <3>2, <3>6 DEF Known
      <4> QED
        BY <3>6, <4>1, <4>2, <4>3 DEF Known
    <3> QED
      BY <1>1, <2>2, <3>1, <3>3, <3>7
  <2> QED
    BY <2>1, <2>2
<1>5. (B!ChartsAddUp /\ B!RowsAddUp /\ B!BlocksAgree)'
  BY <1>1, NothingShown
<1> QED
  BY <1>3, <1>4, <1>5 DEF SalesInv

\* An order is drawn up, confirmed or cancelled.
LEMMA OrderStep ==
    ASSUME SalesInv, NEW o \in Sales, NEW at \in B!Range(Moments),
           B!Create(o, at) \/ B!Confirm(o) \/ B!Cancel(o)
    PROVE  SalesInv'
<1>1. PICK t \in Nat : t = B!now
  BY NowIs DEF SalesInv, SaleTypes
<1>2. at \in Nat
  <2>1. PICK i \in DOMAIN Moments : at = Moments[i]
    BY DEF B!Range
  <2> QED
    BY <2>1, SalesAssumed, ElementOfSeq
<1>3. CASE B!Create(o, at)
  <2>1. PICK new : new = [status |-> "open", created |-> at, confirmed |-> B!Never]
    OBVIOUS
  <2>2. at <= B!now /\ B!Change(o, new)
    BY <1>3, <2>1 DEF B!Create
  <2>3. new \in SaleRow /\ new.created <= B!now /\ new.confirmed <= B!now
    BY <1>1, <1>2, <2>1, <2>2 DEF SaleRow, B!Never
  <2> QED
    BY <2>2, <2>3, SaleChanges
<1>4. ASSUME B!Open(o)
      PROVE  sale[o] \in SaleRow /\ sale[o].created <= B!now /\ sale[o].confirmed <= B!now
  <2>1. sale[o] # B!None
    BY <1>4 DEF B!Open, B!None
  <2>2. o \in B!There
    BY <2>1 DEF B!There
  <2> QED
    BY <2>1, <2>2 DEF SalesInv, SaleTypes
<1>5. CASE B!Confirm(o)
  <2>1. PICK new : new = [sale[o] EXCEPT !.confirmed = B!now]
    OBVIOUS
  <2>2. B!Open(o) /\ B!Change(o, new)
    BY <1>5, <2>1 DEF B!Confirm
  <2>3. new \in SaleRow /\ new.created <= B!now /\ new.confirmed <= B!now
    <3>1. PICK was \in SaleRow : was = sale[o] /\ was.created <= t
      BY <1>1, <1>4, <2>2
    <3>2. new = [was EXCEPT !.confirmed = t]
      BY <1>1, <2>1, <3>1
    <3>3. new \in SaleRow /\ new.created = was.created /\ new.confirmed = t
      BY <3>2 DEF SaleRow
    <3> QED
      BY <1>1, <3>1, <3>3
  <2> QED
    BY <2>2, <2>3, SaleChanges
<1>6. CASE B!Cancel(o)
  <2>1. PICK new : new = [sale[o] EXCEPT !.status = "cancelled"]
    OBVIOUS
  <2>2. B!Open(o) /\ B!Change(o, new)
    BY <1>6, <2>1 DEF B!Cancel
  <2>3. new \in SaleRow /\ new.created <= B!now /\ new.confirmed <= B!now
    <3>1. PICK was \in SaleRow : was = sale[o] /\ was.created <= B!now /\ was.confirmed <= B!now
      BY <1>4, <2>2
    <3>2. new = [was EXCEPT !.status = "cancelled"]
      BY <2>1, <3>1
    <3>3. new \in SaleRow /\ new.created = was.created /\ new.confirmed = was.confirmed
      BY <3>2 DEF SaleRow
    <3> QED
      BY <3>1, <3>3
  <2> QED
    BY <2>2, <2>3, SaleChanges
<1> QED
  BY <1>3, <1>5, <1>6

\* Time passes.
LEMMA TimePasses == ASSUME SalesInv, B!Tick PROVE SalesInv'
<1>1. /\ viewer = B!Idle /\ viewer' = B!Idle /\ past < Len(Moments) /\ past' = past + 1
      /\ shown' = B!Nothing /\ sale' = sale
  BY DEF B!Tick
<1>2. PICK n \in Nat : n = Len(Moments) /\ DOMAIN Moments = 1..n
  BY SalesAssumed
<1>3. PICK i \in 1..n : i = past /\ i < n /\ i + 1 \in 1..n
  <2>1. past \in 1..n /\ past < n
    BY <1>1, <1>2 DEF SalesInv, SaleTypes
  <2> QED
    BY <2>1
<1>4. PICK t \in Nat, u \in Nat : t = Moments[i] /\ u = Moments[i + 1] /\ t < u
  <2>1. Moments[i] \in Nat /\ Moments[i + 1] \in Nat
    BY <1>2, <1>3, SalesAssumed, ElementOfSeq
  <2>2. Moments[(i + 1) - 1] < Moments[i + 1]
    BY <1>2, <1>3, SalesAssumed
  <2> QED
    BY <2>1, <2>2
<1>5. B!now = t /\ B!now' = u
  BY <1>1, <1>3, <1>4 DEF B!now
<1>6. SaleTypes'
  <2>1. past' \in DOMAIN Moments
    BY <1>1, <1>2, <1>3
  <2>2. \A o \in B!There : sale[o].created <= u /\ sale[o].confirmed <= u
    <3> TAKE o \in B!There
    <3>1. PICK c \in Int, d \in Int : c = sale[o].created /\ d = sale[o].confirmed
      BY DEF SalesInv, SaleTypes, SaleRow, B!There
    <3>2. c <= t /\ d <= t
      BY <1>5, <3>1 DEF SalesInv, SaleTypes
    <3> QED
      BY <1>4, <3>1, <3>2
  <2>3. B!There' = B!There
    BY <1>1 DEF B!There
  <2>4. sale' \in [Sales -> {B!None} \union SaleRow]
    BY <1>1 DEF SalesInv, SaleTypes
  <2>5. \A o \in B!There' : sale'[o].created <= B!now' /\ sale'[o].confirmed <= B!now'
    BY <1>1, <1>5, <2>2, <2>3
  <2> QED
    BY <2>1, <2>4, <2>5 DEF SaleTypes
<1> QED
  BY <1>1, <1>6, NothingShown DEF SalesInv, Known

\* A request begins.
LEMMA AskStep ==
    ASSUME SalesInv, NEW of \in DOMAIN B!QueriesOf, NEW view \in Views,
           NEW p \in B!PeriodsOf(B!now), B!Ask(of, view, p)
    PROVE  SalesInv'
<1>1. /\ p.from < p.to /\ shown' = B!Nothing /\ sale' = sale /\ past' = past
      /\ viewer' = [pc |-> "query", of |-> of, view |-> view, period |-> p, at |-> B!now,
                    alone |-> TRUE, got |-> <<>>]
  BY DEF B!Ask
<1>2. of \in {"overview", "sales"}
  BY DEF B!QueriesOf
<1>3. PICK v : v = [pc |-> "query", of |-> of, view |-> view, period |-> p, at |-> B!now,
                    alone |-> TRUE, got |-> <<>>]
  OBVIOUS
<1>4. Known(v)
  <2>1. /\ v.pc = "query" /\ v.of = of /\ v.view = view /\ v.period = p /\ v.at = B!now
        /\ v.alone = TRUE /\ v.got = <<>>
    BY <1>3
  <2>2. v = [pc |-> "query", of |-> v.of, view |-> v.view, period |-> v.period,
             at |-> v.at, alone |-> v.alone, got |-> v.got]
    BY <1>3, <2>1
  <2>3. Len(v.got) = 0 /\ \E Any : v.got \in Seq(Any)
    <3>1. <<>> \in Seq({}) /\ Len(<<>>) = 0
      OBVIOUS
    <3> QED
      BY <2>1, <3>1
  <2>4. /\ ~(Len(v.got) >= 1) /\ ~(Len(v.got) >= 2) /\ ~(Len(v.got) >= 3)
        /\ 1..Len(v.got) = {}
    BY <2>3
  <2>5. /\ v.of \in {"overview", "sales"} /\ v.alone \in BOOLEAN /\ v.at = B!now
        /\ v.period \in B!PeriodsOf(B!now) /\ v.period.from < v.period.to
    BY <1>1, <1>2, <2>1
  <2>6. \A i \in 1..Len(v.got) : v.got[i] = B!Answer(v, B!QueriesOf[v.of][i])
    BY <2>4
  <2> QED
    BY <2>2, <2>3, <2>4, <2>5, <2>6 DEF Known
<1>5. \A w : w = viewer' => Known(w)'
  BY <1>1, <1>3, <1>4, KnownStays
<1>6. SaleTypes'
  BY <1>1 DEF SalesInv, SaleTypes, B!There, B!now
<1> QED
  BY <1>1, <1>5, <1>6, NothingShown DEF SalesInv

\* One answer more.
LEMMA AnswerAdded ==
    ASSUME NEW Any, NEW s \in Seq(Any), NEW e
    PROVE  /\ \E More : Append(s, e) \in Seq(More)
           /\ Len(s) \in Nat /\ Len(Append(s, e)) = Len(s) + 1
           /\ \A i \in 1..Len(s) : Append(s, e)[i] = s[i]
           /\ Append(s, e)[Len(s) + 1] = e
<1>1. s \in Seq(Any \union {e}) /\ Len(s) \in Nat
  BY SeqMonotonic
<1> QED
  BY <1>1, AppendProperties

\* A query is answered.
LEMMA QueryStep == ASSUME SalesInv, B!Query PROVE SalesInv'
<1>1. PICK w : w = viewer
  OBVIOUS
<1>2. PICK n, a : n = Len(w.got) /\ a = B!Answer(w, B!QueriesOf[w.of][n + 1])
  OBVIOUS
<1>3. PICK g, v : g = Append(w.got, a) /\ v = [w EXCEPT !.got = g]
  OBVIOUS
<1>4. /\ w.pc = "query" /\ n < Len(B!QueriesOf[w.of]) /\ viewer' = v
      /\ sale' = sale /\ past' = past /\ shown' = shown
  BY <1>1, <1>2, <1>3 DEF B!Query
<1>5. Known(w) /\ w # B!Idle
  BY <1>1, <1>4 DEF SalesInv, B!Idle
<1>6. w = [pc |-> "query", of |-> w.of, view |-> w.view, period |-> w.period,
           at |-> w.at, alone |-> w.alone, got |-> w.got]
  BY <1>5 DEF Known
<1>7. v = [pc |-> "query", of |-> w.of, view |-> w.view, period |-> w.period,
           at |-> w.at, alone |-> w.alone, got |-> g]
  <2>1. PICK of, view, period, at, alone, got :
           w = [pc |-> "query", of |-> of, view |-> view, period |-> period,
                at |-> at, alone |-> alone, got |-> got]
    BY <1>6
  <2>2. /\ of = w.of /\ view = w.view /\ period = w.period /\ at = w.at /\ alone = w.alone
    BY <2>1
  <2>3. v = [pc |-> "query", of |-> of, view |-> view, period |-> period,
             at |-> at, alone |-> alone, got |-> g]
    BY <1>3, <2>1
  <2> QED
    BY <2>2, <2>3
<1>8. /\ v.pc = "query" /\ v.of = w.of /\ v.view = w.view /\ v.period = w.period
      /\ v.at = w.at /\ v.alone = w.alone /\ v.got = g
  BY <1>7
<1>9. /\ n \in Nat /\ Len(g) = n + 1 /\ g[n + 1] = a
      /\ \A i \in 1..n : g[i] = w.got[i]
      /\ \E More : g \in Seq(More)
  <2>1. PICK Any : w.got \in Seq(Any)
    BY <1>5 DEF Known
  <2>2. PICK s \in Seq(Any) : s = w.got
    BY <2>1
  <2>3. /\ Len(s) \in Nat /\ Len(Append(s, a)) = Len(s) + 1 /\ Append(s, a)[Len(s) + 1] = a
        /\ \A i \in 1..Len(s) : Append(s, a)[i] = s[i]
        /\ \E More : Append(s, a) \in Seq(More)
    BY AnswerAdded
  <2>4. g = Append(s, a) /\ n = Len(s)
    BY <1>2, <1>3, <2>2
  <2> QED
    BY <2>2, <2>3, <2>4
<1>10. Known(v)
  <2>1. v = [pc |-> "query", of |-> v.of, view |-> v.view, period |-> v.period,
             at |-> v.at, alone |-> v.alone, got |-> v.got]
    BY <1>7, <1>8
  <2>2. /\ v.of \in {"overview", "sales"} /\ v.alone \in BOOLEAN /\ v.at = B!now
        /\ v.period \in B!PeriodsOf(B!now) /\ v.period.from < v.period.to
        /\ \E Any : v.got \in Seq(Any)
    BY <1>5, <1>8, <1>9 DEF Known
  <2>3. ASSUME w.of = "sales"
        PROVE  /\ n + 1 >= 1 => CellsAre(g[1])
               /\ n + 1 >= 2 => CellsAre(g[2])
               /\ n + 1 >= 3 => RatesAre(g[3])
    <3>1. n = 0 => CellsAre(a)
      <4>1. n = 0 => a = B!Cells(w.view, w.period.from, w.period.to)
        BY <1>2, <2>3 DEF B!QueriesOf, B!Answer
      <4> QED
        BY <4>1, CellsTyped
    <3>2. n = 1 => CellsAre(a)
      <4>1. n = 1 => a = B!Cells(w.view, w.period.prevFrom, w.period.prevTo)
        BY <1>2, <2>3 DEF B!QueriesOf, B!Answer
      <4> QED
        BY <4>1, CellsTyped
    <3>3. n = 2 => RatesAre(a)
      <4>1. n = 2 => a = B!Cohorts(w.view, w.period.from, w.period.to)
        BY <1>2, <2>3 DEF B!QueriesOf, B!Answer
      <4> QED
        BY <4>1, RatesTyped
    <3>4. /\ n >= 1 => CellsAre(w.got[1])
          /\ n >= 2 => CellsAre(w.got[2])
          /\ n >= 3 => RatesAre(w.got[3])
      BY <1>2, <1>5, <2>3 DEF Known
    <3>5. n >= 1 => CellsAre(g[1])
      BY <1>9, <3>4
    <3>6. n >= 2 => CellsAre(g[2])
      BY <1>9, <3>4
    <3>7. n >= 3 => RatesAre(g[3])
      BY <1>9, <3>4
    <3> QED
      BY <1>9, <3>1, <3>2, <3>3, <3>5, <3>6, <3>7
  <2>4. ASSUME w.alone
        PROVE  \A i \in 1..n + 1 : g[i] = B!Answer(v, B!QueriesOf[w.of][i])
    <3> TAKE i \in 1..n + 1
    <3>1. B!Answer(v, B!QueriesOf[w.of][i]) = B!Answer(w, B!QueriesOf[w.of][i])
      BY <1>8, AnswerDepends
    <3>2. CASE i = n + 1
      BY <1>2, <1>9, <3>1, <3>2
    <3>3. CASE i # n + 1
      <4>1. i \in 1..n
        BY <1>9, <3>3
      <4>2. w.got[i] = B!Answer(w, B!QueriesOf[w.of][i])
        BY <1>2, <1>5, <2>4, <4>1 DEF Known
      <4> QED
        BY <1>9, <3>1, <4>1, <4>2
    <3> QED
      BY <3>2, <3>3
  <2> QED
    BY <1>8, <1>9, <2>1, <2>2, <2>3, <2>4 DEF Known
<1>11. \A u : u = viewer' => Known(u)'
  BY <1>4, <1>10, KnownStays
<1>12. SaleTypes'
  BY <1>4 DEF SalesInv, SaleTypes, B!There, B!now
<1> QED
  BY <1>4, <1>11, <1>12, FiguresStay DEF SalesInv

\* The dashboard is told.
LEMMA TellStep == ASSUME SalesInv, B!Tell PROVE SalesInv'
<1>1. PICK w : w = viewer
  OBVIOUS
<1>2. /\ w.pc = "query" /\ Len(w.got) = Len(B!QueriesOf[w.of]) /\ viewer' = B!Idle
      /\ sale' = sale /\ past' = past
      /\ shown' = IF w.of = "overview" THEN B!TellOverview(w) ELSE B!TellSales(w)
  BY <1>1 DEF B!Tell
<1>3. Known(w) /\ w # B!Idle
  BY <1>1, <1>2 DEF SalesInv, B!Idle
<1>4. PICK r : r = shown'
  OBVIOUS
<1>5. w.of \in {"overview", "sales"}
  BY <1>3 DEF Known
<1>6. SaleTypes /\ SaleTypes'
  BY <1>2 DEF SalesInv, SaleTypes, B!There, B!now
<1>7. \A v : v = viewer' => Known(v)'
  BY <1>2 DEF Known
<1>8. \A view, from, to : B!Closed(view, from, to)' = B!Closed(view, from, to)
  BY <1>2 DEF B!Closed, B!There, B!Live, B!ClosedAt, B!In, B!Fits
<1>9. CASE w.of = "overview"
  <2>1. r = B!TellOverview(w) /\ Len(w.got) = 5
    BY <1>2, <1>4, <1>9 DEF B!QueriesOf
  <2>2. r.of = "overview" /\ r.alone = w.alone
    BY <2>1 DEF B!TellOverview
  <2>3. w.alone =>
           /\ ChartsTrue(r.period, r.chart, r.prevChart, r.results.net, r.prevResults.net)
           /\ r.funnel.active = r.results.orders
           /\ r.funnel.total = r.results.orders + r.results.cancelled
    BY <1>3, <1>6, <1>9, <2>1, OverviewAgrees
  <2>4. B!ChartsAddUp'
    BY <1>4, <2>2, <2>3 DEF B!ChartsAddUp, ChartsTrue, Follows
  <2>5. B!RowsAddUp'
    BY <1>4, <2>2 DEF B!RowsAddUp
  <2>6. B!BlocksAgree'
    BY <1>4, <2>2, <2>3 DEF B!BlocksAgree
  <2> QED
    BY <1>6, <1>7, <2>4, <2>5, <2>6 DEF SalesInv
<1>10. CASE w.of = "sales"
  <2>1. r = B!TellSales(w) /\ Len(w.got) = 6
    BY <1>2, <1>4, <1>10 DEF B!QueriesOf
  <2>2. r.of = "sales" /\ r.alone = w.alone
    BY <2>1 DEF B!TellSales
  <2>3. w.alone =>
           /\ ChartsTrue(r.period, r.chart, r.prevChart, r.total, r.prevTotal)
           /\ r.period.range = "today" =>
                 r.today = r.total + B!RevenueOf(B!Closed(r.view, r.at, r.at + 1))
    BY <1>3, <1>6, <1>10, <2>1, SalesAgree
  <2>4. B!ChartsAddUp'
    BY <1>4, <2>2, <2>3 DEF B!ChartsAddUp, ChartsTrue, Follows
  <2>5. B!RowsAddUp'
    <3>1. /\ r.total = r.online + r.pos
          /\ r.total = B!SumFunction(r.locations) /\ r.total = B!SumFunction(r.staff)
          /\ \A s \in Staff : r.rates[s].closed <= r.rates[s].total
      BY <1>3, <1>10, <2>1, RowsAgree
    <3> QED
      BY <1>4, <2>2, <3>1 DEF B!RowsAddUp
  <2>6. B!BlocksAgree'
    BY <1>4, <1>8, <2>2, <2>3 DEF B!BlocksAgree
  <2> QED
    BY <1>6, <1>7, <2>4, <2>5, <2>6 DEF SalesInv
<1> QED
  BY <1>5, <1>9, <1>10

\* The inductive invariant of the dashboards of the sales.
LEMMA DashboardsKept == B!Spec => []SalesInv
<1>1. B!Init => SalesInv
  BY SalesBegin
<1>2. SalesInv /\ [B!Next]_(B!vars) => SalesInv'
  <2> SUFFICES ASSUME SalesInv, [B!Next]_(B!vars) PROVE SalesInv'
    OBVIOUS
  <2>1. ASSUME NEW o \in Sales,
               (\E at \in B!Range(Moments) : B!Create(o, at)) \/ B!Confirm(o) \/ B!Cancel(o)
        PROVE  SalesInv'
    <3>1. PICK at \in B!Range(Moments) : B!Create(o, at) \/ B!Confirm(o) \/ B!Cancel(o)
      <4>1. \E x : x \in B!Range(Moments)
        <5>1. Moments[past] \in B!Range(Moments)
          BY DEF SalesInv, SaleTypes, B!Range
        <5> QED
          BY <5>1
      <4> QED
        BY <2>1, <4>1
    <3> QED
      BY <3>1, OrderStep
  <2>2. CASE B!Tick
    BY <2>2, TimePasses
  <2>3. ASSUME NEW of \in DOMAIN B!QueriesOf, NEW view \in Views,
               NEW p \in B!PeriodsOf(B!now), B!Ask(of, view, p)
        PROVE  SalesInv'
    BY <2>3, AskStep
  <2>4. CASE B!Query
    BY <2>4, QueryStep
  <2>5. CASE B!Tell
    BY <2>5, TellStep
  <2>6. CASE UNCHANGED B!vars
    <3>1. sale' = sale /\ past' = past /\ viewer' = viewer /\ shown' = shown
      BY <2>6 DEF B!vars
    <3>2. \A v : v = viewer' => Known(v)'
      BY <3>1, KnownStays DEF SalesInv
    <3>3. SaleTypes'
      BY <3>1 DEF SalesInv, SaleTypes, B!There, B!now
    <3> QED
      BY <3>1, <3>2, <3>3, FiguresStay DEF SalesInv
  <2> QED
    BY <2>1, <2>2, <2>3, <2>4, <2>5, <2>6 DEF B!Next
<1> QED
  BY <1>1, <1>2, PTL DEF B!Spec

\* The dashboards of the sales: a period and the one it is compared with stay apart, a
\* chart sums to the figure above it, rows and channels to the total, and the blocks agree,
\* whatever is sold while they are asked for (SalesReports).
THEOREM DashboardsAddUp ==
    B!Spec => [](B!PeriodsApart /\ B!ChartsAddUp /\ B!RowsAddUp /\ B!BlocksAgree)
<1>1. SalesInv => B!PeriodsApart /\ B!ChartsAddUp /\ B!RowsAddUp /\ B!BlocksAgree
  BY PeriodsStayApart DEF SalesInv, SaleTypes
<1> QED
  BY <1>1, DashboardsKept, PTL

\* The clock stands at one of the moments, and no order is of the future.
LEMMA DashboardsTyped == SalesInv => B!TypeOK
BY DEF SalesInv, SaleTypes, B!TypeOK

-----------------------------------------------------------------------------
(* The types of the stocktakes, the sessions and the reconciliations.      *)

\* What is on a shelf was counted or has come and gone: there is no less than nothing.
Shelf == {l \in S!Level : l["on_hand"] \in Nat}
Lines == UNION {[some -> [system : Nat, counted : S!Counts]] : some \in SUBSET Shelved}
SheetRow == [status : {"none", "checking", "balanced", "cancelled"}, items : Lines,
             diff : Int, lines : Nat]
Figures == UNION {[some -> S!Counts] : some \in SUBSET Shelved}
Work == UNION {[some -> Shelf] : some \in SUBSET Shelved}
CountReq == [pc : {"read", "adjust"}, op : {"update", "cancel", "balance"}, s : Sheets,
             counted : Figures, work : Work,
             next : SUBSET Shelved, diff : Int, lines : Nat]

\* The lines that a request still has to adjust have been counted.
SheetTypes ==
    /\ sheet \in [Sheets -> SheetRow]
    /\ shelves \in [Shelved -> Shelf]
    /\ posted \in [Sheets -> [Shelved -> Int]]
    /\ counters \in CountersOverlap
    /\ counter \in [Reqs -> {S!NoReq} \union CountReq]
    /\ \A q \in Reqs : S!Active(q) =>
          \A v \in counter[q].next : v \in DOMAIN counter[q].counted
                                     /\ counter[q].counted[v] \in Nat

\* What is assumed of the shelves.
LEMMA ShelvesAssumed ==
    /\ Shelved \subseteq Nat /\ MaxStock \in Nat /\ OpeningLevels \in [Shelved -> Shelf]
BY OperationsAssumption DEF OperationsAssumption, S!StocktakeAssumption, Shelf

\* A request under way has all its fields.
LEMMA CountReqIs ==
    ASSUME SheetTypes, NEW q \in Reqs, S!Active(q)
    PROVE  counter[q] \in CountReq
BY DEF SheetTypes, S!Active, S!NoReq

\* The lines of a sheet as it is written.
LEMMA ItemsTyped ==
    ASSUME SheetTypes, NEW was \in Lines, NEW some \in SUBSET Shelved,
           NEW counted \in [some -> S!Counts]
    PROVE  S!Items(was, counted) \in Lines
<1>1. \A v \in some : (IF v \in DOMAIN was THEN was[v].system ELSE shelves[v]["on_hand"]) \in Nat
  <2> TAKE v \in some
  <2>1. v \in DOMAIN was => was[v].system \in Nat
    BY DEF Lines
  <2>2. shelves[v] \in Shelf
    BY DEF SheetTypes
  <2> QED
    BY <2>1, <2>2 DEF Shelf
<1>2. S!Items(was, counted) \in [some -> [system : Nat, counted : S!Counts]]
  BY <1>1 DEF S!Items
<1> QED
  BY <1>2 DEF Lines

\* A level is set to what was counted.
LEMMA SetTyped ==
    ASSUME NEW l \in Shelf, NEW v, NEW n \in Nat
    PROVE  S!AfterLine(l, S!Adjustment(v, n)) \in Shelf
BY DEF S!AfterLine, S!Adjustment, Shelf, S!Level, S!Buckets

\* A movement that is not refused leaves a shelf as one.
LEMMA ShelfMoved ==
    ASSUME NEW l \in Shelf, NEW b \in {"on_hand", "committed"}, NEW n \in Int, NEW type,
           S!Moved(l, S!Entry(b, n, type))[b] \in 0..MaxStock
    PROVE  S!Moved(l, S!Entry(b, n, type)) \in Shelf
BY ShelvesAssumed DEF S!Moved, S!Entry, S!SetBucketValue, Shelf, S!Level, S!Buckets

\* In the beginning.
LEMMA SheetsBegin == S!Init => SheetTypes
<1> SUFFICES ASSUME S!Init PROVE SheetTypes
  OBVIOUS
<1>1. S!NoSheet \in SheetRow
  <2>1. << >> \in [{} -> [system : Nat, counted : S!Counts]]
    OBVIOUS
  <2>2. << >> \in Lines
    BY <2>1 DEF Lines
  <2> QED
    BY <2>2 DEF S!NoSheet, SheetRow
<1>2. S!NoAdjustment \in [Shelved -> Int]
  BY DEF S!NoAdjustment
<1>3. \A q \in Reqs : ~S!Active(q)
  BY DEF S!Init, S!Active, S!NoReq
<1> QED
  BY <1>1, <1>2, <1>3, ShelvesAssumed DEF S!Init, SheetTypes

\* A sheet is written, by nobody's request.
LEMMA SheetMade == ASSUME SheetTypes, NEW s \in Sheets, S!Create(s) PROVE SheetTypes'
<1>1. PICK some, counted :
         /\ some \in SUBSET Shelved /\ counted \in [some -> S!Counts]
         /\ sheet' = [sheet EXCEPT ![s] = [S!NoSheet EXCEPT !.status = "checking",
                                               !.items = S!Items(<< >>, counted)]]
  BY DEF S!Create
<1>2. << >> \in Lines
  <2>1. << >> \in [{} -> [system : Nat, counted : S!Counts]]
    OBVIOUS
  <2> QED
    BY <2>1 DEF Lines
<1>3. PICK items \in Lines : items = S!Items(<< >>, counted)
  BY <1>1, <1>2, ItemsTyped
<1>4. [S!NoSheet EXCEPT !.status = "checking", !.items = items] \in SheetRow
  <2>1. S!NoSheet \in SheetRow
    BY <1>2 DEF S!NoSheet, SheetRow
  <2>2. PICK n \in SheetRow : n = S!NoSheet
    BY <2>1
  <2>3. [n EXCEPT !.status = "checking"] \in SheetRow
    BY DEF SheetRow
  <2>4. PICK k \in SheetRow : k = [n EXCEPT !.status = "checking"]
    BY <2>3
  <2>5. [k EXCEPT !.items = items] \in SheetRow
    BY DEF SheetRow
  <2> QED
    BY <2>2, <2>4, <2>5
<1>5. sheet' \in [Sheets -> SheetRow]
  BY <1>1, <1>3, <1>4 DEF SheetTypes
<1>6. UNCHANGED <<shelves, posted, counter, counters>>
  BY DEF S!Create
<1> QED
  BY <1>5, <1>6 DEF SheetTypes, S!Active

\* A request is as it was, or has its types.
LEMMA CounterStep ==
    ASSUME SheetTypes, NEW q \in Reqs, NEW r \in {S!NoReq} \union CountReq,
           counter' = [counter EXCEPT ![q] = r],
           r # S!NoReq => \A v \in r.next : v \in DOMAIN r.counted /\ r.counted[v] \in Nat,
           sheet' \in [Sheets -> SheetRow], shelves' \in [Shelved -> Shelf],
           posted' \in [Sheets -> [Shelved -> Int]], counters' = counters
    PROVE  SheetTypes'
<1>1. counter' \in [Reqs -> {S!NoReq} \union CountReq]
  BY DEF SheetTypes
<1>2. ASSUME NEW p \in Reqs, S!Active(p)'
      PROVE  \A v \in counter'[p].next : v \in DOMAIN counter'[p].counted
                                         /\ counter'[p].counted[v] \in Nat
  <2>1. CASE p = q
    <3>1. counter'[p] = r
      BY <2>1 DEF SheetTypes
    <3>2. r # S!NoReq
      BY <1>2, <3>1 DEF S!Active, S!NoReq
    <3> QED
      BY <3>1, <3>2
  <2>2. CASE p # q
    <3>1. counter'[p] = counter[p]
      BY <2>2 DEF SheetTypes
    <3>2. S!Active(p)
      BY <1>2, <3>1 DEF S!Active
    <3> QED
      BY <3>1, <3>2 DEF SheetTypes
  <2> QED
    BY <2>1, <2>2
<1> QED
  BY <1>1, <1>2 DEF SheetTypes

\* What the stocks, sheets and books are where only requests change.
LEMMA RestTyped ==
    ASSUME SheetTypes, UNCHANGED <<sheet, shelves, posted, counters>>
    PROVE  /\ sheet' \in [Sheets -> SheetRow] /\ shelves' \in [Shelved -> Shelf]
           /\ posted' \in [Sheets -> [Shelved -> Int]] /\ counters' = counters
BY DEF SheetTypes

\* A request begins.
LEMMA SheetRead ==
    ASSUME SheetTypes, NEW q \in Reqs, NEW s \in Sheets, S!Read(q, s) PROVE SheetTypes'
<1>1. UNCHANGED <<sheet, shelves, posted, counters>>
  BY DEF S!Read
<1>2. << >> \in [{} -> S!Counts] /\ << >> \in [{} -> Shelf]
  OBVIOUS
<1>3. << >> \in Figures /\ << >> \in Work
  BY <1>2 DEF Figures, Work
<1>4. ASSUME NEW some \in SUBSET Shelved, NEW counted \in [some -> S!Counts],
             counter' = [counter EXCEPT ![q] = [pc |-> "read", op |-> "update", s |-> s,
                                                counted |-> counted, work |-> << >>,
                                                next |-> {}, diff |-> 0, lines |-> 0]]
      PROVE  SheetTypes'
  <2>1. PICK r : r = [pc |-> "read", op |-> "update", s |-> s, counted |-> counted,
                      work |-> << >>, next |-> {}, diff |-> 0, lines |-> 0]
    OBVIOUS
  <2>2. counted \in Figures
    BY DEF Figures
  <2>3. r \in CountReq /\ r.next = {}
    BY <1>3, <2>1, <2>2 DEF CountReq
  <2>4. counter' = [counter EXCEPT ![q] = r]
    BY <1>4, <2>1
  <2> QED
    BY <1>1, <2>3, <2>4, RestTyped, CounterStep
<1>5. CASE counter' = [counter EXCEPT ![q] = [pc |-> "read", op |-> "cancel", s |-> s,
                                              counted |-> << >>, work |-> << >>,
                                              next |-> {}, diff |-> 0, lines |-> 0]]
  <2>1. PICK r : r = [pc |-> "read", op |-> "cancel", s |-> s, counted |-> << >>,
                      work |-> << >>, next |-> {}, diff |-> 0, lines |-> 0]
    OBVIOUS
  <2>2. r \in CountReq /\ r.next = {}
    BY <1>3, <2>1 DEF CountReq
  <2>3. counter' = [counter EXCEPT ![q] = r]
    BY <1>5, <2>1
  <2> QED
    BY <1>1, <2>2, <2>3, RestTyped, CounterStep
<1>6. ASSUME NEW counted,
             counted = {v \in DOMAIN sheet[s].items : sheet[s].items[v].counted # S!NotCounted},
             counter' = [counter EXCEPT ![q] =
                [pc |-> "read", op |-> "balance", s |-> s,
                 counted |-> [v \in counted |-> sheet[s].items[v].counted],
                 work |-> << >>, next |-> counted, diff |-> 0, lines |-> 0]]
      PROVE  SheetTypes'
  <2>1. PICK f : f = [v \in counted |-> sheet[s].items[v].counted]
    OBVIOUS
  <2>2. sheet[s].items \in Lines
    BY DEF SheetTypes, SheetRow
  <2>3. counted \in SUBSET Shelved
    BY <1>6, <2>2 DEF Lines
  <2>4. \A v \in counted : f[v] \in S!Counts /\ f[v] \in Nat
    <3> TAKE v \in counted
    <3>1. sheet[s].items[v].counted \in S!Counts /\ sheet[s].items[v].counted # S!NotCounted
      BY <1>6, <2>2 DEF Lines
    <3> QED
      BY <2>1, <3>1 DEF S!Counts, S!NotCounted
  <2>5. f \in [counted -> S!Counts]
    BY <2>1, <2>4
  <2>6. f \in Figures
    BY <2>3, <2>5 DEF Figures
  <2>7. PICK r : r = [pc |-> "read", op |-> "balance", s |-> s, counted |-> f,
                      work |-> << >>, next |-> counted, diff |-> 0, lines |-> 0]
    OBVIOUS
  <2>8. r \in CountReq /\ r.next = counted /\ r.counted = f
    BY <1>3, <2>3, <2>6, <2>7 DEF CountReq
  <2>9. \A v \in r.next : v \in DOMAIN r.counted /\ r.counted[v] \in Nat
    BY <2>4, <2>5, <2>8
  <2>10. counter' = [counter EXCEPT ![q] = r]
    BY <1>6, <2>1, <2>7
  <2> QED
    BY <1>1, <2>8, <2>9, <2>10, RestTyped, CounterStep
<1> QED
  BY <1>4, <1>5, <1>6 DEF S!Read

\* A request ends: what it wrote has its types.
LEMMA CountEnds ==
    ASSUME SheetTypes, NEW q \in Reqs, S!Done(q), sheet' \in [Sheets -> SheetRow],
           shelves' \in [Shelved -> Shelf], posted' \in [Sheets -> [Shelved -> Int]],
           counters' = counters
    PROVE  SheetTypes'
<1>1. PICK r : r = S!NoReq
  OBVIOUS
<1>2. counter' = [counter EXCEPT ![q] = r]
  BY <1>1 DEF S!Done
<1> QED
  BY <1>1, <1>2, CounterStep

\* A sheet is rewritten or given up.
LEMMA SheetChanged ==
    ASSUME SheetTypes, NEW q \in Reqs, S!Update(q) \/ S!Cancel(q) PROVE SheetTypes'
<1>1. S!Done(q) /\ UNCHANGED <<shelves, posted, counters>> /\ S!Active(q)
  BY DEF S!Update, S!Cancel, S!At, S!Active
<1>2. counter[q] \in CountReq
  BY <1>1, CountReqIs
<1>3. PICK s \in Sheets : s = counter[q].s
  BY <1>2 DEF CountReq
<1>4. PICK x \in SheetRow : x = sheet[s]
  BY DEF SheetTypes
<1>5. sheet' \in [Sheets -> SheetRow]
  <2>1. CASE S!Update(q)
    <3>1. PICK some, f : some \in SUBSET Shelved /\ f \in [some -> S!Counts]
                         /\ f = counter[q].counted
      BY <1>2 DEF CountReq, Figures
    <3>2. x.items \in Lines
      BY DEF SheetRow
    <3>3. S!Items(x.items, f) \in Lines
      BY <3>1, <3>2, ItemsTyped
    <3>4. PICK items \in Lines : items = S!Items(x.items, f)
      BY <3>3
    <3>5. sheet' = [sheet EXCEPT ![s] = [x EXCEPT !.items = items]]
      BY <1>3, <1>4, <2>1, <3>1, <3>4 DEF S!Update
    <3>6. [x EXCEPT !.items = items] \in SheetRow
      BY DEF SheetRow
    <3> QED
      BY <3>5, <3>6 DEF SheetTypes
  <2>2. CASE S!Cancel(q)
    <3>1. sheet' = [sheet EXCEPT ![s] = [x EXCEPT !.status = "cancelled"]]
      BY <1>3, <1>4, <2>2 DEF S!Cancel
    <3>2. [x EXCEPT !.status = "cancelled"] \in SheetRow
      BY DEF SheetRow
    <3> QED
      BY <3>1, <3>2 DEF SheetTypes
  <2> QED
    BY <2>1, <2>2
<1>6. shelves' \in [Shelved -> Shelf] /\ posted' \in [Sheets -> [Shelved -> Int]]
      /\ counters' = counters
  BY <1>1 DEF SheetTypes
<1> QED
  BY <1>1, <1>5, <1>6, CountEnds

\* A line's difference is read.
LEMMA LinePeeked ==
    ASSUME SheetTypes, NEW q \in Reqs, S!Active(q), NEW v \in S!Turn(q), S!Peek(q, v)
    PROVE  SheetTypes'
<1>1. PICK r \in CountReq : r = counter[q]
  BY CountReqIs
<1>2. v \in r.next /\ r.next \in SUBSET Shelved /\ v \in Shelved
  BY <1>1 DEF S!Turn, CountReq
<1>3. v \in DOMAIN r.counted /\ r.counted[v] \in Nat
        /\ \A w \in r.next : w \in DOMAIN r.counted /\ r.counted[w] \in Nat
  BY <1>1, <1>2 DEF SheetTypes
<1>4. shelves[v]["on_hand"] \in Nat
  BY <1>2 DEF SheetTypes, Shelf
<1>5. PICK diff \in Int : diff = r.counted[v] - shelves[v]["on_hand"]
  BY <1>3, <1>4
<1>6. PICK d \in Int, n \in Nat : d = r.diff + diff
                                  /\ n = IF diff = 0 THEN r.lines ELSE r.lines + 1
  BY DEF CountReq
<1>7. PICK u : u = [r EXCEPT !.pc = "adjust", !.diff = d, !.lines = n]
  OBVIOUS
<1>8. counter' = [counter EXCEPT ![q] = u]
  BY <1>1, <1>5, <1>6, <1>7 DEF S!Peek
<1>9. u \in CountReq /\ u.next = r.next /\ u.counted = r.counted
  BY <1>7 DEF CountReq
<1>10. UNCHANGED <<sheet, shelves, posted, counters>>
  BY DEF S!Peek
<1> QED
  BY <1>3, <1>8, <1>9, <1>10, RestTyped, CounterStep

\* A line is adjusted.
LEMMA LineAdjusted ==
    ASSUME SheetTypes, NEW q \in Reqs, S!Active(q), NEW v \in S!Turn(q), S!Adjust(q, v)
    PROVE  SheetTypes'
<1>1. PICK r \in CountReq : r = counter[q]
  BY CountReqIs
<1>2. v \in r.next /\ r.next \in SUBSET Shelved /\ v \in Shelved
  BY <1>1 DEF S!Turn, CountReq
<1>3. v \in DOMAIN r.counted /\ r.counted[v] \in Nat
        /\ \A w \in r.next : w \in DOMAIN r.counted /\ r.counted[w] \in Nat
  BY <1>1, <1>2 DEF SheetTypes
<1>4. PICK l \in Shelf : l = S!AfterLine(shelves[v], S!Adjustment(v, r.counted[v]))
  <2>1. shelves[v] \in Shelf
    BY <1>2 DEF SheetTypes
  <2> QED
    BY <1>3, <2>1, SetTyped
<1>5. PICK some, f : some \in SUBSET Shelved /\ f \in [some -> Shelf] /\ f = r.work
  BY DEF CountReq, Work
<1>6. PICK g : g = [w \in some \union {v} |-> IF w = v THEN l ELSE f[w]]
  OBVIOUS
<1>7. g \in Work
  <2>1. some \union {v} \in SUBSET Shelved /\ g \in [some \union {v} -> Shelf]
    BY <1>2, <1>5, <1>6
  <2> QED
    BY <2>1 DEF Work
<1>8. PICK left \in SUBSET Shelved : left = r.next \ {v}
  BY <1>2
<1>9. counter' = [counter EXCEPT ![q].pc = "read", ![q].next = left, ![q].work = g]
  BY <1>1, <1>4, <1>5, <1>6, <1>8 DEF S!Adjust
<1>10. PICK u : u = [r EXCEPT !.pc = "read", !.next = left, !.work = g]
  OBVIOUS
<1>11. counter' = [counter EXCEPT ![q] = u]
  BY <1>1, <1>9, <1>10 DEF SheetTypes
<1>12. u \in CountReq /\ u.next = left /\ u.counted = r.counted
  BY <1>7, <1>10 DEF CountReq
<1>13. UNCHANGED <<sheet, shelves, posted, counters>>
  BY DEF S!Adjust
<1>14. \A w \in u.next : w \in DOMAIN u.counted /\ u.counted[w] \in Nat
  BY <1>3, <1>8, <1>12
<1> QED
  BY <1>11, <1>12, <1>13, <1>14, RestTyped, CounterStep

\* A sheet is balanced.
LEMMA SheetBalanced == ASSUME SheetTypes, NEW q \in Reqs, S!Balanced(q) PROVE SheetTypes'
<1>1. S!Active(q) /\ S!Done(q) /\ counters' = counters
  BY DEF S!Balanced, S!At, S!Active
<1>2. PICK r \in CountReq : r = counter[q]
  BY <1>1, CountReqIs
<1>3. PICK some, f : some \in SUBSET Shelved /\ f \in [some -> Shelf] /\ f = r.work
  BY DEF CountReq, Work
<1>4. PICK s \in Sheets, d \in Int, n \in Nat : s = r.s /\ d = r.diff /\ n = r.lines
  BY DEF CountReq
<1>5. shelves' \in [Shelved -> Shelf]
  <2>1. shelves' = [v \in Shelved |-> IF v \in some THEN f[v] ELSE shelves[v]]
    BY <1>2, <1>3 DEF S!Balanced
  <2>2. \A v \in Shelved : (IF v \in some THEN f[v] ELSE shelves[v]) \in Shelf
    BY <1>3 DEF SheetTypes
  <2> QED
    BY <2>1, <2>2
<1>6. posted' \in [Sheets -> [Shelved -> Int]]
  <2>1. PICK p : p = [v \in Shelved |->
                        IF v \in some
                        THEN posted[s][v] + f[v]["on_hand"] - shelves[v]["on_hand"]
                        ELSE posted[s][v]]
    OBVIOUS
  <2>2. posted' = [posted EXCEPT ![s] = p]
    BY <1>2, <1>3, <1>4, <2>1 DEF S!Balanced, SheetTypes
  <2>3. \A v \in Shelved : p[v] \in Int
    <3> TAKE v \in Shelved
    <3>1. shelves[v] \in Shelf /\ (v \in some => f[v] \in Shelf) /\ posted[s][v] \in Int
      BY <1>3 DEF SheetTypes
    <3>2. shelves[v]["on_hand"] \in Int /\ (v \in some => f[v]["on_hand"] \in Int)
      BY <3>1 DEF Shelf
    <3> QED
      BY <2>1, <3>1, <3>2
  <2>4. p \in [Shelved -> Int]
    BY <2>1, <2>3
  <2> QED
    BY <2>2, <2>4 DEF SheetTypes
<1>7. sheet' \in [Sheets -> SheetRow]
  <2>1. PICK x \in SheetRow : x = sheet[s]
    BY DEF SheetTypes
  <2>2. sheet' = [sheet EXCEPT ![s].status = "balanced", ![s].diff = d, ![s].lines = n]
    BY <1>2, <1>4 DEF S!Balanced
  <2>3. PICK y : y = [x EXCEPT !.status = "balanced", !.diff = d, !.lines = n]
    OBVIOUS
  <2>4. sheet' = [sheet EXCEPT ![s] = y]
    BY <2>1, <2>2, <2>3 DEF SheetTypes
  <2>5. y \in SheetRow
    BY <2>3 DEF SheetRow
  <2> QED
    BY <2>4, <2>5 DEF SheetTypes
<1> QED
  BY <1>1, <1>5, <1>6, <1>7, CountEnds

\* Something else comes to the shelf or leaves it.
LEMMA ShelfChanged == ASSUME SheetTypes, NEW v \in Shelved, S!Others(v) PROVE SheetTypes'
<1>1. PICK l \in Shelf : l = shelves[v]
  BY DEF SheetTypes
<1>2. PICK b, n, type :
          /\ b \in {"on_hand", "committed"} /\ n \in Int
         /\ S!Moved(l, S!Entry(b, n, type))[b] \in 0..MaxStock
         /\ shelves' = [shelves EXCEPT ![v] = S!Moved(l, S!Entry(b, n, type))]
  <2>1. PICK m : /\ m \in {S!Entry("on_hand", 1, "receipt"), S!Entry("on_hand", -1, "transfer_out"),
                            S!Entry("committed", 1, "order_reserve"),
                            S!Entry("committed", -1, "order_release")}
                 /\ S!Moved(l, m)[m.bucket] \in 0..MaxStock
                 /\ shelves' = [shelves EXCEPT ![v] = S!Moved(l, m)]
    BY <1>1 DEF S!Others
  <2>2. PICK b, n, type : /\ b \in {"on_hand", "committed"} /\ n \in Int
                          /\ m = S!Entry(b, n, type)
    BY <2>1
  <2>3. m.bucket = b
    BY <2>2 DEF S!Entry
  <2> QED
    BY <2>1, <2>2, <2>3
<1>3. S!Moved(l, S!Entry(b, n, type)) \in Shelf
  BY <1>2, ShelfMoved
<1>4. shelves' \in [Shelved -> Shelf]
  BY <1>2, <1>3 DEF SheetTypes
<1> QED
  BY <1>4 DEF S!Others, SheetTypes, S!Active

\* The sheets, the stock and the requests keep their types.
LEMMA SheetsTyped == S!Spec => []S!TypeOK
<1>1. SheetTypes /\ [S!Next]_(S!vars) => SheetTypes'
  <2> SUFFICES ASSUME SheetTypes, [S!Next]_(S!vars) PROVE SheetTypes'
    OBVIOUS
  <2>1. ASSUME NEW s \in Sheets, S!Create(s) PROVE SheetTypes'
    BY <2>1, SheetMade
  <2>2. ASSUME NEW q \in Reqs, NEW s \in Sheets, S!Read(q, s) PROVE SheetTypes'
    BY <2>2, SheetRead
  <2>3. ASSUME NEW q \in Reqs, S!Update(q) \/ S!Cancel(q) \/ S!Balanced(q)
        PROVE  SheetTypes'
    BY <2>3, SheetChanged, SheetBalanced
  <2>4. ASSUME NEW q \in Reqs, S!Fail(q) PROVE SheetTypes'
    <3>1. S!Done(q) /\ UNCHANGED <<sheet, shelves, posted, counters>>
      BY <2>4 DEF S!Fail
    <3> QED
      BY <3>1, RestTyped, CountEnds
  <2>5. ASSUME NEW q \in Reqs, S!Active(q), NEW v \in S!Turn(q), S!Peek(q, v) \/ S!Adjust(q, v)
        PROVE  SheetTypes'
    BY <2>5, LinePeeked, LineAdjusted
  <2>6. ASSUME NEW v \in Shelved, S!Others(v) PROVE SheetTypes'
    BY <2>6, ShelfChanged
  <2>7. CASE UNCHANGED S!vars
    BY <2>7 DEF S!vars, SheetTypes, S!Active
  <2> QED
    BY <2>1, <2>2, <2>3, <2>4, <2>5, <2>6, <2>7 DEF S!Next
<1>2. SheetTypes => S!TypeOK
  BY DEF SheetTypes, SheetRow, Lines, Shelf, S!TypeOK
<1> QED
  BY <1>1, <1>2, SheetsBegin, PTL DEF S!Spec

-----------------------------------------------------------------------------
(* The types of the sessions and of the cache.                             *)

AnyToken == [used : {"no", "grace", "past"}, revoked : BOOLEAN]
TokenRows == UNION {[1..n -> AnyToken] : n \in 0..MaxTokens}
Exchange == {T!Idle} \union [pc : {"rotate", "issue", "answer"}, token : 0..MaxTokens]

\* The tokens and the requests to exchange them.
TokenTypes ==
    /\ losses \in Losses
    /\ row \in [Families -> TokenRows]
    /\ cookie \in [Families -> 0..MaxTokens]
    /\ tab \in [Families -> [Tabs -> Exchange]]
    /\ out \subseteq T!CacheKeys /\ locked \subseteq T!Owners

\* The cache has room for its entries because there is an oldest one to evict: of any of
\* them, one was put there before the others.
CacheTypes ==
    /\ cache \subseteq T!CacheKeys /\ old \subseteq cache
    /\ earlier \subseteq cache \X cache
    /\ IsFiniteSet(cache) /\ Cardinality(cache) <= MaxCached
    /\ \A some \in SUBSET cache : some # {} =>
          \E f \in some : \A g \in some \ {f} : <<f, g>> \in earlier

\* What is assumed of the bounds.
LEMMA TokensAssumed ==
    MaxTokens \in Nat \ {0} /\ MaxCached \in Nat \ {0}
BY OperationsAssumption DEF OperationsAssumption, T!SessionAssumption

\* One token of a family is written.
LEMMA TokenWritten ==
    ASSUME NEW s \in TokenRows, NEW i \in DOMAIN s, NEW e \in AnyToken
    PROVE  [s EXCEPT ![i] = e] \in TokenRows
<1>1. PICK n \in 0..MaxTokens : s \in [1..n -> AnyToken]
  BY DEF TokenRows
<1> HIDE DEF AnyToken
<1>2. [s EXCEPT ![i] = e] \in [1..n -> AnyToken]
  BY <1>1
<1> QED
  BY <1>2 DEF TokenRows

\* A family's tokens are revoked.
LEMMA TokensRevoked ==
    ASSUME TokenTypes, NEW f \in Families
    PROVE  T!RevokedRows(f) \in TokenRows
<1>1. row[f] \in TokenRows
  BY DEF TokenTypes
<1>2. PICK n \in 0..MaxTokens : row[f] \in [1..n -> AnyToken]
  BY <1>1 DEF TokenRows
<1>3. \A i \in 1..n : [row[f][i] EXCEPT !.revoked = TRUE] \in AnyToken
  BY <1>2 DEF AnyToken
<1>4. T!RevokedRows(f) \in [1..n -> AnyToken]
  <2> HIDE DEF AnyToken
  <2> QED
    BY <1>2, <1>3 DEF T!RevokedRows
<1> QED
  BY <1>4 DEF TokenRows

\* A family gets one more token.
LEMMA TokenAppended ==
    ASSUME NEW s \in TokenRows, Len(s) < MaxTokens
    PROVE  /\ Append(s, T!New) \in TokenRows
           /\ Len(s) + 1 \in 0..MaxTokens
<1>1. PICK n \in 0..MaxTokens : s \in [1..n -> AnyToken]
  BY DEF TokenRows
<1>2. T!New \in AnyToken
  BY DEF T!New, AnyToken
<1> HIDE DEF AnyToken
<1>3. s \in Seq(AnyToken) /\ Len(s) = n
  BY <1>1
<1>4. Append(s, T!New) \in [1..(n + 1) -> AnyToken]
  <2>1. Append(s, T!New) \in Seq(AnyToken) /\ Len(Append(s, T!New)) = n + 1
    BY <1>2, <1>3, AppendProperties
  <2> QED
    BY <2>1, LenProperties
<1>5. n + 1 \in 0..MaxTokens
  BY <1>3, TokensAssumed
<1> QED
  BY <1>3, <1>4, <1>5 DEF TokenRows

\* One family's tokens, cookie and requests are written.
LEMMA FamilyWritten ==
    ASSUME TokenTypes, NEW f \in Families, UNCHANGED <<losses, locked>>,
           NEW x \in TokenRows, NEW c \in 0..MaxTokens, NEW w \in [Tabs -> Exchange],
           row' = [row EXCEPT ![f] = x], cookie' = [cookie EXCEPT ![f] = c],
           tab' = [tab EXCEPT ![f] = w], out' \subseteq T!CacheKeys
    PROVE  TokenTypes'
<1> HIDE DEF TokenRows, Exchange
<1>1. row' \in [Families -> TokenRows]
  BY DEF TokenTypes
<1>2. cookie' \in [Families -> 0..MaxTokens]
  BY DEF TokenTypes
<1>3. tab' \in [Families -> [Tabs -> Exchange]]
  BY DEF TokenTypes
<1> QED
  BY <1>1, <1>2, <1>3 DEF TokenTypes

\* What a family has is typed.
LEMMA FamilyIs ==
    ASSUME TokenTypes, NEW f \in Families
    PROVE  /\ row[f] \in TokenRows /\ cookie[f] \in 0..MaxTokens
           /\ tab[f] \in [Tabs -> Exchange]
           /\ row = [row EXCEPT ![f] = row[f]] /\ cookie = [cookie EXCEPT ![f] = cookie[f]]
           /\ tab = [tab EXCEPT ![f] = tab[f]]
           /\ << >> \in TokenRows /\ 0 \in 0..MaxTokens /\ out \subseteq T!CacheKeys
<1> HIDE DEF TokenRows, Exchange
<1>1. << >> \in TokenRows
  <2>1. << >> \in [1..0 -> AnyToken] /\ 0 \in 0..MaxTokens
    BY TokensAssumed
  <2> QED
    BY <2>1 DEF TokenRows
<1>2. 0 \in 0..MaxTokens
  BY TokensAssumed
<1>3. row[f] \in TokenRows /\ cookie[f] \in 0..MaxTokens /\ tab[f] \in [Tabs -> Exchange]
  BY DEF TokenTypes
<1>4. /\ row = [row EXCEPT ![f] = row[f]] /\ cookie = [cookie EXCEPT ![f] = cookie[f]]
      /\ tab = [tab EXCEPT ![f] = tab[f]]
  BY DEF TokenTypes
<1> QED
  BY <1>1, <1>2, <1>3, <1>4 DEF TokenTypes

\* A tab's request is written.
LEMMA TabWritten ==
    ASSUME TokenTypes, NEW f \in Families, NEW t \in Tabs, NEW e \in Exchange
    PROVE  /\ [tab EXCEPT ![f][t] = e] = [tab EXCEPT ![f] = [tab[f] EXCEPT ![t] = e]]
           /\ [tab[f] EXCEPT ![t] = e] \in [Tabs -> Exchange]
<1> HIDE DEF Exchange
<1>1. tab[f] \in [Tabs -> Exchange]
  BY DEF TokenTypes
<1> QED
  BY <1>1

\* Every step of a family keeps the types of tokens and requests.
LEMMA TokenStep ==
    ASSUME TokenTypes, NEW f \in Families,
           \/ T!Login(f) \/ T!Logout(f) \/ T!Cleanup(f)
           \/ \E t \in Tabs : T!Send(f, t) \/ T!Refuse(f, t) \/ T!Use(f, t)
                              \/ T!Issue(f, t) \/ T!Answer(f, t)
           \/ \E i \in 1..MaxTokens : T!GraceEnds(f, i)
    PROVE  TokenTypes'
<1>0. /\ row[f] \in TokenRows /\ cookie[f] \in 0..MaxTokens /\ tab[f] \in [Tabs -> Exchange]
      /\ row = [row EXCEPT ![f] = row[f]] /\ cookie = [cookie EXCEPT ![f] = cookie[f]]
      /\ tab = [tab EXCEPT ![f] = tab[f]]
      /\ << >> \in TokenRows /\ 0 \in 0..MaxTokens /\ out \subseteq T!CacheKeys
  BY FamilyIs
<1>a. T!RevokedRows(f) \in TokenRows
  BY TokensRevoked
<1>b. T!Idle \in Exchange
  BY DEF Exchange
<1>1. CASE T!Login(f)
  <2>1. <<T!New>> \in TokenRows /\ 1 \in 0..MaxTokens
    <3>1. Len(<< >>) < MaxTokens /\ Append(<< >>, T!New) = <<T!New>>
      BY TokensAssumed
    <3>2. Append(<< >>, T!New) \in TokenRows
      BY <1>0, <3>1, TokenAppended
    <3> QED
      BY <3>1, <3>2, TokensAssumed
  <2>2. /\ row' = [row EXCEPT ![f] = <<T!New>>] /\ cookie' = [cookie EXCEPT ![f] = 1]
        /\ tab' = [tab EXCEPT ![f] = tab[f]] /\ UNCHANGED <<losses, locked>>
        /\ out' \subseteq T!CacheKeys
    BY <1>1, <1>0 DEF T!Login
  <2> HIDE DEF TokenRows, Exchange, T!New
  <2> QED
    BY <1>0, <2>1, <2>2, FamilyWritten
<1>2. CASE T!Logout(f)
  <2>1. /\ row' = [row EXCEPT ![f] = T!RevokedRows(f)] /\ cookie' = [cookie EXCEPT ![f] = 0]
        /\ tab' = [tab EXCEPT ![f] = tab[f]] /\ UNCHANGED <<losses, locked>>
        /\ out' \subseteq T!CacheKeys
    BY <1>2, <1>0 DEF T!Logout, T!Revoke, T!CacheKeys
  <2> HIDE DEF TokenRows, Exchange, T!RevokedRows
  <2> QED
    BY <1>0, <1>a, <2>1, FamilyWritten
<1>3. CASE T!Cleanup(f)
  <2>1. /\ row' = [row EXCEPT ![f] = << >>] /\ cookie' = [cookie EXCEPT ![f] = 0]
        /\ tab' = [tab EXCEPT ![f] = tab[f]] /\ UNCHANGED <<losses, locked>>
        /\ out' \subseteq T!CacheKeys
    BY <1>3, <1>0 DEF T!Cleanup
  <2> HIDE DEF TokenRows, Exchange
  <2> QED
    BY <1>0, <2>1, FamilyWritten
<1>4. ASSUME NEW t \in Tabs, T!Send(f, t) PROVE TokenTypes'
  <2>1. PICK e : e = [pc |-> "rotate", token |-> cookie[f]]
    OBVIOUS
  <2>2. e \in Exchange
    BY <1>0, <2>1 DEF Exchange
  <2>3. tab' = [tab EXCEPT ![f] = [tab[f] EXCEPT ![t] = e]]
    BY <1>4, <2>1, <2>2, TabWritten DEF T!Send
  <2>4. /\ row' = [row EXCEPT ![f] = row[f]] /\ cookie' = [cookie EXCEPT ![f] = cookie[f]]
        /\ UNCHANGED <<losses, locked>> /\ out' \subseteq T!CacheKeys
    BY <1>4, <1>0 DEF T!Send
  <2>5. [tab[f] EXCEPT ![t] = e] \in [Tabs -> Exchange]
    BY <2>2, TabWritten
  <2> HIDE DEF TokenRows, Exchange
  <2> QED
    BY <1>0, <2>3, <2>4, <2>5, FamilyWritten
<1>5. ASSUME NEW t \in Tabs, T!Refuse(f, t) PROVE TokenTypes'
  <2>1. tab' = [tab EXCEPT ![f] = [tab[f] EXCEPT ![t] = T!Idle]]
    BY <1>5, <1>b, TabWritten DEF T!Refuse
  <2>2. /\ row' = [row EXCEPT ![f] = T!RevokedRows(f)]
        /\ cookie' = [cookie EXCEPT ![f] = cookie[f]]
        /\ UNCHANGED <<losses, locked>> /\ out' \subseteq T!CacheKeys
    BY <1>5, <1>0 DEF T!Refuse, T!Revoke
  <2>3. [tab[f] EXCEPT ![t] = T!Idle] \in [Tabs -> Exchange]
    BY <1>b, TabWritten
  <2> HIDE DEF TokenRows, Exchange, T!RevokedRows, T!Idle
  <2> QED
    BY <1>0, <1>a, <2>1, <2>2, <2>3, FamilyWritten
<1>6. ASSUME NEW t \in Tabs, T!Use(f, t) PROVE TokenTypes'
  <2>1. PICK k : k = tab[f][t].token
    OBVIOUS
  <2>2. PICK x : x = [row[f] EXCEPT ![k].used = IF @ = "no" THEN "grace" ELSE @]
    OBVIOUS
  <2>3. row' = [row EXCEPT ![f] = x]
    BY <1>6, <2>1, <2>2 DEF T!Use
  <2>4. x \in TokenRows
    <3>1. CASE k \in DOMAIN row[f]
      <4>1. PICK e : e = [row[f][k] EXCEPT !.used = IF @ = "no" THEN "grace" ELSE @]
        OBVIOUS
      <4>2. PICK n \in 0..MaxTokens : row[f] \in [1..n -> AnyToken]
        BY <1>0 DEF TokenRows
      <4>3. row[f][k] \in AnyToken
        BY <3>1, <4>2
      <4>4. e \in AnyToken
        BY <4>1, <4>3 DEF AnyToken
      <4>5. x = [row[f] EXCEPT ![k] = e]
        BY <2>2, <4>1
      <4> HIDE DEF TokenRows, AnyToken
      <4> QED
        BY <1>0, <3>1, <4>4, <4>5, TokenWritten
    <3>2. CASE k \notin DOMAIN row[f]
      <4>1. PICK n \in 0..MaxTokens : row[f] \in [1..n -> AnyToken]
        BY <1>0 DEF TokenRows
      <4>2. x = row[f]
        <5> HIDE DEF AnyToken
        <5> QED
          BY <3>2, <4>1, <2>2
      <4> QED
        BY <4>2, <1>0
    <3> QED
      BY <3>1, <3>2
  <2>5. PICK e : e = [tab[f][t] EXCEPT !.pc = "issue"]
    OBVIOUS
  <2>6. e \in Exchange
    <3>1. tab[f][t] \in Exchange /\ tab[f][t].pc = "rotate"
      BY <1>0, <1>6 DEF T!Use
    <3>2. tab[f][t] \in [pc : {"rotate", "issue", "answer"}, token : 0..MaxTokens]
      BY <3>1 DEF Exchange, T!Idle
    <3> QED
      BY <3>2, <2>5 DEF Exchange
  <2>7. tab' = [tab EXCEPT ![f] = [tab[f] EXCEPT ![t] = e]]
    <3>1. tab' = [tab EXCEPT ![f] = [tab[f] EXCEPT ![t] = [tab[f][t] EXCEPT !.pc = "issue"]]]
      BY <1>6 DEF T!Use
    <3> QED
      BY <3>1, <2>5
  <2>8. /\ cookie' = [cookie EXCEPT ![f] = cookie[f]]
        /\ UNCHANGED <<losses, locked>> /\ out' \subseteq T!CacheKeys
    BY <1>6, <1>0 DEF T!Use
  <2>9. [tab[f] EXCEPT ![t] = e] \in [Tabs -> Exchange]
    BY <2>6, TabWritten
  <2> HIDE DEF TokenRows, Exchange
  <2> QED
    BY <1>0, <2>3, <2>4, <2>7, <2>8, <2>9, FamilyWritten
<1>7. ASSUME NEW t \in Tabs, T!Issue(f, t) PROVE TokenTypes'
  <2>1. PICK x : x = Append(row[f], T!New)
    OBVIOUS
  <2>2. PICK e : e = [pc |-> "answer", token |-> Len(row[f]) + 1]
    OBVIOUS
  <2>3. x \in TokenRows /\ Len(row[f]) + 1 \in 0..MaxTokens
    BY <1>7, <1>0, <2>1, TokenAppended DEF T!Issue
  <2>4. e \in Exchange
    BY <2>2, <2>3 DEF Exchange
  <2>5. row' = [row EXCEPT ![f] = x]
    BY <1>7, <2>1 DEF T!Issue
  <2>6. tab' = [tab EXCEPT ![f] = [tab[f] EXCEPT ![t] = e]]
    BY <1>7, <2>2, <2>4, TabWritten DEF T!Issue
  <2>7. /\ cookie' = [cookie EXCEPT ![f] = cookie[f]]
        /\ UNCHANGED <<losses, locked>> /\ out' \subseteq T!CacheKeys
    BY <1>7, <1>0 DEF T!Issue
  <2>8. [tab[f] EXCEPT ![t] = e] \in [Tabs -> Exchange]
    BY <2>4, TabWritten
  <2> HIDE DEF TokenRows, Exchange
  <2> QED
    BY <1>0, <2>3, <2>5, <2>6, <2>7, <2>8, FamilyWritten
<1>8. ASSUME NEW t \in Tabs, T!Answer(f, t) PROVE TokenTypes'
  <2>1. tab' = [tab EXCEPT ![f] = [tab[f] EXCEPT ![t] = T!Idle]]
    BY <1>8, <1>b, TabWritten DEF T!Answer
  <2>2. PICK c \in 0..MaxTokens : cookie' = [cookie EXCEPT ![f] = c]
    <3>1. tab[f][t].token \in 0..MaxTokens
      BY <1>8, <1>0 DEF T!Answer, Exchange, T!Idle
    <3> QED
      BY <1>8, <1>0, <3>1 DEF T!Answer
  <2>3. /\ row' = [row EXCEPT ![f] = row[f]]
        /\ UNCHANGED <<losses, locked>> /\ out' \subseteq T!CacheKeys
    BY <1>8, <1>0 DEF T!Answer
  <2>4. [tab[f] EXCEPT ![t] = T!Idle] \in [Tabs -> Exchange]
    BY <1>b, TabWritten
  <2> HIDE DEF TokenRows, Exchange, T!Idle
  <2> QED
    BY <1>0, <2>1, <2>2, <2>3, <2>4, FamilyWritten
<1>9. ASSUME NEW i \in 1..MaxTokens, T!GraceEnds(f, i) PROVE TokenTypes'
  <2>1. PICK x : x = [row[f] EXCEPT ![i].used = "past"]
    OBVIOUS
  <2>2. row' = [row EXCEPT ![f] = x]
    BY <1>9, <2>1 DEF T!GraceEnds
  <2>3. x \in TokenRows
    <3>1. i \in DOMAIN row[f]
      BY <1>9 DEF T!GraceEnds
    <3>2. PICK e : e = [row[f][i] EXCEPT !.used = "past"]
      OBVIOUS
    <3>3. PICK n \in 0..MaxTokens : row[f] \in [1..n -> AnyToken]
      BY <1>0 DEF TokenRows
    <3>4. row[f][i] \in AnyToken
      BY <3>1, <3>3
    <3>5. e \in AnyToken
      BY <3>2, <3>4 DEF AnyToken
    <3>6. x = [row[f] EXCEPT ![i] = e]
      BY <2>1, <3>2
    <3> HIDE DEF TokenRows, AnyToken
    <3> QED
      BY <1>0, <3>1, <3>5, <3>6, TokenWritten
  <2>4. /\ cookie' = [cookie EXCEPT ![f] = cookie[f]] /\ tab' = [tab EXCEPT ![f] = tab[f]]
        /\ UNCHANGED <<losses, locked>> /\ out' \subseteq T!CacheKeys
    BY <1>9, <1>0 DEF T!GraceEnds
  <2> HIDE DEF TokenRows, Exchange
  <2> QED
    BY <1>0, <2>2, <2>3, <2>4, FamilyWritten
<1> QED
  BY <1>1, <1>2, <1>3, <1>4, <1>5, <1>6, <1>7, <1>8, <1>9

\* Every step keeps the types of tokens and requests.
LEMMA TokensStep == TokenTypes /\ [T!Next]_(T!vars) => TokenTypes'
<1> SUFFICES ASSUME TokenTypes, [T!Next]_(T!vars) PROVE TokenTypes'
  OBVIOUS
<1>1. ASSUME NEW f \in T!CacheKeys, T!Resolve(f) \/ T!Age(f) PROVE TokenTypes'
  BY <1>1 DEF T!Resolve, T!Age, T!tokens, TokenTypes
<1>2. ASSUME NEW k \in ApiKeys, T!RevokeKey(k) PROVE TokenTypes'
  BY <1>2 DEF T!RevokeKey, TokenTypes, T!CacheKeys
<1>3. ASSUME NEW u \in T!Owners, T!Lock(u) PROVE TokenTypes'
  BY <1>3 DEF T!Lock, TokenTypes
<1>4. CASE UNCHANGED T!vars
  BY <1>4 DEF T!vars, T!tokens, TokenTypes
<1> QED
  BY <1>1, <1>2, <1>3, <1>4, TokenStep DEF T!Next

\* The cache loses entries: what is left of it has an oldest one still.
LEMMA CacheShrinks ==
    ASSUME CacheTypes, NEW keys, cache' = cache \ keys,
           earlier' = T!Among(cache \ keys), old' = old \ keys
    PROVE  CacheTypes'
<1>1. cache' \subseteq cache /\ earlier' = earlier \intersect (cache' \X cache')
  BY DEF T!Among
<1>2. IsFiniteSet(cache') /\ Cardinality(cache') <= MaxCached
  <2>1. IsFiniteSet(cache') /\ Cardinality(cache') <= Cardinality(cache)
    BY <1>1, FS_Subset DEF CacheTypes
  <2>2. Cardinality(cache) \in Nat /\ Cardinality(cache') \in Nat
    BY <2>1, FS_CardinalityType DEF CacheTypes
  <2> QED
    BY <2>1, <2>2, TokensAssumed DEF CacheTypes
<1>3. ASSUME NEW some \in SUBSET cache', some # {}
      PROVE  \E f \in some : \A g \in some \ {f} : <<f, g>> \in earlier'
  <2>1. PICK f \in some : \A g \in some \ {f} : <<f, g>> \in earlier
    BY <1>1, <1>3 DEF CacheTypes
  <2> QED
    BY <2>1, <1>1
<1>4. cache' \subseteq T!CacheKeys /\ old' \subseteq cache' /\ earlier' \subseteq cache' \X cache'
  BY <1>1 DEF CacheTypes
<1> QED
  BY <1>2, <1>3, <1>4 DEF CacheTypes

\* Whoever makes room makes enough: the cache is not full without an entry that can go.
LEMMA RoomIsMade ==
    ASSUME CacheTypes, Cardinality(cache) = MaxCached
    PROVE  \E g \in T!Evicted : g \in cache
<1>1. cache # {}
  BY TokensAssumed, FS_EmptySet
<1>2. \E f \in cache : \A g \in cache \ {f} : <<f, g>> \in earlier
  BY <1>1 DEF CacheTypes
<1>3. T!Oldest \in cache
  BY <1>2 DEF T!Oldest
<1>4. ~(T!Cardinality(cache) < MaxCached)
  <2>1. Cardinality(cache) = T!Cardinality(cache)
    BY DEF Cardinality, T!Cardinality
  <2> QED
    BY <2>1, TokensAssumed
<1> QED
  BY <1>3, <1>4 DEF T!Evicted

\* What is read of a user's rights is the newest entry of a cache that has room for it.
LEMMA ResolveFits ==
    ASSUME CacheTypes, NEW f \in T!CacheKeys, T!Resolve(f)
    PROVE  CacheTypes'
<1>1. PICK gone : gone = T!Evicted
  OBVIOUS
<1>2. PICK rest : rest = cache \ (gone \union {f})
  OBVIOUS
<1>3. /\ cache' = rest \union {f}
      /\ earlier' = (earlier \intersect (rest \X rest)) \union (rest \X {f})
      /\ old' = (old \ gone) \ {f}
  BY <1>1, <1>2 DEF T!Resolve, T!Among
<1>4. rest \subseteq cache /\ f \notin rest
  BY <1>2
<1>5. IsFiniteSet(rest) /\ Cardinality(rest) \in Nat /\ Cardinality(cache) \in Nat
      /\ Cardinality(rest) <= Cardinality(cache)
  BY <1>4, FS_Subset, FS_CardinalityType DEF CacheTypes
<1>6. Cardinality(rest) < MaxCached
  <2>1. CASE Cardinality(cache) < MaxCached
    BY <2>1, <1>5, TokensAssumed
  <2>2. CASE ~(Cardinality(cache) < MaxCached)
    <3>1. Cardinality(cache) = MaxCached
      BY <2>2, <1>5, TokensAssumed DEF CacheTypes
    <3>2. PICK g \in cache : g \in gone
      BY <3>1, <1>1, RoomIsMade
    <3>3. rest # cache
      BY <3>2, <1>2
    <3>4. Cardinality(rest) < Cardinality(cache)
      BY <3>3, <1>4, <1>5, FS_Subset DEF CacheTypes
    <3> QED
      BY <3>1, <3>4
  <2> QED
    BY <2>1, <2>2
<1>7. IsFiniteSet(cache') /\ Cardinality(cache') <= MaxCached
  <2>1. IsFiniteSet(cache') /\ Cardinality(cache') = Cardinality(rest) + 1
    BY <1>3, <1>4, <1>5, FS_AddElement
  <2> QED
    BY <2>1, <1>5, <1>6, TokensAssumed
<1>8. ASSUME NEW some \in SUBSET cache', some # {}
      PROVE  \E g \in some : \A h \in some \ {g} : <<g, h>> \in earlier'
  <2>1. CASE some \ {f} = {}
    BY <2>1, <1>8
  <2>2. CASE some \ {f} # {}
    <3>1. PICK other : other = some \ {f}
      OBVIOUS
    <3>2. other \subseteq rest /\ other # {}
      BY <3>1, <2>2, <1>3
    <3>3. PICK g \in other : \A h \in other \ {g} : <<g, h>> \in earlier
      BY <3>2, <1>4 DEF CacheTypes
    <3>4. \A h \in some \ {g} : <<g, h>> \in earlier'
      <4> TAKE h \in some \ {g}
      <4>1. CASE h = f
        BY <4>1, <3>2, <1>3
      <4>2. CASE h # f
        BY <4>2, <3>1, <3>2, <3>3, <1>3
      <4> QED
        BY <4>1, <4>2
    <3> QED
      BY <3>1, <3>4
  <2> QED
    BY <2>1, <2>2
<1>9. cache' \subseteq T!CacheKeys /\ old' \subseteq cache' /\ earlier' \subseteq cache' \X cache'
  BY <1>2, <1>3, <1>4 DEF CacheTypes
<1> QED
  BY <1>7, <1>8, <1>9 DEF CacheTypes

\* Every step keeps the types of the cache.
LEMMA CacheTypesStep == CacheTypes /\ [T!Next]_(T!vars) => CacheTypes'
<1> SUFFICES ASSUME CacheTypes, [T!Next]_(T!vars) PROVE CacheTypes'
  OBVIOUS
<1>1. ASSUME NEW keys, T!Drop(keys) PROVE CacheTypes'
  BY <1>1, CacheShrinks DEF T!Drop
<1>2. ASSUME NEW u, T!InvalidateUser(u) PROVE CacheTypes'
  BY <1>2, CacheShrinks DEF T!InvalidateUser
<1>3. ASSUME UNCHANGED T!entries PROVE CacheTypes'
  BY <1>3 DEF T!entries, CacheTypes
<1>4. ASSUME NEW f \in Families, T!Login(f) \/ T!Logout(f) \/ T!Cleanup(f) PROVE CacheTypes'
  BY <1>4, <1>1, <1>3 DEF T!Login, T!Logout, T!Cleanup, T!Revoke
<1>5. ASSUME NEW f \in Families, NEW t \in Tabs,
             T!Send(f, t) \/ T!Refuse(f, t) \/ T!Use(f, t) \/ T!Issue(f, t) \/ T!Answer(f, t)
      PROVE  CacheTypes'
  BY <1>5, <1>1, <1>3 DEF T!Send, T!Refuse, T!Use, T!Issue, T!Answer, T!Revoke
<1>6. ASSUME NEW f \in Families, NEW i \in 1..MaxTokens, T!GraceEnds(f, i) PROVE CacheTypes'
  BY <1>6, <1>3 DEF T!GraceEnds
<1>7. ASSUME NEW f \in T!CacheKeys, T!Resolve(f) PROVE CacheTypes'
  BY <1>7, ResolveFits
<1>8. ASSUME NEW f \in T!CacheKeys, T!Age(f) PROVE CacheTypes'
  BY <1>8 DEF T!Age, CacheTypes
<1>9. ASSUME NEW k \in ApiKeys, T!RevokeKey(k) PROVE CacheTypes'
  BY <1>9, <1>2 DEF T!RevokeKey
<1>10. ASSUME NEW u \in T!Owners, T!Lock(u) PROVE CacheTypes'
  BY <1>10, <1>2 DEF T!Lock
<1>11. CASE UNCHANGED T!vars
  BY <1>11, <1>3 DEF T!vars
<1> QED
  BY <1>4, <1>5, <1>6, <1>7, <1>8, <1>9, <1>10, <1>11 DEF T!Next

\* Tokens, requests and cache keep their types.
LEMMA TokensTyped == T!Spec => []T!TypeOK
<1>1. T!Init => TokenTypes
  <2> SUFFICES ASSUME T!Init PROVE TokenTypes
    OBVIOUS
  <2>1. << >> \in TokenRows /\ 0 \in 0..MaxTokens
    <3>1. << >> \in [1..0 -> AnyToken] /\ 0 \in 0..MaxTokens
      BY TokensAssumed
    <3> QED
      BY <3>1 DEF TokenRows
  <2>2. T!Idle \in Exchange
    BY DEF Exchange
  <2> HIDE DEF TokenRows, Exchange, T!Idle
  <2> QED
    BY <2>1, <2>2 DEF T!Init, TokenTypes
<1>2. T!Init => CacheTypes
  BY FS_EmptySet, TokensAssumed DEF T!Init, CacheTypes
<1>3. TokenTypes /\ CacheTypes => T!TypeOK
  <2> SUFFICES ASSUME TokenTypes, CacheTypes PROVE T!TypeOK
    OBVIOUS
  <2>1. ASSUME NEW f \in Families
        PROVE  /\ row[f] \in UNION {[1..n -> [used : {"no", "grace", "past"}, revoked : BOOLEAN]]
                                      : n \in 0..MaxTokens}
               /\ cookie[f] \in 0..MaxTokens
    BY DEF TokenTypes, TokenRows, AnyToken
  <2>2. ASSUME NEW f \in Families, NEW t \in Tabs
        PROVE  tab[f][t].pc \in {"idle", "rotate", "issue", "answer"}
    <3>1. tab[f][t] \in Exchange
      BY DEF TokenTypes
    <3> QED
      BY <3>1 DEF Exchange, T!Idle
  <2>3. Cardinality(cache) = T!Cardinality(cache)
    BY DEF Cardinality, T!Cardinality
  <2> QED
    BY <2>1, <2>2, <2>3 DEF T!TypeOK, TokenTypes, CacheTypes
<1> QED
  BY <1>1, <1>2, <1>3, TokensStep, CacheTypesStep, PTL DEF T!Spec

-----------------------------------------------------------------------------
(* Purchasing (PurchasingProofs) and the reconciliation of COD.            *)

PP == INSTANCE PurchasingProofs WITH
        Orders <- PurchaseOrders, Overlaps <- BuyersOverlap,
        level <- stock, req <- buyer, overlap <- buyers

\* What is proved of purchasing is said of the same steps.
LEMMA SamePurchases == P!Next <=> PP!Next
  BY DEF P!Moved, PP!Moved, P!SetBucketValue, PP!SetBucketValue, P!Refused,
         PP!Refused, P!RefusedNegative, PP!RefusedNegative, P!RefusedOversell,
         PP!RefusedOversell, P!WorsensAvailable, PP!WorsensAvailable,
         P!OrderLifecycleTypes, PP!OrderLifecycleTypes, P!ComputeAvailable,
         PP!ComputeAvailable, P!LevelsAfter, PP!LevelsAfter, P!AfterLine,
         PP!AfterLine, P!LinePasses, PP!LinePasses, P!Entry, PP!Entry, P!PostLine,
         PP!PostLine, P!docs, PP!docs, P!books, PP!books, P!vars, PP!vars, P!NoOrder,
         PP!NoOrder, P!NoReceipt, PP!NoReceipt, P!NoReturnOut, PP!NoReturnOut,
         P!NoReq, PP!NoReq, P!Least, PP!Least, P!Most, PP!Most, P!Active, PP!Active,
         P!MayStart, PP!MayStart, P!DraftOrder, PP!DraftOrder, P!Used, PP!Used,
         P!Quantities, PP!Quantities, P!DraftReceipt, PP!DraftReceipt, P!OutLine,
         PP!OutLine, P!ReturnGoods, PP!ReturnGoods, P!InUse, PP!InUse, P!Deactivate,
         PP!Deactivate, P!SetActive, PP!SetActive, P!Start, PP!Start, P!ReadOrder,
         PP!ReadOrder, P!ReadReceipt, PP!ReadReceipt, P!ReadReturn, PP!ReadReturn,
         P!ReadBatch, PP!ReadBatch, P!Remaining, PP!Remaining, P!BeginConfirm,
         PP!BeginConfirm, P!At, PP!At, P!Done, PP!Done, P!Post, PP!Post, P!Update,
         PP!Update, P!Submit, PP!Submit, P!Close, PP!Close, P!Discard, PP!Discard,
         P!DepositLeft, PP!DepositLeft, P!DepositApplied, PP!DepositApplied,
         P!PaymentOf, PP!PaymentOf, P!Completed, PP!Completed, P!Confirm, PP!Confirm,
         P!Drop, PP!Drop, P!AmountsOf, PP!AmountsOf, P!PayNothing, PP!PayNothing,
         P!Pay, PP!Pay, P!PayBatch, PP!PayBatch, P!ConfirmRefund, PP!ConfirmRefund,
         P!Fail, PP!Fail, P!Next, PP!Next, P!Cardinality, PP!Cardinality,
         P!SumFunction, PP!SumFunction, P!SumFunctionOnSet, PP!SumFunctionOnSet,
         P!FoldFunctionOnSet, PP!FoldFunctionOnSet, P!MapThenFoldSet,
         PP!MapThenFoldSet

\* Purchasing fares in the back office as it does by itself.
LEMMA PurchasesAsAlone == Spec => PP!Spec
<1>1. Init => PP!Init
  BY DEF Init, P!Init, PP!Init, P!NoOrder, PP!NoOrder, P!NoReceipt, PP!NoReceipt,
         P!NoReturnOut, PP!NoReturnOut, P!NoReq, PP!NoReq
<1>2. [Next]_vars => [PP!Next]_(PP!vars)
  BY SamePurchases DEF Next, vars, pVars, PP!vars, PP!docs, PP!books
<1> QED
  BY <1>1, <1>2, PTL DEF Spec, PP!Spec

\* Purchasing's properties, proved of the instance PP, are those of the area P.
LEMMA SameBooks == PP!IncomingMatchesOrders /\ PP!BooksAgree /\ PP!NeverOverpaid
                    => P!IncomingMatchesOrders /\ P!BooksAgree /\ P!NeverOverpaid
<1>1. P!IncomingMatchesOrders <=> PP!IncomingMatchesOrders
  BY DEF P!IncomingMatchesOrders, PP!IncomingMatchesOrders, P!Pending, PP!Pending,
         P!Remaining, PP!Remaining, P!Received, PP!Received, P!SumFunction,
         PP!SumFunction, P!SumFunctionOnSet, PP!SumFunctionOnSet, P!FoldFunctionOnSet,
         PP!FoldFunctionOnSet, P!MapThenFoldSet, PP!MapThenFoldSet
<1>2. P!BooksAgree <=> PP!BooksAgree
  BY DEF P!BooksAgree, PP!BooksAgree, P!Summary, PP!Summary, P!Received, PP!Received,
         P!Outstanding, PP!Outstanding, P!Unrefunded, PP!Unrefunded, P!Debts,
         PP!Debts, P!Cardinality, PP!Cardinality, P!SumFunction, PP!SumFunction,
         P!SumFunctionOnSet, PP!SumFunctionOnSet, P!FoldFunctionOnSet,
         PP!FoldFunctionOnSet, P!MapThenFoldSet, PP!MapThenFoldSet
<1>3. P!NeverOverpaid <=> PP!NeverOverpaid
  BY DEF P!NeverOverpaid, PP!NeverOverpaid, P!Received, PP!Received, P!Most, PP!Most
<1> QED
  BY <1>1, <1>2, <1>3

\* The constants given here are as Purchasing assumes them.
LEMMA BuyersAssumed == PP!PurchasingAssumption
  BY OperationsAssumption DEF OperationsAssumption, P!IsFiniteSet, PP!IsFiniteSet, P!PurchasingAssumption, PP!PurchasingAssumption, P!Level, PP!Level,
         P!Buckets, PP!Buckets

\* Reconciliation fares in the back office as it does by itself.
LEMMA CodAsAlone == Spec => D!Spec
<1>1. Init => D!Init
  BY DEF Init
<1>2. [Next]_vars => [D!Next]_(D!vars)
  BY DEF Next, vars, dVars, D!vars
<1> QED
  BY <1>1, <1>2, PTL DEF Spec, D!Spec

\* What reconciliations have paid in is part of what the order has taken in, and that is
\* not more than it costs.
CodInv ==
    /\ received \in Nat /\ collected \in Nat
    /\ collected <= received /\ received <= Total
    /\ \A q \in Reqs : cashier[q].n \in 0..Total
    /\ cashier \in [Reqs -> [pc : {"idle", "pay", "mark"}, n : 0..Total]]

\* The carrier's amount or what remains of the price, whichever is less.
LEMMA CollectTyped ==
    ASSUME D!CodAssumption, CodInv
    PROVE  D!Collect \in 0..Total
<1> DEFINE rest == Total - received
<1>1. Cod \in 0..Total /\ rest \in 0..Total
  BY DEF D!CodAssumption, CodInv
<1>2. \E x \in {Cod, rest} : \A y \in {Cod, rest} : x <= y
  BY <1>1
<1>3. D!Min({Cod, rest}) \in {Cod, rest}
  BY <1>2 DEF D!Min
<1> QED
  BY <1>1, <1>3 DEF D!Collect

\* Every step of the reconciliation keeps an order's money within its price.
LEMMA CodStep ==
    ASSUME D!CodAssumption, CodInv, [D!Next]_(D!vars)
    PROVE  CodInv'
<1>1. ASSUME NEW n \in 1..Total, D!PayDirectly(n) PROVE CodInv'
  BY <1>1 DEF D!PayDirectly, D!MayPay, CodInv, D!CodAssumption
<1>2. ASSUME NEW q \in Reqs, D!Read(q) PROVE CodInv'
  <2>1. D!Collect \in 0..Total
    BY CollectTyped
  <2>2. cashier' \in [Reqs -> [pc : {"idle", "pay", "mark"}, n : 0..Total]]
    BY <1>2, <2>1 DEF D!Read, CodInv
  <2> QED
    BY <1>2, <2>2 DEF D!Read, CodInv
<1>3. ASSUME NEW q \in Reqs, D!CollectCod(q) PROVE CodInv'
  <2>1. cashier' \in [Reqs -> [pc : {"idle", "pay", "mark"}, n : 0..Total]]
    BY <1>3 DEF D!CollectCod, CodInv
  <2>2. cashier[q].n \in 0..Total
    BY DEF CodInv
  <2> QED
    BY <1>3, <2>1, <2>2 DEF D!CollectCod, D!MayPay, CodInv, D!CodAssumption
<1>4. ASSUME NEW q \in Reqs, D!MarkReconciled(q) \/ D!Fail(q) PROVE CodInv'
  <2>1. D!Idle \in [pc : {"idle", "pay", "mark"}, n : 0..Total]
    BY DEF D!Idle, D!CodAssumption
  <2>2. cashier' \in [Reqs -> [pc : {"idle", "pay", "mark"}, n : 0..Total]]
    BY <1>4, <2>1 DEF D!MarkReconciled, D!Fail, CodInv
  <2> QED
    BY <1>4, <2>2 DEF D!MarkReconciled, D!Fail, CodInv
<1>5. CASE UNCHANGED D!vars
  BY <1>5 DEF D!vars, CodInv
<1> QED
  BY <1>1, <1>2, <1>3, <1>4, <1>5 DEF D!Next

\* CodReconciliationService beside payments over the counter: the order takes in no more
\* than it costs, whatever is cut off and made again, and a parcel that was to collect
\* everything does not collect more.
THEOREM CodStaysWithinOrder == D!Spec => []D!CodWithinOrder
<1>1. D!Init => CodInv
  BY OperationsAssumption DEF OperationsAssumption, D!CodAssumption, D!Init, D!Idle, CodInv
<1>2. CodInv /\ [D!Next]_(D!vars) => CodInv'
  BY CodStep, OperationsAssumption DEF OperationsAssumption
<1>3. CodInv => D!CodWithinOrder
  BY OperationsAssumption DEF OperationsAssumption, D!CodAssumption, CodInv, D!CodWithinOrder
<1> QED
  BY <1>1, <1>2, <1>3, PTL DEF D!Spec

\* In the back office: when nothing is received for closed orders, incoming stock, supplier
\* balance, receipts and vouchers agree, no receipt is overpaid and no order takes in more
\* than it costs.
THEOREM BooksAlwaysAgree == ASSUME FollowsFlow PROVE Spec => []BooksAgree
<1>1. PP!Spec => [](PP!IncomingMatchesOrders /\ PP!BooksAgree /\ PP!NeverOverpaid)
  BY BuyersAssumed, FollowsFlow, PP!SupplierBooksAgree
<1>2. PP!IncomingMatchesOrders /\ PP!BooksAgree /\ PP!NeverOverpaid /\ D!CodWithinOrder
        => BooksAgree
  BY SameBooks DEF BooksAgree
<1> QED
  BY PurchasesAsAlone, CodAsAlone, CodStaysWithinOrder, <1>1, <1>2, PTL

-----------------------------------------------------------------------------
(* All areas together.                                                     *)

\* Repeated requests to reconcile are counted.
CodMarks == reconciled \in BOOLEAN /\ made \in 0..Repeats

\* Reconciliations keep their types.
LEMMA CodTyped == D!Spec => []D!TypeOK
<1>1. D!Init => CodInv
  BY OperationsAssumption DEF OperationsAssumption, D!CodAssumption, D!Init, D!Idle, CodInv
<1>2. CodInv /\ [D!Next]_(D!vars) => CodInv'
  BY CodStep, OperationsAssumption DEF OperationsAssumption
<1>0. Repeats \in Nat
  BY OperationsAssumption DEF OperationsAssumption, D!CodAssumption
<1>3. D!Init => CodMarks
  <2>1. D!Init => reconciled \in BOOLEAN
    BY DEF D!Init
  <2>2. D!Init => made \in 0..Repeats
    BY <1>0 DEF D!Init
  <2> QED
    BY <2>1, <2>2 DEF CodMarks
<1>4. CodMarks /\ [D!Next]_(D!vars) => CodMarks'
  <2> SUFFICES ASSUME CodMarks, [D!Next]_(D!vars) PROVE CodMarks'
    OBVIOUS
  <2>1. reconciled' = reconciled \/ reconciled' = TRUE
    BY DEF D!Next, D!PayDirectly, D!Read, D!CollectCod, D!MarkReconciled, D!Fail, D!vars
  <2>2. made' = made \/ (made < Repeats /\ made' = made + 1)
    BY DEF D!Next, D!PayDirectly, D!Read, D!CollectCod, D!MarkReconciled, D!Fail, D!vars
  <2>3. reconciled' \in BOOLEAN
    BY <2>1 DEF CodMarks
  <2>4. made' \in 0..Repeats
    BY <1>0, <2>2 DEF CodMarks
  <2> QED
    BY <2>3, <2>4 DEF CodMarks
<1>5. CodInv /\ CodMarks => D!TypeOK
  BY DEF CodInv, CodMarks, D!TypeOK
<1> QED
  BY <1>1, <1>2, <1>3, <1>4, <1>5, PTL DEF D!Spec

\* The types of purchasing, proved of the instance PP, are those of the area P.
LEMMA SamePurchaseTypes == PP!TypeOK => P!TypeOK
BY DEF P!TypeOK, PP!TypeOK, P!Level, PP!Level, P!Buckets, PP!Buckets

\* In the back office documents, requests, levels, sessions, reports and codes keep their
\* types whatever is done: no two documents have one code, and the cache has no more
\* entries than AuthCacheService's MAX_ENTRIES.
THEOREM OperationsTyped == Spec => []TypesOK
<1>1. PP!Spec => []PP!TypeOK
  BY BuyersAssumed, PP!PurchasingTyped
<1>2. A!Spec => []A!TypeOK
  BY AdministratorRemains, PTL
<1>3. CodesInv => N!TypeOK
  BY CodesTyped
<1>4. ReportInv => R!TypeOK
  BY ReportsTyped
<1>5. SalesInv => B!TypeOK
  BY DashboardsTyped
<1>6. DebtInv => E!TypeOK
  BY DebtTyped
<1>7. /\ PP!TypeOK /\ S!TypeOK /\ D!TypeOK /\ A!TypeOK /\ T!TypeOK
      /\ R!TypeOK /\ B!TypeOK /\ N!TypeOK /\ E!TypeOK
      => TypesOK
  BY SamePurchaseTypes DEF TypesOK
<1> QED
  BY <1>1, <1>2, <1>3, <1>4, <1>5, <1>6, <1>7, PurchasesAsAlone, StocktakesAsAlone, CodAsAlone,
     AccountsAsAlone, SessionsAsAlone, StockReportsAsAlone, SalesAsAlone, CodesAsAlone,
     DebtsAsAlone, SheetsTyped, CodTyped, TokensTyped, CodesKept, ReportsKept, DashboardsKept,
     DebtKept, PTL

\* In the back office the reports of stock, the dashboards and the debt ledgers tell what
\* happened: whichever way a figure is found out it is the same, and what is told in parts
\* adds up to the whole (StockReports, SalesReports, DebtLedgers).
THEOREM ReportsAlwaysAgree == Spec => []ReportsAgree
<1>1. /\ R!BalancesTrue /\ R!MismatchesTrue /\ R!ImportsHold /\ R!BranchesAgree
      /\ B!PeriodsApart /\ B!ChartsAddUp /\ B!RowsAddUp /\ B!BlocksAgree
      /\ E!RunningBalancesTrue /\ E!PeriodsClose /\ E!PagesMeet
      => ReportsAgree
  BY DEF ReportsAgree
<1> QED
  BY <1>1, StockReportsAsAlone, SalesAsAlone, DebtsAsAlone, StockReportsTell, DashboardsAddUp,
     DebtLedgersTell, PTL
=============================================================================
