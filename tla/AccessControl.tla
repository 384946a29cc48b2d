---------------------------- MODULE AccessControl ----------------------------
(***************************************************************************)
(* Accounts, roles and what they permit: UserAdminService, RoleService and *)
(* InvitationService change them in two steps (a check, then the write),   *)
(* RbacService derives rights from them.  One custom role, "clerk", stands *)
(* for all; one permission of system scope, "sys", and one of location     *)
(* scope, "loc".                                                           *)
(***************************************************************************)
EXTENDS Integers, FiniteSets

CONSTANTS
    Users, First,   \* First: the administrator of the seed
    Locations,
    Reqs,
    MaxChanges,     \* bound: changes asked for
    Overlaps        \* whether requests run at the same time in this run's behaviours

\* The values of the constants, assumed by the module that instantiates this one.
AccessAssumption ==
    First \in Users /\ MaxChanges \in Nat /\ Overlaps \subseteq BOOLEAN

VARIABLES
    overlap,
    account,    \* users: status, active, whether a password is set
    invited,    \* users with an invitation that can be accepted
    roleAt,     \* user_location_roles
    lift,       \* user_permission_overrides for "loc"
    clerk,      \* the custom role: its permissions, whether it is active
    req,        \* administrators' requests
    changes

rules == <<account, invited, roleAt, lift, clerk>>
vars == <<overlap, rules, req, changes>>

Keys == {"sys", "loc"}
Scope == [sys |-> "system", loc |-> "location"]
Idle == [pc |-> "idle"]

-----------------------------------------------------------------------------
(* RbacService.                                                            *)

\* The permissions of a role; those of a role that is off do not count.
KeysOf(r) ==
    CASE r = "admin" -> Keys
      [] r = "clerk" /\ clerk.on -> clerk.keys
      [] OTHER -> {}

Member(u, l) == roleAt[u][l] = "admin" \/ (roleAt[u][l] = "clerk" /\ clerk.on)
IsAdmin(u) == \E l \in Locations : roleAt[u][l] = "admin"

OfScope(keys, s) == {k \in keys : Scope[k] = s}

Lifted(keys, u, l) ==
    CASE lift[u][l] = "grant" -> keys \union {"loc"}
      [] lift[u][l] = "revoke" -> keys \ {"loc"}
      [] OTHER -> keys

\* resolvePermissions
Rights(u) ==
    [admin |-> IsAdmin(u),
     sys |-> UNION {OfScope(KeysOf(roleAt[u][l]), "system") : l \in Locations},
     at |-> [l \in Locations |->
                Lifted(OfScope(KeysOf(roleAt[u][l]), "location"), u, l)]]

Active(u) == account[u].active /\ account[u].status # "inactive"

\* Mutant: a permission counts where its role is held only.
UsersWithAt(keys, l) ==
    {u \in Users : /\ account[u].active /\ account[u].status = "active"
                   /\ IsAdmin(u) \/ keys \subseteq Lifted(KeysOf(roleAt[u][l]), u, l)}

\* usersWithPermissions: who is told of something at location l.
UsersWith(keys, l) ==
    LET candidates == {u \in Users : /\ account[u].active
                                     /\ account[u].status = "active"
                                     /\ \E m \in Locations : Member(u, m)}
        held(u) ==
            LET ofRoles == UNION {IF m = l THEN KeysOf(roleAt[u][m])
                                  ELSE OfScope(KeysOf(roleAt[u][m]), "system")
                                    : m \in Locations}
            IN  Lifted(ofRoles, u, l)
    IN  {u \in candidates : IsAdmin(u) \/ keys \subseteq held(u)}

\* hasSystemPermission, hasLocationPermission
MayAt(rights, k, l) ==
    rights.admin \/ IF Scope[k] = "system" THEN k \in rights.sys ELSE k \in rights.at[l]

-----------------------------------------------------------------------------
(* UserAdminService, RoleService.                                          *)

HasOtherActiveAdmin(u) == \E v \in Users \ {u} : IsAdmin(v) /\ Active(v)

KeepsAtLeastOneAdmin(u, willRemain) ==
    willRemain \/ ~IsAdmin(u) \/ HasOtherActiveAdmin(u)

Init ==
    /\ overlap \in Overlaps
    /\ account = [u \in Users |->
                    IF u = First
                    THEN [status |-> "active", active |-> TRUE, password |-> TRUE]
                    ELSE [status |-> "invited", active |-> FALSE, password |-> FALSE]]
    /\ invited = Users \ {First}
    /\ roleAt \in {[u \in Users |-> [l \in Locations |->
                        IF u = First /\ l = m THEN "admin" ELSE "none"]] : m \in Locations}
    /\ lift = [u \in Users |-> [l \in Locations |-> "none"]]
    /\ clerk = [keys |-> {"loc"}, on |-> TRUE]
    /\ req = [q \in Reqs |-> Idle]
    /\ changes = 0

MayStart(q) ==
    /\ req[q].pc = "idle" /\ changes < MaxChanges
    /\ overlap \/ \A p \in Reqs : req[p].pc = "idle"

Ask(q, op) ==
    /\ MayStart(q)
    /\ req' = [req EXCEPT ![q] = [pc |-> "write", op |-> op]]
    /\ changes' = changes + 1
    /\ UNCHANGED <<overlap, rules>>

SetStatus(q, u, on) ==
    /\ ~on => KeepsAtLeastOneAdmin(u, FALSE)
    /\ Ask(q, [name |-> "status", u |-> u, on |-> on])

\* All of the user's roles anew; a location has one of them at most.
PutWarehouseRoles(q, u, roles) ==
    /\ KeepsAtLeastOneAdmin(u, \E l \in Locations : roles[l] = "admin")
    /\ Ask(q, [name |-> "roles", u |-> u, roles |-> roles])

RemoveWarehouseRole(q, u, l) ==
    /\ roleAt[u][l] = "admin" =>
         KeepsAtLeastOneAdmin(u, \E m \in Locations \ {l} : roleAt[u][m] = "admin")
    /\ Ask(q, [name |-> "remove", u |-> u, l |-> l])

\* What a user may do at a location beyond or short of the role held there; the
\* roles of the system have no exceptions.
UpdateWarehousePermissions(q, u, l, keep) ==
    /\ roleAt[u][l] = "clerk"
    /\ LET has == "loc" \in clerk.keys
       IN  Ask(q, [name |-> "lift", u |-> u, l |-> l,
                   lift |-> IF keep = has THEN "none" ELSE IF keep THEN "grant" ELSE "revoke"])

UpdateRole(q, keys, on) == Ask(q, [name |-> "role", keys |-> keys, on |-> on])

\* The write of a request that was found in order.
Write(q) ==
    /\ req[q].pc = "write"
    /\ LET op == req[q].op IN
       /\ account' = IF op.name = "status"
            THEN [account EXCEPT
                    ![op.u].active = op.on,
                    ![op.u].status = IF ~op.on THEN "inactive"
                                     ELSE IF account[op.u].password THEN "active"
                                     ELSE "invited"]
            ELSE account
       /\ roleAt' =
            CASE op.name = "roles" -> [roleAt EXCEPT ![op.u] = op.roles]
              [] op.name = "remove" -> [roleAt EXCEPT ![op.u][op.l] = "none"]
              [] OTHER -> roleAt
       /\ lift' = IF op.name = "lift" THEN [lift EXCEPT ![op.u][op.l] = op.lift] ELSE lift
       /\ clerk' = IF op.name = "role" THEN [keys |-> op.keys, on |-> op.on] ELSE clerk
    /\ req' = [req EXCEPT ![q] = Idle]
    /\ UNCHANGED <<overlap, invited, changes>>

\* The invitation is accepted, whatever has become of the account.
Accept(u) ==
    /\ u \in invited
    /\ account' = [account EXCEPT ![u] = [status |-> "active", active |-> TRUE, password |-> TRUE]]
    /\ invited' = invited \ {u}
    /\ UNCHANGED <<overlap, roleAt, lift, clerk, req, changes>>

Next ==
    \/ \E q \in Reqs :
        \/ \E u \in Users :
            \/ \E on \in BOOLEAN : SetStatus(q, u, on)
            \/ \E roles \in [Locations -> {"none", "admin", "clerk"}] :
                 PutWarehouseRoles(q, u, roles)
            \/ \E l \in Locations :
                 \/ RemoveWarehouseRole(q, u, l)
                 \/ \E keep \in BOOLEAN : UpdateWarehousePermissions(q, u, l, keep)
        \/ \E keys \in SUBSET Keys, on \in BOOLEAN : UpdateRole(q, keys, on)
        \/ Write(q)
    \/ \E u \in Users : Accept(u)

Spec == Init /\ [][Next]_vars

-----------------------------------------------------------------------------
\* The types of accounts, roles, and requests.
TypeOK ==
    /\ overlap \in Overlaps /\ changes \in 0..MaxChanges
    /\ account \in [Users -> [status : {"invited", "active", "inactive"},
                              active : BOOLEAN, password : BOOLEAN]]
    /\ invited \subseteq Users
    /\ roleAt \in [Users -> [Locations -> {"none", "admin", "clerk"}]]
    /\ lift \in [Users -> [Locations -> {"none", "grant", "revoke"}]]
    /\ clerk \in [keys : SUBSET Keys, on : BOOLEAN]
    /\ \A q \in Reqs : req[q].pc \in {"idle", "write"}

\* Requests that follow one another leave an administrator whose account is on
\* (assertKeepsAtLeastOneAdmin).
AdminRemains == ~overlap => \E u \in Users : IsAdmin(u) /\ Active(u)

\* Who is told of something at a location are the members of active roles who may
\* do it there: usersWithPermissions is the inverse of resolvePermissions.
FanOutMatchesRights ==
    \A l \in Locations, keys \in (SUBSET Keys) \ {{}} :
        UsersWith(keys, l) =
            {u \in Users : /\ account[u].active /\ account[u].status = "active"
                           /\ \E m \in Locations : Member(u, m)
                           /\ \A k \in keys : MayAt(Rights(u), k, l)}

\* The comment of hasOtherActiveAdmin: the administrator who remains can log in.
AdminCanLogIn ==
    ~overlap => \E u \in Users : IsAdmin(u) /\ Active(u) /\ account[u].password
=============================================================================
