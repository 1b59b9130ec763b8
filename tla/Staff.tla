-------------------------------- MODULE Staff --------------------------------
(***************************************************************************)
(* Staff accounts: who may create, change, suspend or delete whom, which   *)
(* capabilities one account may hand to another, and the cached resolution *)
(* of roles and permissions that guards read (EmployeeService, core.rbac,  *)
(* get_user_roles_and_permissions, AuthService.register_admin).            *)
(*                                                                         *)
(* A request is admitted with the actor's row and its grants, from the     *)
(* cache or else from the database; it then reads its target, commits the  *)
(* columns it changed, and drops the target's cache entry after that.      *)
(* Grants are kept as they were given and expanded when they are resolved, *)
(* from legacy codes to capabilities and from these to what they imply.    *)
(* Self-service keys, profiles, departments and reviews are left out.      *)
(***************************************************************************)
EXTENDS Integers, FiniteSets

CONSTANTS
  Accounts, NoAccount,
  Perms,            \* capabilities and legacy codes
  CapabilityOf,     \* LEGACY_TO_CAPABILITY, a code of neither kind mapped to itself
  Implies,          \* CAPABILITY_IMPLIES, nothing for a legacy code
  AdminOnly,        \* ADMIN_ONLY_CAPABILITIES
  BusinessRoles,
  RoleGrants,       \* BUILT_IN_ROLES: what a role row brings
  ManagePeople,     \* the capability behind employees.create, edit, suspend, delete
  ManageSecurity,   \* ... and behind employees.managePermissions
  Requests,         \* the sets of capabilities a form may ask for
  RoleForms,        \* the business roles, one or none, a form may ask for
  StatusForms,      \* the statuses a form may ask for
  Reqs,
  MaxChanges        \* bound: the commits of a behaviour

Roles == BusinessRoles \cup {"SUPER_ADMIN", "ADMIN"}

ASSUME PermsAssumption ==
  /\ CapabilityOf \in [Perms -> Perms] /\ Implies \in [Perms -> SUBSET Perms]
  /\ AdminOnly \subseteq Perms /\ ManagePeople \in Perms /\ ManageSecurity \in Perms
  /\ Requests \subseteq SUBSET Perms /\ RoleForms \subseteq SUBSET BusinessRoles
  /\ StatusForms \subseteq {"ACTIVE", "SUSPENDED", "INACTIVE", "DEACTIVATED"}

\* expand_effective_permissions, of each code.
Expansion == [code \in Perms |->
  {code, CapabilityOf[code]} \cup Implies[code] \cup Implies[CapabilityOf[code]]]
Expand(codes) == UNION {Expansion[code] : code \in codes}

ASSUME RolesAssumption ==
  /\ RoleGrants \in [Roles -> SUBSET Perms]
  /\ BusinessRoles \cap {"SUPER_ADMIN", "ADMIN"} = {}
  /\ \A role \in BusinessRoles : Expand(RoleGrants[role]) \cap AdminOnly = {}
ASSUME NamesAssumption == NoAccount \notin Accounts /\ MaxChanges \in Nat

VARIABLES
  acct,      \* users and their user_roles
  cache,     \* rbac:{user_id}
  req,       \* requests in flight
  wasAdmin,  \* accounts that have been ADMIN or SUPER_ADMIN
  byOwner,   \* capabilities handed out under the top-level override
  changes    \* commits so far

vars == <<acct, cache, req, wasAdmin, byOwner, changes>>

-----------------------------------------------------------------------------
(* core.rbac.                                                              *)

Levels == {"SUPER_ADMIN", "ADMIN", "EMPLOYEE"}

CreatableLevels ==
  [level \in Levels |-> CASE level = "SUPER_ADMIN" -> {"ADMIN", "EMPLOYEE"}
                          [] level = "ADMIN" -> {"EMPLOYEE"}
                          [] OTHER -> {}]
CanCreate(creator, target) == target \in CreatableLevels[creator]

CanManage_AnyAdmin(creator, target) ==   \* mutant: the owner's account is not special
  target = "SUPER_ADMIN" \/ target \in CreatableLevels[creator]
CanManage(creator, target) ==
  IF target = "SUPER_ADMIN" THEN creator = "SUPER_ADMIN" ELSE target \in CreatableLevels[creator]

Account ==
  [level : Levels \cup {"NONE", "GONE"}, status : {"ACTIVE", "SUSPENDED", "DEACTIVATED"},
   roles : SUBSET Roles, mode : {"role", "custom"}, custom : SUBSET Perms]
NoOne == [level |-> "NONE", status |-> "ACTIVE", roles |-> {}, mode |-> "role", custom |-> {}]
\* An id is never given out again.
Gone == [NoOne EXCEPT !.level = "GONE"]
Exists(a) == acct[a].level \in Levels

\* resolve_stored_grants; top: the grants contain "*".
Grants == [top : BOOLEAN, perms : SUBSET Perms]
RoleBase(roles) == UNION {RoleGrants[role] : role \in roles}
Resolve(row) ==
  [top |-> row.level = "SUPER_ADMIN" \/ "SUPER_ADMIN" \in row.roles,
   perms |-> IF row.mode = "custom" THEN row.custom ELSE RoleBase(row.roles)]
\* What the guards see.
Effective(row) == [Resolve(row) EXCEPT !.perms = Expand(@)]

Override(level, grants) == level = "SUPER_ADMIN" \/ grants.top

\* check_delegation: the request as it would be expanded against the creator's
\* effective set, which is expanded once more.
Delegable(level, grants, requested) ==
  Override(level, grants) \/ Expand(requested) \subseteq Expand(grants.perms)
MayDelegate_NoDomain(level, grants, target, requested) ==   \* mutant: employees are like admins
  /\ CanCreate(level, target)
  /\ Delegable(level, grants, requested)
MayDelegate_Levels(level, grants, target, requested) ==   \* mutant: capabilities unchecked
  CanCreate(level, target)
MayDelegate(level, grants, target, requested) ==
  /\ CanCreate(level, target)
  /\ target = "EMPLOYEE" =>
       \A code \in Expand(requested) : {code, CapabilityOf[code]} \cap AdminOnly = {}
  /\ Delegable(level, grants, requested)

-----------------------------------------------------------------------------

NoGrants == [top |-> FALSE, perms |-> {}]
Entry == [on : BOOLEAN, grants : Grants]
NoEntry == [on |-> FALSE, grants |-> NoGrants]

\* row: the columns the request will write; given: what it hands out under the override.
Request ==
  [op : {"idle", "fill", "admitted", "bootstrap", "level", "role", "status",
         "permissions", "delete", "invalidate"},
   actor : Accounts \cup {NoAccount}, level : Levels \cup {"NONE"}, grants : Grants,
   target : Accounts \cup {NoAccount}, row : Account, given : SUBSET Perms]
Idle == [op |-> "idle", actor |-> NoAccount, level |-> "NONE", grants |-> NoGrants,
         target |-> NoAccount, row |-> NoOne, given |-> {}]

TypeOK ==
  /\ acct \in [Accounts -> Account]
  /\ cache \in [Accounts -> Entry]
  /\ req \in [Reqs -> Request]
  /\ wasAdmin \subseteq Accounts /\ byOwner \subseteq Perms /\ changes \in 0..MaxChanges

Init ==
  /\ acct = [a \in Accounts |-> NoOne]
  /\ cache = [a \in Accounts |-> NoEntry]
  /\ req = [r \in Reqs |-> Idle]
  /\ wasAdmin = {} /\ byOwner = {} /\ changes = 0

Abort(r) ==
  /\ req[r].op # "idle"
  /\ req' = [req EXCEPT ![r] = Idle]
  /\ UNCHANGED <<acct, cache, wasAdmin, byOwner, changes>>

-----------------------------------------------------------------------------
(* register_admin: open while there is no active admin.                    *)

ActiveAdmins == {a \in Accounts : acct[a].level \in {"SUPER_ADMIN", "ADMIN"} /\ acct[a].status = "ACTIVE"}

Bootstrap(r, a) ==
  /\ req[r].op = "idle" /\ ActiveAdmins = {} /\ acct[a] = NoOne
  /\ req' = [req EXCEPT ![r] = [Idle EXCEPT !.op = "bootstrap", !.target = a,
       !.row = [NoOne EXCEPT !.level = "SUPER_ADMIN", !.roles = {"SUPER_ADMIN"}]]]
  /\ UNCHANGED <<acct, cache, wasAdmin, byOwner, changes>>

-----------------------------------------------------------------------------
(* Admission: get_current_account_manager, get_user_roles_and_permissions. *)

AdmitCached(r, a) ==
  /\ req[r].op = "idle" /\ a \in ActiveAdmins /\ cache[a].on
  /\ req' = [req EXCEPT ![r] = [Idle EXCEPT !.op = "admitted", !.actor = a,
                                !.level = acct[a].level, !.grants = cache[a].grants]]
  /\ UNCHANGED <<acct, cache, wasAdmin, byOwner, changes>>

AdmitRead(r, a) ==
  /\ req[r].op = "idle" /\ a \in ActiveAdmins /\ ~cache[a].on
  /\ req' = [req EXCEPT ![r] = [Idle EXCEPT !.op = "fill", !.actor = a,
                                !.level = acct[a].level, !.grants = Effective(acct[a])]]
  /\ UNCHANGED <<acct, cache, wasAdmin, byOwner, changes>>

\* Stored for five minutes, also if the grants changed since they were read.
FillCache(r) ==
  /\ req[r].op = "fill"
  /\ cache' = [cache EXCEPT ![req[r].actor] = [on |-> TRUE, grants |-> req[r].grants]]
  /\ req' = [req EXCEPT ![r].op = "admitted"]
  /\ UNCHANGED <<acct, wasAdmin, byOwner, changes>>

Expire(a) ==
  /\ cache[a].on
  /\ cache' = [cache EXCEPT ![a] = NoEntry]
  /\ UNCHANGED <<acct, req, wasAdmin, byOwner, changes>>

\* require_admin_permission.
Permitted(q, perm) ==
  /\ q.op = "admitted"
  /\ Override(q.level, q.grants) \/ perm \in q.grants.perms

-----------------------------------------------------------------------------
(* The People operations up to their commit: guard, target, hierarchy.     *)

Overridden(q, given) == IF Override(q.level, q.grants) THEN given ELSE {}
Prepare(r, op, a, row, given) ==
  /\ req' = [req EXCEPT ![r] = [Idle EXCEPT !.op = op, !.level = req[r].level, !.target = a, !.row = row,
       !.given = Overridden(req[r], given)]]
  /\ UNCHANGED <<acct, cache, wasAdmin, byOwner, changes>>

Target(q, a) == Exists(a) /\ CanManage(q.level, acct[a].level)

\* update_employee, a change of level.
ChangeLevel(r, a, level) ==
  /\ Permitted(req[r], ManagePeople) /\ Target(req[r], a)
  /\ CanCreate(req[r].level, level) /\ acct[a].level # level
  /\ Prepare(r, "level", a, [NoOne EXCEPT !.level = level], {})

\* update_employee, a change of business role: rows of levels stay.
ChangeRole(r, a, business) ==
  /\ Permitted(req[r], ManagePeople) /\ Target(req[r], a)
  /\ Prepare(r, "role", a, [NoOne EXCEPT !.roles = business], {})

\* INACTIVE is accepted and stored as DEACTIVATED.
Canonical(status) == IF status = "INACTIVE" THEN "DEACTIVATED" ELSE status

ChangeStatus(r, a, status) ==
  /\ Permitted(req[r], ManagePeople) /\ Target(req[r], a)
  /\ Prepare(r, "status", a, [NoOne EXCEPT !.status = Canonical(status)], {})

ChangePermissions(r, a, mode, requested) ==
  LET q == req[r] IN
  /\ Permitted(q, ManageSecurity) /\ Target(q, a)
  /\ MayDelegate(q.level, q.grants, acct[a].level, requested)
  /\ Prepare(r, "permissions", a,
       [NoOne EXCEPT !.mode = mode, !.custom = IF mode = "custom" THEN requested ELSE {}],
       IF mode = "custom" THEN requested ELSE {})

Delete(r, a) ==
  /\ Permitted(req[r], ManagePeople) /\ Target(req[r], a) /\ a # req[r].actor
  /\ Prepare(r, "delete", a, Gone, {})

-----------------------------------------------------------------------------
(* The commit writes the columns the request changed, and no others.       *)

Written(op, new, row) ==
  CASE op \in {"bootstrap", "create"} -> new
    [] op = "level" -> [row EXCEPT !.level = new.level]
    [] op = "role" -> [row EXCEPT !.roles = (@ \ BusinessRoles) \cup new.roles]
    [] op = "status" -> [row EXCEPT !.status = new.status]
    [] op = "permissions" -> [row EXCEPT !.mode = new.mode, !.custom = new.custom]
    [] OTHER -> Gone

Store(r, op, a, new, given) ==
  /\ IF op \in {"bootstrap", "create"} THEN acct[a] = NoOne ELSE Exists(a)
  /\ acct' = [acct EXCEPT ![a] = Written(op, new, @)]
  /\ wasAdmin' = IF acct'[a].level \in {"SUPER_ADMIN", "ADMIN"} THEN wasAdmin \cup {a} ELSE wasAdmin
  /\ byOwner' = byOwner \cup given
  /\ req' = [req EXCEPT ![r] = IF op \in {"bootstrap", "status"} THEN Idle
                               ELSE [Idle EXCEPT !.op = "invalidate", !.target = a]]
  /\ changes < MaxChanges /\ changes' = changes + 1
  /\ UNCHANGED cache

Commit(r) ==
  /\ req[r].op \in {"bootstrap", "level", "role", "status", "permissions", "delete"}
  /\ Store(r, req[r].op, req[r].target, req[r].row, req[r].given)

\* create_employee: a custom list is added to the role's own grants.  The row is
\* new, so nothing it reads after its admission can change before its commit.
Create(r, a, level, business, custom, requested) ==
  LET q == req[r]
      roles == IF level = "ADMIN" THEN {"ADMIN"} ELSE business
      asCustom == custom \/ requested # {} IN
  /\ Permitted(q, ManagePeople) /\ acct[a] = NoOne
  /\ MayDelegate(q.level, q.grants, level, requested)
  /\ Store(r, "create", a,
       [level |-> level, status |-> "ACTIVE", roles |-> roles,
        mode |-> IF asCustom THEN "custom" ELSE "role",
        custom |-> IF asCustom THEN RoleBase(roles) \cup requested ELSE {}],
       Overridden(q, requested))

Invalidate(r) ==
  /\ req[r].op = "invalidate"
  /\ cache' = [cache EXCEPT ![req[r].target] = NoEntry]
  /\ req' = [req EXCEPT ![r] = Idle]
  /\ UNCHANGED <<acct, wasAdmin, byOwner, changes>>

-----------------------------------------------------------------------------

AccountCalls(r, a) ==
  \/ \E level \in {"ADMIN", "EMPLOYEE"}, business \in RoleForms, custom \in BOOLEAN,
        requested \in Requests : Create(r, a, level, business, custom, requested)
  \/ \E level \in {"ADMIN", "EMPLOYEE"} : ChangeLevel(r, a, level)
  \/ \E business \in RoleForms : ChangeRole(r, a, business)
  \/ \E status \in StatusForms : ChangeStatus(r, a, status)

PermissionCalls(r, a) ==
  \/ \E mode \in {"role", "custom"}, requested \in Requests :
       ChangePermissions(r, a, mode, requested)
  \/ Delete(r, a)

Operation(r) == \E a \in Accounts : AccountCalls(r, a) \/ PermissionCalls(r, a)

Next ==
  \/ \E r \in Reqs :
       \/ \E a \in Accounts : Bootstrap(r, a) \/ AdmitCached(r, a) \/ AdmitRead(r, a)
       \/ FillCache(r) \/ Operation(r) \/ Commit(r) \/ Invalidate(r) \/ Abort(r)
  \/ \E a \in Accounts : Expire(a)

Spec == Init /\ [][Next]_vars

-----------------------------------------------------------------------------
(* Properties.                                                             *)

\* An account that never was above EMPLOYEE holds no admin-domain authority,
\* whoever created it, whatever roles and grants it was given, and whichever
\* requests overlapped (an account moved down from ADMIN keeps its grants).
EmployeeDomainKept ==
  \A a \in Accounts :
    acct[a].level = "EMPLOYEE" /\ a \notin wasAdmin =>
      ~Effective(acct[a]).top /\ Effective(acct[a]).perms \cap AdminOnly = {}

\* A capability no role brings is held only if it was handed out under the
\* top-level override, or follows from such ones: however accounts delegate to
\* each other, through stale cache entries too, nobody hands out more than what
\* was handed to somebody implies.  (One expansion may open the next, so what
\* follows is the least set of codes that expanding no longer changes.)
Follows(code, codes) ==
  \A closed \in SUBSET Perms : codes \cup Expand(closed) \subseteq closed => code \in closed
FromRoles == RoleBase(Roles)
Given == LET handed == FromRoles \cup byOwner IN
  handed \cup {code \in Perms \ handed : Follows(code, handed)}
NothingFromNothing ==
  \A a \in Accounts : Exists(a) => Resolve(acct[a]).perms \subseteq Given

\* Only a request admitted as SUPER_ADMIN changes the account of one.
OwnerUntouched ==
  [][\A a \in Accounts : acct[a].level = "SUPER_ADMIN" /\ acct'[a] # acct[a] =>
       \E r \in Reqs : req[r].target = a /\ req[r].level = "SUPER_ADMIN"]_vars

=============================================================================
