----------------------------- MODULE OfficeProofs -----------------------------
(***************************************************************************)
(* Staff and the back office, for any number of accounts, rows, requests   *)
(* in flight and steps.                                                    *)
(*                                                                         *)
(* First, who ends up with which authority.  A request commits what it     *)
(* decided from grants and rows that may have changed since; the argument  *)
(* is about what can only grow: the accounts that were above EMPLOYEE, and *)
(* the capabilities handed out under the top-level override.  Then the     *)
(* parts of Office, each with an inductive invariant of its own; last what *)
(* the storefront lists, which relates several queries of one state.       *)
(***************************************************************************)
EXTENDS Staff, Office, Sums

LEMMA Names == NoAccount \notin Accounts /\ MaxChanges \in Nat
BY NamesAssumption

LEMMA RoleFacts ==
  ASSUME NEW roles \in SUBSET Roles
  PROVE  /\ RoleBase(roles) \subseteq RoleBase(Roles) /\ RoleBase(roles) \subseteq Perms
         /\ roles \subseteq BusinessRoles =>
              Expand(RoleBase(roles)) \cap AdminOnly = {} /\ "SUPER_ADMIN" \notin roles
<1>1. /\ RoleBase(roles) \subseteq RoleBase(Roles) /\ RoleBase(roles) \subseteq Perms
      /\ roles \subseteq BusinessRoles => "SUPER_ADMIN" \notin roles
  BY RolesAssumption DEF RoleBase, Roles
<1>2. ASSUME roles \subseteq BusinessRoles, NEW code \in Expand(RoleBase(roles))
      PROVE  code \notin AdminOnly
  <2>1. PICK role \in BusinessRoles : code \in Expand(RoleGrants[role])
    BY <1>2 DEF Expand, RoleBase
  <2> QED
    BY <2>1, RolesAssumption
<1> QED
  BY <1>1, <1>2

LEMMA ExpandFacts ==
  ASSUME NEW codes \in SUBSET Perms, NEW more \in SUBSET Perms
  PROVE  /\ Expand(codes) \subseteq Perms /\ codes \subseteq Expand(codes) /\ Expand({}) = {}
         /\ codes \subseteq more => Expand(codes) \subseteq Expand(more)
         /\ Expand(codes \cup more) = Expand(codes) \cup Expand(more)
<1>1. \A code \in Perms : Expansion[code] \subseteq Perms /\ code \in Expansion[code]
  BY PermsAssumption DEF Expansion
<1> QED
  BY <1>1 DEF Expand

\* What was handed out is in, what follows is in, and it only grows.
LEMMA GivenFacts ==
  ASSUME byOwner \in SUBSET Perms
  PROVE  /\ RoleBase(Roles) \subseteq Given /\ Given \in SUBSET Perms
         /\ Expand(Given) \subseteq Given
<1> DEFINE handed == FromRoles \cup byOwner
<1>1. FromRoles = RoleBase(Roles) /\ FromRoles \subseteq Perms
  BY RoleFacts DEF FromRoles
<1>2. Given = handed \cup {code \in Perms \ handed : Follows(code, handed)}
  BY DEF Given
<1> HIDE DEF handed
<1>3. handed \subseteq Perms /\ FromRoles \subseteq handed
  BY <1>1 DEF handed
<1>4. Given \subseteq Perms
  BY <1>2, <1>3
<1>5. ASSUME NEW code \in Expand(Given) PROVE code \in Given
  <2>1. code \in Perms
    BY <1>4, <1>5, ExpandFacts
  <2>2. ASSUME NEW closed \in SUBSET Perms, handed \cup Expand(closed) \subseteq closed
        PROVE  code \in closed
    <3>1. Given \subseteq closed
      BY <1>2, <2>2 DEF Follows
    <3> QED
      BY <1>4, <1>5, <2>2, <3>1, ExpandFacts
  <2> QED
    BY <1>2, <2>1, <2>2 DEF Follows
<1> QED
  BY <1>1, <1>2, <1>3, <1>4, <1>5

LEMMA GivenGrows ==
  ASSUME byOwner \subseteq byOwner', byOwner' \subseteq Perms
  PROVE  Given \cup byOwner' \subseteq Given'
<1>1. FromRoles \subseteq Perms
  BY RoleFacts DEF FromRoles
<1>2. ASSUME NEW code \in Given, code \notin FromRoles \cup byOwner' PROVE code \in Given'
  <2>1. code \in Perms /\ Follows(code, FromRoles \cup byOwner)
    BY <1>2 DEF Given
  <2>2. Follows(code, FromRoles \cup byOwner')
    BY <2>1 DEF Follows
  <2> QED
    BY <1>2, <2>1, <2>2 DEF Given
<1> QED
  BY <1>2 DEF Given

LEMMA ConstantTypes ==
  /\ NoOne \in Account /\ Gone \in Account /\ NoGrants \in Grants /\ Idle \in Request
  /\ NoEntry = [on |-> FALSE, grants |-> NoGrants]
  /\ NoOne.level = "NONE" /\ NoOne.roles = {} /\ NoOne.custom = {} /\ NoOne.mode = "role"
  /\ Gone.level = "GONE" /\ Gone.roles = {} /\ Gone.custom = {}
  /\ Idle.op = "idle" /\ Idle.grants = NoGrants /\ NoGrants.perms = {}
<1>1. NoOne \in Account /\ NoOne.level = "NONE" /\ NoOne.roles = {} /\ NoOne.custom = {}
      /\ NoOne.mode = "role"
  BY DEF NoOne, Account, Levels
<1>2. Gone \in Account /\ Gone.level = "GONE" /\ Gone.roles = {} /\ Gone.custom = {}
  BY <1>1 DEF Gone, NoOne, Account, Levels
<1>3. NoGrants \in Grants /\ NoGrants.perms = {}
  BY DEF NoGrants, Grants
<1>4. Idle \in Request /\ Idle.op = "idle" /\ Idle.grants = NoGrants
  BY <1>1, <1>3 DEF Idle, Request
<1> QED
  BY <1>1, <1>2, <1>3, <1>4 DEF NoEntry

LEMMA ResolveType ==
  ASSUME NEW row \in Account
  PROVE  /\ Resolve(row) \in Grants
         /\ Resolve(row).perms = IF row.mode = "custom" THEN row.custom ELSE RoleBase(row.roles)
         /\ Resolve(row).top <=> row.level = "SUPER_ADMIN" \/ "SUPER_ADMIN" \in row.roles
         /\ Effective(row) \in Grants /\ Effective(row).perms = Expand(Resolve(row).perms)
         /\ Effective(row).top = Resolve(row).top
<1> DEFINE top == row.level = "SUPER_ADMIN" \/ "SUPER_ADMIN" \in row.roles
           perms == IF row.mode = "custom" THEN row.custom ELSE RoleBase(row.roles)
<1>1. Resolve(row) = [top |-> top, perms |-> perms]
  BY DEF Resolve
<1>2. top \in BOOLEAN
  OBVIOUS
<1>3. perms \in SUBSET Perms
  BY RoleFacts DEF Account
<1> HIDE DEF top, perms
<1>4. Resolve(row) \in Grants /\ Resolve(row).perms = perms /\ Resolve(row).top = top
  BY <1>1, <1>2, <1>3 DEF Grants
<1>5. /\ Effective(row) \in Grants /\ Effective(row).perms = Expand(Resolve(row).perms)
      /\ Effective(row).top = Resolve(row).top
  BY <1>3, <1>4, ExpandFacts DEF Effective, Grants
<1> QED
  BY <1>4, <1>5 DEF top, perms

-----------------------------------------------------------------------------
(* The inductive invariant.                                                *)

\* An account below ADMIN from the start, and what an account holds.
AccountSound(a) ==
  /\ acct[a].level \in {"SUPER_ADMIN", "ADMIN"} => a \in wasAdmin
  /\ a \notin wasAdmin => acct[a].roles \subseteq BusinessRoles /\ Expand(acct[a].custom) \cap AdminOnly = {}
  /\ acct[a].custom \subseteq Given

Changing == {"level", "role", "status", "permissions", "delete"}
\* What a request will write, and to whom.
RequestSound(q) ==
  /\ q.grants.perms \subseteq Given
  /\ q.op = "bootstrap" => q.target \in Accounts /\ q.row.level = "SUPER_ADMIN" /\ q.row.custom = {}
  /\ q.op = "level" => q.row.level \in {"ADMIN", "EMPLOYEE"}
  /\ q.op = "role" => q.row.roles \subseteq BusinessRoles
  /\ q.op = "permissions" => /\ q.target \notin wasAdmin => Expand(q.row.custom) \cap AdminOnly = {}
                             /\ q.row.custom \subseteq Given \cup q.given
  /\ q.op \in Changing => /\ q.target \in Accounts
                          /\ acct[q.target].level # "NONE"
                          /\ acct[q.target].level = "SUPER_ADMIN" => q.level = "SUPER_ADMIN"
  /\ q.op = "fill" => q.actor \in Accounts

StaffInv ==
  /\ TypeOK
  /\ \A a \in Accounts : AccountSound(a) /\ cache[a].grants.perms \subseteq Given
  /\ \A r \in Reqs : RequestSound(req[r])

LEMMA IdleSound == ASSUME NEW q \in Request, q.op \in {"idle", "invalidate"}, q.grants = NoGrants
                   PROVE RequestSound(q)
BY ConstantTypes DEF RequestSound, Changing

LEMMA StaffInit == Init => StaffInv
<1> SUFFICES ASSUME Init PROVE StaffInv
  OBVIOUS
<1>1. NoEntry \in Entry /\ NoEntry.grants.perms = {}
  BY ConstantTypes DEF Entry
<1>2. TypeOK
  BY <1>1, ConstantTypes, Names DEF Init, TypeOK
<1>3. \A a \in Accounts : AccountSound(a) /\ cache[a].grants.perms \subseteq Given
  BY <1>1, ConstantTypes, ExpandFacts DEF Init, AccountSound
<1>4. \A r \in Reqs : RequestSound(req[r])
  BY ConstantTypes, IdleSound DEF Init
<1> QED
  BY <1>2, <1>3, <1>4 DEF StaffInv

\* A step of one request that changes no account and no cache entry.
LEMMA RequestMoves ==
  ASSUME StaffInv, NEW r \in Reqs, NEW new \in Request, RequestSound(new),
         req' = [req EXCEPT ![r] = new], UNCHANGED <<acct, cache, wasAdmin, byOwner, changes>>
  PROVE  StaffInv'
<1>1. req' \in [Reqs -> Request] /\ \A q \in Reqs : req'[q] = req[q] \/ req'[q] = new
  BY DEF StaffInv, TypeOK
<1>2. TypeOK'
  BY <1>1 DEF StaffInv, TypeOK
<1>0. Given' = Given
  BY DEF Given
<1>3. \A a \in Accounts : AccountSound(a)' /\ cache'[a].grants.perms \subseteq Given'
  BY <1>0 DEF StaffInv, AccountSound
<1>4. \A q \in Reqs : RequestSound(req[q])'
  BY <1>0, <1>1 DEF StaffInv, RequestSound
<1> QED
  BY <1>2, <1>3, <1>4 DEF StaffInv

\* A step of one request that changes one cache entry.
LEMMA CacheMoves ==
  ASSUME StaffInv, NEW a, NEW entry \in Entry, cache' = [cache EXCEPT ![a] = entry],
         entry.grants.perms \subseteq Given,
         UNCHANGED req \/ \E r \in Reqs, new \in Request :
                             RequestSound(new) /\ req' = [req EXCEPT ![r] = new],
         UNCHANGED <<acct, wasAdmin, byOwner, changes>>
  PROVE  StaffInv'
<1>1. /\ req' \in [Reqs -> Request]
      /\ \A q \in Reqs : req'[q] = req[q] \/ RequestSound(req'[q])
  BY DEF StaffInv, TypeOK
<1>2. cache' \in [Accounts -> Entry] /\ \A b \in Accounts : cache'[b] = cache[b] \/ cache'[b] = entry
  BY DEF StaffInv, TypeOK
<1>3. TypeOK'
  BY <1>1, <1>2 DEF StaffInv, TypeOK
<1>0. Given' = Given
  BY DEF Given
<1>4. \A b \in Accounts : AccountSound(b)' /\ cache'[b].grants.perms \subseteq Given'
  BY <1>0, <1>2 DEF StaffInv, AccountSound
<1>5. \A q \in Reqs : RequestSound(req[q])'
  BY <1>0, <1>1 DEF StaffInv, RequestSound
<1> QED
  BY <1>3, <1>4, <1>5 DEF StaffInv

-----------------------------------------------------------------------------
(* The commit.                                                             *)

LEMMA Stores ==
  ASSUME StaffInv, NEW r \in Reqs, NEW op, NEW a \in Accounts, NEW new,
         NEW given \in SUBSET Perms, Store(r, op, a, new, given),
         NEW row \in Account, row = Written(op, new, acct[a]),
         row.level # "NONE",
         row.level = "SUPER_ADMIN" => acct[a].level \in {"SUPER_ADMIN", "NONE"},
         a \notin wasAdmin /\ row.level \notin {"SUPER_ADMIN", "ADMIN"} =>
           row.roles \subseteq BusinessRoles /\ Expand(row.custom) \cap AdminOnly = {},
         row.custom \subseteq Given \cup given
  PROVE  StaffInv'
<1> DEFINE next == IF op \in {"bootstrap", "status"} THEN Idle
                   ELSE [Idle EXCEPT !.op = "invalidate", !.target = a]
<1>1. next \in Request /\ next.op \in {"idle", "invalidate"} /\ next.grants = NoGrants
  BY ConstantTypes DEF Request, Idle
<1>2. /\ acct' = [acct EXCEPT ![a] = row] /\ req' = [req EXCEPT ![r] = next]
      /\ byOwner' = byOwner \cup given /\ UNCHANGED cache
      /\ changes < MaxChanges /\ changes' = changes + 1
  BY DEF Store, StaffInv, TypeOK
<1> HIDE DEF next
<1>3. /\ acct' \in [Accounts -> Account] /\ acct'[a] = row
      /\ \A b \in Accounts \ {a} : acct'[b] = acct[b]
  BY <1>2 DEF StaffInv, TypeOK
<1>4. /\ wasAdmin \subseteq wasAdmin' /\ wasAdmin' \subseteq wasAdmin \cup {a}
      /\ row.level \in {"SUPER_ADMIN", "ADMIN"} => a \in wasAdmin'
  BY <1>3 DEF Store
<1>5. Given \cup given \subseteq Given'
  BY <1>2, GivenGrows DEF StaffInv, TypeOK
<1>6. /\ req' \in [Reqs -> Request]
      /\ \A q \in Reqs : req'[q] = req[q] \/ req'[q] = next
  BY <1>1, <1>2 DEF StaffInv, TypeOK
<1>7. TypeOK'
  BY <1>2, <1>3, <1>4, <1>6, Names DEF StaffInv, TypeOK
<1>8. ASSUME NEW b \in Accounts PROVE AccountSound(b)' /\ cache'[b].grants.perms \subseteq Given'
  <2>1. cache'[b].grants.perms \subseteq Given'
    BY <1>2, <1>5 DEF StaffInv
  <2>2. CASE b = a
    BY <1>3, <1>4, <1>5, <2>1, <2>2 DEF AccountSound
  <2>3. CASE b # a
    BY <1>3, <1>4, <1>5, <2>1, <2>3 DEF StaffInv, AccountSound
  <2> QED
    BY <2>2, <2>3
<1>9. ASSUME NEW q \in Reqs PROVE RequestSound(req[q])'
  <2>1. CASE req'[q] = next
    BY <1>1, <2>1, ConstantTypes DEF RequestSound, Changing
  <2>2. CASE req'[q] = req[q]
    <3>1. RequestSound(req[q])
      BY DEF StaffInv
    <3>2. req[q].op \in Changing =>
            /\ acct'[req[q].target].level # "NONE"
            /\ acct'[req[q].target].level = "SUPER_ADMIN" => req[q].level = "SUPER_ADMIN"
      BY <1>3, <3>1 DEF RequestSound
    <3> QED
      BY <1>4, <1>5, <2>2, <3>1, <3>2 DEF RequestSound
  <2> QED
    BY <1>6, <2>1, <2>2
<1> QED
  BY <1>7, <1>8, <1>9 DEF StaffInv

LEMMA Commits == ASSUME StaffInv, NEW r \in Reqs, Commit(r) PROVE StaffInv'
<1> DEFINE q == req[r]
           old == acct[q.target]
           row == Written(q.op, q.row, old)
<1>1. /\ q \in Request /\ RequestSound(q) /\ Store(r, q.op, q.target, q.row, q.given)
      /\ q.op \in Changing \cup {"bootstrap"}
  BY DEF Commit, StaffInv, TypeOK, Changing
<1>2. q.target \in Accounts /\ q.row \in Account /\ q.given \in SUBSET Perms
  BY <1>1 DEF RequestSound, Request
<1>3. old \in Account /\ AccountSound(q.target)
  BY <1>2 DEF StaffInv, TypeOK
<1>4. IF q.op = "bootstrap" THEN old = NoOne ELSE old.level \in Levels
  BY <1>1 DEF Store, Changing, Exists
<1>5. /\ row \in Account /\ row.level # "NONE"
      /\ row.level = "SUPER_ADMIN" => old.level \in {"SUPER_ADMIN", "NONE"}
      /\ q.target \notin wasAdmin /\ row.level \notin {"SUPER_ADMIN", "ADMIN"} =>
           row.roles \subseteq BusinessRoles /\ Expand(row.custom) \cap AdminOnly = {}
      /\ row.custom \subseteq Given \cup q.given
  <2> HIDE DEF q, old
  <2>1. CASE q.op = "bootstrap"
    BY <1>1, <1>2, <1>4, <2>1, ConstantTypes DEF Written, RequestSound
  <2>2. CASE q.op = "level"
    BY <1>1, <1>2, <1>3, <1>4, <2>2 DEF Written, RequestSound, AccountSound, Account, Levels, old
  <2>3. CASE q.op = "role"
    BY <1>1, <1>2, <1>3, <1>4, <2>3 DEF Written, RequestSound, AccountSound, Account, Levels, old
  <2>4. CASE q.op = "status"
    BY <1>1, <1>2, <1>3, <1>4, <2>4 DEF Written, RequestSound, AccountSound, Account, Levels, old
  <2>5. CASE q.op = "permissions"
    BY <1>1, <1>2, <1>3, <1>4, <2>5 DEF Written, RequestSound, AccountSound, Account, Levels, old
  <2>6. CASE q.op = "delete"
    BY <2>6, ConstantTypes, ExpandFacts DEF Written
  <2> QED
    BY <1>1, <2>1, <2>2, <2>3, <2>4, <2>5, <2>6 DEF Changing
<1>6. row = Written(q.op, q.row, acct[q.target])
  OBVIOUS
<1> HIDE DEF row, q, old
<1> QED
  BY <1>1, <1>2, <1>5, <1>6, Stores DEF old

LEMMA OverriddenFacts ==
  ASSUME NEW q \in Request, RequestSound(q), NEW requested \in SUBSET Perms,
         Delegable(q.level, q.grants, requested), byOwner \in SUBSET Perms
  PROVE  /\ Overridden(q, requested) \in SUBSET Perms
         /\ requested \subseteq Given \cup Overridden(q, requested)
<1>1. Overridden(q, requested) \in SUBSET Perms
  BY DEF Overridden
<1>2. CASE Override(q.level, q.grants)
  BY <1>1, <1>2 DEF Overridden
<1>3. CASE Expand(requested) \subseteq Expand(q.grants.perms)
  <2>1. q.grants.perms \subseteq Given
    BY DEF RequestSound
  <2> QED
    BY <1>1, <1>3, <2>1, GivenFacts, ExpandFacts
<1> QED
  BY <1>1, <1>2, <1>3 DEF Delegable

LEMMA DelegationFacts ==
  ASSUME NEW level, NEW grants, NEW target, NEW requested \in SUBSET Perms,
         MayDelegate(level, grants, target, requested)
  PROVE  /\ Delegable(level, grants, requested)
         /\ target = "EMPLOYEE" => Expand(requested) \cap AdminOnly = {}
BY DEF MayDelegate

LEMMA Creates ==
  ASSUME StaffInv, NEW r \in Reqs, NEW a \in Accounts, NEW level \in {"ADMIN", "EMPLOYEE"},
         NEW business \in RoleForms, NEW custom \in BOOLEAN, NEW requested \in Requests,
         Create(r, a, level, business, custom, requested)
  PROVE  StaffInv'
<1> DEFINE q == req[r]
           roles == IF level = "ADMIN" THEN {"ADMIN"} ELSE business
           asCustom == custom \/ requested # {}
           granted == IF asCustom THEN RoleBase(roles) \cup requested ELSE {}
           mode == IF asCustom THEN "custom" ELSE "role"
           row == [level |-> level, status |-> "ACTIVE", roles |-> roles, mode |-> mode,
                   custom |-> granted]
<1>1. /\ Store(r, "create", a, row, Overridden(q, requested)) /\ acct[a] = NoOne
      /\ MayDelegate(q.level, q.grants, level, requested)
      /\ q \in Request /\ RequestSound(q)
  BY DEF Create, StaffInv, TypeOK
<1>2. requested \in SUBSET Perms /\ business \in SUBSET BusinessRoles /\ roles \in SUBSET Roles
  BY PermsAssumption DEF Roles
<1>3. /\ Overridden(q, requested) \in SUBSET Perms
      /\ requested \subseteq Given \cup Overridden(q, requested)
  BY <1>1, <1>2, OverriddenFacts, DelegationFacts DEF StaffInv, TypeOK
<1>4. /\ RoleBase(roles) \subseteq Given /\ RoleBase(roles) \subseteq Perms
      /\ level = "EMPLOYEE" => /\ roles \subseteq BusinessRoles
                               /\ Expand(RoleBase(roles)) \cap AdminOnly = {}
                               /\ Expand(requested) \cap AdminOnly = {}
  <2>1. byOwner \in SUBSET Perms
    BY DEF StaffInv, TypeOK
  <2> HIDE DEF q, row, granted, mode, asCustom
  <2> QED
    BY <1>1, <1>2, <2>1, RoleFacts, GivenFacts, DelegationFacts
<1>5. mode \in {"role", "custom"}
  OBVIOUS
<1>6. /\ granted \subseteq Perms /\ granted \subseteq Given \cup Overridden(q, requested)
      /\ level = "EMPLOYEE" => Expand(granted) \cap AdminOnly = {}
  BY <1>2, <1>3, <1>4, ExpandFacts
<1>7. Written("create", row, acct[a]) = row
  BY DEF Written
<1> HIDE DEF granted, mode, roles, asCustom
<1>8. /\ row \in Account /\ row.level = level /\ row.roles = roles /\ row.custom = granted
  BY <1>2, <1>5, <1>6 DEF Account, Levels
<1> HIDE DEF row, q
<1> QED
  BY <1>1, <1>3, <1>4, <1>6, <1>7, <1>8, Stores

-----------------------------------------------------------------------------
(* The steps before a commit, and the cache.                               *)

LEMMA Prepares ==
  ASSUME StaffInv, NEW r \in Reqs, NEW op \in Changing, NEW a \in Accounts, NEW row \in Account,
         NEW given \in SUBSET Perms, Prepare(r, op, a, row, given), Target(req[r], a),
         op = "level" => row.level \in {"ADMIN", "EMPLOYEE"},
         op = "role" => row.roles \subseteq BusinessRoles,
         op = "permissions" => /\ a \notin wasAdmin => Expand(row.custom) \cap AdminOnly = {}
                               /\ row.custom \subseteq Given \cup Overridden(req[r], given)
  PROVE  StaffInv'
<1> DEFINE new == [Idle EXCEPT !.op = op, !.level = req[r].level, !.target = a, !.row = row,
                               !.given = Overridden(req[r], given)]
<1>1. req' = [req EXCEPT ![r] = new] /\ UNCHANGED <<acct, cache, wasAdmin, byOwner, changes>>
  BY DEF Prepare
<1>2. req[r] \in Request /\ Overridden(req[r], given) \in SUBSET Perms
  BY DEF StaffInv, TypeOK, Overridden
<1>3. /\ new \in Request /\ new.op = op /\ new.level = req[r].level /\ new.target = a
      /\ new.row = row /\ new.given = Overridden(req[r], given) /\ new.grants = NoGrants
  BY <1>2, ConstantTypes DEF Request, Idle, Changing
<1> HIDE DEF new
<1>4. acct[a].level # "NONE" /\ (acct[a].level = "SUPER_ADMIN" => req[r].level = "SUPER_ADMIN")
  BY DEF Target, Exists, CanManage, Levels
<1>5. RequestSound(new)
  BY <1>3, <1>4, ConstantTypes DEF RequestSound, Changing
<1> QED
  BY <1>1, <1>3, <1>5, RequestMoves

LEMMA Operations == ASSUME StaffInv, NEW r \in Reqs, Operation(r) PROVE StaffInv'
<1>0. {} \in SUBSET Perms /\ NoOne \in Account
  BY ConstantTypes
<1>1. ASSUME NEW a \in Accounts, NEW level \in {"ADMIN", "EMPLOYEE"}, ChangeLevel(r, a, level)
      PROVE  StaffInv'
  <2> DEFINE row == [NoOne EXCEPT !.level = level]
  <2>1. row \in Account /\ row.level = level
    BY DEF NoOne, Account, Levels
  <2>2. Target(req[r], a) /\ Prepare(r, "level", a, row, {})
    BY <1>1 DEF ChangeLevel
  <2> HIDE DEF row
  <2> QED
    BY <1>0, <2>1, <2>2, Prepares DEF Changing
<1>2. ASSUME NEW a \in Accounts, NEW business \in RoleForms, ChangeRole(r, a, business)
      PROVE  StaffInv'
  <2> DEFINE row == [NoOne EXCEPT !.roles = business]
  <2>1. business \subseteq BusinessRoles
    BY PermsAssumption
  <2>2. row \in Account /\ row.roles = business
    BY <2>1 DEF NoOne, Account, Levels, Roles
  <2>3. Target(req[r], a) /\ Prepare(r, "role", a, row, {})
    BY <1>2 DEF ChangeRole
  <2> HIDE DEF row
  <2> QED
    BY <1>0, <2>1, <2>2, <2>3, Prepares DEF Changing
<1>3. ASSUME NEW a \in Accounts, NEW status \in StatusForms, ChangeStatus(r, a, status)
      PROVE  StaffInv'
  <2> DEFINE row == [NoOne EXCEPT !.status = Canonical(status)]
  <2>1. row \in Account
    BY PermsAssumption DEF NoOne, Account, Levels, Canonical
  <2>2. Target(req[r], a) /\ Prepare(r, "status", a, row, {})
    BY <1>3 DEF ChangeStatus
  <2> HIDE DEF row
  <2> QED
    BY <1>0, <2>1, <2>2, Prepares DEF Changing
<1>4. ASSUME NEW a \in Accounts, NEW mode \in {"role", "custom"}, NEW requested \in Requests,
             ChangePermissions(r, a, mode, requested)
      PROVE  StaffInv'
  <2> DEFINE list == IF mode = "custom" THEN requested ELSE {}
             row == [NoOne EXCEPT !.mode = mode, !.custom = list]
  <2>1. requested \in SUBSET Perms /\ list \in SUBSET Perms /\ list \subseteq requested
    BY PermsAssumption
  <2>2. /\ Target(req[r], a) /\ Prepare(r, "permissions", a, row, list)
        /\ MayDelegate(req[r].level, req[r].grants, acct[a].level, requested)
    BY <1>4 DEF ChangePermissions
  <2> HIDE DEF list
  <2>3. row \in Account /\ row.custom = list
    BY <2>1 DEF NoOne, Account, Levels
  <2> HIDE DEF row
  <2>4. acct[a].level \in Levels /\ AccountSound(a) /\ req[r] \in Request /\ RequestSound(req[r])
    BY <2>2 DEF Target, Exists, StaffInv, TypeOK
  <2>5. a \notin wasAdmin => Expand(list) \cap AdminOnly = {}
    BY <2>1, <2>2, <2>4, DelegationFacts, ExpandFacts DEF AccountSound, Levels
  <2>6. list \subseteq Given \cup Overridden(req[r], list)
    <3>1. /\ requested \subseteq Given \cup Overridden(req[r], requested)
          /\ Overridden(req[r], list) = IF Override(req[r].level, req[r].grants) THEN list ELSE {}
          /\ Overridden(req[r], requested) = IF Override(req[r].level, req[r].grants) THEN requested ELSE {}
      BY <2>1, <2>2, <2>4, OverriddenFacts, DelegationFacts DEF StaffInv, TypeOK, Overridden
    <3> QED
      BY <2>1, <3>1
  <2> QED
    BY <2>1, <2>2, <2>3, <2>5, <2>6, Prepares DEF Changing
<1>5. ASSUME NEW a \in Accounts, Delete(r, a) PROVE StaffInv'
  BY <1>0, <1>5, ConstantTypes, Prepares DEF Delete, Changing
<1> QED
  BY <1>1, <1>2, <1>3, <1>4, <1>5, Creates DEF Operation, AccountCalls, PermissionCalls

LEMMA Bootstraps ==
  ASSUME StaffInv, NEW r \in Reqs, NEW a \in Accounts, Bootstrap(r, a) PROVE StaffInv'
<1> DEFINE row == [NoOne EXCEPT !.level = "SUPER_ADMIN", !.roles = {"SUPER_ADMIN"}]
           new == [Idle EXCEPT !.op = "bootstrap", !.target = a, !.row = row]
<1>1. req' = [req EXCEPT ![r] = new] /\ UNCHANGED <<acct, cache, wasAdmin, byOwner, changes>>
  BY DEF Bootstrap
<1>2. row \in Account /\ row.level = "SUPER_ADMIN" /\ row.custom = {}
  BY DEF NoOne, Account, Levels, Roles
<1> HIDE DEF row
<1>3. new \in Request /\ new.op = "bootstrap" /\ new.target = a /\ new.row = row /\ new.grants = NoGrants
  BY <1>2, ConstantTypes DEF Request, Idle
<1> HIDE DEF new
<1>4. RequestSound(new)
  BY <1>2, <1>3, ConstantTypes DEF RequestSound, Changing
<1> QED
  BY <1>1, <1>3, <1>4, RequestMoves

LEMMA Admits ==
  ASSUME StaffInv, NEW r \in Reqs, NEW a \in Accounts, AdmitCached(r, a) \/ AdmitRead(r, a)
  PROVE  StaffInv'
<1> DEFINE op == IF cache[a].on THEN "admitted" ELSE "fill"
           grants == IF cache[a].on THEN cache[a].grants ELSE Effective(acct[a])
           new == [Idle EXCEPT !.op = op, !.actor = a, !.level = acct[a].level, !.grants = grants]
<1>1. /\ req' = [req EXCEPT ![r] = new] /\ UNCHANGED <<acct, cache, wasAdmin, byOwner, changes>>
      /\ a \in ActiveAdmins
  BY DEF AdmitCached, AdmitRead
<1>2. acct[a] \in Account /\ AccountSound(a) /\ cache[a] \in Entry /\ cache[a].grants.perms \subseteq Given
  BY DEF StaffInv, TypeOK
<1>3. Effective(acct[a]) \in Grants /\ Effective(acct[a]).perms \subseteq Given
  <2>1. byOwner \in SUBSET Perms
    BY DEF StaffInv, TypeOK
  <2>2. Resolve(acct[a]).perms \in SUBSET Perms /\ Resolve(acct[a]).perms \subseteq Given
    BY <1>2, <2>1, ResolveType, RoleFacts, GivenFacts DEF AccountSound, Account, Grants
  <2> QED
    BY <1>2, <2>1, <2>2, ResolveType, GivenFacts, ExpandFacts
<1>4. grants \in Grants /\ grants.perms \subseteq Given
  BY <1>2, <1>3 DEF Entry
<1>5. acct[a].level \in Levels
  BY <1>1 DEF ActiveAdmins, Levels
<1>6. op \in {"admitted", "fill"}
  OBVIOUS
<1> HIDE DEF op, grants
<1>7. new \in Request /\ new.op = op /\ new.actor = a /\ new.grants = grants
  BY <1>4, <1>5, <1>6, ConstantTypes DEF Request, Idle
<1> HIDE DEF new
<1>8. RequestSound(new)
  BY <1>4, <1>6, <1>7 DEF RequestSound, Changing
<1> QED
  BY <1>1, <1>7, <1>8, RequestMoves

LEMMA Fills == ASSUME StaffInv, NEW r \in Reqs, FillCache(r) PROVE StaffInv'
<1> DEFINE q == req[r]
           entry == [on |-> TRUE, grants |-> q.grants]
           new == [q EXCEPT !.op = "admitted"]
<1>1. /\ q.op = "fill" /\ cache' = [cache EXCEPT ![q.actor] = entry]
      /\ req' = [req EXCEPT ![r] = new] /\ UNCHANGED <<acct, wasAdmin, byOwner, changes>>
  BY DEF FillCache
<1>2. q \in Request /\ RequestSound(q)
  BY DEF StaffInv, TypeOK
<1>3. entry \in Entry /\ entry.grants = q.grants
  BY <1>2 DEF Entry, Request
<1>4. new \in Request /\ new.op = "admitted" /\ new.grants = q.grants
  BY <1>2 DEF Request
<1> HIDE DEF entry, new
<1>5. RequestSound(new) /\ entry.grants.perms \subseteq Given
  BY <1>2, <1>3, <1>4 DEF RequestSound, Changing
<1> QED
  BY <1>1, <1>3, <1>4, <1>5, CacheMoves

LEMMA Forgets ==
  ASSUME StaffInv,
         (\E r \in Reqs : Invalidate(r)) \/ (\E a \in Accounts : Expire(a))
  PROVE  StaffInv'
<1>1. NoEntry \in Entry /\ NoEntry.grants.perms \subseteq Given
  BY ConstantTypes DEF Entry
<1>2. RequestSound(Idle) /\ Idle \in Request
  BY ConstantTypes, IdleSound
<1>3. ASSUME NEW r \in Reqs, Invalidate(r) PROVE StaffInv'
  BY <1>1, <1>2, <1>3, CacheMoves DEF Invalidate
<1>4. ASSUME NEW a \in Accounts, Expire(a) PROVE StaffInv'
  BY <1>1, <1>4, CacheMoves DEF Expire
<1> QED
  BY <1>3, <1>4

LEMMA StaffStep == StaffInv /\ [Next]_vars => StaffInv'
<1> SUFFICES ASSUME StaffInv, [Next]_vars PROVE StaffInv'
  OBVIOUS
<1>1. CASE UNCHANGED vars
  BY <1>1 DEF vars, StaffInv, TypeOK, AccountSound, RequestSound, Given
<1>2. ASSUME NEW r \in Reqs, Abort(r) PROVE StaffInv'
  BY <1>2, ConstantTypes, IdleSound, RequestMoves DEF Abort
<1> QED
  BY <1>1, <1>2, Bootstraps, Admits, Fills, Operations, Commits, Forgets DEF Next

-----------------------------------------------------------------------------

\* Accounts, cache entries, requests and histories keep their types.
THEOREM TypeCorrect == Spec => []TypeOK
<1>1. StaffInv => TypeOK
  BY DEF StaffInv
<1> QED
  BY <1>1, StaffInit, StaffStep, PTL DEF Spec

\* However requests overlap, an account that never was above EMPLOYEE holds no
\* admin-domain capability (core.rbac.check_delegation, EmployeeService).
THEOREM DomainKept == Spec => []EmployeeDomainKept
<1>1. ASSUME StaffInv PROVE EmployeeDomainKept
  <2> SUFFICES ASSUME NEW a \in Accounts, acct[a].level = "EMPLOYEE", a \notin wasAdmin
               PROVE  ~Effective(acct[a]).top /\ Effective(acct[a]).perms \cap AdminOnly = {}
    BY DEF EmployeeDomainKept
  <2>1. acct[a] \in Account /\ AccountSound(a)
    BY <1>1 DEF StaffInv, TypeOK
  <2> QED
    BY <2>1, ResolveType, RoleFacts DEF AccountSound, Account
<1> QED
  BY <1>1, StaffInit, StaffStep, PTL DEF Spec

\* However accounts delegate to each other, through stale cache entries too,
\* nobody holds a capability that no role brings, that was not handed out under
\* the override, and that does not follow from those
\* (check_delegation, expand_effective_permissions).
THEOREM GrantsTraced == Spec => []NothingFromNothing
<1>1. ASSUME StaffInv PROVE NothingFromNothing
  <2> SUFFICES ASSUME NEW a \in Accounts PROVE Resolve(acct[a]).perms \subseteq Given
    BY DEF NothingFromNothing
  <2>1. acct[a] \in Account /\ AccountSound(a)
    BY <1>1 DEF StaffInv, TypeOK
  <2>2. byOwner \in SUBSET Perms
    BY <1>1 DEF StaffInv, TypeOK
  <2> QED
    BY <2>1, <2>2, ResolveType, RoleFacts, GivenFacts DEF AccountSound, Account
<1> QED
  BY <1>1, StaffInit, StaffStep, PTL DEF Spec

LEMMA OwnerStep ==
  ASSUME StaffInv, Next, NEW a \in Accounts, acct[a].level = "SUPER_ADMIN", acct'[a] # acct[a]
  PROVE  \E r \in Reqs : req[r].target = a /\ req[r].level = "SUPER_ADMIN"
<1>1. PICK r \in Reqs : Commit(r) \/ Operation(r)
  BY DEF Next, Bootstrap, AdmitCached, AdmitRead, FillCache, Invalidate, Abort, Expire
<1>2. NoOne.level = "NONE"
  BY ConstantTypes
<1>3. CASE Commit(r)
  <2>1. /\ RequestSound(req[r]) /\ req[r].op \in Changing \cup {"bootstrap"}
        /\ Store(r, req[r].op, req[r].target, req[r].row, req[r].given)
    BY <1>3 DEF Commit, StaffInv, Changing
  <2>2. req[r].target = a
    BY <2>1 DEF Store, StaffInv, TypeOK
  <2>3. req[r].op # "bootstrap"
    BY <1>2, <2>1, <2>2 DEF Store
  <2> QED
    BY <2>1, <2>2, <2>3 DEF RequestSound
<1>4. CASE Operation(r)
  <2>1. PICK b \in Accounts, level \in {"ADMIN", "EMPLOYEE"}, business \in RoleForms,
             custom \in BOOLEAN, requested \in Requests :
               Create(r, b, level, business, custom, requested)
    BY <1>4 DEF Operation, AccountCalls, PermissionCalls, ChangeLevel, ChangeRole, ChangeStatus, ChangePermissions, Delete, Prepare
  <2>2. acct[b] = NoOne /\ \A c \in Accounts \ {b} : acct'[c] = acct[c]
    BY <2>1 DEF Create, Store, StaffInv, TypeOK
  <2> QED
    BY <1>2, <2>2
<1> QED
  BY <1>1, <1>3, <1>4

\* Only a request admitted as SUPER_ADMIN changes the account of one, though
\* the target's level was read before the commit (EmployeeService, can_manage).
THEOREM OwnersUntouched == Spec => OwnerUntouched
<1> DEFINE Kept == \A a \in Accounts : acct[a].level = "SUPER_ADMIN" /\ acct'[a] # acct[a] =>
                     \E r \in Reqs : req[r].target = a /\ req[r].level = "SUPER_ADMIN"
<1>1. StaffInv /\ [Next]_vars => [Kept]_vars
  BY OwnerStep
<1> QED
  BY <1>1, StaffInit, StaffStep, PTL DEF Spec, OwnerUntouched
-----------------------------------------------------------------------------
(***************************************************************************)
(* The back office: a behaviour is about one part from the start, and the  *)
(* part moves as its own specification says.                               *)
(***************************************************************************)

\* A step of the office is a step of the part the behaviour is about.
LEMMA PartsMoveAlone ==
  ASSUME [OfficeNext]_officeVars
  PROVE  /\ part' = part
         /\ part = "rewards" => [R!Next]_(R!vars)
         /\ part = "offers" => [O!Next]_(O!vars)
         /\ part = "organisation" => [D!Next]_(D!vars)
         /\ part = "profile" => [P!Next]_(P!vars)
         /\ part = "media" => [M!Next]_(M!vars)
         /\ part = "import" => [I!Next]_(I!vars)
         /\ part = "taxonomy" => [T!Next]_(T!vars)
         /\ part = "identity" => [N!Next]_(N!vars)
         /\ part = "storefront" => [S!Next]_(S!vars)
<1>1. CASE UNCHANGED officeVars
  BY <1>1 DEF officeVars, rewardsVars, offersVars, organisationVars, profileVars, mediaVars, importVars,
              taxonomyVars, identityVars, storefrontVars, R!vars, O!vars, D!vars, P!vars, M!vars, I!vars,
              T!vars, N!vars, S!vars
<1>2. CASE OfficeNext
  BY <1>2 DEF OfficeNext
<1> QED
  BY <1>1, <1>2

-----------------------------------------------------------------------------
(***************************************************************************)
(* Rewards: one approved claim and one coupon for each order.              *)
(***************************************************************************)

\* Reviews come one at a time: the status a manual claim checks may be stale
\* once two desks work on one claim.
OneRewardDesk == \A d, e \in Desks : d = e

Claim == [order : Orders, status : {"PENDING", "APPROVED", "REJECTED"}, coupon : Nat]

\* Claims are numbered as they were made, coupons as they were issued.
RewardTypes ==
  /\ reward \in [R!Claims -> Claim \cup {R!NoReward}]
  /\ \E n \in Nat : R!Existing = 1..n
  /\ \E m \in Nat : DOMAIN coupon = 1..m
  /\ \A c \in DOMAIN coupon : coupon[c] \in R!Existing
  /\ submit \in [Tabs -> SUBSET Orders]
  /\ DOMAIN review = Desks

\* A coupon stands for the approved claim it was issued for, and an approved
\* claim has a coupon.
CouponsIssued ==
  /\ \A c \in DOMAIN coupon : reward[coupon[c]].coupon = c
  /\ \A r \in R!Existing : reward[r].status = "APPROVED" <=> reward[r].coupon # R!NoCoupon

OneApproved ==
  \A r, s \in R!Existing : reward[r].order = reward[s].order
    /\ reward[r].status = "APPROVED" /\ reward[s].status = "APPROVED" => r = s

\* What a review has seen is still so, and what it was let in for still holds.
ReviewHolds(q) ==
  \/ q = R!Idle
  \/ /\ q.step = "seen" /\ q.claim \in R!Existing /\ q.status = reward[q.claim].status
  \/ /\ q.step = "locked" /\ q.claim \in R!Existing
     /\ q.op \in {"APPROVE", "REJECT", "REOPEN"}
     /\ reward[q.claim].status \in R!From(q.op)
     /\ q.op = "APPROVE" => ~R!Rewarded(q.claim)

RewardInv ==
  /\ RewardTypes /\ CouponsIssued /\ OneApproved
  /\ \A d \in Desks : ReviewHolds(review[d])

LEMMA RewardInit == ASSUME RewardBounds, R!Init PROVE RewardInv
<1>1. R!Existing = 1..0
  BY DEF R!Init, R!Existing, R!Claims, R!NoReward
<1>2. DOMAIN coupon = 1..0
  BY DEF R!Init
<1>3. RewardTypes
  BY <1>1, <1>2 DEF R!Init, RewardTypes
<1>4. CouponsIssued /\ OneApproved
  BY <1>1, <1>2 DEF CouponsIssued, OneApproved
<1> QED
  BY <1>3, <1>4 DEF R!Init, RewardInv, ReviewHolds

LEMMA RewardsCount == \A X : R!Cardinality(X) = Cardinality(X)
BY DEF Cardinality, R!Cardinality

LEMMA ClaimIsOne == R!NoReward \notin Claim
<1>1. \A c \in Claim : c.status # "NONE"
  BY DEF Claim
<1>2. R!NoReward.status = "NONE"
  BY DEF R!NoReward
<1> QED
  BY <1>1, <1>2

\* Numbers up to n that are not none have a largest one.
LEMMA Largest ==
  ASSUME NEW n \in Nat, NEW X \in SUBSET (1..n), X # {}
  PROVE  \E r \in X : \A s \in X : s <= r
<1> DEFINE Good == {k \in Nat : \A Y \in SUBSET (1..k) : Y # {} => \E r \in Y : \A s \in Y : s <= r}
<1>1. 0 \in Good
  <2>1. 1..0 = {}
    OBVIOUS
  <2> QED
    BY <2>1
<1>2. ASSUME NEW k \in Nat, k \in Good PROVE k + 1 \in Good
  <2> SUFFICES ASSUME NEW Y \in SUBSET (1..(k + 1)), Y # {} PROVE \E r \in Y : \A s \in Y : s <= r
    BY <1>2
  <2>1. CASE k + 1 \in Y
    BY <2>1
  <2>2. CASE k + 1 \notin Y
    <3>1. Y \in SUBSET (1..k)
      BY <2>2
    <3> QED
      BY <1>2, <3>1
  <2> QED
    BY <2>1, <2>2
<1> HIDE DEF Good
<1>3. n \in Good
  BY <1>1, <1>2, SuccessorInduction
<1> QED
  BY <1>3 DEF Good

\* A new claim takes the next number, is pending, and disturbs nothing.
LEMMA Added ==
  ASSUME RewardBounds, RewardInv, NEW o \in Orders, R!Add(o), UNCHANGED coupon
  PROVE  /\ Cardinality(R!Existing) + 1 \in R!Existing'
         /\ reward'[Cardinality(R!Existing) + 1].status = "PENDING"
         /\ \A r \in R!Existing : r \in R!Existing' /\ reward'[r] = reward[r]
         /\ reward' \in [R!Claims -> Claim \cup {R!NoReward}]
         /\ (\E n \in Nat : R!Existing = 1..n)'
         /\ CouponsIssued' /\ OneApproved'
         /\ \A r \in R!Existing : ~R!Rewarded(r) => ~R!Rewarded(r)'
<1>1. PICK n \in Nat : R!Existing = 1..n
  BY DEF RewardInv, RewardTypes
<1>2. Cardinality(R!Existing) = n
  BY <1>1, FS_Interval
<1> DEFINE new == [order |-> o, status |-> "PENDING", coupon |-> R!NoCoupon]
<1>3. n + 1 \in R!Claims /\ reward' = [reward EXCEPT ![n + 1] = new]
  <2>1. R!Cardinality(R!Existing) = n
    BY <1>2, RewardsCount
  <2>2. n < MaxRewards /\ reward' = [reward EXCEPT ![n + 1] = new]
    BY <2>1 DEF R!Add
  <2> QED
    BY <2>2 DEF RewardBounds, R!Claims
<1>4. new \in Claim /\ new # R!NoReward
  BY ClaimIsOne DEF Claim, R!NoCoupon
<1>5. n + 1 \notin R!Existing
  BY <1>1
<1>6. /\ reward' \in [R!Claims -> Claim \cup {R!NoReward}] /\ reward'[n + 1] = new
      /\ \A r \in R!Claims : r # n + 1 => reward'[r] = reward[r]
  BY <1>3, <1>4 DEF RewardInv, RewardTypes
<1>7. R!Existing' = R!Existing \cup {n + 1}
  BY <1>3, <1>4, <1>6 DEF R!Existing
<1>8. (\E k \in Nat : R!Existing = 1..k)'
  <2>1. R!Existing' = 1..(n + 1)
    BY <1>1, <1>7
  <2> QED
    BY <2>1
<1>9. \A r \in R!Existing : r \in R!Existing' /\ r # n + 1 /\ reward'[r] = reward[r]
  BY <1>5, <1>6, <1>7 DEF R!Existing
<1>10. new.status = "PENDING" /\ new.coupon = R!NoCoupon
  OBVIOUS
<1> HIDE DEF new
<1>11. CouponsIssued'
  BY <1>6, <1>7, <1>9, <1>10 DEF RewardInv, RewardTypes, CouponsIssued, R!NoCoupon
<1>12. OneApproved'
  BY <1>6, <1>7, <1>9, <1>10 DEF RewardInv, OneApproved
<1>13. \A r \in R!Existing : ~R!Rewarded(r) => ~R!Rewarded(r)'
  BY <1>6, <1>7, <1>9, <1>10 DEF R!Rewarded, R!Of
<1> QED
  BY <1>2, <1>6, <1>7, <1>8, <1>9, <1>10, <1>11, <1>12, <1>13

\* A review takes its claim's lock, and finds what it will write still due.
LEMMA Taken ==
  ASSUME RewardInv, NEW d \in Desks, NEW r \in R!Existing, NEW op \in {"APPROVE", "REJECT", "REOPEN"},
         R!Take(d, r, op, reward[r].status)
  PROVE  RewardInv'
<1>1. RewardTypes' /\ CouponsIssued' /\ OneApproved'
  BY DEF RewardInv, RewardTypes, CouponsIssued, OneApproved, R!Take, R!Existing, R!Claims
<1>2. review'[d] = [step |-> "locked", claim |-> r, op |-> op]
      /\ \A e \in Desks : e # d => review'[e] = review[e]
  BY DEF RewardInv, RewardTypes, R!Take
<1>3. \A q : ReviewHolds(q) => ReviewHolds(q)'
  BY DEF ReviewHolds, R!Take, R!Existing, R!Claims, R!From, R!Rewarded, R!Of, R!Idle
<1>4. ReviewHolds(review[d])'
  BY <1>2 DEF ReviewHolds, R!Take, R!Existing, R!Claims, R!From, R!Rewarded, R!Of
<1> QED
  BY <1>1, <1>2, <1>3, <1>4 DEF RewardInv

LEMMA ClaimWritten ==
  ASSUME NEW c \in Claim, NEW status \in {"PENDING", "APPROVED", "REJECTED"}, NEW k \in Nat
  PROVE  LET new == [[c EXCEPT !.status = status] EXCEPT !.coupon = k]
         IN new \in Claim /\ new.order = c.order /\ new.status = status /\ new.coupon = k
<1> DEFINE old == [c EXCEPT !.status = status]
<1>1. old \in Claim /\ old.order = c.order /\ old.status = status
  BY DEF Claim
<1> HIDE DEF old
<1>2. [old EXCEPT !.coupon = k] \in Claim /\ [old EXCEPT !.coupon = k].order = old.order
      /\ [old EXCEPT !.coupon = k].status = old.status /\ [old EXCEPT !.coupon = k].coupon = k
  BY <1>1 DEF Claim
<1> QED
  BY <1>1, <1>2 DEF old

\* What a review writes keeps coupons and approved claims together.
LEMMA Reviewed ==
  ASSUME RewardBounds, OneRewardDesk, RewardInv, NEW d \in Desks, R!ReviewCommit(d)
  PROVE  RewardInv'
<1> DEFINE r == review[d].claim
           q == review[d]
<1>1. PICK m \in Nat : DOMAIN coupon = 1..m
  BY DEF RewardInv, RewardTypes
<1>2. Cardinality(DOMAIN coupon) = m
  BY <1>1, FS_Interval
<1>3. /\ q.step = "locked" /\ r \in R!Existing
      /\ q.op \in {"APPROVE", "REJECT", "REOPEN"}
      /\ reward[r].status \in R!From(q.op)
      /\ q.op = "APPROVE" => ~R!Rewarded(r)
  BY DEF RewardInv, ReviewHolds, R!ReviewCommit, R!Idle
<1>4. r \in R!Claims /\ reward[r] \in Claim
  BY <1>3 DEF RewardInv, RewardTypes, R!Existing
<1>5. reward[r].coupon = R!NoCoupon /\ reward[r].status # "APPROVED"
  BY <1>3, <1>4 DEF RewardInv, CouponsIssued, R!From
<1>6. DOMAIN review' = Desks /\ \A e \in Desks : review'[e] = R!Idle
  BY DEF RewardInv, RewardTypes, OneRewardDesk, R!ReviewCommit
<1>7. \A e \in Desks : ReviewHolds(review[e])'
  BY <1>6 DEF ReviewHolds, R!Idle
<1>8. submit' = submit
  BY DEF R!ReviewCommit
<1>9. \A c \in DOMAIN coupon : coupon[c] # r
  BY <1>1, <1>5 DEF RewardInv, CouponsIssued, R!NoCoupon
<1>10. CASE q.op = "APPROVE"
  <2>1. /\ reward' = [reward EXCEPT ![r].status = "APPROVED", ![r].coupon = m + 1]
        /\ coupon' = [c \in 1..(m + 1) |-> IF c = m + 1 THEN r ELSE coupon[c]]
    BY <1>2, <1>10, RewardsCount DEF R!ReviewCommit
  <2>2. /\ reward' \in [R!Claims -> Claim \cup {R!NoReward}]
        /\ reward'[r] \in Claim /\ reward'[r].order = reward[r].order
        /\ reward'[r].status = "APPROVED" /\ reward'[r].coupon = m + 1
        /\ \A s \in R!Claims : s # r => reward'[s] = reward[s]
    <3> DEFINE new == [[reward[r] EXCEPT !.status = "APPROVED"] EXCEPT !.coupon = m + 1]
    <3>1. /\ reward' = [reward EXCEPT ![r] = new] /\ reward \in [R!Claims -> Claim \cup {R!NoReward}]
      BY <1>4, <2>1 DEF RewardInv, RewardTypes
    <3>2. new \in Claim /\ new.order = reward[r].order /\ new.status = "APPROVED" /\ new.coupon = m + 1
      <4>1. reward[r] \in Claim /\ m + 1 \in Nat
        BY <1>4
      <4> QED
        BY <4>1, ClaimWritten
    <3> HIDE DEF new
    <3> QED
      BY <1>4, <3>1, <3>2
  <2>3. R!Existing' = R!Existing
    BY <1>3, <1>4, <2>2, ClaimIsOne DEF R!Existing
  <2>4. RewardTypes'
    <3>1. DOMAIN coupon' = 1..(m + 1) /\ \A c \in DOMAIN coupon' : coupon'[c] \in R!Existing'
      BY <1>1, <1>3, <2>1, <2>3 DEF RewardInv, RewardTypes
    <3> QED
      BY <1>6, <1>8, <2>2, <2>3, <3>1 DEF RewardInv, RewardTypes
  <2>5. CouponsIssued'
    <3>1. coupon'[m + 1] = r /\ DOMAIN coupon' = 1..(m + 1) /\ m + 1 # R!NoCoupon
      BY <2>1 DEF R!NoCoupon
    <3>2. ASSUME NEW c \in 1..m PROVE reward'[coupon'[c]].coupon = c
      <4>1. coupon[c] \in R!Claims /\ coupon[c] # r /\ reward[coupon[c]].coupon = c
        BY <1>1, <1>9 DEF RewardInv, RewardTypes, CouponsIssued, R!Existing
      <4>2. coupon'[c] = coupon[c]
        BY <2>1
      <4> QED
        BY <2>2, <4>1, <4>2
    <3>3. \A c \in DOMAIN coupon' : reward'[coupon'[c]].coupon = c
      <4>1. \A c \in 1..(m + 1) : c \in 1..m \/ c = m + 1
        OBVIOUS
      <4> QED
        BY <2>2, <3>1, <3>2, <4>1
    <3>4. \A s \in R!Existing : reward'[s].status = "APPROVED" <=> reward'[s].coupon # R!NoCoupon
      <4>1. \A s \in R!Existing : s \in R!Claims /\ (reward[s].status = "APPROVED" <=> reward[s].coupon # R!NoCoupon)
        BY DEF RewardInv, CouponsIssued, R!Existing
      <4> QED
        BY <2>2, <3>1, <4>1
    <3> QED
      BY <2>3, <3>3, <3>4 DEF CouponsIssued, R!NoCoupon
  <2>6. OneApproved'
    BY <1>3, <1>10, <2>2, <2>3 DEF RewardInv, OneApproved, R!Rewarded, R!Of, R!Existing
  <2> QED
    BY <1>7, <2>4, <2>5, <2>6 DEF RewardInv
<1>11. CASE q.op # "APPROVE"
  <2>1. PICK status \in {"REJECTED", "PENDING"} :
          reward' = [reward EXCEPT ![r].coupon = R!NoCoupon, ![r].status = status]
    BY <1>11 DEF R!ReviewCommit
  <2>2. coupon' = coupon
    BY <1>11 DEF R!ReviewCommit
  <2>3. /\ reward' \in [R!Claims -> Claim \cup {R!NoReward}]
        /\ reward'[r] \in Claim /\ reward'[r].status # "APPROVED" /\ reward'[r].coupon = R!NoCoupon
        /\ \A s \in R!Claims : s # r => reward'[s] = reward[s]
    BY <1>4, <2>1 DEF RewardInv, RewardTypes, Claim, R!NoCoupon
  <2>4. R!Existing' = R!Existing
    BY <1>3, <1>4, <2>3, ClaimIsOne DEF R!Existing
  <2>5. RewardTypes'
    BY <1>6, <1>8, <2>2, <2>3, <2>4 DEF RewardInv, RewardTypes
  <2>6. CouponsIssued'
    BY <1>3, <1>9, <2>2, <2>3, <2>4 DEF RewardInv, RewardTypes, CouponsIssued, R!Existing
  <2>7. OneApproved'
    BY <2>3, <2>4 DEF RewardInv, OneApproved, R!Existing
  <2> QED
    BY <1>7, <2>5, <2>6, <2>7 DEF RewardInv
<1> QED
  BY <1>10, <1>11

LEMMA RewardStep ==
  ASSUME RewardBounds, OneRewardDesk, RewardInv, [R!Next]_(R!vars) PROVE RewardInv'
<1>1. ASSUME NEW o \in Orders, R!OrderMoves(o) PROVE RewardInv'
  BY <1>1 DEF R!OrderMoves, RewardInv, RewardTypes, CouponsIssued, OneApproved, ReviewHolds,
     R!Existing, R!Claims, R!From, R!Rewarded, R!Of
<1>2. ASSUME NEW t \in Tabs, NEW o \in Orders, R!Submit(t, o) PROVE RewardInv'
  <2>1. submit' \in [Tabs -> SUBSET Orders]
    BY <1>2 DEF R!Submit, RewardInv, RewardTypes
  <2> QED
    BY <1>2, <2>1 DEF R!Submit, RewardInv, RewardTypes, CouponsIssued, OneApproved, ReviewHolds,
       R!Existing, R!Claims, R!From, R!Rewarded, R!Of
<1>3. ASSUME NEW t \in Tabs, R!SubmitCommit(t) PROVE RewardInv'
  <2>1. PICK o \in submit[t] : R!Add(o)
    BY <1>3 DEF R!SubmitCommit
  <2>2. o \in Orders /\ UNCHANGED <<coupon, review>> /\ submit' \in [Tabs -> SUBSET Orders]
    BY <1>3 DEF R!SubmitCommit, RewardInv, RewardTypes
  <2>3. /\ \A r \in R!Existing : r \in R!Existing' /\ reward'[r] = reward[r]
        /\ reward' \in [R!Claims -> Claim \cup {R!NoReward}]
        /\ (\E n \in Nat : R!Existing = 1..n)'
        /\ CouponsIssued' /\ OneApproved'
        /\ \A r \in R!Existing : ~R!Rewarded(r) => ~R!Rewarded(r)'
    BY <2>1, <2>2, Added
  <2>4. RewardTypes'
    BY <2>2, <2>3 DEF RewardInv, RewardTypes
  <2>5. \A d \in Desks : ReviewHolds(review[d])'
    BY <2>2, <2>3 DEF RewardInv, ReviewHolds, R!From, R!Idle
  <2> QED
    BY <2>3, <2>4, <2>5 DEF RewardInv
<1>4. ASSUME NEW d \in Desks, NEW r \in R!Claims, NEW op \in {"APPROVE", "REJECT", "REOPEN"},
             R!Review(d, r, op)
      PROVE  RewardInv'
  BY <1>4, Taken DEF R!Review
<1>5. ASSUME NEW d \in Desks, NEW o \in Orders, R!Manual(d, o) PROVE RewardInv'
  <2>1. CASE R!Of(o) # {} /\ UNCHANGED reward
    <3>1. PICK n \in Nat : R!Existing = 1..n
      BY DEF RewardInv, RewardTypes
    <3>2. R!Newest(o) \in R!Of(o)
      <4>1. R!Of(o) \in SUBSET (1..n) /\ R!Of(o) # {}
        BY <2>1, <3>1 DEF R!Of
      <4>2. \E r \in R!Of(o) : \A s \in R!Of(o) : s <= r
        BY <4>1, Largest
      <4> QED
        BY <4>2 DEF R!Newest
    <3>3. /\ review' = [review EXCEPT ![d] = [step |-> "seen", claim |-> R!Newest(o),
                                              status |-> reward[R!Newest(o)].status]]
          /\ UNCHANGED <<coupon, submit, lock>>
      BY <1>5, <2>1 DEF R!Manual
    <3>4. R!Newest(o) \in R!Existing
      BY <3>2 DEF R!Of
    <3>5. RewardTypes' /\ CouponsIssued' /\ OneApproved'
      BY <2>1, <3>3 DEF RewardInv, RewardTypes, CouponsIssued, OneApproved, R!Existing, R!Claims
    <3>6. \A e \in Desks : ReviewHolds(review[e])'
      <4>1. \A e \in Desks : review'[e] = [step |-> "seen", claim |-> R!Newest(o),
                                          status |-> reward[R!Newest(o)].status]
        BY <3>3 DEF RewardInv, RewardTypes, OneRewardDesk
      <4> QED
        BY <2>1, <3>4, <4>1 DEF ReviewHolds, R!Existing, R!Claims
    <3> QED
      BY <3>5, <3>6 DEF RewardInv
  <2>2. CASE R!Of(o) = {} /\ R!Add(o)
    <3>1. UNCHANGED <<coupon, submit, lock>>
      BY <1>5 DEF R!Manual
    <3>2. review' = [review EXCEPT ![d] = [step |-> "seen", claim |-> Cardinality(R!Existing) + 1,
                                           status |-> "PENDING"]]
      BY <1>5, <2>2, RewardsCount DEF R!Manual
    <3>3. /\ Cardinality(R!Existing) + 1 \in R!Existing'
          /\ reward'[Cardinality(R!Existing) + 1].status = "PENDING"
          /\ \A r \in R!Existing : r \in R!Existing' /\ reward'[r] = reward[r]
          /\ reward' \in [R!Claims -> Claim \cup {R!NoReward}]
          /\ (\E n \in Nat : R!Existing = 1..n)'
          /\ CouponsIssued' /\ OneApproved'
      BY <2>2, <3>1, Added
    <3>4. RewardTypes'
      BY <3>1, <3>2, <3>3 DEF RewardInv, RewardTypes
    <3>5. \A e \in Desks : ReviewHolds(review[e])'
      BY <3>2, <3>3 DEF RewardInv, RewardTypes, ReviewHolds, OneRewardDesk
    <3> QED
      BY <3>3, <3>4, <3>5 DEF RewardInv
  <2> QED
    BY <1>5, <2>1, <2>2 DEF R!Manual
<1>6. ASSUME NEW d \in Desks, R!ManualApprove(d) PROVE RewardInv'
  <2>1. review[d].claim \in R!Existing /\ review[d].status = reward[review[d].claim].status
    BY <1>6 DEF R!ManualApprove, RewardInv, ReviewHolds, R!Idle
  <2> QED
    BY <1>6, <2>1, Taken DEF R!ManualApprove
<1>7. ASSUME NEW d \in Desks, R!ReviewCommit(d) PROVE RewardInv'
  BY <1>7, Reviewed
<1>8. ASSUME NEW d \in Desks, R!ReviewAbort(d) PROVE RewardInv'
  <2>1. DOMAIN review' = Desks /\ \A e \in Desks : review'[e] = R!Idle
    BY <1>8 DEF R!ReviewAbort, RewardInv, RewardTypes, OneRewardDesk
  <2>2. UNCHANGED <<reward, coupon, submit>>
    BY <1>8 DEF R!ReviewAbort
  <2>3. RewardTypes' /\ CouponsIssued' /\ OneApproved'
    BY <2>1, <2>2 DEF RewardInv, RewardTypes, CouponsIssued, OneApproved, R!Existing, R!Claims
  <2> QED
    BY <2>1, <2>3 DEF RewardInv, ReviewHolds
<1>9. CASE UNCHANGED R!vars
  BY <1>9 DEF R!vars, RewardInv, RewardTypes, CouponsIssued, OneApproved, ReviewHolds,
     R!Existing, R!Claims, R!From, R!Rewarded, R!Of
<1> QED
  BY <1>1, <1>2, <1>3, <1>4, <1>5, <1>6, <1>7, <1>8, <1>9 DEF R!Next, R!SubmitCalls, R!DeskCalls

LEMMA CouponsApart == ASSUME RewardInv PROVE R!OneCouponPerOrder
<1>1. ASSUME NEW o \in Orders
      PROVE  R!Cardinality({c \in DOMAIN coupon : reward[coupon[c]].order = o}) <= 1
  <2> DEFINE Issued == {c \in DOMAIN coupon : reward[coupon[c]].order = o}
  <2>1. \A b, c \in Issued : b = c
    BY DEF RewardInv, RewardTypes, CouponsIssued, OneApproved, R!NoCoupon
  <2>2. Issued = {} \/ \E c \in Issued : Issued = {c}
    BY <2>1
  <2> HIDE DEF Issued
  <2>3. Cardinality(Issued) \in {0, 1}
    BY <2>2, FS_EmptySet, FS_Singleton
  <2> QED
    BY <2>3, RewardsCount DEF Issued
<1> QED
  BY <1>1 DEF R!OneCouponPerOrder, RewardInv, CouponsIssued

\* However submissions, reviews and manual claims interleave, an order has at
\* most one coupon, issued for the claim that stands approved, as long as the
\* desk reviews one claim at a time.
\* (create_manual_claim, approve_reward)
THEOREM OneRewardPerOrder ==
  ASSUME OneRewardDesk
  PROVE  OfficeSpec => []OneCouponPerOrder
<1> DEFINE Inv == part = "rewards" => RewardInv
<1>1. OfficeInit => Inv
  BY RewardInit, OfficeAssumption DEF OfficeInit
<1>2. Inv /\ [OfficeNext]_officeVars => Inv'
  BY RewardStep, OfficeAssumption, PartsMoveAlone
<1>3. Inv => OneCouponPerOrder
  BY CouponsApart DEF OneCouponPerOrder
<1> QED
  BY <1>1, <1>2, <1>3, PTL DEF OfficeSpec

-----------------------------------------------------------------------------
(***************************************************************************)
(* Departments: what refers to a row goes, or is released, with it.        *)
(***************************************************************************)

ChartCall ==
  [op : {"idle"}]
    \cup [op : {"name"}, department : Departments, name : DepartmentNames, fresh : BOOLEAN]
    \cup [op : {"section"}, section : Sections, department : Departments]
    \cup [op : {"assign"}, employee : Employees, department : Departments \cup {Nothing},
          section : Sections \cup {Nothing}]

Post == [department : Departments \cup {Nothing}, section : Sections \cup {Nothing}]

ChartInv ==
  /\ name \in [Departments -> DepartmentNames \cup {Nothing}]
  /\ within \in [Sections -> Departments \cup {Nothing}]
  /\ worksIn \in [Employees -> Post]
  /\ chart \in [ChartReqs -> ChartCall]
  /\ D!ChartConsistent

LEMMA ChartInit == ASSUME NothingApart, D!Init PROVE ChartInv
<1>1. chart \in [ChartReqs -> ChartCall]
  BY DEF D!Init, D!Idle, ChartCall
<1>2. worksIn \in [Employees -> Post]
  BY DEF D!Init, Post
<1>3. D!Standing = {} /\ D!Open = {}
  BY DEF D!Init, D!Standing, D!Open
<1> QED
  BY <1>1, <1>2, <1>3 DEF D!Init, ChartInv, D!ChartConsistent, NothingApart

\* Beginning a request, and ending it, leave the chart alone.
LEMMA ChartBegins ==
  ASSUME ChartInv, NEW r \in ChartReqs, NEW new \in ChartCall, D!Begin(r, new)
  PROVE  ChartInv'
BY DEF ChartInv, D!Begin, D!ChartConsistent, D!Standing, D!Open

LEMMA ChartDone ==
  ASSUME ChartInv, NEW r \in ChartReqs, D!Done(r)
  PROVE  chart' \in [ChartReqs -> ChartCall]
BY DEF ChartInv, D!Done, D!Idle, ChartCall

LEMMA DepartmentNamed ==
  ASSUME NothingApart, ChartInv, NEW r \in ChartReqs, D!NameDepartment(r)
  PROVE  ChartInv'
<1>1. PICK d \in Departments, n \in DepartmentNames :
        D!NameFree(d, n) /\ name' = [name EXCEPT ![d] = n]
  <2>1. chart[r].department \in Departments /\ chart[r].name \in DepartmentNames
    BY DEF ChartInv, ChartCall, D!NameDepartment
  <2> QED
    BY <2>1 DEF D!NameDepartment
<1>2. UNCHANGED <<within, worksIn>> /\ chart' \in [ChartReqs -> ChartCall]
  BY ChartDone DEF D!NameDepartment
<1>3. n # Nothing /\ D!Standing' = D!Standing \cup {d}
  BY <1>1 DEF NothingApart, ChartInv, D!Standing
<1>4. D!Open' = D!Open
  BY <1>2 DEF D!Open
<1>5. D!ChartConsistent'
  BY <1>1, <1>2, <1>3, <1>4 DEF ChartInv, D!ChartConsistent, D!NameFree, D!Standing
<1> QED
  BY <1>1, <1>2, <1>5 DEF ChartInv

LEMMA SectionInserted ==
  ASSUME NothingApart, ChartInv, NEW r \in ChartReqs, D!InsertSection(r)
  PROVE  ChartInv'
<1>1. PICK s \in Sections, d \in D!Standing : within' = [within EXCEPT ![s] = d] /\ s \notin D!Open
  <2>1. chart[r].section \in Sections
    BY DEF ChartInv, ChartCall, D!InsertSection
  <2> QED
    BY <2>1 DEF D!InsertSection, D!Open
<1>2. UNCHANGED <<name, worksIn>> /\ chart' \in [ChartReqs -> ChartCall]
  BY ChartDone DEF D!InsertSection
<1>3. d \in Departments /\ d # Nothing /\ D!Open' = D!Open \cup {s}
  BY <1>1 DEF NothingApart, ChartInv, D!Standing, D!Open
<1>4. D!Standing' = D!Standing
  BY <1>2 DEF D!Standing
<1>5. D!ChartConsistent'
  BY <1>1, <1>2, <1>3, <1>4 DEF ChartInv, D!ChartConsistent, D!Open
<1> QED
  BY <1>1, <1>2, <1>3, <1>5 DEF ChartInv

LEMMA AssignmentWritten ==
  ASSUME NothingApart, ChartInv, NEW r \in ChartReqs, D!WriteAssignment(r)
  PROVE  ChartInv'
<1>1. PICK e \in Employees, d \in D!Standing \cup {Nothing}, s \in D!Open \cup {Nothing} :
        worksIn' = [worksIn EXCEPT ![e].department = IF d = Nothing THEN @ ELSE d,
                                   ![e].section = IF s = Nothing THEN @ ELSE s]
  <2>1. chart[r].employee \in Employees
    BY DEF ChartInv, ChartCall, D!WriteAssignment
  <2> QED
    BY <2>1 DEF D!WriteAssignment
<1>2. UNCHANGED <<name, within>> /\ chart' \in [ChartReqs -> ChartCall]
  BY ChartDone DEF D!WriteAssignment
<1>3. D!Standing' = D!Standing /\ D!Open' = D!Open
  BY <1>2 DEF D!Standing, D!Open
<1> DEFINE moved == [worksIn[e] EXCEPT !.department = IF d = Nothing THEN @ ELSE d]
           new == [moved EXCEPT !.section = IF s = Nothing THEN @ ELSE s]
<1>4. worksIn' = [worksIn EXCEPT ![e] = new]
  BY <1>1 DEF ChartInv
<1>5. worksIn[e] \in Post /\ d \in Departments \cup {Nothing} /\ s \in Sections \cup {Nothing}
  BY DEF ChartInv, D!Standing, D!Open
<1>6. moved \in Post /\ moved.section = worksIn[e].section
      /\ moved.department = IF d = Nothing THEN worksIn[e].department ELSE d
  BY <1>5 DEF Post
<1> HIDE DEF moved
<1>7. new \in Post /\ new.department = moved.department
      /\ new.section = IF s = Nothing THEN moved.section ELSE s
  BY <1>5, <1>6 DEF Post
<1> HIDE DEF new
<1>8. D!ChartConsistent'
  BY <1>2, <1>3, <1>4, <1>6, <1>7 DEF ChartInv, D!ChartConsistent
<1> QED
  BY <1>2, <1>4, <1>7, <1>8 DEF ChartInv

\* A deletion takes the sections of X, and d itself, from everybody's post.
LEMMA PostsReleased ==
  ASSUME ChartInv, NEW d, NEW X, NEW e \in Employees
  PROVE  /\ D!Released(d, X) \in [Employees -> Post]
         /\ D!Released(d, X)[e].department = Nothing \/ D!Released(d, X)[e].department \in D!Standing \ {d}
         /\ D!Released(d, X)[e].section = Nothing \/ D!Released(d, X)[e].section \in D!Open \ X
<1>1. D!Released(d, X) \in [Employees -> Post]
  BY DEF ChartInv, D!Released, Post
<1> QED
  BY <1>1 DEF ChartInv, D!ChartConsistent, D!Released

LEMMA DepartmentDeleted ==
  ASSUME NothingApart, ChartInv, NEW d \in Departments, D!DeleteDepartment(d)
  PROVE  ChartInv'
<1> DEFINE X == {s \in D!Open : within[s] = d}
<1>1. /\ within' = [s \in Sections |-> IF s \in X THEN Nothing ELSE within[s]]
      /\ worksIn' = D!Released(d, X)
      /\ name' = [name EXCEPT ![d] = Nothing] /\ UNCHANGED chart
  BY DEF D!DeleteDepartment
<1>2. D!Standing' = D!Standing \ {d}
  BY <1>1 DEF ChartInv, D!Standing
<1>3. D!Open' = D!Open \ X
  BY <1>1 DEF D!Open
<1>4. \A s \in D!Open' : within'[s] \in D!Standing'
  BY <1>1, <1>2, <1>3 DEF ChartInv, D!ChartConsistent, D!Open
<1>5. \A e \in Employees : /\ worksIn'[e].department \in D!Standing' \cup {Nothing}
                           /\ worksIn'[e].section \in D!Open' \cup {Nothing}
  BY <1>1, <1>2, <1>3, PostsReleased
<1>6. \A c, other \in D!Standing' : name'[c] = name'[other] => c = other
  BY <1>1, <1>2 DEF ChartInv, D!ChartConsistent, D!Standing
<1>7. worksIn' \in [Employees -> Post]
  BY <1>1 DEF ChartInv, D!Released, Post
<1> QED
  BY <1>1, <1>4, <1>5, <1>6, <1>7 DEF ChartInv, D!ChartConsistent

LEMMA SectionDeleted ==
  ASSUME NothingApart, ChartInv, NEW s \in Sections, D!DeleteSection(s)
  PROVE  ChartInv'
<1>1. /\ within' = [within EXCEPT ![s] = Nothing] /\ worksIn' = D!Released(Nothing, {s})
      /\ UNCHANGED <<name, chart>>
  BY DEF D!DeleteSection
<1>2. D!Standing' = D!Standing /\ D!Open' = D!Open \ {s}
  BY <1>1 DEF ChartInv, D!Standing, D!Open
<1>3. \A e \in Employees : /\ worksIn'[e].department \in D!Standing' \cup {Nothing}
                           /\ worksIn'[e].section \in D!Open' \cup {Nothing}
  BY <1>1, <1>2, PostsReleased
<1>4. worksIn' \in [Employees -> Post]
  BY <1>1 DEF ChartInv, D!Released, Post
<1> QED
  BY <1>1, <1>2, <1>3, <1>4 DEF ChartInv, D!ChartConsistent, D!Open

LEMMA ChartStep == ASSUME NothingApart, ChartInv, [D!Next]_(D!vars) PROVE ChartInv'
<1>1. ASSUME NEW r \in ChartReqs, D!DepartmentCalls(r) PROVE ChartInv'
  <2>1. ASSUME NEW d \in Departments, NEW n \in DepartmentNames,
               D!CreateDepartment(r, d, n) \/ D!RenameDepartment(r, d, n)
        PROVE  ChartInv'
    <3>1. \A fresh \in BOOLEAN : [op |-> "name", department |-> d, name |-> n, fresh |-> fresh] \in ChartCall
      BY DEF ChartCall
    <3> QED
      BY <2>1, <3>1, ChartBegins DEF D!CreateDepartment, D!RenameDepartment
  <2> QED
    BY <1>1, <2>1, DepartmentDeleted DEF D!DepartmentCalls
<1>2. ASSUME NEW r \in ChartReqs, D!SectionCalls(r) PROVE ChartInv'
  <2>1. ASSUME NEW s \in Sections, NEW d \in Departments, D!CreateSection(r, s, d) PROVE ChartInv'
    <3>1. [op |-> "section", section |-> s, department |-> d] \in ChartCall
      BY DEF ChartCall
    <3> QED
      BY <2>1, <3>1, ChartBegins DEF D!CreateSection
  <2> QED
    BY <1>2, <2>1, SectionDeleted DEF D!SectionCalls
<1>3. ASSUME NEW r \in ChartReqs, NEW e \in Employees, NEW d \in Departments \cup {Nothing},
             NEW s \in Sections \cup {Nothing}, D!Assign(r, e, d, s)
      PROVE  ChartInv'
  <2>1. [op |-> "assign", employee |-> e, department |-> d, section |-> s] \in ChartCall
    BY DEF ChartCall
  <2> QED
    BY <1>3, <2>1, ChartBegins DEF D!Assign
<1>4. ASSUME NEW r \in ChartReqs, D!Fail(r) PROVE ChartInv'
  <2>1. UNCHANGED <<name, within, worksIn>> /\ chart' \in [ChartReqs -> ChartCall]
    BY <1>4, ChartDone DEF D!Fail
  <2> QED
    BY <2>1 DEF ChartInv, D!ChartConsistent, D!Standing, D!Open
<1>5. CASE UNCHANGED D!vars
  BY <1>5 DEF D!vars, ChartInv, D!ChartConsistent, D!Standing, D!Open
<1> QED
  BY <1>1, <1>2, <1>3, <1>4, <1>5, DepartmentNamed, SectionInserted, AssignmentWritten DEF D!Next

\* However requests overlap, a deletion leaves no section without a department
\* and nobody in a department or a section that is gone; names stay apart.
\* (employee_service.py: create_department, delete_department and the rest)
THEOREM ChartStaysConsistent == OfficeSpec => []ChartConsistent
<1> DEFINE Inv == part = "organisation" => ChartInv
<1>1. OfficeInit => Inv
  BY ChartInit, OfficeAssumption DEF OfficeInit
<1>2. Inv /\ [OfficeNext]_officeVars => Inv'
  BY ChartStep, OfficeAssumption, PartsMoveAlone
<1>3. Inv => ChartConsistent
  BY DEF ChartInv, ChartConsistent
<1> QED
  BY <1>1, <1>2, <1>3, PTL DEF OfficeSpec

-----------------------------------------------------------------------------
(***************************************************************************)
(* The import of the asset library: nothing in the store is overwritten,   *)
(* so that what a run has reported stays true.                             *)
(***************************************************************************)

LineStatus == {"NONE", "UNSUPPORTED", "PLANNED", "ALREADY_IDENTICAL", "COLLISION", "COPIED",
               "CHECKSUM_MISMATCH", "FAILED"}
Line == [status : LineStatus, hash : Contents \cup {Nothing}]

\* What a report claims is in the store, which holds something there.
Holds(report) ==
  /\ report \in [I!Index -> Line]
  /\ \A i \in I!Claimed(report) : imported[i] = report[i].hash /\ report[i].hash # Nothing

\* Until the run replaces it, the file it is at has no object.
RunHolds ==
  /\ run \in [step : {"stopped", "hash", "look", "read", "replace", "verify", "end"}, at : I!Index,
              dry : BOOLEAN, hash : Contents \cup {Nothing}, payload : Contents \cup {Nothing}]
  /\ run.step \in {"look", "read", "replace", "verify"} => run.hash # Nothing
  /\ run.step \in {"read", "replace"} => imported[run.at] = Nothing
  /\ run.step = "replace" => run.payload # Nothing

ImportInv ==
  /\ source \in [I!Index -> Contents] /\ imported \in [I!Index -> Contents \cup {Nothing}]
  /\ Holds(entries) /\ Holds(manifest) /\ RunHolds

LEMMA ImportFacts ==
  ASSUME LibraryComplete
  PROVE  1 \in I!Index /\ Holds(I!NoReport) /\ I!Stopped.step = "stopped" /\ I!Stopped.at = 1
         /\ I!Stopped.hash = Nothing /\ I!Stopped.payload = Nothing /\ I!Stopped.dry = FALSE
<1>1. 1 \in I!Index
  BY DEF LibraryComplete, I!Index
<1>2. I!NoEntry \in Line /\ I!NoEntry.status = "NONE"
  BY DEF I!NoEntry, Line, LineStatus
<1>3. Holds(I!NoReport)
  BY <1>2 DEF Holds, I!NoReport, I!Claimed, I!Claims
<1> QED
  BY <1>1, <1>3 DEF I!Stopped

LEMMA ImportInit == ASSUME LibraryComplete, I!Init PROVE ImportInv
<1>1. run = I!Stopped /\ entries = I!NoReport /\ manifest = I!NoReport
  BY DEF I!Init
<1>2. RunHolds
  BY <1>1, ImportFacts DEF RunHolds, I!Stopped
<1>3. Holds(entries) /\ Holds(manifest)
  BY <1>1, ImportFacts
<1> QED
  BY <1>2, <1>3 DEF I!Init, ImportInv

\* A line of the report: what it claims has been seen in the store.
LEMMA Recorded ==
  ASSUME LibraryComplete, ImportInv, NEW status \in LineStatus, I!Record(status),
         UNCHANGED <<source, imported, manifest>>,
         status \in I!Claims => imported[run.at] = run.hash /\ run.hash # Nothing
  PROVE  ImportInv'
<1> DEFINE line == [status |-> status, hash |-> IF status \in I!Claims THEN run.hash ELSE Nothing]
<1>1. run.at \in I!Index /\ run.hash \in Contents \cup {Nothing}
  BY DEF ImportInv, RunHolds
<1>2. entries' = [entries EXCEPT ![run.at] = line]
  BY DEF I!Record, I!At
<1>3. line \in Line /\ line.status = status /\ (status \in I!Claims => line.hash = run.hash)
  BY <1>1 DEF Line
<1> HIDE DEF line
<1>4. Holds(entries)'
  <2>1. entries' \in [I!Index -> Line] /\ entries'[run.at] = line
        /\ \A i \in I!Index : i # run.at => entries'[i] = entries[i]
    BY <1>1, <1>2, <1>3 DEF ImportInv, Holds
  <2> QED
    BY <1>3, <2>1 DEF ImportInv, Holds, I!Claimed, I!Index, I!Claims
<1>5. Holds(manifest)'
  BY DEF ImportInv, Holds, I!Claimed, I!Index, I!Claims
<1>6. RunHolds'
  <2> DEFINE step == IF run.at = Files THEN "end" ELSE "hash"
             at == IF run.at = Files THEN run.at ELSE run.at + 1
             a == [run EXCEPT !.step = step]
             b == [a EXCEPT !.at = at]
             c == [b EXCEPT !.hash = Nothing]
             Runs == [step : {"stopped", "hash", "look", "read", "replace", "verify", "end"}, at : I!Index,
                      dry : BOOLEAN, hash : Contents \cup {Nothing}, payload : Contents \cup {Nothing}]
  <2>1. run' = [c EXCEPT !.payload = Nothing]
    BY DEF I!Record, I!At
  <2>2. at \in I!Index
    BY <1>1 DEF LibraryComplete, I!Index
  <2>3. step \in {"end", "hash"}
    OBVIOUS
  <2> HIDE DEF at, step
  <2>4. a \in Runs /\ a.step = step
    BY <2>3 DEF ImportInv, RunHolds
  <2> HIDE DEF a
  <2>5. b \in Runs /\ b.step = step
    BY <2>2, <2>4
  <2> HIDE DEF b
  <2>6. c \in Runs /\ c.step = step
    BY <2>5
  <2> HIDE DEF c
  <2>7. run' \in Runs /\ run'.step = step
    BY <2>1, <2>6
  <2> QED
    BY <2>3, <2>7 DEF RunHolds, I!Index
<1> QED
  BY <1>4, <1>5, <1>6 DEF ImportInv, I!Index

LEMMA ImportStep == ASSUME LibraryComplete, ImportInv, [I!Next]_(I!vars) PROVE ImportInv'
<1>1. ASSUME NEW dry \in BOOLEAN, I!Start(dry) PROVE ImportInv'
  <2>1. RunHolds'
    BY <1>1, ImportFacts DEF I!Start, RunHolds, I!Stopped, I!Index
  <2> QED
    BY <1>1, <2>1 DEF I!Start, ImportInv, Holds, I!Claimed, I!Index, I!Claims
<1>2. CASE I!Hash
  <2>1. CASE I!Record("UNSUPPORTED") \/ I!Record("PLANNED")
    BY <1>2, <2>1, Recorded DEF I!Hash, I!Claims, LineStatus
  <2>2. CASE run' = [run EXCEPT !.step = "look", !.hash = source[I!At]] /\ source[I!At] \in Images
             /\ UNCHANGED entries
    <3>1. source[run.at] \in Contents /\ source[run.at] # Nothing
      BY DEF LibraryComplete, ImportInv, RunHolds
    <3>2. RunHolds'
      BY <2>2, <3>1 DEF ImportInv, RunHolds, I!At, I!Index
    <3> QED
      BY <1>2, <2>2, <3>2 DEF I!Hash, ImportInv, Holds, I!Claimed, I!Index, I!Claims
  <2> QED
    BY <1>2, <2>1, <2>2 DEF I!Hash
<1>3. CASE I!Look
  <2>1. CASE imported[run.at] = run.hash /\ I!Record("ALREADY_IDENTICAL")
    BY <1>3, <2>1, Recorded DEF I!Look, LineStatus, ImportInv, RunHolds
  <2>2. CASE I!Record("COLLISION")
    BY <1>3, <2>2, Recorded DEF I!Look, I!Claims, LineStatus
  <2>3. CASE imported[run.at] = Nothing /\ I!Go("read") /\ UNCHANGED entries
    <3>1. RunHolds'
      BY <1>3, <2>3 DEF I!Look, I!Go, ImportInv, RunHolds, I!Index
    <3> QED
      BY <1>3, <2>3, <3>1 DEF I!Look, ImportInv, Holds, I!Claimed, I!Index, I!Claims
  <2> QED
    BY <1>3, <2>1, <2>2, <2>3 DEF I!Look, I!At
<1>4. CASE I!ReadFile
  <2>1. source[run.at] \in Contents /\ source[run.at] # Nothing
    BY DEF LibraryComplete, ImportInv, RunHolds
  <2>2. RunHolds'
    BY <1>4, <2>1 DEF I!ReadFile, ImportInv, RunHolds, I!At, I!Index
  <2> QED
    BY <1>4, <2>2 DEF I!ReadFile, ImportInv, Holds, I!Claimed, I!Index, I!Claims
<1>5. CASE I!Replace
  <2>1. /\ run.at \in I!Index /\ run.payload \in Contents /\ run.hash # Nothing
        /\ imported[run.at] = Nothing
        /\ imported' = [imported EXCEPT ![run.at] = run.payload]
        /\ UNCHANGED <<source, entries, manifest>>
    BY <1>5 DEF I!Replace, ImportInv, RunHolds, I!At
  <2>2. RunHolds'
    BY <1>5, <2>1 DEF I!Replace, I!Go, ImportInv, RunHolds, I!Index
  <2>3. Holds(entries)'
    BY <2>1 DEF ImportInv, Holds, I!Claimed, I!Index, I!Claims
  <2>4. Holds(manifest)'
    BY <2>1 DEF ImportInv, Holds, I!Claimed, I!Index, I!Claims
  <2> QED
    BY <2>1, <2>2, <2>3, <2>4 DEF ImportInv, I!Index
<1>6. CASE I!Verify
  <2>1. CASE imported[run.at] = run.hash
    BY <1>6, <2>1, Recorded DEF I!Verify, LineStatus, I!At, ImportInv, RunHolds
  <2>2. CASE imported[run.at] # run.hash
    BY <1>6, <2>2, Recorded DEF I!Verify, LineStatus, I!At, I!Claims
  <2> QED
    BY <2>1, <2>2
<1>7. CASE I!FailFile
  BY <1>7, Recorded DEF I!FailFile, I!Claims, LineStatus
<1>8. CASE I!End \/ I!Kill
  <2>1. run' = I!Stopped /\ entries' = I!NoReport /\ UNCHANGED <<source, imported>>
        /\ manifest' \in {entries, manifest}
    BY <1>8 DEF I!End, I!Kill
  <2>2. RunHolds'
    BY <2>1, ImportFacts DEF RunHolds, I!Stopped, I!Index
  <2>3. Holds(I!NoReport)'
    BY <2>1, ImportFacts DEF Holds, I!Claimed, I!Index, I!Claims, I!NoReport, I!NoEntry
  <2>4. Holds(entries)' /\ Holds(manifest)'
    BY <2>1, <2>3 DEF ImportInv, Holds, I!Claimed, I!Index, I!Claims
  <2> QED
    BY <2>1, <2>2, <2>4 DEF ImportInv, I!Index
<1>9. ASSUME NEW i \in I!Index, NEW b \in Contents, I!EditLibrary(i, b) PROVE ImportInv'
  BY <1>9 DEF I!EditLibrary, ImportInv, Holds, RunHolds, I!Claimed, I!Index, I!Claims
<1>10. CASE UNCHANGED I!vars
  BY <1>10 DEF I!vars, ImportInv, Holds, RunHolds, I!Claimed, I!Index, I!Claims
<1> QED
  BY <1>1, <1>2, <1>3, <1>4, <1>5, <1>6, <1>7, <1>8, <1>9, <1>10 DEF I!Next, I!File

\* Whatever is edited in the library, and wherever a run fails, is killed and
\* started again, what the last manifest claims is in the store as it was hashed.
\* (local_media_migration.py: "nothing is ever silently overwritten")
THEOREM ManifestStaysTrue == OfficeSpec => []ManifestHolds
<1> DEFINE Inv == part = "import" => ImportInv
<1>1. OfficeInit => Inv
  BY ImportInit, OfficeAssumption DEF OfficeInit
<1>2. Inv /\ [OfficeNext]_officeVars => Inv'
  BY ImportStep, OfficeAssumption, PartsMoveAlone
<1>3. Inv => ManifestHolds
  BY DEF ImportInv, Holds, I!ManifestHolds, ManifestHolds
<1> QED
  BY <1>1, <1>2, <1>3, PTL DEF OfficeSpec

-----------------------------------------------------------------------------
(***************************************************************************)
(* The offers desk: an edit sends only what it changes, and never the use  *)
(* counter, so that it takes back no use and what it checked still holds.  *)
(***************************************************************************)

\* Two edits that overlap may each change one date, and cross them.
OneOfferDesk == \A d, e \in OfferDesks : d = e

Columns == {"code", "kind", "value", "starts", "expires", "active", "count"}

RowSound(row) == O!ValidFields(row) /\ row.value \in Int

EditSound(q) ==
  /\ q.of \subseteq Coupons
  /\ DOMAIN q.set \subseteq Columns \ {"count"}
  /\ \A c \in q.of : RowSound(O!Merged(c, q.set))

OffersInv ==
  /\ DOMAIN offer = Coupons /\ \A c \in Coupons : DOMAIN offer[c] = Columns
  /\ uses \in [Coupons -> Nat]
  /\ \A c \in Coupons : RowSound(offer[c]) /\ offer[c].count = uses[c]
  /\ \A c, other \in O!Standing : offer[c].code = offer[other].code => c = other
  /\ order.of \subseteq Coupons /\ \A c \in order.of : order.count = offer[c].count
  /\ DOMAIN edit = OfferDesks /\ \A d \in OfferDesks : EditSound(edit[d])

LEMMA OfferRows ==
  /\ DOMAIN O!NoCoupon = Columns /\ RowSound(O!NoCoupon)
  /\ O!NoCoupon.count = 0 /\ O!NoCoupon.code = "none"
  /\ EditSound(O!Idle)
  /\ O!NoOrder.of = {}
BY DEF O!NoCoupon, RowSound, O!ValidFields, O!Idle, O!NoOrder, Columns, EditSound

LEMMA OffersInit == ASSUME O!Init PROVE OffersInv
<1>1. O!Standing = {}
  BY OfferRows DEF O!Init, O!Standing
<1> QED
  BY <1>1, OfferRows DEF O!Init, OffersInv

\* The merged row: what was sent, over what is there.
LEMMA MergedRow ==
  ASSUME OffersInv, NEW c \in Coupons, NEW sent
  PROVE  /\ DOMAIN O!Merged(c, sent) = Columns
         /\ \A k \in Columns : O!Merged(c, sent)[k] = IF k \in DOMAIN sent THEN sent[k] ELSE offer[c][k]
BY DEF OffersInv, O!Merged

\* An edit loads only what differs, and merges to the row it checked.
LEMMA Loaded ==
  ASSUME OffersInv, OneOfferDesk, NEW d \in OfferDesks, NEW c \in Coupons, NEW sent,
         DOMAIN sent \subseteq Columns \ {"count"}, O!ValidFields(O!Merged(c, sent)),
         "value" \in DOMAIN sent => sent["value"] \in Int,
         O!Load(d, c, sent)
  PROVE  OffersInv'
<1>0. RowSound(O!Merged(c, sent))
  BY MergedRow DEF RowSound, OffersInv, Columns
<1> DEFINE dirty == O!Dirty(c, sent)
<1>1. DOMAIN dirty \subseteq DOMAIN sent /\ \A k \in DOMAIN dirty : dirty[k] = sent[k]
  BY DEF O!Dirty
<1>2. \A k \in DOMAIN sent : k \notin DOMAIN dirty => sent[k] = offer[c][k]
  BY DEF O!Dirty
<1>3. O!Merged(c, dirty) = O!Merged(c, sent)
  <2>1. \A k \in Columns : O!Merged(c, dirty)[k] = O!Merged(c, sent)[k]
    BY <1>1, <1>2, MergedRow
  <2> QED
    BY <2>1 DEF OffersInv, O!Merged
<1> HIDE DEF dirty
<1>4. PICK q : q.of = {c} /\ q.set = dirty /\ edit' = [edit EXCEPT ![d] = q]
  <2> DEFINE new == [of |-> {c}, fresh |-> c \notin O!Standing, set |-> dirty]
  <2>1. new.of = {c} /\ new.set = dirty
    OBVIOUS
  <2>2. edit' = [edit EXCEPT ![d] = new]
    BY DEF O!Load, dirty
  <2> HIDE DEF new
  <2> QED
    BY <2>1, <2>2
<1>5. UNCHANGED <<offer, uses, order>>
  BY DEF O!Load
<1>6. EditSound(q)
  BY <1>0, <1>1, <1>3, <1>4 DEF EditSound
<1>7. EditSound(q)'
  BY <1>5, <1>6 DEF EditSound, RowSound, O!ValidFields, O!Merged
<1>8. DOMAIN edit' = OfferDesks /\ \A e \in OfferDesks : edit'[e] = q
  BY <1>4 DEF OffersInv, OneOfferDesk
<1> QED
  BY <1>5, <1>7, <1>8 DEF OffersInv, O!Standing, RowSound, O!ValidFields

\* The checks of each request hold of the row it will write.
LEMMA OfferRequested ==
  ASSUME AmountsAreNumbers, OffersInv, OneOfferDesk, NEW d \in OfferDesks, O!OfferCalls(d)
  PROVE  OffersInv'
<1>1. ASSUME NEW c \in Coupons, NEW code \in Codes, NEW kind \in {"percentage", "fixed"}, NEW value \in Values,
             NEW starts \in 0..LastDate, NEW expires \in 0..LastDate,
             O!CreateOffer(d, c, code, kind, value, starts, expires)
      PROVE  OffersInv'
  <2> DEFINE sent == [code |-> code, kind |-> kind, value |-> value, starts |-> starts,
                      expires |-> expires, active |-> TRUE]
  <2>1. DOMAIN sent \subseteq Columns \ {"count"} /\ sent["value"] \in Int
    BY DEF Columns, AmountsAreNumbers
  <2>2. O!ValidFields(O!Merged(c, sent)) /\ O!Load(d, c, sent)
    BY <1>1 DEF O!CreateOffer
  <2> HIDE DEF sent
  <2> QED
    BY <2>1, <2>2, Loaded
<1>2. ASSUME NEW c \in Coupons, NEW sent \in O!Patches, O!UpdateOffer(d, c, sent) PROVE OffersInv'
  <2>1. DOMAIN sent \subseteq Columns \ {"count"} /\ ("value" \in DOMAIN sent => sent["value"] \in Int)
    BY DEF O!Patches, Columns, AmountsAreNumbers
  <2> QED
    BY <1>2, <2>1, Loaded DEF O!UpdateOffer
<1>3. ASSUME NEW c \in Coupons, NEW active \in BOOLEAN, O!SwitchOffer(d, c, active) PROVE OffersInv'
  <2> DEFINE sent == [active |-> active]
  <2>1. DOMAIN sent = {"active"}
    OBVIOUS
  <2>2. O!Load(d, c, sent)
    BY <1>3 DEF O!SwitchOffer
  <2> HIDE DEF sent
  <2>3. \A k \in Columns \ {"active"} : O!Merged(c, sent)[k] = offer[c][k]
    BY <2>1, MergedRow
  <2>4. O!ValidFields(O!Merged(c, sent))
    BY <2>3 DEF OffersInv, RowSound, O!ValidFields, Columns
  <2>5. DOMAIN sent \subseteq Columns \ {"count"} /\ "value" \notin DOMAIN sent
    BY <2>1 DEF Columns
  <2> QED
    BY <2>2, <2>4, <2>5, Loaded
<1> QED
  BY <1>1, <1>2, <1>3 DEF O!OfferCalls

\* The table keeps codes apart; the row written is the one that was checked.
LEMMA OfferWritten ==
  ASSUME OffersInv, OneOfferDesk, NEW d \in OfferDesks, O!Write(d)
  PROVE  OffersInv'
<1>1. PICK c \in edit[d].of :
        /\ O!CodeUnused(c, O!Merged(c, edit[d].set).code)
        /\ offer' = [offer EXCEPT ![c] = O!Merged(c, edit[d].set)]
        /\ edit' = [edit EXCEPT ![d] = O!Idle]
        /\ UNCHANGED <<uses, order>>
  BY DEF O!Write
<1>2. c \in Coupons /\ DOMAIN edit[d].set \subseteq Columns \ {"count"}
      /\ RowSound(O!Merged(c, edit[d].set))
  BY <1>1 DEF OffersInv, EditSound
<1>3. PICK row : row = O!Merged(c, edit[d].set)
  OBVIOUS
<1>4. DOMAIN row = Columns /\ row.count = offer[c].count /\ RowSound(row)
  <2>1. O!Merged(c, edit[d].set)["count"] = offer[c]["count"]
    BY <1>2, MergedRow DEF Columns
  <2> QED
    BY <1>2, <1>3, <2>1, MergedRow
<1>5. DOMAIN offer' = Coupons /\ offer'[c] = row /\ \A x \in Coupons : x # c => offer'[x] = offer[x]
  BY <1>1, <1>2, <1>3 DEF OffersInv
<1>6. \A x, other \in O!Standing' : offer'[x].code = offer'[other].code => x = other
  BY <1>1, <1>2, <1>3, <1>5 DEF OffersInv, O!CodeUnused, O!Standing
<1>7. \A e \in OfferDesks : edit'[e] = O!Idle
  BY <1>1 DEF OffersInv, OneOfferDesk
<1>8. EditSound(O!Idle)'
  BY DEF EditSound, O!Idle, Columns
<1>9. DOMAIN edit' = OfferDesks
  BY <1>1 DEF OffersInv
<1> QED
  BY <1>1, <1>4, <1>5, <1>6, <1>7, <1>8, <1>9 DEF OffersInv, RowSound, O!ValidFields

\* An order adds one to the counter it read, and nothing else to the row.
LEMMA OfferUsed == ASSUME OffersInv, O!OrderWrites PROVE OffersInv'
<1>1. PICK c \in order.of :
        /\ offer' = [offer EXCEPT ![c].count = order.count + 1]
        /\ uses' = [uses EXCEPT ![c] = @ + 1]
        /\ order' = O!NoOrder /\ UNCHANGED edit
  BY DEF O!OrderWrites
<1>2. c \in Coupons /\ order.count = uses[c]
  BY <1>1 DEF OffersInv
<1>3. PICK row : row = [offer[c] EXCEPT !.count = order.count + 1]
  OBVIOUS
<1>4. DOMAIN row = Columns /\ row.count = uses[c] + 1 /\ \A k \in Columns \ {"count"} : row[k] = offer[c][k]
  BY <1>2, <1>3 DEF OffersInv, Columns
<1>5. DOMAIN offer' = Coupons /\ offer'[c] = row /\ \A x \in Coupons : x # c => offer'[x] = offer[x]
  BY <1>1, <1>2, <1>3 DEF OffersInv
<1>6. uses' \in [Coupons -> Nat] /\ uses'[c] = uses[c] + 1 /\ \A x \in Coupons : x # c => uses'[x] = uses[x]
  BY <1>1, <1>2 DEF OffersInv
<1>7. \A x \in Coupons, k \in Columns \ {"count"} : offer'[x][k] = offer[x][k]
  BY <1>4, <1>5
<1>8. \A x \in Coupons : DOMAIN offer'[x] = Columns /\ RowSound(offer'[x]) /\ offer'[x].count = uses'[x]
  BY <1>4, <1>5, <1>6, <1>7 DEF OffersInv, RowSound, O!ValidFields, Columns
<1>9. \A x, other \in O!Standing' : offer'[x].code = offer'[other].code => x = other
  BY <1>7 DEF OffersInv, O!Standing, Columns
<1>10. ASSUME NEW d \in OfferDesks PROVE EditSound(edit[d])'
  <2>1. EditSound(edit[d])
    BY DEF OffersInv
  <2>2. ASSUME NEW x \in edit[d].of PROVE RowSound(O!Merged(x, edit[d].set)')
    <3>1. x \in Coupons /\ RowSound(O!Merged(x, edit[d].set))
      BY <2>1 DEF EditSound
    <3>2. PICK old, new : old = O!Merged(x, edit[d].set) /\ new = O!Merged(x, edit[d].set)'
      OBVIOUS
    <3>3. \A k \in Columns \ {"count"} : new[k] = old[k]
      BY <1>1, <1>7, <1>8, <3>1, <3>2 DEF OffersInv, O!Merged
    <3> QED
      BY <3>1, <3>2, <3>3 DEF RowSound, O!ValidFields, Columns
  <2> QED
    BY <1>1, <2>1, <2>2 DEF EditSound, RowSound, O!ValidFields
<1>11. order'.of = {}
  BY <1>1, OfferRows
<1> QED
  BY <1>1, <1>5, <1>6, <1>8, <1>9, <1>10, <1>11 DEF OffersInv, RowSound, O!ValidFields

LEMMA OffersStep == ASSUME AmountsAreNumbers, OneOfferDesk, OffersInv, [O!Next]_(O!vars) PROVE OffersInv'
<1>1. ASSUME NEW d \in OfferDesks, O!Abort(d) PROVE OffersInv'
  <2>1. DOMAIN edit' = OfferDesks /\ (\A e \in OfferDesks : edit'[e] = O!Idle)
        /\ UNCHANGED <<offer, uses, order>>
    BY <1>1 DEF O!Abort, OffersInv, OneOfferDesk
  <2>2. EditSound(O!Idle)'
    BY DEF EditSound, O!Idle, Columns
  <2> QED
    BY <2>1, <2>2 DEF OffersInv, O!Standing, RowSound, O!ValidFields
<1>2. ASSUME NEW c \in Coupons, O!OrderReads(c) PROVE OffersInv'
  <2>1. order'.of = {c} /\ order'.count = offer[c].count /\ UNCHANGED <<offer, uses, edit>>
    BY <1>2 DEF O!OrderReads
  <2> QED
    BY <2>1 DEF OffersInv, O!Standing, RowSound, O!ValidFields, EditSound, O!Merged
<1>3. CASE UNCHANGED O!vars
  BY <1>3 DEF O!vars, OffersInv, O!Standing, RowSound, O!ValidFields, EditSound, O!Merged
<1> QED
  BY <1>1, <1>2, <1>3, OfferRequested, OfferWritten, OfferUsed DEF O!Next

\* As long as one edit is under way at a time, and whatever orders are placed
\* during it, codes stay apart, rows stay valid and no use is taken back.
\* (api/v1/coupons.py:477 admin_update_offer)
THEOREM OffersStaySound ==
  ASSUME OneOfferDesk
  PROVE  OfficeSpec => []OffersSound
<1> DEFINE Inv == part = "offers" => OffersInv
<1>1. OfficeInit => Inv
  BY OffersInit, OfficeAssumption DEF OfficeInit
<1>2. Inv /\ [OfficeNext]_officeVars => Inv'
  BY OffersStep, OfficeAssumption, PartsMoveAlone
<1>3. Inv => OffersSound
  BY DEF OffersInv, O!OffersSound, O!Standing, RowSound, O!ValidFields, OffersSound
<1> QED
  BY <1>1, <1>2, <1>3, PTL DEF OfficeSpec

-----------------------------------------------------------------------------
(***************************************************************************)
(* Product images: the store and the rows change in different steps, and a *)
(* crash in between must leave no image that is not there.                 *)
(***************************************************************************)

\* A deletion looks for uses once, so an upload meanwhile may lose its object.
OneMediaRequest == \A r, s \in MediaReqs : r = s

UploadSound(q) ==
  /\ q.op \in {"idle", "attach", "remove", "forget"}
  /\ q.op = "attach" => q.key \in ObjectKeys /\ q.checksum # Nothing /\ object[q.key] # Nothing
  /\ q.op \in {"remove", "forget"} => \A p \in Products : q.key \notin images[p]

MediaInv ==
  /\ DOMAIN object = ObjectKeys /\ DOMAIN asset = ObjectKeys
  /\ images \in [Products -> SUBSET ObjectKeys] /\ primary \in [Products -> SUBSET ObjectKeys]
  /\ \A p \in Products : \A k \in images[p] : object[k] # Nothing /\ asset[k] # Nothing
  /\ \A p \in Products : primary[p] \subseteq images[p] /\ \A j, k \in primary[p] : j = k
  /\ DOMAIN upload = MediaReqs /\ \A r \in MediaReqs : UploadSound(upload[r])

LEMMA MediaInit == ASSUME M!Init PROVE MediaInv
BY DEF M!Init, M!Idle, MediaInv, UploadSound

\* A request that ends leaves none under way.
LEMMA UploadDone ==
  ASSUME MediaInv, OneMediaRequest, NEW r \in MediaReqs, M!Done(r)
  PROVE  DOMAIN upload' = MediaReqs /\ \A s \in MediaReqs : UploadSound(upload[s])'
<1>1. DOMAIN upload' = MediaReqs /\ \A s \in MediaReqs : upload'[s] = M!Idle
  BY DEF MediaInv, OneMediaRequest, M!Done
<1>2. UploadSound(M!Idle)'
  BY DEF UploadSound, M!Idle
<1> QED
  BY <1>1, <1>2

\* An upload may add an object, and replaces none.
LEMMA ObjectPut ==
  ASSUME BytesAreSomething, MediaInv, NEW k \in ObjectKeys, NEW b \in Bytes, M!Put(k, b)
  PROVE  /\ DOMAIN object' = ObjectKeys /\ object'[k] # Nothing
         /\ \A j \in ObjectKeys : object[j] # Nothing => object'[j] # Nothing
BY DEF BytesAreSomething, MediaInv, M!Put

LEMMA ProductUploaded ==
  ASSUME BytesAreSomething, OneMediaRequest, MediaInv, NEW r \in MediaReqs, NEW k \in ObjectKeys, NEW b \in Bytes,
         NEW p \in Products, NEW main \in BOOLEAN, M!ProductUpload(r, k, b, p, main)
  PROVE  MediaInv'
<1> DEFINE new == [op |-> "attach", key |-> k, product |-> {p}, main |-> main, checksum |-> b]
<1>1. M!Begin(r, new) /\ M!Put(k, b) /\ UNCHANGED <<asset, images, primary>>
  BY DEF M!ProductUpload
<1>2. new.op = "attach" /\ new.key = k /\ new.checksum = b
  OBVIOUS
<1> HIDE DEF new
<1>3. DOMAIN upload' = MediaReqs /\ \A s \in MediaReqs : upload'[s] = new
  BY <1>1 DEF MediaInv, OneMediaRequest, M!Begin
<1>4. \A s \in MediaReqs : UploadSound(upload[s])'
  BY <1>1, <1>2, <1>3, ObjectPut DEF UploadSound, BytesAreSomething
<1> QED
  BY <1>1, <1>3, <1>4, ObjectPut DEF MediaInv

LEMMA Attached ==
  ASSUME OneMediaRequest, MediaInv, NEW r \in MediaReqs, M!Attach(r)
  PROVE  MediaInv'
<1> DEFINE k == upload[r].key
           of == upload[r].product
           main == upload[r].main
<1>0. k \in ObjectKeys /\ object[k] # Nothing /\ upload[r].checksum # Nothing
  BY DEF M!Attach, MediaInv, UploadSound
<1>1. /\ asset' = [asset EXCEPT ![k] = IF @ = Nothing THEN upload[r].checksum ELSE @]
      /\ images' = [p \in Products |-> IF p \in of THEN images[p] \cup {k} ELSE images[p]]
      /\ primary' = [p \in Products |-> IF p \notin of THEN primary[p]
                                        ELSE IF main THEN {k} ELSE primary[p] \ {k}]
      /\ UNCHANGED object
  BY DEF M!Attach
<1> HIDE DEF k, of, main
<1>2. DOMAIN asset' = ObjectKeys /\ asset'[k] # Nothing /\ \A j \in ObjectKeys : asset[j] # Nothing => asset'[j] # Nothing
  BY <1>0, <1>1 DEF MediaInv
<1>3. images' \in [Products -> SUBSET ObjectKeys] /\ primary' \in [Products -> SUBSET ObjectKeys]
  BY <1>0, <1>1 DEF MediaInv
<1>4. \A p \in Products : primary'[p] \subseteq images'[p] /\ \A j, i \in primary'[p] : j = i
  BY <1>0, <1>1 DEF MediaInv
<1>5. \A p \in Products : \A j \in images'[p] : object'[j] # Nothing /\ asset'[j] # Nothing
  BY <1>0, <1>1, <1>2 DEF MediaInv
<1> QED
  BY <1>1, <1>2, <1>3, <1>4, <1>5, UploadDone DEF MediaInv, M!Attach

LEMMA Duplicated ==
  ASSUME MediaInv, NEW p \in Products, NEW copy \in Products, M!Duplicate(p, copy)
  PROVE  MediaInv'
<1>1. /\ images' \in [Products -> SUBSET ObjectKeys] /\ primary' \in [Products -> SUBSET ObjectKeys]
      /\ images'[copy] = images[p] /\ primary'[copy] = primary[p]
      /\ \A o \in Products : o # copy => images'[o] = images[o] /\ primary'[o] = primary[o]
      /\ UNCHANGED <<object, asset, upload>>
  BY DEF M!Duplicate, MediaInv
<1>2. ASSUME NEW r \in MediaReqs PROVE UploadSound(upload[r])'
  BY <1>1 DEF MediaInv, UploadSound
<1> QED
  BY <1>1, <1>2 DEF MediaInv

\* What is deleted is an object that no product shows.
LEMMA Deleted ==
  ASSUME OneMediaRequest, MediaInv, NEW r \in MediaReqs,
         (\E k \in ObjectKeys : M!DeleteRead(r, k)) \/ M!DeleteObject(r) \/ M!DeleteRow(r)
  PROVE  MediaInv'
<1>1. ASSUME NEW k \in ObjectKeys, M!DeleteRead(r, k) PROVE MediaInv'
  <2> DEFINE q == [op |-> "remove", key |-> k, row |-> asset[k] # Nothing]
  <2>1. \A p \in Products : k \notin images[p]
    BY <1>1 DEF M!DeleteRead, M!UsedBy, MediaInv
  <2>2. M!Begin(r, q) /\ UNCHANGED <<object, asset, images, primary>>
    BY <1>1 DEF M!DeleteRead
  <2>3. q.op = "remove" /\ q.key = k
    OBVIOUS
  <2> HIDE DEF q
  <2>4. DOMAIN upload' = MediaReqs /\ \A s \in MediaReqs : upload'[s] = q
    BY <2>2 DEF MediaInv, OneMediaRequest, M!Begin
  <2>5. \A s \in MediaReqs : UploadSound(upload[s])'
    BY <2>1, <2>2, <2>3, <2>4 DEF UploadSound
  <2> QED
    BY <2>2, <2>4, <2>5 DEF MediaInv
<1>2. CASE M!DeleteObject(r)
  <2>1. \A p \in Products : upload[r].key \notin images[p]
    BY <1>2 DEF M!DeleteObject, MediaInv, UploadSound
  <2>2. /\ DOMAIN object' = ObjectKeys /\ UNCHANGED <<asset, images, primary>>
        /\ \A k \in ObjectKeys : k # upload[r].key => object'[k] = object[k]
    BY <1>2 DEF M!DeleteObject, MediaInv
  <2>3. DOMAIN upload' = MediaReqs /\ \A s \in MediaReqs : upload'[s].op = "forget" /\ upload'[s].key = upload[r].key
    BY <1>2 DEF M!DeleteObject, MediaInv, OneMediaRequest
  <2>4. \A s \in MediaReqs : UploadSound(upload[s])'
    BY <2>1, <2>2, <2>3 DEF UploadSound
  <2> QED
    BY <2>1, <2>2, <2>3, <2>4 DEF MediaInv
<1>3. CASE M!DeleteRow(r)
  <2>1. \A p \in Products : upload[r].key \notin images[p]
    BY <1>3 DEF M!DeleteRow, MediaInv, UploadSound
  <2>2. /\ DOMAIN asset' = ObjectKeys /\ images' \in [Products -> SUBSET ObjectKeys] /\ primary' \in [Products -> SUBSET ObjectKeys]
        /\ \A p \in Products : images'[p] = images[p] /\ primary'[p] = primary[p]
        /\ \A k \in ObjectKeys : k # upload[r].key => asset'[k] = asset[k]
        /\ UNCHANGED object
    BY <1>3, <2>1 DEF M!DeleteRow, MediaInv
  <2> QED
    BY <1>3, <2>1, <2>2, UploadDone DEF MediaInv, M!DeleteRow
<1> QED
  BY <1>1, <1>2, <1>3

LEMMA MediaStep ==
  ASSUME BytesAreSomething, OneMediaRequest, MediaInv, [M!Next]_(M!vars) PROVE MediaInv'
<1>1. ASSUME NEW r \in MediaReqs, NEW k \in ObjectKeys, NEW of, NEW main \in BOOLEAN, M!Register(r, k, of, main)
      PROVE  MediaInv'
  <2> DEFINE q == [op |-> "attach", key |-> k, product |-> of, main |-> main, checksum |-> object[k]]
  <2>1. object[k] # Nothing /\ M!Begin(r, q) /\ UNCHANGED <<object, asset, images, primary>>
    BY <1>1 DEF M!Register
  <2>2. q.op = "attach" /\ q.key = k /\ q.checksum = object[k]
    OBVIOUS
  <2> HIDE DEF q
  <2>3. DOMAIN upload' = MediaReqs /\ \A s \in MediaReqs : upload'[s] = q
    BY <2>1 DEF MediaInv, OneMediaRequest, M!Begin
  <2>4. \A s \in MediaReqs : UploadSound(upload[s])'
    BY <2>1, <2>2, <2>3 DEF UploadSound
  <2> QED
    BY <2>1, <2>3, <2>4 DEF MediaInv
<1>2. ASSUME NEW r \in MediaReqs, M!MediaCalls(r) PROVE MediaInv'
  BY <1>1, <1>2, ProductUploaded, Attached, Deleted DEF M!MediaCalls
<1>3. ASSUME NEW r \in MediaReqs, M!Crash(r) PROVE MediaInv'
  BY <1>3, UploadDone DEF M!Crash, MediaInv
<1>4. ASSUME NEW k \in ObjectKeys, NEW b \in Bytes, M!Upload(k, b) PROVE MediaInv'
  <2>1. UNCHANGED <<asset, images, primary, upload>> /\ M!Put(k, b)
    BY <1>4 DEF M!Upload
  <2>2. \A r \in MediaReqs : UploadSound(upload[r])'
    BY <2>1, ObjectPut DEF MediaInv, UploadSound
  <2> QED
    BY <2>1, <2>2, ObjectPut DEF MediaInv
<1>5. CASE M!MarketingCalls
  BY <1>5 DEF M!MarketingCalls, M!Place, M!Move, M!Unplace, MediaInv, UploadSound
<1>6. CASE UNCHANGED M!vars
  BY <1>6 DEF M!vars, MediaInv, UploadSound
<1> QED
  BY <1>2, <1>3, <1>4, <1>5, <1>6, Duplicated DEF M!Next

LEMMA MediaCount == \A X : M!Cardinality(X) = Cardinality(X)
BY DEF Cardinality, M!Cardinality

LEMMA GalleryHolds == ASSUME MediaInv PROVE M!GalleryIntact
<1>1. ASSUME NEW p \in Products PROVE M!Cardinality(primary[p]) <= 1
  <2>1. primary[p] = {} \/ \E k \in primary[p] : primary[p] = {k}
    BY DEF MediaInv
  <2>2. Cardinality(primary[p]) \in {0, 1}
    BY <2>1, FS_EmptySet, FS_Singleton
  <2> QED
    BY <2>2, MediaCount
<1> QED
  BY <1>1 DEF MediaInv, M!GalleryIntact, M!Shown

\* As long as uploads and deletions come one at a time, and wherever they crash,
\* every image a product shows is in the store, and one at most is primary.
\* (api/v1/media.py:380 and what follows it)
THEOREM GalleryStaysIntact ==
  ASSUME OneMediaRequest
  PROVE  OfficeSpec => []GalleryIntact
<1> DEFINE Inv == part = "media" => MediaInv
<1>1. OfficeInit => Inv
  BY MediaInit, OfficeAssumption DEF OfficeInit
<1>2. Inv /\ [OfficeNext]_officeVars => Inv'
  BY MediaStep, OfficeAssumption, PartsMoveAlone
<1>3. Inv => GalleryIntact
  BY GalleryHolds DEF GalleryIntact
<1> QED
  BY <1>1, <1>2, <1>3, PTL DEF OfficeSpec

-----------------------------------------------------------------------------
(***************************************************************************)
(* A customer's own rows.  Nothing in the tables keeps the default address *)
(* unique: the argument is that the set of rows a request demotes is still *)
(* the set of defaults when it commits.                                    *)
(***************************************************************************)

\* Two address requests may each promote their own.
OneEditor == \A r, s \in Editors : r = s

AtMostOne(X) == \A a, b \in X : a = b

\* What an address request will write, from what is there now.
VisitSound(q) ==
  q.op = "address" =>
    /\ q.promoted \subseteq address \cup q.new /\ AtMostOne(q.promoted)
    /\ q.promoted # {} => default \ q.demoted \subseteq q.promoted
    /\ q.promoted = {} => address # {}

ProfileInv ==
  /\ AtMostOne(default) /\ default \subseteq address /\ unset \in BOOLEAN
  /\ address # {} /\ ~unset => default # {}
  /\ wish \in [Favourites -> {0, 1}]
  /\ DOMAIN email = Users /\ \A u, v \in Users : email[u] = email[v] => u = v
  /\ DOMAIN visit = Editors \cup CustomerTabs
  /\ \A r \in Editors : VisitSound(visit[r])

LEMMA ProfileInit == ASSUME P!Init PROVE ProfileInv
BY DEF P!Init, P!Idle, ProfileInv, VisitSound, AtMostOne

\* A request that begins has read the rows there are.
LEMMA VisitBegins ==
  ASSUME OneEditor, ProfileInv, NEW r \in Editors, NEW q, VisitSound(q), P!Begin(r, q)
  PROVE  ProfileInv'
<1>1. DOMAIN visit' = Editors \cup CustomerTabs /\ \A s \in Editors : visit'[s] = q
  BY DEF ProfileInv, OneEditor, P!Begin
<1>2. VisitSound(q)'
  BY DEF VisitSound, P!Begin
<1> QED
  BY <1>1, <1>2 DEF ProfileInv, P!Begin

LEMMA AddressRequested ==
  ASSUME OneEditor, ProfileInv, NEW r \in Editors, P!AddressCalls(r)
  PROVE  ProfileInv'
<1>1. ASSUME NEW a \in Addresses, NEW wanted \in BOOLEAN, P!CreateAddress(r, a, wanted) PROVE ProfileInv'
  <2> DEFINE q == [op |-> "address", new |-> {a}, demoted |-> P!Demote(wanted),
                   promoted |-> IF wanted \/ address = {} THEN {a} ELSE {}]
  <2>1. q.new = {a} /\ q.demoted = P!Demote(wanted)
        /\ q.promoted = IF wanted \/ address = {} THEN {a} ELSE {}
    OBVIOUS
  <2>2. P!Begin(r, q)
    BY <1>1 DEF P!CreateAddress
  <2> HIDE DEF q
  <2>3. VisitSound(q)
    BY <2>1 DEF VisitSound, ProfileInv, AtMostOne, P!Demote
  <2> QED
    BY <2>2, <2>3, VisitBegins
<1>2. ASSUME NEW a \in Addresses, P!SetDefault(r, a) PROVE ProfileInv'
  <2> DEFINE q == [op |-> "address", new |-> {}, demoted |-> P!Demote(TRUE) \ {a}, promoted |-> {a}]
  <2>1. q.new = {} /\ q.demoted = default \ {a} /\ q.promoted = {a}
    BY DEF P!Demote
  <2>2. P!Begin(r, q) /\ a \in address
    BY <1>2 DEF P!SetDefault
  <2> HIDE DEF q
  <2>3. VisitSound(q)
    BY <2>1, <2>2 DEF VisitSound, ProfileInv, AtMostOne
  <2> QED
    BY <2>2, <2>3, VisitBegins
<1>3. ASSUME NEW a \in Addresses, P!UnsetDefault(r, a) PROVE ProfileInv'
  <2> DEFINE q == [op |-> "address", new |-> {}, demoted |-> {a}, promoted |-> {}]
  <2>1. q.new = {} /\ q.promoted = {}
    OBVIOUS
  <2>2. P!Begin(r, q) /\ a \in default
    BY <1>3 DEF P!UnsetDefault
  <2> HIDE DEF q
  <2>3. VisitSound(q)
    BY <2>1, <2>2 DEF VisitSound, ProfileInv, AtMostOne
  <2> QED
    BY <2>2, <2>3, VisitBegins
<1>4. ASSUME NEW a \in Addresses, P!DeleteAddress(r, a) PROVE ProfileInv'
  <2> DEFINE q == [op |-> "delete", of |-> a]
  <2>1. q.op = "delete" /\ P!Begin(r, q)
    BY <1>4 DEF P!DeleteAddress
  <2> HIDE DEF q
  <2>2. VisitSound(q)
    BY <2>1 DEF VisitSound
  <2> QED
    BY <2>1, <2>2, VisitBegins
<1> QED
  BY <1>1, <1>2, <1>3, <1>4 DEF P!AddressCalls

LEMMA EditorDone ==
  ASSUME OneEditor, ProfileInv, NEW r \in Editors, P!Done(r)
  PROVE  DOMAIN visit' = Editors \cup CustomerTabs /\ \A s \in Editors : VisitSound(visit[s])'
<1>1. DOMAIN visit' = Editors \cup CustomerTabs /\ \A s \in Editors : visit'[s] = P!Idle
  BY DEF ProfileInv, OneEditor, P!Done
<1> QED
  BY <1>1 DEF VisitSound, P!Idle

LEMMA AddressWritten ==
  ASSUME OneEditor, ProfileInv, NEW r \in Editors, P!WriteAddress(r) \/ P!RemoveAddress(r)
  PROVE  ProfileInv'
<1>1. P!Done(r) /\ UNCHANGED <<live, wish, email>>
  BY DEF P!WriteAddress, P!RemoveAddress
<1>2. CASE P!WriteAddress(r)
  <2>1. PICK new, demoted, promoted :
          /\ promoted \subseteq address \cup new /\ AtMostOne(promoted)
          /\ promoted # {} => default \ demoted \subseteq promoted
          /\ promoted = {} => address # {}
          /\ address' = address \cup new
          /\ default' = (default \ demoted) \cup promoted
          /\ unset' = IF promoted # {} THEN FALSE ELSE unset \/ demoted # {}
    <3>1. VisitSound(visit[r]) /\ visit[r].op = "address"
      BY <1>2 DEF ProfileInv, P!WriteAddress
    <3> QED
      BY <1>2, <3>1 DEF VisitSound, P!WriteAddress
  <2>2. AtMostOne(default)' /\ default' \subseteq address' /\ unset' \in BOOLEAN
    BY <2>1 DEF ProfileInv, AtMostOne
  <2>3. address' # {} /\ ~unset' => default' # {}
    BY <2>1 DEF ProfileInv
  <2> QED
    BY <1>1, <2>2, <2>3, EditorDone DEF ProfileInv
<1>3. CASE P!RemoveAddress(r)
  <2>1. PICK a : /\ address' = address \ {a} /\ default' = default \ {a}
                 /\ unset' = (unset \/ a \in default)
    BY <1>3 DEF P!RemoveAddress
  <2> QED
    BY <1>1, <2>1, EditorDone DEF ProfileInv, AtMostOne
<1> QED
  BY <1>2, <1>3

\* A customer's other requests leave the addresses, and the editor, alone.
LEMMA OthersBegin ==
  ASSUME ProfileInv, NEW r \in CustomerTabs, NEW q, VisitSound(q), P!Begin(r, q)
  PROVE  ProfileInv'
<1>1. DOMAIN visit' = Editors \cup CustomerTabs /\ \A s \in Editors : visit'[s] \in {q, visit[s]}
  BY DEF ProfileInv, P!Begin
<1>2. \A s \in Editors : VisitSound(visit[s])'
  BY <1>1 DEF VisitSound, ProfileInv, P!Begin
<1> QED
  BY <1>1, <1>2 DEF ProfileInv, P!Begin

LEMMA OthersDone ==
  ASSUME ProfileInv, NEW r \in Editors \cup CustomerTabs, P!Done(r), UNCHANGED <<address, default>>
  PROVE  DOMAIN visit' = Editors \cup CustomerTabs /\ \A s \in Editors : VisitSound(visit[s])'
<1>1. DOMAIN visit' = Editors \cup CustomerTabs /\ \A s \in Editors : visit'[s] \in {P!Idle, visit[s]}
  BY DEF ProfileInv, P!Done
<1> QED
  BY <1>1 DEF VisitSound, ProfileInv, P!Idle

LEMMA OthersStep ==
  ASSUME ProfileInv, NEW r \in CustomerTabs,
         \/ P!WishlistCalls(r) \/ P!WriteWish(r) \/ P!WriteEmail(r)
         \/ \E u \in Users, e \in Emails \X {"lower", "typed"} :
               P!UpdateEmail(r, u, e) \/ P!UpdateOwnProfile(r, u, e)
  PROVE  ProfileInv'
<1>1. ASSUME NEW op \in {"add", "drop"}, NEW p, P!Begin(r, [op |-> op, of |-> p]) PROVE ProfileInv'
  <2>1. VisitSound([op |-> op, of |-> p])
    BY DEF VisitSound
  <2> QED
    BY <1>1, <2>1, OthersBegin
<1>2. ASSUME NEW u, NEW e, P!Begin(r, [op |-> "email", of |-> u, email |-> e]) PROVE ProfileInv'
  <2>1. VisitSound([op |-> "email", of |-> u, email |-> e])
    BY DEF VisitSound
  <2> QED
    BY <1>2, <2>1, OthersBegin
<1>3. CASE P!WriteWish(r)
  <2>1. P!Done(r) /\ UNCHANGED <<address, default, unset, live, email>>
    BY <1>3 DEF P!WriteWish
  <2>2. wish' \in [Favourites -> {0, 1}]
    BY <1>3 DEF P!WriteWish, ProfileInv
  <2> QED
    BY <2>1, <2>2, OthersDone DEF ProfileInv
<1>4. CASE P!WriteEmail(r)
  <2>1. P!Done(r) /\ UNCHANGED <<address, default, unset, live, wish>>
    BY <1>4 DEF P!WriteEmail
  <2>2. DOMAIN email' = Users /\ \A u, v \in Users : email'[u] = email'[v] => u = v
    BY <1>4 DEF P!WriteEmail, P!EmailFree, ProfileInv
  <2> QED
    BY <2>1, <2>2, OthersDone DEF ProfileInv
<1> QED
  BY <1>1, <1>2, <1>3, <1>4 DEF P!WishlistCalls, P!AddProduct, P!RemoveProduct, P!UpdateEmail, P!UpdateOwnProfile

LEMMA ProfileStep == ASSUME OneEditor, ProfileInv, [P!Next]_(P!vars) PROVE ProfileInv'
<1>1. ASSUME NEW r \in Editors \cup CustomerTabs, P!Fail(r) PROVE ProfileInv'
  BY <1>1, OthersDone DEF P!Fail, ProfileInv
<1>2. ASSUME NEW p \in Favourites, P!Publication(p) PROVE ProfileInv'
  BY <1>2 DEF P!Publication, ProfileInv, VisitSound
<1>3. CASE UNCHANGED P!vars
  BY <1>3 DEF P!vars, ProfileInv, VisitSound
<1> QED
  BY <1>1, <1>2, <1>3, AddressRequested, AddressWritten, OthersStep DEF P!Next

LEMMA ProfileCount == \A X : P!Cardinality(X) = Cardinality(X)
BY DEF Cardinality, P!Cardinality

\* With at most one default address, every other part of the promise is in the invariant.
LEMMA ProfileHolds == ASSUME ProfileInv PROVE P!ProfileSound
<1>1. default = {} \/ \E a \in default : default = {a}
  BY DEF ProfileInv, AtMostOne
<1>2. Cardinality(default) \in {0, 1}
  BY <1>1, FS_EmptySet, FS_Singleton
<1>3. P!Cardinality(default) <= 1
  BY <1>2, ProfileCount
<1>4. \A p \in Favourites : wish[p] <= 1
  BY DEF ProfileInv
<1> QED
  BY <1>3, <1>4 DEF ProfileInv, P!ProfileSound

\* As long as address requests come one at a time, and whatever else overlaps,
\* there is one default address until the customer gives it up, a product is
\* saved once, and an email is one user's.
\* (address_service.py:50 _demote_existing_default, wishlist_service.py)
THEOREM ProfileStaysSound ==
  ASSUME OneEditor
  PROVE  OfficeSpec => []ProfileSound
<1> DEFINE Inv == part = "profile" => ProfileInv
<1>1. OfficeInit => Inv
  BY ProfileInit DEF OfficeInit
<1>2. Inv /\ [OfficeNext]_officeVars => Inv'
  BY ProfileStep, PartsMoveAlone
<1>3. Inv => ProfileSound
  BY ProfileHolds DEF ProfileSound
<1> QED
  BY <1>1, <1>2, <1>3, PTL DEF OfficeSpec

-----------------------------------------------------------------------------
(***************************************************************************)
(* Collections: the two ways to name a product's collections, and the      *)
(* listing, on whatever rows overlapping writes leave.                     *)
(***************************************************************************)

\* Of a manual collection, or one whose rule is set, the three say the same but
\* for the explicit products of a rule and labels in another case.
LEMMA PagesNameMembers == C!ShelvesAgree
<1> SUFFICES ASSUME NEW c \in C!Standing, NEW p \in Products,
                    \/ shelf[c].type = "MANUAL"
                    \/ shelf[c].type = "RULE_BASED" /\ shelf[c].rule = "set"
             PROVE  LET manual == shelf[c].type = "MANUAL"
                        ruled  == shelf[c].type = "RULE_BASED" /\ shelf[c].rule = "set"
                        named  == c \in C!NamesOfProduct(p)
                    IN /\ c \in C!NamesOnPage(p) <=> named \/ (ruled /\ p \in shelf[c].explicit)
                       /\ p \in C!Listed(c) => named
                       /\ named /\ p \in visible /\ shelf[c].status = "ACTIVE" =>
                            p \in C!Listed(c) \/ (manual /\ <<c, p>> \in Recased)
  BY DEF C!ShelvesAgree
<1>1. CASE shelf[c].type = "MANUAL"
  BY <1>1 DEF C!NamesOnPage, C!NamesOfProduct, C!NamedByLabel, C!Listed, C!Members
<1>2. CASE shelf[c].type = "RULE_BASED" /\ shelf[c].rule = "set"
  BY <1>2 DEF C!NamesOnPage, C!NamesOfProduct, C!NamedByLabel, C!Listed, C!Members, C!Matched
<1> QED
  BY <1>1, <1>2

-----------------------------------------------------------------------------
(***************************************************************************)
(* Taxonomy: an edit stores the ids of rows that belong together, and no   *)
(* later rename or change of status parts them.                            *)
(***************************************************************************)

CategoryRow == [slug : Handles, status : {"HIDDEN", "ACTIVE"}]
SubRow == [of : Categories, slug : Handles, status : {"HIDDEN", "ACTIVE"}]

Refs == {"category", "subcategory"}

\* References that an edit may store: rows that are there and belong together.
Sound(ref) ==
  /\ ref.category # Nothing => ref.category \in T!CategoryIds
  /\ ref.subcategory # Nothing => ref.subcategory \in T!SubRows /\ sub[ref.subcategory].of = ref.category

Pending(q) == q.product # Nothing

TaxonomyInv ==
  /\ category \in [Categories -> CategoryRow \cup {T!NoRow}]
  /\ sub \in [T!SubIds -> SubRow \cup {T!NoRow}]
  /\ \A i \in T!SubRows : sub[i].of \in T!CategoryIds
  /\ DOMAIN item = Goods /\ DOMAIN patch = PatchWriters
  /\ \A p \in Goods : DOMAIN item[p] = Refs
  /\ \A p \in Goods \ bulk : Sound(item[p])
  /\ \A r \in PatchWriters : Pending(patch[r]) =>
       /\ patch[r].product \in Goods /\ DOMAIN patch[r].pair = Refs
       /\ patch[r].both \/ patch[r].product \notin bulk => Sound(patch[r].pair)
  /\ \A r, q \in PatchWriters : Pending(patch[r]) /\ patch[r].product = patch[q].product => r = q

LEMMA TaxonomyRows ==
  /\ \A row \in CategoryRow : T!Exists(row) /\ row.slug \in Handles
  /\ \A row \in SubRow : T!Exists(row) /\ row.slug \in Handles /\ row.of \in Categories
  /\ ~T!Exists(T!NoRow)
  /\ ~Pending(T!Idle)
BY DEF CategoryRow, SubRow, T!Exists, T!NoRow, T!Idle, Pending

LEMMA TaxonomyInit == ASSUME T!Init PROVE TaxonomyInv
<1>1. T!CategoryIds = {} /\ T!SubRows = {}
  BY TaxonomyRows DEF T!Init, T!CategoryIds, T!SubRows
<1>2. \A p \in Goods : item[p].category = Nothing /\ item[p].subcategory = Nothing /\ DOMAIN item[p] = Refs
  BY DEF T!Init, Refs
<1>3. \A r \in PatchWriters : ~Pending(patch[r])
  BY TaxonomyRows DEF T!Init
<1> QED
  BY <1>1, <1>2, <1>3 DEF T!Init, TaxonomyInv, Sound

\* The rows that are there stay, with the same owners, and references stay sound.
LEMMA TaxonomyKept ==
  ASSUME TaxonomyInv,
         category' \in [Categories -> CategoryRow \cup {T!NoRow}],
         sub' \in [T!SubIds -> SubRow \cup {T!NoRow}],
         T!CategoryIds \subseteq T!CategoryIds', T!SubRows \subseteq T!SubRows',
         \A i \in T!SubRows : sub'[i].of = sub[i].of,
         \A i \in T!SubRows' \ T!SubRows : sub'[i].of \in T!CategoryIds,
         UNCHANGED <<item, bulk, patch>>
  PROVE  TaxonomyInv'
<1>1. \A ref : Sound(ref) => Sound(ref)'
  BY DEF Sound
<1>2. \A i \in T!SubRows' : sub'[i].of \in T!CategoryIds'
  BY DEF TaxonomyInv
<1>3. T!SubIds' = T!SubIds
  BY DEF T!SubIds
<1>4. \A p \in Goods \ bulk : Sound(item[p])'
  BY <1>1 DEF TaxonomyInv
<1>5. ASSUME NEW r \in PatchWriters, Pending(patch[r])
      PROVE  /\ patch[r].product \in Goods /\ DOMAIN patch[r].pair = Refs
             /\ patch[r].both \/ patch[r].product \notin bulk => Sound(patch[r].pair)'
  BY <1>1, <1>5 DEF TaxonomyInv
<1> QED
  BY <1>2, <1>3, <1>4, <1>5 DEF TaxonomyInv, Pending, Sound

LEMMA CategoryStep ==
  ASSUME NamesApart, TaxonomyInv, T!CategoryCalls \/ T!SubcategoryCalls
  PROVE  TaxonomyInv'
<1>0. \A c \in T!CategoryIds : category[c] \in CategoryRow
  BY TaxonomyRows DEF TaxonomyInv, T!CategoryIds
<1>1. \A i \in T!SubRows : sub[i] \in SubRow
  BY TaxonomyRows DEF TaxonomyInv, T!SubRows
\* One row of the categories is written.
<1>a. ASSUME NEW c \in Categories, NEW row \in CategoryRow, category' = [category EXCEPT ![c] = row],
             UNCHANGED <<sub, item, bulk, patch>>
      PROVE  TaxonomyInv'
  <2>1. category' \in [Categories -> CategoryRow \cup {T!NoRow}]
    BY <1>a DEF TaxonomyInv
  <2>2. T!CategoryIds \subseteq T!CategoryIds'
    BY <1>a, TaxonomyRows DEF TaxonomyInv, T!CategoryIds
  <2>3. T!SubRows' = T!SubRows
    BY <1>a DEF T!SubRows, T!SubIds
  <2> QED
    BY <1>a, <2>1, <2>2, <2>3, TaxonomyKept DEF TaxonomyInv
\* One row of the subcategories is written.
<1>b. ASSUME NEW i \in T!SubIds, NEW row \in SubRow, sub' = [sub EXCEPT ![i] = row],
             i \in T!SubRows => row.of = sub[i].of, row.of \in T!CategoryIds,
             UNCHANGED <<category, item, bulk, patch>>
      PROVE  TaxonomyInv'
  <2>1. sub' \in [T!SubIds -> SubRow \cup {T!NoRow}]
    BY <1>b DEF TaxonomyInv
  <2>2. \A j \in T!SubIds : sub'[j] = IF j = i THEN row ELSE sub[j]
    BY <1>b DEF TaxonomyInv
  <2>3. T!SubRows \subseteq T!SubRows' /\ T!SubRows' \subseteq T!SubRows \cup {i}
    BY <1>b, <2>2, TaxonomyRows DEF T!SubRows, T!SubIds
  <2>4. \A j \in T!SubRows : sub'[j].of = sub[j].of
    BY <1>b, <2>2 DEF T!SubRows
  <2>5. T!CategoryIds' = T!CategoryIds
    BY <1>b DEF T!CategoryIds
  <2> QED
    BY <1>b, <2>1, <2>2, <2>3, <2>4, <2>5, TaxonomyKept DEF TaxonomyInv
<1>2. ASSUME NEW c \in Categories, NEW slug \in Handles, T!CreateCategory(c, slug) PROVE TaxonomyInv'
  <2>1. [slug |-> slug, status |-> "HIDDEN"] \in CategoryRow
    BY DEF CategoryRow
  <2> QED
    BY <1>2, <1>a, <2>1 DEF T!CreateCategory
<1>3. ASSUME NEW c \in Categories, NEW slug \in Handles, T!UpdateCategory(c, slug) PROVE TaxonomyInv'
  <2> DEFINE row == [category[c] EXCEPT !.slug = slug]
  <2>1. row \in CategoryRow
    BY <1>0, <1>3 DEF T!UpdateCategory, CategoryRow
  <2>2. category' = [category EXCEPT ![c] = row]
    BY <1>3 DEF T!UpdateCategory, TaxonomyInv
  <2> HIDE DEF row
  <2> QED
    BY <1>3, <1>a, <2>1, <2>2 DEF T!UpdateCategory
<1>4. ASSUME NEW c \in Categories, NEW to \in {"ACTIVE", "HIDDEN"}, T!MoveCategory(c, to) PROVE TaxonomyInv'
  <2> DEFINE row == [category[c] EXCEPT !.status = to]
  <2>1. category[c].status # "ABSENT"
    BY <1>4 DEF T!MoveCategory, T!StatusMoves
  <2>2. c \in T!CategoryIds
    BY <2>1 DEF T!CategoryIds, T!Exists
  <2>3. row \in CategoryRow
    BY <1>0, <2>2 DEF CategoryRow
  <2>4. category' = [category EXCEPT ![c] = row]
    BY <1>4 DEF T!MoveCategory, TaxonomyInv
  <2> HIDE DEF row
  <2> QED
    BY <1>4, <1>a, <2>3, <2>4 DEF T!MoveCategory
<1>5. ASSUME NEW c \in Categories, NEW slug \in Handles, T!CreateSubcategory(c, slug) PROVE TaxonomyInv'
  <2> DEFINE id == <<category[c].slug, slug>>
             row == [of |-> c, slug |-> slug, status |-> "HIDDEN"]
  <2>1. c \in T!CategoryIds /\ id \notin T!SubRows /\ sub' = [sub EXCEPT ![id] = row]
        /\ UNCHANGED <<category, item, bulk, patch>>
    BY <1>5 DEF T!CreateSubcategory
  <2>2. row \in SubRow /\ row.of = c
    BY DEF SubRow
  <2>3. id \in T!SubIds
    BY <1>0, <2>1 DEF CategoryRow, T!SubIds
  <2> HIDE DEF row, id
  <2> QED
    BY <1>b, <2>1, <2>2, <2>3
<1>6. ASSUME NEW i \in T!SubIds, NEW slug \in Handles, T!UpdateSubcategory(i, slug) PROVE TaxonomyInv'
  <2> DEFINE row == [sub[i] EXCEPT !.slug = slug]
  <2>1. i \in T!SubRows /\ UNCHANGED <<category, item, bulk, patch>>
    BY <1>6 DEF T!UpdateSubcategory
  <2>2. row \in SubRow /\ row.of = sub[i].of
    BY <1>1, <2>1 DEF SubRow
  <2>3. sub' = [sub EXCEPT ![i] = row]
    BY <1>6 DEF T!UpdateSubcategory, TaxonomyInv
  <2> HIDE DEF row
  <2> QED
    BY <1>b, <2>1, <2>2, <2>3 DEF TaxonomyInv
<1>7. ASSUME NEW i \in T!SubIds, NEW to \in {"ACTIVE", "HIDDEN"}, T!MoveSubcategory(i, to) PROVE TaxonomyInv'
  <2> DEFINE row == [sub[i] EXCEPT !.status = to]
  <2>1. sub[i].status # "ABSENT" /\ UNCHANGED <<category, item, bulk, patch>>
    BY <1>7 DEF T!MoveSubcategory, T!StatusMoves
  <2>2. i \in T!SubRows
    BY <2>1 DEF T!SubRows, T!Exists
  <2>3. row \in SubRow /\ row.of = sub[i].of
    BY <1>1, <2>2 DEF SubRow
  <2>4. sub' = [sub EXCEPT ![i] = row]
    BY <1>7 DEF T!MoveSubcategory, TaxonomyInv
  <2> HIDE DEF row
  <2> QED
    BY <1>b, <2>1, <2>2, <2>3, <2>4 DEF TaxonomyInv
<1> QED
  BY <1>2, <1>3, <1>4, <1>5, <1>6, <1>7 DEF T!CategoryCalls, T!SubcategoryCalls

\* What an edit stores is sound if what it starts from is, or if it gives both.
LEMMA Resolved ==
  ASSUME NamesApart, TaxonomyInv, NEW now,
         NEW c \in T!CategoryRefs \cup {Absent}, NEW s \in T!SubRefs \cup {Absent},
         Sound(now) \/ Absent \notin {c, s},
         DOMAIN now = Refs,
         NEW pair \in T!Resolve(now, c, s)
  PROVE  Sound(pair) /\ DOMAIN pair = Refs
<1> DEFINE given == IF s = Absent THEN now.subcategory ELSE s
           named == IF c = Absent THEN now.category ELSE c
           rows == {x \in T!Lookup(named) : c # Absent => category[x].status = "ACTIVE"}
<1>0. \A x \in T!CategoryIds : category[x].slug \in Handles
  BY TaxonomyRows DEF TaxonomyInv, T!CategoryIds
<1>1. \A i \in T!SubRows : sub[i].slug \in Handles /\ i \in T!SubIds
  BY TaxonomyRows DEF TaxonomyInv, T!SubRows
<1>2. T!Lookup(named) \subseteq T!CategoryIds
  BY DEF T!Lookup
<1>3. c = Absent /\ now.category # Nothing => T!Lookup(named) = {now.category}
  BY DEF T!Lookup, Sound
<1>4. c = Absent /\ now.category = Nothing => T!Lookup(named) = {}
  BY <1>0 DEF T!Lookup, NamesApart, T!CategoryIds
<1>5. \A x : T!Pick(given, x) \subseteq {i \in T!SubRows : sub[i].of = x}
  BY DEF T!Pick
\* References that are kept are ids.
<1>6. ASSUME s = Absent, now.subcategory # Nothing, NEW x, NEW i \in T!Pick(given, x)
      PROVE  i = now.subcategory
  <2>1. now.subcategory \in T!SubRows /\ now.subcategory \in T!SubIds
    BY <1>1, <1>6 DEF Sound
  <2> QED
    BY <1>1, <1>6, <2>1 DEF T!Pick, NamesApart
<1>7. CASE <<c, s>> = <<Absent, Nothing>>
  <2>1. Absent # Nothing
    BY DEF NamesApart
  <2>2. pair = [now EXCEPT !.subcategory = Nothing]
    BY <1>7 DEF T!Resolve
  <2>3. pair.category = now.category /\ pair.subcategory = Nothing /\ DOMAIN pair = Refs
    BY <2>2 DEF Refs
  <2> QED
    BY <1>7, <2>1, <2>3 DEF Sound
<1>8. CASE <<c, s>> # <<Absent, Nothing>> /\ given = Nothing
  <2>1. PICK x \in rows : pair = [category |-> IF c = Absent THEN now.category ELSE x, subcategory |-> Nothing]
    BY <1>8 DEF T!Resolve
  <2>2. pair.category = (IF c = Absent THEN now.category ELSE x) /\ pair.subcategory = Nothing
        /\ DOMAIN pair = Refs
    BY <2>1 DEF Refs
  <2> QED
    BY <1>2, <1>3, <1>4, <2>1, <2>2 DEF Sound
<1>9. CASE <<c, s>> # <<Absent, Nothing>> /\ given # Nothing
  <2>1. PICK y \in rows \X T!SubRows :
          /\ y[2] \in T!Pick(given, y[1])
          /\ pair = [category |-> IF c = Absent THEN now.category ELSE y[1],
                     subcategory |-> IF s = Absent THEN now.subcategory ELSE y[2]]
    BY <1>9 DEF T!Resolve
  <2>2. pair.category = (IF c = Absent THEN now.category ELSE y[1])
        /\ pair.subcategory = (IF s = Absent THEN now.subcategory ELSE y[2])
        /\ DOMAIN pair = Refs
    BY <2>1 DEF Refs
  <2>3. y[1] \in T!Lookup(named) /\ y[2] \in T!SubRows
    BY <2>1
  <2>4. pair.category = y[1] /\ y[1] \in T!CategoryIds
    BY <1>2, <1>3, <1>4, <2>2, <2>3
  <2>5. pair.subcategory = y[2]
    BY <1>6, <1>9, <2>1, <2>2
  <2>6. sub[y[2]].of = y[1]
    BY <1>5, <2>1
  <2> QED
    BY <2>2, <2>3, <2>4, <2>5, <2>6 DEF Sound
<1> QED
  BY <1>7, <1>8, <1>9

\* An edit of one product keeps what it resolved until it commits.
LEMMA ProductStep ==
  ASSUME NamesApart, TaxonomyInv, T!ProductCalls
  PROVE  TaxonomyInv'
\* The rows of the taxonomy stay.
<1>a. UNCHANGED <<category, sub>>
  BY DEF T!ProductCalls, T!EditRead, T!EditWrite, T!Abort, T!BulkUpdate
<1>b. /\ T!CategoryIds' = T!CategoryIds /\ T!SubRows' = T!SubRows /\ T!SubIds' = T!SubIds
      /\ \A ref : Sound(ref)' <=> Sound(ref)
  BY <1>a DEF T!CategoryIds, T!SubRows, T!SubIds, Sound
<1>1. ASSUME NEW r \in PatchWriters, NEW p \in Goods, NEW c \in T!CategoryRefs \cup {Absent},
             NEW s \in T!SubRefs \cup {Absent}, T!EditRead(r, p, c, s)
      PROVE  TaxonomyInv'
  <2>1. PICK pair \in T!Resolve(item[p], c, s) :
          patch' = [patch EXCEPT ![r] = [product |-> p, pair |-> pair, both |-> Absent \notin {c, s}]]
    BY <1>1 DEF T!EditRead
  <2>2. PICK q : /\ patch' = [patch EXCEPT ![r] = q] /\ q.product = p /\ q.pair = pair
                 /\ q.both => Absent \notin {c, s}
    <3> DEFINE new == [product |-> p, pair |-> pair, both |-> Absent \notin {c, s}]
    <3>1. new.product = p /\ new.pair = pair /\ (new.both => Absent \notin {c, s})
      OBVIOUS
    <3>2. patch' = [patch EXCEPT ![r] = new]
      BY <2>1
    <3> HIDE DEF new
    <3> QED
      BY <3>1, <3>2
  <2>3. patch'[r] = q /\ \A w \in PatchWriters \ {r} : patch'[w] = patch[w] /\ patch[w].product # p
    BY <1>1, <2>2 DEF TaxonomyInv, T!EditRead
  <2>4. UNCHANGED <<item, bulk>>
    BY <1>1 DEF T!EditRead
  <2>5. DOMAIN item[p] = Refs /\ (p \notin bulk => Sound(item[p]))
    BY DEF TaxonomyInv
  <2>6. DOMAIN pair = Refs /\ (Sound(item[p]) \/ Absent \notin {c, s} => Sound(pair))
    <3>1. ASSUME Sound(item[p]) \/ Absent \notin {c, s} PROVE Sound(pair) /\ DOMAIN pair = Refs
      BY <2>5, <3>1, Resolved
    <3>2. DOMAIN pair = Refs
      <4>1. \A x \in T!Resolve(item[p], c, s) : DOMAIN x = Refs
        BY <2>5 DEF T!Resolve, Refs
      <4> QED
        BY <4>1
    <3> QED
      BY <3>1, <3>2
  <2>7. q.both \/ p \notin bulk => Sound(q.pair)
    BY <2>2, <2>5, <2>6
  <2>8. \A w \in PatchWriters : Pending(patch'[w]) =>
          /\ patch'[w].product \in Goods /\ DOMAIN patch'[w].pair = Refs
          /\ patch'[w].both \/ patch'[w].product \notin bulk => Sound(patch'[w].pair)
    <3> SUFFICES ASSUME NEW w \in PatchWriters, Pending(patch'[w])
                 PROVE  /\ patch'[w].product \in Goods /\ DOMAIN patch'[w].pair = Refs
                        /\ patch'[w].both \/ patch'[w].product \notin bulk => Sound(patch'[w].pair)
      OBVIOUS
    <3>1. CASE w = r
      BY <2>2, <2>3, <2>6, <2>7, <3>1
    <3>2. CASE w # r
      BY <2>3, <3>2 DEF TaxonomyInv
    <3> QED
      BY <3>1, <3>2
  <2>9. \A w, v \in PatchWriters : Pending(patch'[w]) /\ patch'[w].product = patch'[v].product => w = v
    BY <2>2, <2>3 DEF TaxonomyInv
  <2>10. DOMAIN patch' = PatchWriters
    BY <2>2 DEF TaxonomyInv
  <2> QED
    BY <1>a, <1>b, <2>4, <2>8, <2>9, <2>10 DEF TaxonomyInv, Pending
<1>2. ASSUME NEW r \in PatchWriters, T!EditWrite(r) PROVE TaxonomyInv'
  <2> DEFINE p == patch[r].product
             pair == patch[r].pair
  <2>1. /\ patch[r] # T!Idle /\ item' = [item EXCEPT ![p] = pair]
        /\ bulk' = (IF patch[r].both THEN bulk \ {p} ELSE bulk)
        /\ patch' = [patch EXCEPT ![r] = T!Idle]
    BY <1>2 DEF T!EditWrite
  <2>2. \A w \in PatchWriters : patch'[w] = IF w = r THEN T!Idle ELSE patch[w]
    BY <2>1 DEF TaxonomyInv
  <2>3. \A o \in Goods : item'[o] = IF o = p THEN pair ELSE item[o]
    BY <2>1 DEF TaxonomyInv
  <2>4. CASE ~Pending(patch[r])
    <3>1. p \notin Goods
      BY <2>4 DEF Pending, NamesApart
    <3>2. \A o \in Goods : item'[o] = item[o] /\ (o \in bulk' <=> o \in bulk)
      BY <2>1, <2>3, <3>1
    <3>3. \A w \in PatchWriters : Pending(patch'[w]) => patch'[w] = patch[w] /\ (patch[w].product \in bulk' <=> patch[w].product \in bulk)
      BY <2>2, <3>2, TaxonomyRows DEF TaxonomyInv
    <3>4. \A w \in PatchWriters : patch'[w] = patch[w] \/ ~Pending(patch'[w])
      BY <2>2, TaxonomyRows
    <3>5. \A w, v \in PatchWriters : Pending(patch'[w]) /\ patch'[w].product = patch'[v].product => w = v
      BY <3>4 DEF TaxonomyInv, Pending
    <3>6. DOMAIN item' = Goods /\ DOMAIN patch' = PatchWriters
      BY <2>1 DEF TaxonomyInv
    <3> QED
      BY <1>a, <1>b, <3>2, <3>3, <3>5, <3>6 DEF TaxonomyInv, Pending
  <2>5. CASE Pending(patch[r])
    <3>1. p \in Goods /\ DOMAIN pair = Refs /\ (patch[r].both \/ p \notin bulk => Sound(pair))
      BY <2>5 DEF TaxonomyInv
    <3>2. \A w \in PatchWriters \ {r} : patch[w].product # p
      BY <2>5 DEF TaxonomyInv
    <3>3. \A o \in Goods : DOMAIN item'[o] = Refs /\ (o \notin bulk' => Sound(item'[o]))
      <4> SUFFICES ASSUME NEW o \in Goods PROVE DOMAIN item'[o] = Refs /\ (o \notin bulk' => Sound(item'[o]))
        OBVIOUS
      <4>1. CASE o = p
        BY <2>1, <2>3, <3>1, <4>1
      <4>2. CASE o # p
        <5>1. item'[o] = item[o] /\ (o \in bulk' <=> o \in bulk)
          BY <2>1, <2>3, <4>2
        <5> QED
          BY <5>1 DEF TaxonomyInv
      <4> QED
        BY <4>1, <4>2
    <3>4. \A w \in PatchWriters : Pending(patch'[w]) =>
            w # r /\ patch'[w] = patch[w] /\ (patch[w].product \in bulk' <=> patch[w].product \in bulk)
      BY <2>1, <2>2, <3>2, TaxonomyRows
    <3>5. \A w, v \in PatchWriters : Pending(patch'[w]) /\ patch'[w].product = patch'[v].product => w = v
      <4>1. \A v \in PatchWriters : patch'[v] = patch[v] \/ patch'[v] = T!Idle
        BY <2>2
      <4>2. T!Idle.product = Nothing
        BY DEF T!Idle
      <4> QED
        BY <3>4, <4>1, <4>2 DEF TaxonomyInv, Pending
    <3>6. DOMAIN item' = Goods /\ DOMAIN patch' = PatchWriters
      BY <2>1 DEF TaxonomyInv
    <3> QED
      BY <1>a, <1>b, <3>3, <3>4, <3>5, <3>6 DEF TaxonomyInv, Pending
  <2> QED
    BY <2>4, <2>5
<1>3. ASSUME NEW r \in PatchWriters, T!Abort(r) PROVE TaxonomyInv'
  <2>1. patch' = [patch EXCEPT ![r] = T!Idle] /\ UNCHANGED <<item, bulk>>
    BY <1>3 DEF T!Abort
  <2>2. \A w \in PatchWriters : patch'[w] = IF w = r THEN T!Idle ELSE patch[w]
    BY <2>1 DEF TaxonomyInv
  <2>3. T!Idle.product = Nothing
    BY DEF T!Idle
  <2>4. \A w \in PatchWriters : Pending(patch'[w]) => patch'[w] = patch[w]
    BY <2>2, <2>3 DEF Pending
  <2>5. \A w, v \in PatchWriters : Pending(patch'[w]) /\ patch'[w].product = patch'[v].product => w = v
    BY <2>2, <2>3, <2>4 DEF TaxonomyInv, Pending
  <2>6. DOMAIN patch' = PatchWriters
    BY <2>1 DEF TaxonomyInv
  <2> QED
    BY <1>a, <1>b, <2>1, <2>4, <2>5, <2>6 DEF TaxonomyInv, Pending
<1>4. ASSUME NEW ps \in SUBSET Goods, NEW c, NEW s, T!BulkUpdate(ps, c, s) PROVE TaxonomyInv'
  <2>1. bulk' = bulk \cup ps /\ UNCHANGED patch /\ \A r \in PatchWriters : patch[r].product \notin ps
    BY <1>4 DEF T!BulkUpdate
  <2>2. DOMAIN item' = Goods /\ \A p \in Goods : DOMAIN item'[p] = Refs /\ (p \notin ps => item'[p] = item[p])
    BY <1>4 DEF T!BulkUpdate, TaxonomyInv, Refs
  <2>3. \A r \in PatchWriters : patch[r].product \in bulk' <=> patch[r].product \in bulk
    BY <2>1
  <2> QED
    BY <1>a, <1>b, <2>1, <2>2, <2>3 DEF TaxonomyInv, Pending
<1> QED
  BY <1>1, <1>2, <1>3, <1>4 DEF T!ProductCalls

LEMMA TaxonomyStep ==
  ASSUME NamesApart
  PROVE  TaxonomyInv /\ [T!Next]_(T!vars) => TaxonomyInv'
<1> SUFFICES ASSUME TaxonomyInv, [T!Next]_(T!vars) PROVE TaxonomyInv'
  OBVIOUS
<1>1. CASE UNCHANGED T!vars
  <2>1. UNCHANGED <<category, sub, item, bulk, patch>>
    BY <1>1 DEF T!vars
  <2>2. T!CategoryIds' = T!CategoryIds /\ T!SubRows' = T!SubRows
    BY <2>1 DEF T!CategoryIds, T!SubRows, T!SubIds
  <2> QED
    BY <2>1, <2>2, TaxonomyKept DEF TaxonomyInv
<1> QED
  BY <1>1, CategoryStep, ProductStep DEF T!Next

\* What a product refers to is there and belongs together, and a category that
\* is not active hides it.
LEMMA ReferencesTogether == ASSUME TaxonomyInv PROVE T!ReferencesHold
<1> SUFFICES ASSUME NEW p \in Goods \ bulk
             PROVE  /\ item[p].category # Nothing => item[p].category \in T!CategoryIds
                    /\ item[p].subcategory # Nothing =>
                         item[p].subcategory \in T!SubRows /\ sub[item[p].subcategory].of = item[p].category
                    /\ item[p].category # Nothing /\ ~T!Hidden(p) => category[item[p].category].status = "ACTIVE"
  BY DEF T!ReferencesHold
<1>1. Sound(item[p])
  BY DEF TaxonomyInv
<1>2. ASSUME item[p].category # Nothing, ~T!Hidden(p) PROVE category[item[p].category].status = "ACTIVE"
  <2>1. T!Lookup(item[p].category) = {item[p].category}
    BY <1>1, <1>2 DEF Sound, T!Lookup
  <2>2. category[item[p].category].status \in T!CategoryStatus(item[p].category)
    BY <2>1 DEF T!CategoryStatus
  <2>3. T!CategoryStatus(item[p].category) = {"ACTIVE"}
    BY <1>2 DEF T!Hidden
  <2> QED
    BY <2>2, <2>3
<1> QED
  BY <1>1, <1>2 DEF Sound

-----------------------------------------------------------------------------
(***************************************************************************)
(* Ids, labels, slugs and SKUs: what the table does not keep unique, a     *)
(* request keeps while no other one overlaps it.                           *)
(***************************************************************************)

\* Two changes of labels that overlap may leave a label that is another's id.
OneLabeller == Labellers \subseteq LabelWriters /\ \A e, d \in Labellers : e = d

\* Requests under way: what each has looked up.
UnderWay(r) == lookup[r] # N!Idle

Fields == {"op", "id", "label", "code", "alone"}

LookupSound(r) ==
  LET q == lookup[r] IN
  /\ DOMAIN q = Fields
  /\ q.op \in {"insert", "code", "label"}
  /\ q.id \in N!Ids /\ q.label \in N!Ids
  /\ q.alone \in BOOLEAN
  /\ q.op = "insert" => q.label = q.id
  /\ q.op # "insert" => r \in Labellers /\ q.id \in N!Keys
  /\ q.op = "label" => q.code = N!Blank

\* No product's id is a label under way, unless it is that product's label.
LabelHolds(r) ==
  lookup[r].op = "label" =>
    \A p \in N!Keys \ {lookup[r].id} : p = lookup[r].label => register[p].label = p

\* A code under way is nobody else's, but for requests that overlapped.
CodeHolds(r) ==
  \A p \in N!Keys \ {lookup[r].id} :
    N!SameCode(register[p].code, lookup[r].code) => p \in raced /\ ~lookup[r].alone

IdentityInv ==
  /\ register = [p \in N!Ids |-> register[p]] /\ lookup = [r \in LabelWriters |-> lookup[r]]
  /\ \A p \in N!Keys : DOMAIN register[p] = {"label", "code"} /\ register[p].label \in N!Ids
  /\ \A p \in N!Ids : p \notin N!Keys => register[p] = N!NoProduct
  /\ N!IdentityKept
  /\ \A r \in LabelWriters : UnderWay(r) => LookupSound(r) /\ LabelHolds(r) /\ CodeHolds(r)
  /\ \A r, s \in LabelWriters : UnderWay(r) /\ UnderWay(s) /\ lookup[r].alone => r = s

LEMMA IdentityInit == ASSUME N!Init PROVE IdentityInv
<1>1. N!Keys = {}
  BY DEF N!Init, N!Keys
<1>2. \A r \in LabelWriters : ~UnderWay(r)
  BY DEF N!Init, UnderWay
<1> QED
  BY <1>1, <1>2 DEF N!Init, IdentityInv, N!IdentityKept

\* A code a create stores is nobody's, whatever its case.
LEMMA StoredCodes ==
  ASSUME NEW code \in N!Stored \cup N!Generated
  PROVE  \A p \in N!Keys : ~N!SameCode(register[p].code, code)
<1>1. ASSUME NEW c, ~N!Taken(c, {}) PROVE \A p \in N!Keys : ~N!SameCode(register[p].code, c)
  BY <1>1 DEF N!Taken
<1>2. CASE N!Available(code, {})
  <2>1. CASE code = N!Blank
    BY <2>1 DEF N!SameCode
  <2>2. CASE code # N!Blank
    BY <1>1, <1>2, <2>2 DEF N!Available
  <2> QED
    BY <2>1, <2>2
<1>3. CASE code \in N!Generated
  <2>1. PICK m \in Suffixes : code = <<m, IF column = "slug" THEN "lower" ELSE "UPPER">> /\ ~N!Taken(<<m, "lower">>, {})
    BY <1>3 DEF N!Generated
  <2>2. code[1] = m /\ <<m, "lower">>[1] = m
    BY <2>1
  <2>3. <<m, "lower">> # N!Blank
    BY DEF N!Blank
  <2>4. \A d : N!SameCode(d, code) => N!SameCode(d, <<m, "lower">>)
    BY <2>2, <2>3 DEF N!SameCode
  <2> QED
    BY <1>1, <2>1, <2>4
<1> QED
  BY <1>2, <1>3 DEF N!Stored

\* A request begins: it has looked at the rows, and is alone if nobody else is
\* under way; the others no longer are.
LEMMA Begun ==
  ASSUME IdentityInv, OneLabeller, NEW r \in LabelWriters, NEW new,
         DOMAIN new = Fields,
         new.op \in {"insert", "code", "label"}, new.id \in N!Ids, new.label \in N!Ids,
         new.op = "insert" => new.label = new.id,
         new.op # "insert" => r \in Labellers /\ new.id \in N!Keys,
         new.op = "label" => new.code = N!Blank,
         new.op = "label" => \A p \in N!Keys \ {new.id} : p # new.label,
         \A p \in N!Keys \ {new.id} : ~N!SameCode(register[p].code, new.code),
         N!Begin(r, new)
  PROVE  IdentityInv'
<1> DEFINE alone == \A o \in LabelWriters : lookup[o] = N!Idle
           begun == [new EXCEPT !.alone = alone]
           Met(s) == [lookup[s] EXCEPT !.alone = FALSE]
<1>1. /\ lookup[r] = N!Idle /\ UNCHANGED <<column, register, raced>>
      /\ lookup' = [s \in LabelWriters |-> IF s = r THEN begun
                      ELSE IF lookup[s] = N!Idle THEN N!Idle ELSE Met(s)]
  BY DEF N!Begin
<1>2. /\ begun.op = new.op /\ begun.id = new.id /\ begun.label = new.label /\ begun.code = new.code
      /\ DOMAIN begun = Fields
  BY DEF Fields
<1>a. begun.alone = alone
  <2> HIDE DEF alone
  <2> QED
    BY DEF Fields
<1>b. begun.alone \in BOOLEAN
  <2>1. alone \in BOOLEAN
    OBVIOUS
  <2> HIDE DEF alone, begun
  <2> QED
    BY <1>a, <2>1
<1>c. begun.alone => \A o \in LabelWriters : lookup[o] = N!Idle
  <2>1. begun.alone => alone
    <3> HIDE DEF alone, begun
    <3> QED
      BY <1>a
  <2> QED
    BY <2>1
<1> HIDE DEF begun, alone
<1>3. N!Keys' = N!Keys
  BY <1>1 DEF N!Keys
<1>4. N!IdentityKept'
  <2>1. N!IdentityKept
    BY DEF IdentityInv
  <2>2. UNCHANGED <<register, raced>>
    BY <1>1
  <2> QED
    BY <1>3, <2>1, <2>2 DEF N!IdentityKept, N!SameCode, N!Blank
<1>5. LookupSound(r)' /\ LabelHolds(r)' /\ CodeHolds(r)'
  <2>1. lookup'[r] = begun
    BY <1>1
  <2> QED
    BY <1>1, <1>2, <1>b, <1>3, <2>1 DEF LookupSound, LabelHolds, CodeHolds
<1>6. ASSUME NEW s \in LabelWriters, s # r, UnderWay(s)'
      PROVE  UnderWay(s) /\ LookupSound(s)' /\ LabelHolds(s)' /\ CodeHolds(s)' /\ lookup'[s].alone = FALSE
  <2>1. UnderWay(s) /\ lookup'[s] = Met(s)
    BY <1>1, <1>6 DEF UnderWay
  <2>2. LookupSound(s) /\ LabelHolds(s) /\ CodeHolds(s)
    BY <2>1 DEF IdentityInv
  <2>3. DOMAIN lookup[s] = Fields
    BY <2>2 DEF LookupSound
  <2>4. /\ Met(s).op = lookup[s].op /\ Met(s).id = lookup[s].id /\ Met(s).label = lookup[s].label
        /\ Met(s).code = lookup[s].code /\ Met(s).alone = FALSE /\ DOMAIN Met(s) = Fields
    BY <2>3 DEF Fields
  <2> HIDE DEF Met
  <2>5. LookupSound(s)'
    BY <1>1, <1>3, <2>1, <2>2, <2>4 DEF LookupSound
  <2>6. LabelHolds(s)'
    BY <1>1, <1>3, <2>1, <2>2, <2>4 DEF LabelHolds
  <2>7. CodeHolds(s)'
    BY <1>1, <1>3, <2>1, <2>2, <2>4 DEF CodeHolds
  <2> QED
    BY <2>1, <2>4, <2>5, <2>6, <2>7
<1>7. \A s, o \in LabelWriters : UnderWay(s)' /\ UnderWay(o)' /\ lookup'[s].alone => s = o
  <2>1. \A s \in LabelWriters \ {r} : UnderWay(s)' => UnderWay(s) /\ lookup'[s].alone = FALSE
    BY <1>6
  <2>2. lookup'[r] = begun
    BY <1>1
  <2>3. lookup'[r].alone => \A o \in LabelWriters \ {r} : ~UnderWay(o)'
    BY <1>c, <2>1, <2>2 DEF UnderWay
  <2> QED
    BY <2>1, <2>3
<1>8. \A s \in LabelWriters : UnderWay(s)' => LookupSound(s)' /\ LabelHolds(s)' /\ CodeHolds(s)'
  BY <1>5, <1>6
<1>9. lookup' = [s \in LabelWriters |-> lookup'[s]]
  BY <1>1
<1>10. N!Ids' = N!Ids
  BY DEF N!Ids
<1> HIDE DEF Met
<1> QED
  BY <1>1, <1>3, <1>4, <1>7, <1>8, <1>9, <1>10 DEF IdentityInv

LEMMA InsertBegun ==
  ASSUME IdentityInv, OneLabeller, NEW r \in LabelWriters, NEW id \in N!Ids, NEW code \in N!Stored \cup N!Generated,
         N!Insert(r, id, code)
  PROVE  IdentityInv'
<1> DEFINE new == [op |-> "insert", id |-> id, label |-> id, code |-> code, alone |-> TRUE]
<1>1. N!Begin(r, new)
  BY DEF N!Insert
<1>2. DOMAIN new = Fields /\ new.op = "insert" /\ new.id = id /\ new.label = id /\ new.code = code
  BY DEF Fields
<1>3. \A p \in N!Keys : ~N!SameCode(register[p].code, code)
  BY StoredCodes
<1> HIDE DEF new
<1> QED
  BY <1>1, <1>2, <1>3, Begun

LEMMA IdentityRequested ==
  ASSUME IdentityInv, OneLabeller, NEW r \in LabelWriters,
         \/ N!CreateCalls(r) \/ N!EmployeeCalls(r)
         \/ r \in Labellers /\ (N!IdentityCalls(r) \/ N!EditCalls(r))
  PROVE  IdentityInv'
<1>0. Numbers \subseteq N!Ids /\ Fresh \subseteq N!Ids
  BY DEF N!Ids
<1>1. CASE N!CreateCalls(r)
  BY <1>0, <1>1, InsertBegun DEF N!CreateCalls, N!CreateProduct, N!CreateDraft
<1>2. CASE N!EmployeeCalls(r)
  BY <1>0, <1>2, InsertBegun DEF N!EmployeeCalls, N!CreateEmployeeDraft, N!NextId
<1>3. ASSUME NEW p, N!DuplicateProduct(r, p) PROVE IdentityInv'
  BY <1>0, <1>3, InsertBegun DEF N!DuplicateProduct
<1>4. ASSUME NEW p \in N!Ids, NEW label \in Numbers, r \in Labellers, N!ChangeProductId(r, p, label) PROVE IdentityInv'
  <2> DEFINE new == [op |-> "label", id |-> p, label |-> label, code |-> N!Blank, alone |-> TRUE]
  <2>1. N!Begin(r, new) /\ p \in N!Keys /\ \A q \in N!Keys \ {p} : label # q
    BY <1>4 DEF N!ChangeProductId, N!LabelFree
  <2>2. DOMAIN new = Fields /\ new.op = "label" /\ new.id = p /\ new.label = label /\ new.code = N!Blank
    BY DEF Fields
  <2>3. \A q : ~N!SameCode(register[q].code, N!Blank)
    BY DEF N!SameCode
  <2> HIDE DEF new
  <2> QED
    BY <1>0, <1>4, <2>1, <2>2, <2>3, Begun
<1>5. ASSUME NEW p \in N!Ids, NEW code, r \in Labellers, N!UpdateCode(r, p, code) PROVE IdentityInv'
  <2> DEFINE new == [op |-> "code", id |-> p, label |-> p, code |-> code, alone |-> TRUE]
  <2>1. N!Begin(r, new) /\ p \in N!Keys /\ N!Available(code, {p})
    BY <1>5 DEF N!UpdateCode
  <2>2. DOMAIN new = Fields /\ new.op = "code" /\ new.id = p /\ new.label = p /\ new.code = code
    BY DEF Fields
  <2>3. \A q \in N!Keys \ {p} : ~N!SameCode(register[q].code, code)
    <3>1. code = N!Blank => \A q : ~N!SameCode(register[q].code, code)
      BY DEF N!SameCode
    <3> QED
      BY <2>1, <3>1 DEF N!Available, N!Taken
  <2> HIDE DEF new
  <2> QED
    BY <1>5, <2>1, <2>2, <2>3, Begun
<1> QED
  BY <1>1, <1>2, <1>3, <1>4, <1>5 DEF N!IdentityCalls, N!EditCalls

\* The write: the table refuses a second row or label, and what was looked up
\* does for the rest.
LEMMA IdentityWritten ==
  ASSUME IdentityInv, OneLabeller, NoZeroId, NEW r \in LabelWriters, N!Write(r)
  PROVE  IdentityInv'
<1>1. PICK new : new = lookup[r]
  OBVIOUS
<1>2. PICK p : p = new.id
  OBVIOUS
<1>3. PICK label : label = IF new.op = "code" THEN register[p].label ELSE new.label
  OBVIOUS
<1>4. PICK code : code = IF new.op = "label" THEN register[p].code ELSE new.code
  OBVIOUS
<1>5. /\ new.op # "idle" /\ (new.op = "insert" => p \notin N!Keys)
      /\ new.op # "code" => \A q \in N!Keys \ {p} : register[q].label # new.label
      /\ raced' = (IF new.op = "label" THEN raced ELSE IF new.alone THEN raced \ {p} ELSE raced \cup {p})
      /\ lookup' = [lookup EXCEPT ![r] = N!Idle]
  BY <1>1, <1>2 DEF N!Write
<1>6. register' = [register EXCEPT ![p] = [label |-> label, code |-> code]]
  BY <1>1, <1>2, <1>3, <1>4 DEF N!Write, IdentityInv
<1>7. UnderWay(r)
  BY <1>1, <1>5 DEF UnderWay, N!Idle
<1>8. LookupSound(r) /\ LabelHolds(r) /\ CodeHolds(r)
  BY <1>7 DEF IdentityInv
<1>9. p \in N!Ids /\ label \in N!Ids /\ (new.op # "insert" => p \in N!Keys /\ r \in Labellers)
      /\ new.op \in {"insert", "code", "label"} /\ (new.op = "insert" => label = p)
  BY <1>1, <1>2, <1>3, <1>8 DEF LookupSound, IdentityInv
<1>10. \A q \in N!Ids : register'[q] = IF q = p THEN [label |-> label, code |-> code] ELSE register[q]
  BY <1>6 DEF IdentityInv
<1>11. register'[p].label = label /\ register'[p].code = code /\ DOMAIN register'[p] = {"label", "code"}
  BY <1>9, <1>10
<1>12. register'[p] # N!NoProduct
  <2>1. N!NoProduct.label = 0
    BY DEF N!NoProduct
  <2> QED
    BY <1>9, <1>11, <2>1 DEF NoZeroId
<1>13. N!Keys' = N!Keys \cup {p} /\ N!Keys \subseteq N!Ids
  <2>1. N!Ids' = N!Ids /\ N!NoProduct' = N!NoProduct
    BY DEF N!Ids, N!NoProduct
  <2>2. N!Keys' = {q \in N!Ids : register'[q] # N!NoProduct}
    BY <2>1 DEF N!Keys
  <2> QED
    BY <1>9, <1>10, <1>12, <2>2 DEF N!Keys
<1>14. \A q \in N!Keys \ {p} : register'[q] = register[q]
  BY <1>10, <1>13
<1>a. \A c, d : N!SameCode(c, d) => N!SameCode(d, c)
  BY DEF N!SameCode
<1>b. N!IdentityKept
  BY DEF IdentityInv
\* The written row, against every other.
<1>15. ASSUME NEW q \in N!Keys \ {p}
       PROVE  /\ register[q].label # label /\ register[q].label # p /\ label # q
              /\ N!SameCode(register[q].code, code) => {p, q} \subseteq raced'
  <2>1. register[q].label # label
    <3>1. CASE new.op = "code"
      BY <1>3, <1>9, <1>b, <3>1 DEF N!IdentityKept
    <3>2. CASE new.op # "code"
      BY <1>3, <1>5, <3>2
    <3> QED
      BY <3>1, <3>2
  <2>2. register[q].label # p
    <3>1. CASE new.op = "insert"
      BY <1>9, <2>1, <3>1
    <3>2. CASE new.op # "insert"
      BY <1>9, <1>b, <3>2 DEF N!IdentityKept
    <3> QED
      BY <3>1, <3>2
  <2>3. label # q
    <3>1. CASE new.op = "insert"
      BY <1>9, <3>1
    <3>2. CASE new.op = "code"
      BY <1>3, <1>9, <1>b, <3>2 DEF N!IdentityKept
    <3>3. CASE new.op = "label"
      BY <1>1, <1>2, <1>3, <1>8, <2>1, <3>3 DEF LabelHolds
    <3> QED
      BY <1>9, <3>1, <3>2, <3>3
  <2>4. ASSUME N!SameCode(register[q].code, code) PROVE {p, q} \subseteq raced'
    <3>1. CASE new.op = "label"
      <4>1. p \in N!Keys /\ code = register[p].code
        BY <1>4, <1>9, <3>1
      <4>2. {p, q} \subseteq raced
        BY <1>a, <1>b, <2>4, <4>1 DEF N!IdentityKept
      <4> QED
        BY <1>5, <3>1, <4>2
    <3>2. CASE new.op # "label"
      <4>1. q \in raced /\ ~new.alone
        BY <1>1, <1>2, <1>4, <1>8, <2>4, <3>2 DEF CodeHolds
      <4> QED
        BY <1>5, <3>2, <4>1
    <3> QED
      BY <3>1, <3>2
  <2> QED
    BY <2>1, <2>2, <2>3, <2>4
<1>16. \A q \in raced : q # p => q \in raced'
  BY <1>5
<1>17. N!IdentityKept'
  <2>1. ASSUME NEW a \in N!Keys', NEW b \in N!Keys', a # b
        PROVE  /\ register'[a].label # register'[b].label /\ register'[a].label # b
               /\ N!SameCode(register'[a].code, register'[b].code) => {a, b} \subseteq raced'
    <3>1. CASE a = p
      BY <1>a, <1>11, <1>13, <1>14, <1>15, <2>1, <3>1
    <3>2. CASE b = p
      BY <1>11, <1>13, <1>14, <1>15, <2>1, <3>2
    <3>3. CASE a # p /\ b # p
      BY <1>13, <1>14, <1>16, <1>b, <2>1, <3>3 DEF N!IdentityKept
    <3> QED
      BY <3>1, <3>2, <3>3
  <2> QED
    BY <2>1 DEF N!IdentityKept, N!SameCode, N!Blank
\* The others under way.
<1>18. ASSUME NEW s \in LabelWriters, UnderWay(s)'
       PROVE  UnderWay(s) /\ s # r /\ lookup'[s] = lookup[s] /\ LookupSound(s)' /\ LabelHolds(s)' /\ CodeHolds(s)'
  <2>1. UnderWay(s) /\ s # r /\ lookup'[s] = lookup[s]
    BY <1>5, <1>18 DEF UnderWay, IdentityInv, N!Idle
  <2>2. LookupSound(s) /\ LabelHolds(s) /\ CodeHolds(s)
    BY <2>1 DEF IdentityInv
  <2>3. N!Ids' = N!Ids /\ N!Blank' = N!Blank
    BY DEF N!Ids, N!Blank
  <2>4. LookupSound(s)'
    BY <1>13, <2>1, <2>2, <2>3 DEF LookupSound
  <2>5. LabelHolds(s)'
    <3> SUFFICES ASSUME lookup[s].op = "label", NEW q \in N!Keys' \ {lookup[s].id}, q = lookup[s].label
                 PROVE  register'[q].label = q
      BY <2>1 DEF LabelHolds
    <3>1. s \in Labellers
      BY <2>2 DEF LookupSound
    <3>2. new.op = "insert"
      BY <1>9, <2>1, <3>1 DEF OneLabeller
    <3>3. CASE q = p
      BY <1>9, <1>11, <3>2, <3>3
    <3>4. CASE q # p
      BY <1>13, <1>14, <2>2, <3>4 DEF LabelHolds
    <3> QED
      BY <3>3, <3>4
  <2>6. ~lookup[s].alone /\ ~new.alone
    BY <1>1, <1>7, <2>1 DEF IdentityInv
  <2>7. ASSUME NEW q \in N!Keys' \ {lookup[s].id}, N!SameCode(register'[q].code, lookup[s].code)
        PROVE  q \in raced'
    <3>1. CASE q # p
      BY <1>13, <1>14, <1>16, <2>2, <2>7, <3>1 DEF CodeHolds
    <3>2. CASE q = p /\ new.op # "label"
      BY <1>5, <2>6, <3>2
    <3>3. CASE q = p /\ new.op = "label"
      <4>1. code = register[p].code /\ p \in N!Keys
        BY <1>4, <1>9, <3>3
      <4>2. p \in raced
        BY <1>11, <2>2, <2>7, <3>3, <4>1 DEF CodeHolds
      <4> QED
        BY <1>5, <3>3, <4>2
    <3> QED
      BY <3>1, <3>2, <3>3
  <2>8. CodeHolds(s)'
    BY <2>1, <2>6, <2>7 DEF CodeHolds, N!SameCode, N!Blank
  <2> QED
    BY <2>1, <2>4, <2>5, <2>8
<1>19. \A a, b \in LabelWriters : UnderWay(a)' /\ UnderWay(b)' /\ lookup'[a].alone => a = b
  <2>1. \A a \in LabelWriters : UnderWay(a)' => UnderWay(a) /\ lookup'[a] = lookup[a]
    BY <1>18
  <2> QED
    BY <2>1 DEF IdentityInv
<1>20. /\ register' = [q \in N!Ids |-> register'[q]] /\ lookup' = [s \in LabelWriters |-> lookup'[s]]
       /\ \A q \in N!Keys' : DOMAIN register'[q] = {"label", "code"} /\ register'[q].label \in N!Ids
       /\ \A q \in N!Ids : q \notin N!Keys' => register'[q] = N!NoProduct
  <2>1. register' = [q \in N!Ids |-> register'[q]] /\ lookup' = [s \in LabelWriters |-> lookup'[s]]
    BY <1>5, <1>6 DEF IdentityInv
  <2>2. \A q \in N!Keys' : DOMAIN register'[q] = {"label", "code"} /\ register'[q].label \in N!Ids
    BY <1>9, <1>11, <1>13, <1>14 DEF IdentityInv
  <2>3. \A q \in N!Ids : q \notin N!Keys' => register'[q] = N!NoProduct
    BY <1>10, <1>13 DEF IdentityInv
  <2> QED
    BY <2>1, <2>2, <2>3
<1>21. N!Ids' = N!Ids /\ N!NoProduct' = N!NoProduct
  BY DEF N!Ids, N!NoProduct
<1> QED
  BY <1>17, <1>18, <1>19, <1>20, <1>21 DEF IdentityInv

\* Requests end and no row is written.
LEMMA IdentityEnded ==
  ASSUME IdentityInv, UNCHANGED <<register, raced>>,
         lookup' = [s \in LabelWriters |-> lookup'[s]],
         \A s \in LabelWriters : lookup'[s] = lookup[s] \/ lookup'[s] = N!Idle
  PROVE  IdentityInv'
<1>3. N!Keys' = N!Keys /\ N!Ids' = N!Ids /\ N!NoProduct' = N!NoProduct
  BY DEF N!Keys, N!Ids, N!NoProduct
<1>4. \A s \in LabelWriters : UnderWay(s)' => UnderWay(s) /\ lookup'[s] = lookup[s]
  BY DEF UnderWay, N!Idle
<1>5. N!IdentityKept'
  <2>1. N!IdentityKept
    BY DEF IdentityInv
  <2> QED
    BY <1>3, <2>1 DEF N!IdentityKept, N!SameCode, N!Blank
<1>6. ASSUME NEW s \in LabelWriters, UnderWay(s)' PROVE LookupSound(s)' /\ LabelHolds(s)' /\ CodeHolds(s)'
  <2>1. LookupSound(s) /\ LabelHolds(s) /\ CodeHolds(s) /\ lookup'[s] = lookup[s]
    BY <1>4, <1>6 DEF IdentityInv
  <2> QED
    BY <1>3, <2>1 DEF LookupSound, LabelHolds, CodeHolds, N!SameCode, N!Blank
<1>7. \A a, b \in LabelWriters : UnderWay(a)' /\ UnderWay(b)' /\ lookup'[a].alone => a = b
  BY <1>4 DEF IdentityInv
<1> QED
  BY <1>3, <1>5, <1>6, <1>7 DEF IdentityInv

LEMMA IdentityFailed == ASSUME IdentityInv, NEW r \in LabelWriters, N!Fail(r) PROVE IdentityInv'
<1>1. lookup' = [lookup EXCEPT ![r] = N!Idle] /\ UNCHANGED <<column, register, raced>>
  BY DEF N!Fail
<1>2. \A s \in LabelWriters : lookup'[s] = lookup[s] \/ lookup'[s] = N!Idle
  BY <1>1 DEF IdentityInv
<1>3. lookup' = [s \in LabelWriters |-> lookup'[s]]
  BY <1>1 DEF IdentityInv
<1> QED
  BY <1>1, <1>2, <1>3, IdentityEnded

LEMMA IdentityStep ==
  ASSUME OneLabeller, NoZeroId
  PROVE  IdentityInv /\ [N!Next]_(N!vars) => IdentityInv'
<1> SUFFICES ASSUME IdentityInv, [N!Next]_(N!vars) PROVE IdentityInv'
  OBVIOUS
<1>1. CASE UNCHANGED N!vars
  <2>1. UNCHANGED <<column, register, raced, lookup>>
    BY <1>1 DEF N!vars
  <2>2. lookup' = [s \in LabelWriters |-> lookup'[s]]
    BY <2>1 DEF IdentityInv
  <2> QED
    BY <2>1, <2>2, IdentityEnded
<1> QED
  BY <1>1, IdentityRequested, IdentityWritten, IdentityFailed DEF N!Next, OneLabeller

-----------------------------------------------------------------------------
(***************************************************************************)
(* Names: the three parts about what names a product, together.            *)
(***************************************************************************)

\* Whatever rows overlapping requests leave, of a collection that is manual or
\* whose rule is set the pages name the products it lists, and no others but
\* the explicit products of a rule and those labelled in another case; a
\* product's references are rows that belong together; and with one request at a time that edits labels, an id or a label names one
\* product, and two share a slug or a SKU only if overlapping requests wrote both.
\* (product_service.py:390, :986 _resolve_taxonomy, :2362 change_product_id)
THEOREM NamesStayTogether ==
  ASSUME OneLabeller
  PROVE  OfficeSpec => []NamesHold
<1> DEFINE Inv == (part = "taxonomy" => TaxonomyInv) /\ (part = "identity" => IdentityInv)
<1>1. OfficeInit => Inv
  BY TaxonomyInit, IdentityInit, OfficeAssumption DEF OfficeInit
<1>2. Inv /\ [OfficeNext]_officeVars => Inv'
  BY TaxonomyStep, IdentityStep, OfficeAssumption, PartsMoveAlone
<1>3. Inv => NamesHold
  BY PagesNameMembers, ReferencesTogether DEF IdentityInv, NamesHold
<1> QED
  BY <1>1, <1>2, <1>3, PTL DEF OfficeSpec

-----------------------------------------------------------------------------
(***************************************************************************)
(* The storefront: what a listing says of itself, in any catalogue.        *)
(***************************************************************************)

\* The recursive definition of what a list keeps has a solution.
LEMMA KeptEquation ==
  ASSUME NEW Elems, NEW list \in Seq(Elems), NEW some
  PROVE  \E g \in [0..Len(list) -> Seq(Elems)] :
           /\ S!Kept(list, some) = g[Len(list)]
           /\ g[0] = <<>>
           /\ \A n \in 1..Len(list) : g[n] = IF list[n] \in some THEN Append(g[n - 1], list[n]) ELSE g[n - 1]
<1> DEFINE Size == Len(list)
           V == Seq(Elems)
           Then(n, v) == IF list[n] \in some THEN Append(v, list[n]) ELSE v
           step == [x \in (1..Size) \X V |-> Then(x[1], x[2])]
           Front(g) == [n \in 0..Size |-> IF n = 0 THEN <<>> ELSE Then(n, g[n - 1])]
           k == CHOOSE h : h = Front(h)
<1>1. Size \in Nat /\ <<>> \in V /\ \A n \in 1..Size : list[n] \in Elems
  OBVIOUS
<1>2. \A n \in 1..Size, v \in V : Then(n, v) \in V
  BY <1>1
<1>3. S!Kept(list, some) = k[Size]
  BY DEF S!Kept
<1> SUFFICES k \in [0..Size -> V] /\ k[0] = <<>> /\ \A n \in 1..Size : k[n] = Then(n, k[n - 1])
  BY <1>3
<1> HIDE DEF Size, V, Then
<1>4. step \in [(1..Size) \X V -> V]
  BY <1>2
<1>5. PICK g \in [0..Size -> V] : g[0] = <<>> /\ \A n \in 1..Size : g[n] = step[<<n, g[n - 1]>>]
  <2> DEFINE none == <<>>
  <2>1. Size \in Nat /\ none \in V
    BY <1>1
  <2> HIDE DEF step, none
  <2>2. \E g : Recursive(g, Size, V, none, step)
    BY <1>4, <2>1, Recursion
  <2> QED
    BY <2>2 DEF Recursive, none
<1>6. \A n \in 1..Size : g[n - 1] \in V /\ g[n] = Then(n, g[n - 1])
  <2> SUFFICES ASSUME NEW n \in 1..Size PROVE g[n - 1] \in V /\ g[n] = Then(n, g[n - 1])
    OBVIOUS
  <2>1. n - 1 \in 0..Size /\ g[n - 1] \in V
    BY <1>1
  <2> QED
    BY <1>5, <2>1
<1>7. g = Front(g)
  BY <1>1, <1>5, <1>6
<1>8. k = Front(k)
  <2> HIDE DEF Front
  <2> QED
    BY <1>7
<1> HIDE DEF k
<1>9. k[0] = <<>> /\ \A n \in 1..Size : k[n] = Then(n, k[n - 1])
  BY <1>1, <1>8
<1>10. \A n \in Nat : n \in 0..Size => k[n] \in V
  <2> DEFINE Good == {n \in Nat : n \in 0..Size => k[n] \in V}
  <2>1. 0 \in Good
    BY <1>1, <1>9
  <2>2. ASSUME NEW n \in Nat, n \in Good PROVE n + 1 \in Good
    <3> SUFFICES ASSUME n + 1 \in 0..Size PROVE k[n + 1] \in V
      OBVIOUS
    <3>1. n + 1 \in 1..Size /\ (n + 1) - 1 = n /\ k[n] \in V
      BY <1>1, <2>2
    <3> QED
      BY <1>2, <1>9, <3>1
  <2> HIDE DEF Good
  <2>3. \A n \in Nat : n \in Good
    BY <2>1, <2>2, SuccessorInduction
  <2> QED
    BY <2>3 DEF Good
<1>11. k \in [0..Size -> V]
  BY <1>1, <1>8, <1>10
<1> QED
  BY <1>9, <1>11

\* No member of the list twice.
Distinct(list) == \A i, j \in DOMAIN list : list[i] = list[j] => i = j

\* What a list keeps are members of it, and no more often.
LEMMA KeptFacts ==
  ASSUME NEW Elems, NEW list \in Seq(Elems), NEW some
  PROVE  /\ S!Kept(list, some) \in Seq(Elems)
         /\ \A i \in DOMAIN S!Kept(list, some) : S!Kept(list, some)[i] \in some
         /\ Distinct(list) => Distinct(S!Kept(list, some))
<1> DEFINE Size == Len(list)
<1>1. PICK g \in [0..Size -> Seq(Elems)] :
        /\ S!Kept(list, some) = g[Size]
        /\ g[0] = <<>>
        /\ \A n \in 1..Size : g[n] = IF list[n] \in some THEN Append(g[n - 1], list[n]) ELSE g[n - 1]
  BY KeptEquation
<1>2. Size \in Nat /\ \A n \in 1..Size : list[n] \in Elems
  OBVIOUS
<1> DEFINE Fine(n) == /\ \A i \in DOMAIN g[n] : g[n][i] \in some /\ \E j \in 1..n : g[n][i] = list[j]
                      /\ Distinct(list) => Distinct(g[n])
           Good == {n \in Nat : n \in 0..Size => Fine(n)}
<1>3. 0 \in Good
  <2>1. DOMAIN g[0] = {}
    BY <1>1
  <2> QED
    BY <2>1 DEF Distinct
<1>4. ASSUME NEW n \in Nat, n \in Good PROVE n + 1 \in Good
  <2> SUFFICES ASSUME n + 1 \in 0..Size PROVE Fine(n + 1)
    OBVIOUS
  <2>1. n + 1 \in 1..Size /\ (n + 1) - 1 = n /\ n \in 0..Size /\ Fine(n) /\ list[n + 1] \in Elems /\ DOMAIN list = 1..Size
    BY <1>2, <1>4
  <2> DEFINE old == g[n]
             new == g[n + 1]
             x == list[n + 1]
  <2>2. old \in Seq(Elems) /\ new = IF x \in some THEN Append(old, x) ELSE old
    BY <1>1, <2>1
  <2>3. CASE x \notin some
    BY <2>1, <2>2, <2>3
  <2>4. CASE x \in some
    <3> HIDE DEF old, new, x, Fine
    <3>1. /\ Len(old) \in Nat /\ DOMAIN old = 1..Len(old) /\ DOMAIN new = 1..(Len(old) + 1)
          /\ new[Len(old) + 1] = x /\ \A i \in 1..Len(old) : new[i] = old[i]
      BY <2>1, <2>2, <2>4 DEF x
    <3>2. ASSUME NEW i \in DOMAIN new
          PROVE  new[i] \in some /\ \E j \in 1..(n + 1) : new[i] = list[j]
      <4>1. CASE i = Len(old) + 1
        BY <2>1, <2>4, <3>1, <4>1 DEF x
      <4>2. CASE i \in DOMAIN old
        BY <2>1, <3>1, <4>2 DEF Fine, old
      <4> QED
        BY <3>1, <4>1, <4>2
    <3>3. ASSUME Distinct(list) PROVE Distinct(new)
      <4>1. \A i \in DOMAIN old : old[i] # x
        <5> SUFFICES ASSUME NEW i \in DOMAIN old, old[i] = x PROVE FALSE
          OBVIOUS
        <5>1. PICK j \in 1..n : old[i] = list[j]
          BY <2>1 DEF Fine, old
        <5>2. j \in DOMAIN list /\ n + 1 \in DOMAIN list /\ j # n + 1
          BY <2>1, <5>1
        <5> QED
          BY <3>3, <5>1, <5>2 DEF Distinct, x
      <4>2. \A i, j \in DOMAIN old : old[i] = old[j] => i = j
        BY <2>1, <3>3 DEF Fine, Distinct, old
      <4> QED
        BY <3>1, <4>1, <4>2 DEF Distinct
    <3> QED
      BY <3>2, <3>3 DEF Fine, new
  <2> QED
    BY <2>3, <2>4
<1>5. Size \in Good
  <2> HIDE DEF Good
  <2> QED
    BY <1>2, <1>3, <1>4, SuccessorInduction
<1> QED
  BY <1>1, <1>2, <1>5

\* Rows are rows, and the products viewed last are products, each of them once.
FrontInv == listing \in [Articles -> S!Row] /\ recent \in Seq(Articles) /\ Distinct(recent)

LEMMA FrontInit == ASSUME CatalogueTyped, S!Init PROVE FrontInv
BY DEF CatalogueTyped, S!Init, FrontInv, Distinct

LEMMA RowSaved ==
  ASSUME FrontInv, NEW p \in Articles, NEW attribute, NEW value,
         S!Save(p, attribute, value), [listing[p] EXCEPT ![attribute] = value] \in S!Row
  PROVE  FrontInv'
<1> DEFINE new == [listing[p] EXCEPT ![attribute] = value]
<1>1. listing' = [listing EXCEPT ![p] = new]
  BY DEF S!Save
<1> HIDE DEF new
<1> QED
  BY <1>1 DEF S!Save, FrontInv, Distinct, new

LEMMA Viewed ==
  ASSUME CatalogueTyped, FrontInv, NEW p \in Articles, S!View(p)
  PROVE  FrontInv'
<1> DEFINE rest == S!Kept(recent, Articles \ {p})
           all == <<p>> \o rest
<1>1. rest \in Seq(Articles) /\ Distinct(rest) /\ \A i \in DOMAIN rest : rest[i] \in Articles \ {p}
  BY KeptFacts DEF FrontInv
<1>2. recent' = S!Trimmed(all) /\ listing' = listing
  BY DEF S!View, S!Pushed
<1> HIDE DEF rest
<1>3. all \in Seq(Articles) /\ Len(all) = Len(rest) + 1 /\ Len(rest) \in Nat
  BY <1>1
<1>4. all[1] = p /\ \A i \in 2..Len(all) : i - 1 \in DOMAIN rest /\ all[i] = rest[i - 1]
  BY <1>1
<1> HIDE DEF all
<1>5. Distinct(all)
  BY <1>1, <1>3, <1>4 DEF Distinct
<1>6. S!Trimmed(all) \in Seq(Articles) /\ Distinct(S!Trimmed(all))
  <2>1. CASE Len(all) > RecentLimit
    <3>1. S!Trimmed(all) = SubSeq(all, 1, RecentLimit) /\ RecentLimit \in Nat
      BY <2>1 DEF S!Trimmed, CatalogueTyped
    <3> DEFINE cut == SubSeq(all, 1, RecentLimit)
    <3>2. cut \in Seq(Articles) /\ Len(cut) = RecentLimit /\ \A i \in 1..RecentLimit : cut[i] = all[i]
      BY <1>3, <2>1, <3>1
    <3> HIDE DEF cut
    <3>3. Distinct(cut)
      BY <1>3, <1>5, <2>1, <3>1, <3>2 DEF Distinct
    <3> QED
      BY <3>1, <3>2, <3>3 DEF cut
  <2>2. CASE ~(Len(all) > RecentLimit)
    BY <1>3, <1>5, <2>2 DEF S!Trimmed
  <2> QED
    BY <2>1, <2>2
<1> QED
  BY <1>2, <1>6 DEF FrontInv, Distinct

LEMMA FrontStep == ASSUME CatalogueTyped, FrontInv, [S!Next]_(S!vars) PROVE FrontInv'
<1>1. CASE UNCHANGED S!vars
  BY <1>1 DEF S!vars, FrontInv, Distinct
<1>2. ASSUME NEW p \in Articles, NEW attribute \in {"live", "edit", "registered", "stock"},
             S!Save(p, attribute, ~listing[p][attribute])
      PROVE  FrontInv'
  <2>1. listing[p] \in S!Row
    BY DEF FrontInv
  <2>2. [listing[p] EXCEPT ![attribute] = ~listing[p][attribute]] \in S!Row
    <3>1. CASE attribute = "live"
      BY <2>1, <3>1 DEF S!Row
    <3>2. CASE attribute = "edit"
      BY <2>1, <3>2 DEF S!Row
    <3>3. CASE attribute = "registered"
      BY <2>1, <3>3 DEF S!Row
    <3>4. CASE attribute = "stock"
      BY <2>1, <3>4 DEF S!Row
    <3> QED
      BY <1>2, <3>1, <3>2, <3>3, <3>4
  <2> QED
    BY <1>2, <2>2, RowSaved
<1>3. ASSUME NEW p \in Articles, NEW c \in Areas, S!Save(p, "category", c) PROVE FrontInv'
  <2>1. [listing[p] EXCEPT !["category"] = c] \in S!Row
    BY DEF FrontInv, S!Row
  <2> QED
    BY <1>3, <2>1, RowSaved
<1>4. ASSUME NEW p \in Articles, NEW cs \in Palettes, S!Save(p, "colors", cs) PROVE FrontInv'
  <2>1. [listing[p] EXCEPT !["colors"] = cs] \in S!Row
    BY DEF FrontInv, S!Row
  <2> QED
    BY <1>4, <2>1, RowSaved
<1>5. ASSUME NEW p \in Articles, NEW price \in Prices, S!Save(p, "price", price) PROVE FrontInv'
  <2>1. [listing[p] EXCEPT !["price"] = price] \in S!Row
    BY DEF FrontInv, S!Row
  <2> QED
    BY <1>5, <2>1, RowSaved
<1>6. ASSUME NEW p \in Articles, NEW plate \in Plates, S!Save(p, "plate", plate) PROVE FrontInv'
  <2>1. [listing[p] EXCEPT !["plate"] = plate] \in S!Row
    BY DEF FrontInv, S!Row
  <2> QED
    BY <1>6, <2>1, RowSaved
<1>11. ASSUME NEW p \in Articles, NEW label \in Labels \cup {S!NoLabel}, S!Save(p, "label", label) PROVE FrontInv'
  <2>1. [listing[p] EXCEPT !["label"] = label] \in S!Row
    BY DEF FrontInv, S!Row
  <2> QED
    BY <1>11, <2>1, RowSaved
<1>7. ASSUME NEW c \in Areas, S!SwitchCategory(c) PROVE FrontInv'
  BY <1>7 DEF S!SwitchCategory, FrontInv, Distinct
<1>8. CASE S!ReadRecent
  BY <1>8 DEF S!ReadRecent, FrontInv, Distinct
<1>9. CASE S!Expire
  BY <1>9 DEF S!Expire, FrontInv, Distinct
<1>10. ASSUME NEW p \in Articles, S!View(p) PROVE FrontInv'
  BY <1>10, Viewed
<1> QED
  BY <1>1, <1>2, <1>3, <1>4, <1>5, <1>6, <1>7, <1>8, <1>9, <1>10, <1>11 DEF S!Next, S!ViewCalls

\* No price is in two bands.
LEMMA BandsApart ==
  ASSUME NEW b \in S!Bands, NEW c \in S!Bands, NEW x \in Int, x \in b.min..b.max, x \in c.min..c.max
  PROVE  b.id = c.id
<1> DEFINE Place(d) == \/ d.id = "under-500" /\ x <= 499
                       \/ d.id = "500-1000" /\ 500 <= x /\ x <= 1000
                       \/ d.id = "1000-2500" /\ 1001 <= x /\ x <= 2500
                       \/ d.id = "2500-5000" /\ 2501 <= x /\ x <= 5000
                       \/ d.id = "above-5000" /\ 5001 <= x
<1>1. S!Unlimited \in Int
  BY SMT DEF S!Unlimited
<1>2. ASSUME NEW d \in S!Bands, x \in d.min..d.max PROVE Place(d)
  <2>1. CASE d = [id |-> "under-500", min |-> 0, max |-> 499]
    BY <1>2, <2>1
  <2>2. CASE d = [id |-> "500-1000", min |-> 500, max |-> 1000]
    BY <1>2, <2>2
  <2>3. CASE d = [id |-> "1000-2500", min |-> 1001, max |-> 2500]
    BY <1>2, <2>3
  <2>4. CASE d = [id |-> "2500-5000", min |-> 2501, max |-> 5000]
    BY <1>2, <2>4
  <2>5. CASE d = [id |-> "above-5000", min |-> 5001, max |-> S!Unlimited]
    BY <1>1, <1>2, <2>5
  <2> HIDE DEF Place
  <2> QED
    BY <2>1, <2>2, <2>3, <2>4, <2>5, SMT DEF S!Bands
<1>3. Place(b) /\ Place(c)
  BY <1>2
<1> QED
  BY <1>3

\* The band that _get_price_band returns is the one the price filter looks for.
LEMMA BandFound ==
  ASSUME NEW p, listing[p].price \in Int, NEW id \in {"500-1000", "1000-2500"}
  PROVE  S!Band(p) = id <=> S!InBand(p, id)
<1> DEFINE price == listing[p].price
           b == CHOOSE b \in S!Bands : S!InBand(p, b.id)
<1>1. \A i : S!InBand(p, i) <=> \E c \in S!Bands : c.id = i /\ price \in c.min..c.max
  BY DEF S!InBand
<1>2. PICK c \in S!Bands : c.id = id
  BY SMT DEF S!Bands
<1>3. CASE \E d \in S!Bands : S!InBand(p, d.id)
  <2>1. S!Band(p) = b.id
    BY <1>3 DEF S!Band
  <2>2. b \in S!Bands /\ S!InBand(p, b.id)
    BY <1>3
  <2> HIDE DEF b, price
  <2>3. price \in Int
    BY DEF price
  <2> QED
    BY <1>1, <2>1, <2>2, <2>3, BandsApart
<1>4. CASE ~\E d \in S!Bands : S!InBand(p, d.id)
  <2>1. S!Band(p) = "above-5000"
    BY <1>4 DEF S!Band
  <2> QED
    BY <1>2, <1>4, <2>1
<1> QED
  BY <1>3, <1>4

\* Sums and sizes in Storefront are those of the library.
LEMMA StoreSums == \A f : S!SumFunction(f) = SumFunction(f)
BY DEF SumFunction, SumFunctionOnSet, FoldFunctionOnSet, MapThenFoldSet,
       S!SumFunction, S!SumFunctionOnSet, S!FoldFunctionOnSet, S!MapThenFoldSet

LEMMA StoreSizes == \A s : S!Cardinality(s) = Cardinality(s)
BY DEF Cardinality, S!Cardinality

\* A product counts for a value a number of times, and only if it has the value.
LEMMA TimesFacts ==
  ASSUME CatalogueTyped, FrontInv, NEW p \in Articles, NEW f \in S!Facets, NEW v \in UNION S!Wanted(f)
  PROVE  S!Times(p, f, v) \in Nat /\ (S!Times(p, f, v) > 0 => S!Has(p, f, v))
<1>0. listing[p] \in S!Row
  BY DEF FrontInv
<1>1. CASE f = "category"
  <2>1. S!Says(p, f) = {listing[p].category} /\ S!Times(p, f, v) = IF listing[p].category = v THEN 1 ELSE 0
    BY <1>1 DEF S!Says, S!Times
  <2> QED
    BY <1>1, <2>1 DEF S!Has, S!Among
<1>2. CASE f = "color"
  <2> DEFINE list == listing[p].colors
             spelled == {i \in DOMAIN list : list[i] = v}
  <2>1. list \in Seq(STRING)
    BY <1>0 DEF S!Row, CatalogueTyped
  <2>2. S!Times(p, f, v) = Cardinality(spelled) /\ S!Says(p, f) = S!Range(list)
    BY <1>2, StoreSizes DEF S!Times, S!Says
  <2>3. DOMAIN list = 1..Len(list) /\ Len(list) \in Nat
    BY <2>1
  <2> HIDE DEF list
  <2>4. IsFiniteSet(1..Len(list))
    BY <2>3, FS_Interval
  <2>5. IsFiniteSet(spelled) /\ Cardinality(spelled) \in Nat
    BY <2>3, <2>4, FS_Subset, FS_CardinalityType
  <2>6. spelled # {} => \E w \in S!Range(list) : Fold[w] = Fold[v]
    BY DEF S!Range
  <2>7. Cardinality(spelled) > 0 => spelled # {}
    BY FS_EmptySet
  <2> QED
    BY <1>2, <2>2, <2>5, <2>6, <2>7 DEF S!Has, S!Among
<1>3. CASE f = "collection"
  <2>1. S!Says(p, f) = (IF listing[p].edit THEN {"edit"} ELSE {}) \cup S!LabelOf(p)
    BY <1>3 DEF S!Says
  <2>2. S!Times(p, f, v) =
          (IF listing[p].edit /\ v = "edit" THEN 1 ELSE 0) + (IF v \in S!LabelOf(p) THEN 1 ELSE 0)
    BY <1>3 DEF S!Times
  <2>3. S!Times(p, f, v) > 0 => v \in S!Says(p, f)
    BY <2>1, <2>2
  <2> QED
    BY <1>3, <2>2, <2>3 DEF S!Has, S!Among
<1>4. CASE f = "price"
  <2>1. v \in {"500-1000", "1000-2500"}
    BY <1>4 DEF S!Wanted
  <2>2. listing[p].price \in Int
    BY <1>0 DEF S!Row, CatalogueTyped
  <2>3. S!Band(p) = v <=> S!InBand(p, v)
    BY <2>1, <2>2, BandFound
  <2>4. S!Times(p, f, v) = (IF S!Band(p) = v THEN 1 ELSE 0) /\ (S!Has(p, f, v) <=> S!InBand(p, v))
    BY <1>4 DEF S!Times, S!Has
  <2> QED
    BY <2>3, <2>4
<1> QED
  BY <1>1, <1>2, <1>3, <1>4 DEF S!Facets

\* A facet counts what choosing its value would show: the filters that
\* _items_excl leaves out are the ones that the choice replaces, and what the
\* choice does not show does not count.
LEMMA CountsMatch ==
  ASSUME CatalogueTyped, FrontInv, NEW q \in S!Queries, NEW f \in S!Facets, NEW v \in UNION S!Wanted(f)
  PROVE  S!CountFacet(q, f, v) =
           S!SumFunction([p \in S!Results([q EXCEPT ![f] = {v}]) |-> S!Times(p, f, v)])
<1> DEFINE items == S!ItemsExcl(q, f)
           chosen == [q EXCEPT ![f] = {v}]
           listed == S!Results(chosen)
           Counts(p) == S!Times(p, f, v)
           times == [p \in items |-> Counts(p)]
           some == [p \in listed |-> Counts(p)]
<1>1. q.q = q["q"] /\ chosen.q = q.q /\ chosen[f] = {v} /\ \A g \in S!Facets \ {f} : chosen[g] = q[g]
  BY DEF S!Queries, S!Facets
<1>2. S!Named(chosen) = S!Named(q) /\ S!Named(q) \subseteq Articles
  BY <1>1 DEF S!Named, S!Shown
<1> HIDE DEF chosen
<1>3. listed = {p \in items : S!Has(p, f, v)}
  <2>1. \A p : S!Matches(chosen, p) <=>
           S!Has(p, f, v) /\ \A g \in S!Facets \ {f} : q[g] # {} => \E w \in q[g] : S!Has(p, g, w)
    BY <1>1 DEF S!Matches
  <2>2. listed = {p \in S!Named(q) : S!Matches(chosen, p)}
    BY <1>2 DEF S!Results
  <2>3. items = {p \in S!Named(q) : \A g \in S!Facets \ {f} : q[g] # {} => \E w \in q[g] : S!Has(p, g, w)}
    BY DEF S!ItemsExcl
  <2> QED
    BY <2>1, <2>2, <2>3
<1>4. items \subseteq Articles /\ IsFiniteSet(items)
  BY <1>2, FS_Subset DEF S!ItemsExcl, CatalogueTyped
<1>5. S!CountFacet(q, f, v) = SumFunction(times) /\ S!SumFunction(some) = SumFunction(some)
  BY StoreSums DEF S!CountFacet
<1> HIDE DEF items, listed
<1>6. listed \in SUBSET items
  BY <1>3
<1>7. \A p \in items : Counts(p) \in Nat /\ (Counts(p) > 0 => p \in listed)
  BY <1>3, <1>4, TimesFacts
<1> HIDE DEF Counts
<1>8. times \in [items -> Int]
  BY <1>7
<1>9. some \in [listed -> Int]
  BY <1>6, <1>7
<1>10. \A p \in listed : some[p] = times[p]
  BY <1>6
<1>11. \A p \in items \ listed : times[p] = 0
  BY <1>7
<1> HIDE DEF times, some
<1>12. SumFunction(times) = SumFunction(some)
  BY <1>4, <1>6, <1>8, <1>9, <1>10, <1>11, SumRestrict
<1> QED
  BY <1>5, <1>12 DEF some, Counts, listed, chosen

\* Every sort key ends in the id.
LEMMA KeyFacts ==
  ASSUME CatalogueTyped, FrontInv, NEW sort \in S!Sorts, NEW p \in Articles
  PROVE  /\ S!Key(sort, p)[1] \in Int /\ S!Key(sort, p)[2] \in Int
         /\ \A o \in Articles : S!Key(sort, o) = S!Key(sort, p) => o = p
<1>1. \A o \in Articles : o \in Int /\ listing[o].price \in Int
  BY DEF CatalogueTyped, FrontInv, S!Row
<1>2. CASE sort = "newest"
  BY <1>1, <1>2 DEF S!Key
<1>3. CASE sort = "price-asc"
  BY <1>1, <1>3 DEF S!Key
<1>4. CASE sort = "price-desc"
  BY <1>1, <1>4 DEF S!Key
<1>5. CASE sort = "recommended"
  BY <1>1, <1>5 DEF S!Key
<1> QED
  BY <1>2, <1>3, <1>4, <1>5 DEF S!Sorts

\* The order by keys alone.
Ahead(sort, p, o) ==
  \/ S!Key(sort, p)[1] < S!Key(sort, o)[1]
  \/ S!Key(sort, p)[1] = S!Key(sort, o)[1] /\ S!Key(sort, p)[2] < S!Key(sort, o)[2]

\* What the database returned first never decides.
LEMMA Ordered ==
  ASSUME CatalogueTyped, FrontInv, NEW sort \in S!Sorts, NEW heap \in [Articles -> Int],
         NEW p \in Articles, NEW o \in Articles
  PROVE  /\ S!Before(sort, heap, p, o) <=> Ahead(sort, p, o)
         /\ p # o <=> S!Before(sort, heap, p, o) \/ S!Before(sort, heap, o, p)
<1>1. /\ S!Key(sort, p)[1] \in Int /\ S!Key(sort, p)[2] \in Int
      /\ S!Key(sort, o)[1] \in Int /\ S!Key(sort, o)[2] \in Int
      /\ S!Key(sort, p) = S!Key(sort, o) <=> p = o
  BY KeyFacts
<1>2. S!Key(sort, p) = <<S!Key(sort, p)[1], S!Key(sort, p)[2]>>
      /\ S!Key(sort, o) = <<S!Key(sort, o)[1], S!Key(sort, o)[2]>>
  BY SMT DEF S!Key, S!Sorts
<1>3. heap[p] \in Int /\ heap[o] \in Int
  OBVIOUS
<1>4. \A x, y \in Articles : S!Before(sort, heap, x, y) <=>
        \/ Ahead(sort, x, y)
        \/ S!Key(sort, x) = S!Key(sort, y) /\ heap[x] < heap[y]
  BY DEF S!Before, Ahead
<1>5. ~(heap[p] < heap[p]) /\ (Ahead(sort, p, o) => p # o) /\ (Ahead(sort, o, p) => p # o)
  BY <1>1, <1>3 DEF Ahead
<1>6. p # o => Ahead(sort, p, o) \/ Ahead(sort, o, p)
  BY <1>1, <1>2 DEF Ahead
<1> QED
  BY <1>1, <1>4, <1>5, <1>6

\* A product's place is the same whatever the database returned first.
LEMMA RankFacts ==
  ASSUME CatalogueTyped, FrontInv, NEW sort \in S!Sorts, NEW items \in SUBSET Articles, NEW p \in items,
         NEW heap \in [Articles -> Int], NEW other \in [Articles -> Int]
  PROVE  /\ S!Rank(items, sort, heap, p) \in Nat
         /\ Cardinality(items) \in Nat /\ S!Rank(items, sort, heap, p) < Cardinality(items)
         /\ S!Rank(items, sort, other, p) = S!Rank(items, sort, heap, p)
<1> DEFINE before == {o \in items : S!Before(sort, heap, o, p)}
<1>1. IsFiniteSet(items) /\ Cardinality(items) \in Nat
  BY FS_Subset, FS_CardinalityType DEF CatalogueTyped
<1>2. before \subseteq items \ {p}
  <2> SUFFICES ASSUME NEW o \in items, S!Before(sort, heap, o, p) PROVE o # p
    OBVIOUS
  <2> QED
    BY Ordered
<1>3. before = {o \in items : S!Before(sort, other, o, p)}
  <2>1. \A o \in items : S!Before(sort, heap, o, p) <=> S!Before(sort, other, o, p)
    BY Ordered
  <2> QED
    BY <2>1
<1>4. S!Rank(items, sort, heap, p) = Cardinality(before) /\ S!Rank(items, sort, other, p) = Cardinality(before)
  BY <1>3, StoreSizes DEF S!Rank
<1> HIDE DEF before
<1>5. IsFiniteSet(items \ {p}) /\ Cardinality(items \ {p}) = Cardinality(items) - 1
  BY <1>1, FS_RemoveElement
<1>6. Cardinality(before) \in Nat /\ Cardinality(before) <= Cardinality(items \ {p})
  BY <1>2, <1>5, FS_Subset, FS_CardinalityType
<1> QED
  BY <1>1, <1>4, <1>5, <1>6

\* Every place is on some page.
LEMMA PageOf ==
  ASSUME NEW size \in Nat \ {0}, NEW r \in Nat
  PROVE  \E n \in Nat : n <= r /\ n * size <= r /\ r < (n + 1) * size
<1> DEFINE Good == {m \in Nat : \E n \in Nat : n <= m /\ n * size <= m /\ m < (n + 1) * size}
<1>1. 0 \in Good
  <2>1. 0 * size <= 0 /\ 0 < (0 + 1) * size
    OBVIOUS
  <2> QED
    BY <2>1
<1>2. ASSUME NEW m \in Nat, m \in Good PROVE m + 1 \in Good
  <2>1. PICK n \in Nat : n <= m /\ n * size <= m /\ m < (n + 1) * size
    BY <1>2
  <2>2. n * size \in Int /\ (n + 1) * size = n * size + size /\ ((n + 1) + 1) * size = (n + 1) * size + size
        /\ (n + 1) * size \in Int
    OBVIOUS
  <2>3. CASE m + 1 < (n + 1) * size
    BY <2>1, <2>2, <2>3
  <2>4. CASE ~(m + 1 < (n + 1) * size)
    <3>1. (n + 1) * size <= m + 1 /\ m + 1 < ((n + 1) + 1) * size /\ n + 1 <= m + 1 /\ n + 1 \in Nat
      BY <2>1, <2>2, <2>4
    <3>2. \E k \in Nat : k <= m + 1 /\ k * size <= m + 1 /\ m + 1 < (k + 1) * size
      BY <3>1
    <3> QED
      BY <3>2
  <2> QED
    BY <2>3, <2>4
<1>3. r \in Good
  <2> HIDE DEF Good
  <2> QED
    BY <1>1, <1>2, SuccessorInduction
<1> QED
  BY <1>3

\* Every product found is on a page that /explore leads to.
LEMMA Paged ==
  ASSUME CatalogueTyped, FrontInv, NEW sort \in S!Sorts, NEW q, NEW p \in S!Results(q)
  PROVE  \E n \in 1..Cardinality(Articles) :
           /\ n = 1 \/ S!HasMore(q, n - 1, PageSize)
           /\ \A heap \in [Articles -> Int] : p \in S!Page(q, sort, heap, n, PageSize)
<1> DEFINE items == S!Results(q)
           steady == [a \in Articles |-> a]
           r == S!Rank(items, sort, steady, p)
<1>1. items \in SUBSET Articles /\ PageSize \in Nat \ {0} /\ IsFiniteSet(Articles)
  BY DEF S!Results, S!Named, S!Shown, CatalogueTyped
<1>2. steady \in [Articles -> Int]
  BY DEF CatalogueTyped
<1>3. p \in items
  OBVIOUS
<1> HIDE DEF items, steady
<1>4. r \in Nat /\ Cardinality(items) \in Nat /\ r < Cardinality(items)
  BY <1>1, <1>2, <1>3, RankFacts
<1>5. \A heap \in [Articles -> Int] : S!Rank(items, sort, heap, p) = r
  BY <1>1, <1>2, <1>3, RankFacts
<1>6. Cardinality(items) <= Cardinality(Articles) /\ Cardinality(Articles) \in Nat
  BY <1>1, FS_Subset, FS_CardinalityType
<1> HIDE DEF r
<1>7. PICK n \in Nat : n <= r /\ n * PageSize <= r /\ r < (n + 1) * PageSize
  BY <1>1, <1>4, PageOf
<1>8. n + 1 \in 1..Cardinality(Articles)
  BY <1>4, <1>6, <1>7
<1>9. (n + 1) - 1 = n /\ n * PageSize \in Int /\ (n + 1) * PageSize \in Int
  BY <1>1
<1>10. n + 1 = 1 \/ S!HasMore(q, (n + 1) - 1, PageSize)
  BY <1>4, <1>7, <1>9, StoreSizes DEF S!HasMore, items
<1>11. ASSUME NEW heap \in [Articles -> Int] PROVE p \in S!Page(q, sort, heap, n + 1, PageSize)
  <2>1. r \in ((n + 1) - 1) * PageSize .. (n + 1) * PageSize - 1
    BY <1>4, <1>7, <1>9
  <2>2. S!Rank(S!Results(q), sort, heap, p) = r
    BY <1>5 DEF items
  <2> QED
    BY <2>1, <2>2 DEF S!Page
<1> QED
  BY <1>8, <1>10, <1>11

\* Two pages share no product, in whatever order rows come for each.
LEMMA PagesApart ==
  ASSUME CatalogueTyped, FrontInv, NEW sort \in S!Sorts, NEW q,
         NEW heap \in [Articles -> Int], NEW other \in [Articles -> Int]
  PROVE  S!Page(q, sort, heap, 1, PageSize) \cap S!Page(q, sort, other, 2, PageSize) = {}
<1> SUFFICES ASSUME NEW p \in S!Page(q, sort, heap, 1, PageSize), p \in S!Page(q, sort, other, 2, PageSize)
             PROVE FALSE
  OBVIOUS
<1> DEFINE items == S!Results(q)
           r == S!Rank(items, sort, heap, p)
           t == S!Rank(items, sort, other, p)
<1>1. items \in SUBSET Articles /\ PageSize \in Nat \ {0}
  BY DEF S!Results, S!Named, S!Shown, CatalogueTyped
<1>2. p \in items /\ r \in (1 - 1) * PageSize .. 1 * PageSize - 1 /\ t \in (2 - 1) * PageSize .. 2 * PageSize - 1
  BY DEF S!Page
<1> HIDE DEF items
<1>3. r = t /\ r \in Nat
  BY <1>1, <1>2, RankFacts
<1> HIDE DEF r, t
<1> QED
  BY <1>1, <1>2, <1>3

\* What no filter, a term, and one category leave.
Searched(p) == S!Says(p, "category") \cup S!Says(p, "color") \cup S!LabelOf(p)
LEMMA Unfiltered ==
  ASSUME FrontInv
  PROVE  /\ S!Results(S!NoFilter) = S!Shown
         /\ \A term : S!Results([S!NoFilter EXCEPT !["q"] = term]) =
                        {p \in S!Shown : term = S!NoTerm \/ S!Among(term, Searched(p))}
         /\ \A c : S!Results([S!NoFilter EXCEPT !["category"] = {c}]) = {p \in S!Shown : Fold[listing[p].category] = Fold[c]}
<1> DEFINE Plain == S!NoFilter
<1>1. Plain = [f \in S!Facets \cup {"q"} |-> IF f = "q" THEN S!NoTerm ELSE {}]
  BY DEF S!NoFilter
<1>2. Plain["q"] = S!NoTerm /\ \A f \in S!Facets : Plain[f] = {}
  BY <1>1 DEF S!Facets
<1>3. \A p : S!Matches(Plain, p)
  BY <1>2 DEF S!Matches
<1>4. S!Named(Plain) = S!Shown
  BY <1>2 DEF S!Named
<1>5. S!Results(Plain) = S!Shown
  BY <1>3, <1>4 DEF S!Results
<1>6. ASSUME NEW term
      PROVE  S!Results([Plain EXCEPT !["q"] = term]) =
               {p \in S!Shown : term = S!NoTerm \/ S!Among(term, Searched(p))}
  <2> DEFINE q == [Plain EXCEPT !["q"] = term]
  <2>1. q.q = term /\ \A f \in S!Facets : q[f] = {}
    BY <1>1 DEF S!Facets
  <2> HIDE DEF q
  <2>2. \A p : S!Matches(q, p)
    BY <2>1 DEF S!Matches
  <2> QED
    BY <2>1, <2>2 DEF S!Results, S!Named, Searched, q
<1>7. ASSUME NEW c
      PROVE  S!Results([Plain EXCEPT !["category"] = {c}]) = {p \in S!Shown : Fold[listing[p].category] = Fold[c]}
  <2> DEFINE q == [Plain EXCEPT !["category"] = {c}]
  <2>1. q.q = S!NoTerm /\ q["category"] = {c} /\ \A f \in S!Facets \ {"category"} : q[f] = {}
    BY <1>1 DEF S!Facets
  <2> HIDE DEF q
  <2>2. \A p : S!Matches(q, p) <=> Fold[listing[p].category] = Fold[c]
    BY <2>1 DEF S!Matches, S!Facets, S!Has, S!Among, S!Says
  <2>3. S!Named(q) = S!Shown
    BY <2>1 DEF S!Named
  <2> QED
    BY <2>2, <2>3 DEF S!Results, q
<1> QED
  BY <1>5, <1>6, <1>7

\* The pages together are the products found.
LEMMA PagesCover ==
  ASSUME CatalogueTyped, FrontInv, NEW sort \in S!Sorts, NEW q,
         NEW steady \in [Articles -> Int], NEW heap \in [Articles -> Int]
  PROVE  S!Results(q) = UNION {S!Page(q, sort, IF n = 1 THEN steady ELSE heap, n, PageSize) :
                                 n \in {k \in 1..S!Cardinality(Articles) : k = 1 \/ S!HasMore(q, k - 1, PageSize)}}
<1> DEFINE Shows(n) == S!Page(q, sort, IF n = 1 THEN steady ELSE heap, n, PageSize)
           Asked == {k \in 1..S!Cardinality(Articles) : k = 1 \/ S!HasMore(q, k - 1, PageSize)}
<1>1. \A n : Shows(n) \subseteq S!Results(q)
  BY DEF S!Page
<1>2. ASSUME NEW p \in S!Results(q) PROVE \E n \in Asked : p \in Shows(n)
  <2>1. PICK n \in 1..Cardinality(Articles) :
           /\ n = 1 \/ S!HasMore(q, n - 1, PageSize)
           /\ \A h \in [Articles -> Int] : p \in S!Page(q, sort, h, n, PageSize)
    BY Paged
  <2>2. n \in Asked
    BY <2>1, StoreSizes
  <2>3. p \in Shows(n)
    BY <2>1
  <2> QED
    BY <2>2, <2>3
<1> HIDE DEF Shows, Asked
<1>3. S!Results(q) = UNION {Shows(n) : n \in Asked}
  BY <1>1, <1>2
<1> QED
  BY <1>3 DEF Shows, Asked

\* A product is found by its colours.
LEMMA SearchFinds ==
  ASSUME CatalogueTyped, FrontInv, NEW sort \in S!Sorts, NEW heap \in [Articles -> Int],
         NEW p \in S!Shown, NEW c \in S!Says(p, "color")
  PROVE  p \in UNION {S!Search(S!NoFilter, c, sort, heap, n, PageSize) : n \in 1..S!Cardinality(Articles)}
<1> DEFINE q == [S!NoFilter EXCEPT !["q"] = c]
           Shows(n) == S!Search(S!NoFilter, c, sort, heap, n, PageSize)
<1>1. p \in S!Results(q)
  BY Unfiltered DEF Searched, S!Among
<1>2. \A n : Shows(n) = S!Page(q, sort, heap, n, PageSize)
  BY DEF S!Search
<1> HIDE DEF q, Shows
<1>3. PICK n \in 1..Cardinality(Articles) : \A h \in [Articles -> Int] : p \in S!Page(q, sort, h, n, PageSize)
  BY <1>1, Paged
<1>4. p \in Shows(n) /\ n \in 1..S!Cardinality(Articles)
  BY <1>2, <1>3, StoreSizes
<1>5. p \in UNION {Shows(k) : k \in 1..S!Cardinality(Articles)}
  BY <1>4
<1> QED
  BY <1>5 DEF Shows

\* The pictures that a seam reserves.
Chosen(i, used) == {S!ImageKey(p) : p \in S!Select(Seams[i], used)}

LEMMA ChosenKeys == \A i, used : Chosen(i, used) \subseteq {S!ImageKey(p) : p \in Articles}
BY DEF Chosen, S!Select, S!Candidates, S!Page, S!Results, S!Named, S!Shown

\* The recursive definition of what is reserved has a solution.
LEMMA ReservedEquation ==
  ASSUME CatalogueTyped
  PROVE  /\ S!Reserved[0] = S!HeroKeys
         /\ \A i \in 1..Len(Seams) : S!Reserved[i] = S!Reserved[i - 1] \cup Chosen(i, S!Reserved[i - 1])
<1> DEFINE Size == Len(Seams)
           V == SUBSET (S!HeroKeys \cup {S!ImageKey(p) : p \in Articles})
           Then(i, used) == used \cup Chosen(i, used)
           step == [x \in (1..Size) \X V |-> Then(x[1], x[2])]
           Front(g) == [i \in 0..Size |-> IF i = 0 THEN S!HeroKeys ELSE Then(i, g[i - 1])]
           k == CHOOSE h : h = Front(h)
<1>1. Size \in Nat /\ S!HeroKeys \in V
  BY DEF CatalogueTyped
<1>2. \A i \in 1..Size, used \in V : Then(i, used) \in V
  BY ChosenKeys
<1>3. S!Reserved = k
  BY DEF S!Reserved, Chosen
<1> HIDE DEF Size, V, Then
<1>4. step \in [(1..Size) \X V -> V]
  BY <1>2
<1>5. PICK g : Recursive(g, Size, V, S!HeroKeys, step)
  <2> HIDE DEF step
  <2> QED
    BY <1>1, <1>4, Recursion
<1>6. \A i \in 1..Size : g[i - 1] \in V /\ g[i] = Then(i, g[i - 1])
  <2> SUFFICES ASSUME NEW i \in 1..Size PROVE g[i - 1] \in V /\ g[i] = Then(i, g[i - 1])
    OBVIOUS
  <2>1. i - 1 \in 0..Size /\ g[i - 1] \in V
    BY <1>1, <1>5 DEF Recursive
  <2> QED
    BY <1>5, <2>1 DEF Recursive
<1>7. g = Front(g)
  BY <1>1, <1>5, <1>6 DEF Recursive
<1>8. k = Front(k)
  <2> HIDE DEF Front
  <2> QED
    BY <1>7
<1> HIDE DEF k
<1>9. k[0] = S!HeroKeys /\ \A i \in 1..Size : k[i] = Then(i, k[i - 1])
  BY <1>1, <1>8
<1> QED
  BY <1>3, <1>9 DEF Size, Then

\* What is reserved stays so for the seams after.
LEMMA ReservedGrows ==
  ASSUME CatalogueTyped
  PROVE  \A j \in 0..Len(Seams) : \A i \in 0..j : S!Reserved[i] \subseteq S!Reserved[j]
<1> DEFINE Size == Len(Seams)
           Good == {j \in Nat : j \in 0..Size => \A i \in 0..j : S!Reserved[i] \subseteq S!Reserved[j]}
<1>1. Size \in Nat
  BY DEF CatalogueTyped
<1>2. 0 \in Good
  OBVIOUS
<1>3. ASSUME NEW j \in Nat, j \in Good PROVE j + 1 \in Good
  <2> SUFFICES ASSUME j + 1 \in 0..Size, NEW i \in 0..(j + 1) PROVE S!Reserved[i] \subseteq S!Reserved[j + 1]
    OBVIOUS
  <2>1. j + 1 \in 1..Size /\ (j + 1) - 1 = j /\ j \in 0..Size
    BY <1>1
  <2>2. S!Reserved[j] \subseteq S!Reserved[j + 1]
    BY <2>1, ReservedEquation
  <2>3. CASE i = j + 1
    BY <2>3
  <2>4. CASE i \in 0..j
    BY <1>3, <2>1, <2>2, <2>4
  <2> QED
    BY <2>3, <2>4
<1> HIDE DEF Good
<1>4. \A j \in Nat : j \in Good
  BY <1>2, <1>3, SuccessorInduction
<1> QED
  BY <1>1, <1>4 DEF Good

\* Home shows no picture twice: not in two seams, since the first reserves it, and
\* not in one, which drops what comes later of one key.
LEMMA HomeFacts ==
  ASSUME CatalogueTyped, FrontInv
  PROVE  /\ \A s, t \in S!Home : S!ImageKey(s[2]) = S!ImageKey(t[2]) => s = t
         /\ \A s \in S!Home : S!ImageKey(s[2]) \notin S!HeroKeys
<1> DEFINE Size == Len(Seams)
           steady == [x \in Articles |-> x]
           Used(i) == S!Reserved[i - 1]
           Shows(i) == S!Select(Seams[i], Used(i))
<1>1. Size \in Nat /\ steady \in [Articles -> Int]
  BY DEF CatalogueTyped
<1>2. ASSUME NEW s \in S!Home
      PROVE  /\ s = <<s[1], s[2]>> /\ s[1] \in 1..Size /\ s[2] \in Articles
             /\ s[2] \in Shows(s[1]) /\ S!ImageKey(s[2]) \notin Used(s[1])
  <2>1. s \in (1..Size) \X Articles /\ s[2] \in S!Select(Seams[s[1]], S!Reserved[s[1] - 1])
    BY DEF S!Home
  <2>2. S!ImageKey(s[2]) \notin S!Reserved[s[1] - 1]
    BY <2>1 DEF S!Select, S!Candidates
  <2> QED
    BY <2>1, <2>2
<1>3. ASSUME NEW s \in S!Home PROVE S!ImageKey(s[2]) \notin S!HeroKeys
  <2>1. s[1] - 1 \in 0..Size /\ 0 \in 0..(s[1] - 1)
    BY <1>1, <1>2
  <2>2. S!HeroKeys \subseteq S!Reserved[s[1] - 1]
    BY <2>1, ReservedGrows, ReservedEquation
  <2> QED
    BY <1>2, <2>2
<1>4. ASSUME NEW s \in S!Home, NEW t \in S!Home, s[1] < t[1] PROVE S!ImageKey(s[2]) # S!ImageKey(t[2])
  <2>1. s[1] \in 1..Size /\ t[1] - 1 \in 0..Size /\ s[1] \in 0..(t[1] - 1)
    BY <1>1, <1>2, <1>4
  <2>2. S!Reserved[s[1]] = Used(s[1]) \cup Chosen(s[1], Used(s[1]))
    BY <2>1, ReservedEquation
  <2>3. S!ImageKey(s[2]) \in Chosen(s[1], Used(s[1]))
    BY <1>2 DEF Chosen
  <2>4. S!Reserved[s[1]] \subseteq Used(t[1])
    BY <2>1, ReservedGrows
  <2> QED
    BY <1>2, <2>2, <2>3, <2>4
<1>5. ASSUME NEW s \in S!Home, NEW t \in S!Home, s[1] = t[1], S!ImageKey(s[2]) = S!ImageKey(t[2])
      PROVE  s[2] = t[2]
  <2> DEFINE i == s[1]
             found == S!Candidates(Seams[i], Used(i))
  <2>1. i \in 1..Size /\ Seams[i].sort \in S!Sorts /\ s[2] \in Articles /\ t[2] \in Articles
    BY <1>2 DEF CatalogueTyped
  <2>2. s[2] \in found /\ t[2] \in found
    BY <1>2, <1>5 DEF S!Select
  <2>3. \A p, o \in found : S!Before(Seams[i].sort, steady, o, p) => S!ImageKey(o) # S!ImageKey(p)
    BY DEF S!Candidates
  <2> HIDE DEF found, i, steady
  <2> SUFFICES ASSUME s[2] # t[2] PROVE FALSE
    OBVIOUS
  <2>4. S!Before(Seams[i].sort, steady, s[2], t[2]) \/ S!Before(Seams[i].sort, steady, t[2], s[2])
    BY <1>1, <2>1, Ordered
  <2> QED
    BY <1>5, <2>2, <2>3, <2>4
<1>6. ASSUME NEW s \in S!Home, NEW t \in S!Home, S!ImageKey(s[2]) = S!ImageKey(t[2]) PROVE s = t
  <2>1. s[1] \in Int /\ t[1] \in Int
    BY <1>2
  <2>2. s[1] = t[1]
    BY <1>4, <1>6, <2>1
  <2>3. s[2] = t[2]
    BY <1>5, <1>6, <2>2
  <2> QED
    BY <1>2, <2>2, <2>3
<1> QED
  BY <1>3, <1>6

\* What is recommended is on the category's page.
LEMMA RecommendationsListed ==
  ASSUME FrontInv, NEW p \in Articles
  PROVE  S!Recommended(p) \subseteq S!CategoryPage(listing[p].category)
<1> DEFINE c == listing[p].category
<1>1. CASE p \in S!Shown
  <2>1. c \notin archived
    BY <1>1 DEF S!Shown
  <2>2. S!CategoryPage(c) = {o \in S!Shown : Fold[listing[o].category] = Fold[c]}
    BY <2>1, Unfiltered DEF S!CategoryPage
  <2> QED
    BY <2>2 DEF S!Recommended, S!Buyable
<1>2. CASE p \notin S!Shown
  BY <1>2 DEF S!Recommended
<1> QED
  BY <1>1, <1>2

LEMMA FrontSound == ASSUME CatalogueTyped, FrontInv PROVE S!StorefrontSound
<1> DEFINE steady == [p \in Articles |-> p]
           heaps == {steady, [p \in Articles |-> -p]}
<1>2. steady \in [Articles -> Int] /\ \A heap \in heaps : heap \in [Articles -> Int]
  BY DEF CatalogueTyped
<1> HIDE DEF heaps, steady
<1>3. ASSUME NEW sort \in S!Sorts, NEW heap \in heaps
      PROVE  S!Page(S!NoFilter, sort, steady, 1, PageSize) \cap S!Page(S!NoFilter, sort, heap, 2, PageSize) = {}
  BY <1>2, PagesApart
<1>4. ASSUME NEW sort \in S!Sorts, NEW heap \in heaps
      PROVE  S!Shown = UNION {S!Page(S!NoFilter, sort, IF n = 1 THEN steady ELSE heap, n, PageSize) :
                          n \in {k \in 1..S!Cardinality(Articles) : k = 1 \/ S!HasMore(S!NoFilter, k - 1, PageSize)}}
  <2>1. heap \in [Articles -> Int]
    BY <1>2
  <2> QED
    BY <1>2, <2>1, PagesCover, Unfiltered
<1>5. ASSUME NEW sort \in S!Sorts, NEW heap \in heaps, NEW p \in S!Shown, NEW c \in S!Says(p, "color")
      PROVE  p \in UNION {S!Search(S!NoFilter, c, sort, heap, n, PageSize) : n \in 1..S!Cardinality(Articles)}
  <2>1. heap \in [Articles -> Int]
    BY <1>2
  <2> QED
    BY <2>1, SearchFinds
<1>6. \A i, j \in DOMAIN S!RecentlyViewed : S!RecentlyViewed[i] = S!RecentlyViewed[j] => i = j
  <2>1. Distinct(S!Kept(recent, S!Shown)) /\ Distinct(<<>>)
    BY KeptFacts DEF FrontInv, Distinct
  <2> QED
    BY <2>1 DEF S!RecentlyViewed, Distinct
<1> DEFINE Counted ==
             \A q \in S!Queries, f \in S!Facets : \A v \in UNION S!Wanted(f) :
               S!CountFacet(q, f, v) =
                 S!SumFunction([p \in S!Results([q EXCEPT ![f] = {v}]) |-> S!Times(p, f, v)])
           Turned(sort, heap) ==
             /\ S!Page(S!NoFilter, sort, steady, 1, PageSize) \cap S!Page(S!NoFilter, sort, heap, 2, PageSize) = {}
             /\ S!Shown = UNION {S!Page(S!NoFilter, sort, IF n = 1 THEN steady ELSE heap, n, PageSize) :
                                  n \in {k \in 1..S!Cardinality(Articles) : k = 1 \/ S!HasMore(S!NoFilter, k - 1, PageSize)}}
             /\ \A p \in S!Shown : \A c \in S!Says(p, "color") :
                  p \in UNION {S!Search(S!NoFilter, c, sort, heap, n, PageSize) : n \in 1..S!Cardinality(Articles)}
<1>7. Counted
  BY CountsMatch
<1>8. \A sort \in S!Sorts, heap \in heaps : Turned(sort, heap)
  <2> SUFFICES ASSUME NEW sort \in S!Sorts, NEW heap \in heaps PROVE Turned(sort, heap)
    OBVIOUS
  <2> QED
    BY <1>3, <1>4, <1>5
<1>9. S!StorefrontSound <=>
        /\ Counted /\ \A sort \in S!Sorts, heap \in heaps : Turned(sort, heap)
        /\ \A s, t \in S!Home : S!ImageKey(s[2]) = S!ImageKey(t[2]) => s = t
        /\ \A s \in S!Home : S!ImageKey(s[2]) \notin S!HeroKeys
        /\ \A p \in Articles : S!Recommended(p) \subseteq S!CategoryPage(listing[p].category)
        /\ \A i, j \in DOMAIN S!RecentlyViewed : S!RecentlyViewed[i] = S!RecentlyViewed[j] => i = j
  BY DEF S!StorefrontSound, heaps, steady
<1> HIDE DEF Counted, Turned
<1> QED
  BY <1>6, <1>7, <1>8, <1>9, HomeFacts, RecommendationsListed

\* In whatever state edits leave the catalogue: a facet's count adds up, over the
\* products that choosing the value shows, how often each says it in that
\* spelling; pages in any order of rows share and lose nothing; home shows no
\* picture twice of those reserved under one key; recommendations are listed in
\* their category; and the products viewed last are told once.
\* (product_service.py:1333 _build_facets, :1163 list_storefront_products,
\* explore_service.py get_home, recommendation_service.py contextual,
\* lru_cache_store.py lpush)
THEOREM ListingsAddUp == OfficeSpec => []StorefrontSound
<1> DEFINE Inv == part = "storefront" => FrontInv
<1>1. OfficeInit => Inv
  BY FrontInit, OfficeAssumption DEF OfficeInit
<1>2. Inv /\ [OfficeNext]_officeVars => Inv'
  BY FrontStep, OfficeAssumption, PartsMoveAlone
<1>3. Inv => StorefrontSound
  BY FrontSound, OfficeAssumption DEF StorefrontSound
<1> QED
  BY <1>1, <1>2, <1>3, PTL DEF OfficeSpec
=============================================================================
