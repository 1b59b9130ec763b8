SPECIFICATION Spec
CONSTANTS
  a1 = a1
  a2 = a2
  a3 = a3
  r1 = r1
  r2 = r2
  Accounts = {a1, a2, a3}
  NoAccount = NoAccount
  Perms = {"people", "users.manage", "security", "settings", "selling"}
  CapabilityOf <- Capability1
  Implies <- Implies1
  AdminOnly = {"security", "settings"}
  BusinessRoles = {"STYLIST"}
  RoleGrants <- Grants1
  ManagePeople = "people"
  ManageSecurity = "security"
  Requests <- Forms
  RoleForms <- Stylist
  StatusForms = {"ACTIVE", "INACTIVE"}
  MaxChanges = 4
  Reqs = {r1, r2}
CHECK_DEADLOCK FALSE
INVARIANTS EmployeeDomainKept NothingFromNothing
PROPERTIES OwnerUntouched
SYMMETRY Symmetry
