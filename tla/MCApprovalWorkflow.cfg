CONSTANTS
  adm = adm
  sec = sec
  wl = wl
  rev = rev
  web = web
  r1 = r1
  r2 = r2
  Rules = {r1}
  Users <- MCUsers
  RoleOf <- MCRoleOf
  IsActiveUser <- MCIsActiveUser
  UserWorkload <- MCUserWorkload
  Workloads = {web}
  NoWorkload = NoWorkload
  Unassigned = Unassigned
  AutoApproveAfterDays = 1
  MaxDay = 2
  MaxRounds = 2
SPECIFICATION Spec
INVARIANTS
  TypeOK
  ActiveIsSettled
  ActivatedByBothRoles
  PendingHasWork
  AuditChains
  RowsAreAudited
  AutoApprovalWaits
PROPERTIES
  ActiveNeverReopens
  DecisionsAreFinal
  UsersCannotOverrule
  ArchiveEndsByDecision
