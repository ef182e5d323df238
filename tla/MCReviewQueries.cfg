CONSTANTS
  adm = adm
  sec = sec
  r1 = r1
  r2 = r2
  Rules = {r1}
  Users <- MCUsers
  RoleOf <- MCRoleOf
  IsActiveUser <- MCIsActiveUser
  UserWorkload <- MCUserWorkload
  Workloads = {}
  NoWorkload = NoWorkload
  Unassigned = Unassigned
  AutoApproveAfterDays = 0
  MaxDay = 0
  MaxRounds = 2
  PerPage = 1
SPECIFICATION SpecQueries
INVARIANTS
  TypeOKQueries
  OpenRecordsReachSomeone
  ItemsAgree
  WalkMissesOnlyMoved
