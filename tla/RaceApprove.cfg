CONSTANTS
  adm = adm
  r1 = r1
  s1 = s1
  s2 = s2
  Rules = {r1}
  Users <- MCUsers
  RoleOf <- MCRoleOf
  IsActiveUser <- MCIsActiveUser
  UserWorkload <- MCUserWorkload
  Workloads = {}
  NoWorkload = NoWorkload
  Unassigned = Unassigned
  AutoApproveAfterDays = 1
  MaxDay = 1
  MaxRounds = 1
  Sessions = {s1, s2}
  Overlap = TRUE
SPECIFICATION RSpec
INVARIANT LastApprovalActivates
