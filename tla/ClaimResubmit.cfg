CONSTANTS
  adm = adm
  sec = sec
  wl = wl
  web = web
  r1 = r1
  Rules = {r1}
  Users <- MCUsers
  RoleOf <- MCRoleOf
  IsActiveUser <- MCIsActiveUser
  UserWorkload <- MCUserWorkload
  Workloads = {web}
  NoWorkload = NoWorkload
  Unassigned = Unassigned
  AutoApproveAfterDays = 1
  MaxDay = 1
  MaxRounds = 2
SPECIFICATION Spec
INVARIANT AcceptedRoundActivates
