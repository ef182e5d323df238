CONSTANTS
  Filters = {all, search, status}
  AllRules = all
  ByName = {status}
  PerPage = 2
  MaxRequests = 3
  MaxPosts = 2
  MaxRows = 3
  MaxLeft = 1
SPECIFICATION Spec
INVARIANTS
  TypeOK
  TableMatchesControls
  RowsAreReachable
  EmptyMeansNone
  CreatedRuleLeavesForm
PROPERTIES
  LoadingEnds
