SPECIFICATION Spec
CONSTANTS
  r1 = r1
  r2 = r2
  dev = dev
  stage = stage
  prod = prod
  Rules = {r1, r2}
  NoRule = none
  Requests = {q1, q2}
  Zones = {dev, stage, prod}
  Outcomes = {"active"}
  Unset = none
  Start <- MCStart
  Edits <- MCEdits
  MaxSize = 2
INVARIANTS
  TypeOK
  OnlyOthersHideAnEdit
  PoolIsConserved
PROPERTIES
  WritesAreNamed
  EveryRequestEnds
