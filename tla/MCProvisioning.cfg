SPECIFICATION Spec
CONSTANTS
  Replicas = {a, b}
  Jobs = {j1, j2}
  Sessions = {s1, s2}
  Newcomers = {n}
  DevLogin = FALSE
  MaxCrashes = 2
INVARIANTS
  TypeOK
  OneAccountPerSubject
  ServingIsProvisioned
  SeedingIsExclusive
  NextTryGetsIn
  TokensResolve
PROPERTY
  EventuallyServing
