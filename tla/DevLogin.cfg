\* One replica in development: the mock user is not found by its e-mail address.
SPECIFICATION Spec
CONSTANTS
  Replicas = {a}
  Jobs = {j1}
  Sessions = {s1}
  Newcomers = {}
  DevLogin = TRUE
  MaxCrashes = 0
INVARIANT
  DevLoginSucceeds
