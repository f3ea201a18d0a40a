\* A window of three seconds of two ticks, in which two requests are admitted.
CONSTANTS
  Tenants = {"alpha", "local-demo"}
  Clients = {"c1"}
  Identities = {"alpha", "local-demo", "c1"}
  Keys = {"right", "wrong"}
  TenantOf <- OneTenant
  NoTenant = NoTenant
  LocalDemo = "local-demo"
  Limit = 2
  Second = 2
  WindowSeconds = 3
  MaxTime = 9
SPECIFICATION GateSpec
INVARIANTS
  GateInv
  SlidingWindow
  GuessesLimited
PROPERTIES
  TenantSpendsItsOwnBudget
  RetryAfterSuffices
