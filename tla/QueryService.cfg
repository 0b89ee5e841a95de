SPECIFICATION QSpec
CONSTANTS
  p1 = p1  p2 = p2  k1 = k1  k2 = k2
  Procs = {p1, p2}
  Keys = {k1, k2}
  KeyId <- MCKeyId
  Nonces = {"n1", "n2"}
  Contracts <- MCContracts
  Version = "v1"
  Foreign <- MCForeign
  Expiries = {1, 2}
  Clocks = {0}
  MaxTTL = 2
  MaxTime = 1
  ReplayEnabled = TRUE
  StorePolicy = "recheck_and_expire"
  Requests <- MCRequests
  Malformed = Malformed  NoToken = NoToken  NoKey = NoKey  NoNonce = NoNonce  NoContract = NoContract
INVARIANTS OnePlanPerCursor PlanSeeksAsAsked 
PROPERTIES CancelledCompileReturns
