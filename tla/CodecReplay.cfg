SPECIFICATION Spec
CONSTANTS
  p1 = p1  p2 = p2
  k1 = k1  k2 = k2  kx = kx  ks = ks
  n1 = n1  n2 = n2  nx = nx  ny = ny
  Procs = {p1, p2}
  Keys = {k1}
  KeyId <- MCKeyId
  Nonces = {n1}
  Contracts <- NameOrNext
  Version = "v1"
  Foreign <- NoForeign
  Expiries = {2}
  Clocks = {0, 1}
  MaxTTL = 2
  MaxTime = 2
  ReplayEnabled = TRUE
  StorePolicy = "recheck_and_expire"
  Malformed = Malformed  NoToken = NoToken  NoKey = NoKey  NoNonce = NoNonce  NoContract = NoContract
SYMMETRY SymProcs
INVARIANTS ReplayErrorTruthful
PROPERTIES OneTimeConsumption ImplementsPromise
