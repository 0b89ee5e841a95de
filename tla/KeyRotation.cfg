SPECIFICATION RSpec
CONSTANTS
  p1 = p1  p2 = p2  k1 = k1  k2 = k2
  Procs = {p1, p2}
  Keys = {k1, k2}
  KeyId <- MCKeyId
  Nonces = {"n1"}
  Contracts <- MCContracts
  Version = "v1"
  Foreign = {}
  Expiries = {1, 2, 3, 4}
  Clocks = {0}
  MaxTTL = 1
  MaxTime = 4
  ReplayEnabled = FALSE
  StorePolicy = "keep"
  Malformed = Malformed  NoToken = NoToken  NoKey = NoKey  NoNonce = NoNonce  NoContract = NoContract
SYMMETRY Sym
INVARIANTS RetainedWhileValid OldCursorsExpire 
