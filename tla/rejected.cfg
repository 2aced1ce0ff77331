SPECIFICATION ProxySpec
CONSTANTS
  Request = {r1, r2}
  Key = {k1, k2}
  NoKey = NoKey
  Pages = {"xpra"}
  MaxCrashes = 0
INVARIANTS
  RejectedTwice
