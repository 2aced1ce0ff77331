SPECIFICATION MCSpec
CONSTANTS
  Build = {b1, b2}
  Installer = {i1, i2}
  Seed = {r1, r2}
  None = None
  Faults = {"build", "record", "seed", "profile"}
  Ctl = {c1, c2}
  MaxSpawn = 3
  NoAnswer = NoAnswer
  Caller = {a1, a2}
  NoCaller = NoCaller
  MaxWorker = 3
  Request = {q1, q2}
  Key = {k1, k2, k3}
  NoKey = NoKey
  Pages = {"xpra", "xvfb_vnc"}
  MaxCrashes = 1
SYMMETRY Interchangeable
INVARIANTS
  TypesOK
  IdentityKept
  PreparedStaysUsable
  CurrentIsReleased
  FailureLeavesCurrent
  StopConfirmed
  DiagnosisCurrent
  DenialToldAlone
  ExpiredTwice
PROPERTIES
  ProfileClosedFirst
