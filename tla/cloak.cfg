SPECIFICATION Spec
CONSTANTS
  Sandbox = {s1}
  Cloaks = {s1}
  Camoufoxes = {}
  Xpras = {}
  Alias = {a1}
  Call = {w1, w2}
  Reader = {r1}
  CtrId = {c1, c2}
  None = None
  Faults = {"exit", "extrm", "daemon", "rm", "run", "image", "stop", "start", "probe", "rmtree", "crash"}
  Engine <- MCEngine
  Kind <- MCKind
SYMMETRY Interchangeable
INVARIANTS
  TypeOK
  StatusMatchesContainer
  LiveIsRecorded
  RegistryMatchesDisk
PROPERTIES
  KeepsCustody
  PausedUntilResumed
