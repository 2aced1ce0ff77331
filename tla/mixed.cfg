SPECIFICATION Spec
CONSTANTS
  Sandbox = {s1, s2}
  Cloaks = {}
  Camoufoxes = {s1}
  Xpras = {s2}
  Alias = {a1}
  Call = {w1}
  Reader = {r1}
  CtrId = {c1, c2}
  None = None
  Faults = {"crash"}
  Engine <- MCEngine
  Kind <- MCKind
INVARIANTS
  RegistryMatchesDisk
  AliasUnique
  NoOrphanContainers
