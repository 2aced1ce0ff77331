SPECIFICATION Spec
CONSTANTS
  Sandbox = {s1}
  Cloaks = {}
  Camoufoxes = {}
  Xpras = {}
  Alias = {a1}
  Call = {w1}
  Reader = {r1}
  CtrId = {c1, c2}
  None = None
  Faults = {}
  Engine <- MCEngine
  Kind <- MCKind
PROPERTIES
  PausedStaysResumable
