SPECIFICATION Spec
CONSTANTS
  Sandbox = {s1}
  Cloaks = {s1}
  Camoufoxes = {}
  Xpras = {}
  Alias = {a1}
  Call = {w1}
  Reader = {r1}
  CtrId = {c1, c2}
  None = None
  Faults = {"list", "crash"}
  Engine <- MCEngine
  Kind <- MCKind
PROPERTIES
  ProfileKeptUnderBrowser
