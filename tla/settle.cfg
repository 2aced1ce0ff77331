SPECIFICATION LiveSpec
CONSTANTS
  Sandbox = {s1}
  Cloaks = {s1}
  Camoufoxes = {}
  Xpras = {s1}
  Alias = {a1}
  Call = {w1, w2}
  Reader = {r1}
  CtrId = {c1, c2}
  None = None
  Faults = {"exit", "extrm", "image", "stop", "start", "rmtree", "crash"}
  Engine <- MCEngine
  Kind <- MCKind
PROPERTIES
  StartingSettles
INVARIANTS
  ResumeFindsNameFree
  StartingWatched
