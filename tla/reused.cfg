SPECIFICATION Spec
CONSTANTS
  Ticket = {t1}
  Sandbox = {s1}
  Camoufoxes = {}
  Xpras = {s1}
  Sid = {k1, k2}
  None = None
  TTL = {1, 2}
  MaxClock = 8
  MaxStall = 1
  MaxRestarts = 1
INVARIANT NeverReused
