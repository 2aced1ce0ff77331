SPECIFICATION MCSpec
CONSTANTS
  Ticket = {t1}
  Sandbox = {s1, s2}
  Camoufoxes = {s2}
  Xpras = {s1}
  Sid = {k1, k2}
  None = None
  TTL = {1, 2}
  MaxClock = 8
  MaxStall = 1
  MaxRestarts = 2
  Call = {c1, c2}
  MaxMsgs = 2
  Window = 1
  Transfer = {u1, u2}
  Text = {x, y}
  NoText = NoText
INVARIANTS
  TypesOK
  OneTimeOnce
  OneSessionPerTicket
  AccessWithinGrant
  PersonUndisturbed
  DoubtBlocks
  ClosedLetsGo
  NothingLeftRunning
  LastMessagesPassed
  FailureTold
  TextKept
  PastesItsText
PROPERTIES
  UsedTicketsDrain
  KeepsPageControl
  CallsAnswered
  RelaysInOrder
  GoneReleases
