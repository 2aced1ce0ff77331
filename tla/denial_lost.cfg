SPECIFICATION ControlSpec
CONSTANTS
  Ctl = {c1, c2}
  MaxSpawn = 2
  NoAnswer = NoAnswer
INVARIANT DenialTold
