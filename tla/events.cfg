SPECIFICATION PartSpec
CONSTANTS
  Issue = {i1, i2}
  Root = root
  Proc = {"worker", "sweep"}
  OneProc = "worker"
  MaxDepth = 1
  Daily = 3
  OneDay = 1
  Days = 0
  MoreDays = 2
  Actor = {"sweep", "hook"}
  Sweep = "sweep"
  Eras = 2
  MoreEras = 2
  Heads = 2
  Reviews = 2
  Failures = 1
  Deaths = 0
  Escalates = FALSE
  Gate = {g1, g2}
  MaxHead = 3
  Cap = 2
  ReviewOnly = FALSE
  PushOn = TRUE
  Persons = {"push", "close"}
INVARIANT FixesBounded
INVARIANT RetargetAttested
PROPERTY ChainBounded
CHECK_DEADLOCK FALSE
