SPECIFICATION PartSpec
CONSTANTS
  m1 = m1
  m2 = m2
  Heads = 2
  Gate = {m1, m2}
  Drainer = {drainer}
  MaxId = 2
  Faults = {"ledger", "policy", "gate", "route", "read"}
  Turn = {m1, m2}
  Actor = {m1, m2}
  Operator = {m1, m2}
  NoRun = NoRun
  Run = {m1, m2}
  SeatOf <- BothReview
  HeadOf <- AtFirst
  MaxHead = 1
  Budget = {0, 1}
  TtlMin = 1
  Tail = 1
  MarkTtl = 1
  MayFail = TRUE
SYMMETRY Symmetry
INVARIANT LiveKeepsClaim
PROPERTY LostOnlyToOvertaken
PROPERTY StateMoves
CHECK_DEADLOCK FALSE
