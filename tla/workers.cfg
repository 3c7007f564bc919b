SPECIFICATION PartSpec
CONSTANTS
  w1 = w1
  w2 = w2
  w3 = w3
  NoOne = NoOne
  Calls = {w1, w2, w3}
  Quota = 2
  MaxConnections = 2
  Resets = {1, 2}
  MaxToken = 3
  Runs = {"run", "other"}
  Loops = {"loop", "renamed"}
  FirstLoop = "loop"
  Cap = 2
  MaxRetries = 2
  DayLength = 2
  Horizon = 2
  Windows = 2
  Deaths = 1
  Fact = {"f1", "f2", "f3"}
  Urgent = {"f3"}
  Digest = TRUE
  Dest = {"d1"}
  Changes = 1
  Attempts = 2
  FewFacts = {"f1", "f2"}
  FewUrgent = {"f2"}
  Dests = {"d1", "d2"}
  MoreChanges = 2
SYMMETRY Symmetry
INVARIANT PacingKept
INVARIANT FeedIsTrue
PROPERTY CallsKept
CHECK_DEADLOCK FALSE
