SPECIFICATION HSpec
CONSTANTS
  r1 = r1
  r2 = r2
  w1 = w1
  w2 = w2
  repo1 = repo1
  pr1 = pr1
  pr2 = pr2
  NoWorker = NoWorker
  NoRun = NoRun
  Run = {r1}
  Worker = {w1}
  Repo = {repo1}
  Pr = {pr1}
  RepoOf <- OneRepo
  PrOf <- OnePr
  SeatOf <- ReviewAndFix
  Capacity <- OneEach
  MaxAttempts = 2
  MaxRetries = 2
  MaxRearms = 2
  Events = {"redeliver"}
PROPERTY QuarantinedNeverRearmed
CHECK_DEADLOCK FALSE
