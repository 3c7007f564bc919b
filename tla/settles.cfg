SPECIFICATION PartSpec
CONSTANTS
  r1 = r1
  r2 = r2
  w1 = w1
  w2 = w2
  s1 = s1
  repo1 = repo1
  pr1 = pr1
  pr2 = pr2
  NoWorker = NoWorker
  NoRun = NoRun
  Run = {r1, r2}
  Worker = {w1, w2}
  Repo = {repo1}
  Pr = {pr1}
  RepoOf <- OneRepo
  PrOf <- OnePr
  SeatOf <- ReviewAndFix
  Capacity <- OneEach
  MaxAttempts = 1
  MaxRetries = 1
  MaxRearms = 1
  Events = {"crash"}
CHECK_DEADLOCK FALSE
PROPERTY Settles
PROPERTY RulingsArrive
