SPECIFICATION Spec
CONSTANTS
  r1 = r1
  r2 = r2
  w1 = w1
  w2 = w2
  repo1 = repo1
  pr1 = pr1
  pr2 = pr2
  NoWorker = NoWorker
  NoRun = NoRun
  Run = {r1, r2}
  Worker = {w1, w2}
  Repo = {repo1}
  Pr = {pr1, pr2}
  RepoOf <- OneRepo
  PrOf <- TwoPrs
  SeatOf <- Fixes
  Capacity <- OneEach
  MaxAttempts = 2
  MaxRetries = 2
  MaxRearms = 2
  Events = {"wait", "paced", "redeliver", "retry"}
SYMMETRY Symmetry
INVARIANT WithinCapacity
INVARIANT Bounded
PROPERTY ReconciledFinal
CHECK_DEADLOCK FALSE
