SPECIFICATION Spec
CONSTANTS
  r1 = r1
  r2 = r2
  w1 = w1
  w2 = w2
  repo1 = repo1
  pr1 = pr1
  pr2 = pr2
  NoWorker = NoWorker
  NoRun = NoRun
  Run = {r1, r2}
  Worker = {w1, w2}
  Repo = {repo1}
  Pr = {pr1}
  RepoOf <- OneRepo
  PrOf <- OnePr
  SeatOf <- ReviewAndFix
  Capacity <- OneEach
  MaxAttempts = 1
  MaxRetries = 2
  MaxRearms = 1
  Events = {"redeliver", "policy", "crash"}
SYMMETRY Symmetry
INVARIANT TypeOK
INVARIANT OnePerPR
INVARIANT LoneTurn
INVARIANT WriterHoldsPR
INVARIANT WrittenOnce
INVARIANT RowsMatchGitHub
INVARIANT WriteAhead
INVARIANT DisableWaits
PROPERTY KeepsPromise
