SPECIFICATION PartSpec
CONSTANTS
  NoOne = NoOne
  Pushers = {"turn", "update", "issue"}
  Kind <- KindOf
  Commits = {1, 2, 3}
  Deaths = 1
  Failures = 1
  Kinds = {"answers", "dispute", "ruling", "triage", "fix", "comment", "filed"}
  Turns = 3
  Finding = {f1, f2}
  Rounds = 3
  LostRecords = 1
  Proc = {e1}
  Tree <- Trees
  Loose <- AnyEntry
  Moves = 2
  Procs = {e1, e2}
  FewTrees <- TwoTrees
  Forged <- AForgery
  FewMoves = 1
  Role = {"seat", "issue_fixer"}
  Target = {"codeload", "elsewhere"}
  Faults = 1
  MaxFiles = 2
  Path = {child, artifacts}
  Contents <- NearOwn
  Artifacts = artifacts
  Forced = FALSE
  Swaps = 1
  Checkouts = 1
INVARIANT OnlyOwnRemoved
PROPERTY PushSafe
PROPERTY WritesAreTrue
PROPERTY VerdictsSettle
PROPERTY SourceIsWhole
CHECK_DEADLOCK FALSE
