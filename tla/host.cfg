SPECIFICATION PartSpec
CONSTANTS
  MaxHead = 2
  Sender = {"gate", "operator"}
  MaxToken = 3
  MayFail = TRUE
  PR = {"p"}
  Watchdog = "watchdog"
  Overlapping = {"watchdog", "operator"}
  Cooldown = 1
  Failures = 2
  Gate = {"gate"}
  Redrives = 2
  Deliveries = 2
  FewRedrives = 1
  FewDeliveries = 1
  OneSweep = "sweep"
  Named = {"route"}
  Other = {"other"}
  Native = {"dashboard"}
  Ops = 2
  Writes = 2
  ReviewerHook = {"h1"}
  FixerHook = {"h2", "h3"}
  RenameFaults = 3
  FewProfs = {"p1"}
  Profs = {"p1", "p2"}
  MostHooks = 5
  InstallCommands = 4
  MoveCommands = 3
  InstallFaults = 2
  Turn = {"review", "fix"}
  LateTurn = {"review"}
  Deaths = 1
PROPERTY RulingsMarked
PROPERTY AlertsOnce
PROPERTY RoutesKept
PROPERTY InstallAsSaid
PROPERTY RestoreIsWhole
CHECK_DEADLOCK FALSE
