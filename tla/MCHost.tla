------------------------------- MODULE MCHost -------------------------------
(***************************************************************************)
(* Small instances of what the host does beside the turns: the delivery   *)
(* of a breach (Breach, whose own behaviours are the part "breach"), the   *)
(* sweep of the watchdog, the ledger of failed gates, the routes that the  *)
(* gateway serves, the rename and the installation of a loop, and a backup *)
(* put back. Each behaviour is about one of them.                          *)
(***************************************************************************)
EXTENDS Breach

CONSTANTS
  PR, Watchdog, Overlapping, Cooldown, Failures,                                   \* of Sweep
  Gate, Redrives, Deliveries, FewRedrives, FewDeliveries, OneSweep,                \* of GateFailures
  Named, Other, Native, Ops, Writes,                                               \* of RouteRegistry
  ReviewerHook, FixerHook, RenameFaults,                                           \* of LoopRename
  FewProfs, Profs, MostHooks, InstallCommands, MoveCommands, InstallFaults,        \* of LoopInstall
  Turn, LateTurn, Deaths                                                           \* of Backup

VARIABLE part   \* the component that this behaviour is about

\* Where stalls clear and come back there is one watchdog; where sweeps overlap they persist.
VARIABLES calm, stalled, watch, lock, sw, quiet, health, kicked
sweepVars == <<calm, stalled, watch, lock, sw, quiet, health, kicked>>
Sweeps == INSTANCE Sweep WITH Sweeper <- {Watchdog}, MayClear <- TRUE,
                              Faults <- {"github", "slow", "raise", "kill"}
TwoSweeps == INSTANCE Sweep WITH Sweeper <- Overlapping, MayClear <- FALSE, Faults <- {"slow"}

\* Sweeps that die, ledgers that become unreadable, and the loop's ledger busy.
VARIABLES left, file, torn, copy, gt, failedSw, read, owed, drives, said
failedVars == <<left, file, torn, copy, gt, failedSw, read, owed, drives, said>>
FailedGates == INSTANCE GateFailures WITH MaxRedrives <- Redrives, Sweeper <- Overlapping,
                                          Faults <- {"kill"}, sw <- failedSw
TornLedger == INSTANCE GateFailures WITH MaxRedrives <- FewRedrives, Deliveries <- FewDeliveries,
                                         Sweeper <- {OneSweep}, Faults <- {"kill", "torn", "clean"},
                                         sw <- failedSw
SaidFailures == INSTANCE GateFailures WITH MaxRedrives <- FewRedrives, Deliveries <- FewDeliveries,
                                           Sweeper <- Overlapping, Faults <- {"busy", "clean"},
                                           sw <- failedSw

VARIABLES reg, ver, intent, on, minted, op, sweep, native, ops, writes, dropped
regVars == <<reg, ver, intent, on, minted, op, sweep, native, ops, writes, dropped>>
Registry == INSTANCE RouteRegistry WITH Route <- Named, Overlap <- TRUE
LoneRegistry == INSTANCE RouteRegistry WITH Route <- Named, Overlap <- FALSE

\* A loop has a route for its reviewer and one for its fixer, with their hooks.
VARIABLES routes, renameIntent, url, loopfiles, dir, paused, at, todo, moving, back,
          unproven, answered, faults
renameVars == <<routes, renameIntent, url, loopfiles, dir, paused, at, todo, moving,
                back, unproven, answered, faults>>
Hook == ReviewerHook \cup FixerHook
On == [h \in Hook |-> IF h \in ReviewerHook THEN "reviewer" ELSE "fixer"]
Renamed == INSTANCE LoopRename WITH Route <- {"reviewer", "fixer"}, Faults <- RenameFaults,
                                    intent <- renameIntent

VARIABLES settings, cfg, route, installIntent, hook, next, installMinted, cmd,
          commands, installFaults
installVars == <<settings, cfg, route, installIntent, hook, next, installMinted,
                 cmd, commands, installFaults>>
Install == INSTANCE LoopInstall WITH Seat <- {"reviewer", "fixer"}, Prof <- FewProfs, MaxHook <- MostHooks,
                                     Kinds <- {"init", "arm", "pause", "recreate", "uninstall"},
                                     Commands <- InstallCommands, Faults <- InstallFaults,
                                     intent <- installIntent, minted <- installMinted, faults <- installFaults
Moved == INSTANCE LoopInstall WITH Seat <- {"reviewer", "fixer"}, Prof <- Profs, MaxHook <- MostHooks,
                                   Kinds <- {"init", "apply", "recreate", "ensure"},
                                   Commands <- MoveCommands, Faults <- InstallFaults,
                                   intent <- installIntent, minted <- installMinted, faults <- installFaults

VARIABLES queue, rows, backupRoute, job, archive, taking, backupMarker, run, half, actor,
          working, deaths
backupVars == <<queue, rows, backupRoute, job, archive, taking, backupMarker, run, half,
                actor, working, deaths>>
Restore == INSTANCE Backup WITH Late <- FALSE, Plain <- FALSE, Advised <- FALSE, Others <- FALSE,
                                route <- backupRoute, marker <- backupMarker
LateRestore == INSTANCE Backup WITH Turn <- LateTurn, Late <- TRUE, Plain <- TRUE, Advised <- TRUE,
                                    Others <- FALSE, route <- backupRoute, marker <- backupMarker

Part ==
  {"breach", "sweep", "two_sweeps", "failed_gates", "torn_ledger", "said_failures", "registry",
   "lone_registry", "rename", "install", "profile_change", "backup", "late_backup"}

ASSUME HostAssumption ==
  /\ Sweeps!SweepAssumption /\ TwoSweeps!SweepAssumption
  /\ FailedGates!GateFailuresAssumption /\ TornLedger!GateFailuresAssumption
  /\ SaidFailures!GateFailuresAssumption /\ Registry!RouteRegistryAssumption
  /\ LoneRegistry!RouteRegistryAssumption /\ Renamed!LoopRenameAssumption
  /\ Install!LoopInstallAssumption /\ Moved!LoopInstallAssumption
  /\ Restore!BackupAssumption /\ LateRestore!BackupAssumption

\* The component of the part starts in its own initial states; the others rest in one.
PartInit ==
  /\ part \in Part
  /\ Init
  /\ IF part = "two_sweeps" THEN TwoSweeps!Init
     ELSE Sweeps!Init
  /\ CASE part = "torn_ledger" -> TornLedger!Init
       [] part = "said_failures" -> SaidFailures!Init
       [] OTHER -> FailedGates!Init
  /\ IF part = "lone_registry" THEN LoneRegistry!Init
     ELSE Registry!Init /\ (part = "registry" \/ \A r \in Named : on[r])
  /\ Renamed!Init
  /\ IF part = "profile_change" THEN Moved!Init
     ELSE Install!Init /\ (part = "install" \/ (settings = [s \in {"reviewer", "fixer"} |-> CHOOSE p \in FewProfs : TRUE]))
  /\ IF part = "late_backup" THEN LateRestore!Init
     ELSE Restore!Init

PartNext ==
  \/ /\ part = "breach" /\ Next
     /\ UNCHANGED <<part, sweepVars, failedVars, regVars, renameVars, installVars,
                      backupVars>>
  \/ /\ \/ part = "sweep" /\ Sweeps!Next
        \/ part = "two_sweeps" /\ TwoSweeps!Next
     /\ UNCHANGED <<part, vars, failedVars, regVars, renameVars, installVars, backupVars>>
  \/ /\ \/ part = "failed_gates" /\ FailedGates!Next
        \/ part = "torn_ledger" /\ TornLedger!Next
        \/ part = "said_failures" /\ SaidFailures!Next
     /\ UNCHANGED <<part, vars, sweepVars, regVars, renameVars, installVars, backupVars>>
  \/ /\ \/ part = "registry" /\ Registry!Next
        \/ part = "lone_registry" /\ LoneRegistry!Next
     /\ UNCHANGED <<part, vars, sweepVars, failedVars, renameVars, installVars, backupVars>>
  \/ /\ part = "rename" /\ Renamed!Next
     /\ UNCHANGED <<part, vars, sweepVars, failedVars, regVars, installVars, backupVars>>
  \/ /\ \/ part = "install" /\ Install!Next
        \/ part = "profile_change" /\ Moved!Next
     /\ UNCHANGED <<part, vars, sweepVars, failedVars, regVars, renameVars, backupVars>>
  \/ /\ \/ part = "backup" /\ Restore!Next
        \/ part = "late_backup" /\ LateRestore!Next
     /\ UNCHANGED <<part, vars, sweepVars, failedVars, regVars, renameVars, installVars>>

partVars == <<part, vars, sweepVars, failedVars, regVars, renameVars, installVars, backupVars>>

PartSpec == PartInit /\ [][PartNext]_partVars

\* A standing alert is not repeated within its cooldown, however sweeps overlap, die or fail to
\* write; one gate failure is not told by two sweeps; and no overlap and no death makes more
\* re-drives of it than MAX_REDRIVES, or takes the record of one that nobody was told of.
AlertsOnce ==
  /\ [][(part = "sweep" => Sweeps!Unrepeated) /\ (part = "two_sweeps" => TwoSweeps!Unrepeated)]_sweepVars
  /\ [](part = "failed_gates" => FailedGates!RedrivesBounded)
  /\ [](part = "torn_ledger" => TornLedger!OwedIsHeld)
  /\ [][part = "said_failures" => SaidFailures!Unrepeated]_failedVars

\* What others write to the registry survives the plugin's own writes, and a removed route is not
\* put back by a heal that no command overlaps (one that does may: route_intent.py:273); while a
\* loop is renamed each hook's deliveries find a route, an old route goes only when its hooks have
\* been answered on the new one.
RoutesKept ==
  /\ Registry!OthersKept /\ Registry!ForeignKept /\ [][part = "lone_registry" => LoneRegistry!StaysRemoved]_regVars
  /\ []Renamed!HooksServed /\ Renamed!ProvenFirst

\* A command of the installation that runs alone (one that a heal overlaps may not: see
\* route_intent.py:273) and says it succeeded has armed, paused, moved or removed every hook it is
\* about; one that says it put everything back has done so.
InstallAsSaid ==
  /\ Install!Armed /\ Install!Fresh /\ Install!Gone /\ Install!Paused
  /\ Moved!Restored /\ Moved!StaysArmed /\ Moved!Agrees

\* A restore with --force that no gate or worker overlaps and only a restore finishes: one that says
\* it is done has put the archive's state back, no run was in flight when it replaced the ledger,
\* nobody acts on a half of it.  Overlapped (cli.py:4262), plain or finished as `describe` advises,
\* it still overwrites nobody else's route that was there when it began (routes.py:477).
RestoreIsWhole ==
  /\ [](part = "backup" => Restore!NeverHalf)
  /\ [][part = "backup" => Restore!AsArchived /\ Restore!Untorn]_backupVars
  /\ LateRestore!TheirsKept
=============================================================================
