------------------------------ MODULE MCTurns ------------------------------
(***************************************************************************)
(* Small instances of what a turn does outside the ledger: the push        *)
(* (LeasedPush, whose own behaviours are the part "push"), the other       *)
(* writes of the broker, the verdict body, the staged source and the       *)
(* clean-up. Each behaviour is about one of them.                          *)
(***************************************************************************)
EXTENDS LeasedPush, TLC

CONSTANTS
  Kinds, Turns,                            \* of BrokerWrites
  Finding, Rounds, LostRecords,            \* of VerdictBody
  Proc, Tree, Loose, Moves,                \* of Staging, for one export
  Procs, FewTrees, Forged, FewMoves,       \* of Staging, for exports to one root
  Role, Target, Faults, MaxFiles,          \* of both
  Path, Contents, Artifacts, Forced, Swaps, Checkouts   \* of Cleanup

KindOf == [p \in Pushers |-> p]
Worktree(n, k) == [name |-> n, kind |-> k, data |-> "own"]
Trees ==
  {{Worktree("x", "file"), Worktree("y", k)} : k \in {"exec", "link", "module", "dir", "odd"}}
    \cup {{Worktree("x", "exec"), Worktree(".gitmodules", k)} : k \in {"file", "dir"}}
    \cup {{Worktree("x", "file")}, {Worktree("x", "file"), Worktree("y", "file"), Worktree(".gitmodules", "file")}}
AForgery == {[name |-> "x", kind |-> "file", data |-> "forged"]}
TwoTrees == {{Worktree("x", "exec"), Worktree("y", "link")}, {Worktree("x", "file"), Worktree("y", "file")}}
AnyEntry == {[name |-> n, kind |-> k, data |-> d] : n \in {"x", "y"}, k \in {"file", "link", "dir"}, d \in {"own", "forged"}}

\* A plain build directory and a detached checkout, and what differs from them in one respect.
Plain == [pr |-> "mine", named |-> TRUE, link |-> FALSE, evidence |-> FALSE, inside |-> TRUE, git |-> "none"]
Near(c) ==
  {c, [c EXCEPT !.pr = "other"], [c EXCEPT !.link = TRUE], [c EXCEPT !.evidence = TRUE], [c EXCEPT !.inside = FALSE]}
    \cup {[c EXCEPT !.git = g] : g \in {"none", "branch", "foreign", "below", "branch_below"}}
NearOwn == Near(Plain) \cup Near([Plain EXCEPT !.git = "detached", !.named = FALSE])

VARIABLE part   \* the component that this behaviour is about

VARIABLES kind, run, turns, used, at, row, dispute, posts, told
writesVars == <<kind, run, turns, used, at, row, dispute, posts, told>>
Writes == INSTANCE BrokerWrites

VARIABLES entry, ci, verdictLanded, owed, approved, round, faults
verdictVars == <<entry, ci, verdictLanded, owed, approved, round, faults>>
Verdict == INSTANCE VerdictBody WITH Closes <- TRUE, Partial <- FALSE, Faults <- LostRecords,
                                     landed <- verdictLanded
PartialVerdict == INSTANCE VerdictBody WITH Closes <- FALSE, Partial <- TRUE,
                                            Faults <- LostRecords, landed <- verdictLanded

VARIABLES pr, tree, stageRun, root, temp, asked, since, left
stageVars == <<pr, tree, stageRun, root, temp, asked, since, left>>
Stage == INSTANCE Staging WITH run <- stageRun
Stages == INSTANCE Staging WITH Proc <- Procs, Tree <- FewTrees, Loose <- Forged,
                                Moves <- FewMoves, run <- stageRun

VARIABLES cleanPr, disk, state, cleanLock, cleanRun, removed, cleanLeft
cleanVars == <<cleanPr, disk, state, cleanLock, cleanRun, removed, cleanLeft>>
Clean == INSTANCE Cleanup WITH Kind <- Contents, Force <- Forced, Sweeping <- FALSE, pr <- cleanPr,
                               lock <- cleanLock, run <- cleanRun, left <- cleanLeft

Part == {"push", "writes", "verdict", "verdict_partial", "staging", "two_stagings",
         "cleanup"}

ASSUME TurnsAssumption ==
  /\ Writes!BrokerWritesAssumption /\ Verdict!VerdictBodyAssumption
  /\ PartialVerdict!VerdictBodyAssumption /\ Stage!StagingAssumption
  /\ Stages!StagingAssumption /\ Clean!CleanupAssumption

\* The component of the part starts in its own initial states; the others rest in one.
PartInit ==
  /\ part \in Part
  /\ Init
  /\ Writes!Init /\ (part = "writes" \/ (kind = "ruling"))
  /\ IF part = "verdict_partial" THEN PartialVerdict!Init
     ELSE Verdict!Init /\ (part = "verdict" \/ (ci = "green"))
  /\ IF part = "two_stagings" THEN Stages!Init
     ELSE Stage!Init /\ (part = "staging" \/ (tree = {Worktree("x", "file")} /\ \A p \in Proc : stageRun[p].role = "seat"))
  /\ Clean!Init /\ (part = "cleanup" \/ (cleanPr = "open" /\ state = {} /\ disk = [p \in Path |-> Plain]))

PartNext ==
  \/ /\ part = "push" /\ Next
     /\ UNCHANGED <<part, writesVars, verdictVars, stageVars, cleanVars>>
  \/ /\ part = "writes" /\ Writes!Next
     /\ UNCHANGED <<part, vars, verdictVars, stageVars, cleanVars>>
  \/ /\ \/ part = "verdict" /\ Verdict!Next
        \/ part = "verdict_partial" /\ PartialVerdict!Next
     /\ UNCHANGED <<part, vars, writesVars, stageVars, cleanVars>>
  \/ /\ \/ part = "staging" /\ Stage!Next
        \/ part = "two_stagings" /\ Stages!Next
     /\ UNCHANGED <<part, vars, writesVars, verdictVars, cleanVars>>
  \/ /\ part = "cleanup" /\ Clean!Next
     /\ UNCHANGED <<part, vars, writesVars, verdictVars, stageVars>>

partVars == <<part, vars, writesVars, verdictVars, stageVars, cleanVars>>

PartSpec == PartInit /\ [][PartNext]_partVars

\* No write of the broker takes effect twice, and what the ledger says of it is so; what the
\* operator is told is so, and a run that reached GitHub is not started again, where the ledger
\* has a record of the write that the supervisor reads: not for a fixer's answers or a filed issue.
Evident == kind \notin {"answers", "filed"}
WritesAreTrue ==
  /\ [](Writes!NothingTwice /\ Writes!RowIsTrue /\ (Evident => Writes!ToldIsTrue))
  /\ [][Evident /\ Writes!Rearm => ~Writes!Wrote]_writesVars

\* A reviewer that means an honest verdict finds a body the broker accepts, and an approval
\* settles every finding that earlier reviews left open, as long as every review's record was
\* written: the record is best effort (broker_ipc.py:647).
VerdictsSettle ==
  /\ [](part = "verdict" => Verdict!Sayable) /\ [](part = "verdict_partial" => PartialVerdict!Sayable)
  /\ Verdict!AllAnswered

\* A turn gets the commit's regular files, whole, of a pull request that was live after the
\* last was written; no second export replaces them; the credential goes to the API alone.
SourceIsWhole ==
  /\ [](part = "staging" => Stage!Whole /\ Stage!WasLive /\ Stage!Kept)
  /\ Stages!Exclusive

\* The clean-up removes only what is the loop's own and holds no evidence, although directories
\* are swapped under it; undisturbed it removes no branch and leaves nothing behind.
OnlyOwnRemoved == Clean!OnlyOwn /\ (cleanLeft.alone => Clean!BranchKept) /\ Clean!Reclaimed
=============================================================================
