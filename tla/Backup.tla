--------------------------------- MODULE Backup --------------------------------
(***************************************************************************)
(* `backup` copies an install while it works; `restore` puts the copy back *)
(* file by file under the marker that pauses a migrate.  Gates queue       *)
(* turns, drains and workers move them on, the operator may have changed   *)
(* things meanwhile, and a restore may fail, die and be run again.         *)
(***************************************************************************)
EXTENDS Integers, FiniteSets

CONSTANTS
  Turn,      \* a pull request at a head, for a seat
  Late,      \* whether a gate, a drain or a worker may be past its look at the marker
  Plain,     \* whether the operator may also run a restore without --force
  Advised,   \* whether the operator finishes a dead restore with the command that `describe` names
  Others,    \* whether another program may take a route's name once a restore has begun
  Deaths     \* restores that die

BackupAssumption == {Late, Plain, Advised, Others} \subseteq BOOLEAN /\ Deaths \in Nat

VARIABLES
  queue,    \* the turns in a loop's state directory
  rows,     \* the run ledger: the state of each turn's row
  route,    \* whose the registry entry is, of the name that a loop uses
  job,      \* the schedule of the watchdog job
  archive,  \* what a backup holds of each, None of what it has not read yet
  taking,   \* where the backup is, and the turns that wait since it began
  marker,   \* migrating.json
  run,      \* where the restore is, whether it may overwrite, its exit code
  half,     \* whether some of the files are the archive's and others are not yet
  actor,    \* a gate, drain or worker that is past its look at the marker: what it is to do
  working,  \* turns with a worker that lives
  deaths

vars == <<queue, rows, route, job, archive, taking, marker, run, half, actor, working, deaths>>
install == <<queue, rows, route, job>>
None == "none"
Idle == [do |-> "nothing", turn |-> None]
Out == [at |-> "out", force |-> FALSE, exit |-> -1]

Init ==
  /\ queue = {} /\ rows = [t \in Turn |-> None] /\ route = "ours" /\ job = "first" /\ marker = FALSE
  /\ archive = [queue |-> None, rows |-> None, route |-> None, job |-> None]
  /\ taking = [at |-> "out", waits |-> {}] /\ run = Out /\ half = FALSE /\ actor = Idle /\ working = {} /\ deaths = 0

--------------------------------------------------------------------------------
(* The install at work: what looks at the marker goes on only if there is none. *)

PausedNot == FALSE
Paused == marker
MayAct(do, t) ==
  CASE do = "queue" -> t \notin queue /\ rows[t] = None
    [] do = "submit" -> t \in queue /\ rows[t] = None
    [] do = "pop" -> t \in queue /\ rows[t] # None
    [] do = "claim" -> rows[t] = "pending"
    [] do = "finish" -> t \in working
    [] do = "recover" -> rows[t] = "active" /\ t \notin working
Doing == {"queue", "submit", "pop", "claim", "recover", "finish"}
Do(do, t) ==
  /\ queue' = CASE do = "queue" -> queue \cup {t} [] do = "pop" -> queue \ {t} [] OTHER -> queue
  /\ rows' = CASE do = "submit" -> [rows EXCEPT ![t] = "pending"] [] do = "claim" -> [rows EXCEPT ![t] = "active"]
               [] do = "recover" -> [rows EXCEPT ![t] = "pending"]
               [] do = "finish" /\ rows[t] = "active" -> [rows EXCEPT ![t] = "done"] [] OTHER -> rows
  /\ working' = CASE do = "claim" -> working \cup {t} [] do = "finish" -> working \ {t} [] OTHER -> working
  /\ taking' = IF do = "claim" THEN [taking EXCEPT !.waits = @ \ {t}] ELSE taking
Act ==
  /\ \E do \in Doing, t \in Turn :
       /\ MayAct(do, t) /\ (~Paused \/ do = "finish") /\ Do(do, t)
  /\ UNCHANGED <<route, job, archive, marker, run, half, actor, deaths>>
Look ==
  /\ Late /\ actor = Idle /\ ~Paused
  /\ \E do \in Doing \ {"finish"}, t \in Turn : MayAct(do, t) /\ actor' = [do |-> do, turn |-> t]
  /\ UNCHANGED <<install, archive, taking, marker, run, half, working, deaths>>
ActLate ==
  /\ actor # Idle /\ actor' = Idle
  /\ IF MayAct(actor.do, actor.turn) THEN Do(actor.do, actor.turn) ELSE UNCHANGED <<queue, rows, taking, working>>
  /\ UNCHANGED <<route, job, archive, marker, run, half, deaths>>

\* The operator reschedules the job or removes it; a route of that name becomes somebody else's.
Reschedule ==
  /\ taking.at = "done" /\ run.at = "out" /\ job' \in {"second", None} \ {job}
  /\ UNCHANGED <<queue, rows, route, archive, taking, marker, run, half, actor, working, deaths>>
Take ==
  /\ taking.at = "done" /\ (Others \/ (run.at = "out" /\ ~half)) /\ route # "theirs" /\ route' \in {"theirs", None} \ {route}
  /\ (run.at # "out" => route' = "theirs")
  /\ UNCHANGED <<queue, rows, job, archive, taking, marker, run, half, actor, working, deaths>>

--------------------------------------------------------------------------------
(* create: the routes and the job, then the ledger's snapshot, then the files. *)

List ==
  /\ taking.at = "out" /\ taking' = [at |-> "listed", waits |-> {t \in Turn : t \in queue \/ rows[t] = "pending"}]
  /\ archive' = [archive EXCEPT !.route = route, !.job = job]
  /\ UNCHANGED <<install, marker, run, half, actor, working, deaths>>
Snapshot ==
  /\ taking.at = "listed" /\ taking' = [taking EXCEPT !.at = "snapped"] /\ archive' = [archive EXCEPT !.rows = rows]
  /\ UNCHANGED <<install, marker, run, half, actor, working, deaths>>
Copy ==
  /\ taking.at = "snapped" /\ taking' = [taking EXCEPT !.at = "done"] /\ archive' = [archive EXCEPT !.queue = queue]
  /\ UNCHANGED <<install, marker, run, half, actor, working, deaths>>

--------------------------------------------------------------------------------
(* cmd_restore, _restore. *)

At(at) == run' = [run EXCEPT !.at = at]
Exit(code) == run' = [run EXCEPT !.at = "out", !.exit = code] /\ marker' = FALSE
InFlight == \E t \in Turn : rows[t] = "active"
Begin ==
  /\ taking.at = "done" /\ run.at = "out" /\ \E force \in BOOLEAN : (force \/ Plain) /\ run' = [at |-> "check", force |-> force, exit |-> -1]
  /\ marker' = TRUE
  /\ UNCHANGED <<install, archive, taking, half, actor, working, deaths>>

\* Runs in flight, what is there without --force, and a route that is not ours refuse it.
SafeAny == TRUE
Safe == archive.route = None \/ route # "theirs"
Check ==
  /\ run.at = "check"
  /\ IF InFlight \/ ~run.force \/ ~Safe THEN Exit(2) ELSE At("queue") /\ UNCHANGED marker
  /\ UNCHANGED <<install, archive, taking, half, actor, working, deaths>>

\* The files in the archive's order: the state directory, the ledger last.
PutQueueMerged ==
  /\ run.at = "queue" /\ queue' = queue \cup archive.queue /\ half' = TRUE /\ At("ledger")
  /\ UNCHANGED <<rows, route, job, archive, taking, marker, actor, working, deaths>>
PutQueue ==
  /\ run.at = "queue" /\ queue' = archive.queue /\ half' = TRUE /\ At("ledger")
  /\ UNCHANGED <<rows, route, job, archive, taking, marker, actor, working, deaths>>
PutLedger ==
  /\ run.at = "ledger" /\ rows' = archive.rows /\ half' = FALSE /\ At("routes")
  /\ UNCHANGED <<queue, route, job, archive, taking, marker, actor, working, deaths>>
PutRoutes ==
  /\ run.at = "routes" /\ route' = IF archive.route = None THEN route ELSE archive.route
  /\ At("cron")
  /\ UNCHANGED <<queue, rows, job, archive, taking, marker, half, actor, working, deaths>>

\* The job is created if there is none, and read back; doctor may find more to say.
PutCron ==
  /\ run.at = "cron" /\ \E code \in {0, 1} : Exit(code)
  /\ job' = (IF job = None THEN archive.job ELSE job) \/ (job' = None /\ job = None /\ run'.exit = 1)
  /\ UNCHANGED <<queue, rows, route, archive, taking, half, actor, working, deaths>>

\* It ends in between, by an exception or because it is killed.
Raise ==
  /\ deaths < Deaths /\ run.at \in {"queue", "ledger", "routes"} /\ deaths' = deaths + 1 /\ Exit(2)
  /\ Plain /\ UNCHANGED <<install, archive, taking, half, actor, working>>
DieClean ==
  /\ deaths < Deaths /\ run.at # "out" /\ deaths' = deaths + 1 /\ Exit(-1)
  /\ UNCHANGED <<install, archive, taking, half, actor, working>>
Die ==
  /\ deaths < Deaths /\ run.at # "out" /\ deaths' = deaths + 1 /\ At("out")
  /\ UNCHANGED <<install, archive, taking, marker, half, actor, working>>

\* A migrate that finds nothing to move takes the marker away, as the watchdog's line advises.
Migrate ==
  /\ Advised /\ marker /\ run.at = "out" /\ ~InFlight /\ marker' = FALSE
  /\ UNCHANGED <<install, archive, taking, run, half, actor, working, deaths>>

Restore == Begin \/ Check \/ PutQueue \/ PutLedger \/ PutRoutes \/ PutCron \/ Raise
Next ==
  Act \/ Look \/ ActLate \/ Reschedule \/ Take \/ List \/ Snapshot \/ Copy \/ Restore \/ Die \/ Migrate
Spec == Init /\ [][Next]_vars

--------------------------------------------------------------------------------
TypeOK ==
  /\ queue \subseteq Turn /\ rows \in [Turn -> {None, "pending", "active", "done"}]
  /\ route \in {"ours", "theirs", None} /\ job \in {"first", "second", None} /\ marker \in BOOLEAN /\ deaths \in 0..Deaths

\* A turn that waits all the time a backup takes is in the archive, queued or in the ledger.
Captured == taking.at = "done" => \A t \in taking.waits : t \in archive.queue \/ archive.rows[t] # None

\* A restore that ends well has put back what the archive holds of the state and of the ledger.
Ended == run.at # "out" /\ run'.at = "out" /\ run'.exit = 0
AsArchived == Ended => queue' = archive.queue /\ rows' = archive.rows
RestoredState == [][AsArchived]_vars

\* ... and of the watchdog job, which is among what it said it will overwrite (existing).
RestoredJob == [][Ended => job' = archive.job]_vars

\* Nobody acts on an install that is partly the live one and partly the archive's: until a
\* restore has put the last file back, the marker is there (hold).
NeverHalf == half => marker

\* No run is in flight when the ledger under it is replaced (runs_in_flight).
Untorn == run.at = "ledger" /\ run'.at = "routes" => ~InFlight
NoneTorn == [][Untorn]_vars

\* A route of that name that is somebody else's is never overwritten, even with --force.
TheirsKept == [][route = "theirs" => route' = "theirs"]_vars
================================================================================
