# Diaktoros: formal model

TLA+ modules, TLC configurations and TLAPS proofs for Diaktoros, the review loop in
`src/diaktoros` and `src/scripts`.  Line numbers refer to that tree; `PROJECT.json` maps every
definition of a module to the lines it stands for.

## 1. The system

A GitHub webhook reaches a *gate* script, which enqueues a *turn* in a SQLite *run ledger*.  A
worker process claims the turn, runs an agent in a sandbox, and serves that sandbox through a
*broker*: the one place where a review is posted or a branch is pushed.  A *watchdog* run by
cron sweeps what died, starts more workers and tells the operator.  The difficulty is in the
seams: nothing is transactional with GitHub, any process may be killed or suspended between any
two statements, and a turn must never write twice.

    webhook -> gate --enqueue--> run ledger <--claim/complete-- worker -> sandboxed turn
                 |                   ^   ^                         |          | request
                 v                   |   |                         v          v
             loop state (JSON)   watchdog  operator CLI          broker -> review receipt / safe push -> GitHub

| Component (source) | State it keeps | Operations | Hard behaviour | What makes it correct |
|---|---|---|---|---|
| Run ledger (`run_supervisor.py`) | `runs` rows: state, owner, lease, pid, attempts, retries, admission, push intent and confirmation; receipts; notices; rulings | `submit`, `retry`, `recover`, `_claim`, `complete_uncertain`, `reconcile_uncertain`, `notify` | GitHub reads between two transactions; leases expire under living owners; crashes anywhere | one run per PR, seat capacity, no second write, no revival, every run ends |
| Worker (`_run_one`, `_run_production`) | its row, heartbeat, PID | claim, launch, hold, run a turn, complete | stale ownership, a turn that never stops | two turns never share a PR; an outcome never overwrites a newer one |
| Broker (`broker_ipc.py`, `broker.py`) | one spent-once write capability | submit review, hold for a person, push, answer, rule, triage, file issues | a thread that outlives its turn; write-ahead record before each call | write-ahead; at most one write per run |
| Review receipts (`review_receipt.py`) | one receipt per run | claim, POST, readback, confirm | an unanswered POST | a claimed receipt is never posted again |
| Safe push (`safe_push.py`) | — | validate, push, read back | unknown outcome | an unknown outcome is quarantined |
| Push policy (`config.py`, `cli.py`) | flag per loop, file lock | `fixer-push --enable/--disable` | races with a push under way | disable waits for the push |
| Gates (`gate*.py`, `scripts/gate_*.py`) | per-PR claims, rounds | admit, debounce, queue, escalate | concurrent events for a head | one wake per head, round cap |
| Loop state (`state.py`, `findings.py`) | JSON files: seat locks, queue, in-flight marks, breach markers, holds | locked read-modify-write | several processes, crash between two files | no lost update, no claim released by another |
| Watchdog (`scripts/watchdog.py`) | watch file | sweep, drain, restart, notify | overlaps gates and workers | a stuck round is drained once |
| Operator notices (`notify`) | rows of `operator_notices`, `rulings`, `disputes`, `ledger_events` | claim, send, acknowledge | overlapping sweeps, crash while sending, a run that ends again | no replay, no silent failure |
| Adjudication, triage, issue fixing (`ledger.py`, broker operations) | rulings, triage, issue-fix and filed-issue rows; breach marker | record, write, report | marker and ledger are two stores | one ruling per breach, one issue per finding |
| Transition (`transition.py`) | hold and receipt per PR | hold, settle, release | retarget during a turn | no old turn writes to the new base |
| CI repair (`ci*.py`, `fix_hold.py`, `review_kick.py`, `stale_approval.py`) | per-head marks | detect, kick, hold | events in any order | bounded repair turns per head |
| Pacing, inference proxy (`pacing.py`, `inference_proxy.py`) | account holds and windows | hold, count | clock | a held seat resumes |
| Observer (`observer.py`) | feed ledger | record, deliver | crash while delivering | one notice per identity |
| Routes (`routes.py`, `route_intent.py`, `migrate.py`) | intent file | create, resume, remove | crash between creations | restartable |
| Reports and maintenance (`doctor.py`, `selftest.py`, `stats.py`, …) | none of the protocol | read | — | — |

## 2. The modules, and what is left of the plan

The order put first what may damage a repository, then the state that two processes share, then
the rest.  A module is one component or one protocol; where two components share a
store they are in one module, because every important property relates two pieces of state.

| Module | Component | Abstracts from |
|---|---|---|
| `RunLedger`, `RunLedgerHistory` | run ledger, workers, broker, receipts, pushes, policy | section 3 |
| `TurnPromise` | what a turn promises the rest; `RunLedger` implements it | |
| `OperatorNotices` | notices; its turns are `TurnPromise`'s | section 3 |
| `ReviewLoop` | the gates and the loop that they drive | claims, queue, breach |
| `SeatClaims` | seat claims and in-flight marks | the ledger's states but "working" |
| `SeatQueue` | queue entry, its gates and drains | what a gate checks |
| `Breach` | breach marker and adjudicator's turn | the ruling's content |
| `GateFailures` | guard, ledgers and re-drives of failed gates | the event |
| `Sweep` | what a sweep of the watchdog remembers and prints | the parts of a sweep |
| `BrokerWrites` | the writes of the other seats | the second worker of a run |
| `IssueChain` | hand-off of issues to the fixer | the fix itself |
| `LeasedPush` | `push`, `open_branch`, `update_branch` | bundles and trees |
| `VerdictBody` | what a review must say | text |
| `Retarget` | transition hold of a retargeted pull request | the ledger's side of a turn |
| `Checks`, `MainRed`, `RedHead` | CI of a head, of main, and the fixer-first rule | log tails |
| `RepoMove`, `LoopRename`, `LoopInstall`, `RouteRegistry`, `Backup`, `Cleanup` | operator commands that change several stores | options, wording |
| `ObserverFeed` | the feed of notices to a person | wording |
| `CrateCache`, `Staging` | the crates and the checkout of a turn | the sandbox |
| `ModelCalls`, `Pacing` | model capability of a run; account holds and day counts | request policy |

Proofs are in `RunLedgerProofs` (types, one run of a pull request, capacity, what a turn writes, the
bounds of its counters, the refinement), `OperatorNoticesProofs`, `TurnsProofs` (all of `MCTurns`),
`ReviewLoopProofs` (all of `MCEvents`), `WorkersProofs` (all of `MCWorkers`), `SeatsProofs` (all of `MCSeats`),
`HostProofs` (all of `MCHost`) and `CrateCacheProofs`.  The `MC` modules are described in section 5.

Left of the plan: a refinement of `TurnPromise` by the turns of the other seats; the order of the parts of one
sweep, with its time budget over all of them; configuration parsing as pure operators.  Modules that
are proved about use no recursive operator, and parameters are CONSTANTS with the weakest assumption
the code gives.

## 3. RunLedger, TurnPromise and OperatorNotices

### State

The columns of a row are functions over `Run` (a run *is* its identity: repository, PR, head,
seat, turn key): `state`, `error` (the classes of text that code branches on), `owner`, `pid`,
`attempts`, `retries`, `admitted` (`push_admitted`), `intent` (`push_intent`), `confirmed`
(`push_confirmed`) and `receipt` (the row of `review_receipts`, or the run's row of `disputes`).  `Worker` is a process slot
with a program counter `pc`, its run `job`, and `arg`: the verdict or result it carries from one
transaction to the next.  `detached` holds the workers whose turn was given up while the broker
thread was still inside a write.  `policy` and `plock` are the host's flag and its file lock.
`inflight` and `landed` are GitHub: a request of the run is under way; how many took effect.

### Actions

| Code | Actions |
|---|---|
| `submit`, `_rearm`, `retry` | `Enqueue`, `Redeliver`, `Retry` |
| `recover` | `Recover` (any set of leases has run out, any set of waits is due) |
| `_claim` | `ClaimRead` (GitHub read, no lock held), then one of `ClaimSkip`, `ClaimRefuse`, `ClaimRetire`, `ClaimBackoff`, `ClaimFail`, `Claim` |
| `_run_one`, `_run_production` | `Launch`, `Enter`, `Hold`, `PolicyHold`, `StartTurn` |
| broker, review | `Refused`, `HeldForPerson`, `ReviewClaim`, `ReviewPost`, `ReviewConfirm`, `ReviewPosted`, `RecordIneligible`, `ReviewLost` |
| broker, push | `BeginPush`, `PushDenied`, `PushSend`, `PushConfirm`, `PushQuarantine`, `RequestReview`, `AnswersOnly`, `Answered` |
| `run_turn`, `complete_uncertain` | `EndTurn`, `Complete`; `EndUnstopped`, `Exit` when the broker does not shut down |
| `reconcile_uncertain`, `fixer-push` | `Reconcile`, `SetPolicy` |
| the host, GitHub | `Crash`; `Land`, `Lose` |

### What is abstracted

* **Leases and clocks.**  There is no lease variable: a sweep takes any set of claimed or live
  rows.  This covers every timing, since an owner may be suspended for longer than its lease
  and its heartbeat may fail to reach SQLite.  `retry_at` likewise.
* **GitHub reads** are choices.  A read that fails is counted, as in the code.
* **An operator's reconciliation** happens only after the requests on their way have ended
  (`~inflight` in `Reconcile`): the command demands an acknowledgement that the writes
  were inspected.  This is an assumption about a person, and `WrittenOnce` does not need it;
  `WriterHoldsPR` does.
* **Read identities.**  A PID names its process: `_pid_reused` tells a reused PID apart.
* **Seats.**  Reviewer and fixer.  A fixer that pushes nothing answers, with or without a
  dispute on record (`AnswersOnly`), and the comment succeeds or not (`Answered`); its rows are
  in `BrokerWrites`, as are adjudicator, triage and issue fixer.
* **Validation** of a push or a review is the choice `Refused` or `PushDenied`.
* A wait for CI and a pacing hold are the verdict `wait` and the result `paced`.

### TurnPromise

`TurnPromise` is what the rest of the system may rely on: a turn is absent, queued, working,
held or ended; of a pull request only one is busy; what wrote is never queued again and writes
once; `succeeded` and `settled` are final.  `RunLedger` implements it under the mapping `LifeOf`
(ledger state to life) with `wrote` the runs whose write took effect: property `KeepsPromise`.
A sweep moves many turns in one step, so `Move` relates whole functions.

### OperatorNotices

The turns here are those of `TurnPromise` (`MoveTurns` is its `Move`), so the module says
something about every ledger that keeps the promise.  `notice` holds the three tables, `comment`
the `comment` column of `disputes`.  A sweep (a call of `notify` by the watchdog or by the `sweep`
command) walks the tables in order: `Begin` inserts the alerts, `Select` reads a batch, then each
row is `Claim`ed, `Skip`ped or `Resolve`d in a transaction of its own; `Deliver` and `Fail` are
the transport, `Record` the acknowledgement, `Advance` the next table, `Crash` a kill at any
point.  `_rearm` deletes the alert row (`ForgetAlerts`), which the sweep that is sending it does
not notice.  `copies` counts what the operator got about the row that is there now (`fresh`).
`record_ruling`, `record_dispute` and `dispute_comment` are `RecordRuling`, `RecordDispute`,
`SettleComment`.  Left out: the batch limit of 20, the messages, and `ledger_events`, which are
sent by the same code as rulings.

## 4. The other modules

For each: the state, what its actions stand for, and what it does not say.  A file that is
read and written under its lock is one step; everything between two locked sections, two requests
or two database transactions is a place where others act and where a process may die.

**SeatClaims.**  `claim` and `mark` are the entries of `locks.json` and `inflight.json` of one pull
request; `ClaimSeat`/`ArmMark` are the two writes of `claim_seat`, `Free`/`Unmark` the two of
`release_seat`, `GateRead`/`GateFree` a gate that ends a turn after a read that may be old,
`Prune`/`ForgetMark` the clocks with budgets that an operator changes (`SetBudget`), `Reconcile` and
`Sweep` the ledger's side.  Ages replace clock values and stop where nothing depends on them.

**SeatQueue.**  `entry` of `pending.json`; a gate `Observe`s it, `Enqueue`s its turn, and
`Acknowledge`s or `Record`s exactly the entry it observed (`PopIf`, `ReplaceIf`); a drain of the
watchdog observes, judges, fires and settles.  `wanted` is what GitHub says is due.  The entry that
`transition.record` pops when it records a hold (`queue_pop_head`) is not in this module.

**Breach.**  `marker` in `breach.json` and `row` in the ledger have no common transaction: a
delivery is `Reserve`, `Wake`, `Settle` with a token; the worker `BreachStart`s, records the ruling
and `BreachResume`s; `RetryPending` and `Escalate` are the watchdog and the operator.

**ReviewLoop.**  Events start a gate for any head at any time, which covers delay, repetition and
reordering.  A gate reads the pull request, the reviews and the loop's state in three steps and
commits in a fourth.  A turn checks and writes in two.

**Sweep.**  `watch.json` as read at the start, changed, and saved at a few places (`Judge`,
`Rest`, `Spend`, `Raise`), with `Say` after the lock is given up.

**GateFailures.**  Two ledgers with leases: `Record`, `Claim`, `Say`, `Driven`, `Release`, `GiveUp`,
`Resolve`, migration of the fallback ledger (`Moving`), and files that become unreadable and are
moved aside (`Tear`, `CopyAside`, `Afresh`).

**BrokerWrites.**  Each kind of write is a `Course`: the order of its records, its authorization
and its requests as the code has them; `Post`, `Lost`, `Deny`, `Hold`, `DieAfterPost` and `Die` end
a step, `Rearm` starts the run again when `Evidence` says that nothing was written, `TellRuling`
and `Notice` are what the operator reads.

**IssueChain.**  `depth`, `origin`, `held`, `count` per issue; `HandOff` and `Release` look at the
pull request and the depth, then `DayCap`, `Queue` and `Count` are steps of their own.

**LeasedPush.**  A commit is a number, `has` what it reaches.  `Start`, `Build`, `Attempt`,
`Confirm` and `Settle` are the stages of the three functions; GitHub's `Receive` is apart from the
client's `Hear` and `Lose`, since Git is killed at its timeout while the server works on.  `seen` and
`prHead` are what the API shows, and lag.  The validation of a bundle is `AttemptDenied`'s refusal.

**VerdictBody.**  A body is which findings it accounts for, as what, what it cites and whether it
answers the issue's requirements; `Accepted` is the order of refusals in the broker, `Record`
what `findings.record` does after the review has landed, or fails to do.

**Retarget.**  `hold` with its head, era and baseline; `Record` is `transition.record` with its
reads before the write, `Quarantine` the clearing after it, `StartFresh` and `RetryFresh` the one
reviewer turn of a hold, `Fixes` and `Approved` what gates do with reviews made before.  A gate, a
sweep or the operator counts the verdicts of a head (`EscalateCount`, which `cue` remembers) and marks it later
in `gate.breach` (`EscalateMark`), whose check under the lock reads the live pull request and not the hold.

**Checks, MainRed, RedHead.**  `Checks` is operators: the latest run of every check and what gates.
`MainRed` judges main's head after merges; `RedHead` has the fixer turn at a red head (`First`,
`Plan`, the two that count and enqueue), the wait for running checks, and stale approvals.

**RepoMove, LoopRename, LoopInstall, RouteRegistry, Backup, Cleanup.**  Commands that change
several stores, step by step, while gates, workers, sweeps or foreign writers go on; a command may
die, raise, or be run again.  `RouteRegistry` is the optimistic publish over a file that is shared with
Hermes, with the heal of a sweep.  `LoopInstall` has hooks, routes, config and intent of a loop with
rollback.  `Backup` copies and restores file by file.  `Cleanup` judges and removes directories
that are replaced between the two.

**ObserverFeed.**  `entry` per ledger key with its status; a notice is claimed, posted and
receipted in three steps, batched facts are members of a digest that is itself a key.

**CrateCache, Staging.**  `has` per directory generation, `hold` and `mount` per turn; and the
export with its three looks at the live head, its tarball with one redirect, and the rename.

**ModelCalls, Pacing.**  Threads of one capability between their shared fields (quota, token and its
lock, `lastHeaders`, `limited`, `quiet`); and workers of one account between the file lock's load and
save, with ticks of a clock of `DayLength` per day.  A turn ends in one of four ways (`Ends`): it published, its
process failed, it exited cleanly without a write, or it was dropped (a budget kill, a denial).  Only a failed
process is held until the window reopens (`Paced`); a silent end spends a retry (`Fail`), and a dropped one,
or a second silent one, fails at once (`Drop`).

## 5. What the runs check

Twelve runs, each of which asks one question of the system.  Two of them
(`shared_pr`, `operator`) and the disagreement `quarantined` run the ledger as it is, and `crates` the
crate cache.  The others ask one question of several components at once.  Their `MC` module holds an instance of each
component and a variable `part`, chosen initially: a behaviour is about the part's component, which
takes its own steps, while the variables of all others stay in one of their initial states.  So the
reachable states are those of the components one after the other, and not their product, and
a property is a conjunction of what each part must satisfy.  (Components that interact in the
code share a module, or one of them takes the other's steps as free choices.)  Where two
instances of one component are given, they differ in their constants, each of which makes one hazard
happen that would be too large beside the other.

| Run | Module, parts | Shows |
|---|---|---|
| `shared_pr` | `MCRunLedger`: a review and a fix of one PR, two workers; re-deliveries, policy switches, crashes; deadlock checked | `OnePerPR`, `LoneTurn`, `WriterHoldsPR`, `WrittenOnce`, `RowsMatchGitHub`, `WriteAhead`, `DisableWaits`, `TypeOK`, `KeepsPromise` |
| `operator` | the ledger with two fixers' turns of two PRs and one slot, operator retries, waits and pacing, two attempts, two retries, two re-arms | `WithinCapacity`, `Bounded`, `ReconciledFinal` |
| `settles` | `MCSettles`: the ledger with two workers and one attempt, with one worker and two attempts; the notices of a ruling and a review; fairness | `Settles`, `RulingsArrive` |
| `notices` | `MCOperatorNotices`: a fix that disputes, an adjudication that rules; three sweeps, crashes; deadlock checked | `NeverReplayed`, `NoticeAfterComment` |
| `seats` | `MCSeats`: claims, queue, a move to a new repository name | `LiveKeepsClaim`, `LostOnlyToOvertaken`, `StateMoves` |
| `events` | `MCEvents`: the review loop, hand-off of issues, retargeted pull requests | `FixesBounded`, `ChainBounded`, `RetargetAttested` |
| `turns` | `MCTurns`: leased pushes, the other writes, verdict bodies, staging, clean-up | `PushSafe`, `WritesAreTrue`, `VerdictsSettle`, `SourceIsWhole`, `OnlyOwnRemoved` |
| `crates` | `CrateCache`: three workers, four lockfiles, four turns, a death | `CratesHeld` |
| `workers` | `MCWorkers`: pacing file, model calls, feed | `PacingKept`, `CallsKept`, `FeedIsTrue` |
| `host` | `MCHost`: sweeps, failed gates, breach marker, routes, rename, install, backup | `RulingsMarked`, `AlertsOnce`, `RoutesKept`, `InstallAsSaid`, `RestoreIsWhole` |
| `ends` | `MCEnds`: seventeen components with fairness | `WaitingIsServed`, `HeadsSettle`, `BegunEnds`, `OperatorIsTold` |
| `quarantined` | `RunLedgerHistory`: one run, one worker | the disagreement of section 7 |

The comment over each property says what it means for each of its parts; the conjuncts are
defined in the components' modules, beside what the code says about them.

**Bounds.**  Two runs and two workers are the smallest instance in which every pair of actors
meets: the hazards are about two turns of a PR or of a seat.  `MAX_ATTEMPTS` 3, `MAX_RETRIES` 4
and `MAX_REARMS` 8 become 1 or 2: a limit of 1 reaches "the last one", a limit of 2 also "one
more is left".  In `shared_pr` a swept claim fails at once and comes back by re-delivery
(`MaxAttempts` = 1); the direct requeue is in `operator` and in the part `retrying` of `settles`.
In `notices` three sweeps are one more than the two that exist (cron and an operator); one run is
enough because rows are claimed one by one, and `MaxCopies` = 2 counts to the first repetition.  In
the other components: two of the actors that interleave, three where the third can come between two
(`calls`, `crates`); two or three of what they fight over.  Limits that count up (deaths, faults,
failed reads, pushes, commands) are constants of the modules; one death reaches every intermediate
state, and what a second one would need is a step that the recovery itself leaves half done, for
which the rename has three.  `AUTO_FIX_MAX_DEPTH` 2 becomes 1
in `events`: of two issues one is at the bound and one past it, and two processes hand them off.
Numbers that are thresholds in the code are small but at least 2 where
"one below" and "at" differ.  In `crates` one of the four directories is always
free.  The proofs of section 6 remove the bounds from what they are about.

In `MCTurns`, `MCWorkers`, `MCEvents`, `MCSeats` and `MCHost` the constants of the parts are constants of the
`MC` module, with the assumptions of the components: the run gives them the small values, and the theorems of section 6
speak of the same instances with any values.

**Symmetry** is over actors that the module does not tell apart (workers, sweeps, and in `seats`
and `workers` the names that each part uses for its own actors, exchanged in all of them
together), and only in runs without liveness.  `CHECK_DEADLOCK FALSE` stands where the system
may stop: all turns have ended and no event is enabled.

**What an instance excludes.**  Where a disagreement of section 7 would hide everything
else, the instance excludes its cause:

* the part `retarget` has one head, since a slower recorder's hold of an older head replaces that of
  the newer one and breaks `FixAttested`; the part `retarget_pushed` has any number of heads and checks
  `Cleared`, which a recorder breaks that dies between its record and the clearing, so none dies there.
  Heads are escalated in `retarget_pushed` only (`Escalates`): an escalated head gets no order, so in
  `retarget` it would only take away what the run looks for. The theorem leaves `Escalates` open.
* the clean-up may meet one swap of a directory (`Swaps` is at most 1): two swaps bring a directory with
  the same identity back in another place, which the pinned identity cannot tell from the first.
* the part `backup` has `Late`, `Plain`, `Advised` and `Others` off, and `late_backup` has
  `Others` off: each breaks one conjunct of the restore's properties.
* `RepoMove`, the lone registry and the moved feed have `Overlap` off, `IssueChain` has
  `MayWithdraw` off in the part `chain` and one process in `chain_days`: two of them may both find room
  for the last turn of a day; `RedHead` has one party
  that counts at a time.  `RepoMove` may raise (`MayRaise`) only in the part `failing_move`, which claims
  only `RowsFound`.
* the commands of the installation run one at a time, and heals, edits and erased routes come between
  them.  `Armed`, `Fresh`, `Gone` and `Paused` are checked in the part `install` (without pushes of a
  changed profile), `Restored`, `StaysArmed` and `Agrees` in `profile_change`.
* of the other writes, what is said of a run that wrote and of what the operator is told is said of the kinds
  whose record the supervisor reads (`Evident`): a fixer's answers and filed issues are not among them.
* a verdict settles what it should as long as no record of a review was lost (`faults = Faults` in
  `AllAnswered`); the parts may lose one (`LostRecords`), after which only what can be said is claimed.
* of the marks at a retargeted head, `Cleared` speaks of those that were made before the hold; of one made
  later by who counted earlier it says nothing (`MarkerAttested` in `Retarget` fails, section 7).
* `Pacing` has in `ends` a cap that no day reaches, so that only provider windows hold a run: a
  run that waits for midnight may lose its place on every day to another.
* the failed gates have either deaths, or unreadable files, or busy locks.

**Fairness.**  A component's module states its fairness; `MCSettles` and `MCEnds` state it once for
all: `Weak1`, `Weak2`, ... and `Strong1`, ... are disjunctions of one action of each part.  A
behaviour is about one part, in which such a disjunction is that part's action, so that fairness
of the disjunction is fairness of the action.

`WF` stands on a step of a process that is not killed, of a clock and of the watchdog, which cron
calls for ever.  `SF` stands where a step is enabled again and again, since something in between
(a read that fails, a lock that another holds) undoes it:

* reading and deciding a run of the ledger: each sweep spawns a worker and `_claim` walks all the
  candidates in order, so a row that keeps being pending is read again and again, and not every
  worker that reads it is killed before its transaction;
* the delivery of one message: a transport (the standard output of the cron job) that is tried
  again and again with one message takes it in the end.  It is per message on purpose: with one
  `SF` for all, a ruling could be refused for ever while alerts go through.  Rulings wait behind
  alerts, because a refused message ends the sweep; `RulingsArrive` shows that they arrive all the
  same, when no sweep is killed while sending (such a row stays `sending` for an operator);
* the drains of the queue and their ledger (`SeatQueue`), the delivery of an event of a live head by
  GitHub or by the watchdog (`ReviewLoop`), sweeps that fail and run again (`Sweep`), a claim of an
  entry that others hold for a time (`GateFailures`), the sweep that releases a hand-off
  (`IssueChain`), a wake that a failing sender repeats (`Breach`), a worker that needs the lock of
  the pacing file (`Pacing`), a dead notice that is retried (`ObserverFeed`), the close of a
  capability whose lock calls hold (`ModelCalls`).

There is none on persons, faults, GitHub's writes, deaths or the expiry of a living owner's lease,
and the faults themselves are bounded or end (`Calm`) only where a property says "once faults
end".  `Settles` says that every pending run succeeds, fails, is cancelled or becomes uncertain, or is
held back by a run that is uncertain (which only an operator settles).

## 6. What is proved

Each theorem is `Spec => []Property` (or `Spec => Property`) for every value of the constants that the
module's named assumption allows: any number of runs, workers, repositories, pull requests, heads,
limits.  The assumptions are the types of the constants, that limits are positive, that a PR has one
repository, that there is a longest turn budget and, where cardinalities are compared, that the sets
(the runs, a lockfile) are finite.  The ones that restrict behaviour are named below.  The theorems of
`TurnsProofs`, `WorkersProofs`, `ReviewLoopProofs`, `SeatsProofs` and `HostProofs` are about the specifications and
the very properties of the runs `turns`, `workers`, `events`, `seats` and `host`, whose components' constants are any.

| Module | Theorem | Property |
|---|---|---|
| `RunLedgerProofs` | `TypeCorrect`, `OneRunPerPR`, `CapacityKept` | `TypeOK`, `OnePerPR`, `WithinCapacity` |
| | `AtMostOneWrite`, `WritesRecorded`, `WriterKeepsPR`, `DisableCannotOvertake`, `TurnsExclusive`, `ReconciledStays` | `WrittenOnce`, `WriteAhead`, `WriterHoldsPR`, `DisableWaits`, `LoneTurn`, `ReconciledFinal` |
| | `RowsMatch`, `CountsBounded` | `RowsMatchGitHub`, `Bounded` |
| | `PromiseKept` | `KeepsPromise` |
| `OperatorNoticesProofs` | `SentOnce`, `CommentLeads` | `NeverReplayed`, `NoticeAfterComment` |
| `TurnsProofs` | `PushSafeHolds`, `WritesTrueHolds`, `VerdictsSettleHolds`, `SourceIsWholeHolds`, `OnlyOwnRemovedHolds` | `PushSafe`, `WritesAreTrue`, `VerdictsSettle`, `SourceIsWhole`, `OnlyOwnRemoved` |
| `ReviewLoopProofs` | `FixesBoundedHolds`, `ChainBoundedHolds`, `RetargetAttestedHolds` | `FixesBounded`, `ChainBounded`, `RetargetAttested` |
| `SeatsProofs` | `LiveKeepsClaimHolds`, `LostOnlyToOvertakenHolds`, `StateMovesHolds` | `LiveKeepsClaim`, `LostOnlyToOvertaken`, `StateMoves` |
| `HostProofs` | `RulingsMarkedHolds`, `AlertsOnceHolds`, `RoutesKeptHolds`, `RestoreIsWholeHolds`, `InstallAsSaidHolds` | `RulingsMarked`, `AlertsOnce`, `RoutesKept`, `RestoreIsWhole`, `InstallAsSaid` |
| `CrateCacheProofs` | `CratesHeldHolds` | `CratesHeld` |
| `WorkersProofs` | `CallsKeptHolds`, `PacingKeptHolds`, `FeedIsTrueHolds` | `CallsKept`, `PacingKept`, `FeedIsTrue` |

A theorem is about the instances of its run, so what an instance excludes (section 5) its theorem excludes
too, for every value of the constants that are left.  Where the code breaks the full statement, these are the
restrictions, each with the line that makes it necessary:

| Theorem | What it says only under a restriction |
|---|---|
| `WritesTrueHolds` | what the operator is told, and that a run that wrote is not started again: not of a fixer's answers and filed issues (`run_supervisor.py:1019`) |
| `VerdictsSettleHolds` | that an approval settles all that is open: while no record of a review is lost (`broker_ipc.py:647`) |
| `PacingKeptHolds` | that no retry is spent in a closed window: for a failed process (`run_supervisor.py:3178`) |
| `FeedIsTrueHolds` | the place of a fact: no change of the destination overlaps a claim (`cli.py:2709`) |
| `ChainBoundedHolds` | the depth: no fix label is withdrawn (`fix_hold.py:112`); the day's cap: one process hands off (`fix_hold.py:138`) |
| `RetargetAttestedHolds` | one head, but for `Cleared` (`state.py:845`), and there no recorder dies (`transition.py:60`) and the mark was made before the hold (`gate.py:1268`) |
| `StateMovesHolds` | no gate is past its look at the marker (`migrate.py:116`); of a migrate that raises (`migrate.py:131`) only `RowsFound` |
| `RestoreIsWholeHolds` | a whole restore: nobody is past a look at the marker (`cli.py:4262`), `--force` (`migrate.py:131`), finished by a restore (`migrate.py:111`), no name taken meanwhile (`routes.py:477`); another's route: the last alone |
| `RoutesKeptHolds` | that a removed route stays removed: no heal overlaps a command (`route_intent.py:273`) |
| `InstallAsSaidHolds` | commands run one at a time, heals between them (`route_intent.py:273`) |
| `OnlyOwnRemovedHolds` | one swap of a directory at most (section 5) |
| `FixesBoundedHolds` | nobody dismisses a verdict |

**The ledger.**  `OnePerPR` is inductive with two facts: only `Claim` makes an inactive run active
(`OnlyClaimActivates`), and an intent needs an active run.  The properties about writes are not
inductive as they stand: whether a run has written is known only from its row *and* from where
each worker that ever claimed it now is.  `WriteInv` therefore ties the three together:

* `RowInv`: for each run, what its row says about its writes (`RowOK`): a
  run before its turn has neither records nor writes; a landed write has a
  record or is reconciled; a succeeded one matches exactly.
* `StepInv`: for each worker label, what the row and GitHub must look like (`BeforeTurn`,
  `InTurn`, `PushLocked`): in `posting` the receipt is claimed and nothing has landed; in
  `pushing` the worker holds the policy lock, its policy is on and the intent is set.  A worker
  at a broker step has its run running or uncertain, unless the run was reconciled, which its
  living PID forbids; with `OnePerPR` this makes turns exclusive.

`PromiseKept` is the simulation: under `WriteInv` and `OnePerPR` every step is a `Move`, a `Write`
or a stutter of `TurnPromise`.  The invariant of the notices (`Inv`) adds to `NeverReplayed` that
a row has one sender at most, that it stays `sending` while it has one, and that a row still to
be claimed was never sent; for `NoticeAfterComment`, that a turn which wrote is never busy again
once it ended, so that what a sweep saw of a comment stays true however late it claims the row.
`NoticesAssumption` (types of the constants) is the only assumption there.

`CountsBounded` needs
that a worker carries a verdict for a run whose attempts were below the limit when it was read.

**The leased push** (`Bounds`: kinds of the pushers, commits are numbers).  `PushInv` says what a
program counter implies: before the attempt nothing is on its way, what is on its way or landed is
in the journal with the very commit that was built, and a turn that was told "denied" is past its
attempt without one.  `NothingLost` needs more, `LeaseInv`: commits are never made again
(`FreshUnused`), so what a made commit reaches is fixed, and a pusher's commit reaches all that
its leased head reaches; the lease then closes the argument, whatever the author did meanwhile.

**The other writes of the broker** (`Kinds` of the writes, at least one turn).  That a request is not made
twice is known only from where the course of its run stands: `WritesInv` says that while a write is under
way the row is "recorded" or "posting" and GitHub has had exactly the requests before the current step
(`SentSoFar`), that the record comes before the first of them (`Unwritten`), and that a dispute, whose
run has two rows, is kept from a second launch by its own (`DisputeKept`).

**The verdict body** (any findings and rounds).  Between the landing of a review and its record the two
disagree; `VerdictInv` says that what landed reviews raised is open on record, or is raised or
left open by the one that has just landed, so that whatever an approval must settle is known to the broker,
as long as no record was lost (`OnRecord`).

**The staged source** (names are unique in a tree, an entry of another's is not the commit's; nobody
is a process).  `StageInv` says step by step what an export has: regular files of the
commit alone, all of them once it may publish, and a pull request that was live since the last was written.
A root that is there is the whole of some finished export's, hence never replaced.

**The clean-up** (`Swaps` is at most 1, see section 5).  What the candidate's pinned identity is worth
changes from step to step while directories are swapped and branches are checked out: `Judged` says
what a check that has passed still tells after a swap, `Undisturbed` what the list of
worktrees tells as long as nobody interferes; of the candidates not yet looked at, all that is left
over is still to do.

**The rounds of the loop** (`ReviewLoopAssumption`, and nobody dismisses a verdict: a dismissal
takes a verdict back and with it the count, so the property is false without).  A gate
counts long before it commits, so no fact about the count held by one gate is inductive.  `RoundsInv`
bounds the set `Committed`: heads whose fix is ordered, and heads that some gate may still order.
That set lies within the heads with a verdict, which only grow; only `ReadForFix` adds to it, by a
gate that has just counted all those heads and found fewer than the cap.

**The chain of findings on fixes** (the depth and the day's cap are numbers).  A hand-off reads the labels, the
depth and the pull request long before it queues.  `ChainInv` says that what it read stays true: a filed
issue keeps its depth and its origin, a merged pull request stays merged, and who waits deeper than the
limit has a person's label.  `DaysInv` says of the one process that hands off that between its look at
the count and its own count nothing is counted, and that midnight only makes room.

**The retargeted pull request** (one head for `Attested`, `FixAttested` and `OneTurn`; any number for
`Cleared`, with no deaths).  Reviews, hold, actors and turns are read at different times.  `RetargetInv`
ties them: a review that a baseline does not name was made after it was read; the hold's boundary is not
after the present; who is past the record of a hold, or acts upon a boundary that the watch saw, finds the hold,
since the first record stands; and a name of a turn is the hold's, so two turns of one
name are one.  `PushedInv` says that when a mark is left that was made before the hold of its head (`Outlived`), the
process that recorded the hold is still about to clear it; a mark made later names a head that was held
by then, and the invariant leaves it alone.

**The seat claims** (there is a longest budget; the heads are numbered).  Nothing in `locks.json` says
that a turn is alive; a reader only compares two clocks.  `ClaimsInv` says why that is enough.  The
claim of a run at work is never older than its turn (`ClaimAge`: it is written after the start, and
both age together), the turn is never longer than the budget it was *started* with (`WithinBudget`),
and that budget counts in the time to live beside the configured one (`TtlCoversTurn`), so no reader
prunes a live claim (`ShownIsLive`).  The other removals spare it since the ledger has one busy run
of the pull request (`OneBusy`): an ended or reconciled run frees only a claim that names it.

**The held request** (nothing is assumed of the heads, gates, drains and faults but their kinds).  The step that
removes an entry acts on what was observed long before.  `QueueInv` says what has stayed true of
it: a gate that is done queued its turn, which the ledger keeps; no head that anybody knows is ahead
of GitHub's; and an entry that a drain judged stale is stale for good, because heads only grow and a
request that was superseded is not wanted again.  Who removes a due entry is then a gate that queued
the same head, or one of an older head: `Overtaken`.

**The move of a repository** (no gate is past its look at the marker when a migrate starts; of what a
raising migrate leaves, only `RowsFound` is claimed).  `MoveCore` is the pause: one migrate has the lock, its
marker stands as long as it is under way, and nobody queues behind it.  A migrate that died has left the
stores at odds, and the invariant says in which ways only: `NamesInv`, all have the loop's name, or
the loop file alone has yet to follow (`Ahead`), with the rows, or the rows and the marks, already moved;
`DirInv`, the loop file names the directory there is, or that was renamed and the next migrate
looks again.  Both disagreements stand behind the marker, with no run in flight for the second, so that nothing
is claimed or queued in them, and each step of the migrate that takes over leads to one of the same.
That the rows are one for each turn (`OneRow`) is kept with it: a row is queued under the name all others have.

**The breach marker** (heads are numbered from 1).  The marker and the adjudicator's turn are in two
stores that no transaction joins, so neither tells alone whether a head was ruled on.  `TakenInv`
speaks of the heads that are `Taken`, ruled on or being ruled on: no marker is ahead of GitHub's head,
so a taken head is not either, it is taken once, its marker says "adjudicating" as long as
no newer head has replaced it, which by then is GitHub's.  So a head that has been taken up is never
offered again, and `RuledOnce` follows although the marker may be gone.

**The sweeps** (`two_sweeps`: any number of overlapping ones, stalls that persist; `sweep`: one watchdog that
may die, be slow, raise or be blind).  A line is printed long after the lock over the marks is
released.  `SwInv` says what makes that safe: who holds the lock remembers the file, but for marks of pull
requests that it saw not to stall (`SwSame`); the mark is in the file, and fresh, before the line is
among the lines (`SwPending`), a mark that is due means that the line is due again (`SwFresh`), and one who has
a line keeps all others from it, since they find its mark.  A kill between the two loses a line, and
repeats none.

**The failed gates** (any limits; sweepers that may die, or files that may be torn, or locks that may be
busy).  `GfBounded`: the re-drives made are never more than those counted, which the claim
compares with the limit, because the count is written with the claim and before the re-drive.  `OwInv`
says where what is owed must be: the failure's entry is open or its file is torn, a notice is
open beside a copy of the torn bytes, and one that was told owes nothing; and what a sweep under way covers is
what its entry owed when it was claimed, so that no mark of an older line closes a newer failure.
`SaidInv` says that a claim is held by the one sweep that works on its entry until it
cools, and that what was told is what was said.

**The registry** (any names).  The plugin publishes what it has read and edited, after comparing the
file's identity with the one read.  The identity changes with the contents, so a publish that goes through is an
edit of what is there (`RegRead`); what it edits is its own names only.  Against the heal `LoneInv` says
of a lone program that a removed route is in no record and in no list of a heal that could bring it back.

**The rename** (any hooks of two routes).  `RenameInv`: until all hooks are done both routes are there
(`RenameCopied`), a hook that is done is on its new route and was answered there or its route is
unproven (`RenameMoved`), and an old route that is unproven stays; a rename that died leaves what the next
one starts from.

**The backup** (any turns).  `RestoreInv` says that nothing but a living worker acts while the marker of
a half is there, and a restore that goes on has found none at work.  So the half stays the half that
was checked, the check that would let another restore in fails as before, and what has been put
stays as it was put (`RestorePut`).  `LateInv` is what is left when the look at the marker may be
late: the route for which the check passed is still free or ours, since in `Backup` others take the name
only between restores.

**The installation** (any profiles, hooks, commands and faults).  A command is alone with the config, the
routes and the hooks until it ends, but it has many stages, each of which may fail and be undone.
`InstallInv` says for each kind of command and each place of its plan what the stages before it have left:
what `init` has written and which hooks it has seen to exist, which hooks an `arm` has still to flip, that each move
of an `apply` goes where its seat's route will be; and when a stage has failed, what undoing it has put back by
then (`InitFailed`, `ApplyFailed`), but for what says itself that it is dirty.

**The crate cache** (lockfiles are finite; any number of directories, turns and deaths).  A worker that
holds a directory is protected by no lock, and others may discard, retire and sweep meanwhile.
`CrateInv` says what `fetch.lock` is worth: one worker is at its steps (`LockHeld`); what a fetch would
discard to contains all that any holder of the cache needs, and what it added is in its own lockfile
(`Fetches`); a directory leaves the cache's path only to be retired, and what is neither is empty and
nobody's (`Directories`).  So a discard hurts nobody, a sweep meets only what nobody holds, and a fetch
that passes the bound with nothing to discard to needs too much by itself.  `Bound` adds that without a
death only the directory of the fetch at work may be over the bound.

**The model calls.**  A call holds a copy of its run's token and of what it reserved, while the broker
may close, renew or charge the capability behind its back.  `CallsInv` says what the copies are still
good for: tokens only grow or are closed, so a stale token never fits again (`TokenKnown`); the
calls in flight never have more reserved than the count charged so far, and the count never exceeds
the quota (`QuotaCounts`); what was posted upstream and what the caller was told follow from the
step it is at (`PostsMade`), also when it retries after a token refresh (`RetryFresh`).

**Pacing** (limits are positive).  Every worker rewrites the whole file from what it has read.
`PaceInv` says that who is to write holds the lock and has read what is in the file; the
counts are compared as the set of turns of a day (`TurnsOf`), whose size a rename of a loop keeps
(`SameCount`: a bijection).  `PaceSpent` says what a failed run has behind it: an end that nobody
retries, or as many unpaced ends as a run may have.

**The observer's feed** (at least one attempt).  A notice may be sent, be queued for a
digest, ride in one whose answer was lost, and be queued again.  That none comes twice hangs on one fact about
the queue, `FeedQueue`: a digest that is out, or may be retried, leads the queue with its
members, so no other digest can take one of them.  With it, what is to be posted has not come
(`FeedPosts`), and what has come is either said to be delivered or rides in a digest that waits (`FeedComes`,
`FeedWaits`).  For the places, `MovedInv`: a command that changes the destination finds nothing open, so
what is open was claimed for the destination that the loop has.

The strengthenings `RowInv`, `StepInv`, `PushInv`, `LeaseInv`, `WritesInv`, `VerdictInv`, `StageInv`, `CleanInv`,
`RoundsInv`, `ChainInv`, `DaysInv`, `RetargetInv`, `PushedInv`, `ClaimsInv`, `QueueInv`, `MoveInv`, `FailingInv`, `TakenInv`, `SwInv`, `GfBounded`,
`OwInv`, `SaidInv`, `RegInv`, `LoneInv`, `RenameInv`, `RestoreInv`, `LateInv`, `InstallInv`, `CrateInv`, `CallsInv`,
`PaceInv`, `FeedInv` and `MovedInv` were checked with TLC as invariants before they were proved.

**Only model-checked.**  Every liveness property (`Settles`, `RulingsArrive`, `WaitingIsServed`,
`HeadsSettle`, `BegunEnds`, `OperatorIsTold`): fairness and ENABLED are beyond the prover.  Every safety
property of a passing run has a theorem.  The disagreements are counterexamples.

## 7. Disagreements between the code and its documentation

One has a run of its own, since it is about the ledger and the rest relies on it:

* `quarantined`: the comment on `MAX_ATTEMPTS` (`run_supervisor.py:161`) says that a run "ever
  quarantined as uncertain, is never re-armed". A run swept as uncertain under a living owner is
  completed by it as retryable, waits and starts again. It has not written, so no harm is done
  (`RowsMatchGitHub` is proved); the comment is stronger than the code.

The others were met while the components were modelled, as counterexamples of the same modules.  They
are listed by the line where they bite; the instances of section 5 exclude the cause of each, and
it can be seen again by switching the constant back on.

* `run_supervisor.py:2217`: the comment says a failed run is re-armed "one attempt per event, up to
  MAX_REARMS failures". Only retryable failures are counted, so a run that fails for another reason
  is re-armed by every event.
* `broker_ipc.py:106`: `policy_hold_reason` says an admitted run "is held only when the
  *current* host policy genuinely refuses it". `push_admitted` also asks for a live run: one swept
  before its launch is reported, and cancelled, as not admitted.
* `run_supervisor.py:2012`: the docstring of `notify` promises "One bounded alert per
  failed/uncertain run". A run is swept as uncertain and its alert is made; its living owner
  completes it as retryable, so the claim finds it `waiting` and resolves the alert; nothing deletes
  that row when the retry is scheduled, and the failure of the retry is never reported.
* `run_supervisor.py:2012`: the same docstring allows a duplicate after a crash only. A sweep sends an alert while
  the run is retried (its row deleted), fails again, and another sweep sends the new alert; the
  refusal of the old message resets the new row, which is then sent again. (Two sweeps and a retry
  within one delivery: harmless, but the row is named by its run alone.)
* `run_supervisor.py:1231`: inflight_clear runs only when release_if freed the run's own claim, and
  gate_fixer frees a reviewer's claim as soon as its verdict lands, before the worker ends; the mark
  then outlives the run by up to inflight_ttl_min. The docstring at run_supervisor.py:1197 says
  "mark its head in flight, for the life of the run (#98)". Hence a mark of a finished run that
  nothing will clear but its age.
* `run_supervisor.py:1232`: release_if and inflight_clear are two locked sections and the mark is
  cleared by seat and head only; the comment at run_supervisor.py:1230 says "A newer run that has
  claimed the same seat/PR/head (a retry, a re-armed turn) keeps both (#98)". Hence a newer run that
  arms its mark between the two and loses it.
* `scripts/gate_fixer.py:222`: The gate frees the reviewer's seat without naming a head, after a
  read that may be old; the docstring at state.py:371 says "a late verdict on an older head must not
  end a newer run on the same PR". Hence a review of a newer head whose claim is freed by the
  verdict of the older one.
* `run_supervisor.py:3233`: The row is set to waiting in one transaction and the marker handed back
  after it; breach_start refuses an adjudicating marker and nothing else resets one, so a worker
  killed in between leaves a retry that fails for good. The docstring at state.py:711 says "Undo
  breach_start for an isolated adjudicator turn that failed before recording any ruling (issue #53),
  so its retry can start it again". Hence the pending retry whose marker nobody will hand back.
* `state.py:432`: queue_replace_if compares the entry with the one the gate observed and drops the
  record whenever they differ, also when the entry that came in between is that of an older head, or
  when a drain has removed the observed one. The docstring at state.py:430 says "Record a failed
  dispatch only if no newer event replaced its queue entry." Hence the failed dispatch of head 2
  dropped because the gate of head 1 recorded its own first; the drain then drops that one as stale.
* `gate.py:245`: block_pr_agent reads the queue entry after the gate has checked the live head, and
  removes whatever it read once its own turn is committed, whichever head that entry names. The
  comment at scripts/watchdog.py:426 says "A queued event is authorization for exactly its observed
  head." Hence the gate of head 1, overtaken by a push, observe the request that the gate of head 2
  had to record, commit the turn of head 1 and remove the request of head 2, whose turn nobody
  commits.
* `scripts/gate_reviewer.py:174`: The gate counts the standing verdicts when the event arrives and
  the worker does not count again, so that a verdict that lands in between is not counted.
  docs/commands.md describes --cap (docs/commands.md:348) as "verdicts allowed before adjudication".
  Hence a third verdict with a cap of 2: an author pushes while the second verdict is being posted,
  and the gate of the new head counts one.
* `scripts/watchdog.py:1427`: settle_health removes the record of the outage and the sweep saves
  that before run prints its lines, so a watchdog killed in between never says it. The docstring at
  scripts/watchdog.py:280 says that blindness is "re-raised every cooldown until reads work, and its
  end is said once". Hence the end of an announced outage that nobody is told.
* `scripts/watchdog.py:1060`: The kicked heads are saved only when the sweep has judged every pull
  request; a sweep whose time budget is spent after a kick forgets it. The comment at
  scripts/watchdog.py:1053 says "deliver that request to the gate once per head". Hence the
  next sweep deliver it again.
* `gate_failures.py:1256`: sweep resolves an entry of the fallback ledger as "handled there" when
  the loop ledger holds the key at all, even as a resolved entry. The comment at
  gate_failures.py:1014 says the delivery "is recorded below as deferred, with its payload, and
  re-driven once the migration ends." Hence an event that had failed and completed, delivered again
  during a migration: its deferred entry is resolved as a duplicate of the resolved one, and nobody
  re-drives or tells it.
* `run_supervisor.py:1019`: write_records reads neither filed_issues nor fixer_answers, so a
  reviewer that filed an issue, or a fixer that saw a partial view and posted its answers, and then
  failed is taken for a run that wrote nothing: the operator is told "No external write was made"
  and the run may be armed again. The comment at run_supervisor.py:1996 says "Nothing reached
  GitHub: the host's write-ahead records for this run are empty." Hence the notice after the write.
* `fix_hold.py:112`: A held hand-off whose maintainer label has been taken off is released as an
  automatic one with the day cap checked but not its lineage depth: an issue deeper than
  AUTO_FIX_MAX_DEPTH that carries an auto-fix label is queued without a person. The comment at
  config.py:1206 says "The deepest filed-issue lineage (#247) still auto-offered: past it a person
  must hand it over."
* `fix_hold.py:138`: The cap is compared with the count of the turns queued so far, and a turn is
  counted only after it has been queued, with no lock over the two: hand-offs that overlap queue
  more than the cap. The docstring at config.py:1249 says "Automatic issue fixes per loop per local
  day: ``triage.auto_fix_daily``, else 25."
* `migrate.py:116`: hold takes the marker and goes on at once: a gate that passed its one look at
  the marker (gate_failures.py:1015) writes its row under the old name after the ledger has been
  moved, where neither the worker nor a later migrate looks for it. The comment at migrate.py:44
  says "While a migration moves records from one name to another, nothing may write under either".
* `migrate.py:131`: hold removes the marker in a finally clause, so a migrate that ends by an
  exception or by Ctrl-C after the ledger move leaves the install half moved and not paused: a gate
  queues the turn again under the old name, and the unique index of the turns then makes every later
  migrate fail. The docstring at cli.py:4112 says "re-running finishes what an interrupted run
  began."
* `cli.py:4085`: After a rename that died between the move of the state directory and the new loop
  file, a second one that is refused (a ping, a run in flight, a hook listing) returns before it
  completes these steps and hold then removes the marker: the loop runs under its old file with an
  empty state directory. The docstring at cli.py:3992 says "In an order a crash or a re-run cannot
  hurt".
* `route_intent.py:273`: heal restores from the intent record it loaded before it takes the registry
  lock, and adopts a live route without one: a route that `uninstall` or `triage off` removes
  meanwhile is written back. The comment at cli.py:5089 says "Forget first: a route the operator
  removed must not be put back by the next watchdog sweep's self-heal (which only ever restores
  routes still in the intent record)."
* `observer.py:589`: _receipt moves the members of a batch to "uncertain" only while they are
  "digesting"; a failed first attempt has put them back to "queued", retry does not take them out,
  so after an uncertain second attempt they wait in the queue behind a digest that flush never
  replaces. The comment at observer.py:586 says "A possibly accepted batch must keep members
  attached, not queue duplicates."
* `cli.py:2709`: cmd_set counts the unsettled claims under the ledger lock, then writes the new
  destination without it; a notice claimed in between, and certainly not posted, is retried to the
  new destination. The docstring at observer.py:275 says "Count claims that could still send to an
  old destination."
* `scripts/gate_fixer.py:139`: The approval path applies effective_reviews but never calls
  transition.record, so before a sweep or another gate has recorded the hold a person's review
  passes as the approval of a pull request the watch saw stacked; scripts/gate_fixer.py:136-137 says
  "After a same-head retarget only a host-receipted post-boundary approval is one". Hence a merge
  cue from a review without a receipt.
* `gate.py:1268`: The gates count the verdicts (`scripts/gate_fixer.py:206` to 237,
  `scripts/gate_reviewer.py:192`) before they call `gate.breach`, whose check under the lock reads head, base,
  draft and author of the live pull request but not the hold. scripts/watchdog.py:703 says "a marker
  at a held head can only come from receipted post-boundary verdicts". Hence a gate that counted before
  the base change was recorded and marks the held head after `transition.record` has cleared it: it is
  escalated by verdicts of the old base (`MarkerAttested` in `Retarget`).
* `transition.py:60`: A process that dies between transition_set and quarantine leaves the hold on
  record, and every later record returns it before the quarantine; transition.py:65-66 says "Old
  in-flight keys and breach markers must not be interpreted as new generation work". Hence a hold
  with the old escalation beside it and nobody about to clear it.
* `state.py:845`: transition_set keeps the prior hold only when its head is the same: a recorder
  that read the pull request before a push replaces the hold of the newer head by that of the older
  one, and the newer head is no longer held. state.py:854 says "only a new ``record`` for a new head
  may replace them". Hence a fix ordered at the live head from a review that no host run wrote.
* `main_check.py:81`: Without required checks a head whose first check has not been created yet
  reads as green, is remembered as the last green head and is never judged again; main_check.py:5-6
  says "A required check red there is one ``main_red`` observer notice per head". Hence main red for
  good and no notice.
* `ci_fix.py:95`: fixer_first and the sweep count the pull request's CI-fix rows and enqueue later,
  without a transaction: each counts before the other's row is there. docs/configuration.md:219 says
  "CI-fix turns per PR (across its heads) before a red head goes to the reviewer, whole number
  1-10". Hence one turn more than ci_fix_cap.
* `findings.py:99`: check() looks only for the findings on record as open: an APPROVE whose body
  says "F1: open" of a finding recorded as fixed is accepted and then recorded as open.
  findings.py:101 says "cannot APPROVE with open finding(s)". Hence an approval with an open
  finding.
* `broker_ipc.py:647`: findings.record is best effort: when it fails the round's findings are not on
  record, and the next review may approve without a line about them. findings.py:10 says "From the
  second round on, the review must give a state to every finding still open". Hence an approval that
  leaves a raised finding unanswered.
* `contained.py:234`: The READY outcome names the path deps/cargo and holds the directory that is
  there; the sandbox binds the path later, and another prefetch may have renamed that directory to
  cargo.retired-* and put a new one at the path. deps.py:30 says "a turn holds a shared lock on the
  cache generation it mounts until its sandbox has exited". Hence a turn that was told its crates
  are available and mounts a directory without them.
* `scripts/cleanup.py:343`: The worktrees with a branch are listed once, before the candidates are
  judged and removed one by one; a branch that is checked out in a detached worktree after that is
  removed with it, since its directory is still the pinned one. scripts/cleanup.py:22 says "a
  worktree with a **branch** checked out is never touched". Hence a branch worktree removed.
* `scripts/cleanup.py:414`: A sweep takes its pull requests from the names of worktrees and of the
  roots' children; one of which only the artifacts directory or the state entries are left is never
  looked at. scripts/cleanup.py:12 says "every PR that is already closed, for the backlog a loop
  accumulated before". Hence a sweep that ends with the artifacts of a closed pull request there.
* `backup.py:126`: The ledger is snapshot first and the state directories are copied after it: a
  queued turn that a drain submits and pops in between is in neither. backup.py:3 says "One gzip
  tarball holds everything this plugin owns". Hence a turn that waits through the whole backup and
  is not in the archive.
* `migrate.py:131`: hold() removes the marker whenever its block ends, also by an exception in the
  middle of the files and when a second restore after a dead one is refused for want of --force.
  docs/commands.md:753 says "It holds `migrate`'s pause marker for its run (gates defer, the
  worker". Hence gates going on with the archive's queue and the live ledger.
* `migrate.py:111`: A dead restore leaves the marker of a migrate, and migrate does not know that it
  was a restore: it finds nothing of its own to do and lifts the pause. migrate.py:112 says "records
  may be half moved — run `migrate` again to finish it". Hence the pause lifted from a half-restored
  install.
* `cli.py:4262`: The runs in flight are counted once; a worker that looked at the marker before the
  restore set it is still reading GitHub and claims its run afterwards. migrate.py:448 says "Moving
  or" and 449 "overwriting host files under such a run could tear its state: migrate and restore
  refuse". Hence the ledger replaced under an active run.
* `cli.py:4199`: A watchdog job that exists is kept as it is, with --force too, and the restore
  exits 0. backup.py:219 says "What a restore would overwrite: files, route entries and the watchdog
  job." Hence the job with the live schedule after the restore.
* `routes.py:477`: The owner of a live route is checked before the files are written, and
  restore_entries later replaces whatever has the name. backup.py:183 says "a live route of" and 184
  "the same name that is not this plugin's is never overwritten, even with --force". Hence it
  overwritten.
* `inference_proxy.py:721`: The headers read for a 429 are those of the endpoint's last answer, and
  every thread of the capability writes them: an answer to another call that arrives in between
  names the time. inference_proxy.py:641 says "Record when a 429'd window reopens — only when the
  provider *says* when". Hence a bare 429 recorded with the reset header of a 200.
* `inference_proxy.py:223`: The quiet time after a resolver that had nothing newer is looked at by
  current() and not by refresh(). inference_proxy.py:207 says "Nothing newer yet: keep the token,
  and do not hammer the resolver." Hence two calls rejected with the same token asking the resolver
  one after the other.
* `inference_proxy.py:802`: The handlers are daemon threads, so server_close() does not wait for
  them, and forward() holds its credential in a local. inference_proxy.py:753 says "Do not retain
  the credential beyond the capability lifetime." Hence a call that posts with the token after the
  capability closed it.
* `run_supervisor.py:2936`: The day's count is looked at when the run starts and counted when its
  turn starts, after GitHub reads and the export; two runs of a seat of capacity 2 both see room for
  one. docs/commands.md:475 says "most reviewer turns per day on this loop; later ones wait for
  midnight (0 removes the cap)". Hence two turns on a day whose cap is one.
* `run_supervisor.py:2929`: The hold is looked at once, before the CI look, the reads and the
  export; a hold that another run records meanwhile is not seen. pacing.py:6 says "and a new turn
  for the" and 7 "same account is not launched into a closed window". Hence a turn launched after
  the hold was recorded.
* `run_supervisor.py:3178`: The time that the provider named is looked at only when the turn's process
  failed. An agent that exits 0 without a write (`trusted_turn.py:724`) and one killed at its budget
  (`trusted_turn.py:699`) leave `run_turn` by an exception (`run_supervisor.py:3185` to 3218): the one
  spends a retry and waits the ordinary delay, or fails the second time, the other fails at once.
  pacing.py:5 says "A turn that ended on it waits until then without spending a retry". Hence a run
  that waits less than the window is closed (`WaitsUntilThen` in `Pacing`).
* `run_supervisor.py:3178`: The hold is recorded only when the turn's process failed: a turn that
  got over the 429 and published, and one killed at its budget, records none. pacing.py:4 says "When
  an upstream answers 429, the host inference proxy reads *when* the window reopens" and 5 "and the
  worker records a hold for that seat's account here". Hence a turn that ended with a time and no
  hold.
* `safe_push.py:758`: push() turns a journal that cannot be written after its attempt into a
  PushFailure; open_branch() and update_branch() let the BrokerDenied or OSError of _audit through,
  and an issue fix is then recorded as denied. safe_push.py:45 says "Once attempt journaling begins,
  even a failed journal or an unchanged ref" and 46 "needs a host hold: the write/verification path
  was entered but did not finish." Hence a branch pushed by a caller that was told denied.
* `safe_push.py:841`: The watchdog's merge reads the policy from the loop it loaded at the start of
  its sweep and takes no push-policy lock. docs/security.md:84 says "The host push-policy lock spans
  the final policy read and ref operation; disabling policy does not return while an
  already-authorized push is still in progress." Hence the policy off and the push on its way.


## 8. Not modelled, and why

* **Reports**: `doctor`, `status`, `stats`, `trace`, `selftest` and `corpus` read everything and
  change nothing.
* **Configuration** (`config.py` but for the policy, its lock, budgets and caps): parsing, defaults
  and bounds of single keys are pure functions of one file.
* **Text**: prompts, notices, wording of a refusal, wire framing.
* **The operating system**: the sandbox (bubblewrap, cgroups, descriptors), authentication of a
  delivery and isolation are configuration, not behaviour that a state machine shows.
* **Trees**: the validation of a push's bundle and the merge of a conflict are computations on data
  whose only outcome here is refused or not.
* **Seat models** (`seat_model.py`, `directsdk_*`): the resolution of a provider, and relays.
* **Schema upgrades** of the ledger, which happen once and under its lock.
* **The order of the parts of one sweep**: each part is modelled against the component it acts on.
