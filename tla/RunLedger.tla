------------------------------ MODULE RunLedger ------------------------------
(***************************************************************************)
(* The run ledger of Diaktoros (diaktoros/run_supervisor.py): one SQLite   *)
(* row per turn (repo, PR, head, seat, turn key), the worker processes     *)
(* that claim rows, launch turns and write to GitHub through the run's     *)
(* broker, the recovery sweep, and the operator commands.  Every action is *)
(* one ledger transaction, or one step a worker takes between two of them. *)
(*                                                                         *)
(* Abstractions.  A run is its identity, so a delivery is a run; what a    *)
(* GitHub read answers is a choice; `lease' is not a variable, because a   *)
(* sweep acts on the leases that have run out and any owner may fail to    *)
(* renew in time (suspended, or its heartbeat cannot reach SQLite);        *)
(* likewise `retry_at'.  `launch_intent' is set by the UPDATE that enters  *)
(* "launching", so every row in launching/running/uncertain has one.       *)
(***************************************************************************)
EXTENDS Integers, FiniteSets

CONSTANTS
  Run,          \* the rows a history may create
  Worker,       \* worker process slots; each process handles one claim
  Repo, Pr,     \* repositories; pull requests (a PR belongs to one repository)
  RepoOf, PrOf, \* [Run -> Repo], [Run -> Pr]
  SeatOf,       \* [Run -> Seat]
  Capacity,     \* [Seat -> Nat \ {0}]: turns of one seat at once, per repository
  MaxAttempts, MaxRetries, MaxRearms,  \* 3, 4, 8 in the code
  Events,       \* which optional events of the outside world the run exercises
  NoWorker, NoRun

Seat == {"reviewer", "fixer"}

OptionalEvents == {"wait", "paced", "redeliver", "retry", "policy", "crash"}

ASSUME LedgerAssumption ==
  /\ RepoOf \in [Run -> Repo] /\ PrOf \in [Run -> Pr] /\ SeatOf \in [Run -> Seat]
  /\ \A q, r \in Run : PrOf[q] = PrOf[r] => RepoOf[q] = RepoOf[r]
  /\ Capacity \in [Seat -> Nat \ {0}]
  /\ MaxAttempts \in Nat \ {0} /\ MaxRetries \in Nat \ {0} /\ MaxRearms \in Nat \ {0}
  /\ Events \subseteq OptionalEvents
  /\ NoWorker \notin Worker /\ NoRun \notin Run

ASSUME RunsFinite == IsFiniteSet(Run)

VARIABLES
  \* the runs table, one function per column, and the row a review or a dispute leaves
  state, error, owner, pid, attempts, retries, admitted, intent, confirmed, receipt,
  \* worker processes: where each is, its run, the result it carries, and those
  \* whose turn was given up while the broker thread was still inside a write
  pc, job, arg, detached,
  \* the host's unattended-push policy per repository, and its file lock
  policy, plock,
  \* GitHub: a write request of a run is under way; writes of a run that took effect
  inflight, landed

ledgerVars == <<state, error, owner, pid, attempts, retries,
                admitted, intent, confirmed, receipt>>
workerVars == <<pc, job, arg, detached>>
policyVars == <<policy, plock>>
githubVars == <<inflight, landed>>
vars == <<ledgerVars, workerVars, policyVars, githubVars>>

-----------------------------------------------------------------------------
Active == {"claimed", "launching", "running", "uncertain"}
Rearmable == {"failed", "cancelled"}
RunState == Active \cup Rearmable \cup {"absent", "pending", "waiting", "succeeded"}

\* The classes of runs.error that code branches on.
PolicyErrors == {"not_admitted", "revoked"}
Quarantines == {"reconciled", "quarantined"}
ErrorClass == PolicyErrors \cup Quarantines \cup {"none", "ineligible", "other"}

\* The run's row in review_receipts, or (disputed) in disputes: a run has one seat.
ReceiptState == {"none", "claimed", "posted", "confirmed", "disputed"}

ReadVerdicts == {"ok", "superseded", "read_error"} \cup ({"wait"} \cap Events)
Verdict == {"ok", "superseded", "read_error", "wait", "unavailable"} \cup PolicyErrors
Result == {"success", "transient", "fatal", "paced"} \cup PolicyErrors

\* Broker steps at which the external write may still be made or answered.
MidWrite == {"posting", "awaiting", "pushing", "pushed_unread", "answering"}
Broker == MidWrite \cup {"turn", "unnamed", "pushed", "spent", "done"}
Label == Broker \cup {"idle", "checked", "stale", "claimed", "launched", "ready", "finish"}

LedgerTypeOK ==
  /\ state \in [Run -> RunState]
  /\ error \in [Run -> ErrorClass]
  /\ owner \in [Run -> Worker \cup {NoWorker}]
  /\ pid \in [Run -> Worker \cup {NoWorker}]
  /\ attempts \in [Run -> Nat] /\ retries \in [Run -> Nat]
  /\ admitted \in [Run -> BOOLEAN] /\ intent \in [Run -> BOOLEAN]
  /\ confirmed \in [Run -> BOOLEAN] /\ receipt \in [Run -> ReceiptState]

WorkerTypeOK ==
  /\ pc \in [Worker -> Label] /\ job \in [Worker -> Run \cup {NoRun}]
  /\ arg \in [Worker -> Verdict \cup Result \cup {"none"}]
  /\ detached \in SUBSET Worker

WorldTypeOK ==
  /\ policy \in [Repo -> BOOLEAN] /\ plock \in Worker \cup {NoWorker}
  /\ inflight \in [Run -> BOOLEAN] /\ landed \in [Run -> Nat]

TypeOK == LedgerTypeOK /\ WorkerTypeOK /\ WorldTypeOK

Init ==
  /\ state = [r \in Run |-> "absent"] /\ error = [r \in Run |-> "none"]
  /\ owner = [r \in Run |-> NoWorker] /\ pid = [r \in Run |-> NoWorker]
  /\ attempts = [r \in Run |-> 0] /\ retries = [r \in Run |-> 0]
  /\ admitted = [r \in Run |-> FALSE] /\ intent = [r \in Run |-> FALSE]
  /\ confirmed = [r \in Run |-> FALSE] /\ receipt = [r \in Run |-> "none"]
  /\ pc = [w \in Worker |-> "idle"] /\ job = [w \in Worker |-> NoRun]
  /\ arg = [w \in Worker |-> "none"] /\ detached = {}
  /\ policy \in [Repo -> BOOLEAN] /\ plock = NoWorker
  /\ inflight = [r \in Run |-> FALSE] /\ landed = [r \in Run |-> 0]

-----------------------------------------------------------------------------
\* The evidence that a run may have written.
\* Mutant: a confirmed push is no longer counted as a record of a write.
WriteRecordsUnresolved(r) == intent[r] \/ receipt[r] # "none"

WriteRecords(r) == intent[r] \/ confirmed[r] \/ receipt[r] # "none"

\* Mutant: a run that was once quarantined counts as one that never wrote.
WriteEvidenceOnRecord(r) == state[r] = "uncertain" \/ WriteRecords(r)

WriteEvidence(r) == state[r] = "uncertain" \/ error[r] \in Quarantines \/ WriteRecords(r)

Fixer(r) == SeatOf[r] = "fixer"
PushOn(r) == policy[RepoOf[r]]

\* A row that keeps every other run of its PR from being claimed.
Occupies(r) == state[r] \in Active \/ intent[r]

\* Mutant: an uncertain run does not keep its pull request.
OccupiedByLive(r) == \E q \in Run : PrOf[q] = PrOf[r] /\ state[q] \in Active \ {"uncertain"}

Occupied(r) == \E q \in Run : PrOf[q] = PrOf[r] /\ Occupies(q)
ActiveOf(repo, seat) ==
  {q \in Run : RepoOf[q] = repo /\ SeatOf[q] = seat /\ state[q] \in Active}

\* Mutant: capacity is not rechecked under the writer lock.
FreeOfPr(r) == ~Occupied(r)

Free(r) ==
  ~Occupied(r) /\ Cardinality(ActiveOf(RepoOf[r], SeatOf[r])) < Capacity[SeatOf[r]]

-----------------------------------------------------------------------------
\* Admission: Supervisor.submit, in one transaction (a fixer's under the policy lock).

\* A run's first event.  The fixer gate asks for admission (`require') and a
\* closed policy then leaves no row; any other caller gets an unadmitted one.
Enqueue(r) ==
  /\ state[r] = "absent"
  /\ Fixer(r) => plock = NoWorker
  /\ \E require \in BOOLEAN : Fixer(r) /\ require => PushOn(r)
  /\ state' = [state EXCEPT ![r] = "pending"]
  /\ admitted' = [admitted EXCEPT ![r] = Fixer(r) /\ PushOn(r)]
  /\ UNCHANGED <<error, owner, pid, attempts, retries, intent, confirmed, receipt>>
  /\ UNCHANGED <<workerVars, policyVars, githubVars>>

\* Supervisor._rearm: pending again; error, admission and history stay.
Rearm(r, reset) ==
  /\ state' = [state EXCEPT ![r] = "pending"]
  /\ owner' = [owner EXCEPT ![r] = NoWorker]
  /\ pid' = [pid EXCEPT ![r] = NoWorker]
  /\ attempts' = [attempts EXCEPT ![r] = 0]
  /\ retries' = [retries EXCEPT ![r] = IF reset THEN 0 ELSE @]

\* Mutant: one re-arm too many.
RedeliverAtLimit(r) ==
  /\ "redeliver" \in Events
  /\ Fixer(r) => plock = NoWorker
  /\ state[r] \in Rearmable
  /\ ~WriteEvidence(r)
  /\ retries[r] <= MaxRearms
  /\ Rearm(r, FALSE)
  /\ UNCHANGED <<error, admitted, intent, confirmed, receipt>>
  /\ UNCHANGED <<workerVars, policyVars, githubVars>>

\* Mutant: the evidence of a write is not looked up.
RedeliverAnyway(r) ==
  /\ "redeliver" \in Events
  /\ Fixer(r) => plock = NoWorker
  /\ state[r] \in Rearmable
  /\ ~(error[r] = "not_admitted" /\ ~admitted[r])
  /\ retries[r] < MaxRearms
  /\ Rearm(r, FALSE)
  /\ UNCHANGED <<error, admitted, intent, confirmed, receipt>>
  /\ UNCHANGED <<workerVars, policyVars, githubVars>>

\* A later event for a run that failed or was cancelled before any write.
Redeliver(r) ==
  /\ "redeliver" \in Events
  /\ Fixer(r) => plock = NoWorker
  /\ state[r] \in Rearmable
  /\ ~WriteEvidence(r)
  /\ ~(error[r] = "not_admitted" /\ ~admitted[r])
  /\ retries[r] < MaxRearms
  /\ Rearm(r, FALSE)
  /\ UNCHANGED <<error, admitted, intent, confirmed, receipt>>
  /\ UNCHANGED <<workerVars, policyVars, githubVars>>

\* Supervisor.retry: the operator re-arms a run that never wrote; a fixer run
\* is admitted afresh under the policy in force now.
Retry(r) ==
  /\ "retry" \in Events
  /\ Fixer(r) => plock = NoWorker
  /\ ~WriteEvidence(r)
  /\ state[r] \in Rearmable \cup {"waiting"}
  /\ state[r] = "cancelled" => error[r] \in PolicyErrors
  /\ Fixer(r) => PushOn(r)
  /\ admitted' = [admitted EXCEPT ![r] = @ \/ Fixer(r)]
  /\ Rearm(r, TRUE)
  /\ UNCHANGED <<error, intent, confirmed, receipt>>
  /\ UNCHANGED <<workerVars, policyVars, githubVars>>

\* Mutant: the toggle does not take the policy lock.
SetPolicyUnlocked(repo, on) ==
  /\ "policy" \in Events
  /\ policy[repo] # on
  /\ on => ActiveOf(repo, "fixer") = {}
  /\ policy' = [policy EXCEPT ![repo] = on]
  /\ UNCHANGED <<plock, ledgerVars, workerVars, githubVars>>

\* `fixer-push --enable/--disable', under the policy lock; enabling is refused
\* while a fixer run of the repository is active.
SetPolicy(repo, on) ==
  /\ "policy" \in Events
  /\ plock = NoWorker
  /\ policy[repo] # on
  /\ on => ActiveOf(repo, "fixer") = {}
  /\ policy' = [policy EXCEPT ![repo] = on]
  /\ UNCHANGED <<plock, ledgerVars, workerVars, githubVars>>

-----------------------------------------------------------------------------

\* Mutant: a claim whose worker died before launching is never swept.
RecoverLaunched ==
  \E E \in SUBSET {r \in Run : state[r] \in {"launching", "running"}},
     D \in SUBSET {r \in Run : state[r] = "waiting"} :
       /\ E \cup D # {}
       /\ state' = [r \in Run |-> IF r \in E THEN "uncertain"
                                  ELSE IF r \in D THEN "pending" ELSE state[r]]
       /\ error' = [r \in Run |-> IF r \in E
                                  THEN IF intent[r] THEN "quarantined" ELSE "other" ELSE error[r]]
       /\ owner' = [r \in Run |-> IF r \in D THEN NoWorker ELSE owner[r]]
       /\ attempts' = [r \in Run |-> IF r \in D THEN 0 ELSE attempts[r]]
       /\ UNCHANGED <<pid, retries, admitted, intent, confirmed, receipt>>
       /\ UNCHANGED <<workerVars, policyVars, githubVars>>

\* The sweep (Supervisor.recover: the watchdog's, and every worker's last act), one
\* transaction over the leases that ran out, E, and the waiting rows that are due, D.
Recover ==
  \E E \in SUBSET {r \in Run : state[r] \in {"claimed", "launching", "running"}},
     D \in SUBSET {r \in Run : state[r] = "waiting"} :
    LET lost     == {r \in E : state[r] # "claimed"}
        requeued == D \cup {r \in E \ lost : attempts[r] < MaxAttempts}
        spent    == (E \ lost) \ requeued
    IN /\ E \cup D # {}
       /\ state' = [r \in Run |-> IF r \in lost THEN "uncertain"
                                  ELSE IF r \in requeued THEN "pending"
                                  ELSE IF r \in spent THEN "failed" ELSE state[r]]
       /\ error' = [r \in Run |-> IF r \in lost
                                  THEN IF intent[r] THEN "quarantined" ELSE "other"
                                  ELSE IF r \in spent THEN "other" ELSE error[r]]
       /\ owner' = [r \in Run |-> IF r \in requeued \cup spent THEN NoWorker ELSE owner[r]]
       /\ attempts' = [r \in Run |-> IF r \in D THEN 0 ELSE attempts[r]]
       /\ UNCHANGED <<pid, retries, admitted, intent, confirmed, receipt>>
       /\ UNCHANGED <<workerVars, policyVars, githubVars>>

\* Mutant: the recorded PID is not probed.
ReconcileUnprobed(r) ==
  /\ state[r] = "uncertain"
  /\ ~inflight[r]
  /\ state' = [state EXCEPT ![r] = "failed"]
  /\ error' = [error EXCEPT ![r] = "reconciled"]
  /\ intent' = [intent EXCEPT ![r] = FALSE]
  /\ UNCHANGED <<owner, pid, attempts, retries, admitted, confirmed, receipt>>
  /\ UNCHANGED <<workerVars, policyVars, githubVars>>

\* Supervisor.reconcile_uncertain: refused while the recorded PID lives.  The operator
\* acknowledges having inspected the writes, so none is still on its way (~inflight).
Reconcile(r) ==
  /\ state[r] = "uncertain"
  /\ pid[r] = NoWorker
  /\ ~inflight[r]
  /\ state' = [state EXCEPT ![r] = "failed"]
  /\ error' = [error EXCEPT ![r] = "reconciled"]
  /\ intent' = [intent EXCEPT ![r] = FALSE]
  /\ UNCHANGED <<owner, pid, attempts, retries, admitted, confirmed, receipt>>
  /\ UNCHANGED <<workerVars, policyVars, githubVars>>

-----------------------------------------------------------------------------
\* A worker process: _run_one, _claim, _run_production.

Goto(w, label) == pc' = [pc EXCEPT ![w] = label] /\ UNCHANGED <<job, arg, detached>>

Finish(w, result) ==
  /\ pc' = [pc EXCEPT ![w] = "finish"]
  /\ arg' = [arg EXCEPT ![w] = result]
  /\ UNCHANGED <<job, detached>>

\* The process is gone: its PID names nobody and its file locks are free.
Leave(w) ==
  /\ pc' = [pc EXCEPT ![w] = "idle"]
  /\ job' = [job EXCEPT ![w] = NoRun]
  /\ arg' = [arg EXCEPT ![w] = "none"]
  /\ detached' = detached \ {w}
  /\ pid' = [r \in Run |-> IF pid[r] = w THEN NoWorker ELSE pid[r]]
  /\ plock' = IF plock = w THEN NoWorker ELSE plock
  /\ UNCHANGED policy

\* _claim snapshots a pending row and reads GitHub, without the writer lock. A fixer is refused
\* only by a configuration that can be read; until then an escalation may have retired it.
ClaimRead(w, r) ==
  /\ pc[w] = "idle"
  /\ state[r] = "pending"
  /\ \E verdict \in IF ~Fixer(r) THEN ReadVerdicts \cup {"unavailable"}
                    ELSE IF ~admitted[r] THEN {"not_admitted", "superseded", "read_error"}
                    ELSE IF ~PushOn(r) THEN {"revoked", "superseded", "read_error"} ELSE ReadVerdicts :
       arg' = [arg EXCEPT ![w] = verdict]
  /\ pc' = [pc EXCEPT ![w] = "checked"]
  /\ job' = [job EXCEPT ![w] = r]
  /\ UNCHANGED <<detached, ledgerVars, policyVars, githubVars>>

\* A claim transaction that writes its row makes every other snapshot of it stale
\* (the row comparison); the writer goes to `label'.
ClaimWrite(w, label) ==
  /\ pc' = [v \in Worker |-> IF v = w THEN label
                             ELSE IF pc[v] = "checked" /\ job[v] = job[w] THEN "stale"
                             ELSE pc[v]]
  /\ job' = [job EXCEPT ![w] = IF label = "idle" THEN NoRun ELSE @]
  /\ arg' = [arg EXCEPT ![w] = "none"]
  /\ UNCHANGED <<detached, policyVars, githubVars>>
  /\ UNCHANGED <<pid, admitted, intent, confirmed, receipt>>

\* The row changed under the read, or its turn cannot start now: it stays pending.
ClaimSkip(w) ==
  /\ \/ pc[w] = "stale"
     \/ pc[w] = "checked" /\ arg[w] \notin PolicyErrors /\ ~Free(job[w])
     \/ pc[w] = "checked" /\ arg[w] = "wait"
  /\ pc' = [pc EXCEPT ![w] = "idle"]
  /\ job' = [job EXCEPT ![w] = NoRun]
  /\ arg' = [arg EXCEPT ![w] = "none"]
  /\ UNCHANGED <<detached, ledgerVars, policyVars, githubVars>>

\* A fixer the policy refuses is cancelled at once: not a question of occupancy.
ClaimRefuse(w) ==
  /\ pc[w] = "checked" /\ arg[w] \in PolicyErrors
  /\ state' = [state EXCEPT ![job[w]] = "cancelled"]
  /\ error' = [error EXCEPT ![job[w]] = arg[w]]
  /\ ClaimWrite(w, "idle")
  /\ UNCHANGED <<owner, attempts, retries>>

\* Mutant: the verdict itself is stored as the run's error.
ClaimRetireRaw(w) ==
  /\ pc[w] = "checked" /\ arg[w] = "superseded" /\ Free(job[w])
  /\ state' = [state EXCEPT ![job[w]] = "cancelled"]
  /\ error' = [error EXCEPT ![job[w]] = arg[w]]
  /\ ClaimWrite(w, "idle")
  /\ UNCHANGED <<owner, attempts, retries>>

\* The PR closed, its head moved, it was reviewed or escalated: the turn is retired.
ClaimRetire(w) ==
  /\ pc[w] = "checked" /\ arg[w] = "superseded" /\ Free(job[w])
  /\ state' = [state EXCEPT ![job[w]] = "cancelled"]
  /\ error' = [error EXCEPT ![job[w]] = "other"]
  /\ ClaimWrite(w, "idle")
  /\ UNCHANGED <<owner, attempts, retries>>

\* Mutant: a failed read waits without being counted.
ClaimBackoffUncounted(w) ==
  /\ pc[w] = "checked" /\ arg[w] = "read_error" /\ Free(job[w])
  /\ state' = [state EXCEPT ![job[w]] = "waiting"]
  /\ error' = [error EXCEPT ![job[w]] = "other"]
  /\ ClaimWrite(w, "idle")
  /\ UNCHANGED <<owner, attempts, retries>>

\* A read that failed is counted, backs off, and in the end fails the run.
ClaimBackoff(w) ==
  /\ pc[w] = "checked" /\ arg[w] = "read_error" /\ Free(job[w])
  /\ LET r == job[w] IN
       /\ retries' = [retries EXCEPT ![r] = @ + 1]
       /\ state' = [state EXCEPT ![r] = IF retries[r] + 1 < MaxRetries
                                        THEN "waiting" ELSE "failed"]
       /\ error' = [error EXCEPT ![r] = "other"]
  /\ ClaimWrite(w, "idle")
  /\ UNCHANGED <<owner, attempts>>

ClaimFail(w) ==
  /\ pc[w] = "checked" /\ arg[w] = "unavailable" /\ Free(job[w])
  /\ state' = [state EXCEPT ![job[w]] = "failed"]
  /\ error' = [error EXCEPT ![job[w]] = "other"]
  /\ attempts' = [attempts EXCEPT ![job[w]] = @ + 1]
  /\ ClaimWrite(w, "idle")
  /\ UNCHANGED <<owner, retries>>

Claim(w) ==
  /\ pc[w] = "checked" /\ arg[w] = "ok" /\ Free(job[w])
  /\ state' = [state EXCEPT ![job[w]] = "claimed"]
  /\ owner' = [owner EXCEPT ![job[w]] = w]
  /\ attempts' = [attempts EXCEPT ![job[w]] = @ + 1]
  /\ ClaimWrite(w, "claimed")
  /\ UNCHANGED <<error, retries>>

\* The launch intent.  Nothing is written when the claim was swept meanwhile, and
\* the worker goes on either way.
Launch(w) ==
  /\ pc[w] = "claimed"
  /\ state' = IF owner[job[w]] = w /\ state[job[w]] = "claimed"
              THEN [state EXCEPT ![job[w]] = "launching"] ELSE state
  /\ Goto(w, "launched")
  /\ UNCHANGED <<error, owner, pid, attempts, retries, admitted, intent, confirmed, receipt>>
  /\ UNCHANGED <<policyVars, githubVars>>

\* _run_production: the ownership check, `running' (only from `launching'), and the
\* policy read that holds a fixer turn which could not publish.
Enter(w) ==
  /\ pc[w] = "launched"
  /\ LET r == job[w]
         own == owner[r] = w
         move == own /\ state[r] = "launching"
     IN /\ state' = IF move THEN [state EXCEPT ![r] = "running"] ELSE state
        /\ pid' = IF move THEN [pid EXCEPT ![r] = w] ELSE pid
        /\ \/ ~own /\ Finish(w, "fatal")
           \/ own /\ Fixer(r) /\ ~admitted[r] /\ Finish(w, "not_admitted")
           \/ own /\ Fixer(r) /\ admitted[r] /\ ~PushOn(r) /\ Finish(w, "revoked")
           \/ own /\ (Fixer(r) => admitted[r] /\ PushOn(r)) /\ Goto(w, "ready")
  /\ UNCHANGED <<error, owner, attempts, retries, admitted, intent, confirmed, receipt>>
  /\ UNCHANGED <<policyVars, githubVars>>

\* The turn is not started: a pacing or CI hold, a retryable or a final error.
Hold(w) ==
  /\ pc[w] = "ready"
  /\ \E result \in {"transient", "fatal"} \cup ({"paced"} \cap Events) : Finish(w, result)
  /\ UNCHANGED <<ledgerVars, policyVars, githubVars>>

\* policy_hold_reason just before launch.  push_admitted also asks for a live run, so a
\* run that was swept meanwhile is held as `not admitted', whatever its admission.
PolicyHold(w) ==
  /\ pc[w] = "ready" /\ Fixer(job[w])
  /\ LET r == job[w]
         live == state[r] \in {"launching", "running"}
     IN \/ ~PushOn(r) /\ Finish(w, "revoked")
        \/ PushOn(r) /\ ~(live /\ admitted[r]) /\ Finish(w, "not_admitted")
  /\ UNCHANGED <<ledgerVars, policyVars, githubVars>>

\* record_view, the last ownership check before the turn, and the sandbox.
StartTurn(w) ==
  /\ pc[w] = "ready"
  /\ IF owner[job[w]] = w /\ state[job[w]] \in {"launching", "running"}
     THEN Goto(w, "turn") ELSE Finish(w, "fatal")
  /\ UNCHANGED <<ledgerVars, policyVars, githubVars>>

-----------------------------------------------------------------------------
\* The run's broker, a thread of the worker that serves the turn's sandbox.  Its
\* write capability is spent once: no label leads back to "turn".

\* A request refused for good before any write (authorization, generation, policy).
Refused(w) ==
  /\ pc[w] = "turn"
  /\ Goto(w, "spent")
  /\ UNCHANGED <<ledgerVars, policyVars, githubVars>>

\* A clean head on a path reserved to people: the turn is done without a write.
HeldForPerson(w) ==
  /\ pc[w] = "turn" /\ ~Fixer(job[w])
  /\ Goto(w, "done")
  /\ UNCHANGED <<ledgerVars, policyVars, githubVars>>

\* A fixer that pushes nothing publishes its answers in a comment; when it disputes every
\* finding, record_dispute comes first.  (The comment's own row is in fixer_answers.)
AnswersOnly(w) ==
  /\ pc[w] = "turn" /\ Fixer(job[w])
  /\ PushOn(job[w]) /\ admitted[job[w]] /\ state[job[w]] \in {"launching", "running"}
  /\ receipt' \in {receipt, [receipt EXCEPT ![job[w]] = "disputed"]}
  /\ Goto(w, "answering")
  /\ UNCHANGED <<state, error, owner, pid, attempts, retries, admitted, intent, confirmed>>
  /\ UNCHANGED <<policyVars, githubVars>>

\* The comment is out, or may be; or it was denied or could not be recorded.
Answered(w) ==
  /\ pc[w] = "answering"
  /\ \E label \in {"done", "spent"} : Goto(w, label)
  /\ UNCHANGED <<ledgerVars, policyVars, githubVars>>

SetReceipt(r, value) ==
  /\ receipt' = [receipt EXCEPT ![r] = value]
  /\ UNCHANGED <<owner, pid, attempts, retries, admitted, intent, confirmed>>

\* ReceiptLedger.claim, the durable point before the POST: the run must be running
\* (whoever owns it) and have no receipt yet (the table's primary key).
ReviewClaim(w) ==
  /\ pc[w] = "turn" /\ ~Fixer(job[w])
  /\ state[job[w]] = "running" /\ receipt[job[w]] = "none"
  /\ SetReceipt(job[w], "claimed")
  /\ Goto(w, "posting")
  /\ UNCHANGED <<state, error, policyVars, githubVars>>

\* Mutant: a POST without an answer is sent again.
ReviewPostRetried(w) ==
  /\ pc[w] \in {"posting", "awaiting"}
  /\ inflight' = [inflight EXCEPT ![job[w]] = TRUE]
  /\ Goto(w, "awaiting")
  /\ UNCHANGED <<landed, ledgerVars, policyVars>>

ReviewPost(w) ==
  /\ pc[w] = "posting"
  /\ inflight' = [inflight EXCEPT ![job[w]] = TRUE]
  /\ Goto(w, "awaiting")
  /\ UNCHANGED <<landed, ledgerVars, policyVars>>

\* The POST's answer and its readback name the exact review.
ReviewConfirm(w) ==
  /\ pc[w] = "awaiting" /\ landed[job[w]] > 0
  /\ SetReceipt(job[w], "confirmed")
  /\ Goto(w, "done")
  /\ UNCHANGED <<state, error, policyVars, githubVars>>

\* The review exists, but its PR was closed, drafted or retargeted under it.
ReviewPosted(w) ==
  /\ pc[w] = "awaiting" /\ landed[job[w]] > 0
  /\ SetReceipt(job[w], "posted")
  /\ Goto(w, "unnamed")
  /\ UNCHANGED <<state, error, policyVars, githubVars>>

\* record_review_ineligible asks only for the posted receipt; its own failure is refused.
RecordIneligible(w) ==
  /\ pc[w] = "unnamed"
  /\ error' \in {error, [error EXCEPT ![job[w]] = "ineligible"]}
  /\ Goto(w, "spent")
  /\ UNCHANGED <<state, owner, pid, attempts, retries, admitted, intent, confirmed, receipt>>
  /\ UNCHANGED <<policyVars, githubVars>>

\* Mutant: a POST that failed takes its receipt back.
ReviewLostForgotten(w) ==
  /\ pc[w] \in {"posting", "awaiting"}
  /\ SetReceipt(job[w], "none")
  /\ Goto(w, "spent")
  /\ UNCHANGED <<state, error, policyVars, githubVars>>

\* No POST acknowledgement, a readback or generation that does not match, or a
\* confirmation that fails: the receipt stays claimed.
ReviewLost(w) ==
  /\ pc[w] \in {"posting", "awaiting"}
  /\ Goto(w, "spent")
  /\ UNCHANGED <<ledgerVars, policyVars, githubVars>>

\* Under the policy lock: the last policy read, push_admitted, and begin_push's intent.
BeginPush(w) ==
  /\ pc[w] = "turn" /\ Fixer(job[w])
  /\ plock = NoWorker
  /\ LET r == job[w] IN
       /\ PushOn(r) /\ admitted[r]
       /\ state[r] \in {"launching", "running"}
       /\ ~intent[r] /\ ~confirmed[r]
       /\ intent' = [intent EXCEPT ![r] = TRUE]
  /\ plock' = w
  /\ Goto(w, "pushing")
  /\ UNCHANGED <<state, error, owner, pid, attempts, retries, admitted, confirmed, receipt>>
  /\ UNCHANGED <<policy, githubVars>>

Unlock(w) == plock' = IF plock = w THEN NoWorker ELSE plock

\* safe_push refuses before its attempt: the intent stays, an operator settles it.
PushDenied(w) ==
  /\ pc[w] = "pushing"
  /\ Unlock(w)
  /\ Goto(w, "spent")
  /\ UNCHANGED <<policy, ledgerVars, githubVars>>

PushSend(w) ==
  /\ pc[w] = "pushing"
  /\ inflight' = [inflight EXCEPT ![job[w]] = TRUE]
  /\ Goto(w, "pushed_unread")
  /\ UNCHANGED <<landed, ledgerVars, policyVars>>

\* The ref and the PR read back as pushed, and confirm_push still finds the run live.
PushConfirm(w) ==
  /\ pc[w] = "pushed_unread" /\ landed[job[w]] > 0
  /\ LET r == job[w] IN
       /\ state[r] \in {"launching", "running"} /\ intent[r] /\ ~confirmed[r]
       /\ intent' = [intent EXCEPT ![r] = FALSE]
       /\ confirmed' = [confirmed EXCEPT ![r] = TRUE]
  /\ Unlock(w)
  /\ Goto(w, "pushed")
  /\ UNCHANGED <<state, error, owner, pid, attempts, retries, admitted, receipt>>
  /\ UNCHANGED <<policy, githubVars>>

\* An unknown outcome, or a confirmation that fails: quarantine_push, unless that
\* write fails too (the intent then holds the PR).
PushQuarantine(w) ==
  /\ pc[w] \in {"pushing", "pushed_unread"}
  /\ \/ /\ state[job[w]] \in {"launching", "running", "uncertain"}
        /\ state' = [state EXCEPT ![job[w]] = "uncertain"]
        /\ error' = [error EXCEPT ![job[w]] = "quarantined"]
     \/ UNCHANGED <<state, error>>
  /\ Unlock(w)
  /\ Goto(w, "spent")
  /\ UNCHANGED <<owner, pid, attempts, retries, admitted, intent, confirmed, receipt>>
  /\ UNCHANGED <<policy, githubVars>>

\* The review request that follows a confirmed push.
RequestReview(w) ==
  /\ pc[w] = "pushed"
  /\ pc' \in {[pc EXCEPT ![w] = "done"], [pc EXCEPT ![w] = "spent"]}
  /\ UNCHANGED <<job, arg, detached, ledgerVars, policyVars, githubVars>>

\* GitHub: a request on its way takes effect, or is lost.
Land(r) ==
  /\ inflight[r]
  /\ landed' = [landed EXCEPT ![r] = @ + 1]
  /\ inflight' = [inflight EXCEPT ![r] = FALSE]
  /\ UNCHANGED <<ledgerVars, workerVars, policyVars>>

Lose(r) ==
  /\ inflight[r]
  /\ inflight' = [inflight EXCEPT ![r] = FALSE]
  /\ UNCHANGED <<landed, ledgerVars, workerVars, policyVars>>

-----------------------------------------------------------------------------
\* The end of a turn: run_turn's verdict, then Supervisor.complete_uncertain.
\* Mutant: exit status 0 is success, whatever the broker completed.
EndTurnByStatus(w) ==
  /\ pc[w] \in {"turn", "pushed", "spent", "done"} /\ w \notin detached
  /\ \E result \in Result \ PolicyErrors : Finish(w, result)
  /\ UNCHANGED <<ledgerVars, policyVars, githubVars>>

\* The broker drained.  Success needs a completed write; a non-zero exit (or an agent
\* that never called the broker) may be retried; a 429 waits for the usage window.
EndTurn(w) ==
  /\ pc[w] \in {"turn", "pushed", "spent", "done"} /\ w \notin detached
  /\ \E result \in {"transient", "fatal"} \cup ({"paced"} \cap Events)
                   \cup (IF pc[w] = "done" THEN {"success"} ELSE {}) : Finish(w, result)
  /\ UNCHANGED <<ledgerVars, policyVars, githubVars>>

\* What complete_uncertain writes for the run r of its owner.
Outcome(r, result, stopped) ==
  LET ambiguous == receipt[r] = "claimed"
      postWrite == intent[r] \/ (state[r] = "uncertain" /\ error[r] = "quarantined")
      again     == retries[r] + 1
      To(s, e, n) == [state |-> s, error |-> e, retries |-> n]
  IN IF ~stopped \/ ambiguous \/ postWrite
     THEN To("uncertain", IF postWrite THEN "quarantined" ELSE "other", retries[r])
     ELSE IF error[r] = "ineligible" THEN To("failed", "ineligible", retries[r])
     ELSE CASE result = "success" -> To("succeeded", "none", retries[r])
            [] result \in PolicyErrors -> To("cancelled", result, retries[r])
            [] result = "paced" /\ ~WriteRecords(r) -> To("waiting", "other", retries[r])
            [] result = "transient" /\ ~WriteRecords(r) ->
                 To(IF again < MaxRetries THEN "waiting" ELSE "failed", "other", again)
            [] OTHER -> To("failed", "other", retries[r])

\* It writes only a live or uncertain row this worker still owns.
Record(w, result, stopped) ==
  LET r == job[w]
      o == Outcome(r, result, stopped)
  IN IF owner[r] = w /\ state[r] \in {"launching", "running", "uncertain"}
     THEN /\ state' = [state EXCEPT ![r] = o.state]
          /\ error' = [error EXCEPT ![r] = o.error]
          /\ retries' = [retries EXCEPT ![r] = o.retries]
     ELSE UNCHANGED <<state, error, retries>>

Complete(w) ==
  /\ pc[w] = "finish"
  /\ Record(w, arg[w], TRUE)
  /\ Leave(w)
  /\ UNCHANGED <<owner, attempts, admitted, intent, confirmed, receipt, githubVars>>

\* Mutant: a broker that did not shut down ends the run like any other failure.
EndUnstoppedFailed(w) ==
  /\ pc[w] \in Broker \ {"spent", "done"} /\ w \notin detached
  /\ Record(w, "fatal", TRUE)
  /\ detached' = detached \cup {w}
  /\ UNCHANGED <<pc, job, arg, policyVars, githubVars>>
  /\ UNCHANGED <<owner, pid, attempts, admitted, intent, confirmed, receipt>>

\* The broker did not shut down: its thread may still write, so the run is held.  The
\* process lives on until it exits, which ends the thread wherever it is.
EndUnstopped(w) ==
  /\ pc[w] \in Broker \ {"spent", "done"} /\ w \notin detached
  /\ Record(w, "fatal", FALSE)
  /\ detached' = detached \cup {w}
  /\ UNCHANGED <<pc, job, arg, policyVars, githubVars>>
  /\ UNCHANGED <<owner, pid, attempts, admitted, intent, confirmed, receipt>>

Exit(w) ==
  /\ w \in detached
  /\ Leave(w)
  /\ UNCHANGED <<state, error, owner, attempts, retries, admitted, intent, confirmed, receipt>>
  /\ UNCHANGED githubVars

\* The worker dies (kill, reboot) between any two steps.
Crash(w) ==
  /\ "crash" \in Events
  /\ pc[w] # "idle"
  /\ Leave(w)
  /\ UNCHANGED <<state, error, owner, attempts, retries, admitted, intent, confirmed, receipt>>
  /\ UNCHANGED githubVars

-----------------------------------------------------------------------------
ClaimCommit(w) ==
  \/ ClaimSkip(w) \/ ClaimRefuse(w) \/ ClaimRetire(w)
  \/ ClaimBackoff(w) \/ ClaimFail(w) \/ Claim(w)

BrokerStep(w) ==
  \/ Refused(w) \/ HeldForPerson(w) \/ AnswersOnly(w) \/ Answered(w)
  \/ ReviewClaim(w) \/ ReviewPost(w) \/ ReviewConfirm(w) \/ ReviewPosted(w)
  \/ RecordIneligible(w) \/ ReviewLost(w)
  \/ BeginPush(w) \/ PushDenied(w) \/ PushSend(w) \/ PushConfirm(w)
  \/ PushQuarantine(w) \/ RequestReview(w)

\* What a worker process does once it has read a candidate row.
WorkerStep(w) ==
  \/ ClaimCommit(w) \/ Launch(w) \/ Enter(w) \/ Hold(w)
  \/ PolicyHold(w) \/ StartTurn(w)
  \/ BrokerStep(w) \/ EndTurn(w) \/ Complete(w) \/ EndUnstopped(w) \/ Exit(w)

GateStep(r) == Enqueue(r) \/ Redeliver(r)
OperatorStep == (\E r \in Run : Retry(r) \/ Reconcile(r))
                \/ (\E repo \in Repo, on \in BOOLEAN : SetPolicy(repo, on))

Next ==
  \/ \E r \in Run : GateStep(r) \/ Land(r) \/ Lose(r)
  \/ OperatorStep
  \/ Recover
  \/ \E w \in Worker : WorkerStep(w) \/ Crash(w) \/ \E r \in Run : ClaimRead(w, r)

Spec == Init /\ [][Next]_vars

-----------------------------------------------------------------------------
\* Safety.

\* One run of a pull request at a time, an uncertain run and an unresolved push intent
\* included: the occupancy check of _claim against sweeps, completions and re-arms that
\* interleave with the GitHub read before it.
OnePerPR ==
  \A q, r \in Run : q # r /\ PrOf[q] = PrOf[r] => ~(Occupies(q) /\ Occupies(r))

\* A seat never has more claimed or live runs in a repository than its capacity,
\* whichever worker processes race for them (the recheck under the writer lock).
WithinCapacity ==
  \A repo \in Repo, seat \in Seat : Cardinality(ActiveOf(repo, seat)) <= Capacity[seat]

\* Two turns never work on one pull request: not a swept worker that is still alive
\* beside the run that replaced it, nor a broker thread its turn has given up on.
LoneTurn ==
  \A v, w \in Worker :
    v # w /\ pc[v] \in Broker /\ pc[w] \in Broker => PrOf[job[v]] # PrOf[job[w]]

\* A run whose external write may still be made or take effect keeps its pull request,
\* through expired leases, a lost worker and an operator's reconciliation.
WriterHoldsPR ==
  \A r \in Run : inflight[r] \/ (\E w \in Worker : job[w] = r /\ pc[w] \in MidWrite)
                   => state[r] \in {"running", "uncertain"}

\* A run writes to GitHub at most once, over all its claims, retries and re-arms.
WrittenOnce == \A r \in Run : landed[r] + (IF inflight[r] THEN 1 ELSE 0) <= 1

\* A run that a worker may still launch (again) has never begun a write: completion,
\* sweep and re-arm let a run back only from before any write.
SchedulableIsPristine ==
  \A r \in Run : state[r] \in {"pending", "waiting", "claimed", "launching"} =>
    ~WriteRecords(r) /\ ~inflight[r] /\ landed[r] = 0

\* Write-ahead: a write that may have happened is on record in the ledger, or an
\* operator has settled it; no crash or lost answer leaves an unrecorded write.
WriteAhead ==
  \A r \in Run : inflight[r] \/ landed[r] > 0 => WriteRecords(r) \/ error[r] = "reconciled"

\* A run reported as succeeded has no doubtful write left, and GitHub holds exactly the
\* push or review that the ledger confirms (none, when the verdict was held for a person
\* or the fixer only answered).
SucceededIsClean ==
  \A r \in Run : state[r] = "succeeded" =>
    /\ ~intent[r] /\ ~inflight[r] /\ receipt[r] \notin {"claimed", "posted"}
    /\ landed[r] = (IF confirmed[r] \/ receipt[r] = "confirmed" THEN 1 ELSE 0)

\* The ledger and GitHub agree at both ends of a run: before any launch nothing of it is
\* there, and after its success nothing of it is in doubt.
RowsMatchGitHub == SchedulableIsPristine /\ SucceededIsClean

\* "Disable cannot return while an authorized push is still in progress": from the last
\* policy read to the end of the push, the run is admitted and its policy stays on.
DisableWaits ==
  \A w \in Worker : pc[w] \in {"pushing", "pushed_unread"} =>
    plock = w /\ PushOn(job[w]) /\ admitted[job[w]]

\* Claims and failed attempts are bounded between operator retries.
Bounded ==
  \A r \in Run : /\ attempts[r] <= MaxAttempts
                 /\ retries[r] <= IF MaxRetries > MaxRearms THEN MaxRetries ELSE MaxRearms

\* What an operator reconciled is over: no event, retry, sweep, late completion or late
\* broker record revives or relabels the run.
ReconciledFinal ==
  [][\A r \in Run : error[r] = "reconciled" =>
       state'[r] = state[r] /\ error'[r] = "reconciled"]_vars

-----------------------------------------------------------------------------
\* Refinement.

LifeOf(r) ==
  CASE state[r] \in {"pending", "waiting"} -> "queued"
    [] state[r] \in {"claimed", "launching", "running"} -> "working"
    [] state[r] = "uncertain" -> "held"
    [] state[r] = "failed" /\ error[r] = "reconciled" -> "settled"
    [] OTHER -> state[r]

Promise == INSTANCE TurnPromise
  WITH life <- [r \in Run |-> LifeOf(r)], wrote <- {r \in Run : landed[r] > 0}

\* The ledger, its workers and its broker keep the promise of TurnPromise: one turn of a
\* pull request at a time, one write, nothing started again after it wrote, final ends.
KeepsPromise == Promise!Spec

-----------------------------------------------------------------------------
\* Liveness.  Workers run to completion, every pending row is read by some worker (each
\* sweep spawns one, and it walks all the candidates), not every worker that reads a row
\* dies before its transaction, and the watchdog keeps sweeping: a dead owner's lease
\* runs out, a backoff elapses.

Orphaned(r) ==
  /\ state[r] \in {"claimed", "launching", "running"}
  /\ ~\E w \in Worker : job[w] = r /\ owner[r] = w

SweepRun(r) ==
  /\ Orphaned(r) \/ state[r] = "waiting"
  /\ Recover
  /\ state'[r] # state[r]

DecideRun(r) == \E w \in Worker : job[w] = r /\ ClaimCommit(w) /\ state'[r] # "pending"

Fairness ==
  /\ \A w \in Worker : WF_vars(WorkerStep(w))
  /\ \A r \in Run : /\ SF_vars(\E w \in Worker : ClaimRead(w, r))
                    /\ SF_vars(DecideRun(r))
                    /\ WF_vars(SweepRun(r))

FairSpec == Spec /\ Fairness

Ended == {"succeeded", "failed", "cancelled", "uncertain"}

\* A run held back by one that only an operator can settle.
Blocked(r) ==
  \/ \E q \in Run : PrOf[q] = PrOf[r] /\ state[q] = "uncertain"
  \/ Cardinality({q \in ActiveOf(RepoOf[r], SeatOf[r]) : state[q] = "uncertain"})
       >= Capacity[SeatOf[r]]

\* Every run is carried to an end, or waits for an operator's reconciliation.
Unsettled(r) == state[r] \notin Ended \cup {"absent"} /\ ~Blocked(r)
Settles == \A r \in Run : []<>~Unsettled(r)

=============================================================================
