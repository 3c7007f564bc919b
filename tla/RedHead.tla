-------------------------------- MODULE RedHead --------------------------------
(***************************************************************************)
(* A pull request of the fixer whose required checks fail.  The red head   *)
(* goes to the fixer first, while the budget of CI fixes lasts; then the   *)
(* reviewer reviews it.  An approval whose checks go bad is stale.         *)
(***************************************************************************)
EXTENDS Checks

CONSTANTS
  Heads,      \* how many heads the pull request has
  Cap,        \* ci_fix_cap
  AfterCI,    \* review_after_ci: a review waits for running checks
  Failures    \* enqueues and reads that fail

RedHeadAssumption == Heads \in Nat \ {0} /\ {Cap, Failures} \subseteq Nat /\ AfterCI \in BOOLEAN

VARIABLES
  head,       \* the pull request's head; those before it were its heads
  ci,         \* the runs of each head
  fix,        \* the CI-fix turn of each head
  review,     \* the reviewer's turn of each head, with its verdict
  worker,     \* the head that the reviewer's worker is about to enqueue a fix for, or 0
  sweeper,    \* the same of the sweep
  waited,     \* the heads whose review has waited for CI long enough
  stale,      \* the head in the record of a stale approval, or 0
  faults

vars == <<head, ci, fix, review, worker, sweeper, waited, stale, faults>>
turns == <<fix, review>>
actors == <<worker, sweeper>>
Head == 1..Heads

TypeOK ==
  /\ head \in Head /\ (\A h \in Head : ci[h] \subseteq Run) /\ waited \subseteq Head
  /\ fix \in [Head -> {"none", "live", "over"}] /\ {stale, worker, sweeper} \subseteq 0..Heads
  /\ review \in [Head -> {"none", "queued", "running", "changes", "approved"}] /\ faults \in 0..Failures

Init ==
  /\ head = 1 /\ ci = [h \in Head |-> {}] /\ fix = [h \in Head |-> "none"] /\ waited = {} /\ stale = 0
  /\ review = [h \in Head |-> IF h = 1 THEN "queued" ELSE "none"] /\ worker = 0 /\ sweeper = 0 /\ faults = Failures

Report ==
  /\ \E runs \in Starts(ci[head]) \cup Ends(ci[head]) \cup Reruns(ci[head]) : ci' = [ci EXCEPT ![head] = runs]
  /\ UNCHANGED <<head, turns, actors, waited, stale, faults>>

\* A push, of the fixer or of the author, makes a head of its own with a review queued.
Pushed == head < Heads /\ head' = head + 1
Push ==
  /\ Pushed /\ review' = [review EXCEPT ![head + 1] = "queued"]
  /\ UNCHANGED <<ci, fix, actors, waited, stale, faults>>

\* rows, decide: one turn per head, and ci_fix_cap of them for the pull request.
Used == Cardinality({h \in Head : fix[h] # "none"})
Left == Used < Cap
Fault == faults > 0 /\ faults' = faults - 1

\* fixer_first: a red head is the fixer's while its turn is live or one may be queued.
FirstEver(h) == Failed(ci[h]) # {} /\ (fix[h] # "none" \/ Left)
First(h) == Failed(ci[h]) # {} /\ (fix[h] = "live" \/ (fix[h] = "none" /\ Left))

\* The hold of a reviewer's turn before its launch, until it has waited long enough.
Waits(h) ==
  \/ Failed(ci[h]) = {} /\ Cancelled(ci[h]) \cup Missing(ci[h]) # {}
  \/ AfterCI /\ Pending(ci[h]) # {}
Held(h) == h \notin waited /\ (First(h) \/ Waits(h))
Ask ==
  /\ worker = 0 /\ review[head] = "queued" /\ head \notin waited /\ First(head) /\ fix[head] = "none"
  /\ worker' = head
  /\ UNCHANGED <<head, ci, turns, sweeper, waited, stale, faults>>
Queued(h) == fix' = IF fix[h] = "none" THEN [fix EXCEPT ![h] = "live"] ELSE fix
WorkerEnqueues ==
  /\ worker # 0 /\ worker' = 0
  /\ \/ Queued(worker) /\ UNCHANGED faults
     \/ Fault /\ UNCHANGED fix
  /\ UNCHANGED <<head, ci, review, sweeper, waited, stale>>
Launch ==
  /\ worker = 0 /\ review[head] = "queued" /\ ~Held(head)
  /\ review' = [review EXCEPT ![head] = "running"]
  /\ UNCHANGED <<head, ci, fix, actors, waited, stale, faults>>
WaitOver ==
  /\ \E h \in Head : review[h] = "queued" /\ waited' = waited \cup {h}
  /\ UNCHANGED <<head, ci, turns, actors, stale, faults>>

\* The verdict: the broker reads CI again and refuses an approval that it does not bear.
Refused(h) == Failed(ci[h]) \cup Cancelled(ci[h]) \cup Missing(ci[h]) # {}
Verdict ==
  /\ \E h \in Head, v \in {"changes", "approved"} :
       /\ review[h] = "running" /\ (v = "approved" => h = head /\ ~Refused(h))
       /\ review' = [review EXCEPT ![h] = v]
  /\ UNCHANGED <<head, ci, fix, actors, waited, stale, faults>>

\* A CI-fix turn reads CI again at its launch; it pushes, or it ends without a new head.
FixPushes ==
  /\ fix[head] = "live" /\ Failed(ci[head]) # {} /\ Pushed
  /\ fix' = [fix EXCEPT ![head] = "over"] /\ review' = [review EXCEPT ![head + 1] = "queued"]
  /\ UNCHANGED <<ci, actors, waited, stale, faults>>
FixEnds ==
  /\ \E h \in Head : fix[h] = "live" /\ fix' = [fix EXCEPT ![h] = "over"]
  /\ UNCHANGED <<head, ci, review, actors, waited, stale, faults>>

\* The watchdog's passes: red heads without a turn, and approvals that went stale.
Plan ==
  /\ sweeper = 0 /\ Failed(ci[head]) # {} /\ fix[head] = "none" /\ Left /\ sweeper' = head
  /\ UNCHANGED <<head, ci, turns, worker, waited, stale, faults>>
SweepEnqueues ==
  /\ sweeper # 0 /\ sweeper' = 0
  /\ \/ Queued(sweeper) /\ UNCHANGED faults
     \/ Fault /\ UNCHANGED fix
  /\ UNCHANGED <<head, ci, review, worker, waited, stale>>
AssessFailed == Failed(ci[head]) # {}
Assess == Failed(ci[head]) \cup Cancelled(ci[head]) # {} \/ Missing(ci[head]) # {}
Judged == IF review[head] = "approved" /\ Assess THEN head ELSE 0
Unreadable == IF stale = head THEN stale ELSE 0
StaleSweep ==
  /\ \/ stale' = Judged /\ UNCHANGED faults
     \/ Fault /\ stale' = Unreadable
  /\ UNCHANGED <<head, ci, turns, actors, waited>>

Next ==
  \/ Report \/ Push \/ Ask \/ WorkerEnqueues \/ Launch \/ WaitOver \/ Verdict \/ FixPushes \/ FixEnds
  \/ Plan \/ SweepEnqueues \/ StaleSweep
Fairness ==
  /\ WF_vars(WorkerEnqueues) /\ WF_vars(Launch) /\ WF_vars(Verdict) /\ WF_vars(FixPushes \/ FixEnds)
  /\ WF_vars(Ask) /\ WF_vars(Plan) /\ WF_vars(SweepEnqueues) /\ WF_vars(StaleSweep)
Spec == Init /\ [][Next]_vars /\ Fairness

--------------------------------------------------------------------------------
\* A red head is never left unreviewed: where the head stays red the reviewer gives a
\* verdict on it in the end, whatever became of the fixer's turn (fixer_first).
Unreviewed(h) ==
  head = h /\ Failed(ci[h]) # {} /\ Pending(ci[h]) = {} /\ review[h] \notin {"changes", "approved"}
Reviewed == \A h \in Head : []<>~Unreviewed(h)

\* An approval whose checks stay bad is recorded as stale, and one whose checks are green
\* again is not, whatever could not be read in between (stale_approval).
Approved == review[head] = "approved"
GoneBad == Approved /\ Failed(ci[head]) \cup Cancelled(ci[head]) # {}
StillGood == Approved /\ Green(ci[head])
StaleTold == (<>[]GoneBad => <>[](stale = head)) /\ (<>[]StillGood => <>[](stale # head))

\* The CI-fix turns of a pull request stay within ci_fix_cap, whoever queues them.
Budget == Used <= Cap
================================================================================
