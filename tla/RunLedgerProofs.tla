--------------------------- MODULE RunLedgerProofs ---------------------------
(***************************************************************************)
(* Theorems of RunLedger for every number of runs, workers, repositories   *)
(* and pull requests, every capacity and every bound.  In this order: the  *)
(* types, one run of a pull request and the capacity of a seat; what a     *)
(* turn writes, and the bounds of its counters; and the refinement of      *)
(* TurnPromise.                                                            *)
(***************************************************************************)
EXTENDS RunLedger, FiniteSetTheorems, TLAPS

-----------------------------------------------------------------------------
\* The steps a worker can be at, and those of a turn's broker.
LEMMA Labels ==
  /\ {"idle", "checked", "stale", "claimed", "launched", "ready", "finish"} \subseteq Label
  /\ Broker \subseteq Label
  /\ {"posting", "awaiting", "pushing", "pushed_unread", "answering", "turn", "unnamed", "pushed",
      "spent", "done"} \subseteq Broker
  BY DEF Label, Broker, MidWrite

\* The states a row can be in, and the classes of error it can carry.
LEMMA States ==
  /\ {"absent", "pending", "waiting", "claimed", "launching", "running", "uncertain",
      "succeeded", "failed", "cancelled"} \subseteq RunState
  /\ {"none", "ineligible", "other", "reconciled", "quarantined", "not_admitted", "revoked"}
       \subseteq ErrorClass
  /\ PolicyErrors \subseteq ErrorClass
  BY DEF RunState, Active, Rearmable, ErrorClass, Quarantines, PolicyErrors

-----------------------------------------------------------------------------
\* The type invariant.  What makes it inductive: a worker that does something has a
\* run, and one that has finished has a result.

JobOK == \A w \in Worker : pc[w] # "idle" => job[w] \in Run
Carries == \A w \in Worker : pc[w] = "finish" => arg[w] \in Result

TypeInv == TypeOK /\ JobOK /\ Carries

\* The steps that leave the workers where they are.
LEMMA TypeQuiet ==
  ASSUME TypeInv,
         \/ \E r \in Run : GateStep(r) \/ Retry(r) \/ Reconcile(r) \/ Land(r) \/ Lose(r)
         \/ \E repo \in Repo, on \in BOOLEAN : SetPolicy(repo, on)
         \/ Recover
  PROVE  TypeInv'
<1> USE LedgerAssumption, States DEF TypeInv, TypeOK, LedgerTypeOK, WorldTypeOK,
        workerVars, policyVars, githubVars
<1> DEFINE Kept == UNCHANGED workerVars /\ LedgerTypeOK' /\ WorldTypeOK'
<1>1. Kept
  <2>1. ASSUME NEW r \in Run, Enqueue(r)   PROVE Kept
    BY <2>1 DEF Enqueue, Fixer, PushOn
  <2>2. ASSUME NEW r \in Run, Redeliver(r) PROVE Kept
    BY <2>2 DEF Redeliver, Rearm
  <2>3. ASSUME NEW r \in Run, Retry(r)     PROVE Kept
    BY <2>3 DEF Retry, Rearm, Fixer
  <2>4. ASSUME NEW r \in Run, Reconcile(r) PROVE Kept
    BY <2>4 DEF Reconcile
  <2>5. ASSUME NEW r \in Run, Land(r) PROVE Kept
    BY <2>5 DEF Land, ledgerVars
  <2>6. ASSUME NEW r \in Run, Lose(r) PROVE Kept
    BY <2>6 DEF Lose, ledgerVars
  <2>7. ASSUME NEW repo \in Repo, NEW on \in BOOLEAN, SetPolicy(repo, on) PROVE Kept
    BY <2>7 DEF SetPolicy, ledgerVars
  <2>8. CASE Recover
    BY <2>8 DEF Recover
  <2> QED BY <2>1, <2>2, <2>3, <2>4, <2>5, <2>6, <2>7, <2>8 DEF GateStep
<1> QED BY <1>1 DEF WorkerTypeOK, JobOK, Carries

\* What the invariant says of the workers.
WorkerInv == WorkerTypeOK /\ JobOK /\ Carries

\* A worker that goes on to its next step stays well typed.
LEMMA GotoTypes ==
  ASSUME WorkerInv, NEW w \in Worker, pc[w] # "idle",
         NEW label \in Label \ {"finish"}, Goto(w, label)
  PROVE  WorkerInv'
  BY DEF WorkerInv, WorkerTypeOK, JobOK, Carries, Goto

\* A worker whose turn has ended carries a result of the turn.
LEMMA FinishTypes ==
  ASSUME WorkerInv, NEW w \in Worker, pc[w] # "idle", NEW result \in Result, Finish(w, result)
  PROVE  WorkerInv'
  BY Labels DEF WorkerInv, WorkerTypeOK, JobOK, Carries, Finish

\* A process that ends frees its PID and its lock, and nothing else.
LEMMA LeaveTypes ==
  ASSUME WorkerInv, LedgerTypeOK, WorldTypeOK, NEW w \in Worker, Leave(w)
  PROVE  WorkerInv' /\ pid' \in [Run -> Worker \cup {NoWorker}]
         /\ policy' = policy /\ plock' \in Worker \cup {NoWorker}
  BY Labels DEF WorkerInv, WorkerTypeOK, LedgerTypeOK, WorldTypeOK, JobOK, Carries, Leave

\* _claim's transaction makes other snapshots stale, and keeps every worker well typed.
LEMMA ClaimWriteTypes ==
  ASSUME WorkerInv, WorldTypeOK, NEW w \in Worker, pc[w] # "idle",
         NEW label \in {"idle", "claimed"}, ClaimWrite(w, label)
  PROVE  WorkerInv' /\ WorldTypeOK'
<1>1. WorldTypeOK'
  BY DEF ClaimWrite, WorldTypeOK, policyVars, githubVars
<1>2. WorkerTypeOK'
  BY Labels DEF WorkerInv, WorkerTypeOK, JobOK, ClaimWrite
<1>3. JobOK' /\ Carries'
  BY DEF WorkerInv, WorkerTypeOK, JobOK, Carries, ClaimWrite
<1> QED BY <1>1, <1>2, <1>3 DEF WorkerInv

\* The read and the transaction of _claim preserve the type invariant.
LEMMA TypeClaim ==
  ASSUME TypeInv, NEW w \in Worker, (\E r \in Run : ClaimRead(w, r)) \/ ClaimCommit(w)
  PROVE  TypeInv'
<1> USE LedgerAssumption, States
<1>0. WorkerInv /\ LedgerTypeOK /\ WorldTypeOK
  BY DEF TypeInv, TypeOK, WorkerInv
<1>1. ASSUME NEW r \in Run, ClaimRead(w, r) PROVE TypeInv'
  <2>1. LedgerTypeOK' /\ WorldTypeOK'
    BY <1>0, <1>1 DEF ClaimRead, ledgerVars, policyVars, githubVars, LedgerTypeOK, WorldTypeOK
  <2>2. PICK v \in Verdict : arg' = [arg EXCEPT ![w] = v]
    BY <1>1 DEF ClaimRead, ReadVerdicts, Verdict, PolicyErrors
  <2>3. WorkerInv'
    BY <1>0, <1>1, <2>2, Labels DEF ClaimRead, WorkerInv, WorkerTypeOK, JobOK, Carries
  <2> QED BY <2>1, <2>3 DEF TypeInv, TypeOK, WorkerInv
<1>2. CASE ClaimSkip(w)
  <2>1. LedgerTypeOK' /\ WorldTypeOK'
    BY <1>0, <1>2 DEF ClaimSkip, ledgerVars, policyVars, githubVars, LedgerTypeOK, WorldTypeOK
  <2>2. WorkerInv'
    BY <1>0, <1>2, Labels DEF ClaimSkip, WorkerInv, WorkerTypeOK, JobOK, Carries
  <2> QED BY <2>1, <2>2 DEF TypeInv, TypeOK, WorkerInv
<1>3. CASE ClaimRefuse(w) \/ ClaimRetire(w) \/ ClaimBackoff(w) \/ ClaimFail(w) \/ Claim(w)
  <2>1. pc[w] = "checked" /\ job[w] \in Run
    BY <1>0, <1>3 DEF ClaimRefuse, ClaimRetire, ClaimBackoff, ClaimFail, Claim, WorkerInv, JobOK
  <2>2. PICK label \in {"idle", "claimed"} : ClaimWrite(w, label)
    BY <1>3 DEF ClaimRefuse, ClaimRetire, ClaimBackoff, ClaimFail, Claim
  <2>3. WorkerInv' /\ WorldTypeOK'
    BY <1>0, <2>1, <2>2, ClaimWriteTypes
  <2>4. UNCHANGED <<pid, admitted, intent, confirmed, receipt>>
    BY <2>2 DEF ClaimWrite
  <2>5. LedgerTypeOK'
    <3> USE DEF LedgerTypeOK
    <3>1. CASE ClaimRefuse(w)  BY <1>0, <2>1, <2>4, <3>1 DEF ClaimRefuse
    <3>2. CASE ClaimRetire(w)  BY <1>0, <2>1, <2>4, <3>2 DEF ClaimRetire
    <3>3. CASE ClaimBackoff(w) BY <1>0, <2>1, <2>4, <3>3 DEF ClaimBackoff
    <3>4. CASE ClaimFail(w)    BY <1>0, <2>1, <2>4, <3>4 DEF ClaimFail
    <3>5. CASE Claim(w)        BY <1>0, <2>1, <2>4, <3>5 DEF Claim
    <3> QED BY <1>3, <3>1, <3>2, <3>3, <3>4, <3>5
  <2> QED BY <2>3, <2>5 DEF TypeInv, TypeOK, WorkerInv
<1> QED BY <1>1, <1>2, <1>3 DEF ClaimCommit

\* From the launch intent to the turn.
LEMMA TypeLaunch ==
  ASSUME TypeInv, NEW w \in Worker,
         Launch(w) \/ Enter(w) \/ Hold(w) \/ PolicyHold(w) \/ StartTurn(w) \/ EndTurn(w)
  PROVE  TypeInv'
<1> USE DEF Result, PolicyErrors
<1>0. /\ WorkerInv /\ LedgerTypeOK /\ WorldTypeOK
      /\ pc[w] # "idle" /\ job[w] \in Run
  BY DEF TypeInv, TypeOK, WorkerInv, JobOK, Launch, Enter, Hold, PolicyHold, StartTurn, EndTurn
<1>1. WorldTypeOK'
  BY <1>0 DEF WorldTypeOK, Launch, Enter, Hold, PolicyHold, StartTurn, EndTurn,
              policyVars, githubVars
<1>2. LedgerTypeOK'
  <2> USE States DEF LedgerTypeOK
  <2>1. CASE Launch(w) BY <1>0, <2>1 DEF Launch
  <2>2. CASE Enter(w)  BY <1>0, <2>2 DEF Enter
  <2>3. CASE Hold(w) \/ PolicyHold(w) \/ StartTurn(w) \/ EndTurn(w)
    BY <1>0, <2>3 DEF Hold, PolicyHold, StartTurn, EndTurn, ledgerVars
  <2> QED BY <2>1, <2>2, <2>3
<1>3. WorkerInv'
  <2>1. \/ \E label \in {"launched", "ready", "turn"} : Goto(w, label)
        \/ \E result \in Result : Finish(w, result)
    BY DEF Launch, Enter, Hold, PolicyHold, StartTurn, EndTurn
  <2> QED BY <1>0, <2>1, Labels, GotoTypes, FinishTypes
<1> QED BY <1>1, <1>2, <1>3 DEF TypeInv, TypeOK, WorkerInv

\* Every step of the broker (reviews and pushes) preserves the type invariant.
LEMMA TypeBroker ==
  ASSUME TypeInv, NEW w \in Worker, BrokerStep(w)
  PROVE  TypeInv'
<1> DEFINE Reviewing == \/ ReviewClaim(w) \/ ReviewPost(w) \/ ReviewConfirm(w)
                        \/ ReviewPosted(w) \/ RecordIneligible(w) \/ ReviewLost(w)
           Pushing == \/ BeginPush(w) \/ PushDenied(w) \/ PushSend(w)
                      \/ PushConfirm(w) \/ PushQuarantine(w)
           Other == Refused(w) \/ HeldForPerson(w) \/ AnswersOnly(w) \/ Answered(w)
                    \/ RequestReview(w)
<1>0. WorkerInv /\ LedgerTypeOK /\ WorldTypeOK /\ (Reviewing \/ Pushing \/ Other)
  BY DEF TypeInv, TypeOK, WorkerInv, BrokerStep
<1>1. pc[w] # "idle" /\ job[w] \in Run
  BY <1>0 DEF WorkerInv, JobOK, Refused, HeldForPerson, AnswersOnly, Answered, ReviewClaim,
     ReviewPost,
     ReviewConfirm, ReviewPosted, RecordIneligible, ReviewLost, BeginPush, PushDenied,
     PushSend, PushConfirm, PushQuarantine, RequestReview
<1>2. WorldTypeOK'
  <2> USE DEF WorldTypeOK, policyVars, githubVars
  <2>1. CASE Reviewing
    BY <1>0, <1>1, <2>1 DEF ReviewClaim, ReviewPost, ReviewConfirm, ReviewPosted,
       RecordIneligible, ReviewLost
  <2>2. CASE Pushing
    BY <1>0, <1>1, <2>2 DEF BeginPush, PushDenied, PushSend, PushConfirm, PushQuarantine, Unlock
  <2>3. CASE Other
    BY <1>0, <2>3 DEF Refused, HeldForPerson, AnswersOnly, Answered, RequestReview
  <2> QED BY <1>0, <2>1, <2>2, <2>3
<1>3. LedgerTypeOK'
  <2> USE States DEF LedgerTypeOK, SetReceipt, ledgerVars
  <2>1. CASE Reviewing
    BY <1>0, <1>1, <2>1 DEF ReviewClaim, ReviewPost, ReviewConfirm, ReviewPosted,
       RecordIneligible, ReviewLost, ReceiptState
  <2>2. CASE BeginPush(w) \/ PushDenied(w) \/ PushSend(w)
    BY <1>0, <1>1, <2>2 DEF BeginPush, PushDenied, PushSend
  <2>3. CASE PushConfirm(w)
    BY <1>0, <1>1, <2>3 DEF PushConfirm
  <2>4. CASE PushQuarantine(w)
    BY <1>0, <1>1, <2>4 DEF PushQuarantine
  <2>5. CASE Other
    BY <1>0, <1>1, <2>5 DEF Refused, HeldForPerson, AnswersOnly, Answered, RequestReview,
       ReceiptState
  <2> QED BY <1>0, <2>1, <2>2, <2>3, <2>4, <2>5
<1>4. WorkerInv'
  <2>1. \E label \in Broker : Goto(w, label)
    <3>1. CASE Reviewing
      BY <3>1, Labels DEF ReviewClaim, ReviewPost, ReviewConfirm, ReviewPosted, RecordIneligible,
         ReviewLost
    <3>2. CASE Pushing
      BY <3>2, Labels DEF BeginPush, PushDenied, PushSend, PushConfirm, PushQuarantine
    <3>3. CASE Other
      BY <3>3, Labels DEF Refused, HeldForPerson, AnswersOnly, Answered, RequestReview, Goto
    <3> QED BY <1>0, <3>1, <3>2, <3>3
  <2>2. "finish" \notin Broker
    BY DEF Broker, MidWrite
  <2> QED BY <1>0, <1>1, <2>1, <2>2, Labels, GotoTypes
<1> QED BY <1>2, <1>3, <1>4 DEF TypeInv, TypeOK, WorkerInv

\* complete_uncertain computes a known state, a known error and a count.
LEMMA OutcomeType ==
  ASSUME LedgerTypeOK, NEW r \in Run, NEW result \in Result, NEW stopped \in BOOLEAN
  PROVE  Outcome(r, result, stopped) \in
           [state : RunState, error : ErrorClass, retries : Nat]
  BY States DEF LedgerTypeOK, Outcome, Result, PolicyErrors

\* What complete_uncertain writes keeps the row well typed.
LEMMA RecordTypes ==
  ASSUME LedgerTypeOK, NEW w \in Worker, job[w] \in Run,
         NEW result \in Result, NEW stopped \in BOOLEAN, Record(w, result, stopped)
  PROVE  /\ state' \in [Run -> RunState] /\ error' \in [Run -> ErrorClass]
         /\ retries' \in [Run -> Nat]
<1> DEFINE o == Outcome(job[w], result, stopped)
<1>1. o.state \in RunState /\ o.error \in ErrorClass /\ o.retries \in Nat
  BY OutcomeType
<1> HIDE DEF o
<1>2. \/ /\ state' = [state EXCEPT ![job[w]] = o.state]
         /\ error' = [error EXCEPT ![job[w]] = o.error]
         /\ retries' = [retries EXCEPT ![job[w]] = o.retries]
      \/ UNCHANGED <<state, error, retries>>
  BY DEF Record, o
<1> QED BY <1>1, <1>2 DEF LedgerTypeOK

\* Completion, exit and crash of a worker preserve the type invariant.
LEMMA TypeEnd ==
  ASSUME TypeInv, NEW w \in Worker,
         Complete(w) \/ EndUnstopped(w) \/ Exit(w) \/ Crash(w)
  PROVE  TypeInv'
<1>0. WorkerInv /\ LedgerTypeOK /\ WorldTypeOK
  BY DEF TypeInv, TypeOK, WorkerInv
<1>1. CASE Complete(w)
  <2>1. job[w] \in Run /\ arg[w] \in Result
    BY <1>0, <1>1 DEF Complete, WorkerInv, JobOK, Carries
  <2>2. /\ state' \in [Run -> RunState] /\ error' \in [Run -> ErrorClass]
        /\ retries' \in [Run -> Nat]
    BY <1>0, <1>1, <2>1, RecordTypes DEF Complete
  <2>3. WorkerInv' /\ pid' \in [Run -> Worker \cup {NoWorker}]
        /\ policy' = policy /\ plock' \in Worker \cup {NoWorker}
    BY <1>0, <1>1, LeaveTypes DEF Complete
  <2> QED BY <1>0, <1>1, <2>2, <2>3
          DEF Complete, TypeInv, TypeOK, WorkerInv, LedgerTypeOK, WorldTypeOK, githubVars
<1>2. CASE EndUnstopped(w)
  <2>1. job[w] \in Run
    BY <1>0, <1>2 DEF EndUnstopped, WorkerInv, JobOK, Broker, MidWrite
  <2>2. /\ state' \in [Run -> RunState] /\ error' \in [Run -> ErrorClass]
        /\ retries' \in [Run -> Nat]
    BY <1>0, <1>2, <2>1, RecordTypes DEF EndUnstopped, Result
  <2>3. WorkerInv'
    BY <1>0, <1>2 DEF EndUnstopped, WorkerInv, WorkerTypeOK, JobOK, Carries
  <2> QED BY <1>0, <1>2, <2>2, <2>3
          DEF EndUnstopped, TypeInv, TypeOK, WorkerInv, LedgerTypeOK, WorldTypeOK,
              policyVars, githubVars
<1>3. CASE Exit(w) \/ Crash(w)
  <2>1. WorkerInv' /\ pid' \in [Run -> Worker \cup {NoWorker}]
        /\ policy' = policy /\ plock' \in Worker \cup {NoWorker}
    BY <1>0, <1>3, LeaveTypes DEF Exit, Crash
  <2> QED BY <1>0, <1>3, <2>1
          DEF Exit, Crash, TypeInv, TypeOK, WorkerInv, LedgerTypeOK, WorldTypeOK, githubVars
<1> QED BY <1>1, <1>2, <1>3

\* An empty ledger with idle workers is well typed.
LEMMA TypeInit == Init => TypeInv
<1> SUFFICES ASSUME Init PROVE TypeInv
  OBVIOUS
<1>1. LedgerTypeOK
  BY States DEF Init, LedgerTypeOK, ReceiptState
<1>2. WorkerTypeOK /\ JobOK /\ Carries
  BY Labels DEF Init, WorkerTypeOK, JobOK, Carries
<1>3. WorldTypeOK
  BY DEF Init, WorldTypeOK
<1> QED BY <1>1, <1>2, <1>3 DEF TypeInv, TypeOK

\* Every step of the ledger, its workers, GitHub and its operator is well typed.
LEMMA TypeNext == TypeInv /\ [Next]_vars => TypeInv'
<1> SUFFICES ASSUME TypeInv, [Next]_vars PROVE TypeInv'
  OBVIOUS
<1>1. CASE UNCHANGED vars
  BY <1>1 DEF vars, ledgerVars, workerVars, policyVars, githubVars, TypeInv, TypeOK,
     LedgerTypeOK, WorkerTypeOK, WorldTypeOK, JobOK, Carries
<1>2. CASE \E r \in Run : GateStep(r) \/ Land(r) \/ Lose(r) \/ Retry(r) \/ Reconcile(r)
  BY <1>2, TypeQuiet
<1>3. CASE \E repo \in Repo, on \in BOOLEAN : SetPolicy(repo, on)
  BY <1>3, TypeQuiet
<1>4. CASE Recover
  BY <1>4, TypeQuiet
<1>5. CASE \E w \in Worker, r \in Run : ClaimRead(w, r)
  BY <1>5, TypeClaim
<1>6. CASE \E w \in Worker : WorkerStep(w) \/ Crash(w)
  <2> PICK w \in Worker : WorkerStep(w) \/ Crash(w)
    BY <1>6
  <2> QED BY TypeClaim, TypeLaunch, TypeBroker, TypeEnd DEF WorkerStep
<1> QED BY <1>1, <1>2, <1>3, <1>4, <1>5, <1>6 DEF Next, OperatorStep

\* The type invariant holds in every reachable state: every row stays in a known state
\* with a known class of error, and every worker at a known step.
THEOREM TypeCorrect == Spec => []TypeOK
<1>1. Spec => []TypeInv
  BY TypeInit, TypeNext, PTL DEF Spec
<1>2. TypeInv => TypeOK
  BY DEF TypeInv
<1> QED BY <1>1, <1>2, PTL

-----------------------------------------------------------------------------
(* Mutual exclusion of turns in RunLedger: one run per pull request, and   *)
(* no more of a seat's runs in a repository than its capacity.  Both rest  *)
(* on one fact: only a claim makes a row active.                           *)

-----------------------------------------------------------------------------
\* complete_uncertain writes a row that was already live or uncertain.
LEMMA RecordNeedsActive ==
  ASSUME TypeInv, NEW w \in Worker, NEW result, NEW stopped, Record(w, result, stopped),
         NEW r \in Run, state[r] \notin Active
  PROVE  state'[r] = state[r]
  BY DEF Record, TypeInv, TypeOK, LedgerTypeOK, Active

\* A row becomes active only in _claim's transaction: submit, re-arm, the sweep, the
\* operator's commands, the launch steps, the broker and completion only move rows that
\* are active already, or make them inactive.
LEMMA OnlyClaimActivates ==
  ASSUME TypeInv, [Next]_vars, NEW r \in Run, state[r] \notin Active, state'[r] \in Active
  PROVE  \E w \in Worker : Claim(w) /\ job[w] = r
<1> USE DEF TypeInv, TypeOK, LedgerTypeOK, Active
<1>1. CASE UNCHANGED vars
  BY <1>1 DEF vars, ledgerVars
<1>2. ASSUME NEW q \in Run, GateStep(q) \/ Land(q) \/ Lose(q) \/ Retry(q) \/ Reconcile(q)
      PROVE  FALSE
  BY <1>2 DEF GateStep, Enqueue, Redeliver, Retry, Rearm, Reconcile, Land, Lose, ledgerVars
<1>3. ASSUME NEW repo \in Repo, NEW on \in BOOLEAN, SetPolicy(repo, on) PROVE FALSE
  BY <1>3 DEF SetPolicy, ledgerVars
<1>4. CASE Recover
  BY <1>4 DEF Recover
<1>5. ASSUME NEW w \in Worker, NEW q \in Run, ClaimRead(w, q) PROVE FALSE
  BY <1>5 DEF ClaimRead, ledgerVars
<1>6. ASSUME NEW w \in Worker, WorkerStep(w) \/ Crash(w)
      PROVE  Claim(w) /\ job[w] = r
  <2>1. CASE ClaimCommit(w)
    <3>1. CASE Claim(w)
      BY <3>1 DEF Claim
    <3>2. CASE ClaimSkip(w)
      BY <3>2 DEF ClaimSkip, ledgerVars
    <3>3. CASE ClaimRefuse(w) \/ ClaimRetire(w) \/ ClaimBackoff(w) \/ ClaimFail(w)
      BY <3>3 DEF ClaimRefuse, ClaimRetire, ClaimBackoff, ClaimFail
    <3> QED BY <2>1, <3>1, <3>2, <3>3 DEF ClaimCommit
  <2>2. CASE Launch(w) \/ Enter(w)
    BY <2>2 DEF Launch, Enter
  <2>3. CASE Hold(w) \/ PolicyHold(w) \/ StartTurn(w) \/ EndTurn(w)
    BY <2>3 DEF Hold, PolicyHold, StartTurn, EndTurn, ledgerVars
  <2>4. CASE BrokerStep(w)
    <3>1. CASE PushQuarantine(w)
      BY <3>1 DEF PushQuarantine
    <3>2. CASE ~PushQuarantine(w)
      BY <2>4, <3>2 DEF BrokerStep, Refused, HeldForPerson, AnswersOnly, Answered,
         ReviewClaim, ReviewPost,
         ReviewConfirm, ReviewPosted, RecordIneligible, ReviewLost, BeginPush, PushDenied,
         PushSend, PushConfirm, RequestReview, ledgerVars
    <3> QED BY <3>1, <3>2
  <2>5. CASE Complete(w) \/ EndUnstopped(w)
    BY <2>5, RecordNeedsActive DEF Complete, EndUnstopped
  <2>6. CASE Exit(w) \/ Crash(w)
    BY <2>6 DEF Exit, Crash
  <2> QED BY <1>6, <2>1, <2>2, <2>3, <2>4, <2>5, <2>6 DEF WorkerStep
<1> QED BY <1>1, <1>2, <1>3, <1>4, <1>5, <1>6 DEF Next, OperatorStep

\* An unresolved intent is only ever added to a row that is live.
LEMMA IntentNeedsActive ==
  ASSUME TypeInv, [Next]_vars, NEW r \in Run, ~intent[r], intent'[r]
  PROVE  state[r] \in Active
<1> USE DEF TypeInv, TypeOK, LedgerTypeOK, Active
<1>1. CASE UNCHANGED vars
  BY <1>1 DEF vars, ledgerVars
<1>2. ASSUME NEW q \in Run, GateStep(q) \/ Land(q) \/ Lose(q) \/ Retry(q) \/ Reconcile(q)
      PROVE  FALSE
  BY <1>2 DEF GateStep, Enqueue, Redeliver, Retry, Rearm, Reconcile, Land, Lose, ledgerVars
<1>3. ASSUME NEW repo \in Repo, NEW on \in BOOLEAN, SetPolicy(repo, on) PROVE FALSE
  BY <1>3 DEF SetPolicy, ledgerVars
<1>4. CASE Recover
  BY <1>4 DEF Recover
<1>5. ASSUME NEW w \in Worker, NEW q \in Run, ClaimRead(w, q) PROVE FALSE
  BY <1>5 DEF ClaimRead, ledgerVars
<1>6. ASSUME NEW w \in Worker, WorkerStep(w) \/ Crash(w)
      PROVE  state[r] \in Active
  <2>1. CASE BrokerStep(w)
    <3>1. CASE BeginPush(w)
      BY <3>1 DEF BeginPush
    <3>2. CASE ~BeginPush(w)
      BY <2>1, <3>2 DEF BrokerStep, Refused, HeldForPerson, AnswersOnly, Answered,
         ReviewClaim, ReviewPost,
         ReviewConfirm, ReviewPosted, RecordIneligible, ReviewLost, SetReceipt, PushDenied,
         PushSend, PushConfirm, PushQuarantine, RequestReview, ledgerVars
    <3> QED BY <3>1, <3>2
  <2>2. CASE ~BrokerStep(w)
    BY <1>6, <2>2 DEF WorkerStep, ClaimCommit, ClaimSkip, ClaimRefuse, ClaimRetire,
       ClaimBackoff, ClaimFail, Claim, ClaimWrite, Launch, Enter, Hold, PolicyHold,
       StartTurn, EndTurn, Complete, EndUnstopped, Exit, Crash, ledgerVars
  <2> QED BY <2>1, <2>2
<1> QED BY <1>1, <1>2, <1>3, <1>4, <1>5, <1>6 DEF Next, OperatorStep

-----------------------------------------------------------------------------
\* One run per pull request.

\* A claim finds its pull request free under the writer lock, and nothing else occupies
\* one: two runs of a pull request never come to occupy it together.
LEMMA OnePerPRStep ==
  ASSUME TypeInv, OnePerPR, [Next]_vars
  PROVE  OnePerPR'
<1> SUFFICES ASSUME NEW q \in Run, NEW r \in Run, q # r, PrOf[q] = PrOf[r],
                    Occupies(q)', Occupies(r)'
             PROVE  FALSE
  BY DEF OnePerPR
<1>1. ASSUME NEW s \in Run, Occupies(s)', ~Occupies(s)
      PROVE  \E w \in Worker : Claim(w) /\ job[w] = s
  BY <1>1, OnlyClaimActivates, IntentNeedsActive DEF Occupies
<1>2. ASSUME NEW w \in Worker, Claim(w), NEW s \in Run, NEW t \in Run,
             job[w] = s, s # t, PrOf[s] = PrOf[t], Occupies(t)'
      PROVE  FALSE
  <2>1. ~Occupies(t)
    BY <1>2 DEF Claim, Free, Occupied
  <2>2. state'[t] = state[t] /\ intent'[t] = intent[t]
    BY <1>2 DEF Claim, ClaimWrite, TypeInv, TypeOK, LedgerTypeOK
  <2> QED BY <1>2, <2>1, <2>2 DEF Occupies
<1>3. Occupies(q) /\ Occupies(r)
  BY <1>1, <1>2
<1> QED BY <1>3 DEF OnePerPR

\* No two runs of a pull request are ever claimed, live, uncertain or with an unresolved
\* push at the same time, for any number of workers racing through _claim.
THEOREM OneRunPerPR == Spec => []OnePerPR
<1>1. Init => OnePerPR
  BY LedgerAssumption DEF Init, OnePerPR, Occupies, Active
<1>2. TypeInv /\ OnePerPR /\ [Next]_vars => OnePerPR'
  BY OnePerPRStep
<1> QED BY <1>1, <1>2, TypeInit, TypeNext, PTL DEF Spec

-----------------------------------------------------------------------------
\* Seat capacity.

\* A claim finds its seat below capacity under the writer lock, and adds one run.
LEMMA CapacityStep ==
  ASSUME TypeInv, WithinCapacity, [Next]_vars
  PROVE  WithinCapacity'
<1> SUFFICES ASSUME NEW repo \in Repo, NEW seat \in Seat
             PROVE  Cardinality(ActiveOf(repo, seat)') <= Capacity[seat]
  BY DEF WithinCapacity
<1> DEFINE A == ActiveOf(repo, seat)
<1>0. /\ A \subseteq Run /\ IsFiniteSet(A) /\ A' \subseteq Run
      /\ Cardinality(A) \in Nat /\ Cardinality(A) <= Capacity[seat] /\ Capacity[seat] \in Nat
  BY RunsFinite, FS_Subset, FS_CardinalityType, LedgerAssumption DEF ActiveOf, WithinCapacity
<1>1. CASE A' \subseteq A
  BY <1>0, <1>1, FS_Subset, FS_CardinalityType
<1>2. ASSUME NEW r \in A', r \notin A
      PROVE  Cardinality(A') <= Capacity[seat]
  <2>1. /\ r \in Run /\ RepoOf[r] = repo /\ SeatOf[r] = seat
        /\ state[r] \notin Active /\ state'[r] \in Active
    BY <1>2 DEF ActiveOf
  <2>2. PICK w \in Worker : Claim(w) /\ job[w] = r
    BY <2>1, OnlyClaimActivates
  <2>3. Cardinality(A) < Capacity[seat]
    BY <2>1, <2>2 DEF Claim, Free
  <2>4. A' = A \cup {r}
    <3>1. \A q \in Run : q # r => state'[q] = state[q]
      BY <2>2 DEF Claim, TypeInv, TypeOK, LedgerTypeOK
    <3> QED BY <2>1, <3>1 DEF ActiveOf
  <2>5. Cardinality(A \cup {r}) = Cardinality(A) + 1
    BY <1>0, <1>2, FS_AddElement
  <2> QED BY <1>0, <2>3, <2>4, <2>5
<1> QED BY <1>1, <1>2

\* No seat ever has more active runs in a repository than its configured concurrency,
\* however many worker processes race for the last slot.
THEOREM CapacityKept == Spec => []WithinCapacity
<1>1. Init => WithinCapacity
  <2> SUFFICES ASSUME Init, NEW repo \in Repo, NEW seat \in Seat
               PROVE  Cardinality(ActiveOf(repo, seat)) <= Capacity[seat]
    BY DEF WithinCapacity
  <2>1. ActiveOf(repo, seat) = {}
    BY DEF Init, ActiveOf, Active
  <2> QED BY <2>1, FS_EmptySet, LedgerAssumption
<1>2. TypeInv /\ WithinCapacity /\ [Next]_vars => WithinCapacity'
  BY CapacityStep
<1> QED BY <1>1, <1>2, TypeInit, TypeNext, PTL DEF Spec

-----------------------------------------------------------------------------
(***************************************************************************)
(* Writes to GitHub: each run writes at most once, only while its row is   *)
(* live or uncertain, never without a record, and a run that may be        *)
(* launched (again) has not written.                                       *)
(*                                                                         *)
(* None of these is inductive alone.  RowInv relates the columns of a row  *)
(* to what GitHub holds; StepInv relates a worker's step to its run's row: *)
(* from the launch on, the worker is the row's owner or can touch it no    *)
(* more, and from the turn on it is, and the row stays live or uncertain.  *)
(***************************************************************************)

Clean(r) ==
  /\ ~intent[r] /\ ~inflight[r] /\ receipt[r] \notin {"claimed", "posted"}
  /\ landed[r] = (IF confirmed[r] \/ receipt[r] = "confirmed" THEN 1 ELSE 0)

RowOK(r) ==
  /\ IF Fixer(r) THEN receipt[r] \in {"none", "disputed"}
                 ELSE receipt[r] # "disputed" /\ ~intent[r] /\ ~confirmed[r]
  /\ error[r] = "reconciled" => state[r] = "failed"
  /\ landed[r] \in {0, 1} /\ (inflight[r] => landed[r] = 0)
  /\ inflight[r] \/ landed[r] > 0 => WriteRecords(r) \/ error[r] = "reconciled"
  /\ inflight[r] => state[r] \in {"running", "uncertain"} /\ (intent[r] \/ receipt[r] = "claimed")
  /\ state[r] \in {"absent", "pending", "waiting", "claimed", "launching"} => ~WriteRecords(r)
  /\ state[r] = "succeeded" => Clean(r)

RowInv == \A r \in Run : RowOK(r)

\* Before the turn: a worker that lost its row to a sweep is no longer its owner.
BeforeTurn(w) ==
  LET r == job[w] IN
  /\ pc[w] = "checked" => state[r] = "pending"
  /\ owner[r] = w =>
       /\ pc[w] = "claimed" => state[r] = "claimed"
       /\ pc[w] = "launched" => state[r] \in {"launching", "uncertain", "failed"}
       /\ pc[w] = "ready" => /\ state[r] \in {"running", "uncertain", "failed"}
                             /\ state[r] = "running" => pid[r] = w
       /\ pc[w] \in {"claimed", "launched", "ready"} => ~WriteRecords(r)

\* The turn and its broker: the worker keeps its row, whatever sweeps and operators do.
Succeeding(w) == pc[w] = "finish" /\ arg[w] = "success"
InTurn(w) ==
  LET r == job[w] IN
  /\ pc[w] \in Broker \/ Succeeding(w) =>
       owner[r] = w /\ pid[r] = w /\ state[r] \in {"running", "uncertain"}
  /\ pc[w] = "turn" => ~WriteRecords(r)
  /\ pc[w] \in {"posting", "awaiting"} => ~Fixer(r) /\ receipt[r] = "claimed"
  /\ pc[w] = "unnamed" => ~Fixer(r) /\ receipt[r] = "posted"
  /\ pc[w] \in {"pushing", "pushed_unread"} => Fixer(r) /\ intent[r]
  /\ pc[w] = "pushed" => Fixer(r)
  /\ pc[w] = "answering" => Fixer(r) /\ Clean(r)
  /\ pc[w] \in {"posting", "pushing"} => landed[r] = 0 /\ ~inflight[r]
  /\ pc[w] \in {"pushed", "done"} \/ Succeeding(w) => Clean(r)

\* The policy lock is held, and the policy on, through the whole of a push.
PushLocked(w) ==
  pc[w] \in {"pushing", "pushed_unread"} => plock = w /\ PushOn(job[w]) /\ admitted[job[w]]

StepOK(w) == pc[w] # "idle" => BeforeTurn(w) /\ InTurn(w) /\ PushLocked(w)
StepInv == \A w \in Worker : StepOK(w)

WriteInv == TypeInv /\ RowInv /\ StepInv

-----------------------------------------------------------------------------
\* What a step leaves alone keeps its part of the invariant.

SameRow(r) ==
  /\ state'[r] = state[r] /\ error'[r] = error[r] /\ owner'[r] = owner[r] /\ pid'[r] = pid[r]
  /\ admitted'[r] = admitted[r] /\ intent'[r] = intent[r] /\ confirmed'[r] = confirmed[r]
  /\ receipt'[r] = receipt[r] /\ inflight'[r] = inflight[r] /\ landed'[r] = landed[r]

SameWorker(v) == pc'[v] = pc[v] /\ job'[v] = job[v] /\ arg'[v] = arg[v]

\* The lock is still the worker's, if it was, and the policy was not changed under it.
SamePolicy(v) == plock = v => plock' = v /\ policy' = policy

\* A row that no column of changes keeps its invariant.
LEMMA RowFrame ==
  ASSUME NEW r \in Run, RowOK(r), SameRow(r)
  PROVE  RowOK(r)'
  BY DEF SameRow, RowOK, Clean, WriteRecords, Fixer

\* A worker that does not move, over a row that does not change, keeps its invariant.
LEMMA StepFrame ==
  ASSUME NEW v \in Worker, StepOK(v), SameWorker(v), SameRow(job[v]), SamePolicy(v)
  PROVE  StepOK(v)'
  BY DEF SameWorker, SameRow, SamePolicy, StepOK, BeforeTurn, InTurn, PushLocked, Succeeding,
     Clean, WriteRecords, Fixer, PushOn

\* A worker that does not own its run is past checking it and before its turn, or has
\* failed: whatever the owner does to the row, the worker's part stands.
LEMMA NotOwner ==
  ASSUME NEW v \in Worker, StepOK(v), SameWorker(v), SamePolicy(v), owner[job[v]] # v,
         owner'[job[v]] # v, pc[v] = "checked" => state'[job[v]] = state[job[v]]
  PROVE  StepOK(v)'
  BY DEF SameWorker, SamePolicy, StepOK, BeforeTurn, InTurn, PushLocked, Succeeding,
     Broker, MidWrite

\* The step of an owner in its turn: other rows, other workers and the policy stay.
OwnStep(w) ==
  /\ \A q \in Run : q # job[w] => SameRow(q)
  /\ \A v \in Worker : v # w => SameWorker(v) /\ SamePolicy(v)
  /\ owner'[job[w]] = owner[job[w]]

\* What an owner does to its own row is nobody else's concern: another worker with the
\* same run has lost it.
LEMMA OwnStepKeeps ==
  ASSUME WriteInv, NEW w \in Worker, NEW r \in Run, job[w] = r, owner[r] = w,
         state[r] # "pending", OwnStep(w), RowOK(r)', StepOK(w)'
  PROVE  RowInv' /\ StepInv'
<1>1. ASSUME NEW q \in Run PROVE RowOK(q)'
  <2>1. CASE q # r
    BY <2>1, RowFrame DEF OwnStep, WriteInv, RowInv
  <2> QED BY <2>1
<1>2. ASSUME NEW v \in Worker PROVE StepOK(v)'
  <2>0. StepOK(v) /\ (pc[v] # "idle" => job[v] \in Run)
    BY DEF WriteInv, StepInv, TypeInv, JobOK
  <2>1. CASE v = w
    BY <2>1
  <2>2. CASE v # w /\ pc[v] = "idle"
    BY <2>2 DEF OwnStep, SameWorker, StepOK
  <2>3. CASE v # w /\ pc[v] # "idle" /\ job[v] # job[w]
    BY <2>0, <2>3, StepFrame DEF OwnStep
  <2>4. CASE v # w /\ pc[v] # "idle" /\ job[v] = job[w]
    <3>1. pc[v] # "checked"
      BY <2>0, <2>4 DEF StepOK, BeforeTurn
    <3> QED BY <2>0, <2>4, <3>1, NotOwner DEF OwnStep
  <2> QED BY <2>1, <2>2, <2>3, <2>4
<1> QED BY <1>1, <1>2 DEF RowInv, StepInv

-----------------------------------------------------------------------------
\* The broker's steps.  Each concerns the worker w and its run, which w owns.

\* A worker whose broker is up owns its run's row, and the row is live or uncertain.
LEMMA BrokerOwns ==
  ASSUME WriteInv, NEW w \in Worker, pc[w] \in Broker
  PROVE  /\ LedgerTypeOK /\ WorkerTypeOK /\ WorldTypeOK
         /\ job[w] \in Run /\ StepOK(w) /\ RowOK(job[w]) /\ BeforeTurn(w) /\ InTurn(w)
         /\ PushLocked(w) /\ owner[job[w]] = w /\ pid[job[w]] = w
         /\ state[job[w]] \in {"running", "uncertain"}
  BY DEF WriteInv, TypeInv, TypeOK, JobOK, StepInv, RowInv, StepOK, InTurn, Broker, MidWrite

\* The receipt is claimed before the POST, and every way the POST can end keeps it on
\* record: review_receipt.submit and the broker's refusals preserve the invariant.
LEMMA ReviewWrites ==
  ASSUME WriteInv, NEW w \in Worker,
         \/ ReviewClaim(w) \/ ReviewPost(w) \/ ReviewConfirm(w) \/ ReviewPosted(w)
         \/ RecordIneligible(w) \/ ReviewLost(w) \/ Refused(w) \/ HeldForPerson(w)
         \/ AnswersOnly(w) \/ Answered(w)
  PROVE  RowInv' /\ StepInv'
<1>0. pc[w] \in Broker
  BY DEF ReviewClaim, ReviewPost, ReviewConfirm, ReviewPosted, RecordIneligible, ReviewLost,
     Refused, HeldForPerson, AnswersOnly, Answered, Broker, MidWrite
<1> PICK r \in Run : job[w] = r
  BY <1>0, BrokerOwns
<1> USE <1>0, BrokerOwns DEF LedgerTypeOK, WorkerTypeOK, WorldTypeOK
<1>1. OwnStep(w)
  BY DEF OwnStep, SameRow, SameWorker, SamePolicy, ReviewClaim, ReviewPost, ReviewConfirm,
     ReviewPosted, RecordIneligible, ReviewLost, Refused, HeldForPerson, AnswersOnly,
     Answered, SetReceipt, Goto,
     ledgerVars, policyVars, githubVars
<1>2. RowOK(r)' /\ StepOK(w)'
  <2> USE DEF RowOK, StepOK, BeforeTurn, InTurn, PushLocked, Succeeding, Clean, WriteRecords,
          Fixer, Goto, SetReceipt, ledgerVars, policyVars, githubVars
  <2>1. CASE ReviewClaim(w)       BY <2>1 DEF ReviewClaim
  <2>2. CASE ReviewPost(w)        BY <2>2 DEF ReviewPost
  <2>3. CASE ReviewConfirm(w)     BY <2>3 DEF ReviewConfirm
  <2>4. CASE ReviewPosted(w)      BY <2>4 DEF ReviewPosted
  <2>5. CASE RecordIneligible(w)  BY <2>5 DEF RecordIneligible
  <2>6. CASE ReviewLost(w)        BY <2>6 DEF ReviewLost
  <2>7. CASE Refused(w)           BY <2>7 DEF Refused
  <2>8. CASE HeldForPerson(w)     BY <2>8 DEF HeldForPerson
  <2>9. CASE AnswersOnly(w)       BY <2>9 DEF AnswersOnly
  <2>10. CASE Answered(w)         BY <2>10 DEF Answered
  <2> QED BY <2>1, <2>2, <2>3, <2>4, <2>5, <2>6, <2>7, <2>8, <2>9, <2>10
<1> QED BY <1>1, <1>2, OwnStepKeeps

\* The intent is committed before the push, under the policy lock, and is resolved only
\* by a confirmation of a push that landed: the push path preserves the invariant.
LEMMA PushWrites ==
  ASSUME WriteInv, NEW w \in Worker,
         \/ BeginPush(w) \/ PushDenied(w) \/ PushSend(w) \/ PushConfirm(w)
         \/ PushQuarantine(w) \/ RequestReview(w)
  PROVE  RowInv' /\ StepInv'
<1>0. pc[w] \in Broker
  BY DEF BeginPush, PushDenied, PushSend, PushConfirm, PushQuarantine, RequestReview,
     Broker, MidWrite
<1> PICK r \in Run : job[w] = r
  BY <1>0, BrokerOwns
<1> USE <1>0, BrokerOwns DEF LedgerTypeOK, WorkerTypeOK, WorldTypeOK
<1>1. OwnStep(w)
  BY LedgerAssumption DEF OwnStep, SameRow, SameWorker, SamePolicy, BeginPush, PushDenied,
     PushSend, PushConfirm, PushQuarantine, RequestReview, Goto, Unlock,
     ledgerVars, policyVars, githubVars
<1>2. RowOK(r)' /\ StepOK(w)'
  <2> USE DEF RowOK, StepOK, BeforeTurn, InTurn, PushLocked, Succeeding, Clean, WriteRecords,
          Fixer, PushOn, Goto, Unlock, ledgerVars, policyVars, githubVars
  <2>1. CASE BeginPush(w)       BY <2>1 DEF BeginPush
  <2>2. CASE PushDenied(w)      BY <2>2 DEF PushDenied
  <2>3. CASE PushSend(w)        BY <2>3 DEF PushSend
  <2>4. CASE PushConfirm(w)     BY <2>4 DEF PushConfirm
  <2>5. CASE PushQuarantine(w)  BY <2>5 DEF PushQuarantine
  <2>6. CASE RequestReview(w)   BY <2>6 DEF RequestReview
  <2> QED BY <2>1, <2>2, <2>3, <2>4, <2>5, <2>6
<1> QED BY <1>1, <1>2, OwnStepKeeps

-----------------------------------------------------------------------------
\* The steps before the turn, and its end.  A worker that is not its run's owner moves
\* on, but writes nothing.

\* Launching, holding, starting and ending a turn preserve the invariant, also for a
\* worker that was swept meanwhile.
LEMMA LaunchWrites ==
  ASSUME WriteInv, NEW w \in Worker,
         Launch(w) \/ Enter(w) \/ Hold(w) \/ PolicyHold(w) \/ StartTurn(w) \/ EndTurn(w)
  PROVE  RowInv' /\ StepInv'
<1>0. /\ LedgerTypeOK /\ WorkerTypeOK /\ WorldTypeOK
      /\ job[w] \in Run /\ pc[w] \in {"claimed", "launched", "ready"} \cup Broker
      /\ StepOK(w) /\ RowOK(job[w])
  BY DEF WriteInv, TypeInv, TypeOK, JobOK, StepInv, RowInv, Launch, Enter, Hold, PolicyHold,
     StartTurn, EndTurn, Broker, MidWrite
<1> PICK r \in Run : job[w] = r
  BY <1>0
<1> USE <1>0 DEF LedgerTypeOK, WorkerTypeOK, WorldTypeOK
<1>1. OwnStep(w)
  BY DEF OwnStep, SameRow, SameWorker, SamePolicy, Launch, Enter, Hold, PolicyHold,
     StartTurn, EndTurn, Goto, Finish, ledgerVars, policyVars, githubVars
<1>2. RowOK(r)' /\ StepOK(w)'
  <2> USE DEF RowOK, StepOK, BeforeTurn, InTurn, PushLocked, Succeeding, Clean, WriteRecords,
          Fixer, PushOn, Goto, Finish, Broker, MidWrite, PolicyErrors,
          ledgerVars, policyVars, githubVars
  <2>1. CASE Launch(w)      BY <2>1 DEF Launch
  <2>2. CASE Enter(w)       BY <2>2 DEF Enter
  <2>3. CASE Hold(w)        BY <2>3 DEF Hold
  <2>4. CASE PolicyHold(w)  BY <2>4 DEF PolicyHold
  <2>5. CASE StartTurn(w)   BY <2>5 DEF StartTurn
  <2>6. CASE EndTurn(w)     BY <2>6 DEF EndTurn
  <2> QED BY <2>1, <2>2, <2>3, <2>4, <2>5, <2>6
<1>3. CASE owner[r] = w
  <2>1. state[r] # "pending"
    BY <1>3 DEF StepOK, BeforeTurn, InTurn, Broker, MidWrite
  <2> QED BY <1>1, <1>2, <1>3, <2>1, OwnStepKeeps
<1>4. CASE owner[r] # w
  <2>1. SameRow(r)
    BY <1>4 DEF SameRow, StepOK, InTurn, Launch, Enter, Hold, PolicyHold, StartTurn, EndTurn,
       ledgerVars, githubVars
  <2>2. ASSUME NEW q \in Run PROVE RowOK(q)'
    BY <1>1, <2>1, RowFrame DEF OwnStep, WriteInv, RowInv
  <2>3. ASSUME NEW v \in Worker, v # w PROVE StepOK(v)'
    <3>1. CASE pc[v] = "idle"
      BY <1>1, <2>3, <3>1 DEF OwnStep, SameWorker, StepOK
    <3>2. CASE pc[v] # "idle"
      BY <1>1, <2>1, <2>3, <3>2, StepFrame DEF OwnStep, WriteInv, StepInv, TypeInv, JobOK
    <3> QED BY <3>1, <3>2
  <2> QED BY <1>2, <2>2, <2>3 DEF RowInv, StepInv
<1> QED BY <1>3, <1>4

-----------------------------------------------------------------------------
\* Steps of the gate, the operator, GitHub and the sweep: no worker moves.

\* No event, operator command, answer of GitHub or sweep makes a run that may have
\* written schedulable, or takes a live worker's row away.
LEMMA QuietWrites ==
  ASSUME WriteInv,
         \/ \E r \in Run : GateStep(r) \/ Retry(r) \/ Reconcile(r) \/ Land(r) \/ Lose(r)
         \/ \E repo \in Repo, on \in BOOLEAN : SetPolicy(repo, on)
         \/ Recover
  PROVE  RowInv' /\ StepInv'
<1> USE LedgerAssumption DEF WriteInv, TypeInv, TypeOK, LedgerTypeOK, WorldTypeOK, WorkerTypeOK
<1>1. ASSUME NEW q \in Run PROVE RowOK(q)'
  <2>0. RowOK(q)
    BY DEF RowInv
  <2> USE <2>0 DEF RowOK, Clean, WriteRecords, Fixer
  <2>1. ASSUME NEW r \in Run, Enqueue(r) PROVE RowOK(q)'
    BY <2>1 DEF Enqueue, githubVars
  <2>2. ASSUME NEW r \in Run, Redeliver(r) \/ Retry(r) PROVE RowOK(q)'
    BY <2>2 DEF Redeliver, Retry, Rearm, WriteEvidence, Quarantines, Rearmable, githubVars
  <2>3. ASSUME NEW r \in Run, Reconcile(r) PROVE RowOK(q)'
    BY <2>3 DEF Reconcile, githubVars
  <2>4. ASSUME NEW r \in Run, Land(r) \/ Lose(r) PROVE RowOK(q)'
    BY <2>4 DEF Land, Lose, ledgerVars
  <2>5. ASSUME NEW repo \in Repo, NEW on \in BOOLEAN, SetPolicy(repo, on) PROVE RowOK(q)'
    BY <2>5 DEF SetPolicy, ledgerVars, githubVars
  <2>6. CASE Recover
    BY <2>6 DEF Recover, githubVars
  <2> QED BY <2>1, <2>2, <2>3, <2>4, <2>5, <2>6 DEF GateStep
<1>2. ASSUME NEW v \in Worker PROVE StepOK(v)'
  <2>0. CASE pc[v] = "idle"
    BY <2>0 DEF StepOK, GateStep, Enqueue, Redeliver, Retry, Reconcile, Land, Lose, SetPolicy,
       Recover, workerVars
  <2> SUFFICES ASSUME pc[v] # "idle" PROVE StepOK(v)'
    BY <2>0
  <2> PICK s \in Run : job[v] = s
    BY DEF JobOK
  <2>a. StepOK(v) /\ RowOK(s)
    BY DEF StepInv, RowInv
  <2> USE <2>a DEF StepOK, BeforeTurn, InTurn, PushLocked, Succeeding, Clean, WriteRecords,
          Fixer, PushOn, workerVars, policyVars, githubVars
  <2>1. ASSUME NEW r \in Run, Enqueue(r) PROVE StepOK(v)'
    BY <2>1 DEF Enqueue
  <2>2. ASSUME NEW r \in Run, Redeliver(r) \/ Retry(r) PROVE StepOK(v)'
    BY <2>2 DEF Redeliver, Retry, Rearm, Rearmable
  <2>3. ASSUME NEW r \in Run, Reconcile(r) PROVE StepOK(v)'
    BY <2>3 DEF Reconcile, Broker, MidWrite
  <2>4. ASSUME NEW r \in Run, Land(r) \/ Lose(r) PROVE StepOK(v)'
    BY <2>4 DEF Land, Lose, ledgerVars, RowOK
  <2>5. ASSUME NEW repo \in Repo, NEW on \in BOOLEAN, SetPolicy(repo, on) PROVE StepOK(v)'
    BY <2>5 DEF SetPolicy, ledgerVars
  <2>6. CASE Recover
    BY <2>6 DEF Recover
  <2> QED BY <2>1, <2>2, <2>3, <2>4, <2>5, <2>6 DEF GateStep
<1> QED BY <1>1, <1>2 DEF RowInv, StepInv

-----------------------------------------------------------------------------
\* The claim: a row leaves `pending' only here, and its other snapshots go stale.

\* Only pending rows are claimed, and a pending row never wrote; a snapshot of a row that
\* was claimed meanwhile is stale.
LEMMA ClaimWrites ==
  ASSUME WriteInv, NEW w \in Worker, (\E r \in Run : ClaimRead(w, r)) \/ ClaimCommit(w)
  PROVE  RowInv' /\ StepInv'
<1> USE DEF WriteInv, TypeInv, TypeOK, LedgerTypeOK, WorkerTypeOK, WorldTypeOK
<1>1. ASSUME NEW r \in Run, ClaimRead(w, r) PROVE RowInv' /\ StepInv'
  <2>1. \A q \in Run : SameRow(q)
    BY <1>1 DEF ClaimRead, SameRow, ledgerVars, githubVars
  <2>2. ASSUME NEW v \in Worker PROVE StepOK(v)'
    <3>1. CASE v = w
      BY <1>1, <3>1 DEF ClaimRead, StepOK, BeforeTurn, InTurn, PushLocked, Succeeding, Broker,
         MidWrite, ledgerVars
    <3>2. CASE v # w /\ pc[v] = "idle"
      BY <1>1, <3>2 DEF ClaimRead, StepOK
    <3>3. CASE v # w /\ pc[v] # "idle"
      <4>1. SameWorker(v) /\ SamePolicy(v) /\ StepOK(v) /\ job[v] \in Run
        BY <1>1, <3>3 DEF ClaimRead, SameWorker, SamePolicy, policyVars, StepInv, JobOK
      <4> QED BY <2>1, <4>1, StepFrame
    <3> QED BY <3>1, <3>2, <3>3
  <2> QED BY <2>1, <2>2, RowFrame DEF RowInv, StepInv
<1>2. CASE ClaimSkip(w)
  <2>1. \A q \in Run : SameRow(q)
    BY <1>2 DEF ClaimSkip, SameRow, ledgerVars, githubVars
  <2>2. ASSUME NEW v \in Worker PROVE StepOK(v)'
    <3>1. CASE v = w
      BY <1>2, <3>1 DEF ClaimSkip, StepOK
    <3>2. CASE v # w /\ pc[v] = "idle"
      BY <1>2, <3>2 DEF ClaimSkip, StepOK
    <3>3. CASE v # w /\ pc[v] # "idle"
      <4>1. SameWorker(v) /\ SamePolicy(v) /\ StepOK(v) /\ job[v] \in Run
        BY <1>2, <3>3 DEF ClaimSkip, SameWorker, SamePolicy, policyVars, StepInv, JobOK
      <4> QED BY <2>1, <4>1, StepFrame
    <3> QED BY <3>1, <3>2, <3>3
  <2> QED BY <2>1, <2>2, RowFrame DEF RowInv, StepInv
<1>3. CASE ClaimRefuse(w) \/ ClaimRetire(w) \/ ClaimBackoff(w) \/ ClaimFail(w) \/ Claim(w)
  <2>1. pc[w] = "checked" /\ job[w] \in Run
    BY <1>3 DEF ClaimRefuse, ClaimRetire, ClaimBackoff, ClaimFail, Claim, JobOK
  <2> PICK r \in Run : job[w] = r
    BY <2>1
  <2>2. state[r] = "pending" /\ RowOK(r)
    BY <2>1 DEF StepInv, StepOK, BeforeTurn, RowInv
  <2>3. \A q \in Run : q # r => SameRow(q)
    BY <1>3 DEF ClaimRefuse, ClaimRetire, ClaimBackoff, ClaimFail, Claim, ClaimWrite,
       SameRow, githubVars
  <2>4. RowOK(r)'
    <3> USE <2>2 DEF RowOK, Clean, WriteRecords, Fixer, ClaimWrite, githubVars
    <3>1. CASE ClaimRefuse(w)   BY <3>1 DEF ClaimRefuse, PolicyErrors
    <3>2. CASE ClaimRetire(w)   BY <3>2 DEF ClaimRetire
    <3>3. CASE ClaimBackoff(w)  BY <3>3 DEF ClaimBackoff
    <3>4. CASE ClaimFail(w)     BY <3>4 DEF ClaimFail
    <3>5. CASE Claim(w)         BY <3>5 DEF Claim
    <3> QED BY <1>3, <3>1, <3>2, <3>3, <3>4, <3>5
  <2>5. StepOK(w)'
    <3>1. CASE Claim(w)
      BY <2>1, <2>2, <3>1 DEF Claim, ClaimWrite, StepOK, BeforeTurn, InTurn, PushLocked,
         Succeeding, Broker, MidWrite, RowOK, WriteRecords
    <3>2. CASE ~Claim(w)
      BY <1>3, <2>1, <3>2 DEF ClaimRefuse, ClaimRetire, ClaimBackoff, ClaimFail, ClaimWrite,
         StepOK
    <3> QED BY <3>1, <3>2
  <2>6. ASSUME NEW v \in Worker, v # w PROVE StepOK(v)'
    <3>0. StepOK(v) /\ (pc[v] # "idle" => job[v] \in Run)
      BY DEF StepInv, JobOK
    <3>1. PICK label \in {"idle", "claimed"} : ClaimWrite(w, label)
      BY <1>3 DEF ClaimRefuse, ClaimRetire, ClaimBackoff, ClaimFail, Claim
    <3>2. CASE pc[v] = "idle" \/ (pc[v] = "checked" /\ job[v] = r)
      BY <2>6, <3>1, <3>2 DEF ClaimWrite, StepOK, BeforeTurn, InTurn, PushLocked, Succeeding,
         Broker, MidWrite
    <3>3. CASE ~(pc[v] = "idle" \/ (pc[v] = "checked" /\ job[v] = r))
      <4>1. SameWorker(v) /\ SamePolicy(v)
        BY <2>6, <3>1, <3>3 DEF ClaimWrite, SameWorker, SamePolicy, policyVars
      <4>2. CASE job[v] # r
        BY <2>3, <3>0, <3>3, <4>1, <4>2, StepFrame
      <4>3. CASE job[v] = r /\ owner[r] = v
        BY <2>2, <3>0, <3>1, <3>3, <4>1, <4>3 DEF StepOK, BeforeTurn, InTurn, PushLocked,
           Succeeding, SameWorker, Broker, MidWrite
      <4>4. CASE job[v] = r /\ owner[r] # v
        <5>1. owner'[r] # v
          BY <1>3, <2>6, <4>4 DEF ClaimRefuse, ClaimRetire, ClaimBackoff, ClaimFail, Claim
        <5> QED BY <3>0, <3>3, <4>1, <4>4, <5>1, NotOwner
      <4> QED BY <4>2, <4>3, <4>4
    <3> QED BY <3>2, <3>3
  <2>7. ASSUME NEW q \in Run PROVE RowOK(q)'
    <3>1. CASE q # r
      BY <2>3, <3>1, RowFrame DEF RowInv
    <3> QED BY <2>4, <3>1
  <2> QED BY <2>5, <2>6, <2>7 DEF RowInv, StepInv
<1> QED BY <1>1, <1>2, <1>3 DEF ClaimCommit

-----------------------------------------------------------------------------
\* Completion, and the end of a worker process.

\* complete_uncertain calls a run finished only when no write of it is in doubt, lets it
\* run again only when it never wrote, and keeps an unstopped broker's run uncertain.
LEMMA OutcomeFacts ==
  ASSUME LedgerTypeOK, NEW r \in Run, NEW result \in Result, NEW stopped \in BOOLEAN,
         NEW o, o = Outcome(r, result, stopped)
  PROVE  /\ o.state \in {"waiting", "uncertain", "succeeded", "failed", "cancelled"}
         /\ o.error # "reconciled"
         /\ o.state # "uncertain" => stopped /\ ~intent[r] /\ receipt[r] # "claimed"
         /\ o.state = "waiting" => ~WriteRecords(r)
         /\ o.state = "succeeded" => stopped /\ result = "success"
<1> USE DEF LedgerTypeOK, Outcome, WriteRecords, Result, PolicyErrors
<1>1. CASE stopped = TRUE
  BY <1>1
<1>2. CASE stopped = FALSE
  BY <1>2
<1> QED BY <1>1, <1>2

\* The row of a run whose owner records its end: nothing that may have written becomes
\* schedulable, and a broker that may still write leaves the row uncertain.
LEMMA RecordWrites ==
  ASSUME TypeInv, NEW w \in Worker, NEW r \in Run, job[w] = r, RowOK(r), StepOK(w), pc[w] # "idle",
         NEW result \in Result, NEW stopped \in BOOLEAN, Record(w, result, stopped),
         stopped /\ result = "success" => Succeeding(w),
         UNCHANGED <<owner, admitted, intent, confirmed, receipt, githubVars>>
  PROVE  /\ RowOK(r)'
         /\ ~stopped /\ state[r] \in {"running", "uncertain"} =>
              state'[r] \in {"running", "uncertain"}
         /\ \A q \in Run : q # r => state'[q] = state[q] /\ error'[q] = error[q]
<1> USE DEF TypeInv, TypeOK, LedgerTypeOK, WorldTypeOK, githubVars
<1>1. CASE owner[r] = w /\ state[r] \in {"launching", "running", "uncertain"}
  <2> DEFINE o == Outcome(r, result, stopped)
  <2>1. /\ state' = [state EXCEPT ![r] = o.state]
        /\ error' = [error EXCEPT ![r] = o.error]
    BY <1>1 DEF Record
  <2>2. /\ o.state \in {"waiting", "uncertain", "succeeded", "failed", "cancelled"}
        /\ o.error # "reconciled"
        /\ o.state # "uncertain" => stopped /\ ~intent[r] /\ receipt[r] # "claimed"
        /\ o.state = "waiting" => ~WriteRecords(r)
        /\ o.state = "succeeded" => stopped /\ result = "success"
    BY OutcomeFacts
  <2> HIDE DEF o
  <2>3. RowOK(r)'
    BY <1>1, <2>1, <2>2 DEF RowOK, Clean, WriteRecords, Fixer, StepOK, InTurn, Succeeding
  <2> QED BY <2>1, <2>2, <2>3
<1>2. CASE ~(owner[r] = w /\ state[r] \in {"launching", "running", "uncertain"})
  <2>1. UNCHANGED <<state, error>>
    BY <1>2 DEF Record
  <2> QED BY <2>1 DEF RowOK, Clean, WriteRecords, Fixer
<1> QED BY <1>1, <1>2

\* Completion, a broker that would not stop, exit and crash preserve the invariant: what
\* may have been written keeps the row uncertain.
LEMMA EndWrites ==
  ASSUME WriteInv, NEW w \in Worker,
         Complete(w) \/ EndUnstopped(w) \/ Exit(w) \/ Crash(w)
  PROVE  RowInv' /\ StepInv'
<1> USE DEF WriteInv, TypeInv, TypeOK, LedgerTypeOK, WorkerTypeOK, WorldTypeOK
<1>0. StepOK(w)
  BY DEF StepInv
<1>1. ASSUME NEW q \in Run, q = job[w], Complete(w) \/ EndUnstopped(w)
      PROVE  RowOK(q)' /\ (EndUnstopped(w) => state'[q] \in {"running", "uncertain"})
  <2>1. pc[w] # "idle" /\ RowOK(q)
    BY <1>1 DEF Complete, EndUnstopped, Broker, MidWrite, RowInv
  <2>2. UNCHANGED <<owner, admitted, intent, confirmed, receipt, githubVars>>
    BY <1>1 DEF Complete, EndUnstopped
  <2>3. CASE Complete(w)
    <3>1. arg[w] \in Result /\ Record(w, arg[w], TRUE) /\ (arg[w] = "success" => Succeeding(w))
      BY <2>3 DEF Complete, Carries, Succeeding
    <3>2. ~EndUnstopped(w)
      BY <2>3 DEF Complete, EndUnstopped, Broker, MidWrite
    <3> QED BY <1>0, <1>1, <2>1, <2>2, <3>1, <3>2, RecordWrites
  <2>4. CASE EndUnstopped(w)
    <3>1. "fatal" \in Result /\ Record(w, "fatal", FALSE) /\ pc[w] \in Broker
      BY <2>4 DEF EndUnstopped, Result
    <3>2. state[q] \in {"running", "uncertain"}
      BY <1>1, <3>1, BrokerOwns
    <3> QED BY <1>0, <1>1, <2>1, <2>2, <3>1, <3>2, RecordWrites
  <2> QED BY <1>1, <2>3, <2>4
<1>2. ASSUME NEW q \in Run PROVE RowOK(q)'
  <2>1. CASE q # job[w] \/ Exit(w) \/ Crash(w)
    <3>1. state'[q] = state[q] /\ error'[q] = error[q]
      BY <2>1 DEF Complete, EndUnstopped, Exit, Crash, Record
    <3> QED BY <3>1 DEF Complete, EndUnstopped, Exit, Crash, RowInv, RowOK, Clean, WriteRecords,
               Fixer, githubVars
  <2> QED BY <1>1, <2>1
<1>3. ASSUME NEW v \in Worker, v # w, pc[v] # "idle" PROVE StepOK(v)'
  <2>1. SameWorker(v) /\ SamePolicy(v) /\ StepOK(v) /\ job[v] \in Run
    BY <1>3 DEF StepInv, JobOK, SameWorker, SamePolicy, Complete, EndUnstopped, Exit, Crash,
       Leave, policyVars
  <2>2. CASE owner[job[v]] = v
    <3>1. /\ state'[job[v]] = state[job[v]]
          /\ pid[job[v]] = v => pid'[job[v]] = v
      BY <1>3, <2>1, <2>2 DEF Complete, EndUnstopped, Exit, Crash, Leave, Record
    <3>2. UNCHANGED <<owner, admitted, intent, confirmed, receipt, inflight, landed>>
      BY DEF Complete, EndUnstopped, Exit, Crash, githubVars
    <3> QED BY <2>1, <2>2, <3>1, <3>2 DEF SameWorker, SamePolicy, StepOK, BeforeTurn, InTurn,
               PushLocked, Succeeding, Clean, WriteRecords, Fixer, PushOn
  <2>3. CASE owner[job[v]] # v
    <3>1. owner'[job[v]] # v
      BY <2>3 DEF Complete, EndUnstopped, Exit, Crash
    <3>2. pc[v] = "checked" => state'[job[v]] = state[job[v]]
      BY <1>0, <2>1 DEF Complete, EndUnstopped, Exit, Crash, Record, StepOK, BeforeTurn
    <3> QED BY <2>1, <2>3, <3>1, <3>2, NotOwner
  <2> QED BY <2>2, <2>3
<1>4. ASSUME NEW v \in Worker, v # w, pc[v] = "idle" PROVE StepOK(v)'
  BY <1>4 DEF Complete, EndUnstopped, Exit, Crash, Leave, StepOK
<1>5. StepOK(w)'
  <2>1. CASE Complete(w) \/ Exit(w) \/ Crash(w)
    BY <2>1 DEF Complete, Exit, Crash, Leave, StepOK
  <2>2. CASE EndUnstopped(w)
    <3>1. pc[w] \in Broker
      BY <2>2 DEF EndUnstopped
    <3> PICK r \in Run : job[w] = r
      BY <3>1, BrokerOwns
    <3>2. state'[r] \in {"running", "uncertain"}
      BY <1>1, <2>2
    <3> QED BY <1>0, <2>2, <3>1, <3>2, BrokerOwns
            DEF EndUnstopped, StepOK, BeforeTurn, InTurn, PushLocked, Succeeding, Clean,
                WriteRecords, Fixer, PushOn, Broker, MidWrite, policyVars, githubVars
  <2> QED BY <2>1, <2>2
<1> QED BY <1>2, <1>3, <1>4, <1>5 DEF RowInv, StepInv

-----------------------------------------------------------------------------
\* The invariant, and what follows from it.

\* The invariant holds of an empty ledger.
LEMMA WriteInit == Init => WriteInv
<1> SUFFICES ASSUME Init PROVE WriteInv
  OBVIOUS
<1>1. RowInv
  BY DEF Init, RowInv, RowOK, WriteRecords
<1>2. StepInv
  BY DEF Init, StepInv, StepOK
<1> QED BY <1>1, <1>2, TypeInit DEF WriteInv

\* The invariant is inductive.
LEMMA WriteNext == WriteInv /\ [Next]_vars => WriteInv'
<1> SUFFICES ASSUME WriteInv, [Next]_vars PROVE RowInv' /\ StepInv'
  BY TypeNext DEF WriteInv
<1>1. CASE UNCHANGED vars
  BY <1>1 DEF vars, ledgerVars, workerVars, policyVars, githubVars, WriteInv, RowInv, RowOK,
     StepInv, StepOK, BeforeTurn, InTurn, PushLocked, Succeeding, Clean, WriteRecords, Fixer,
     PushOn
<1>2. CASE \E r \in Run : GateStep(r) \/ Land(r) \/ Lose(r) \/ Retry(r) \/ Reconcile(r)
  BY <1>2, QuietWrites
<1>3. CASE \E repo \in Repo, on \in BOOLEAN : SetPolicy(repo, on)
  BY <1>3, QuietWrites
<1>4. CASE Recover
  BY <1>4, QuietWrites
<1>5. CASE \E w \in Worker, r \in Run : ClaimRead(w, r)
  BY <1>5, ClaimWrites
<1>6. CASE \E w \in Worker : WorkerStep(w) \/ Crash(w)
  <2> PICK w \in Worker : WorkerStep(w) \/ Crash(w)
    BY <1>6
  <2> QED BY ClaimWrites, LaunchWrites, ReviewWrites, PushWrites, EndWrites
          DEF WorkerStep, BrokerStep
<1> QED BY <1>1, <1>2, <1>3, <1>4, <1>5, <1>6 DEF Next, OperatorStep

\* The invariant holds in every reachable state.
LEMMA WriteInvariant == Spec => []WriteInv
  BY WriteInit, WriteNext, PTL DEF Spec

\* A run that a worker may launch (again) has never begun a write: no completion, sweep,
\* re-arm or retry lets a run that may have written run a second time.
THEOREM SchedulablePristine == Spec => []SchedulableIsPristine
<1>1. WriteInv => SchedulableIsPristine
  BY DEF WriteInv, RowInv, RowOK, SchedulableIsPristine, TypeInv, TypeOK, WorldTypeOK, Clean
<1> QED BY <1>1, WriteInvariant, PTL

\* At most one GitHub write per run, over its claims, retries, crashes and re-arms.
THEOREM AtMostOneWrite == Spec => []WrittenOnce
<1>1. WriteInv => WrittenOnce
  BY DEF WriteInv, RowInv, RowOK, WrittenOnce
<1> QED BY <1>1, WriteInvariant, PTL

\* Every write that may have happened is on record, or was settled by an operator.
THEOREM WritesRecorded == Spec => []WriteAhead
<1>1. WriteInv => WriteAhead
  BY DEF WriteInv, RowInv, RowOK, WriteAhead
<1> QED BY <1>1, WriteInvariant, PTL

\* While a write of a run may still be made or take effect, its row keeps the PR.
THEOREM WriterKeepsPR == Spec => []WriterHoldsPR
<1>1. WriteInv => WriterHoldsPR
  BY DEF WriteInv, TypeInv, JobOK, RowInv, RowOK, StepInv, StepOK, InTurn, WriterHoldsPR,
     Broker, MidWrite
<1> QED BY <1>1, WriteInvariant, PTL

\* A run recorded as succeeded left no write in doubt.
THEOREM SuccessIsClean == Spec => []SucceededIsClean
<1>1. WriteInv => SucceededIsClean
  BY DEF WriteInv, RowInv, RowOK, Clean, SucceededIsClean
<1> QED BY <1>1, WriteInvariant, PTL

\* The row of a run and what GitHub holds of it agree before its launch and after its success.
THEOREM RowsMatch == Spec => []RowsMatchGitHub
<1>1. SchedulableIsPristine /\ SucceededIsClean => RowsMatchGitHub
  BY DEF RowsMatchGitHub
<1> QED BY <1>1, SchedulablePristine, SuccessIsClean, PTL

\* The push policy cannot be closed under a push that was authorized by it.
THEOREM DisableCannotOvertake == Spec => []DisableWaits
<1>1. WriteInv => DisableWaits
  BY DEF WriteInv, StepInv, StepOK, PushLocked, DisableWaits
<1> QED BY <1>1, WriteInvariant, PTL

\* Two live turns, detached broker threads included, never share a pull request: each
\* owns its row, the row occupies the pull request, and one run at a time does.
THEOREM TurnsExclusive == Spec => []LoneTurn
<1>1. WriteInv /\ OnePerPR => LoneTurn
  <2> SUFFICES ASSUME WriteInv, OnePerPR, NEW v \in Worker, NEW w \in Worker, v # w,
                      pc[v] \in Broker, pc[w] \in Broker, PrOf[job[v]] = PrOf[job[w]]
               PROVE  FALSE
    BY DEF LoneTurn
  <2>1. /\ job[v] \in Run /\ owner[job[v]] = v /\ Occupies(job[v])
        /\ job[w] \in Run /\ owner[job[w]] = w /\ Occupies(job[w])
    BY BrokerOwns DEF Occupies, Active
  <2> QED BY <2>1 DEF OnePerPR
<1> QED BY <1>1, WriteInvariant, OneRunPerPR, PTL

\* What an operator reconciled is never revived, re-run or relabelled, by any event,
\* retry, sweep, or late record of the worker that lost it.
THEOREM ReconciledStays == Spec => ReconciledFinal
<1> DEFINE Stays == \A r \in Run : error[r] = "reconciled" =>
                      state'[r] = state[r] /\ error'[r] = "reconciled"
<1>1. WriteInv /\ [Next]_vars => [Stays]_vars
  <2> SUFFICES ASSUME WriteInv, Next, NEW r \in Run, error[r] = "reconciled"
               PROVE  state'[r] = state[r] /\ error'[r] = "reconciled"
    OBVIOUS
  <2> USE DEF TypeInv, TypeOK, LedgerTypeOK
  <2>0. TypeInv /\ state[r] = "failed"
    BY DEF WriteInv, RowInv, RowOK
  <2> USE <2>0
  <2>1. ASSUME NEW q \in Run, GateStep(q) \/ Land(q) \/ Lose(q) \/ Retry(q) \/ Reconcile(q)
        PROVE  state'[r] = state[r] /\ error'[r] = "reconciled"
    BY <2>1 DEF GateStep, Enqueue, Redeliver, Retry, Rearm, Reconcile, WriteEvidence,
       Quarantines, Land, Lose, ledgerVars
  <2>2. ASSUME NEW repo \in Repo, NEW on \in BOOLEAN, SetPolicy(repo, on)
        PROVE  state'[r] = state[r] /\ error'[r] = "reconciled"
    BY <2>2 DEF SetPolicy, ledgerVars
  <2>3. CASE Recover
    BY <2>3 DEF Recover
  <2>4. ASSUME NEW w \in Worker, NEW q \in Run, ClaimRead(w, q)
        PROVE  state'[r] = state[r] /\ error'[r] = "reconciled"
    BY <2>4 DEF ClaimRead, ledgerVars
  <2>5. ASSUME NEW w \in Worker, WorkerStep(w) \/ Crash(w)
        PROVE  state'[r] = state[r] /\ error'[r] = "reconciled"
    <3>0. pc[w] = "checked" => job[w] # r
      BY DEF WriteInv, StepInv, StepOK, BeforeTurn
    <3>1. pc[w] \in Broker => job[w] # r
      BY BrokerOwns
    <3>2. CASE ClaimCommit(w)
      BY <3>0, <3>2 DEF ClaimCommit, ClaimSkip, ClaimRefuse, ClaimRetire, ClaimBackoff,
         ClaimFail, Claim, ledgerVars
    <3>3. CASE BrokerStep(w)
      BY <3>1, <3>3 DEF BrokerStep, Refused, HeldForPerson, AnswersOnly, Answered,
         ReviewClaim, ReviewPost,
         ReviewConfirm, ReviewPosted, RecordIneligible, ReviewLost, BeginPush, PushDenied,
         PushSend, PushConfirm, PushQuarantine, RequestReview, ledgerVars, Broker, MidWrite
    <3>4. CASE Launch(w) \/ Enter(w) \/ Hold(w) \/ PolicyHold(w) \/ StartTurn(w) \/ EndTurn(w)
      BY <3>4 DEF Launch, Enter, Hold, PolicyHold, StartTurn, EndTurn, ledgerVars
    <3>5. CASE Complete(w) \/ EndUnstopped(w)
      BY <3>5 DEF Complete, EndUnstopped, Record
    <3>6. CASE Exit(w) \/ Crash(w)
      BY <3>6 DEF Exit, Crash
    <3> QED BY <2>5, <3>2, <3>3, <3>4, <3>5, <3>6 DEF WorkerStep
  <2> QED BY <2>1, <2>2, <2>3, <2>4, <2>5 DEF Next, OperatorStep
<1> QED BY <1>1, WriteInvariant, PTL DEF Spec, ReconciledFinal

-----------------------------------------------------------------------------
(* The attempt counters of RunLedger: a run is claimed a bounded number of *)
(* times and fails a bounded number of times, between operator retries.    *)

Most == IF MaxRetries > MaxRearms THEN MaxRetries ELSE MaxRearms

\* A pending row has an attempt left, and a row that can still fail has a retry left.
CountOK(r) ==
  /\ attempts[r] <= MaxAttempts /\ retries[r] <= Most
  /\ state[r] \in {"absent", "pending"} => attempts[r] < MaxAttempts
  /\ state[r] \in {"absent", "pending", "waiting"} \cup Active => retries[r] < Most

CountInv == \A r \in Run : CountOK(r)

\* The larger of the two limits is a positive number, at least each of them.
LEMMA MostType == Most \in Nat \ {0} /\ MaxRetries <= Most /\ MaxRearms <= Most
  BY LedgerAssumption DEF Most

\* A step that leaves a row's state and counters alone keeps its bound.
LEMMA CountFrame ==
  ASSUME NEW r \in Run, CountOK(r), state'[r] = state[r], attempts'[r] = attempts[r],
         retries'[r] = retries[r]
  PROVE  CountOK(r)'
  BY DEF CountOK, Most

\* Completion counts a retryable failure once, and lets the run wait only below the limit.
LEMMA CountRecord ==
  ASSUME TypeInv, NEW w \in Worker, NEW q \in Run, CountOK(q), job[w] \in Run,
         NEW result \in Result, NEW stopped \in BOOLEAN, Record(w, result, stopped),
         attempts' = attempts
  PROVE  CountOK(q)'
<1> USE LedgerAssumption, MostType DEF TypeInv, TypeOK, LedgerTypeOK
<1> DEFINE r == job[w]
           o == Outcome(r, result, stopped)
<1>1. /\ o.state \in {"waiting", "uncertain", "succeeded", "failed", "cancelled"}
      /\ o.retries = retries[r] \/ (o.retries = retries[r] + 1 /\ o.state \in {"waiting", "failed"})
      /\ o.state = "waiting" /\ o.retries # retries[r] => o.retries < MaxRetries
  <2> USE DEF Outcome, Result, PolicyErrors, WriteRecords
  <2>1. CASE stopped = TRUE
    BY <2>1
  <2>2. CASE stopped = FALSE
    BY <2>2
  <2> QED BY <2>1, <2>2
<1>2. CASE owner[r] = w /\ state[r] \in {"launching", "running", "uncertain"}
  <2>1. /\ state' = [state EXCEPT ![r] = o.state]
        /\ retries' = [retries EXCEPT ![r] = o.retries]
    BY <1>2 DEF Record
  <2> HIDE DEF o
  <2> QED BY <1>1, <1>2, <2>1 DEF CountOK, Active, Most
<1>3. CASE ~(owner[r] = w /\ state[r] \in {"launching", "running", "uncertain"})
  BY <1>3, CountFrame DEF Record
<1> QED BY <1>2, <1>3

\* Every transaction keeps the bounds: only a claim spends an attempt, and only a
\* pending row is claimed; a failure is counted below the limit, or ends the run.
LEMMA CountNext == WriteInv /\ CountInv /\ [Next]_vars => CountInv'
<1> SUFFICES ASSUME WriteInv, CountInv, [Next]_vars, NEW q \in Run PROVE CountOK(q)'
  BY DEF CountInv
<1>0. TypeInv /\ CountOK(q)
  BY DEF WriteInv, CountInv
<1> USE <1>0, LedgerAssumption, MostType DEF TypeInv, TypeOK, LedgerTypeOK
<1>1. CASE UNCHANGED vars
  BY <1>1, CountFrame DEF vars, ledgerVars
<1>2. ASSUME NEW r \in Run, GateStep(r) \/ Land(r) \/ Lose(r) \/ Retry(r) \/ Reconcile(r)
      PROVE  CountOK(q)'
  <2>1. CASE Enqueue(r)
    BY <2>1 DEF Enqueue, CountOK, Most, Active
  <2>2. CASE Redeliver(r)
    BY <2>2 DEF Redeliver, Rearm, CountOK, Most, Active
  <2>3. CASE Retry(r)
    BY <2>3 DEF Retry, Rearm, CountOK, Most, Active
  <2>4. CASE Reconcile(r)
    BY <2>4 DEF Reconcile, CountOK, Most, Active
  <2>5. CASE Land(r) \/ Lose(r)
    BY <2>5, CountFrame DEF Land, Lose, ledgerVars
  <2> QED BY <1>2, <2>1, <2>2, <2>3, <2>4, <2>5 DEF GateStep
<1>3. ASSUME NEW repo \in Repo, NEW on \in BOOLEAN, SetPolicy(repo, on) PROVE CountOK(q)'
  BY <1>3, CountFrame DEF SetPolicy, ledgerVars
<1>4. CASE Recover
  BY <1>4 DEF Recover, CountOK, Most, Active
<1>5. ASSUME NEW w \in Worker, NEW r \in Run, ClaimRead(w, r) PROVE CountOK(q)'
  BY <1>5, CountFrame DEF ClaimRead, ledgerVars
<1>6. ASSUME NEW w \in Worker, WorkerStep(w) \/ Crash(w) PROVE CountOK(q)'
  <2>0. pc[w] = "checked" => job[w] \in Run /\ state[job[w]] = "pending" /\ CountOK(job[w])
    BY DEF WriteInv, StepInv, StepOK, BeforeTurn, JobOK, CountInv
  <2>1. CASE ClaimCommit(w)
    <3>1. CASE ClaimSkip(w)
      BY <3>1, CountFrame DEF ClaimSkip, ledgerVars
    <3>2. CASE ClaimRefuse(w) \/ ClaimRetire(w)
      BY <2>0, <3>2 DEF ClaimRefuse, ClaimRetire, CountOK, Most, Active
    <3>3. CASE ClaimBackoff(w)
      BY <2>0, <3>3 DEF ClaimBackoff, CountOK, Most, Active
    <3>4. CASE ClaimFail(w)
      BY <2>0, <3>4 DEF ClaimFail, CountOK, Most, Active
    <3>5. CASE Claim(w)
      BY <2>0, <3>5 DEF Claim, CountOK, Most, Active
    <3> QED BY <2>1, <3>1, <3>2, <3>3, <3>4, <3>5 DEF ClaimCommit
  <2>2. CASE Launch(w) \/ Enter(w)
    BY <2>2 DEF Launch, Enter, CountOK, Most, Active
  <2>3. CASE Hold(w) \/ PolicyHold(w) \/ StartTurn(w) \/ EndTurn(w)
    BY <2>3, CountFrame DEF Hold, PolicyHold, StartTurn, EndTurn, ledgerVars
  <2>4. CASE PushQuarantine(w)
    BY <2>4 DEF PushQuarantine, CountOK, Most, Active
  <2>5. CASE BrokerStep(w) /\ ~PushQuarantine(w)
    BY <2>5, CountFrame DEF BrokerStep, Refused, HeldForPerson, AnswersOnly, Answered,
       ReviewClaim, ReviewPost,
       ReviewConfirm, ReviewPosted, RecordIneligible, ReviewLost, BeginPush, PushDenied,
       PushSend, PushConfirm, RequestReview, SetReceipt, ledgerVars
  <2>6. CASE Complete(w)
    BY <2>6, CountRecord DEF Complete, JobOK, Carries
  <2>7. CASE EndUnstopped(w)
    BY <2>7, CountRecord DEF EndUnstopped, JobOK, Broker, MidWrite, Result
  <2>8. CASE Exit(w) \/ Crash(w)
    BY <2>8, CountFrame DEF Exit, Crash
  <2> QED BY <1>6, <2>1, <2>2, <2>3, <2>4, <2>5, <2>6, <2>7, <2>8 DEF WorkerStep
<1> QED BY <1>1, <1>2, <1>3, <1>4, <1>5, <1>6 DEF Next, OperatorStep

\* Between two operator retries no run is claimed more than MAX_ATTEMPTS times in a row or
\* counted past the larger of MAX_RETRIES and MAX_REARMS, whatever sweeps and events do.
THEOREM CountsBounded == Spec => []Bounded
<1>1. Init => CountInv
  BY LedgerAssumption, MostType DEF Init, CountInv, CountOK
<1>2. CountInv => Bounded
  BY DEF CountInv, CountOK, Bounded, Most
<1> QED BY <1>1, <1>2, CountNext, WriteInvariant, PTL DEF Spec

-----------------------------------------------------------------------------
(***************************************************************************)
(* RunLedger implements TurnPromise: the initial ledger maps to the        *)
(* initial promise, and each step of the ledger to a move of turns, to one *)
(* turn's write, or to a stutter.                                          *)
(***************************************************************************)

\* Every run goes where the promise lets it, and only an effect of GitHub is a write.
Goes(r) == LifeOf(r)' # LifeOf(r) => LifeOf(r)' \in Promise!Successor(LifeOf(r))

SameLife(r) == state'[r] = state[r] /\ error'[r] = error[r]

\* A row whose state and error stay has not gone anywhere.
LEMMA LifeFrame ==
  ASSUME NEW r \in Run, SameLife(r)
  PROVE  Goes(r)
  BY DEF SameLife, Goes, LifeOf

\* Events, operator commands and the sweep move turns as promised.
LEMMA QuietGoes ==
  ASSUME WriteInv, WriteInv', NEW r \in Run,
         \/ Recover
         \/ \E q \in Run : GateStep(q) \/ Retry(q) \/ Reconcile(q)
  PROVE  Goes(r)
<1> USE DEF WriteInv, TypeInv, TypeOK, LedgerTypeOK, RowInv
<1>1. state[r] \in RunState /\ RowOK(r) /\ state'[r] \in RunState /\ RowOK(r)'
  OBVIOUS
<1>2. CASE Recover
  BY <1>1, <1>2 DEF Recover, Goes, LifeOf, RowOK, Promise!Successor
<1>3. ASSUME NEW q \in Run, GateStep(q) \/ Retry(q) \/ Reconcile(q)
      PROVE  Goes(r)
  <2>1. CASE Enqueue(q)
    BY <1>1, <2>1 DEF Enqueue, Goes, LifeOf, RowOK, Promise!Successor
  <2>2. CASE Redeliver(q) \/ Retry(q)
    BY <1>1, <2>2 DEF Redeliver, Retry, Rearm, WriteEvidence, Quarantines, Goes, LifeOf, RowOK,
       Rearmable, Promise!Successor
  <2>3. CASE Reconcile(q)
    BY <1>1, <2>3 DEF Reconcile, Goes, LifeOf, RowOK, Promise!Successor
  <2> QED BY <1>3, <2>1, <2>2, <2>3 DEF GateStep
<1> QED BY <1>2, <1>3

\* So do a worker's claim and its launch, the broker, and completion.
LEMMA WorkerGoes ==
  ASSUME WriteInv, WriteInv', NEW r \in Run, NEW w \in Worker, WorkerStep(w) \/ Crash(w)
  PROVE  Goes(r)
<1> USE DEF WriteInv, TypeInv, TypeOK, LedgerTypeOK, RowInv
<1>1. state[r] \in RunState /\ RowOK(r) /\ state'[r] \in RunState /\ RowOK(r)'
  OBVIOUS
<1>2. CASE ClaimCommit(w)
  <2>1. pc[w] = "checked" => state[job[w]] = "pending"
    BY DEF StepInv, StepOK, BeforeTurn
  <2>2. CASE ClaimSkip(w)
    BY <2>2, LifeFrame DEF ClaimSkip, SameLife, ledgerVars
  <2>3. CASE ~ClaimSkip(w)
    BY <1>1, <1>2, <2>1, <2>3 DEF ClaimCommit, ClaimRefuse, ClaimRetire, ClaimBackoff, ClaimFail,
       Claim, PolicyErrors, Goes, LifeOf, RowOK, Promise!Successor
  <2> QED BY <2>2, <2>3
<1>3. CASE Launch(w) \/ Enter(w)
  BY <1>1, <1>3 DEF Launch, Enter, Goes, LifeOf, RowOK
<1>4. CASE Hold(w) \/ PolicyHold(w) \/ StartTurn(w) \/ EndTurn(w) \/ Exit(w) \/ Crash(w)
  BY <1>4, LifeFrame DEF Hold, PolicyHold, StartTurn, EndTurn, Exit, Crash, SameLife, ledgerVars
<1>5. CASE BrokerStep(w)
  <2>1. CASE RecordIneligible(w)
    <3>1. state[job[w]] \in {"running", "uncertain"}
      BY <2>1, BrokerOwns DEF RecordIneligible, Broker
    <3> QED BY <1>1, <2>1, <3>1 DEF RecordIneligible, Goes, LifeOf, RowOK
  <2>2. CASE PushQuarantine(w)
    BY <1>1, <2>2 DEF PushQuarantine, Goes, LifeOf, RowOK, Promise!Successor
  <2>3. CASE ~RecordIneligible(w) /\ ~PushQuarantine(w)
    BY <1>5, <2>3, LifeFrame DEF BrokerStep, Refused, HeldForPerson, AnswersOnly, Answered,
       ReviewClaim, ReviewPost, ReviewConfirm, ReviewPosted, ReviewLost, BeginPush, PushDenied,
       PushSend, PushConfirm, RequestReview, SetReceipt, SameLife, ledgerVars
  <2> QED BY <2>1, <2>2, <2>3
<1>6. CASE Complete(w) \/ EndUnstopped(w)
  <2> PICK result, stopped : Record(w, result, stopped)
    BY <1>6 DEF Complete, EndUnstopped
  <2>1. CASE SameLife(r)
    BY <2>1, LifeFrame
  <2>2. CASE ~SameLife(r)
    <3>1. job[w] = r /\ state[r] \in {"launching", "running", "uncertain"}
      BY <2>2 DEF Record, SameLife
    <3>2. state'[r] = Outcome(r, result, stopped).state
          /\ error'[r] = Outcome(r, result, stopped).error
      BY <2>2, <3>1 DEF Record, SameLife
    <3>3. Outcome(r, result, stopped).state
            \in {"waiting", "uncertain", "succeeded", "failed", "cancelled"}
          /\ Outcome(r, result, stopped).error # "reconciled"
      BY <1>1, <3>1 DEF Outcome, PolicyErrors, RowOK
    <3> QED BY <1>1, <3>1, <3>2, <3>3 DEF Goes, LifeOf, RowOK, Promise!Successor
  <2> QED BY <2>1, <2>2
<1> QED BY <1>2, <1>3, <1>4, <1>5, <1>6 DEF WorkerStep

\* A turn is only ever begun by a claim, which finds its pull request free; and no other
\* run of the pull request is busy after it.
LEMMA BeginsFree ==
  ASSUME WriteInv, WriteInv', OnePerPR', [Next]_vars, NEW r \in Run, Goes(r),
         LifeOf(r)' = "working", LifeOf(r) # "working", NEW q \in Run, PrOf[q] = PrOf[r]
  PROVE  /\ LifeOf(q) \notin {"working", "held"}
         /\ LifeOf(q)' \in {"working", "held"} => q = r
<1> USE DEF WriteInv, TypeInv, TypeOK, LedgerTypeOK, RowInv
<1>1. /\ state[r] \in RunState /\ RowOK(r) /\ state'[r] \in RunState /\ RowOK(r)'
      /\ state[q] \in RunState /\ RowOK(q) /\ state'[q] \in RunState /\ RowOK(q)'
  OBVIOUS
<1>2. state[r] \notin Active /\ state'[r] \in Active
  BY <1>1 DEF Goes, LifeOf, RowOK, Promise!Successor, Active, RunState, Rearmable
<1>3. PICK w \in Worker : Claim(w) /\ job[w] = r
  BY <1>2, OnlyClaimActivates
<1>4. state[q] \notin Active
  BY <1>3 DEF Claim, Free, Occupied, Occupies
<1>5. state'[q] \in Active => q = r
  BY <1>2 DEF OnePerPR, Occupies
<1> QED BY <1>1, <1>4, <1>5 DEF LifeOf, RowOK, Active, RunState, Rearmable

\* Every step that GitHub does not take moves turns as promised.
LEMMA StepMoves ==
  ASSUME WriteInv, WriteInv', OnePerPR', [Next]_vars, landed' = landed
  PROVE  Promise!Move
<1>1. ASSUME NEW r \in Run PROVE Goes(r)
  <2>1. CASE UNCHANGED <<state, error>>
    BY <2>1, LifeFrame DEF SameLife
  <2>2. CASE \E q \in Run : Land(q) \/ Lose(q)
    BY <2>1, <2>2 DEF Land, Lose, ledgerVars
  <2>3. CASE \E repo \in Repo, on \in BOOLEAN : SetPolicy(repo, on)
    BY <2>1, <2>3 DEF SetPolicy, ledgerVars
  <2>4. CASE \E w \in Worker, q \in Run : ClaimRead(w, q)
    BY <2>1, <2>4 DEF ClaimRead, ledgerVars
  <2> QED BY <2>1, <2>2, <2>3, <2>4, QuietGoes, WorkerGoes
          DEF Next, OperatorStep, vars, ledgerVars
<1>2. ASSUME NEW r \in Run
      PROVE  LifeOf(r)' \in Promise!Life
  BY DEF WriteInv, TypeInv, TypeOK, LedgerTypeOK, RunState, Active, Rearmable, LifeOf,
     Promise!Life, RowInv, RowOK
<1>3. ASSUME NEW r \in Run, LifeOf(r)' = "queued"
      PROVE  ~(landed[r] > 0)
  <2>1. state'[r] \in {"pending", "waiting"} /\ RowOK(r)'
    BY <1>3 DEF LifeOf, WriteInv, TypeInv, TypeOK, LedgerTypeOK, RunState, Active, Rearmable,
       RowInv
  <2>2. landed'[r] = 0
    BY <2>1 DEF RowOK, WriteRecords
  <2> QED BY <2>2
<1>4. ASSUME NEW r \in Run, LifeOf(r)' # LifeOf(r)
      PROVE  Promise!Moves(r)
  BY <1>1, <1>3, <1>4, BeginsFree DEF Promise!Moves, Promise!Busy, Goes
<1> QED BY <1>2, <1>4 DEF Promise!Move

\* A write of the turn is GitHub's doing, while its run is running or uncertain.
LEMMA LandWrites ==
  ASSUME WriteInv, NEW r \in Run, Land(r)
  PROVE  Promise!Write(r)
<1>1. state[r] \in {"running", "uncertain"} /\ landed[r] = 0
  BY DEF Land, WriteInv, RowInv, RowOK
<1>2. landed' = [landed EXCEPT ![r] = 1] /\ UNCHANGED ledgerVars
  BY <1>1 DEF Land, WriteInv, TypeInv, TypeOK, WorldTypeOK
<1>3. LifeOf(r) \in {"working", "held"}
  BY <1>1 DEF LifeOf
<1>4. \A q \in Run : LifeOf(q)' = LifeOf(q)
  BY <1>2 DEF LifeOf, ledgerVars
<1>5. {q \in Run : landed'[q] > 0} = {q \in Run : landed[q] > 0} \cup {r}
  BY <1>2 DEF WriteInv, TypeInv, TypeOK, WorldTypeOK
<1>6. [q \in Run |-> LifeOf(q)]' = [q \in Run |-> LifeOf(q)]
  BY <1>4
<1> QED BY <1>1, <1>3, <1>5, <1>6 DEF Promise!Write, Promise!Busy

\* Only GitHub makes a write take effect.
LEMMA OnlyLandWrites ==
  ASSUME [Next]_vars, landed' # landed
  PROVE  \E r \in Run : Land(r)
<1> USE DEF ledgerVars, workerVars, policyVars, githubVars
<1>1. CASE UNCHANGED vars
  BY <1>1 DEF vars
<1>2. CASE OperatorStep \/ Recover \/ \E r \in Run : GateStep(r) \/ Lose(r)
  BY <1>2 DEF OperatorStep, Retry, Reconcile, SetPolicy, Recover, GateStep, Enqueue, Redeliver,
     Lose
<1>3. CASE \E w \in Worker : Crash(w) \/ \E r \in Run : ClaimRead(w, r)
  BY <1>3 DEF Crash, ClaimRead
<1>4. ASSUME NEW w \in Worker, WorkerStep(w) PROVE FALSE
  <2>1. CASE ClaimCommit(w)
    BY <2>1 DEF ClaimCommit, ClaimSkip, ClaimRefuse, ClaimRetire, ClaimBackoff, ClaimFail, Claim,
       ClaimWrite
  <2>2. CASE BrokerStep(w)
    BY <2>2 DEF BrokerStep, Refused, HeldForPerson, AnswersOnly, Answered, ReviewClaim,
       ReviewPost, ReviewConfirm, ReviewPosted, RecordIneligible, ReviewLost, BeginPush,
       PushDenied, PushSend, PushConfirm, PushQuarantine, RequestReview
  <2>3. CASE ~ClaimCommit(w) /\ ~BrokerStep(w)
    BY <1>4, <2>3 DEF WorkerStep, Launch, Enter, Hold, PolicyHold, StartTurn, EndTurn, Complete,
       EndUnstopped, Exit
  <2> QED BY <2>1, <2>2, <2>3
<1> QED BY <1>1, <1>2, <1>3, <1>4 DEF Next

\* The ledger, its workers, sweeps and operators implement TurnPromise: no user of the
\* ledger sees a second turn of a pull request, a second write, a written turn started
\* again, or an end undone.
THEOREM PromiseKept == Spec => KeepsPromise
<1>1. Init => Promise!Init
  <2> SUFFICES ASSUME Init PROVE Promise!Init
    OBVIOUS
  <2>1. \A r \in Run : LifeOf(r) = "absent" /\ ~(landed[r] > 0)
    BY DEF Init, LifeOf
  <2> QED BY <2>1 DEF Promise!Init
<1>2. WriteInv /\ WriteInv' /\ OnePerPR' /\ [Next]_vars
        => [Promise!Next]_<<[r \in Run |-> LifeOf(r)], {r \in Run : landed[r] > 0}>>
  BY StepMoves, OnlyLandWrites, LandWrites DEF Promise!Next
<1> QED BY <1>1, <1>2, WriteInvariant, OneRunPerPR, PTL
        DEF Spec, KeepsPromise, Promise!Spec
=============================================================================
