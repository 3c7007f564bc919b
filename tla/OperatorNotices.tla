---------------------------- MODULE OperatorNotices ----------------------------
(***************************************************************************)
(* The operator's outbox (Supervisor.notify): rows that go pending,        *)
(* sending, delivered, claimed before they are sent.  Several sweeps may   *)
(* run at once (the watchdog's cron job, an operator's `sweep'), each may  *)
(* be killed at any step, and meanwhile turns end, are re-armed and end    *)
(* again, as TurnPromise lets them.                                        *)
(*                                                                         *)
(* An alert reports a failed or uncertain run, a ruling what an            *)
(* adjudicator decided, a dispute what a fixer disputed; a ruling or a     *)
(* dispute is its turn's one write.  A fact of the ledger (ledger_events)  *)
(* is sent exactly as a ruling is.  The LIMIT 20 of a batch is left out.   *)
(***************************************************************************)
EXTENDS Integers

CONSTANTS
  Run, PrOf, SeatOf,  \* SeatOf: [Run -> Seat]
  Sender,             \* sweeps that may run at once
  NoRun,
  MayCrash,           \* whether a sweep may be killed
  MaxCopies           \* bound: copies of one alert that are counted

Seat == {"reviewer", "fixer", "adjudicator"}

ASSUME NoticesAssumption ==
  /\ SeatOf \in [Run -> Seat]
  /\ NoRun \notin Run /\ MayCrash \in BOOLEAN /\ MaxCopies \in Nat

VARIABLES
  life, wrote,   \* the turns
  notice,        \* [Kind -> [Run -> NoticeState]]: operator_notices, rulings, disputes
  comment,       \* disputes.comment
  pc, kind,      \* a sweep: its step, and the table it is at
  batch, item,   \* the rows it selected; the row it is sending
  fresh,         \* sweeps whose message is about the row that is there now
  copies         \* [Kind -> [Run -> Nat]]: how often the operator got the present notice

Turn == INSTANCE TurnPromise

turnVars == <<life, wrote>>
sweepVars == <<pc, kind, batch, item>>
vars == <<turnVars, notice, comment, sweepVars, fresh, copies>>

Kind == {"alert", "ruling", "dispute"}
NoticeState == {"none", "pending", "sending", "delivered", "resolved"}
CommentState == {"none", "posting", "settled"}
Step == {"idle", "select", "next", "sending", "acked"}

\* The order of the tables in notify.
After(k) == IF k = "alert" THEN "ruling" ELSE "dispute"

TypeOK ==
  /\ life \in [Run -> Turn!Life] /\ wrote \subseteq Run
  /\ notice \in [Kind -> [Run -> NoticeState]]
  /\ comment \in [Run -> CommentState]
  /\ pc \in [Sender -> Step] /\ kind \in [Sender -> Kind]
  /\ batch \in [Sender -> SUBSET Run] /\ item \in [Sender -> Run \cup {NoRun}]
  /\ fresh \subseteq Sender
  /\ copies \in [Kind -> [Run -> Nat]]

Init ==
  /\ Turn!Init
  /\ notice = [k \in Kind |-> [r \in Run |-> "none"]]
  /\ comment = [r \in Run |-> "none"]
  /\ pc = [s \in Sender |-> "idle"] /\ kind = [s \in Sender |-> "alert"]
  /\ batch = [s \in Sender |-> {}] /\ item = [s \in Sender |-> NoRun]
  /\ fresh = {}
  /\ copies = [k \in Kind |-> [r \in Run |-> 0]]

-----------------------------------------------------------------------------
\* The turns.

\* _rearm deletes the alerts of the runs R: the next end is reported anew.
ForgetAlerts(R) ==
  /\ notice' = [notice EXCEPT !["alert"] = [r \in Run |-> IF r \in R THEN "none" ELSE @[r]]]
  /\ copies' = [copies EXCEPT !["alert"] = [r \in Run |-> IF r \in R THEN 0 ELSE @[r]]]
  /\ fresh' = {s \in fresh : ~(kind[s] = "alert" /\ item[s] \in R)}

\* Turns are started, end and are re-armed; only a re-arm forgets an alert (a late
\* completion that puts an uncertain run back to waiting does not).
MoveTurns ==
  /\ Turn!Move
  /\ ForgetAlerts({r \in Run : life[r] \in {"failed", "cancelled"} /\ life'[r] = "queued"})
  /\ UNCHANGED <<comment, sweepVars>>

\* An operator retries a run that waits.
RetryWaiting(r) ==
  /\ life[r] = "queued"
  /\ ForgetAlerts({r})
  /\ UNCHANGED <<turnVars, comment, sweepVars>>

\* record_ruling: once, while the adjudicator's turn runs.
RecordRuling(r) ==
  /\ SeatOf[r] = "adjudicator" /\ life[r] = "working"
  /\ Turn!Write(r)
  /\ notice' = [notice EXCEPT !["ruling"][r] = "pending"]
  /\ UNCHANGED <<comment, sweepVars, fresh, copies>>

\* record_dispute, before the public comment is posted.
RecordDispute(r) ==
  /\ SeatOf[r] = "fixer" /\ life[r] = "working"
  /\ Turn!Write(r)
  /\ notice' = [notice EXCEPT !["dispute"][r] = "pending"]
  /\ comment' = [comment EXCEPT ![r] = "posting"]
  /\ UNCHANGED <<sweepVars, fresh, copies>>

\* dispute_comment: the broker of the turn learns what became of the comment (or never does).
SettleComment(r) ==
  /\ comment[r] = "posting"
  /\ comment' = [comment EXCEPT ![r] = "settled"]
  /\ UNCHANGED <<turnVars, notice, sweepVars, fresh, copies>>

-----------------------------------------------------------------------------
\* A sweep.

Reportable(r) == life[r] \in {"failed", "settled", "held"}

\* INSERT OR IGNORE, one row per failed or uncertain run: a row that is there stays as it is.
Begin(s) ==
  /\ pc[s] = "idle"
  /\ notice' = [notice EXCEPT !["alert"] =
                  [r \in Run |-> IF Reportable(r) /\ @[r] = "none" THEN "pending" ELSE @[r]]]
  /\ pc' = [pc EXCEPT ![s] = "select"]
  /\ kind' = [kind EXCEPT ![s] = "alert"]
  /\ UNCHANGED <<turnVars, comment, batch, item, fresh, copies>>

\* Mutant: a dispute is selected whatever its comment.
SelectedPending(k, r) == notice[k][r] = "pending"

\* A dispute waits for its comment while its run is active.
Selected(k, r) ==
  /\ notice[k][r] = "pending"
  /\ k = "dispute" => ~(comment[r] = "posting" /\ Turn!Busy(r))

Select(s) ==
  /\ pc[s] = "select"
  /\ batch' = [batch EXCEPT ![s] = {r \in Run : Selected(kind[s], r)}]
  /\ pc' = [pc EXCEPT ![s] = "next"]
  /\ UNCHANGED <<turnVars, notice, comment, kind, item, fresh, copies>>

\* The row was claimed by another sweep, or is gone.
Skip(s, r) ==
  /\ pc[s] = "next" /\ r \in batch[s]
  /\ notice[kind[s]][r] # "pending"
  /\ batch' = [batch EXCEPT ![s] = @ \ {r}]
  /\ UNCHANGED <<turnVars, notice, comment, pc, kind, item, fresh, copies>>

\* The run is not failed or uncertain any more.
Resolve(s, r) ==
  /\ pc[s] = "next" /\ r \in batch[s]
  /\ kind[s] = "alert" /\ notice["alert"][r] = "pending" /\ ~Reportable(r)
  /\ notice' = [notice EXCEPT !["alert"][r] = "resolved"]
  /\ batch' = [batch EXCEPT ![s] = @ \ {r}]
  /\ UNCHANGED <<turnVars, comment, pc, kind, item, fresh, copies>>

\* Mutant: the row is not looked at again when it is claimed.
ClaimUnchecked(s, r) ==
  /\ pc[s] = "next" /\ r \in batch[s]
  /\ kind[s] = "alert" => Reportable(r)
  /\ notice' = [notice EXCEPT ![kind[s]][r] = "sending"]
  /\ pc' = [pc EXCEPT ![s] = "sending"]
  /\ item' = [item EXCEPT ![s] = r]
  /\ batch' = [batch EXCEPT ![s] = @ \ {r}]
  /\ fresh' = fresh \cup {s}
  /\ UNCHANGED <<turnVars, comment, kind, copies>>

\* The durable claim before the transport is called.
Claim(s, r) ==
  /\ pc[s] = "next" /\ r \in batch[s]
  /\ notice[kind[s]][r] = "pending"
  /\ kind[s] = "alert" => Reportable(r)
  /\ notice' = [notice EXCEPT ![kind[s]][r] = "sending"]
  /\ pc' = [pc EXCEPT ![s] = "sending"]
  /\ item' = [item EXCEPT ![s] = r]
  /\ batch' = [batch EXCEPT ![s] = @ \ {r}]
  /\ fresh' = fresh \cup {s}
  /\ UNCHANGED <<turnVars, comment, kind, copies>>

\* The transport has taken the message.
Deliver(s) ==
  /\ pc[s] = "sending"
  /\ pc' = [pc EXCEPT ![s] = "acked"]
  /\ copies' = IF s \in fresh /\ copies[kind[s]][item[s]] < MaxCopies
               THEN [copies EXCEPT ![kind[s]][item[s]] = @ + 1] ELSE copies
  /\ UNCHANGED <<turnVars, notice, comment, kind, batch, item, fresh>>

\* The row a sweep was sending gets its new state, if it (still) is `sending'.
Settle(s, value) ==
  notice' = IF notice[kind[s]][item[s]] = "sending"
            THEN [notice EXCEPT ![kind[s]][item[s]] = value] ELSE notice

Leave(s, step) ==
  /\ pc' = [pc EXCEPT ![s] = step]
  /\ item' = [item EXCEPT ![s] = NoRun]
  /\ fresh' = fresh \ {s}

Record(s) ==
  /\ pc[s] = "acked"
  /\ Settle(s, "delivered")
  /\ Leave(s, "next")
  /\ UNCHANGED <<turnVars, comment, kind, batch, copies>>

\* Mutant: a message that could not be sent stays claimed.
FailClaimed(s) ==
  /\ pc[s] = "sending"
  /\ Leave(s, "idle")
  /\ batch' = [batch EXCEPT ![s] = {}]
  /\ UNCHANGED <<turnVars, notice, comment, kind, copies>>

\* The transport refused: the row is pending again, and the exception ends the sweep.
Fail(s) ==
  /\ pc[s] = "sending"
  /\ Settle(s, "pending")
  /\ Leave(s, "idle")
  /\ batch' = [batch EXCEPT ![s] = {}]
  /\ UNCHANGED <<turnVars, comment, kind, copies>>

\* The batch is done: the next table, or the end of the sweep.
Advance(s) ==
  /\ pc[s] = "next" /\ batch[s] = {}
  /\ pc' = [pc EXCEPT ![s] = IF kind[s] = "dispute" THEN "idle" ELSE "select"]
  /\ kind' = [kind EXCEPT ![s] = After(kind[s])]
  /\ UNCHANGED <<turnVars, notice, comment, batch, item, fresh, copies>>

\* Killed between any two steps; a row it had claimed stays `sending' for an operator.
Crash(s) ==
  /\ MayCrash /\ pc[s] # "idle"
  /\ Leave(s, "idle")
  /\ batch' = [batch EXCEPT ![s] = {}]
  /\ UNCHANGED <<turnVars, notice, comment, kind, copies>>

-----------------------------------------------------------------------------
TurnStep ==
  \/ MoveTurns
  \/ \E r \in Run : RetryWaiting(r) \/ RecordRuling(r) \/ RecordDispute(r) \/ SettleComment(r)

SweepStep(s) ==
  \/ Begin(s) \/ Select(s) \/ Advance(s) \/ Deliver(s) \/ Record(s) \/ Fail(s)
  \/ \E r \in Run : Skip(s, r) \/ Resolve(s, r) \/ Claim(s, r)

Next == TurnStep \/ \E s \in Sender : SweepStep(s) \/ Crash(s)

Spec == Init /\ [][Next]_vars

-----------------------------------------------------------------------------
\* Safety.

\* A ruling or a dispute reaches the operator at most once, whichever sweeps overlap and
\* wherever one is killed: "a crash mid-send is left 'sending', never replayed".
NeverReplayed == \A k \in {"ruling", "dispute"}, r \in Run : copies[k][r] <= 1

\* "The notice must not lead the comment": a dispute is not sent while its comment may
\* still be posted, although the selection that says so is stale when the row is claimed.
NoticeAfterComment ==
  \A s \in Sender : pc[s] = "sending" /\ kind[s] = "dispute" =>
    ~(comment[item[s]] = "posting" /\ Turn!Busy(item[s]))

\* run_supervisor.py:2012: "One bounded alert per failed/uncertain run".
OneAlert == \A r \in Run : copies["alert"][r] <= 1

-----------------------------------------------------------------------------
\* Liveness.  Cron starts a sweep again and again and a sweep runs on; a transport that is
\* tried again and again with one message takes it in the end.

DeliverRow(k, r) == \E s \in Sender : kind[s] = k /\ item[s] = r /\ Deliver(s)

Fairness ==
  /\ \A s \in Sender : WF_vars(SweepStep(s))
  /\ \A k \in {"alert", "ruling"}, r \in Run : SF_vars(DeliverRow(k, r))

FairSpec == Spec /\ Fairness

\* "This outbox is the guaranteed path": every ruling reaches the operator.
Undelivered(r) == notice["ruling"][r] \in {"pending", "sending"}
RulingsArrive == \A r \in Run : []<>~Undelivered(r)

\* run_supervisor.py:2012: "One bounded alert per failed/uncertain run, retried if delivery
\* fails."  A run that fails, and stays failed, is reported.
FailuresReported ==
  \A r \in Run : life[r] = "failed" ~> notice["alert"][r] = "delivered" \/ life[r] # "failed"
=============================================================================
