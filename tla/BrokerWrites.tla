------------------------------- MODULE BrokerWrites -------------------------------
(***************************************************************************)
(* The one write a seat's turn may make through the run broker, other than *)
(* a review or a fixer's push: the fixer's answers or its dispute, a       *)
(* ruling, a triage, an issue fix, an issue filed by the reviewer.  Each   *)
(* is a fixed course of steps: records in the run ledger, one              *)
(* authorization against live GitHub, and requests to GitHub whose outcome *)
(* may be unknown.  The worker may die between any two; a run that wrote   *)
(* nothing may be re-armed; the operator is told of a run that failed.     *)
(*                                                                         *)
(* One run of one kind.  A second worker of one run is RunLedger's matter. *)
(***************************************************************************)
EXTENDS Integers, Sequences

CONSTANTS
  Kinds,   \* the kinds of write that a run may be for
  Turns    \* how often the run may be launched


VARIABLES
  kind,     \* what this run is for
  run,      \* the state of the run
  turns,    \* launches left
  used,     \* the turn's capability is spent
  at,       \* the step of the course its request has reached; 0 when none is served
  row,      \* the state of the write's row in the ledger
  dispute,  \* the row of a dispute: its comment's state
  posts,    \* [GitHub request -> how often it took effect]
  told      \* what the operator was told last

vars == <<kind, run, turns, used, at, row, dispute, posts, told>>

AllKinds == {"answers", "dispute", "ruling", "triage", "fix", "comment", "filed"}
BrokerWritesAssumption == Kinds \subseteq AllKinds /\ Turns \in Nat \ {0}
Requests == {"comment", "labels", "branch", "pr", "request", "issue"}
RowState == {"none", "recorded", "posting", "posted", "uncertain", "denied"}

\* The course of each kind. "recorded" and "posting" are commits to the ledger.
CourseLate(k) ==
  CASE k = "answers" -> <<"authorize", "comment", "posting">>
    [] k = "dispute" -> <<"authorize", "posting", "comment", "dispute">>
    [] k = "ruling"  -> <<"recorded", "authorize", "posting", "comment">>
    [] k = "triage"  -> <<"recorded", "authorize", "posting", "labels", "comment">>
    [] k = "fix"     -> <<"authorize", "branch", "recorded", "pr", "request">>
    [] k = "comment" -> <<"recorded", "authorize", "comment">>
    [] k = "filed"   -> <<"authorize", "recorded", "issue">>
Course(k) ==
  CASE k = "answers" -> <<"authorize", "posting", "comment">>
    [] k = "dispute" -> <<"dispute", "authorize", "posting", "comment">>
    [] k = "ruling"  -> <<"recorded", "authorize", "posting", "comment">>
    [] k = "triage"  -> <<"recorded", "authorize", "posting", "labels", "comment">>
    [] k = "fix"     -> <<"recorded", "authorize", "branch", "pr", "request">>
    [] k = "comment" -> <<"recorded", "authorize", "comment">>
    [] k = "filed"   -> <<"authorize", "recorded", "issue">>
Last == Len(Course(kind))
Step == IF at = 0 THEN "idle" ELSE Course(kind)[at]

TypeOK ==
  /\ kind \in Kinds /\ run \in {"running", "done", "failed", "uncertain"} /\ turns \in 0..Turns
  /\ used \in BOOLEAN /\ at \in 0..5 /\ row \in RowState /\ dispute \in RowState
  /\ posts \in [Requests -> Nat]
  /\ told \in {"nothing", "no_write", "possible_write", "posted", "denied", "unknown"}

Init ==
  /\ kind \in Kinds /\ run = "running" /\ turns = Turns - 1 /\ used = FALSE /\ at = 0
  /\ row = "none" /\ dispute = "none" /\ posts = [q \in Requests |-> 0] /\ told = "nothing"

Wrote == \E q \in Requests : posts[q] > 0

-----------------------------------------------------------------------------
(* The broker. *)

\* The request of the turn: consumed before anything is written. An issue is filed beside the
\* turn's own write, so it does not spend the capability.
Begin ==
  /\ run = "running" /\ at = 0 /\ ~used
  /\ used' = (kind # "filed") /\ at' = 1
  /\ UNCHANGED <<kind, run, turns, row, dispute, posts, told>>

Completes == kind \in {"ruling", "triage", "fix", "comment"}
Stop == at' = 0
\* A request that is refused leaves the turn to fail, unless its write had been acknowledged.
Refused ==
  /\ Stop
  /\ run' = CASE Completes /\ row # "none" -> "done" [] kind = "filed" -> run [] OTHER -> "failed"

Recordable == row = "none" \/ (Step = "posting" /\ row = "recorded")
\* begin_answers, record_ruling, record_triage, record_issue_fix, record_filed_issue: the run (or
\* the title) is the key, so a second record is a refusal.
RecordAgain ==
  /\ run = "running" /\ Step \in {"recorded", "posting"}
  /\ row' = Step /\ at' = at + 1
  /\ UNCHANGED <<kind, run, turns, used, dispute, posts, told>>
Record ==
  /\ run = "running" /\ Step \in {"recorded", "posting"}
  /\ IF Recordable
     THEN row' = Step /\ at' = at + 1 /\ run' = run
     ELSE Refused /\ row' = row
  /\ UNCHANGED <<kind, turns, used, dispute, posts, told>>

\* record_dispute: kept when there already.
RecordDispute ==
  /\ run = "running" /\ Step = "dispute"
  /\ dispute' = IF dispute = "none" THEN "posting" ELSE dispute
  /\ at' = at + 1
  /\ UNCHANGED <<kind, run, turns, used, row, posts, told>>

DisputeIs(s) == dispute' = IF dispute = "posting" THEN s ELSE dispute
\* A ruling or a triage stays acknowledged; answers are recorded as denied, when the run has none.
Deny ==
  /\ row' = CASE row = "recorded" /\ Completes -> "denied"
              [] row = "none" /\ kind \in {"answers", "dispute"} -> "denied"
              [] OTHER -> row
  /\ DisputeIs("denied")
  /\ Refused
Authorize ==
  /\ run = "running" /\ Step = "authorize"
  /\ \/ at' = at + 1 /\ UNCHANGED <<run, row, dispute>>
     \/ Deny
  /\ UNCHANGED <<kind, turns, used, posts, told>>

\* The last request's success is recorded with it; a status write that fails is a death.
Finished == run' = IF kind = "filed" THEN run ELSE "done"
Post ==
  /\ run = "running" /\ Step \in Requests
  /\ posts' = [posts EXCEPT ![Step] = @ + 1]
  /\ at' = IF at = Last THEN 0 ELSE at + 1
  /\ IF at = Last THEN row' = "posted" /\ DisputeIs("posted") /\ Finished
                  ELSE UNCHANGED <<row, dispute, run>>
  /\ UNCHANGED <<kind, turns, used, told>>

\* A request whose answer was lost, or that failed: uncertain, and never sent again. An issue
\* fix holds its run for the operator; a review request that is not confirmed leaves the PR open.
Hold == kind = "fix" /\ Step \in {"branch", "pr"}
Lost ==
  /\ run = "running" /\ Step \in Requests
  /\ posts' \in {posts, [posts EXCEPT ![Step] = @ + 1]}
  /\ row' = IF Step = "request" THEN row ELSE "uncertain"
  /\ DisputeIs("uncertain") /\ Stop
  /\ run' = IF Hold THEN "uncertain" ELSE IF kind = "filed" THEN run ELSE "done"
  /\ UNCHANGED <<kind, turns, used, told>>

\* The answer reached the broker, which died, or could not write, before the ledger had it.
DieAfterPost ==
  /\ run = "running" /\ Step \in Requests
  /\ posts' = [posts EXCEPT ![Step] = @ + 1]
  /\ run' = "failed" /\ Stop
  /\ UNCHANGED <<kind, turns, used, row, dispute, told>>

Die ==
  /\ run = "running" /\ run' = "failed" /\ Stop
  /\ UNCHANGED <<kind, turns, used, row, dispute, posts, told>>

-----------------------------------------------------------------------------
(* The supervisor and the operator's notices. *)

RecordedPosted == row = "posted" \/ dispute = "posted"
\* write_records: why a run may have written. Answers and filed issues are in tables of their own
\* that it does not read.
Recorded == \/ row # "none" /\ kind \in {"ruling", "triage", "fix", "comment"}
            \/ dispute # "none"
Evidence == run = "uncertain" \/ Recorded

Rearm ==
  /\ run = "failed" /\ turns > 0 /\ ~Evidence
  /\ run' = "running" /\ turns' = turns - 1 /\ used' = FALSE /\ told' = "nothing"
  /\ UNCHANGED <<kind, at, row, dispute, posts>>

\* notify: the notice of a run that failed, and that of a dispute once its run has ended or its
\* comment's outcome is known.
Notice ==
  /\ run \in {"failed", "uncertain"}
  /\ told' = IF Evidence THEN "possible_write" ELSE "no_write"
  /\ told' # told
  /\ UNCHANGED <<kind, run, turns, used, at, row, dispute, posts>>
Status(s) == CASE s = "posted" -> "posted" [] s = "denied" -> "denied" [] OTHER -> "unknown"
TellDispute ==
  /\ dispute # "none" /\ ~(dispute = "posting" /\ run = "running")
  /\ told' = Status(dispute) /\ told' # told
  /\ UNCHANGED <<kind, run, turns, used, at, row, dispute, posts>>
RulingStatusPlain == IF row \in {"recorded", "posting"} THEN "denied" ELSE Status(row)
RulingStatus == IF row = "recorded" THEN "denied" ELSE Status(row)
TellRuling ==
  /\ kind = "ruling" /\ row # "none" /\ run # "running"
  /\ told' = RulingStatus /\ told' # told
  /\ UNCHANGED <<kind, run, turns, used, at, row, dispute, posts>>

Next ==
  \/ Begin \/ Record \/ RecordDispute \/ Authorize \/ Post \/ Lost \/ DieAfterPost \/ Die
  \/ Rearm \/ Notice \/ TellDispute \/ TellRuling

Spec == Init /\ [][Next]_vars

-----------------------------------------------------------------------------
(* Properties. *)

\* No request of a run takes effect twice, whatever dies, is lost, or is asked again.
NothingTwice == \A q \in Requests : posts[q] <= 1

\* What the ledger says of a write is so: denied, or never recorded, means nothing on GitHub, and
\* posted means all of it.
RowIsTrue ==
  /\ row \in {"none", "denied"} => ~Wrote
  /\ row = "posted" => \A i \in 1..Last : Course(kind)[i] \in Requests => posts[Course(kind)[i]] = 1
  /\ dispute = "none" /\ kind = "dispute" => ~Wrote

\* A run that reached GitHub is not started again.
WrittenIsFinal == [][Rearm => ~Wrote]_vars

\* What the operator was told when the run had ended is so.
ToldIsTrue == run # "running" => (told \in {"no_write", "denied"} => ~Wrote)
=============================================================================
