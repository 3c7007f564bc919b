------------------------------ MODULE ReviewLoop ------------------------------
(***************************************************************************)
(* The loop over one pull request: events start gates, gates read GitHub   *)
(* and the loop's state in several steps and commit turns, turns write     *)
(* verdicts and pushes, which cause the next events, until the head is     *)
(* approved, the cap of verdicts parks it, or a person has to act.         *)
(*                                                                         *)
(* Events are delayed, repeated and reordered: a gate may start for any    *)
(* head at any time.  The ledger has one turn per seat and head, and a     *)
(* further review of a head for each dismissal; the breach that parks a    *)
(* head is module Breach, the queue is module SeatQueue.                   *)
(***************************************************************************)
EXTENDS Integers, FiniteSets

CONSTANTS
  MaxHead,      \* bound: heads
  Cap,          \* verdicts that request changes before the loop gives up
  ReviewOnly,   \* whether the author is a review-only author
  PushOn,       \* whether the fixer may push unattended
  Gate,         \* gate processes
  Persons       \* what people do, of "push", "dismiss", "close", "grant", "escalate"

ASSUME ReviewLoopAssumption ==
  MaxHead \in Nat \ {0} /\ Cap \in Nat \ {0} /\ ReviewOnly \in BOOLEAN /\ PushOn \in BOOLEAN

VARIABLES
  head, open,          \* the pull request
  changes, approved,   \* heads with a standing verdict
  dismissed,           \* heads a verdict of which was dismissed
  marker, escalated,   \* the head that is parked (0: none); whether by the operator
  human,               \* heads whose approval is left to a person
  granted,             \* <<head, rounds>>: another round granted beyond the cap
  review,              \* [head \X again -> state of the reviewer's turn]
  fix,                 \* [head -> state of the fixer's turn]
  told,                \* heads the operator was told to merge, to answer or to allow
  gate                 \* [Gate -> [kind, at, head, rounds, again]]

Head == 1..MaxHead
hub == <<head, open, changes, approved, dismissed>>
loop == <<marker, escalated, human, granted, told>>
ledger == <<review, fix>>
vars == <<hub, loop, ledger, gate>>

Turn == {"none", "run", "checked", "done", "failed"}
OutGate == [kind |-> "review", at |-> "out", head |-> 1, rounds |-> 0, again |-> FALSE]

TypeOK ==
  /\ head \in Head /\ open \in BOOLEAN
  /\ changes \subseteq Head /\ approved \subseteq Head /\ dismissed \subseteq Head
  /\ marker \in 0..MaxHead /\ escalated \in BOOLEAN
  /\ human \subseteq Head /\ granted \subseteq Head \X Nat /\ told \subseteq Head
  /\ review \in [Head \X BOOLEAN -> Turn] /\ fix \in [Head -> Turn]
  /\ gate \in [Gate -> [kind : {"review", "fix", "approval"}, head : Head, again : BOOLEAN,
                        at : {"out", "pr", "reviews", "local", "commit"}, rounds : Nat]]

Init ==
  /\ head = 1 /\ open = TRUE /\ changes = {} /\ approved = {} /\ dismissed = {}
  /\ marker = 0 /\ escalated = FALSE /\ human = {} /\ granted = {} /\ told = {}
  /\ review = [t \in Head \X BOOLEAN |-> "none"] /\ fix = [h \in Head |-> "none"]
  /\ gate = [g \in Gate |-> OutGate]

Verdicts == Cardinality(changes)
Reviewed(h) == h \in changes \cup approved

-----------------------------------------------------------------------------
\* People.

Push ==
  /\ "push" \in Persons /\ open /\ head < MaxHead /\ head' = head + 1
  /\ UNCHANGED <<open, changes, approved, dismissed, loop, ledger, gate>>

Close ==
  /\ "close" \in Persons /\ open /\ open' = FALSE
  /\ UNCHANGED <<head, changes, approved, dismissed, loop, ledger, gate>>

Dismiss(h) ==
  /\ "dismiss" \in Persons /\ Reviewed(h) /\ h \notin dismissed
  /\ changes' = changes \ {h} /\ approved' = approved \ {h} /\ dismissed' = dismissed \cup {h}
  /\ UNCHANGED <<head, open, loop, ledger, gate>>

\* A maintainer grants one verdict more, at this head and this count.
Grant ==
  /\ "grant" \in Persons /\ ReviewOnly /\ Verdicts >= Cap
  /\ granted' = granted \cup {<<head, Verdicts>>}
  /\ UNCHANGED <<hub, marker, escalated, human, told, ledger, gate>>

Escalate ==
  /\ "escalate" \in Persons /\ open /\ marker # head
  /\ marker' = head /\ escalated' = TRUE
  /\ UNCHANGED <<hub, human, granted, told, ledger, gate>>

-----------------------------------------------------------------------------
\* Gates.

Out(g) == gate' = [gate EXCEPT ![g] = OutGate]
Goto(g, at) == gate' = [gate EXCEPT ![g].at = at]

\* An event of head h arrives, or the watchdog delivers a pending review request again.
Start(g, kind, h) ==
  /\ gate[g].at = "out" /\ h <= head
  /\ kind = "fix" => h \in changes
  /\ kind = "approval" => h \in approved
  /\ gate' = [gate EXCEPT ![g] = [OutGate EXCEPT !.kind = kind, !.at = "pr", !.head = h]]
  /\ UNCHANGED <<hub, loop, ledger>>

\* The event is a snapshot: the live pull request is read, and must still be at its head.
ReadPR(g) ==
  /\ gate[g].at = "pr"
  /\ IF open /\ head = gate[g].head THEN Goto(g, "reviews") ELSE Out(g)
  /\ UNCHANGED <<hub, loop, ledger>>

\* gate_reviewer: no verdict at the head yet; a dismissed one orders a turn of its own.
ReadForReview(g) ==
  LET h == gate[g].head IN
  /\ gate[g].at = "reviews" /\ gate[g].kind = "review"
  /\ IF Reviewed(h) THEN Out(g)
     ELSE gate' = [gate EXCEPT ![g].at = "local", ![g].rounds = Verdicts,
                               ![g].again = h \in dismissed]
  /\ UNCHANGED <<hub, loop, ledger>>

\* Mutant: the verdict of the event is not counted twice, so it is counted never.
ReadForFixOwn(g) ==
  LET h == gate[g].head IN
  /\ gate[g].at = "reviews" /\ gate[g].kind = "fix"
  /\ IF h \notin changes \/ h \in approved THEN Out(g)
     ELSE gate' = [gate EXCEPT ![g].at = "local",
                               ![g].rounds = Cardinality(changes \ {h})]
  /\ UNCHANGED <<hub, loop, ledger>>
\* gate_fixer: the verdict is still the latest at the head; it counts with the prior ones.
ReadForFix(g) ==
  LET h == gate[g].head IN
  /\ gate[g].at = "reviews" /\ gate[g].kind = "fix"
  /\ IF h \notin changes \/ h \in approved THEN Out(g)
     ELSE gate' = [gate EXCEPT ![g].at = "local",
                               ![g].rounds = Cardinality(changes \ {h}) + 1]
  /\ UNCHANGED <<hub, loop, ledger>>

\* An approval that still stands at the live head is a merge cue, never work.
ReadForApproval(g) ==
  /\ gate[g].at = "reviews" /\ gate[g].kind = "approval"
  /\ told' = IF gate[g].head \in approved THEN told \cup {gate[g].head} ELSE told
  /\ Out(g)
  /\ UNCHANGED <<hub, marker, escalated, human, granted, ledger>>

\* breach(): parked at the head, if that is live under the lock.
Park(h) ==
  IF open /\ head = h /\ marker # h
  THEN marker' = h /\ escalated' = FALSE ELSE UNCHANGED <<marker, escalated>>

\* The loop's own state: a person's approval, an escalation, the cap.
JudgeReview(g) ==
  LET h == gate[g].head
      r == gate[g].rounds IN
  /\ gate[g].at = "local" /\ gate[g].kind = "review"
  /\ \/ /\ h \in human \/ (marker = h /\ escalated)
        /\ Out(g) /\ UNCHANGED <<marker, escalated, told>>
     \/ /\ h \notin human /\ ~(marker = h /\ escalated)
        /\ IF ReviewOnly /\ r >= Cap /\ <<h, r>> \notin granted
           THEN told' = told \cup {h} /\ Out(g) /\ UNCHANGED <<marker, escalated>>
           ELSE IF ~ReviewOnly /\ r >= Cap
           THEN Park(h) /\ Out(g) /\ UNCHANGED told
           ELSE Goto(g, "commit") /\ UNCHANGED <<marker, escalated, told>>
  /\ UNCHANGED <<hub, human, granted, ledger>>

\* A review-only author answers for themselves; the verdict that reaches the cap is no work
\* order; a fixer that may not push is held for the operator.
JudgeFix(g) ==
  LET h == gate[g].head IN
  /\ gate[g].at = "local" /\ gate[g].kind = "fix"
  /\ IF ReviewOnly THEN told' = told \cup {h} /\ Out(g) /\ UNCHANGED <<marker, escalated>>
     ELSE IF marker = h /\ escalated THEN Out(g) /\ UNCHANGED <<marker, escalated, told>>
     ELSE IF gate[g].rounds >= Cap THEN Park(h) /\ Out(g) /\ UNCHANGED told
     ELSE IF ~PushOn THEN told' = told \cup {h} /\ Out(g) /\ UNCHANGED <<marker, escalated>>
     ELSE Goto(g, "commit") /\ UNCHANGED <<marker, escalated, told>>
  /\ UNCHANGED <<hub, human, granted, ledger>>

\* Mutant: a dismissed verdict asks for the same turn again, which the ledger has already.
TurnKeyNone(g) == <<gate[g].head, FALSE>>
\* The turn's key in the ledger.
TurnKey(g) == <<gate[g].head, gate[g].again>>

\* The ledger has one row per key: a turn that is there is a duplicate.
Commit(g) ==
  /\ gate[g].at = "commit"
  /\ IF gate[g].kind = "review"
     THEN /\ review' = [review EXCEPT ![TurnKey(g)] = IF @ = "none" THEN "run" ELSE @]
          /\ UNCHANGED fix
     ELSE /\ fix' = [fix EXCEPT ![gate[g].head] = IF @ = "none" THEN "run" ELSE @]
          /\ UNCHANGED review
  /\ Out(g)
  /\ UNCHANGED <<hub, loop>>

-----------------------------------------------------------------------------
\* Turns.  A turn whose head is no longer live when it is checked ends unwritten.

CheckReview(t) ==
  /\ review[t] = "run"
  /\ review' = [review EXCEPT ![t] = IF open /\ head = t[1] /\ ~Reviewed(t[1])
                                     THEN "checked" ELSE "done"]
  /\ UNCHANGED <<hub, loop, fix, gate>>

\* The verdict is posted, the approval left to a person, or the turn fails.
EndReview(t) ==
  LET h == t[1] IN
  /\ review[t] = "checked"
  /\ \/ changes' = changes \cup {h} /\ review' = [review EXCEPT ![t] = "done"]
        /\ UNCHANGED <<approved, human>>
     \/ approved' = approved \cup {h} /\ review' = [review EXCEPT ![t] = "done"]
        /\ UNCHANGED <<changes, human>>
     \/ human' = human \cup {h} /\ review' = [review EXCEPT ![t] = "done"]
        /\ UNCHANGED <<changes, approved>>
     \/ review' = [review EXCEPT ![t] = "failed"]
        /\ UNCHANGED <<changes, approved, human>>
  /\ UNCHANGED <<head, open, dismissed, marker, escalated, granted, told, fix, gate>>

\* The fixer's turn pushes on the head it was ordered for, or ends without a push.
EndFix(h) ==
  /\ fix[h] = "run"
  /\ \/ /\ open /\ head = h /\ head < MaxHead /\ h \in changes
        /\ head' = head + 1 /\ fix' = [fix EXCEPT ![h] = "done"]
     \/ fix' = [fix EXCEPT ![h] = "failed"] /\ UNCHANGED head
  /\ UNCHANGED <<open, changes, approved, dismissed, loop, review, gate>>

Next ==
  \/ Push \/ Close \/ Grant \/ Escalate
  \/ \E h \in Head : Dismiss(h) \/ EndFix(h)
  \/ \E t \in Head \X BOOLEAN : CheckReview(t) \/ EndReview(t)
  \/ \E g \in Gate : \/ \E kind \in {"review", "fix", "approval"}, h \in Head : Start(g, kind, h)
                     \/ ReadPR(g) \/ ReadForReview(g) \/ ReadForFix(g) \/ ReadForApproval(g)
                     \/ JudgeReview(g) \/ JudgeFix(g) \/ Commit(g)

\* An event of the live head is delivered in the end, by GitHub or by the watchdog; gates have
\* a time budget, and turns a wall clock.
Due(h) == open /\ head = h
Fairness ==
  /\ \A h \in Head : /\ SF_vars(\E g \in Gate : Due(h) /\ ~Reviewed(h) /\ Start(g, "review", h))
                     /\ SF_vars(\E g \in Gate : Due(h) /\ Start(g, "fix", h))
                     /\ WF_vars(EndFix(h))
  /\ \A t \in Head \X BOOLEAN : WF_vars(CheckReview(t)) /\ WF_vars(EndReview(t))
  /\ \A g \in Gate : WF_vars(\/ ReadPR(g) \/ ReadForReview(g) \/ ReadForFix(g)
                             \/ ReadForApproval(g) \/ JudgeReview(g) \/ JudgeFix(g) \/ Commit(g))

Spec == Init /\ [][Next]_vars /\ Fairness

-----------------------------------------------------------------------------
Ordered == {h \in Head : fix[h] # "none"}

\* The fixer gets fewer work orders than the cap has verdicts, however events repeat and overtake
\* each other and whichever gate counts when: nobody orders a fix that no reviewer will read.
FixesBounded == Cardinality(Ordered) < Cap

\* An open head does not just sit there: it is settled by a verdict that is answered, or it is
\* visibly some person's turn.
Sits(h) ==
  /\ Due(h) /\ h \notin approved \cup human \cup told /\ marker # h /\ fix[h] # "failed"
  /\ \A again \in BOOLEAN : review[<<h, again>>] # "failed"
HeadSettles == \A h \in Head : []<>~Sits(h)

\* What the cap says: no more verdicts than it allows.
VerdictsBounded == Verdicts <= Cap
=============================================================================
