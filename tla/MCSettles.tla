----------------------------- MODULE MCSettles -----------------------------
(***************************************************************************)
(* Small instances of what must come about in the ledger: runs settle,     *)
(* whatever crashes, and rulings reach the operator. Each behaviour is     *)
(* about one of them.                                                      *)
(***************************************************************************)
EXTENDS MCRunLedger

CONSTANTS s1

\* Alerts of both runs come before the ruling in a sweep, disputes after it.
RulingAndReview == [r \in Run |-> IF r = r1 THEN "adjudicator" ELSE "reviewer"]

VARIABLE part   \* the component that this behaviour is about

Retrying == INSTANCE RunLedger WITH Worker <- {w1}, MaxAttempts <- 2,
                                    MaxRetries <- 2

VARIABLES life, wrote, notice, comment, noticePc, kind, batch, item, fresh, copies
noticeVars == <<life, wrote, notice, comment, noticePc, kind, batch, item, fresh,
                copies>>
Notices == INSTANCE OperatorNotices WITH SeatOf <- RulingAndReview, Sender <- {s1},
                                         MayCrash <- FALSE, MaxCopies <- 2,
                                         pc <- noticePc

Part == {"settles", "retrying", "rulings"}

\* The component of the part starts in its own initial states; the others rest in one.
PartInit ==
  /\ part \in Part
  /\ IF part = "retrying" THEN Retrying!Init
     ELSE Init /\ (part = "settles" \/ (policy[repo1]))
  /\ Notices!Init

\* Only the component with the variables named moves.
OnlyLedger == UNCHANGED <<part, noticeVars>>
OnlyNotice == UNCHANGED <<part, vars>>

PartNext ==
  \/ /\ \/ part = "settles" /\ Next
        \/ part = "retrying" /\ Retrying!Next
     /\ OnlyLedger
  \/ /\ part = "rulings" /\ Notices!Next
     /\ OnlyNotice

partVars == <<part, vars, noticeVars>>

\* The fairness of the component: a behaviour is about one of them, so the disjunction of one
\* action of each is as fair as each of these is.
Weak1 ==
  \/ part = "settles" /\ WorkerStep(w1) /\ OnlyLedger
  \/ part = "retrying" /\ Retrying!WorkerStep(w1) /\ OnlyLedger
  \/ part = "rulings" /\ Notices!SweepStep(s1) /\ OnlyNotice
Weak2 ==
  \/ part = "settles" /\ WorkerStep(w2) /\ OnlyLedger
  \/ part = "retrying" /\ Retrying!SweepRun(r1) /\ OnlyLedger
Weak3 ==
  \/ part = "settles" /\ SweepRun(r1) /\ OnlyLedger
  \/ part = "retrying" /\ Retrying!SweepRun(r2) /\ OnlyLedger
Weak4 ==
  \/ part = "settles" /\ SweepRun(r2) /\ OnlyLedger
Strong1 ==
  \/ part = "settles" /\ (\E w \in Worker : ClaimRead(w, r1)) /\ OnlyLedger
  \/ part = "retrying" /\ Retrying!ClaimRead(w1, r1) /\ OnlyLedger
  \/ part = "rulings" /\ Notices!DeliverRow("alert", r1) /\ OnlyNotice
Strong2 ==
  \/ part = "settles" /\ (\E w \in Worker : ClaimRead(w, r2)) /\ OnlyLedger
  \/ part = "retrying" /\ Retrying!ClaimRead(w1, r2) /\ OnlyLedger
  \/ part = "rulings" /\ Notices!DeliverRow("alert", r2) /\ OnlyNotice
Strong3 ==
  \/ part = "settles" /\ DecideRun(r1) /\ OnlyLedger
  \/ part = "retrying" /\ Retrying!DecideRun(r1) /\ OnlyLedger
  \/ part = "rulings" /\ Notices!DeliverRow("ruling", r1) /\ OnlyNotice
Strong4 ==
  \/ part = "settles" /\ DecideRun(r2) /\ OnlyLedger
  \/ part = "retrying" /\ Retrying!DecideRun(r2) /\ OnlyLedger
  \/ part = "rulings" /\ Notices!DeliverRow("ruling", r2) /\ OnlyNotice

PartFairness ==
  /\ WF_partVars(Weak1) /\ WF_partVars(Weak2) /\ WF_partVars(Weak3)
  /\ WF_partVars(Weak4) /\ SF_partVars(Strong1) /\ SF_partVars(Strong2)
  /\ SF_partVars(Strong3) /\ SF_partVars(Strong4)

PartSpec == PartInit /\ [][PartNext]_partVars /\ PartFairness

\* Every ruling reaches the operator.
RulingsArrive == Notices!RulingsArrive
=============================================================================
