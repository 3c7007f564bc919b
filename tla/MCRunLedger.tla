----------------------------- MODULE MCRunLedger -----------------------------
(***************************************************************************)
(* Small instances of RunLedger for TLC.  Reconcile is the operator's and   *)
(* always available; the optional events are chosen by each configuration. *)
(***************************************************************************)
EXTENDS RunLedger, TLC

CONSTANTS r1, r2, w1, w2, repo1, pr1, pr2

\* A reviewer's and a fixer's turn on one pull request.
OneRepo == [r \in Run |-> repo1]
OnePr == [r \in Run |-> pr1]
ReviewAndFix == [r \in Run |-> IF r = r1 THEN "reviewer" ELSE "fixer"]

\* Fixers' turns on two pull requests of a repository that runs one at a time.
TwoPrs == [r \in Run |-> IF r = r1 THEN pr1 ELSE pr2]
Fixes == [r \in Run |-> "fixer"]

OneEach == [seat \in Seat |-> 1]

Symmetry == Permutations(Worker)
=============================================================================
