-------------------------- MODULE MCOperatorNotices --------------------------
(***************************************************************************)
(* Small instances of OperatorNotices: one run and three sweeps. In some   *)
(* behaviours it is a fix, which may dispute, in the others an             *)
(* adjudication, which rules.                                              *)
(***************************************************************************)
EXTENDS OperatorNotices, TLC

CONSTANTS r1, s1, s2, s3, pr1

OnePr == [r \in Run |-> pr1]
Fixes == [r \in Run |-> "fixer"]
Rulings == INSTANCE OperatorNotices WITH SeatOf <- [r \in Run |-> "adjudicator"]

VARIABLE part   \* what the run of this behaviour does

PartInit == part \in {"disputes", "rules"} /\ Init

PartNext ==
  /\ \/ part = "disputes" /\ Next
     \/ part = "rules" /\ Rulings!Next
  /\ UNCHANGED part

PartSpec == PartInit /\ [][PartNext]_<<vars, part>>

\* Sweeps are alike.
Symmetry == Permutations(Sender)
=============================================================================
