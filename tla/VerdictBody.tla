------------------------------ MODULE VerdictBody ------------------------------
(***************************************************************************)
(* What the broker asks of a review before it spends the one write: the    *)
(* numbered findings of earlier rounds are accounted for, a block cites    *)
(* the diff or a red check, and the requirements of the closed issue are   *)
(* answered.  The findings are recorded after the review has landed.       *)
(***************************************************************************)
EXTENDS Integers, FiniteSets

CONSTANTS
  Finding,    \* numbers of findings
  Closes,     \* whether the pull request closes an issue
  Partial,    \* whether the seat was not shown the whole change
  Rounds,     \* how many reviews land
  Faults      \* records that fail

VerdictBodyAssumption == {Closes, Partial} \subseteq BOOLEAN /\ {Rounds, Faults} \subseteq Nat

VARIABLES
  entry,      \* the findings on record, and whether a review was recorded before
  ci,         \* CI at the head, as the broker reads it
  landed,     \* the review that has just landed and is not recorded yet, or None
  owed,       \* per finding, what the landed reviews say of it
  approved,   \* whether the last review that landed approves
  round,
  faults

vars == <<entry, ci, landed, owed, approved, round, faults>>
None == [none |-> TRUE]
State == {"open", "fixed", "withdrawn"}
CI == {"green", "failed", "missing", "cancelled", "unreadable"}

\* A review's lines: per finding a state, a new description, or nothing; where the new ones
\* point, and the mark of its Requirements section.
Body ==
  [line : [Finding -> State \cup {"new", "none"}], cite : {"diff", "check", "outside"}, missed : BOOLEAN,
   recent : BOOLEAN, needs : {"none", "met", "not_met", "deferred", "deferred_nowhere"}]
Verdict == {"APPROVE", "REQUEST_CHANGES"}

TypeOK ==
  /\ entry \in [state : [Finding -> State \cup {"none"}], later : BOOLEAN] /\ ci \in CI
  /\ owed \in [Finding -> {"no", "raised", "settled"}] /\ approved \in BOOLEAN /\ round \in 0..Rounds

Init ==
  /\ entry = [state |-> [f \in Finding |-> "none"], later |-> FALSE] /\ ci \in CI /\ landed = None
  /\ owed = [f \in Finding |-> "no"] /\ approved = FALSE /\ round = 0 /\ faults = Faults

Known(f) == entry.state[f] # "none"
Open == {f \in Finding : entry.state[f] = "open"}
New(b) == {f \in Finding : b.line[f] = "new"}
Settles(b, f) == b.line[f] \in {"fixed", "withdrawn"}

\* Each line fits what is known of its finding; an approval leaves none of the open ones and
\* brings none; from the second round on no open finding is left out, and a new one cites what
\* changed in the round or was missed earlier.
Lines(b) == \A f \in Finding : b.line[f] \in (IF Known(f) THEN State ELSE {"new"}) \cup {"none"}
ApprovesAny(v, b) == v = "APPROVE" => New(b) = {}
Approves(v, b) == v = "APPROVE" => New(b) = {} /\ \A f \in Open : Settles(b, f)
Accounts(b) ==
  entry.later => (\A f \in Open : b.line[f] # "none") /\ (New(b) # {} => b.missed \/ b.recent)
Found(v, b) == Lines(b) /\ Approves(v, b) /\ Accounts(b)

\* A block has a numbered finding, and a new one cites the diff or a check that failed or is
\* missing; a seat without the whole change, or without CI, is not held to it.
Changed(b) == b.cite = "diff"
RedHostNone(b) == FALSE
RedHost(b) == b.cite = "check" /\ ci \in {"failed", "missing"}
CitesAlways(v, b) ==
  v = "REQUEST_CHANGES" =>
    /\ \E f \in Finding : b.line[f] \in {"new", "open"}
    /\ (New(b) # {} => Changed(b) \/ RedHost(b))
Cites(v, b) ==
  v = "REQUEST_CHANGES" /\ ~Partial /\ ci # "unreadable" =>
    /\ \E f \in Finding : b.line[f] \in {"new", "open"}
    /\ (New(b) # {} => Changed(b) \/ RedHost(b))

\* The requirements of the issue it closes: each is met, not met, or deferred to another issue.
Owes == Closes
Answered(b) == b.needs # "none"
Requirements(v, b) ==
  Owes => Answered(b) /\ b.needs # "deferred_nowhere" /\ (v = "APPROVE" => b.needs # "not_met")
Bears(v) == v = "APPROVE" => ~Partial /\ ci = "green"
Accepted(v, b) == Bears(v) /\ Found(v, b) /\ Cites(v, b) /\ Requirements(v, b)

\* An accepted review lands on GitHub.
Owed(b) ==
  [f \in Finding |-> IF b.line[f] \in {"new", "open"} THEN "raised"
                     ELSE IF Settles(b, f) THEN "settled" ELSE owed[f]]
Submit ==
  /\ landed = None /\ round < Rounds /\ round' = round + 1
  /\ \E v \in Verdict, b \in Body :
       /\ Accepted(v, b)
       /\ landed' = [line |-> b.line] /\ owed' = Owed(b) /\ approved' = (v = "APPROVE")
  /\ UNCHANGED <<entry, ci, faults>>

\* The record is best effort: it may fail, or the process may die before it.
Applied(line) ==
  [state |-> [f \in Finding |-> IF line[f] = "new" THEN "open"
                                ELSE IF line[f] \in State /\ Known(f) THEN line[f] ELSE entry.state[f]],
   later |-> TRUE]
Record ==
  /\ landed # None /\ landed' = None
  /\ \/ entry' = Applied(landed.line) /\ UNCHANGED faults
     \/ faults > 0 /\ faults' = faults - 1 /\ UNCHANGED entry
  /\ UNCHANGED <<ci, owed, approved, round>>

\* The author pushes, or CI runs again.
CIMoves == landed = None /\ ci' \in CI /\ UNCHANGED <<entry, landed, owed, approved, round, faults>>

Next == Submit \/ Record \/ CIMoves
Spec == Init /\ [][Next]_vars

--------------------------------------------------------------------------------
\* While no record was lost, an approval settles every finding that the reviews before it left open.
AllAnswered ==
  [][approved' /\ round' # round /\ faults = Faults =>
       \A f \in Finding : owed[f] = "raised" => owed'[f] = "settled"]_vars

\* After an approval no finding is open, whatever record was lost.
NoOpenApproval == approved => \A f \in Finding : owed[f] # "raised"

\* A reviewer who found nothing, or whom only a red check keeps from approving, has a review
\* that the broker accepts: it need not invent a finding.  (Cancelled checks end the turn.)
Honest(v, b) == New(b) # {} => b.cite = "check" /\ ci \in {"failed", "missing"}
Sayable ==
  landed = None /\ ci # "cancelled" /\ (\E f \in Finding : ~Known(f)) =>
    \E v \in Verdict, b \in Body : Honest(v, b) /\ (\A f \in Finding : b.line[f] # "open") /\ Accepted(v, b)
================================================================================
