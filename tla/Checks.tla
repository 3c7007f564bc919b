--------------------------------- MODULE Checks ---------------------------------
(***************************************************************************)
(* The CI state of a commit as the host reads it: the last run of every    *)
(* check, and of these the ones that gate.                                 *)
(***************************************************************************)
EXTENDS Integers, FiniteSets

CONSTANTS
  Check,      \* the checks
  Required,   \* those that the loop names; all of them gate when it names none
  MaxRun      \* bound: the runs of one check

ChecksAssumption == Required \subseteq Check /\ MaxRun \in Nat \ {0}

Outcome == {"pending", "passed", "failed", "cancelled"}
Run == [check : Check, id : 1..MaxRun, is : Outcome]

\* A re-run replaces the run before it.
Latest(runs) == {r \in runs : \A s \in runs : s.check = r.check => s.id <= r.id}
Is(runs, outcome) == {r.check : r \in {s \in Latest(runs) : s.is = outcome}}
Gates(checks) == IF Required = {} THEN checks ELSE checks \cap Required
Failed(runs) == Gates(Is(runs, "failed"))
Pending(runs) == Gates(Is(runs, "pending"))
Cancelled(runs) == Gates(Is(runs, "cancelled"))
Missing(runs) == Required \ {r.check : r \in runs}
Green(runs) == Failed(runs) = {} /\ Pending(runs) = {} /\ Cancelled(runs) = {} /\ Missing(runs) = {}

\* What GitHub may make of a commit's runs: a check starts, ends, or runs again.
Starts(runs) == {runs \cup {[check |-> c, id |-> 1, is |-> "pending"]} : c \in Check \ {r.check : r \in runs}}
Ends(runs) ==
  {(runs \ {p[1]}) \cup {[p[1] EXCEPT !.is = p[2]]} : p \in {r \in runs : r.is = "pending"} \X (Outcome \ {"pending"})}
Reruns(runs) ==
  {runs \cup {[check |-> r.check, id |-> r.id + 1, is |-> "pending"]} :
     r \in {s \in Latest(runs) : s.is \in {"failed", "cancelled"} /\ s.id < MaxRun}}
================================================================================
