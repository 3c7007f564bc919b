------------------------------ MODULE MCEvents ------------------------------
(***************************************************************************)
(* Small instances of what turns events into turns: the rounds of one      *)
(* pull request (ReviewLoop, whose own behaviours are the part "loop"),    *)
(* the chain of findings on fixes, and the review of a retargeted pull     *)
(* request. Each behaviour is about one of them.                           *)
(***************************************************************************)
EXTENDS ReviewLoop

CONSTANTS
  Issue, Root, Proc, OneProc, MaxDepth, Daily, OneDay, Days, MoreDays,                \* of IssueChain
  Actor, Sweep, Heads, Eras, MoreEras, Reviews, Failures, Deaths,                   \* of Retarget
  Escalates                                     \* whether its one head with reviews is escalated

VARIABLE part   \* the component that this behaviour is about

\* Where a fix label may be withdrawn, the day's cap is of one process that hands off.
VARIABLES depth, origin, labels, pr, held, queued, pc, count, offered, deepest, days
chainVars == <<depth, origin, labels, pr, held, queued, pc, count, offered, deepest, days>>
Chain == INSTANCE IssueChain WITH MayWithdraw <- FALSE
ChainDays == INSTANCE IssueChain WITH Proc <- {OneProc}, Daily <- OneDay,
                                      Days <- MoreDays, MayWithdraw <- TRUE

\* One head with its reviews, and heads that are pushed while no recorder of a hold dies.
VARIABLES retargetPr, era, reviews, seen, hold, cue, breach, turns, run, acts, proc, clock, left
retargetVars == <<retargetPr, era, reviews, seen, hold, cue, breach, turns, run, acts, proc, clock, left>>
Retargeted == INSTANCE Retarget WITH Heads <- 1, pr <- retargetPr
RetargetPushed == INSTANCE Retarget WITH Eras <- MoreEras, Reviews <- 0, Failures <- 0, Deaths <- 0,
                                         pr <- retargetPr

Part == {"loop", "chain", "chain_days", "retarget", "retarget_pushed"}

ASSUME EventsAssumption ==
  /\ Chain!IssueChainAssumption /\ ChainDays!IssueChainAssumption
  /\ Retargeted!RetargetAssumption /\ RetargetPushed!RetargetAssumption

\* The component of the part starts in its own initial states; the others rest in one.
PartInit ==
  /\ part \in Part
  /\ Init
  /\ IF part = "chain_days" THEN ChainDays!Init ELSE Chain!Init
  /\ IF part = "retarget_pushed" THEN RetargetPushed!Init
     ELSE Retargeted!Init /\ (part = "retarget" \/ ~retargetPr.draft)

PartNext ==
  \/ /\ part = "loop" /\ Next
     /\ UNCHANGED <<part, chainVars, retargetVars>>
  \/ /\ \/ part = "chain" /\ Chain!Next
        \/ part = "chain_days" /\ ChainDays!Next
     /\ UNCHANGED <<part, vars, retargetVars>>
  \/ /\ \/ part = "retarget" /\ Retargeted!Next /\ (cue' = 0 \/ Escalates)
        \/ part = "retarget_pushed" /\ RetargetPushed!Next
     /\ UNCHANGED <<part, vars, chainVars>>

partVars == <<part, vars, chainVars, retargetVars>>

PartSpec == PartInit /\ [][PartNext]_partVars

\* A fix turn is queued only when the pull request of its finding has merged: a fix starts from the
\* base branch.  Without a person the chain of findings on fixes of findings ends at
\* AUTO_FIX_MAX_DEPTH while no fix label is withdrawn (fix_hold.py:112), and a day has no more
\* automatic turns than its cap while one process hands off (fix_hold.py:138).
ChainBounded ==
  /\ [](part = "chain" => Chain!ChainBounded)
  /\ [](part = "chain_days" => ChainDays!DailyCap)
  /\ Chain!NotBeforeMerge

\* A held head of a retargeted pull request is decided by attested reviews of the new base
\* alone; one turn reviews it, however often and by whom the hold is recorded; and no marker
\* that was written before the hold outlives its record.  (One that is written after it, of a count
\* made before it, does: gate.py:1268 does not look at the hold.)
RetargetAttested ==
  /\ part = "retarget" => Retargeted!Attested /\ Retargeted!FixAttested /\ Retargeted!OneTurn
  /\ part = "retarget_pushed" => RetargetPushed!Cleared
=============================================================================
