-------------------------------- MODULE IssueChain --------------------------------
(***************************************************************************)
(* How issues are handed to the fixer: a reviewer files an issue from a    *)
(* pull request, the triage labels it, the host offers it to the fixer, or *)
(* a maintainer's label does; while the pull request it came from is open  *)
(* the hand-off is held, and a sweep releases it; the fix opens a pull     *)
(* request, whose review may file the next issue.                          *)
(*                                                                         *)
(* A hand-off reads the day's count, queues, then counts, in steps of its  *)
(* own; what it reads from GitHub before that is one step.                 *)
(***************************************************************************)
EXTENDS Integers, FiniteSets

CONSTANTS
  Issue,        \* issues; the pull request that fixes one is named by it
  Root,         \* a pull request that fixes none of them
  Proc,         \* processes that hand off: workers, gates and sweeps
  MaxDepth,     \* AUTO_FIX_MAX_DEPTH
  Daily,        \* auto_fix_daily
  Days,         \* how often midnight passes
  MayWithdraw   \* whether a maintainer may take the fix label off again

IssueChainAssumption ==
  Root \notin Issue /\ MaxDepth \in Nat /\ Daily \in Nat /\ Days \in Nat /\ MayWithdraw \in BOOLEAN

VARIABLES
  depth,    \* [Issue -> its lineage depth; 0 until it is filed]
  origin,   \* [Issue -> the pull request it was filed from]
  labels,   \* [Issue -> which of "auto" (a triage label) and "fix" (the maintainer's) it has]
  pr,       \* [pull request -> "none", "open", "merged", "closed"]
  held,     \* held-fixes.json: the issues whose hand-off waits
  queued,   \* issues with a fix turn in the ledger
  pc,       \* [Proc -> where a hand-off is]
  count,    \* the automatic turns counted today
  offered,  \* the automatic turns queued today
  deepest,  \* the depth of the deepest issue queued without a person
  days      \* midnights left

vars == <<depth, origin, labels, pr, held, queued, pc, count, offered, deepest, days>>
world == <<depth, origin, labels, pr>>
ghosts == <<offered, deepest>>

PullRequest == Issue \cup {Root}
Out == [at |-> "out", i |-> Root, auto |-> FALSE]

TypeOK ==
  /\ depth \in [Issue -> 0..Cardinality(Issue)] /\ origin \in [Issue -> PullRequest]
  /\ labels \in [Issue -> SUBSET {"auto", "fix"}]
  /\ pr \in [PullRequest -> {"none", "open", "merged", "closed"}]
  /\ held \subseteq Issue /\ queued \subseteq Issue
  /\ pc \in [Proc -> [at : {"out", "cap", "queue", "count"}, i : PullRequest, auto : BOOLEAN]]
  /\ count \in Nat /\ offered \in Nat /\ deepest \in Nat /\ days \in 0..Days

Init ==
  /\ depth = [i \in Issue |-> 0] /\ origin = [i \in Issue |-> Root]
  /\ labels = [i \in Issue |-> {}] /\ pr = [p \in PullRequest |-> IF p = Root THEN "open" ELSE "none"]
  /\ held = {} /\ queued = {} /\ pc = [p \in Proc |-> Out]
  /\ count = 0 /\ offered = 0 /\ deepest = 0 /\ days = Days

Filed(i) == depth[i] > 0
Live(i) == Filed(i) /\ pr[i] # "merged"            \* the fix closes its issue
DepthOf(p) == IF p = Root THEN 0 ELSE depth[p]
Eligible(i) == Live(i) /\ labels[i] # {}           \* issue_fix_issue

-----------------------------------------------------------------------------
(* The loop around the hand-offs. *)

\* _file_issue: one generation deeper than the issue whose fix is reviewed.
Lineage(p) == DepthOf(p) + 1
FileIssue(i, p) ==
  /\ ~Filed(i) /\ pr[p] = "open" /\ i # p
  /\ depth' = [depth EXCEPT ![i] = Lineage(p)] /\ origin' = [origin EXCEPT ![i] = p]
  /\ UNCHANGED <<labels, pr, held, queued, pc, count, offered, deepest, days>>

Maintain(i) ==
  /\ Live(i)
  /\ \/ labels' = [labels EXCEPT ![i] = @ \cup {"fix"}]
     \/ MayWithdraw /\ labels' = [labels EXCEPT ![i] = @ \ {"fix"}]
  /\ labels' # labels
  /\ UNCHANGED <<depth, origin, pr, held, queued, pc, count, offered, deepest, days>>

EndPr(p) ==
  /\ pr[p] = "open" /\ \E s \in {"merged", "closed"} : pr' = [pr EXCEPT ![p] = s]
  /\ UNCHANGED <<depth, origin, labels, held, queued, pc, count, offered, deepest, days>>

\* The fix turn: its branch must be absent, so there is one pull request for an issue.
Fix(i) ==
  /\ i \in queued /\ queued' = queued \ {i}
  /\ pr' = IF pr[i] = "none" /\ Eligible(i) THEN [pr EXCEPT ![i] = "open"] ELSE pr
  /\ UNCHANGED <<depth, origin, labels, held, pc, count, offered, deepest, days>>

Midnight ==
  /\ days > 0 /\ days' = days - 1 /\ count' = 0 /\ offered' = 0
  /\ UNCHANGED <<depth, origin, labels, pr, held, queued, pc, deepest>>

-----------------------------------------------------------------------------
(* A hand-off. *)

Go(p, i, auto) == pc' = [pc EXCEPT ![p] = [at |-> IF auto THEN "cap" ELSE "queue", i |-> i, auto |-> auto]]
End(p) == pc' = [pc EXCEPT ![p] = Out]

\* hand_off: an open fix ends it, and the pull request the finding came from decides.
HandOffNow(p, i, auto) ==
  IF pr[i] = "open" THEN UNCHANGED <<held, pc>>
  ELSE IF auto \/ pr[origin[i]] # "closed" THEN held' = held \ {i} /\ Go(p, i, auto)
  ELSE held' = held \ {i} /\ UNCHANGED pc
HandOff(p, i, auto) ==
  CASE pr[i] = "open"            -> UNCHANGED <<held, pc>>
    [] pr[origin[i]] = "open"    -> held' = held \cup {i} /\ UNCHANGED pc
    [] pr[origin[i]] = "closed"  -> held' = held \ {i} /\ UNCHANGED pc
    [] OTHER                     -> held' = held \ {i} /\ Go(p, i, auto)
\* GitHub could not be read: held, and the sweep looks again.
Unreadable(i) == held' = held \cup {i} /\ UNCHANGED pc

\* gate_triage.fix: a maintainer's label.
Labelled(p, i) ==
  /\ pc[p].at = "out" /\ "fix" \in labels[i] /\ Eligible(i)
  /\ HandOff(p, i, FALSE) \/ Unreadable(i)
  /\ UNCHANGED <<world, queued, count, ghosts, days>>

\* auto_offer: after the triage's labels; a lineage that is too deep needs a person.
ShallowNext(i) == depth[i] <= MaxDepth + 1
Shallow(i) == depth[i] <= MaxDepth
Triage(p, i) ==
  /\ pc[p].at = "out" /\ Live(i) /\ "auto" \notin labels[i]
  /\ labels' = [labels EXCEPT ![i] = @ \cup {"auto"}]
  /\ IF Shallow(i) THEN HandOff(p, i, TRUE) \/ Unreadable(i) ELSE UNCHANGED <<held, pc>>
  /\ UNCHANGED <<depth, origin, pr, queued, count, ghosts, days>>

\* sweep: what was held, once its pull request has ended.
Automatic(i) == "fix" \notin labels[i]
ReleaseMerged(p, i) ==
  /\ pc[p].at = "out" /\ i \in held /\ pr[origin[i]] = "merged" /\ Eligible(i)
  /\ Go(p, i, Automatic(i)) /\ UNCHANGED held
  /\ UNCHANGED <<world, queued, count, ghosts, days>>
Release(p, i) ==
  /\ pc[p].at = "out" /\ i \in held /\ pr[origin[i]] # "open"
  /\ IF pr[origin[i]] = "closed" \/ ~Eligible(i)
     THEN held' = held \ {i} /\ UNCHANGED pc
     ELSE Go(p, i, Automatic(i)) /\ UNCHANGED held
  /\ UNCHANGED <<world, queued, count, ghosts, days>>

\* _capped: the day's cap is spent; what is held stays so till tomorrow.
DayCapLate(p) ==
  /\ pc[p].at = "cap"
  /\ IF count > Daily THEN End(p) ELSE pc' = [pc EXCEPT ![p].at = "queue"]
  /\ UNCHANGED <<world, held, queued, count, ghosts, days>>
DayCap(p) ==
  /\ pc[p].at = "cap"
  /\ IF count >= Daily THEN End(p) ELSE pc' = [pc EXCEPT ![p].at = "queue"]
  /\ UNCHANGED <<world, held, queued, count, ghosts, days>>

\* queue_fix: the ledger takes a turn of one issue and base once.
Queue(p) ==
  LET i == pc[p].i IN
  /\ pc[p].at = "queue"
  /\ queued' = queued \cup {i} /\ held' = held \ {i}
  /\ IF pc[p].auto
     THEN /\ pc' = [pc EXCEPT ![p].at = "count"]
          /\ offered' = IF i \in queued THEN offered ELSE offered + 1
          /\ deepest' = IF depth[i] > deepest THEN depth[i] ELSE deepest
     ELSE End(p) /\ UNCHANGED ghosts
  /\ UNCHANGED <<world, count, days>>

\* count_turn: under the lock of the counts.
Count(p) ==
  /\ pc[p].at = "count" /\ count' = count + 1 /\ End(p)
  /\ UNCHANGED <<world, held, queued, ghosts, days>>

Handing(p) ==
  \/ DayCap(p) \/ Queue(p) \/ Count(p)
  \/ \E i \in Issue : Labelled(p, i) \/ Triage(p, i) \/ Release(p, i)

Next ==
  \/ \E i \in Issue : Maintain(i) \/ Fix(i) \/ \E p \in PullRequest : FileIssue(i, p)
  \/ \E p \in PullRequest : EndPr(p)
  \/ Midnight
  \/ \E p \in Proc : Handing(p)

\* The watch sweeps what is held, and a hand-off under way goes on.
Fairness ==
  /\ \A p \in Proc : WF_vars(DayCap(p) \/ Queue(p) \/ Count(p))
  /\ \A i \in Issue : SF_vars(\E p \in Proc : Release(p, i))
  /\ WF_vars(Midnight)
Spec == Init /\ [][Next]_vars /\ Fairness

-----------------------------------------------------------------------------
(* Properties. *)

\* Without a person the chain of findings on fixes of findings ends: nothing deeper than
\* AUTO_FIX_MAX_DEPTH is handed over.
ChainBounded == deepest <= MaxDepth

\* A fix turn starts from the base branch, so it is queued only when the code of its finding is
\* there: the pull request it came from has merged.
NotBeforeMerge == [][\A i \in queued' \ queued : pr[origin[i]] = "merged"]_vars

\* No more automatic turns are queued in a day than its cap.
DailyCap == offered <= Daily

\* What is held ends when its pull request does, unless the day's cap is spent.
Waits(i) == i \in held /\ pr[origin[i]] # "open" /\ count < Daily
HeldEnds == \A i \in Issue : []<>~Waits(i)
=============================================================================
