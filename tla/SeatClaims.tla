------------------------------ MODULE SeatClaims ------------------------------
(***************************************************************************)
(* The claim and the in-flight mark a worker writes for one pull request   *)
(* (locks.json and inflight.json of a loop), and everyone who removes      *)
(* them: the worker that ends, the operator who reconciles, the gates that *)
(* see a verdict or a handoff, and the clocks.  Each file is read and      *)
(* written under one file lock, so a step is one locked section.           *)
(*                                                                         *)
(* Time is kept as ages, which stop growing once nothing depends on them.  *)
(***************************************************************************)
EXTENDS Integers, FiniteSetsExt

CONSTANTS
  Run, SeatOf, HeadOf,   \* the runs of the pull request
  MaxHead,               \* its heads are 1..MaxHead
  NoRun,
  Budget,                \* the turn budgets an operator may configure
  TtlMin, Tail,          \* ttl_min; what a turn takes besides its budget
  MarkTtl,               \* inflight_ttl_min
  MayFail                \* whether a write may fail or a worker die

Seat == {"reviewer", "fixer"}

\* There is a longest turn.
ASSUME SeatClaimsAssumption ==
  /\ SeatOf \in [Run -> Seat] /\ HeadOf \in [Run -> 1..MaxHead] /\ NoRun \notin Run
  /\ MaxHead \in Nat \ {0} /\ Budget \subseteq Nat /\ (\E b \in Budget : \A c \in Budget : c <= b)
  /\ TtlMin \in Nat /\ Tail \in Nat /\ MarkTtl \in Nat

VARIABLES
  life,      \* the run's row: queued, working, held (uncertain), over
  pc,        \* its worker: out, claim, mark, turn, release, unmark, dead
  spent,     \* how long its turn has run
  allowed,   \* the budget it was started with
  budget,    \* the budget now configured, per seat
  claim,     \* [Seat -> the run that holds the seat for this pull request, or NoRun]
  age,       \* how old that claim is
  mark,      \* [Seat -> [1..MaxHead -> the run that armed the mark, or NoRun]]
  markAge,
  head,      \* the live head
  verdicts, requests,  \* webhooks: heads with a verdict, heads a review was requested at
  gate,      \* a gate that has read the pull request and is about to free a seat
  shown      \* runs whose claim is written and that no gate has ended

row == <<life, pc, spent, allowed>>
disk == <<claim, age, mark, markAge>>
hub == <<head, verdicts, requests, gate>>
vars == <<row, budget, disk, hub, shown>>

Longest == Max(Budget)
Oldest == Max({TtlMin, Longest + Tail}) + 1   \* nothing depends on a larger age

TypeOK ==
  /\ life \in [Run -> {"queued", "working", "held", "over"}]
  /\ pc \in [Run -> {"out", "claim", "mark", "turn", "release", "unmark", "dead"}]
  /\ spent \in [Run -> 0..Oldest] /\ allowed \in [Run -> Budget]
  /\ budget \in [Seat -> Budget]
  /\ claim \in [Seat -> Run \cup {NoRun}] /\ age \in [Seat -> 0..Oldest]
  /\ mark \in [Seat -> [1..MaxHead -> Run \cup {NoRun}]]
  /\ markAge \in [Seat -> [1..MaxHead -> 0..MarkTtl]]
  /\ head \in 1..MaxHead /\ verdicts \subseteq 1..MaxHead /\ requests \subseteq 1..MaxHead
  /\ gate \in {"idle"} \cup Seat /\ shown \subseteq Run

Init ==
  /\ life = [r \in Run |-> "queued"] /\ pc = [r \in Run |-> "out"]
  /\ spent = [r \in Run |-> 0] /\ allowed = [r \in Run |-> Longest]
  /\ budget = [s \in Seat |-> Longest]
  /\ claim = [s \in Seat |-> NoRun] /\ age = [s \in Seat |-> 0]
  /\ mark = [s \in Seat |-> [h \in 1..MaxHead |-> NoRun]]
  /\ markAge = [s \in Seat |-> [h \in 1..MaxHead |-> 0]]
  /\ head = 1 /\ verdicts = {} /\ requests = {} /\ gate = "idle" /\ shown = {}

Working(r) == life[r] = "working"
Busy(r) == life[r] \in {"working", "held"}
Alive(r) == pc[r] \notin {"out", "dead"}

-----------------------------------------------------------------------------
\* The clocks.

WorstTurn(b) == b + Tail

\* Mutant: the TTL follows the configured budget only.
SeatTtlConfigured(s) == Max({TtlMin, WorstTurn(budget[s])})
\* A claim lives for ttl_min or a whole turn of its seat, on the budget it was taken with or
\* the one in force, whichever is longer.
SeatTtl(s) ==
  Max({TtlMin, WorstTurn(budget[s])}
      \cup IF claim[s] = NoRun THEN {} ELSE {WorstTurn(allowed[claim[s]])})

MarkLive(s) == claim[s] # NoRun /\ age[s] <= SeatTtl(s)

InFlight(s, h) == mark[s][h] # NoRun /\ markAge[s][h] < MarkTtl

\* A turn is killed at its budget, and its broker drained, before it can run longer.
Tick ==
  /\ \A r \in Run : Working(r) /\ Alive(r) => spent[r] < WorstTurn(allowed[r])
  /\ spent' = [r \in Run |-> IF Working(r) /\ spent[r] < Oldest THEN spent[r] + 1 ELSE spent[r]]
  /\ age' = [s \in Seat |-> IF claim[s] # NoRun /\ age[s] < Oldest THEN age[s] + 1 ELSE age[s]]
  /\ markAge' = [s \in Seat |-> [h \in 1..MaxHead |->
       IF InFlight(s, h) THEN markAge[s][h] + 1 ELSE markAge[s][h]]]
  /\ UNCHANGED <<life, pc, allowed, budget, claim, mark, hub, shown>>

SetBudget(s, b) ==
  /\ budget[s] # b
  /\ budget' = [budget EXCEPT ![s] = b]
  /\ UNCHANGED <<row, disk, hub, shown>>

-----------------------------------------------------------------------------
\* Writes to the two files.

Free(s) ==
  /\ claim' = [claim EXCEPT ![s] = NoRun]
  /\ age' = [age EXCEPT ![s] = 0]

Unmark(s, h) ==
  /\ mark' = [mark EXCEPT ![s][h] = NoRun]
  /\ markAge' = [markAge EXCEPT ![s][h] = 0]

\* Mutant: expired claims are dropped only while the other seat is held as well.
PruneUnderCapacity(s) ==
  /\ claim[s] # NoRun /\ ~MarkLive(s) /\ \E t \in Seat \ {s} : claim[t] # NoRun
  /\ Free(s)
  /\ UNCHANGED <<row, budget, mark, markAge, hub, shown>>

\* Every reader that goes through `active' drops an expired claim.
Prune(s) ==
  /\ claim[s] # NoRun /\ ~MarkLive(s)
  /\ Free(s)
  /\ UNCHANGED <<row, budget, mark, markAge, hub, shown>>

\* The next mark that is written drops those of a day ago; one that ran out counts as none.
ForgetMark(s, h) ==
  /\ mark[s][h] # NoRun /\ ~InFlight(s, h)
  /\ Unmark(s, h)
  /\ UNCHANGED <<row, budget, claim, age, hub, shown>>

-----------------------------------------------------------------------------
\* A worker.

\* The ledger lets one run of the pull request work at a time, at the live head.
Start(r) ==
  /\ life[r] = "queued" /\ HeadOf[r] = head
  /\ \A q \in Run : ~Busy(q)
  /\ life' = [life EXCEPT ![r] = "working"] /\ pc' = [pc EXCEPT ![r] = "claim"]
  /\ allowed' = [allowed EXCEPT ![r] = budget[SeatOf[r]]]
  /\ UNCHANGED <<spent, budget, disk, hub, shown>>

\* acquire overwrites whatever is there; a write that fails is logged and forgotten.
ClaimSeat(r) ==
  /\ pc[r] = "claim"
  /\ \/ /\ claim' = [claim EXCEPT ![SeatOf[r]] = r] /\ age' = [age EXCEPT ![SeatOf[r]] = 0]
        /\ shown' = shown \cup {r}
     \/ MayFail /\ UNCHANGED <<claim, age, shown>>
  /\ pc' = [pc EXCEPT ![r] = "mark"]
  /\ UNCHANGED <<life, spent, allowed, budget, mark, markAge, hub>>

ArmMark(r) ==
  /\ pc[r] = "mark"
  /\ \/ /\ mark' = [mark EXCEPT ![SeatOf[r]][HeadOf[r]] = r]
        /\ markAge' = [markAge EXCEPT ![SeatOf[r]][HeadOf[r]] = 0]
     \/ MayFail /\ UNCHANGED <<mark, markAge>>
  /\ pc' = [pc EXCEPT ![r] = "turn"]
  /\ UNCHANGED <<life, spent, allowed, budget, claim, age, hub, shown>>

\* The turn of a reviewer posts a verdict; that of a fixer pushes and asks for a review.
PostVerdict(r) ==
  /\ pc[r] = "turn" /\ Working(r) /\ SeatOf[r] = "reviewer"
  /\ verdicts' = verdicts \cup {HeadOf[r]}
  /\ UNCHANGED <<row, budget, disk, head, requests, gate, shown>>

PushAndAsk(r) ==
  /\ pc[r] = "turn" /\ Working(r) /\ SeatOf[r] = "fixer" /\ HeadOf[r] = head /\ head < MaxHead
  /\ head' = head + 1 /\ requests' = requests \cup {head + 1}
  /\ UNCHANGED <<row, budget, disk, verdicts, gate, shown>>

\* complete_uncertain: the row ends, or is left uncertain.
End(r) ==
  /\ pc[r] = "turn" /\ Working(r)
  /\ \E l \in {"over", "held"} : life' = [life EXCEPT ![r] = l]
  /\ pc' = [pc EXCEPT ![r] = "release"]
  /\ UNCHANGED <<spent, allowed, budget, disk, hub, shown>>

\* release_seat: a run frees the claim that names it, unless it ended uncertain.
ReleaseSeat(r) ==
  /\ pc[r] = "release"
  /\ IF life[r] # "held" /\ claim[SeatOf[r]] = r
     THEN Free(SeatOf[r]) /\ pc' = [pc EXCEPT ![r] = "unmark"]
     ELSE pc' = [pc EXCEPT ![r] = "out"] /\ UNCHANGED <<claim, age>>
  /\ UNCHANGED <<life, spent, allowed, budget, mark, markAge, hub, shown>>

\* inflight_clear: by seat and head, whoever armed the mark.
ClearMark(r) ==
  /\ pc[r] = "unmark"
  /\ Unmark(SeatOf[r], HeadOf[r])
  /\ pc' = [pc EXCEPT ![r] = "out"]
  /\ UNCHANGED <<life, spent, allowed, budget, claim, age, hub, shown>>

Die(r) ==
  /\ MayFail /\ Alive(r)
  /\ pc' = [pc EXCEPT ![r] = "dead"]
  /\ UNCHANGED <<life, spent, allowed, budget, disk, hub, shown>>

\* The sweep of a lease that ran out: the worker died.
Sweep(r) ==
  /\ Working(r) /\ pc[r] = "dead"
  /\ life' = [life EXCEPT ![r] = "held"]
  /\ UNCHANGED <<pc, spent, allowed, budget, disk, hub, shown>>

\* reconcile_uncertain frees the claim the run wrote, and its mark.
Reconcile(r) ==
  /\ life[r] = "held" /\ ~Alive(r)
  /\ life' = [life EXCEPT ![r] = "over"]
  /\ IF claim[SeatOf[r]] = r
     THEN Free(SeatOf[r]) /\ Unmark(SeatOf[r], HeadOf[r])
     ELSE UNCHANGED disk
  /\ UNCHANGED <<pc, spent, allowed, budget, hub, shown>>

-----------------------------------------------------------------------------
\* The gates, and a person who pushes.

Push ==
  /\ head < MaxHead /\ head' = head + 1
  /\ UNCHANGED <<row, budget, disk, verdicts, requests, gate, shown>>

\* An approval frees the reviewer's claim for its head before anything is read.
GateApproved(h) ==
  /\ h \in verdicts
  /\ claim["reviewer"] # NoRun /\ HeadOf[claim["reviewer"]] = h
  /\ Free("reviewer") /\ shown' = shown \ {claim["reviewer"]}
  /\ UNCHANGED <<row, budget, mark, markAge, hub>>

\* A rejection, or a request to review, is first compared with the live pull request...
GateRead(s) ==
  /\ gate = "idle"
  /\ head \in IF s = "reviewer" THEN verdicts ELSE requests
  /\ gate' = s
  /\ UNCHANGED <<row, budget, disk, head, verdicts, requests, shown>>

\* ... then ends the turn of whoever holds the seat.
GateFree ==
  /\ gate # "idle"
  /\ Free(gate) /\ shown' = shown \ {claim[gate]}
  /\ gate' = "idle"
  /\ UNCHANGED <<row, budget, mark, markAge, head, verdicts, requests>>

Next ==
  \/ Tick \/ Push \/ GateFree
  \/ \E s \in Seat : \/ Prune(s) \/ GateRead(s)
                     \/ \E b \in Budget : SetBudget(s, b)
                     \/ \E h \in 1..MaxHead : ForgetMark(s, h)
  \/ \E h \in 1..MaxHead : GateApproved(h)
  \/ \E r \in Run : \/ Start(r) \/ ClaimSeat(r) \/ ArmMark(r) \/ PostVerdict(r)
                    \/ PushAndAsk(r) \/ End(r) \/ ReleaseSeat(r) \/ ClearMark(r)
                    \/ Die(r) \/ Sweep(r) \/ Reconcile(r)

Work(r) == ClaimSeat(r) \/ ArmMark(r) \/ End(r) \/ ReleaseSeat(r) \/ ClearMark(r)

\* Clocks run, every sweep reads the seats, and a turn is over when its budget is.
Fairness ==
  /\ WF_vars(Tick) /\ \A s \in Seat : WF_vars(Prune(s))
  /\ \A r \in Run : WF_vars(Work(r))

Spec == Init /\ [][Next]_vars /\ Fairness

-----------------------------------------------------------------------------
\* A working run whose claim was written stays visible until a gate ends its turn: neither the
\* clocks, whatever the operator does to the budgets, nor the release of an older run of the
\* same seat takes the claim away.
LiveKeepsClaim == \A r \in shown : Working(r) /\ Alive(r) => claim[SeatOf[r]] = r

\* A claim whose worker is gone does not wedge the loop: it leaves the disk, though its worker
\* was killed before it could free it and nobody reconciles it.
DeadClaim(s) == claim[s] # NoRun /\ ~Alive(claim[s])
DeadClaimEnds == \A s \in Seat : []<>~DeadClaim(s)

\* What claim_seat says of the mark: the head is in flight for the life of the run, and not
\* after a run has ended and freed what was its own.
MarkForLifeOfRun ==
  \A s \in Seat, h \in 1..MaxHead :
    InFlight(s, h) => LET r == mark[s][h] IN Busy(r) \/ pc[r] \in {"release", "unmark", "dead"}

\* What release_seat says of a newer run of the same seat and head: it keeps its mark.
NewerKeepsMark ==
  [][\A r \in Run : pc[r] = "unmark" /\ pc'[r] = "out" =>
       mark[SeatOf[r]][HeadOf[r]] \in {r, NoRun}]_vars

\* What release_if says of a late verdict: it does not end a newer run at another head.
LateVerdictKeepsNewer ==
  [][\A r \in Run : Working(r) /\ Alive(r) /\ gate = SeatOf[r] /\ gate' = "idle"
       /\ claim[SeatOf[r]] = r /\ SeatOf[r] = "reviewer" => HeadOf[r] \in verdicts]_vars
=============================================================================
