-------------------------------- MODULE Retarget --------------------------------
(***************************************************************************)
(* A pull request that was stacked on another one comes to the loop's base *)
(* at the same head.  The sweep and the gates record a hold of that head,  *)
(* with the reviews that were there before; one fresh reviewer turn starts *)
(* for the hold, and only a review with a receipt counts from then on.     *)
(***************************************************************************)
EXTENDS Integers, FiniteSets

CONSTANTS
  Actor,      \* processes that record a hold: gates, the watchdog's sweep
  Sweep,      \* the one that is the sweep
  Heads,      \* how many heads the pull request has
  Eras,       \* how often its base changes
  Reviews,    \* how many reviews there are
  Failures,   \* failed reads of the reviews and failed enqueues
  Deaths      \* processes that die half-way

RetargetAssumption ==
  /\ Sweep \in Actor /\ {Heads, Eras, Reviews, Failures, Deaths} \subseteq Nat

VARIABLES
  pr,         \* the open pull request: head, base, draft
  era,        \* how often its base has changed
  reviews,    \* its reviews, with their receipts
  seen,       \* head and base in the watch file, as the last sweep saw them
  hold,       \* the hold of the transitions file, or None
  cue,        \* the head of an escalation that is counted and not marked yet, or 0
  breach,     \* the escalation marker: its head, and whether it was written under a hold; or None
  turns,      \* reviewer turns in the ledger
  run,        \* the turn that runs, or None
  acts,       \* the last fix order or merge cue, if the watch saw the pull request stacked
  proc,       \* the actors
  clock,      \* time, as the records of holds tell it
  left        \* reads and enqueues that may fail, processes that may die

vars == <<pr, era, reviews, seen, hold, cue, breach, turns, run, acts, proc, clock, left>>
github == <<pr, era>>
work == <<turns, run, cue>>

None == [none |-> TRUE]
Unread == {-1}
Idle == [at |-> "idle"]
Head == 1..Heads
Base == {"root", "parent"}
Snapshot == [head : Head, base : Base, draft : BOOLEAN]

TypeOK ==
  /\ pr \in Snapshot /\ era \in 0..Eras /\ clock \in Nat
  /\ \A r \in reviews : r.id \in 1..Reviews /\ r.head \in Head /\ r.base \in Base
  /\ seen \in [head : Head, base : Base]
  /\ (hold # None => hold.head \in Head) /\ cue \in 0..Heads
  /\ \A a \in Actor : proc[a].at \in {"idle", "set", "clear", "start", "act", "fresh"}

Init ==
  /\ pr \in [head : {1}, base : {"root"}, draft : BOOLEAN] /\ era = 0 /\ reviews = {}
  /\ seen = [head |-> 1, base |-> "root"] /\ hold = None /\ cue = 0 /\ breach = None /\ turns = {} /\ run = None
  /\ acts = {} /\ proc = [a \in Actor |-> Idle] /\ clock = 1
  /\ left = [failures |-> Failures, deaths |-> Deaths]

\* GitHub: the author pushes, retargets and drafts; persons review.
Push == /\ pr.head < Heads /\ pr' = [pr EXCEPT !.head = @ + 1]
        /\ UNCHANGED <<era, reviews, seen, hold, breach, work, acts, proc, clock, left>>
Rebase == /\ era < Eras /\ era' = era + 1
          /\ pr' = [pr EXCEPT !.base = IF @ = "root" THEN "parent" ELSE "root"]
          /\ UNCHANGED <<reviews, seen, hold, breach, work, acts, proc, clock, left>>
Ready == /\ pr.draft /\ pr' = [pr EXCEPT !.draft = FALSE]
         /\ UNCHANGED <<era, reviews, seen, hold, breach, work, acts, proc, clock, left>>
Review(attested) == [id |-> Cardinality(reviews) + 1, head |-> pr.head, base |-> pr.base, era |-> era, receipt |-> attested]
PersonReviews ==
  /\ Cardinality(reviews) < Reviews /\ reviews' = reviews \cup {Review(FALSE)}
  /\ UNCHANGED <<github, seen, hold, breach, work, acts, proc, clock, left>>

Holds(head) == hold # None /\ hold.head = head
BaselineMissing(h) == h.old = Unread
TurnKey(h) == h.at

\* The reviews that may decide: all of them, or those with a receipt that are not in the baseline.
EffectiveOld(head) ==
  LET at == {r \in reviews : r.head = head} IN
  CASE ~Holds(head) -> at [] BaselineMissing(hold) -> {} [] OTHER -> {r \in at : r.receipt}
Effective(head) ==
  LET at == {r \in reviews : r.head = head} IN
  CASE ~Holds(head) -> at [] BaselineMissing(hold) -> {}
    [] OTHER -> {r \in at : r.receipt /\ r.id \notin hold.old}

Escalated(head) == breach # None /\ breach.head = head

\* The verdict cap is reached, by the reviews that decide: a gate, a sweep or the operator counts them.
Counts(head) == pr.base = "root" /\ ~pr.draft /\ (Holds(head) => Effective(head) # {})
EscalateCount ==
  /\ cue = 0 /\ Counts(pr.head) /\ cue' = pr.head
  /\ UNCHANGED <<github, reviews, seen, hold, breach, turns, run, acts, proc, clock, left>>

\* Later the head is marked.  Under its lock the breach gate checks the live pull request, not the hold.
EscalateMark ==
  /\ cue # 0 /\ cue' = 0
  /\ breach' = IF pr.base = "root" /\ ~pr.draft /\ pr.head = cue /\ ~Escalated(cue)
               THEN [head |-> cue, held |-> Holds(cue)] ELSE breach
  /\ UNCHANGED <<github, reviews, seen, hold, turns, run, acts, proc, clock, left>>

\* The boundary is the watch's: its last sweep saw the pull request on another base.
Boundary == seen.base # "root"
Begin(why, r) ==
  [at |-> IF why \in {"edited", "sweep"} THEN "start" ELSE "act", why |-> why, review |-> r,
   pr |-> pr, observed |-> Boundary, era |-> era, key |-> IF Holds(pr.head) THEN TurnKey(hold) ELSE 0, old |-> {}, born |-> 0]

\* The baseline: the ids of all the reviews; a read that failed can never be made up for.
Baseline == {r.id : r \in reviews}
ReadFails == left.failures > 0 /\ left' = [left EXCEPT !.failures = @ - 1]

\* record: a hold of this head stands, and without a boundary there is none; else the reviews are read.
Record(a, why, r) ==
  IF Holds(pr.head) \/ ~Boundary
  THEN proc' = [proc EXCEPT ![a] = Begin(why, r)] /\ UNCHANGED <<clock, left>>
  ELSE /\ clock' = clock + 1
       /\ \E old \in {Baseline, Unread} :
            /\ IF old = Baseline THEN UNCHANGED left ELSE ReadFails
            /\ proc' = [proc EXCEPT ![a] = [Begin(why, r) EXCEPT !.at = "set", !.old = old, !.born = clock]]

\* The first record of a head stands.
Entry(p) == [head |-> p.pr.head, at |-> p.born, old |-> p.old, era |-> p.era, fresh |-> "none"]
SetLast(p) == hold' = Entry(p)
Set(p) == hold' = IF Holds(p.pr.head) THEN hold ELSE Entry(p)
SetHold(a) ==
  /\ proc[a].at = "set" /\ Set(proc[a]) /\ proc' = [proc EXCEPT ![a].at = "clear", ![a].old = {}, ![a].born = 0]
  /\ UNCHANGED <<github, reviews, seen, breach, work, acts, clock, left>>

\* What was queued, marked and escalated for the old base goes.
Next1(p) == IF p.why \in {"edited", "sweep"} THEN "start" ELSE "act"
ClearNothing == UNCHANGED breach
Clear == breach' = None
Quarantine(a) ==
  /\ proc[a].at = "clear" /\ Clear
  /\ proc' = [proc EXCEPT ![a].at = Next1(proc[a]), ![a].key = IF Holds(proc[a].pr.head) THEN TurnKey(hold) ELSE 0]
  /\ UNCHANGED <<github, reviews, seen, hold, work, acts, clock, left>>

\* A gate or a sweep begins with a read of the live pull request.
EditedHook(a) ==
  /\ a # Sweep /\ proc[a] = Idle /\ pr.base = "root" /\ Record(a, "edited", 0)
  /\ UNCHANGED <<github, reviews, seen, hold, breach, work, acts>>
ReviewerGate(a) ==
  /\ a # Sweep /\ proc[a] = Idle /\ pr.base = "root" /\ ~pr.draft /\ Record(a, "requested", 0)
  /\ UNCHANGED <<github, reviews, seen, hold, breach, work, acts>>
FixNoRecord(a, r) == proc' = [proc EXCEPT ![a] = Begin("changes", r)] /\ UNCHANGED <<clock, left>>
FixRecord(a, r) == Record(a, "changes", r)
FixerGate(a) ==
  /\ a # Sweep /\ proc[a] = Idle /\ pr.base = "root" /\ ~pr.draft
  /\ \E r \in reviews : r.base = "root" /\ r.head = pr.head /\ FixRecord(a, r.id)
  /\ UNCHANGED <<github, reviews, seen, hold, breach, work, acts>>
SweepLooks ==
  /\ proc[Sweep] = Idle
  /\ IF pr.base = "root" /\ Boundary THEN Record(Sweep, "sweep", 0)
     ELSE proc' = [proc EXCEPT ![Sweep] = [Begin("sweep", 0) EXCEPT !.at = "fresh"]] /\ UNCHANGED <<clock, left>>
  /\ UNCHANGED <<github, reviews, seen, hold, breach, work, acts>>

\* start_fresh_review: one turn for the hold; a failed enqueue is kept on the hold.
Eligible(p) == p.pr.base = "root" /\ ~p.pr.draft /\ Holds(p.pr.head) /\ ~BaselineMissing(hold)
Turn(p, key) == [head |-> p.pr.head, key |-> key, era |-> p.era]
Submitted(t) == IF \E u \in turns : u.head = t.head /\ u.key = t.key THEN turns ELSE turns \cup {t}
Due(p) == Eligible(p) /\ hold.fresh # "enqueued"
StartFresh(p) ==
  IF Due(p)
  THEN \/ turns' = Submitted(Turn(p, TurnKey(hold))) /\ hold' = [hold EXCEPT !.fresh = "enqueued"] /\ UNCHANGED left
       \/ ReadFails /\ hold' = [hold EXCEPT !.fresh = "retry"] /\ UNCHANGED turns
  ELSE UNCHANGED <<turns, hold, left>>
Saw(p) == IF p.pr.draft THEN seen ELSE [head |-> p.pr.head, base |-> p.pr.base]
RetryOnce(p) == IF Holds(p.pr.head) /\ hold.fresh = "retry" THEN UNCHANGED <<turns, hold, left>> ELSE StartFresh(p)
Retry(p) == StartFresh(p)
Start(a) ==
  /\ proc[a].at = "start" /\ StartFresh(proc[a])
  /\ seen' = IF a = Sweep THEN Saw(proc[a]) ELSE seen
  /\ proc' = [proc EXCEPT ![a] = Idle]
  /\ UNCHANGED <<github, reviews, cue, breach, run, acts, clock>>
RetryFresh ==
  /\ proc[Sweep].at = "fresh" /\ Retry(proc[Sweep]) /\ seen' = Saw(proc[Sweep])
  /\ proc' = [proc EXCEPT ![Sweep] = Idle]
  /\ UNCHANGED <<github, reviews, cue, breach, run, acts, clock>>

\* The gates act: a review turn where no review counts yet, a fix of one that does.
Act(kind, p) == [kind |-> kind, review |-> p.review, observed |-> p.observed, live |-> p.pr.head = pr.head]
Kept(act) == {x \in {act} : x.observed}   \* no property is about the others
Orders(a) ==
  /\ proc[a].at = "act" /\ proc[a].why = "requested"
  /\ LET p == proc[a]
         silent == (Holds(p.pr.head) /\ BaselineMissing(hold)) \/ Effective(p.pr.head) # {} \/ Escalated(p.pr.head)
     IN turns' = IF silent THEN turns ELSE Submitted(Turn(p, p.key))
  /\ proc' = [proc EXCEPT ![a] = Idle]
  /\ UNCHANGED <<github, reviews, seen, hold, cue, breach, run, acts, clock, left>>
Fixes(a) ==
  /\ proc[a].at = "act" /\ proc[a].why = "changes"
  /\ LET p == proc[a] IN
     acts' = IF (\E r \in Effective(p.pr.head) : r.id = p.review) /\ ~Escalated(p.pr.head)
             THEN Kept(Act("fix", p)) ELSE acts
  /\ proc' = [proc EXCEPT ![a] = Idle]
  /\ UNCHANGED <<github, reviews, seen, hold, breach, work, clock, left>>
\* An approval is checked against the live pull request; this path records nothing.
Approved ==
  /\ pr.base = "root"
  /\ \E r \in Effective(pr.head) :
       r.base = "root" /\ acts' = Kept([kind |-> "merge", review |-> r.id, observed |-> Boundary, live |-> TRUE])
  /\ UNCHANGED <<github, reviews, seen, hold, breach, work, proc, clock, left>>

\* The turn's run: its generation is pinned, checked before the POST and after it.
Fits(t) == pr.base = "root" /\ ~pr.draft /\ pr.head = t.head
Pin ==
  /\ run = None /\ \E t \in turns : Fits(t) /\ run' = [head |-> t.head, key |-> t.key, posted |-> 0]
  /\ UNCHANGED <<github, reviews, seen, hold, cue, breach, turns, acts, proc, clock, left>>
Post ==
  /\ run # None /\ run.posted = 0 /\ Cardinality(reviews) < Reviews
  /\ IF Fits(run) THEN reviews' = reviews \cup {Review(FALSE)} /\ run' = [run EXCEPT !.posted = Cardinality(reviews) + 1]
     ELSE run' = None /\ UNCHANGED reviews
  /\ UNCHANGED <<github, seen, hold, cue, breach, turns, acts, proc, clock, left>>
Confirm ==
  /\ run # None /\ run.posted # 0 /\ run' = None
  /\ reviews' = IF Fits(run) THEN {IF r.id = run.posted THEN [r EXCEPT !.receipt = TRUE] ELSE r : r \in reviews} ELSE reviews
  /\ UNCHANGED <<github, seen, hold, cue, breach, turns, acts, proc, clock, left>>

Die(a) ==
  /\ proc[a] # Idle /\ left.deaths > 0 /\ left' = [left EXCEPT !.deaths = @ - 1]
  /\ proc' = [proc EXCEPT ![a] = Idle]
  /\ UNCHANGED <<github, reviews, seen, hold, breach, work, acts, clock>>

Steps(a) == SetHold(a) \/ Quarantine(a) \/ Start(a) \/ Orders(a) \/ Fixes(a)
Next ==
  \/ Push \/ Rebase \/ Ready \/ PersonReviews \/ EscalateCount \/ EscalateMark \/ SweepLooks \/ RetryFresh \/ Approved
  \/ Pin \/ Post \/ Confirm
  \/ \E a \in Actor : EditedHook(a) \/ ReviewerGate(a) \/ FixerGate(a) \/ Steps(a) \/ Die(a)
Fairness == /\ WF_vars(SweepLooks) /\ WF_vars(RetryFresh) /\ \A a \in Actor : WF_vars(Steps(a))
Spec == Init /\ [][Next]_vars /\ Fairness

--------------------------------------------------------------------------------
\* No review made before the boundary, and none that the host did not attest, decides
\* anything for a held head (effective_reviews).
Attested == Holds(pr.head) => \A r \in Effective(pr.head) : r.receipt /\ r.era >= hold.era

\* Whoever records the hold and however often, one reviewer turn bears its name (turn_key).
OneTurn ==
  hold # None => Cardinality({t \in turns : t.key > 0 /\ t.head = hold.head /\ t.era >= hold.era}) <= 1

\* The fixer gate orders no fix, for a pull request that the watch saw stacked, from a
\* review of the live head that no host run wrote: the gate records the hold before it reads
\* the reviews.
ReceiptOf(id) == \E r \in reviews : r.id = id /\ r.receipt
FixAttested == \A a \in acts : a.kind = "fix" /\ a.observed /\ a.live => ReceiptOf(a.review)

\* The same of the merge cue.
MergeAttested == \A a \in acts : a.kind = "merge" /\ a.observed => ReceiptOf(a.review)

\* Once the hold is recorded, no marker that was written before it is left at its head.
Recorded == hold # None /\ \A a \in Actor : proc[a].at # "clear"
Cleared == Recorded /\ Escalated(hold.head) => breach.held

\* watchdog.py:703: "a marker at a held head can only come from receipted post-boundary verdicts".
MarkerAttested == Recorded /\ Escalated(hold.head) => Effective(hold.head) # {}

\* A held pull request that stays as it is gets its fresh turn, whatever failed on the way.
Stays == Holds(pr.head) /\ pr.base = "root" /\ ~pr.draft /\ ~BaselineMissing(hold)
Unreviewed == Stays /\ (hold = None \/ hold.fresh # "enqueued")
Reviewed == []<>~Unreviewed
================================================================================
