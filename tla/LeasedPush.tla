----------------------------- MODULE LeasedPush -----------------------------
(***************************************************************************)
(* The credentialed push (safe_push.py: push, open_branch, update_branch)  *)
(* of a fixer's turn, of an issue fix and of the watchdog's clean merge,   *)
(* against an author who pushes, a pull request that closes, a policy that *)
(* is turned off, reads that lag and a Git client that gives up before the *)
(* server has answered.                                                    *)
(*                                                                         *)
(* A commit is a number, `has' what is reachable from it; 0 is an absent   *)
(* branch.  The journal is broker-audit.jsonl.                             *)
(***************************************************************************)
EXTENDS Integers, FiniteSets, Functions

CONSTANTS Pushers, Kind, Commits, Deaths, Failures, NoOne

ASSUME Bounds == /\ Commits \subseteq Nat \ {0} /\ IsFiniteSet(Commits) /\ 1 \in Commits
                 /\ Kind \in [Pushers -> {"turn", "issue", "update"}]
                 /\ NoOne \notin Pushers /\ {Deaths, Failures} \subseteq Nat

VARIABLES ref, seen, prHead, open, has, policy, lock, pc, head, new, sure,
          flying, result, journal, answer, landed, failures, deaths
vars == <<ref, seen, prHead, open, has, policy, lock, pc, head, new, sure,
          flying, result, journal, answer, landed, failures, deaths>>
github == <<ref, seen, prHead, open, has, landed>>
local  == <<head, new, sure>>
wire   == <<flying, result>>
host   == <<policy, lock, failures, deaths>>

Absent == 0
Branches == {"pr", "issue"}
BranchOf(p) == IF Kind[p] = "issue" THEN "issue" ELSE "pr"
Fresh == LET unused == Commits \ UNION Range(has)
         IN {c \in unused : \A d \in unused : c <= d}
\* A turn and an issue fix work under the push policy's lock.
Locked(p) == Kind[p] # "update"

TypeOK ==
  /\ ref \in [Branches -> Commits \cup {Absent}] /\ seen \in [Branches -> Commits \cup {Absent}]
  /\ prHead \in Commits /\ {open, policy} \subseteq BOOLEAN /\ lock \in Pushers \cup {NoOne}
  /\ has \in [Commits -> SUBSET Commits]
  /\ pc \in [Pushers -> {"idle", "building", "attempt", "sent", "confirm", "journal", "done", "dead"}]
  /\ head \in [Pushers -> Commits \cup {Absent}] /\ new \in [Pushers -> Commits \cup {Absent}]
  /\ sure \in [Pushers -> {"none", "ok", "error", "published", "published_pr_unverified",
                           "unchanged", "unknown"}]
  /\ flying \subseteq Pushers /\ result \in [Pushers -> {"none", "ok", "rejected"}]
  /\ journal \subseteq Pushers \X Commits
  /\ answer \in [Pushers -> {"none", "ok", "denied", "failure"}] /\ landed \subseteq Pushers

Init ==
  /\ ref = [b \in Branches |-> IF b = "pr" THEN 1 ELSE Absent] /\ seen = ref
  /\ prHead = 1 /\ open = TRUE /\ policy = TRUE /\ lock = NoOne
  /\ has = [c \in Commits |-> IF c = 1 THEN {1} ELSE {}]
  /\ pc = [p \in Pushers |-> "idle"] /\ head = [p \in Pushers |-> Absent]
  /\ new = head /\ sure = [p \in Pushers |-> "none"]
  /\ flying = {} /\ result = [p \in Pushers |-> "none"] /\ journal = {}
  /\ answer = [p \in Pushers |-> "none"] /\ landed = {} /\ failures = 0 /\ deaths = 0

At(p, from, to) == pc[p] = from /\ pc' = [pc EXCEPT ![p] = to]
Release(p) == lock' = IF lock = p THEN NoOne ELSE lock
Denied(p) == answer' = [answer EXCEPT ![p] = "denied"]

-----------------------------------------------------------------------------
\* The policy, the live pull request and the branch as the API shows them.
Authorized(p, h) ==
  IF Kind[p] = "issue" THEN TRUE
  ELSE open /\ prHead = h /\ (Kind[p] = "update" \/ seen["pr"] = h)

\* The scope's head is the one that the caller knew; a new branch is not there.
Start(p) ==
  /\ pc[p] = "idle" /\ policy /\ (Locked(p) => lock = NoOne)
  /\ \E h \in (IF Kind[p] = "issue" THEN {1} ELSE has[ref["pr"]]) :
       /\ head' = [head EXCEPT ![p] = h]
       /\ IF Authorized(p, h) /\ (Kind[p] = "issue" => seen["issue"] = Absent)
          THEN /\ pc' = [pc EXCEPT ![p] = "building"] /\ UNCHANGED answer
               /\ lock' = IF Locked(p) THEN p ELSE lock
          ELSE pc' = [pc EXCEPT ![p] = "done"] /\ Denied(p) /\ UNCHANGED lock
  /\ UNCHANGED <<github, new, sure, wire, journal, policy, failures, deaths>>

\* The private repository: the branch fetched must be at the scoped head.
Build(p) ==
  /\ IF Kind[p] # "issue" /\ ref["pr"] # head[p]
     THEN At(p, "building", "done") /\ Denied(p) /\ Release(p) /\ UNCHANGED <<new, has>>
     ELSE \E c \in Fresh :
       /\ At(p, "building", "attempt") /\ new' = [new EXCEPT ![p] = c]
       /\ has' = [has EXCEPT ![c] = has[head[p]] \cup {c}]
       /\ UNCHANGED <<answer, lock>>
  /\ UNCHANGED <<ref, seen, prHead, open, head, sure, wire, journal, policy, failures,
                 deaths, landed>>

\* The last checks, the durable record, then the push.
AttemptLoose(p) ==
  /\ Authorized(p, head[p])
  /\ At(p, "attempt", "sent") /\ flying' = flying \cup {p}
  /\ UNCHANGED <<github, local, result, journal, answer, host>>
Attempt(p) ==
  /\ Authorized(p, head[p])
  /\ At(p, "attempt", "sent") /\ flying' = flying \cup {p}
  /\ journal' = journal \cup {<<p, new[p]>>}
  /\ UNCHANGED <<github, local, result, answer, host>>
AttemptDenied(p) ==
  /\ ~Authorized(p, head[p]) /\ At(p, "attempt", "done") /\ Denied(p) /\ Release(p)
  /\ UNCHANGED <<github, local, wire, journal, policy, failures, deaths>>
AttemptUnwritten(p) ==
  /\ Authorized(p, head[p]) /\ failures < Failures /\ failures' = failures + 1
  /\ At(p, "attempt", "done") /\ Release(p)
  /\ \E a \in (CASE Kind[p] = "turn" -> {"failure"} [] Kind[p] = "update" -> {"denied"}
               [] OTHER -> {"failure", "denied"}) : answer' = [answer EXCEPT ![p] = a]
  /\ UNCHANGED <<github, local, wire, journal, policy, deaths>>

-----------------------------------------------------------------------------
\* GitHub takes the push when the branch is still at the leased commit.
Lease(p) == IF Kind[p] = "issue" THEN Absent ELSE head[p]
Takes(p) == /\ ref' = [ref EXCEPT ![BranchOf(p)] = new[p]]
            /\ landed' = landed \cup {p} /\ result' = [result EXCEPT ![p] = "ok"]
ReceiveForced(p) ==
  /\ p \in flying /\ flying' = flying \ {p} /\ Takes(p)
  /\ UNCHANGED <<seen, prHead, open, has, local, pc, journal, answer, host>>
Receive(p) ==
  /\ p \in flying /\ flying' = flying \ {p}
  /\ IF ref[BranchOf(p)] = Lease(p) THEN Takes(p)
     ELSE result' = [result EXCEPT ![p] = "rejected"] /\ UNCHANGED <<ref, landed>>
  /\ UNCHANGED <<seen, prHead, open, has, local, pc, journal, answer, host>>

\* The client hears the answer, or is killed at its timeout before it does.
Hear(p) ==
  /\ result[p] # "none" /\ At(p, "sent", "confirm")
  /\ sure' = [sure EXCEPT ![p] = IF result[p] = "ok" THEN "ok" ELSE "error"]
  /\ UNCHANGED <<github, head, new, wire, journal, answer, host>>
Lose(p) ==
  /\ At(p, "sent", "confirm") /\ sure' = [sure EXCEPT ![p] = "error"]
  /\ UNCHANGED <<github, head, new, wire, journal, answer, host>>

\* The branch is read back until it moves or the waits are over; of a turn's
\* push the pull request must follow.
Outcomes(p) ==
  LET at == seen[BranchOf(p)]
  IN IF at = new[p]
     THEN IF Kind[p] = "turn" /\ ~(open /\ prHead = new[p])
          THEN {"published_pr_unverified"} ELSE {"published"}
     ELSE IF at = head[p] /\ Kind[p] # "issue" THEN {"unchanged"} ELSE {"unknown"}
Confirm(p) ==
  /\ At(p, "confirm", "journal")
  /\ \E o \in Outcomes(p) :
       sure' = [sure EXCEPT ![p] = IF o = "published" /\ sure[p] = "error" THEN "unknown" ELSE o]
  /\ UNCHANGED <<github, head, new, wire, journal, answer, host>>

\* What the caller is told.  A push that began and is not confirmed is a
\* PushFailure; a journal that cannot be written is one in push() only.
Told(p) == IF sure[p] = "published" THEN "ok" ELSE "failure"
SettleByRef(p) ==
  /\ At(p, "journal", "done") /\ Release(p)
  /\ answer' = [answer EXCEPT ![p] = IF sure[p] = "unchanged" THEN "denied" ELSE Told(p)]
  /\ UNCHANGED <<github, local, wire, journal, policy, failures, deaths>>
Settle(p) ==
  /\ At(p, "journal", "done") /\ Release(p)
  /\ answer' = [answer EXCEPT ![p] = Told(p)]
  /\ UNCHANGED <<github, local, wire, journal, policy, failures, deaths>>
SettleUnwritten(p) ==
  /\ failures < Failures /\ failures' = failures + 1
  /\ At(p, "journal", "done") /\ Release(p)
  /\ answer' = [answer EXCEPT ![p] = IF Kind[p] = "turn" THEN "failure" ELSE "denied"]
  /\ UNCHANGED <<github, local, wire, journal, policy, deaths>>

Die(p) == /\ deaths < Deaths /\ deaths' = deaths + 1 /\ pc[p] \notin {"idle", "done", "dead"}
          /\ pc' = [pc EXCEPT ![p] = "dead"] /\ Release(p)
          /\ UNCHANGED <<github, local, wire, journal, answer, policy, failures>>

-----------------------------------------------------------------------------
\* The world.
Reaches(b) == IF ref[b] = Absent THEN {} ELSE has[ref[b]]
AuthorPushes ==
  /\ \E b \in {BranchOf(p) : p \in Pushers}, c \in Fresh :
       ref' = [ref EXCEPT ![b] = c] /\ has' = [has EXCEPT ![c] = Reaches(b) \cup {c}]
  /\ UNCHANGED <<seen, prHead, open, landed, pc, local, wire, journal, answer, host>>
AuthorRewinds ==
  /\ \E c \in has[ref["pr"]] \ {ref["pr"]} : ref' = [ref EXCEPT !["pr"] = c]
  /\ UNCHANGED <<seen, prHead, open, has, landed, pc, local, wire, journal, answer, host>>
Closed == /\ open /\ open' = FALSE
          /\ UNCHANGED <<ref, seen, prHead, has, landed, pc, local, wire, journal, answer, host>>
CatchesUp ==
  /\ \/ \E b \in Branches : seen[b] # ref[b] /\ seen' = [seen EXCEPT ![b] = ref[b]]
                            /\ UNCHANGED prHead
     \/ prHead # ref["pr"] /\ prHead' = ref["pr"] /\ UNCHANGED seen
  /\ UNCHANGED <<ref, open, has, landed, pc, local, wire, journal, answer, host>>
Disable == /\ policy /\ lock = NoOne /\ policy' = FALSE
           /\ UNCHANGED <<github, pc, local, wire, journal, answer, lock, failures, deaths>>

Pushing(p) == \/ Start(p) \/ Build(p) \/ Attempt(p) \/ AttemptDenied(p) \/ AttemptUnwritten(p)
              \/ Receive(p) \/ Hear(p) \/ Lose(p) \/ Confirm(p) \/ Settle(p) \/ SettleUnwritten(p)
Next == \/ \E p \in Pushers : Pushing(p) \/ Die(p)
        \/ AuthorPushes \/ AuthorRewinds \/ Closed \/ CatchesUp \/ Disable
Spec == Init /\ [][Next]_vars

-----------------------------------------------------------------------------
\* No push of the loop takes a commit off the branch that it writes: whatever
\* the author pushed in between, the lease fails.
NothingLost == [][\A p \in Pushers : p \in landed' \ landed =>
  Reaches(BranchOf(p)) \subseteq Reaches(BranchOf(p))']_vars

\* What the loop wrote to a branch is in the journal, whoever died since.
Journaled == \A p \in landed : <<p, new[p]>> \in journal

\* A turn that was told that its write was denied has written nothing, and
\* nothing of it is on its way: the ledger may let the head be tried again.
DeniedNeverLands == \A p \in Pushers :
  Kind[p] = "turn" /\ answer[p] = "denied" => p \notin landed \cup flying

\* What safe push promises: the journal names what it wrote, what it reports as denied
\* was not written, and no commit of the branch is lost.
PushSafe == [](Journaled /\ DeniedNeverLands) /\ NothingLost

\* safe_push.py:45: a push that began needs a hold, even when its journal fails.
HeldOnceBegun == \A p \in Pushers : answer[p] = "denied" => p \notin landed \cup flying

\* docs/security.md:84: disabling does not return while an authorized push is in progress.
DisabledIsDone == ~policy => flying = {}
=============================================================================
