-------------------------------- MODULE Cleanup --------------------------------
(***************************************************************************)
(* What a finished pull request leaves on the disk and in the loop's state *)
(* is given back: its checkouts, build directories and artifacts, its seat *)
(* claim, queue entry and marks.  Others work in the same directories and  *)
(* files meanwhile.                                                        *)
(***************************************************************************)
EXTENDS Integers, FiniteSets

CONSTANTS
  Path,       \* directories that a cleanup may look at
  Kind,       \* what may be in them
  Artifacts,  \* the loop's own artifacts directory of the pull request
  Sweeping,   \* --sweep, over all the pull requests found; otherwise --pr
  Force,      \* --force: whatever GitHub says
  Swaps,      \* directories replaced by others
  Checkouts   \* branches checked out by a person

PR == {"mine", "other"}

\* A directory: which pull request and whether the repository are in its name, what Git is in it
\* (a detached or branch worktree of the clone, another repository, a repository or a branch
\* worktree below it), whether it is a link, evidence, and inside a configured root.
Content ==
  [pr : PR, named : BOOLEAN, link : BOOLEAN, evidence : BOOLEAN, inside : BOOLEAN,
   git : {"none", "detached", "branch", "foreign", "below", "branch_below"}]

CleanupAssumption ==
  /\ Artifacts \in Path /\ Kind \subseteq Content /\ {Sweeping, Force} \subseteq BOOLEAN
  \* A directory that is taken away and put back while another is judged is the one pinned.
  /\ Swaps \in 0..1 /\ Checkouts \in Nat

VARIABLES
  pr,         \* the pull request, as GitHub has it
  disk,       \* what is at each path, or None
  state,      \* the pull requests with an entry in the loop's state files
  lock,       \* who holds the state lock, "" if nobody
  run,        \* where the cleanup is, with what it has read
  removed,    \* what it has removed
  left        \* budgets of the others, and whether they did anything

vars == <<pr, disk, state, lock, run, removed, left>>
None == [none |-> TRUE]
Of(p) == {c \in Kind : p = Artifacts => c.pr = "mine" /\ c.inside /\ c.git \notin {"detached", "branch"}}

Init ==
  /\ pr \in {"open", "closed"} /\ state \in SUBSET PR /\ lock = "" /\ removed = {}
  /\ disk \in {d \in [Path -> Kind \cup {None}] : \A p \in Path : d[p] = None \/ d[p] \in Of(p)}
  /\ run = [at |-> "look", loaded |-> {}, registered |-> {}, protected |-> {}, todo |-> {}, path |-> None, pinned |-> None, ok |-> FALSE]
  /\ left = [swaps |-> Swaps, checkouts |-> Checkouts, alone |-> TRUE]

At(at) == run' = [run EXCEPT !.at = at]
There(p) == disk[p] # None
Worktrees == {p \in Path : There(p) /\ disk[p].git \in {"detached", "branch"}}
Named(p) == There(p) /\ disk[p].git = "none" /\ disk[p].named /\ disk[p].inside

\* A sweep finds pull requests in the names of worktrees and of the roots' children.
Found == ~Sweeping \/ \E p \in Path \ {Artifacts} : There(p) /\ disk[p].pr = "mine" /\
                         (p \in Worktrees \/ (disk[p].named /\ disk[p].inside))

\* A fresh look at the pull request; an unreadable one is not closed.
Look ==
  /\ run.at = "look"
  /\ \/ Found /\ (pr = "closed" \/ Force) /\ At("clear")
     \/ ~Found /\ At("done")
     \/ Found /\ ~Force /\ At("refused")
  /\ UNCHANGED <<pr, disk, state, lock, removed, left>>

\* clear_state loads the files and saves them without the pull request's entries, under the lock.
LoadUnlocked ==
  /\ run.at = "clear" /\ run' = [run EXCEPT !.at = "save", !.loaded = state]
  /\ UNCHANGED <<pr, disk, state, lock, removed, left>>
Load ==
  /\ run.at = "clear" /\ lock = "" /\ lock' = "cleanup" /\ run' = [run EXCEPT !.at = "save", !.loaded = state]
  /\ UNCHANGED <<pr, disk, state, removed, left>>
Save ==
  /\ run.at = "save" /\ state' = run.loaded \ {"mine"} /\ lock' = "" /\ At("list")
  /\ UNCHANGED <<pr, disk, removed, left>>

\* The candidates: worktrees of that name without a branch, children of the roots, the artifacts.
Children == {p \in Path \ {Artifacts} : There(p) /\ disk[p].inside /\ (disk[p].named \/ disk[p].git = "detached")}
CandidatesNamed == {p \in Children : disk[p].pr = "mine" /\ disk[p].named /\ disk[p].git # "branch"} \cup {p \in {Artifacts} : There(p)}
Candidates ==
  {p \in Worktrees \cup Children : disk[p].pr = "mine" /\ disk[p].git # "branch"}
    \cup {p \in {Artifacts} : There(p)}
List ==
  /\ run.at = "list"
  /\ run' = [run EXCEPT !.at = "next", !.todo = Candidates,
                        !.registered = {p \in Worktrees : disk[p].git = "detached"},
                        !.protected = {p \in Path : There(p) /\ disk[p].git \in {"branch", "branch_below"}}]
  /\ UNCHANGED <<pr, disk, state, lock, removed, left>>

\* Each candidate is pinned, then judged, then removed if it is still the one that was pinned.
Pin ==
  /\ run.at = "next"
  /\ IF run.todo = {} THEN At("done")
     ELSE \E p \in run.todo :
            run' = IF There(p) /\ ~disk[p].link
                   THEN [run EXCEPT !.at = "judge", !.todo = @ \ {p}, !.path = p, !.pinned = disk[p]]
                   ELSE [run EXCEPT !.todo = @ \ {p}]
  /\ UNCHANGED <<pr, disk, state, lock, removed, left>>
OwnGit(p) ==
  \/ disk[p].git = "none"
  \/ disk[p].git \in {"detached", "branch"} /\ p \in run.registered
  \/ disk[p].git \in {"below", "branch_below"} /\ p = Artifacts
OwnedAnyGit(p) == There(p) /\ ~disk[p].link /\ disk[p].inside
Owned(p) == OwnedAnyGit(p) /\ OwnGit(p)
OverlapsNone(p) == FALSE
Overlaps(p) == p \in run.protected
Judge ==
  /\ run.at = "judge" /\ At(IF Owned(run.path) /\ ~Overlaps(run.path) THEN "remove" ELSE "next")
  /\ UNCHANGED <<pr, disk, state, lock, removed, left>>
SameAny(p) == There(p)
Same(p) == disk[p] = run.pinned
Remove ==
  /\ run.at = "remove" /\ At("next")
  /\ LET p == run.path IN
     IF Same(p) /\ ~disk[p].evidence
     THEN disk' = [disk EXCEPT ![p] = None] /\ removed' = removed \cup {[path |-> p, was |-> disk[p]]}
     ELSE UNCHANGED <<disk, removed>>
  /\ UNCHANGED <<pr, state, lock, left>>

\* Meanwhile: another directory comes to a path, a person checks out a branch, gates write state.
Swap ==
  /\ left.swaps > 0 /\ left' = [left EXCEPT !.alone = FALSE, !.swaps = @ - 1]
  /\ \E p \in Path : \E c \in Of(p) \ {disk[p]} : disk' = [disk EXCEPT ![p] = c]
  /\ UNCHANGED <<pr, state, lock, run, removed>>
Checkout ==
  /\ left.checkouts > 0 /\ left' = [left EXCEPT !.alone = FALSE, !.checkouts = @ - 1]
  /\ \E p \in {q \in Worktrees : disk[q].git = "detached"} : disk' = [disk EXCEPT ![p].git = "branch"]
          /\ run' = IF run.path = p /\ run.pinned = disk[p] THEN [run EXCEPT !.pinned.git = "branch"] ELSE run
  /\ UNCHANGED <<pr, state, lock, removed>>
Claim ==
  /\ lock = "" /\ state' = state \cup {"other"}
  /\ UNCHANGED <<pr, disk, lock, run, removed, left>>
Release ==
  /\ lock = "" /\ "other" \in state /\ state' = state \ {"other"}
  /\ UNCHANGED <<pr, disk, lock, run, removed, left>>

Next ==
  Look \/ Load \/ Save \/ List \/ Pin \/ Judge \/ Remove \/ Swap \/ Checkout \/ Claim \/ Release
Spec == Init /\ [][Next]_vars

--------------------------------------------------------------------------------
\* What is removed is the loop's own: of this pull request or the artifacts, no link, inside
\* the roots, no other repository and none with one below it, and no evidence -- although
\* directories may be replaced between any two steps (candidate_identity, owned_candidate).
OnlyOwn ==
  \A r \in removed :
    /\ ~r.was.link /\ r.was.inside /\ ~r.was.evidence /\ r.was.git # "foreign"
    /\ r.was.git = "below" => r.path = Artifacts

\* A worktree with a branch checked out is never touched, nor a directory around one.
BranchKept == \A r \in removed : r.was.git \notin {"branch", "branch_below"}

\* The rewrite of the state files loses no other pull request's entry and brings none back.
OthersKept == [][run.at = "save" /\ run'.at = "list" => ("other" \in state' <=> "other" \in state)]_vars

\* Undisturbed, the cleanup of a closed pull request leaves nothing of it that is the loop's.
Leftover(p) ==
  /\ There(p) /\ disk[p].pr = "mine" /\ ~disk[p].link /\ ~disk[p].evidence
  /\ \/ p = Artifacts /\ disk[p].git \in {"none", "below"}
     \/ p # Artifacts /\ disk[p].inside /\ (disk[p].git = "detached" \/ (disk[p].git = "none" /\ disk[p].named))
Reclaimed ==
  run.at = "done" /\ pr = "closed" /\ left.alone => "mine" \notin state /\ \A p \in Path : ~Leftover(p)
================================================================================
