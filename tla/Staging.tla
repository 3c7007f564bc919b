-------------------------------- MODULE Staging --------------------------------
(***************************************************************************)
(* A turn's checkout is exported by the host: the tree of one commit is    *)
(* read, its tarball fetched over one redirect, every file checked against *)
(* the tree, and the directory renamed into place -- only while the commit *)
(* is still the head of the open pull request (or on the base branch, for  *)
(* the fix of an issue).                                                   *)
(***************************************************************************)
EXTENDS Integers, FiniteSets

CONSTANTS
  Proc,      \* exports to one sandbox root
  Role,      \* their roles
  Tree,      \* trees that a commit may have: sets of entries
  Loose,     \* entries that an archive may have besides those of the tree
  Target,    \* hosts that the API may redirect to
  Moves,     \* pushes, closings and rewrites of the base branch
  Faults,    \* responses that fail, credentials of others, and deaths
  MaxFiles   \* _MAX_FILES

EntryKind == {"file", "exec", "link", "module", "dir", "odd"}   \* "odd": an unsafe path or mode
Name == {"x", "y", ".gitmodules"}
Entry == [name : Name, kind : EntryKind, data : {"own", "forged"}]

StagingAssumption ==
  /\ Role \subseteq {"seat", "issue_fixer"} /\ Loose \subseteq Entry /\ {Moves, Faults, MaxFiles} \subseteq Nat
  /\ "nobody" \notin Proc   \* who put a root there that is not there
  /\ \A t \in Tree : /\ t \subseteq {e \in Entry : e.data = "own"}
                     /\ \A e, f \in t : e.name = f.name => e = f

VARIABLES
  pr,       \* the pull request: open, which commit is its head, is the commit on the base branch
  tree,     \* the tree of the commit
  run,      \* per export: where it is and what it holds
  root,     \* what is at the sandbox root, and who put it there
  temp,     \* exports with a private directory on the disk
  asked,    \* hosts that were sent a request, and whether with the credential
  since,    \* per export: the states of the pull request since its files were complete
  left      \* budgets

vars == <<pr, tree, run, root, temp, asked, since, left>>
None == [by |-> "nobody"]

Init ==
  /\ pr = [open |-> TRUE, head |-> "asked", based |-> TRUE] /\ tree \in Tree /\ root = None /\ temp = {} /\ asked = {}
  /\ run \in [Proc -> [at : {"identity"}, role : Role, entries : {{}}, skipped : {{}}, todo : {{}}, files : {{}}, why : {""}]]
  /\ since = [p \in Proc |-> {}] /\ left = [moves |-> Moves, faults |-> Faults]

At(p, at) == run' = [run EXCEPT ![p].at = at]
Deny(p, why) == run' = [run EXCEPT ![p].at = "denied", ![p].why = why]
Ask(host, credential) == asked' = asked \cup {[host |-> host, credential |-> credential]}

\* The commit may be worked on: it is the open pull request's head, or on the base branch.
Based(now) == now.based
Live(p, now) == IF run[p].role = "issue_fixer" THEN Based(now) ELSE now.open /\ now.head = "asked"
LiveRead(p, from, to) ==
  /\ run[p].at = from /\ Ask("api", TRUE)
  /\ IF Live(p, pr) THEN At(p, to) ELSE Deny(p, "moved")
  /\ UNCHANGED <<pr, tree, root, temp, since, left>>

\* Three logins, three files, and each credential is its login's; the root is free.
Identity(p) ==
  /\ run[p].at = "identity" /\ Ask("api", TRUE)
  /\ IF root # None THEN Deny(p, "exists") /\ UNCHANGED left
     ELSE \/ At(p, "live") /\ UNCHANGED left
          \/ left.faults > 0 /\ left' = [left EXCEPT !.faults = @ - 1] /\ Deny(p, "principal")
  /\ UNCHANGED <<pr, tree, root, temp, since>>
First(p) == LiveRead(p, "live", "tree")

\* _entries: what is exported of a tree, what is left out, and what refuses the whole.
Exported(t) == {e \in t : e.kind \in {"file", "exec"} /\ e.name # ".gitmodules"}
Skipped(t) == {e.name : e \in {f \in t : f.kind \in {"link", "module"} \/ f.name = ".gitmodules"}}
Unsafe(t) ==
  \/ \E e \in t : e.kind = "odd" /\ e.name \notin Skipped(t)
  \/ \E e \in t : e.name = ".gitmodules" /\ e.kind = "dir"
  \/ Cardinality(t) > MaxFiles
ReadTree(p) ==
  /\ run[p].at = "tree" /\ Ask("api", TRUE)
  /\ IF Unsafe(tree) THEN Deny(p, "unsafe")
     ELSE run' = [run EXCEPT ![p].at = "second", ![p].entries = Exported(tree), ![p].skipped = Skipped(tree)]
  /\ UNCHANGED <<pr, tree, root, temp, since, left>>
Second(p) == LiveRead(p, "second", "fetch")

\* The tarball: the API answers or redirects once, to codeload alone and without the credential.
\* What arrives may lack members of the tree, and have others, also under the same names.
HopTrusting(host) == Ask(host, TRUE)
Hop(host) == Ask(host, FALSE)
Archives == {(tree \ gone) \cup more : gone \in {{}} \cup {{e} : e \in tree}, more \in {{}} \cup {{e} : e \in Loose}}
Arrives(p) == \E a \in Archives : run' = [run EXCEPT ![p].at = "extract", ![p].todo = a]
Fetch(p) ==
  /\ run[p].at = "fetch" /\ Ask("api", TRUE) /\ temp' = temp \cup {p}
  /\ \/ Arrives(p)
     \/ \E host \in Target : run' = [run EXCEPT ![p].at = IF host = "codeload" THEN "hop" ELSE "denied",
                                                ![p].why = IF host = "codeload" THEN "" ELSE "redirect"]
  /\ UNCHANGED <<pr, tree, root, since, left>>
FetchHop(p) ==
  /\ run[p].at = "hop" /\ Hop("codeload") /\ Arrives(p)
  /\ UNCHANGED <<pr, tree, root, temp, since, left>>

\* Each member in turn: a directory or a skipped name is passed over, a file that the tree has
\* and that was not seen yet is written and compared, anything else refuses the export.
Matches(p, m) == \E e \in run[p].entries : e.name = m.name /\ m.data = "own"
Unwanted(p, m) ==
  \/ m.kind \in {"link", "odd"} \/ \A e \in run[p].entries : e.name # m.name
  \/ \E f \in run[p].files : f.name = m.name
Written(p, m) == [name |-> m.name, data |-> m.data, kind |-> (CHOOSE e \in run[p].entries : e.name = m.name).kind]
Extract(p) ==
  /\ run[p].at = "extract" /\ run[p].todo # {}
  /\ \E m \in run[p].todo :
       LET rest == [run EXCEPT ![p].todo = @ \ {m}] IN
       IF m.kind \in {"dir", "module"} \/ m.name \in run[p].skipped THEN run' = rest
       ELSE IF Unwanted(p, m) THEN Deny(p, "unsafe")
       ELSE IF Matches(p, m) THEN run' = [rest EXCEPT ![p].files = @ \cup {Written(p, m)}] ELSE Deny(p, "mismatch")
  /\ UNCHANGED <<pr, tree, root, temp, asked, since, left>>
CompleteAny(p) == TRUE
Complete(p) == {f.name : f \in run[p].files} = {e.name : e \in run[p].entries}
Extracted(p) ==
  /\ run[p].at = "extract" /\ run[p].todo = {}
  /\ IF Complete(p) THEN At(p, "third") /\ since' = [since EXCEPT ![p] = {pr}] ELSE Deny(p, "missing") /\ UNCHANGED since
  /\ UNCHANGED <<pr, tree, root, temp, asked, left>>
ThirdNot(p) ==
  /\ run[p].at = "third" /\ At(p, "publish") /\ UNCHANGED <<pr, tree, root, temp, asked, since, left>>
Third(p) == LiveRead(p, "third", "publish")

\* A rename that replaces nothing; whatever else ends the export, its directory is removed.
FreeAlways(p) == TRUE
Free(p) == root = None
Publish(p) ==
  /\ run[p].at = "publish"
  /\ IF Free(p) THEN root' = [by |-> p, files |-> run[p].files] /\ At(p, "done") /\ temp' = temp \ {p}
     ELSE Deny(p, "exists") /\ UNCHANGED <<root, temp>>
  /\ UNCHANGED <<pr, tree, asked, since, left>>
ClearedSome(p) ==
  /\ run[p].at = "denied" /\ run[p].why # "moved" /\ p \in temp /\ temp' = temp \ {p}
  /\ UNCHANGED <<pr, tree, run, root, asked, since, left>>
Cleared(p) ==
  /\ run[p].at = "denied" /\ p \in temp /\ temp' = temp \ {p} /\ UNCHANGED <<pr, tree, run, root, asked, since, left>>

\* A response fails or is too large; the worker dies; the pull request or the base branch changes.
Fails(p) ==
  /\ run[p].at \in {"live", "tree", "second", "fetch", "hop", "third"} /\ left.faults > 0
  /\ left' = [left EXCEPT !.faults = @ - 1] /\ Deny(p, "unavailable")
  /\ UNCHANGED <<pr, tree, root, temp, asked, since>>
Dies(p) ==
  /\ run[p].at \notin {"done", "denied", "dead"} /\ left.faults > 0
  /\ left' = [left EXCEPT !.faults = @ - 1] /\ At(p, "dead")
  /\ UNCHANGED <<pr, tree, root, temp, asked, since>>
Moved == {[pr EXCEPT !.open = ~@], [pr EXCEPT !.head = "another"], [pr EXCEPT !.based = FALSE]} \ {pr}
Move ==
  /\ left.moves > 0 /\ left' = [left EXCEPT !.moves = @ - 1] /\ pr' \in Moved
  /\ since' = [p \in Proc |-> IF since[p] = {} THEN {} ELSE since[p] \cup {pr'}]
  /\ UNCHANGED <<tree, run, root, temp, asked>>

Step(p) ==
  \/ Identity(p) \/ First(p) \/ ReadTree(p) \/ Second(p) \/ Fetch(p) \/ FetchHop(p) \/ Extract(p) \/ Extracted(p)
  \/ Third(p) \/ Publish(p) \/ Cleared(p)
Next == Move \/ \E p \in Proc : Step(p) \/ Fails(p) \/ Dies(p)
Spec == Init /\ [][Next]_vars /\ \A p \in Proc : WF_vars(Step(p))

--------------------------------------------------------------------------------
TypeOK ==
  /\ pr \in [open : BOOLEAN, head : {"asked", "another"}, based : BOOLEAN] /\ tree \in Tree /\ temp \subseteq Proc
  /\ root = None \/ (root.by \in Proc /\ root.files \subseteq Entry)
  /\ \A p \in Proc : run[p].files \subseteq Entry /\ run[p].todo \subseteq Entry /\ run[p].role \in Role

\* What a turn gets is the commit's regular files, each with its content and its executable bit,
\* all of them and nothing else, whatever the archive held (_extract, architecture.md:71).
Whole == root # None => root.files = Exported(tree)

\* An export is published only if the commit was live after its last file had been written: the
\* pull request had not moved for good while the tarball was read (the third read of _stage).
WasLive == \A p \in Proc : root.by = p => \E now \in since[p] : Live(p, now)

\* Of two exports to one root, or after a retry, none replaces what is there.
Exclusive == [][root # None => root' = root]_vars

\* The reader's credential travels to the API alone (_fetch_tarball, _fetch_tarball_hop).
Kept == \A a \in asked : a.credential => a.host = "api"

\* An export ends, and leaves no private directory behind unless its worker died.
Ended(p) == run[p].at \in {"done", "denied", "dead"} /\ (p \in temp => run[p].at = "dead")
Ends == \A p \in Proc : <>[]Ended(p)
================================================================================
