-------------------------------- MODULE RepoMove --------------------------------
(***************************************************************************)
(* `migrate` moves an install whose repository GitHub renamed: the host    *)
(* files and the loop's state directory get their new names, then the run  *)
(* ledger, the state files and last the loop file get the repository's.    *)
(* A marker pauses the gates, the worker and the watch meanwhile. The      *)
(* migrate may die or be interrupted between any two steps, and is run     *)
(* again.                                                                  *)
(***************************************************************************)
EXTENDS Integers, FiniteSets

CONSTANTS
  Turn,        \* turns: a pull request, head and seat
  Actor,       \* gates and watches that queue a turn
  Operator,    \* terminals that run migrate
  MayRaise,    \* whether a migrate may end by an exception or an interrupt
  Overlap      \* whether a gate may be past its look at the marker when a migrate starts

RepoMoveAssumption == MayRaise \in BOOLEAN /\ Overlap \in BOOLEAN

VARIABLES
  renamed,   \* GitHub has renamed the repository
  marker,    \* migrating.json exists
  lock,      \* the operators that hold its lock
  at,        \* [Operator -> the migrate's next step]
  dir,       \* which of the two state directories exist
  points,    \* the one that the loop file names
  rows,      \* the run ledger: [name, turn, state]
  marks,     \* the state files' records: [name, turn]
  loop,      \* the repository's name in the loop file
  acting,    \* [Actor -> the turn it is queueing and the name it read]
  tries      \* [Turn -> whether its event may still come]

vars == <<renamed, marker, lock, at, dir, points, rows, marks, loop, acting, tries>>
records == <<dir, points, rows, marks, loop>>

Name == {"old", "new"}
Step == {"out", "files", "point", "ledger", "state", "loopfile", "end"}
Idle == [on |-> FALSE, turn |-> "none", name |-> "old"]
Row == [name : Name, turn : Turn, state : {"pending", "active", "done"}]

TypeOK ==
  /\ renamed \in BOOLEAN /\ marker \in BOOLEAN /\ lock \subseteq Operator
  /\ at \in [Operator -> Step] /\ dir \subseteq Name /\ points \in Name /\ loop \in Name
  /\ rows \subseteq Row /\ marks \subseteq [name : Name, turn : Turn]
  /\ acting \in [Actor -> [on : BOOLEAN, turn : Turn \cup {"none"}, name : Name]] /\ tries \subseteq Turn

Init ==
  /\ renamed = FALSE /\ marker = FALSE /\ lock = {} /\ at = [o \in Operator |-> "out"]
  /\ dir = {"old"} /\ points = "old" /\ rows = {} /\ marks = {} /\ loop = "old"
  /\ acting = [a \in Actor |-> Idle] /\ tries = Turn

Rename ==
  /\ ~renamed /\ renamed' = TRUE
  /\ UNCHANGED <<marker, lock, at, records, acting, tries>>

-----------------------------------------------------------------------------
(* The paused: gates, the watch and the worker. *)

Paused == marker

\* A gate or a sweep reads the marker, then the loop file; a paused one is driven again later.
Act(a, t) ==
  /\ ~acting[a].on /\ t \in tries /\ ~Paused
  /\ acting' = [acting EXCEPT ![a] = [on |-> TRUE, turn |-> t, name |-> loop]]
  /\ UNCHANGED <<renamed, marker, lock, at, records, tries>>

\* It marks the turn in the state directory, creating it, and queues it: one row for each turn.
Write(a) ==
  LET n == acting[a].name  t == acting[a].turn IN
  /\ acting[a].on /\ acting' = [acting EXCEPT ![a] = Idle]
  /\ dir' = dir \cup {points} /\ marks' = marks \cup {[name |-> n, turn |-> t]}
  /\ rows' = IF \E r \in rows : r.name = n /\ r.turn = t THEN rows
             ELSE rows \cup {[name |-> n, turn |-> t, state |-> "pending"]}
  /\ UNCHANGED <<renamed, marker, lock, at, points, loop, tries>>

\* _claim: nothing starts while the install is paused; a row of another name has no loop.
ClaimPaused(r) ==
  /\ r \in rows /\ r.state = "pending" /\ r.name = loop
  /\ rows' = (rows \ {r}) \cup {[r EXCEPT !.state = "active"]}
  /\ UNCHANGED <<renamed, marker, lock, at, dir, points, marks, loop, acting, tries>>
Claim(r) ==
  /\ ~Paused /\ r \in rows /\ r.state = "pending" /\ r.name = loop
  /\ rows' = (rows \ {r}) \cup {[r EXCEPT !.state = "active"]}
  /\ UNCHANGED <<renamed, marker, lock, at, dir, points, marks, loop, acting, tries>>

\* A run ends whether or not the install is paused; then its event does not come again.
Finish(r) ==
  /\ r \in rows /\ r.state = "active"
  /\ rows' = (rows \ {r}) \cup {[r EXCEPT !.state = "done"]}
  /\ tries' = tries \ {r.turn}
  /\ UNCHANGED <<renamed, marker, lock, at, dir, points, marks, loop, acting>>

-----------------------------------------------------------------------------
(* migrate. *)

Then(o, s) == at' = [at EXCEPT ![o] = s]
Busy == \E r \in rows : r.state = "active"
BusyUnder(n) == \E r \in rows : r.state = "active" /\ r.name = n

\* hold: the lock first, then the marker, over what a dead one left.
Begin(o) ==
  /\ at[o] = "out" /\ lock = {} /\ (Overlap \/ \A a \in Actor : ~acting[a].on)
  /\ lock' = {o} /\ marker' = TRUE /\ Then(o, "files")
  /\ UNCHANGED <<renamed, records, acting, tries>>

\* files_step: refused while a run is in flight or both names exist.
Files(o) ==
  /\ at[o] = "files" /\ Then(o, IF Busy THEN "ledger" ELSE "point")
  /\ dir' = IF Busy \/ dir # {"old"} THEN dir ELSE {"new"}
  /\ UNCHANGED <<renamed, marker, lock, points, rows, marks, loop, acting, tries>>

\* The loop file follows its state, unless that has stayed.
Point(o) ==
  /\ at[o] = "point" /\ Then(o, "ledger")
  /\ points' = IF "old" \in dir THEN points ELSE "new"
  /\ UNCHANGED <<renamed, marker, lock, dir, rows, marks, loop, acting, tries>>

\* _move_ledger: one transaction, refused while a run of the old name is in flight.
To(r) == [r EXCEPT !.name = "new"]
Clash == \E r, q \in rows : r.name = "old" /\ q.name = "new" /\ r.turn = q.turn
LedgerOn(o) ==
  /\ at[o] = "ledger" /\ ~Clash /\ Then(o, IF renamed /\ loop = "old" THEN "state" ELSE "end")
  /\ rows' = IF renamed /\ loop = "old" /\ ~BusyUnder("old") THEN {To(r) : r \in rows} ELSE rows
  /\ UNCHANGED <<renamed, marker, lock, dir, points, marks, loop, acting, tries>>
LedgerFree(o) ==
  /\ at[o] = "ledger"
  /\ IF ~renamed \/ loop = "new" \/ BusyUnder("old")
     THEN Then(o, "end") /\ UNCHANGED rows
     ELSE ~Clash /\ rows' = {To(r) : r \in rows} /\ Then(o, "state")
  /\ marker' = FALSE /\ UNCHANGED <<renamed, lock, dir, points, marks, loop, acting, tries>>
Ledger(o) ==
  /\ at[o] = "ledger"
  /\ IF ~renamed \/ loop = "new" \/ BusyUnder("old")
     THEN Then(o, "end") /\ UNCHANGED rows
     ELSE ~Clash /\ rows' = {To(r) : r \in rows} /\ Then(o, "state")
  /\ UNCHANGED <<renamed, marker, lock, dir, points, marks, loop, acting, tries>>

MoveState(o) ==
  /\ at[o] = "state" /\ Then(o, "loopfile")
  /\ marks' = IF points \in dir THEN {To(m) : m \in marks} ELSE marks
  /\ UNCHANGED <<renamed, marker, lock, dir, points, rows, loop, acting, tries>>

LoopFile(o) ==
  /\ at[o] = "loopfile" /\ loop' = "new" /\ Then(o, "end")
  /\ UNCHANGED <<renamed, marker, lock, dir, points, rows, marks, acting, tries>>

End(o) ==
  /\ at[o] = "end" /\ marker' = FALSE /\ lock' = lock \ {o} /\ Then(o, "out")
  /\ UNCHANGED <<renamed, records, acting, tries>>

\* A process that dies gives its lock back and leaves the marker.
DieClean(o) ==
  /\ at[o] # "out" /\ Then(o, "out") /\ lock' = lock \ {o} /\ marker' = FALSE
  /\ UNCHANGED <<renamed, records, acting, tries>>
Die(o) ==
  /\ at[o] # "out" /\ Then(o, "out") /\ lock' = lock \ {o}
  /\ UNCHANGED <<renamed, marker, records, acting, tries>>

\* An exception or an interrupt takes the marker along.
Raise(o) ==
  /\ MayRaise /\ at[o] # "out" /\ Then(o, "out") /\ lock' = lock \ {o} /\ marker' = FALSE
  /\ UNCHANGED <<renamed, records, acting, tries>>

Migrate(o) ==
  \/ Begin(o) \/ Files(o) \/ Point(o) \/ Ledger(o) \/ MoveState(o) \/ LoopFile(o) \/ End(o)
  \/ Die(o) \/ Raise(o)

Next ==
  \/ Rename
  \/ \E o \in Operator : Migrate(o)
  \/ \E a \in Actor : Write(a) \/ \E t \in Turn : Act(a, t)
  \/ \E r \in rows : Claim(r) \/ Finish(r)

Spec == Init /\ [][Next]_vars

-----------------------------------------------------------------------------
(* Properties. *)

\* Once the loop carries the new name, nothing is left under the old one, where no migrate and no
\* worker would look.
NothingStranded == loop = "new" => \A r \in rows \cup marks : r.name = "new"

\* The same of the ledger alone, whichever way earlier migrates ended.
RowsFound == loop = "new" => \A r \in rows : r.name = "new"

\* No turn has a row under each name: it would be taken twice, and the unique index of the turns
\* would refuse every later migrate.
OneTurn == ~Clash

\* The loop's records are in one state directory: none is started empty beside them.
OneState == Cardinality(dir) = 1

\* While the names disagree, nothing starts: a run is claimed only when everything it reads
\* has the loop's name.
ClaimAgrees ==
  \A r \in rows : (r.state = "pending" /\ [r EXCEPT !.state = "active"] \in rows')
    => points \in dir /\ \A m \in marks : m.name = r.name
ClaimsAgree == [][ClaimAgrees]_vars
=============================================================================
