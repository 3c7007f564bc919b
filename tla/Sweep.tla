--------------------------------- MODULE Sweep ---------------------------------
(***************************************************************************)
(* The sweeps of the watchdog over one loop: what they remember of the     *)
(* stalls they have alerted and of the reads that failed (watch.json), and *)
(* when they save it.  A sweep holds sweep.lock from its first read of     *)
(* that file to its last save, and prints its lines only after that; it    *)
(* may run out of its time budget at any read, raise in its best-effort    *)
(* part, or be killed.                                                     *)
(*                                                                         *)
(* Ages are counted up to the cooldown, so that behaviours go on for ever; *)
(* a sweep is short against one unit of time.                              *)
(***************************************************************************)
EXTENDS Integers

CONSTANTS
  PR, Sweeper,
  Cooldown,      \* units of time before a standing alert is repeated
  Failures,      \* READ_FAILURE_SWEEPS
  MayClear,      \* whether a stall may clear and come back
  Faults         \* of "github", "slow", "raise", "kill"

SweepAssumption ==
  /\ Cooldown \in Nat \ {0} /\ Failures \in Nat \ {0}
  /\ {"blind", "work_again"} \cap PR = {} /\ "nobody" \notin Sweeper

VARIABLES
  calm,      \* nothing fails any more
  stalled,   \* pull requests that no gate is moving
  watch,     \* the watch file
  lock,      \* the sweeper that holds sweep.lock
  sw,        \* [Sweeper -> a sweep under way]
  quiet,     \* [PR -> time since its stall was printed; Never if not since it began]
  health,    \* what was last printed about reads: "ok", "blind", or "work_again"
  kicked     \* [PR -> times its pending request was delivered to the gate]

vars == <<calm, stalled, watch, lock, sw, quiet, health, kicked>>
world == <<calm, stalled>>
printed == <<quiet, health>>

Never == -1
Age == Never..Cooldown
NoSweeper == "nobody"
At == {"out", "begin", "observe", "judge", "rest", "spent", "print"}

\* The file: when a standing stall last alerted, whether the loop was ever listed (first_sweep)
\* and which pull requests were there then, the failed reads in a row, whether they were said,
\* the cooldown of that alert, and the heads kicked.
Watch == [marks : [PR -> Age], armed : BOOLEAN, old : SUBSET PR, fails : 0..Failures,
          said : BOOLEAN, read : Age, kicks : SUBSET PR]
OutSweep(w) == [at |-> "out", mem |-> w, todo |-> {}, raised |-> {}, blind |-> {},
                failing |-> FALSE, lines |-> {}]
EmptyWatch == [marks |-> [p \in PR |-> Never], armed |-> FALSE, old |-> {}, fails |-> 0,
               said |-> FALSE, read |-> Never, kicks |-> {}]

TypeOK ==
  /\ calm \in BOOLEAN /\ stalled \subseteq PR /\ watch \in Watch
  /\ lock \in Sweeper \cup {NoSweeper}
  /\ sw \in [Sweeper -> [at : At, mem : Watch, todo : SUBSET PR, raised : SUBSET PR,
                         blind : SUBSET PR, failing : BOOLEAN,
                         lines : SUBSET (PR \cup {"blind", "work_again"})]]
  /\ quiet \in [PR -> Age] /\ health \in {"ok", "blind", "work_again"} /\ kicked \in [PR -> Nat]

Init ==
  /\ calm = FALSE /\ stalled = {} /\ watch = EmptyWatch /\ lock = NoSweeper
  /\ sw = [s \in Sweeper |-> OutSweep(EmptyWatch)]
  /\ quiet = [p \in PR |-> Never] /\ health = "ok" /\ kicked = [p \in PR |-> 0]

-----------------------------------------------------------------------------
\* The world.

Calm == ~calm /\ calm' = TRUE /\ UNCHANGED <<stalled, watch, lock, sw, printed, kicked>>

Stall(p) ==
  /\ p \notin stalled /\ stalled' = stalled \cup {p}
  /\ UNCHANGED <<calm, watch, lock, sw, printed, kicked>>

Clear(p) ==
  /\ MayClear /\ p \in stalled /\ stalled' = stalled \ {p}
  /\ quiet' = [quiet EXCEPT ![p] = Never]
  /\ UNCHANGED <<calm, watch, lock, sw, health, kicked>>

Older(a) == IF a = Never \/ a = Cooldown THEN a ELSE a + 1

Tick ==
  /\ \A s \in Sweeper : sw[s].at = "out"
  /\ watch' = [watch EXCEPT !.marks = [p \in PR |-> Older(@[p])], !.read = Older(@)]
  /\ quiet' = [p \in PR |-> Older(quiet[p])]
  /\ UNCHANGED <<world, lock, sw, health, kicked>>

-----------------------------------------------------------------------------
\* A sweep.

Fault(f) == ~calm /\ f \in Faults
Due(age) == age = Never \/ age = Cooldown

\* The record of a failed read: counted per sweep, said after Failures in a row and then once per
\* cooldown.
ReadFailed(m) ==
  LET n == IF m.fails = Failures THEN Failures ELSE m.fails + 1
      tell == n = Failures /\ Due(m.read)
  IN [mem |-> [m EXCEPT !.fails = n, !.said = @ \/ tell, !.read = IF tell THEN 0 ELSE @],
      lines |-> IF tell THEN {"blind"} ELSE {}]

\* Mutant: sweeps of one loop overlap.
BeginUnlocked(s) ==
  /\ sw[s].at = "out"
  /\ lock' = s
  /\ sw' = [sw EXCEPT ![s] = [OutSweep(watch) EXCEPT !.at = "begin"]]
  /\ UNCHANGED <<world, watch, printed, kicked>>
\* sweep_loop: a sweep that finds the lock held skips the loop.
Begin(s) ==
  /\ sw[s].at = "out" /\ lock = NoSweeper
  /\ lock' = s
  /\ sw' = [sw EXCEPT ![s] = [OutSweep(watch) EXCEPT !.at = "begin"]]
  /\ UNCHANGED <<world, watch, printed, kicked>>

\* Mutant: the end of an outage is taken for granted by the probe.
HealthForgets(s) ==
  /\ sw[s].at = "begin"
  /\ \/ /\ sw' = [sw EXCEPT ![s].at = "observe", ![s].mem.fails = 0, ![s].mem.said = FALSE]
        /\ UNCHANGED <<watch, lock>>
     \/ LET f == ReadFailed(sw[s].mem) IN
        /\ Fault("github")
        /\ watch' = f.mem /\ lock' = NoSweeper
        /\ sw' = [sw EXCEPT ![s].at = "print", ![s].lines = f.lines]
  /\ UNCHANGED <<world, printed, kicked>>
\* read_health: the probe and the listing.  Without a listing the sweep saves and ends here; a
\* probe that fails beside a listing that works leaves it to go on.
Health(s) ==
  /\ sw[s].at = "begin"
  /\ \/ sw' = [sw EXCEPT ![s].at = "observe"] /\ UNCHANGED <<watch, lock>>
     \/ LET f == ReadFailed(sw[s].mem) IN
        /\ Fault("github")
        /\ \/ /\ watch' = f.mem /\ lock' = NoSweeper
              /\ sw' = [sw EXCEPT ![s].at = "print", ![s].lines = f.lines]
           \/ /\ sw' = [sw EXCEPT ![s].at = "observe", ![s].mem = f.mem, ![s].failing = TRUE,
                                  ![s].lines = f.lines]
              /\ UNCHANGED <<watch, lock>>
  /\ UNCHANGED <<world, printed, kicked>>

\* The heads are observed and saved before any review is read.  The first sweep after arming
\* only takes their snapshot: a head that was there before is never said to wait for a review.
Observe(s) ==
  /\ sw[s].at = "observe"
  /\ LET m == [sw[s].mem EXCEPT !.armed = TRUE,
                                !.old = IF sw[s].mem.armed THEN @ \cap stalled ELSE stalled] IN
       /\ watch' = m
       /\ sw' = [sw EXCEPT ![s].mem = m, ![s].todo = PR,
                           ![s].at = IF sw[s].mem.armed THEN "judge" ELSE "rest"]
  /\ UNCHANGED <<world, lock, printed, kicked>>

\* One pull request: its reviews are read, a pending request is delivered once, and a stall is
\* alerted when its cooldown is over.
Judge(s, p) ==
  LET stall == p \in stalled /\ p \notin sw[s].mem.old
      kick == stall /\ p \notin sw[s].mem.kicks IN
  /\ sw[s].at = "judge" /\ p \in sw[s].todo
  /\ \/ /\ sw' = [sw EXCEPT ![s].todo = @ \ {p},
                  ![s].raised = IF stall /\ Due(sw[s].mem.marks[p]) THEN @ \cup {p} ELSE @,
                  ![s].mem.marks[p] = IF stall THEN @ ELSE Never,
                  ![s].mem.kicks = IF kick THEN @ \cup {p} ELSE @]
        /\ kicked' = [kicked EXCEPT ![p] = IF kick /\ @ < 2 THEN @ + 1 ELSE @]
     \/ /\ Fault("github")
        /\ sw' = [sw EXCEPT ![s].todo = @ \ {p}, ![s].blind = @ \cup {p}]
        /\ UNCHANGED kicked
  /\ UNCHANGED <<world, watch, lock, printed>>

\* Mutant: a stall is stamped whenever it is seen.
StampedSeen(s) == [p \in PR |-> IF p \in stalled \ sw[s].blind THEN 0 ELSE sw[s].mem.marks[p]]
\* A key is stamped when it alerts; a pull request that could not be read keeps its cooldown.
Stamped(s) == [p \in PR |-> IF p \in sw[s].raised THEN 0 ELSE sw[s].mem.marks[p]]

\* Mutant: the stamps are saved at the end of the sweep.
DecideUnsaved(s) ==
  /\ sw[s].at = "judge" /\ sw[s].todo = {}
  /\ LET m == [sw[s].mem EXCEPT !.marks = Stamped(s)] IN
       sw' = [sw EXCEPT ![s].at = "rest", ![s].mem = m, ![s].lines = @ \cup sw[s].raised]
  /\ UNCHANGED <<world, watch, lock, printed, kicked>>
\* The alerts become lines, and the stamps are saved before anything that can raise.
Decide(s) ==
  /\ sw[s].at = "judge" /\ sw[s].todo = {}
  /\ LET m == [sw[s].mem EXCEPT !.marks = Stamped(s)] IN
       /\ watch' = m
       /\ sw' = [sw EXCEPT ![s].at = "rest", ![s].mem = m, ![s].lines = @ \cup sw[s].raised]
  /\ UNCHANGED <<world, lock, printed, kicked>>

\* finish_reads and settle_health: failed review reads count as a failed sweep; "work_again" is
\* said when every read was good, once, and only if the failure was.
Settled(s) ==
  LET m == sw[s].mem IN
  IF sw[s].failing THEN [mem |-> m, lines |-> {}]
  ELSE IF sw[s].blind # {} THEN ReadFailed(m)
  ELSE [mem |-> [m EXCEPT !.fails = 0, !.said = FALSE, !.read = Never],
        lines |-> IF m.said THEN {"work_again"} ELSE {}]

\* The drains, the observer feed and the checks of CI, then the last save.
Rest(s) ==
  /\ sw[s].at = "rest"
  /\ watch' = Settled(s).mem /\ lock' = NoSweeper
  /\ sw' = [sw EXCEPT ![s].at = "print", ![s].lines = @ \cup Settled(s).lines]
  /\ UNCHANGED <<world, printed, kicked>>

\* They raise: the lines made so far are printed, nothing more is saved.
Raise(s) ==
  /\ sw[s].at = "rest" /\ Fault("raise")
  /\ lock' = NoSweeper
  /\ sw' = [sw EXCEPT ![s].at = "print"]
  /\ UNCHANGED <<world, watch, printed, kicked>>

\* The time budget is spent at a read: the lock is released and the lines so far are kept.
Spend(s) ==
  /\ sw[s].at \in {"judge", "rest"} /\ Fault("slow")
  /\ lock' = NoSweeper
  /\ sw' = [sw EXCEPT ![s].at = "spent"]
  /\ UNCHANGED <<world, watch, printed, kicked>>

\* sweep_budget_spent: the file is read anew, and the sweep is counted as a failed one.
SpentIsCounted(s) ==
  /\ sw[s].at = "spent"
  /\ LET f == ReadFailed(watch) IN
       /\ watch' = f.mem
       /\ sw' = [sw EXCEPT ![s].at = "print", ![s].lines = @ \cup f.lines]
  /\ UNCHANGED <<world, lock, printed, kicked>>

Say(s) ==
  /\ sw[s].at = "print"
  /\ quiet' = [p \in PR |-> IF p \in sw[s].lines /\ p \in stalled THEN 0 ELSE quiet[p]]
  /\ health' = IF "work_again" \in sw[s].lines THEN "work_again"
               ELSE IF "blind" \in sw[s].lines THEN "blind" ELSE health
  /\ sw' = [sw EXCEPT ![s] = OutSweep(EmptyWatch)]
  /\ UNCHANGED <<world, watch, lock, kicked>>

Kill(s) ==
  /\ sw[s].at # "out" /\ Fault("kill")
  /\ lock' = IF lock = s THEN NoSweeper ELSE lock
  /\ sw' = [sw EXCEPT ![s] = OutSweep(EmptyWatch)]
  /\ UNCHANGED <<world, watch, printed, kicked>>

Run(s) ==
  \/ Begin(s) \/ Health(s) \/ Observe(s) \/ Decide(s) \/ Rest(s) \/ SpentIsCounted(s) \/ Say(s)
  \/ \E p \in PR : Judge(s, p)
Next ==
  \/ Calm \/ Tick
  \/ \E p \in PR : Stall(p) \/ Clear(p)
  \/ \E s \in Sweeper : Run(s) \/ Raise(s) \/ Spend(s) \/ Kill(s)

\* Cron starts a sweep every few minutes, time passes, and faults end.
Fairness == WF_vars(Calm) /\ SF_vars(Tick) /\ \A s \in Sweeper : SF_vars(Run(s))
Spec == Init /\ [][Next]_vars /\ Fairness

-----------------------------------------------------------------------------
\* A stall that persists is not printed again before its cooldown is over, whatever sweeps in
\* between could not read, raised or were killed.
Unrepeated ==
  \A s \in Sweeper, p \in PR :
    Say(s) /\ p \in sw[s].lines /\ p \in stalled => quiet[p] \in {Never, Cooldown}
NoRepeat == [][Unrepeated]_vars

\* A stall that persists is printed again and again once faults end, unless it was there before
\* the loop was armed.
Persists(p) == p \in stalled /\ p \notin watch.old
PersistentIsSaid == \A p \in PR : <>[]Persists(p) => []<>(quiet[p] = 0)

\* An outage that was announced is announced over.
RecoveryIsSaid == []<>(health # "blind")

\* What the comment says: a pending request is delivered to the gate once per head.
KickedOnce == \A p \in PR : kicked[p] <= 1
=============================================================================
