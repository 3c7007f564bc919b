------------------------------ MODULE GateFailures ------------------------------
(***************************************************************************)
(* The ledgers of gate failures, for one webhook event: a gate that fails  *)
(* on it records it in the loop's ledger or, when that one is busy, in the *)
(* host's fallback ledger; sweeps of the watchdog alert it and run the     *)
(* gate again on the stored payload; a gate that completes resolves it     *)
(* everywhere.  Sweeps overlap and may be killed at any point; a ledger's  *)
(* file may become unreadable, and is then moved aside by the next writer. *)
(*                                                                         *)
(* Every critical section of a ledger's lock is one step.  A sweep's lease *)
(* (120 s) outlives its re-drive (60 s), so a claim expires only when its  *)
(* sweep is gone.  Not modelled: a gate that is killed before it records,  *)
(* and the bound of 200 entries, by which the oldest is dropped.           *)
(***************************************************************************)
EXTENDS Integers, FiniteSets

CONSTANTS
  Gate, Sweeper,
  MaxRedrives,   \* MAX_REDRIVES
  Deliveries,    \* how often GitHub delivers the event
  Faults         \* of "busy", "torn", "kill", "migrating", "clean"

GateFailuresAssumption == MaxRedrives \in Nat /\ Deliveries \in Nat /\ Gate \cap Sweeper = {}

VARIABLES
  left,    \* deliveries still to come
  file,    \* [Ledger -> [Key -> an entry, or NoEntry]]
  torn,    \* the ledgers whose file is unreadable
  copy,    \* the ledgers that have a .corrupt copy
  gt,      \* [Gate and Sweeper -> the step of the gate it runs]
  sw,      \* [Sweeper -> a sweep under way]
  read,    \* the last failed GitHub read of the loop, and whether it was told
  owed,    \* [Ledger -> [Key -> the failed deliveries nobody was told of]]
  drives,  \* [Ledger -> re-drives run from its entry]
  said     \* [Ledger -> [Key -> the attempts last told within the cooldown; 0 if none]]

vars == <<left, file, torn, copy, gt, sw, read, owed, drives, said>>

Ledger == {"loop", "fallback"}
\* The event's entry, and the entry that stands for a ledger that was moved aside.
Key == {"event", "notice"}
Runner == Gate \cup Sweeper
Bound == Deliveries + 2 * MaxRedrives
NoSweep == "nobody"

Entry == [attempts : 0..Bound, redrives : 0..MaxRedrives, resolved : BOOLEAN,
          told : 0..Bound, cooled : BOOLEAN, claim : Sweeper \cup {NoSweep}]
NoEntry == [attempts |-> 0, redrives |-> 0, resolved |-> FALSE, told |-> 0, cooled |-> TRUE,
            claim |-> NoSweep]
Steps == {"idle", "main", "record_loop", "record_fallback", "own", "resolve_loop",
          "resolve_fallback"}
RecordIn == [l \in Ledger |-> IF l = "loop" THEN "record_loop" ELSE "record_fallback"]
ResolveIn == [l \in Ledger |-> IF l = "loop" THEN "resolve_loop" ELSE "resolve_fallback"]
Idle == [at |-> "out", l |-> "loop", k |-> "event", n |-> 0, drove |-> FALSE, cover |-> {}]

TypeOK ==
  /\ left \in 0..Deliveries /\ torn \subseteq Ledger /\ copy \subseteq Ledger
  /\ file \in [Ledger -> [Key -> Entry]]
  /\ gt \in [Runner -> Steps]
  /\ sw \in [Sweeper -> [at : {"out", "drive", "say", "mark", "drop"}, l : Ledger, k : Key,
                         n : 0..Bound, drove : BOOLEAN, cover : SUBSET (1..Bound)]]
  /\ read \in {"none", "failed", "owned", "settled", "said"}
  /\ owed \in [Ledger -> [Key -> SUBSET (1..Bound)]]
  /\ drives \in [Ledger -> Nat] /\ said \in [Ledger -> [Key -> 0..Bound]]

Init ==
  /\ left = Deliveries /\ torn = {} /\ copy = {} /\ read = "none"
  /\ file = [l \in Ledger |-> [k \in Key |-> NoEntry]]
  /\ gt = [x \in Runner |-> "idle"] /\ sw = [s \in Sweeper |-> Idle]
  /\ owed = [l \in Ledger |-> [k \in Key |-> {}]]
  /\ drives = [l \in Ledger |-> 0] /\ said = [l \in Ledger |-> [k \in Key |-> 0]]

Held(l, k) == file[l][k].attempts > 0
Open(l, k) == Held(l, k) /\ ~file[l][k].resolved
Put(f, l, k, e) == [f EXCEPT ![l][k] = e]
Number(o) == Cardinality(UNION {o[l][k] : l \in Ledger, k \in Key})

-----------------------------------------------------------------------------
(* A gate.  run: main, then its outcome's bookkeeping, one ledger at a time. *)

Start(g) ==
  /\ gt[g] = "idle" /\ left > 0
  /\ left' = left - 1 /\ gt' = [gt EXCEPT ![g] = "main"]
  /\ UNCHANGED <<file, torn, copy, sw, read, owed, drives, said>>

\* A gate that crashes, times out, is stopped, or could not read GitHub; a delivery held for a
\* migration goes straight to the host's own ledger.
Fail(x) ==
  /\ gt[x] = "main"
  /\ \/ gt' = [gt EXCEPT ![x] = "record_loop"] /\ read' \in {read, "failed"}
     \/ "migrating" \in Faults /\ gt' = [gt EXCEPT ![x] = "record_fallback"] /\ read' = read
  /\ UNCHANGED <<left, file, torn, copy, sw, owed, drives, said>>

Complete(x) ==
  /\ "clean" \in Faults /\ gt[x] = "main"
  /\ gt' = [gt EXCEPT ![x] = "resolve_loop"]
  /\ UNCHANGED <<left, file, torn, copy, sw, read, owed, drives, said>>

\* _record: a new attempt of the same event keeps what the entry had and opens it again.
Recorded(l) == [file[l]["event"] EXCEPT !.attempts = @ + 1, !.resolved = FALSE]

Record(x, l) ==
  /\ gt[x] = RecordIn[l] /\ l \notin torn
  /\ file' = Put(file, l, "event", Recorded(l))
  /\ owed' = [owed EXCEPT ![l]["event"] = @ \cup {Recorded(l).attempts}]
  /\ gt' = [gt EXCEPT ![x] = "own"]
  /\ UNCHANGED <<left, torn, copy, sw, read, drives, said>>

\* LedgerBusy: the loop's ledger was locked for its share of the record phase.
Busy(x) ==
  /\ "busy" \in Faults /\ gt[x] = "record_loop"
  /\ gt' = [gt EXCEPT ![x] = "record_fallback"]
  /\ UNCHANGED <<left, file, torn, copy, sw, read, owed, drives, said>>

\* _claim_github_read: the recorded event owns the read that failed.
Own(x) ==
  /\ gt[x] = "own"
  /\ gt' = [gt EXCEPT ![x] = "idle"]
  /\ read' = IF read = "failed" THEN "owned" ELSE read
  /\ UNCHANGED <<left, file, torn, copy, sw, owed, drives, said>>

Settle(r) == IF r = "owned" THEN "settled" ELSE r
Resolved(l, k) == Put(file, l, k, [file[l][k] EXCEPT !.resolved = TRUE])

\* resolve, at the end of a gate that completed; then _settle_github_read.
Resolve(x, l) ==
  /\ gt[x] = ResolveIn[l] /\ l \notin torn
  /\ file' = IF Open(l, "event") THEN Resolved(l, "event") ELSE file
  /\ owed' = [m \in Ledger |-> [owed[m] EXCEPT !["event"] = {}]]
  /\ read' = IF Open(l, "event") \/ l = "fallback" THEN Settle(read) ELSE read
  /\ gt' = [gt EXCEPT ![x] = IF l = "loop" THEN "resolve_fallback" ELSE "idle"]
  /\ UNCHANGED <<left, torn, copy, sw, drives, said>>

-----------------------------------------------------------------------------
(* A sweep: one entry of one ledger at a time. *)

\* A copy the operator has removed ends its notice.
ResolveNotice(s, l) ==
  /\ sw[s].at = "out" /\ l \notin torn /\ Open(l, "notice") /\ l \notin copy
  /\ file' = Resolved(l, "notice") /\ owed' = [owed EXCEPT ![l]["notice"] = {}]
  /\ UNCHANGED <<left, torn, copy, gt, sw, read, drives, said>>

\* One event in two ledgers: the loop's own keeps it, whatever the state of its entry.
Homed == "loop" \notin torn /\ Held("loop", "event")
ResolveDuplicate(s) ==
  /\ sw[s].at = "out" /\ "fallback" \notin torn /\ Open("fallback", "event") /\ Homed
  /\ file' = Resolved("fallback", "event")
  /\ owed' = [owed EXCEPT !["fallback"]["event"] = {},
                          !["loop"]["event"] = @ \cup owed["fallback"]["event"]]
  /\ UNCHANGED <<left, torn, copy, gt, sw, read, drives, said>>

\* claim: a live claim of another sweep is respected; an alert that is due, or a re-drive that
\* may be made, is claimed, and a re-drive is counted before it is run.
DueFirst(k, e) == e.told = 0
Due(k, e) == e.cooled \/ (k = "event" /\ e.told # e.attempts)
May(k, e) == k = "event" /\ e.redrives < MaxRedrives
ClaimedUncounted(e, s, drive) == [e EXCEPT !.claim = s]
ClaimedUnleased(e, s, drive) == [e EXCEPT !.redrives = IF drive THEN @ + 1 ELSE @]
Claimed(e, s, drive) == [e EXCEPT !.claim = s, !.redrives = IF drive THEN @ + 1 ELSE @]
Claim(s, l, k) ==
  LET e == file[l][k] IN
  /\ sw[s].at = "out" /\ l \notin torn /\ Open(l, k)
  /\ k = "notice" => l \in copy
  /\ (l = "fallback" /\ k = "event") => ~Homed
  /\ e.claim = NoSweep
  /\ \E drive \in BOOLEAN :
       /\ drive => May(k, e) /\ gt[s] = "idle"
       /\ drive \/ Due(k, e)
       /\ file' = Put(file, l, k, Claimed(e, s, drive))
       /\ sw' = [sw EXCEPT ![s] = [at |-> IF drive THEN "drive" ELSE "say", l |-> l, k |-> k,
                                   n |-> e.attempts, drove |-> drive, cover |-> owed[l][k]]]
       /\ gt' = IF drive THEN [gt EXCEPT ![s] = "main"] ELSE gt
       /\ drives' = IF drive THEN [drives EXCEPT ![l] = @ + 1] ELSE drives
  /\ UNCHANGED <<left, torn, copy, read, owed, said>>

\* current, once the re-driven gate has ended or been killed at its time limit.
Driven(s) ==
  LET w == sw[s] e == file[w.l][w.k] IN
  /\ w.at = "drive"
  /\ gt' = [gt EXCEPT ![s] = "idle"]
  /\ gt[s] \in {"idle", "main"}
  /\ sw' = [sw EXCEPT ![s] = IF Held(w.l, w.k) /\ w.l \notin torn
                             THEN [w EXCEPT !.at = "say", !.n = e.attempts, !.cover = owed[w.l][w.k]]
                             ELSE [w EXCEPT !.at = "say"]]
  /\ UNCHANGED <<left, file, torn, copy, read, owed, drives, said>>

\* The sweep's own time budget ran out in a re-drive: it gives the claim up and says nothing.
GiveUp(s) ==
  /\ "kill" \in Faults /\ sw[s].at = "drive" /\ gt[s] \in {"idle", "main"}
  /\ sw' = [sw EXCEPT ![s].at = "drop"] /\ gt' = [gt EXCEPT ![s] = "idle"]
  /\ UNCHANGED <<left, file, torn, copy, read, owed, drives, said>>

Say(s) ==
  LET w == sw[s] IN
  /\ w.at = "say"
  /\ sw' = [sw EXCEPT ![s].at = "mark"]
  /\ said' = [said EXCEPT ![w.l][w.k] = w.n]
  /\ owed' = [owed EXCEPT ![w.l][w.k] = @ \ w.cover]
  /\ read' = IF read = "owned" /\ w.k = "event" THEN "said" ELSE read
  /\ UNCHANGED <<left, file, torn, copy, gt, drives>>

\* release: the alert is marked with the attempts its line named.
Marked(e, w) ==
  IF w.at = "mark" THEN [e EXCEPT !.claim = NoSweep, !.told = w.n, !.cooled = FALSE]
                   ELSE [e EXCEPT !.claim = NoSweep]
Release(s) ==
  LET w == sw[s] IN
  /\ w.at \in {"mark", "drop"} /\ w.l \notin torn
  /\ file' = IF Held(w.l, w.k) /\ file[w.l][w.k].claim = s
             THEN Put(file, w.l, w.k, Marked(file[w.l][w.k], w)) ELSE file
  /\ sw' = [sw EXCEPT ![s] = Idle]
  /\ UNCHANGED <<left, torn, copy, gt, read, owed, drives, said>>

\* The health check of a sweep: owner_state decides whether a failed read is still another's to tell.
OwnerStateMarked == IF \E l \in Ledger \ torn : Held(l, "event") /\ ~Open(l, "event") THEN "resolved"
                    ELSE "open"
OwnerState ==
  IF \E l \in Ledger \ torn : Open(l, "event") THEN "open"
  ELSE IF \E l \in Ledger \ torn : Held(l, "event") THEN "resolved"
  ELSE "gone"
Health ==
  /\ read' = CASE read = "failed" -> "said"
               [] read = "owned" /\ OwnerState = "resolved" -> "settled"
               [] read = "owned" /\ OwnerState = "gone" -> "said"
               [] OTHER -> read
  /\ read' # read
  /\ UNCHANGED <<left, file, torn, copy, gt, sw, owed, drives, said>>

-----------------------------------------------------------------------------
(* Time and faults. *)

Cool(l, k) ==
  /\ Held(l, k) /\ ~file[l][k].cooled /\ file[l][k].claim = NoSweep
  /\ file' = [file EXCEPT ![l][k].cooled = TRUE] /\ said' = [said EXCEPT ![l][k] = 0]
  /\ UNCHANGED <<left, torn, copy, gt, sw, read, owed, drives>>

\* The sweep dies; the gate it was running goes on.
Kill(s) ==
  /\ "kill" \in Faults /\ sw[s].at # "out"
  /\ sw' = [sw EXCEPT ![s] = Idle]
  /\ UNCHANGED <<left, file, torn, copy, gt, read, owed, drives, said>>

Works(s, l, k) == sw[s].at # "out" /\ sw[s].l = l /\ sw[s].k = k
Expire(l, k) ==
  /\ Held(l, k) /\ file[l][k].claim # NoSweep /\ ~Works(file[l][k].claim, l, k)
  /\ file' = [file EXCEPT ![l][k].claim = NoSweep]
  /\ UNCHANGED <<left, torn, copy, gt, sw, read, owed, drives, said>>

Tear(l) ==
  /\ "torn" \in Faults /\ torn = {} /\ copy = {} /\ ~Held(l, "notice") /\ Held(l, "event")
  /\ torn' = torn \cup {l}
  /\ UNCHANGED <<left, file, copy, gt, sw, read, owed, drives, said>>

\* _load_for_write: the bytes get a second name first; a writer that dies here leaves a copy
\* that the next one reuses.
CopyAside(l) ==
  /\ l \in torn \ copy /\ copy' = copy \cup {l}
  /\ UNCHANGED <<left, file, torn, gt, sw, read, owed, drives, said>>

\* ... and only then a fresh ledger, with a notice of the copy, replaces them.
Notice == [NoEntry EXCEPT !.attempts = 1]
AfreshUncopied(l) ==
  /\ l \in torn
  /\ file' = [file EXCEPT ![l] = [k \in Key |-> IF k = "notice" THEN Notice ELSE NoEntry]]
  /\ torn' = torn \ {l}
  /\ owed' = [owed EXCEPT ![l] = [k \in Key |-> IF k = "notice" THEN owed[l]["event"] ELSE {}]]
  /\ said' = [said EXCEPT ![l]["event"] = 0] /\ drives' = [drives EXCEPT ![l] = 0]
  /\ UNCHANGED <<left, copy, gt, sw, read>>
Afresh(l) ==
  /\ l \in torn \cap copy
  /\ file' = [file EXCEPT ![l] = [k \in Key |-> IF k = "notice" THEN Notice ELSE NoEntry]]
  /\ torn' = torn \ {l}
  /\ owed' = [owed EXCEPT ![l] = [k \in Key |-> IF k = "notice" THEN owed[l]["event"] ELSE {}]]
  /\ said' = [said EXCEPT ![l]["event"] = 0] /\ drives' = [drives EXCEPT ![l] = 0]
  /\ UNCHANGED <<left, copy, gt, sw, read>>

\* The operator deletes the copy once told of it.
Salvage(l) ==
  /\ l \in copy /\ l \notin torn /\ Held(l, "notice") /\ file[l]["notice"].told > 0
  /\ copy' = copy \ {l}
  /\ UNCHANGED <<left, file, torn, gt, sw, read, owed, drives, said>>

Run(x) ==
  \/ Fail(x) \/ Complete(x) \/ Busy(x) \/ Own(x)
  \/ \E l \in Ledger : Record(x, l) \/ Resolve(x, l)
Sweeping(s) ==
  \/ ResolveDuplicate(s) \/ Driven(s) \/ Say(s) \/ Release(s)
  \/ \E l \in Ledger : ResolveNotice(s, l) \/ \E k \in Key : Claim(s, l, k)
Moving(l) == CopyAside(l) \/ Afresh(l)
SayOf(l, k) == \E s \in Sweeper : Works(s, l, k) /\ Say(s)

Next ==
  \/ \E g \in Gate : Start(g)
  \/ \E x \in Runner : Run(x)
  \/ \E s \in Sweeper : Sweeping(s) \/ GiveUp(s) \/ Kill(s)
  \/ \E l \in Ledger : Tear(l) \/ Moving(l) \/ Salvage(l) \/ \E k \in Key : Cool(l, k) \/ Expire(l, k)
  \/ Health

\* Gates and sweeps go on, time passes, and the watch sweeps again and again: not every sweep is
\* killed before it says its line.
Fairness ==
  /\ \A x \in Runner : WF_vars(Run(x))
  /\ \A s \in Sweeper : WF_vars(Driven(s)) /\ WF_vars(Release(s))
  /\ \A l \in Ledger : WF_vars(Moving(l)) /\ \A k \in Key :
       /\ SF_vars(\E s \in Sweeper : Claim(s, l, k)) /\ SF_vars(SayOf(l, k)) /\ WF_vars(Expire(l, k)) /\ WF_vars(Cool(l, k))
  /\ WF_vars(Health)
Spec == Init /\ [][Next]_vars /\ Fairness

-----------------------------------------------------------------------------
(* Properties. *)

\* A re-drive is counted before it runs, so that no overlap and no death of sweeps makes more
\* of them than MAX_REDRIVES from one ledger.
RedrivesBounded == \A l \in Ledger : drives[l] <= MaxRedrives

\* A failure nobody was told of is in an open entry, or in bytes that were kept.
OwedIsHeld ==
  \A l \in Ledger :
    /\ owed[l]["event"] # {} => l \in torn \/ Open(l, "event")
    /\ owed[l]["notice"] # {} => l \in copy /\ Open(l, "notice")

\* Two sweeps do not both say one failure: a line that follows no re-drive is about attempts
\* that were not said within the cooldown.
Unrepeated == \A s \in Sweeper : Say(s) /\ ~sw[s].drove => said[sw[s].l][sw[s].k] # sw[s].n
NoRepeatedAlert == [][Unrepeated]_vars

\* Every failure is told in the end, or the event completes: a claim whose sweep died expires,
\* and attempts recorded after a line was made are said by another.
Owes == Number(owed) > 0
FailureIsTold == []<>~Owes

\* A read that failed is told by its event's line or by the health check, or settled with it.
Unread == read \in {"failed", "owned"}
ReadIsTold == []<>~Unread
=============================================================================
