------------------------------- MODULE SeatQueue -------------------------------
(***************************************************************************)
(* The queue entry of one pull request for one seat (pending.json), the    *)
(* gates that leave a request there when they cannot commit its turn, and  *)
(* the drains of the watchdog and of other gates that post it again.       *)
(*                                                                         *)
(* A gate observes the entry, commits a turn to the run ledger, and then   *)
(* removes or replaces exactly the entry it observed; every file operation *)
(* is one locked section, so the steps of gates and drains interleave.     *)
(*                                                                         *)
(* wanted: the heads at which the seat's turn is due, as GitHub tells it   *)
(* (a standing verdict for the fixer, no verdict yet for the reviewer).    *)
(***************************************************************************)
EXTENDS Integers

CONSTANTS
  MaxHead, Gate, Drainer,
  MaxId,        \* bound: entries written
  Faults        \* what may go wrong, of "ledger", "policy", "gate", "route", "read"

SeatQueueAssumption == MaxHead \in Nat \ {0} /\ MaxId \in Nat

VARIABLES
  head, wanted,   \* GitHub
  up, policy,     \* the run ledger can be written; unattended pushes are on
  turns,          \* heads whose turn is in the ledger
  entry, ids,     \* [head, id, why], or NoEntry; ids used so far
  gate,           \* [Gate -> [at, head, seen]]
  drain           \* [Drainer -> [at, seen, gate]]

Head == 1..MaxHead
hub == <<head, wanted, up, policy>>
vars == <<hub, turns, entry, ids, gate, drain>>

NoEntry == [head |-> 0, id |-> 0, why |-> "held"]
Why == {"held", "push_off", "delivery_uncertain"}
Entry == [head : 0..MaxHead, id : 0..MaxId, why : Why]

OutGate == [at |-> "out", head |-> 0, seen |-> NoEntry]
OutDrain == [at |-> "out", seen |-> NoEntry, gates |-> {}]

TypeOK ==
  /\ head \in Head /\ wanted \subseteq Head /\ up \in BOOLEAN /\ policy \in BOOLEAN
  /\ turns \subseteq Head /\ entry \in Entry /\ ids \in 0..MaxId
  /\ gate \in [Gate -> [at : {"out", "checked", "seen", "done", "failed", "off", "hold"},
                        head : 0..MaxHead, seen : Entry]]
  /\ drain \in [Drainer -> [at : {"out", "seen", "drop", "fire", "fired"}, seen : Entry,
                            gates : SUBSET Gate]]

Init ==
  /\ head = 1 /\ wanted = Head /\ up = TRUE /\ policy = TRUE
  /\ turns = {} /\ entry = NoEntry /\ ids = 0
  /\ gate = [g \in Gate |-> OutGate]
  /\ drain = [d \in Drainer |-> OutDrain]

-----------------------------------------------------------------------------
\* The world.

Push ==
  /\ head < MaxHead /\ head' = head + 1
  /\ UNCHANGED <<wanted, up, policy, turns, entry, ids, gate, drain>>

\* The verdict at the head is superseded, or the pull request is closed.
Supersede ==
  /\ head \in wanted /\ wanted' = wanted \ {head}
  /\ UNCHANGED <<head, up, policy, turns, entry, ids, gate, drain>>

Toggle ==
  /\ \/ "ledger" \in Faults /\ up' = ~up /\ UNCHANGED policy
     \/ "policy" \in Faults /\ policy' = ~policy /\ UNCHANGED up
  /\ UNCHANGED <<head, wanted, turns, entry, ids, gate, drain>>

-----------------------------------------------------------------------------
\* The queue file.

\* queue_replace_if: only the entry that was observed is replaced.
ReplaceIf(seen, h, why) ==
  IF entry = seen
  THEN entry' = [head |-> h, id |-> ids + 1, why |-> why] /\ ids' = ids + 1
  ELSE UNCHANGED <<entry, ids>>

\* Mutant: whatever is queued for the pull request is removed.
PopAny(seen) == entry' = NoEntry /\ UNCHANGED ids

\* queue_pop_if: only the entry that was observed is removed.
PopIf(seen) ==
  /\ entry' = IF entry = seen THEN NoEntry ELSE entry
  /\ UNCHANGED ids

-----------------------------------------------------------------------------
\* A gate that an event of head h has started.

Set(g, at) == gate' = [gate EXCEPT ![g].at = at]

\* Its checks: the event's head is the live one and its turn is due.
Arrive(g, h) ==
  /\ gate[g] = OutGate /\ ids < MaxId
  /\ h = head /\ h \in wanted
  /\ gate' = [gate EXCEPT ![g] = [at |-> "checked", head |-> h, seen |-> NoEntry]]
  /\ UNCHANGED <<hub, turns, entry, ids, drain>>

\* block_pr_agent observes the entry, and whether the fixer may push.
Observe(g) ==
  /\ gate[g].at = "checked"
  /\ gate' = [gate EXCEPT ![g].seen = entry, ![g].at = IF policy THEN "seen" ELSE "off"]
  /\ UNCHANGED <<hub, turns, entry, ids, drain>>

\* enqueue_isolated: commits the turn, or refuses it under the policy, or fails.
Enqueue(g) ==
  /\ gate[g].at = "seen"
  /\ IF ~up THEN Set(g, "failed") /\ UNCHANGED turns
     ELSE IF ~policy THEN Set(g, "off") /\ UNCHANGED turns
     ELSE Set(g, "done") /\ turns' = turns \cup {gate[g].head}
  /\ UNCHANGED <<hub, entry, ids, drain>>

\* The turn is committed: the request it answers is acknowledged.
Acknowledge(g) ==
  /\ gate[g].at = "done"
  /\ PopIf(gate[g].seen)
  /\ gate' = [gate EXCEPT ![g] = OutGate]
  /\ UNCHANGED <<hub, turns, drain>>

\* The turn could not be committed: the request is recorded.
Record(g) ==
  /\ gate[g].at = "failed" /\ ids < MaxId
  /\ ReplaceIf(gate[g].seen, gate[g].head, "held")
  /\ gate' = [gate EXCEPT ![g] = OutGate]
  /\ UNCHANGED <<hub, turns, drain>>

\* hold_fixer_push_off reads the entry anew; an identical hold is left as it is.
HoldRead(g) ==
  /\ gate[g].at = "off"
  /\ IF entry.head = gate[g].head /\ entry.why = "push_off"
     THEN gate' = [gate EXCEPT ![g] = OutGate]
     ELSE gate' = [gate EXCEPT ![g].seen = entry, ![g].at = "hold"]
  /\ UNCHANGED <<hub, turns, entry, ids, drain>>

HoldWrite(g) ==
  /\ gate[g].at = "hold" /\ ids < MaxId
  /\ ReplaceIf(gate[g].seen, gate[g].head, "push_off")
  /\ gate' = [gate EXCEPT ![g] = OutGate]
  /\ UNCHANGED <<hub, turns, drain>>

\* Out of its time budget, or killed.
GateDies(g) ==
  /\ "gate" \in Faults /\ gate[g] # OutGate
  /\ gate' = [gate EXCEPT ![g] = OutGate]
  /\ UNCHANGED <<hub, turns, entry, ids, drain>>

-----------------------------------------------------------------------------
\* A drain.

Skipped(e) == e.why = "delivery_uncertain" \/ (e.why = "push_off" /\ ~policy)

DrainObserve(d) ==
  /\ drain[d] = OutDrain /\ ids < MaxId
  /\ entry # NoEntry /\ ~Skipped(entry)
  /\ drain' = [drain EXCEPT ![d] = [at |-> "seen", seen |-> entry, gates |-> {}]]
  /\ UNCHANGED <<hub, turns, entry, ids, gate>>

\* The pull request, its head and its reviews are read; an unreadable one is left queued.
DrainJudge(d) ==
  /\ drain[d].at = "seen"
  /\ LET h == drain[d].seen.head IN
       drain' = [drain EXCEPT ![d].at = IF h = head /\ h \in wanted THEN "fire" ELSE "drop"]
  /\ UNCHANGED <<hub, turns, entry, ids, gate>>

DrainUnreadable(d) ==
  /\ "read" \in Faults /\ drain[d].at = "seen"
  /\ drain' = [drain EXCEPT ![d] = OutDrain]
  /\ UNCHANGED <<hub, turns, entry, ids, gate>>

DrainDrop(d) ==
  /\ drain[d].at = "drop"
  /\ PopIf(drain[d].seen)
  /\ drain' = [drain EXCEPT ![d] = OutDrain]
  /\ UNCHANGED <<hub, turns, gate>>

\* routes.fire: the signed event starts a gate, which checks it for itself.
DrainFire(d) ==
  /\ drain[d].at = "fire"
  /\ \/ \E g \in Gate :
          /\ gate[g] = OutGate
          /\ drain' = [drain EXCEPT ![d].at = "fired", ![d].gates = {g}]
          /\ IF drain[d].seen.head = head /\ head \in wanted
             THEN gate' = [gate EXCEPT ![g] =
                             [at |-> "checked", head |-> drain[d].seen.head, seen |-> NoEntry]]
             ELSE UNCHANGED gate
     \/ \* nothing was sent: the work stays queued
        /\ "route" \in Faults /\ drain' = [drain EXCEPT ![d] = OutDrain] /\ UNCHANGED gate
  /\ UNCHANGED <<hub, turns, entry, ids>>

\* Mutant: the answer of the gateway is taken for the turn.
DrainSettlePops(d) ==
  /\ drain[d].at = "fired" /\ ids < MaxId
  /\ PopIf(drain[d].seen)
  /\ drain' = [drain EXCEPT ![d] = OutDrain]
  /\ UNCHANGED <<hub, turns, gate>>

\* The gateway has answered, or has not in time: an entry the gate did not acknowledge is not
\* posted again.
DrainSettle(d) ==
  /\ drain[d].at = "fired" /\ ids < MaxId
  /\ "route" \in Faults \/ \A g \in drain[d].gates : gate[g] = OutGate
  /\ ReplaceIf(drain[d].seen, drain[d].seen.head, "delivery_uncertain")
  /\ drain' = [drain EXCEPT ![d] = OutDrain]
  /\ UNCHANGED <<hub, turns, gate>>

Next ==
  \/ Push \/ Supersede \/ Toggle
  \/ \E g \in Gate : \/ \E h \in Head : Arrive(g, h)
                     \/ Observe(g) \/ Enqueue(g) \/ Acknowledge(g) \/ Record(g)
                     \/ HoldRead(g) \/ HoldWrite(g) \/ GateDies(g)
  \/ \E d \in Drainer : \/ DrainObserve(d) \/ DrainJudge(d) \/ DrainUnreadable(d)
                        \/ DrainDrop(d) \/ DrainFire(d) \/ DrainSettle(d)

\* Gates run to their end; cron drains.
Fairness ==
  /\ \A g \in Gate : WF_vars(Observe(g) \/ Enqueue(g) \/ Acknowledge(g) \/ Record(g)
                             \/ HoldRead(g) \/ HoldWrite(g))
  /\ \A d \in Drainer : /\ SF_vars(DrainObserve(d)) /\ WF_vars(DrainDrop(d))
                        /\ SF_vars(DrainJudge(d)) /\ SF_vars(DrainFire(d)) /\ WF_vars(DrainSettle(d))

Spec == Init /\ [][Next]_vars /\ Fairness

-----------------------------------------------------------------------------
Due(h) == h = head /\ h \in wanted

\* A request that is still due leaves the queue only once its turn is in the ledger: "a queued
\* event is authorization for exactly its observed head".
AcknowledgedIsCommitted ==
  [][entry # NoEntry /\ Due(entry.head) /\ entry' = NoEntry => entry.head \in turns]_vars

\* The one way a due request is lost: the gate of an older event, overtaken by a push and by the
\* gate of the newer head, observed the newer request and took it for its own.  No drain of an
\* older request loses one, no gate that runs in time, and no two gates of one head.
Overtaken(g) == gate[g].at = "done" /\ gate[g].head < entry.head /\ gate[g].seen = entry
LostOnlyToOvertaken ==
  [][entry # NoEntry /\ Due(entry.head) /\ entry' = NoEntry
       => entry.head \in turns \/ \E g \in Gate : Overtaken(g)]_vars

\* What queue_replace_if says: a failed dispatch goes unrecorded only if a newer event replaced
\* the entry.
UnrecordedIsOlder ==
  [][\A g \in Gate : Record(g) => entry'.head >= gate[g].head \/ gate[g].head \in turns]_vars

\* A held request that stays due is served, or its delivery is left to a person.
Waits(h) == entry.head = h /\ entry.why = "held" /\ Due(h) /\ h \notin turns /\ ids < MaxId
HeldIsServed == \A h \in Head : []<>~Waits(h)
=============================================================================
