-------------------------------- MODULE Breach --------------------------------
(***************************************************************************)
(* A pull request whose verdict cap is spent (or that the operator         *)
(* escalates) is parked: a breach marker in the loop's breach.json names   *)
(* the head, and a turn of the adjudicator in the run ledger rules on it.  *)
(* The two stores share no transaction.  Gates, the watchdog's retry and   *)
(* the operator deliver the breach (breach_deliver), each in three steps;  *)
(* the worker of the turn marks it adjudicating before it launches and     *)
(* hands it back when it ends without a ruling.                            *)
(*                                                                         *)
(* One pull request; a head has one breach, so its turn is its head's.     *)
(* Attempt tokens are numbers, a fresh one for every reservation.          *)
(***************************************************************************)
EXTENDS Integers

CONSTANTS
  MaxHead,     \* heads are 1..MaxHead
  Sender,      \* deliveries that may run at once
  MaxToken,    \* bound: reservations
  MayFail      \* whether processes may die

ASSUME BreachAssumption == MaxHead \in Nat \ {0} /\ MaxToken \in Nat /\ MayFail \in BOOLEAN

VARIABLES
  head, approved,   \* GitHub: the live head, the heads approved
  marker,           \* [head, status, token, leased]; head 0 is no marker
  tokens,           \* reservations so far
  send,             \* [Sender -> [at, head, token]]: a delivery under way
  row,              \* [1..MaxHead -> state of the adjudicator's turn]
  pc,               \* [1..MaxHead -> step of its worker]
  rulings           \* [1..MaxHead -> rulings recorded]

vars == <<head, approved, marker, tokens, send, row, pc, rulings>>
turn == <<row, pc, rulings>>

Head == 1..MaxHead
Status == {"delivery-pending", "awaiting-adjudication", "adjudicating"}
RowState == {"none", "pending", "waiting", "working", "held", "failed", "ruled", "retired", "settled"}

\* A delivery that is not under way.
Idle == [at |-> "idle", head |-> 0, token |-> 0]
NoMarker == [head |-> 0, status |-> "delivery-pending", token |-> 0, leased |-> FALSE]

TypeOK ==
  /\ head \in Head /\ approved \subseteq Head
  /\ marker \in [head : 0..MaxHead, status : Status, token : Nat, leased : BOOLEAN]
  /\ tokens \in Nat
  /\ send \in [Sender -> [at : {"idle", "reserved", "sent", "unsent"}, head : 0..MaxHead, token : Nat]]
  /\ row \in [Head -> RowState]
  /\ pc \in [Head -> {"out", "claimed", "checked", "started", "ended", "dead"}]
  /\ rulings \in [Head -> Nat]

Init ==
  /\ head = 1 /\ approved = {} /\ marker = NoMarker /\ tokens = 0
  /\ send = [s \in Sender |-> Idle]
  /\ row = [h \in Head |-> "none"] /\ pc = [h \in Head |-> "out"]
  /\ rulings = [h \in Head |-> 0]

Push ==
  /\ head < MaxHead /\ head' = head + 1
  /\ UNCHANGED <<approved, marker, tokens, send, turn>>

Approve ==
  /\ approved' = approved \cup {head}
  /\ UNCHANGED <<head, marker, tokens, send, turn>>

-----------------------------------------------------------------------------
\* A delivery: reserve under the breach lock, send without it, settle under it.

\* Mutant: a head is delivered once.
DeliverableOnce(h) == marker.head # h
\* A new head, or a pending delivery whose sender has answered or is given up.
Deliverable(h) ==
  \/ marker.head # h
  \/ marker.status = "delivery-pending" /\ ~(marker.token # 0 /\ marker.leased)

\* Mutant: the delayed event of an older head is not compared with the live head.
ReserveUnread(s, h) ==
  /\ send[s] = Idle /\ tokens < MaxToken
  /\ h <= head /\ Deliverable(h)
  /\ tokens' = tokens + 1
  /\ marker' = [head |-> h, status |-> "delivery-pending", token |-> tokens + 1, leased |-> TRUE]
  /\ send' = [send EXCEPT ![s] = [at |-> "reserved", head |-> h, token |-> tokens + 1]]
  /\ UNCHANGED <<head, approved, turn>>

\* The live head is read under the lock: a late event of another head is stale.  An
\* approved head is not breached (the gates count verdicts, the watchdog asks for it).
Reserve(s, h) ==
  /\ send[s] = Idle /\ tokens < MaxToken
  /\ h = head /\ h \notin approved /\ Deliverable(h)
  /\ tokens' = tokens + 1
  /\ marker' = [head |-> h, status |-> "delivery-pending", token |-> tokens + 1, leased |-> TRUE]
  /\ send' = [send EXCEPT ![s] = [at |-> "reserved", head |-> h, token |-> tokens + 1]]
  /\ UNCHANGED <<head, approved, turn>>

\* The watchdog's sweep delivers again what is still pending at the live head.
RetryPending(s, h) == marker.head = h /\ marker.status = "delivery-pending" /\ Reserve(s, h)

\* The operator escalates a head that has no marker yet, while no turn of it is under way.
Escalate(s, h) == marker.head # h /\ row[h] \notin {"working", "held"} /\ Reserve(s, h)

\* wake_adjudicator: the turn is committed; a turn that failed unwritten is re-armed, any other
\* is a duplicate.  A spawn may fail after the commit: the row is there, the answer is no.
Wake(s) ==
  /\ send[s].at = "reserved"
  /\ LET h == send[s].head IN
       /\ row' = [row EXCEPT ![h] = IF @ \in {"none", "failed", "retired"} /\ rulings[h] = 0
                                    THEN "pending" ELSE @]
       /\ pc' = [pc EXCEPT ![h] = IF row'[h] # row[h] THEN "out" ELSE @]
       /\ \E at \in {"sent", "unsent"} : send' = [send EXCEPT ![s].at = at]
  /\ UNCHANGED <<head, approved, marker, tokens, rulings>>

\* The ledger could not be opened.
WakeFails(s) ==
  /\ send[s].at = "reserved"
  /\ send' = [send EXCEPT ![s].at = "unsent"]
  /\ UNCHANGED <<head, approved, marker, tokens, turn>>

\* Mutant: the answer is applied to whatever marker is there for the head.
SettleAnyToken(s) ==
  /\ send[s].at \in {"sent", "unsent"}
  /\ IF marker.head = send[s].head
     THEN marker' = [marker EXCEPT !.token = 0,
            !.status = IF send[s].at = "sent" THEN "awaiting-adjudication" ELSE "delivery-pending"]
     ELSE UNCHANGED marker
  /\ send' = [send EXCEPT ![s] = Idle]
  /\ UNCHANGED <<head, approved, tokens, turn>>

\* Compare and swap: only the marker of this very attempt is settled.
Settle(s) ==
  /\ send[s].at \in {"sent", "unsent"}
  /\ IF marker.head = send[s].head /\ marker.token = send[s].token
     THEN marker' = [marker EXCEPT !.token = 0, !.leased = FALSE,
            !.status = IF @ = "delivery-pending" /\ send[s].at = "sent"
                       THEN "awaiting-adjudication" ELSE @]
     ELSE UNCHANGED marker
  /\ send' = [send EXCEPT ![s] = Idle]
  /\ UNCHANGED <<head, approved, tokens, turn>>

SenderDies(s) ==
  /\ MayFail /\ send[s] # Idle
  /\ send' = [send EXCEPT ![s] = Idle]
  /\ UNCHANGED <<head, approved, marker, tokens, turn>>

\* Sixty seconds have passed since the reservation.
LeaseEnds ==
  /\ marker.leased
  /\ marker' = [marker EXCEPT !.leased = FALSE]
  /\ UNCHANGED <<head, approved, tokens, send, turn>>

-----------------------------------------------------------------------------
\* The worker of a turn.

\* adjudication_state: the head is live and not approved, and its marker waits for a ruling.
Current(h) ==
  /\ head = h /\ h \notin approved
  /\ marker.head = h /\ marker.status # "adjudicating"

ClaimTurn(h) ==
  /\ row[h] = "pending"
  /\ IF Current(h)
     THEN row' = [row EXCEPT ![h] = "working"] /\ pc' = [pc EXCEPT ![h] = "claimed"]
     ELSE row' = [row EXCEPT ![h] = "retired"] /\ UNCHANGED pc
  /\ UNCHANGED <<head, approved, marker, tokens, send, rulings>>

\* The same facts are read again right before the launch.
CheckTurn(h) ==
  /\ row[h] = "working" /\ pc[h] = "claimed"
  /\ IF Current(h)
     THEN pc' = [pc EXCEPT ![h] = "checked"] /\ UNCHANGED row
     ELSE pc' = [pc EXCEPT ![h] = "out"] /\ row' = [row EXCEPT ![h] = "failed"]
  /\ UNCHANGED <<head, approved, marker, tokens, send, rulings>>

\* breach_start, under the breach lock; refused when the marker moved or was claimed.
BreachStart(h) ==
  /\ row[h] = "working" /\ pc[h] = "checked"
  /\ IF marker.head = h /\ marker.status # "adjudicating"
     THEN /\ marker' = [marker EXCEPT !.status = "adjudicating", !.token = 0, !.leased = FALSE]
          /\ pc' = [pc EXCEPT ![h] = "started"] /\ UNCHANGED row
     ELSE /\ pc' = [pc EXCEPT ![h] = "out"] /\ row' = [row EXCEPT ![h] = "failed"]
          /\ UNCHANGED marker
  /\ UNCHANGED <<head, approved, tokens, send, rulings>>

\* record_ruling: a live run, and no ruling of it yet.
RecordRuling(h) ==
  /\ row[h] = "working" /\ pc[h] = "started" /\ rulings[h] = 0
  /\ rulings' = [rulings EXCEPT ![h] = @ + 1]
  /\ UNCHANGED <<head, approved, marker, tokens, send, row, pc>>

\* complete_uncertain: a turn with a ruling is never retried; any may fail, or be uncertain when
\* it did not stop.
Complete(h) ==
  /\ row[h] = "working" /\ pc[h] = "started"
  /\ \E l \in {"failed", "held"} \cup (IF rulings[h] > 0 THEN {"ruled"} ELSE {"waiting"}) :
       /\ row' = [row EXCEPT ![h] = l]
       /\ pc' = [pc EXCEPT ![h] = IF l \in {"failed", "waiting"} THEN "ended" ELSE "out"]
  /\ UNCHANGED <<head, approved, marker, tokens, send, rulings>>

\* Mutant: the marker is handed back although a ruling was recorded.
BreachResumeAlways(h) ==
  /\ pc[h] = "ended"
  /\ marker' = IF marker.head = h /\ marker.status = "adjudicating"
               THEN [marker EXCEPT !.status = "awaiting-adjudication"] ELSE marker
  /\ pc' = [pc EXCEPT ![h] = "out"]
  /\ UNCHANGED <<head, approved, tokens, send, row, rulings>>

\* breach_resume, after a turn that failed or waits, and wrote no ruling.
BreachResume(h) ==
  /\ pc[h] = "ended"
  /\ marker' = IF rulings[h] = 0 /\ marker.head = h /\ marker.status = "adjudicating"
               THEN [marker EXCEPT !.status = "awaiting-adjudication"] ELSE marker
  /\ pc' = [pc EXCEPT ![h] = "out"]
  /\ UNCHANGED <<head, approved, tokens, send, row, rulings>>

WorkerDies(h) ==
  /\ MayFail /\ pc[h] \notin {"out", "dead"}
  /\ pc' = [pc EXCEPT ![h] = "dead"]
  /\ UNCHANGED <<head, approved, marker, tokens, send, row, rulings>>

\* recover: a lease that ran out is uncertain; a retry that is due is pending.
Recover(h) ==
  /\ \/ row[h] = "working" /\ pc[h] = "dead" /\ row' = [row EXCEPT ![h] = "held"]
     \/ row[h] = "waiting" /\ row' = [row EXCEPT ![h] = "pending"]
  /\ UNCHANGED <<head, approved, marker, tokens, send, pc, rulings>>

\* An operator reconciles: never started again.
Reconcile(h) ==
  /\ row[h] = "held"
  /\ row' = [row EXCEPT ![h] = "settled"]
  /\ UNCHANGED <<head, approved, marker, tokens, send, pc, rulings>>

\* An operator retries a turn that wrote nothing.
Retry(h) ==
  /\ row[h] \in {"failed", "waiting"} /\ rulings[h] = 0
  /\ row' = [row EXCEPT ![h] = "pending"]
  /\ UNCHANGED <<head, approved, marker, tokens, send, pc, rulings>>

Next ==
  \/ Push \/ Approve \/ LeaseEnds
  \/ \E s \in Sender : \/ Wake(s) \/ WakeFails(s) \/ Settle(s) \/ SenderDies(s)
                       \/ \E h \in Head : Reserve(s, h) \/ RetryPending(s, h) \/ Escalate(s, h)
  \/ \E h \in Head : \/ ClaimTurn(h) \/ CheckTurn(h) \/ BreachStart(h) \/ RecordRuling(h)
                     \/ Complete(h) \/ BreachResume(h) \/ WorkerDies(h) \/ Recover(h)
                     \/ Reconcile(h) \/ Retry(h)

\* The watchdog retries a pending delivery, and workers run what is pending.
Fairness ==
  /\ WF_vars(LeaseEnds)
  /\ \A s \in Sender : /\ WF_vars(\E h \in Head : RetryPending(s, h))
                        /\ SF_vars(Wake(s)) /\ WF_vars(Settle(s))
  /\ \A h \in Head : WF_vars(ClaimTurn(h)) /\ WF_vars(CheckTurn(h)) /\ WF_vars(BreachStart(h))

Spec == Init /\ [][Next]_vars /\ Fairness

-----------------------------------------------------------------------------
\* A delayed delivery never replaces the marker of a newer head by that of an older one.
MarkerForward == [][marker'.head >= marker.head]_vars

\* While a turn is ruling at the live head its marker says so, whatever the answers of late
\* deliveries and the retries of the watchdog do: nobody else may take the ruling up.
RulingIsMarked ==
  \A h \in Head : pc[h] = "started" /\ row[h] = "working" /\ head = h
                    => marker.head = h /\ marker.status = "adjudicating"

\* A head gets one ruling, over all its deliveries, retries and re-arms; and once it has one,
\* its marker is not offered again.
OneRuling ==
  \A h \in Head : /\ rulings[h] <= 1
                  /\ rulings[h] = 1 /\ marker.head = h => marker.status = "adjudicating"

\* A breached head has one ruling at most, its marker says so while the ruling runs, and the
\* marker never goes back to an older head.
RulingsMarked == [](RulingIsMarked /\ OneRuling) /\ MarkerForward

\* A breach that stays live gets a turn, although senders die and deliveries fail: bounded by
\* the reservations that are counted.
Waits(h) == marker.head = h /\ head = h /\ row[h] = "none" /\ tokens < MaxToken /\ approved = {}
BreachGetsTurn == \A h \in Head : []<>~Waits(h)

\* What breach_resume says: a turn that failed before a ruling can start again.
RetryCanStart ==
  \A h \in Head : row[h] = "pending" /\ rulings[h] = 0 /\ marker.head = h /\ pc[h] # "ended"
                    => marker.status # "adjudicating"
=============================================================================
