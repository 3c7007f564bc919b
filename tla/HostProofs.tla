----------------------------- MODULE HostProofs -----------------------------
(***************************************************************************)
(* Proofs about what the host does beside the turns (MCHost), for any      *)
(* numbers of actors, heads, routes, deliveries and faults: the delivery   *)
(* of a breach, a backup put back, the route registry and the rename of a  *)
(* loop, the alerts of overlapping sweeps, and the installation.           *)
(***************************************************************************)
EXTENDS MCHost, TLAPS, WellFoundedInduction

-----------------------------------------------------------------------------
(* Breach.  The marker and the adjudicator's turn are in two stores, so    *)
(* what the marker says of a turn is not by itself inductive: the          *)
(* invariant says which turns have taken their head up (Taken), that such  *)
(* a head is not ahead of GitHub's, and that its marker can only have been *)
(* replaced by that of a newer head.                                       *)

\* The head has been ruled on or is being ruled on.
Taken(h) == rulings[h] > 0 \/ (pc[h] = "started" /\ row[h] = "working")

\* No marker is of a head that GitHub has not had.
MarkerBehind == marker.head <= head
RuledOnce == \A h \in Head : rulings[h] <= 1
TakenBehind == \A h \in Head : Taken(h) => h <= head
\* Only a newer head's marker takes the place of the marker of a head that was taken up,
TakenLive == \A h \in Head : Taken(h) /\ head = h => marker.head = h
\* and until then it is not offered again.
TakenMarked == \A h \in Head : Taken(h) /\ marker.head = h => marker.status = "adjudicating"

TakenInv == MarkerBehind /\ RuledOnce /\ TakenBehind /\ TakenLive /\ TakenMarked

-----------------------------------------------------------------------------
Marker == [head : 0..MaxHead, status : Status, token : Nat, leased : BOOLEAN]
Sending == [at : {"idle", "reserved", "sent", "unsent"}, head : 0..MaxHead, token : Nat]
Step == {"out", "claimed", "checked", "started", "ended", "dead"}

\* A delivery, and the lease of one: the types of the marker and of the sender.
LEMMA DeliveryTypes ==
  ASSUME TypeOK, LeaseEnds \/ \E s \in Sender : \/ Wake(s) \/ WakeFails(s) \/ Settle(s) \/ SenderDies(s)
                                                \/ \E h \in Head : Reserve(s, h)
  PROVE  TypeOK'
<1> USE DEF TypeOK
<1>0. /\ marker \in Marker /\ tokens \in Nat /\ send \in [Sender -> Sending]
      /\ Idle \in Sending
  BY BreachAssumption DEF Marker, Sending, Idle
<1>1. CASE LeaseEnds
  <2>1. marker' \in Marker
    BY <1>0, <1>1 DEF LeaseEnds, Marker
  <2> QED BY <1>1, <2>1 DEF LeaseEnds, turn, Marker
<1>2. ASSUME NEW s \in Sender, Wake(s) PROVE TypeOK'
  <2>1. row' \in [Head -> RowState]
    BY <1>2 DEF Wake, RowState
  <2>2. pc' \in [Head -> Step]
    BY <1>2, <2>1 DEF Wake, Step
  <2>3. send' \in [Sender -> Sending]
    BY <1>0, <1>2 DEF Wake, Sending
  <2> QED BY <1>2, <2>1, <2>2, <2>3 DEF Wake, Sending, Step
<1>3. ASSUME NEW s \in Sender, WakeFails(s) \/ SenderDies(s) PROVE TypeOK'
  <2>1. send' \in [Sender -> Sending]
    BY <1>0, <1>3 DEF WakeFails, SenderDies, Sending
  <2> QED BY <1>3, <2>1 DEF WakeFails, SenderDies, turn, Sending
<1>4. ASSUME NEW s \in Sender, Settle(s) PROVE TypeOK'
  <2>1. send' \in [Sender -> Sending]
    BY <1>0, <1>4, Zenon DEF Settle
  <2>2. CASE UNCHANGED marker
    BY <2>1, <2>2, <1>4, Zenon DEF Settle, turn, Sending
  <2>3. CASE \E t \in Status : marker' = [marker EXCEPT !.token = 0, !.leased = FALSE, !.status = t]
    <3>1. PICK t \in Status : marker' = [marker EXCEPT !.token = 0, !.leased = FALSE, !.status = t]
      BY <2>3, Zenon
    <3>2. marker' \in Marker
      BY <1>0, <3>1 DEF Marker
    <3> QED BY <2>1, <3>2, <1>4, Zenon DEF Settle, turn, Sending, Marker
  <2>4. marker.status \in Status /\ "awaiting-adjudication" \in Status
    BY <1>0 DEF Marker, Status
  <2> QED BY <1>4, <2>2, <2>3, <2>4, Zenon DEF Settle
<1>5. ASSUME NEW s \in Sender, NEW h \in Head, Reserve(s, h) PROVE TypeOK'
  <2>1. send' \in [Sender -> Sending]
    BY <1>0, <1>5 DEF Reserve, Sending, Head
  <2>2. marker' \in Marker /\ tokens' \in Nat
    BY <1>0, <1>5 DEF Reserve, Marker, Status, Head
  <2> QED BY <1>5, <2>1, <2>2 DEF Reserve, turn, Sending, Marker
<1> QED BY <1>1, <1>2, <1>3, <1>4, <1>5

\* The worker's steps and the operator's: the types of the row, the worker and its rulings.
LEMMA WorkerTypes ==
  ASSUME TypeOK, NEW h \in Head,
         \/ ClaimTurn(h) \/ CheckTurn(h) \/ BreachStart(h) \/ RecordRuling(h) \/ Complete(h)
         \/ BreachResume(h) \/ WorkerDies(h) \/ Recover(h) \/ Reconcile(h) \/ Retry(h)
  PROVE  TypeOK'
<1> USE DEF TypeOK
<1>0. marker \in Marker
  BY DEF Marker
<1>1. CASE ClaimTurn(h) \/ CheckTurn(h)
  <2>1. row' \in [Head -> RowState] /\ pc' \in [Head -> Step]
    BY <1>1 DEF ClaimTurn, CheckTurn, RowState, Step
  <2> QED BY <1>1, <2>1 DEF ClaimTurn, CheckTurn, Step
<1>2. CASE BreachStart(h)
  <2>1. row' \in [Head -> RowState] /\ pc' \in [Head -> Step]
    BY <1>2 DEF BreachStart, RowState, Step
  <2>2. marker' \in Marker
    <3>1. CASE UNCHANGED marker
      BY <1>0, <3>1
    <3>2. CASE marker' = [marker EXCEPT !.status = "adjudicating", !.token = 0, !.leased = FALSE]
      BY <1>0, <3>2 DEF Marker, Status
    <3> QED BY <1>2, <3>1, <3>2 DEF BreachStart
  <2> QED BY <1>2, <2>1, <2>2 DEF BreachStart, Step, Marker
<1>3. CASE RecordRuling(h)
  BY <1>3 DEF RecordRuling
<1>4. CASE Complete(h)
  <2>1. row' \in [Head -> RowState] /\ pc' \in [Head -> Step]
    BY <1>4 DEF Complete, RowState, Step
  <2> QED BY <1>4, <2>1 DEF Complete, Step
<1>5. CASE BreachResume(h)
  <2>1. marker' \in Marker
    BY <1>0, <1>5 DEF BreachResume, Marker, Status
  <2> QED BY <1>5, <2>1 DEF BreachResume, Marker
<1>6. CASE WorkerDies(h)
  BY <1>6 DEF WorkerDies
<1>7. CASE Recover(h) \/ Reconcile(h) \/ Retry(h)
  <2>1. row' \in [Head -> RowState]
    BY <1>7 DEF Recover, Reconcile, Retry, RowState
  <2> QED BY <1>7, <2>1 DEF Recover, Reconcile, Retry
<1> QED BY <1>1, <1>2, <1>3, <1>4, <1>5, <1>6, <1>7

LEMMA TypeStep == TypeOK /\ [Next]_vars => TypeOK'
<1> SUFFICES ASSUME TypeOK, [Next]_vars PROVE TypeOK'
  OBVIOUS
<1>1. CASE Push
  <2>1. head' \in Head
    BY <1>1, BreachAssumption DEF Push, TypeOK, Head
  <2> QED BY <1>1, <2>1 DEF Push, TypeOK, turn
<1>2. CASE Approve
  <2>1. approved' \subseteq Head
    BY <1>2 DEF Approve, TypeOK
  <2> QED BY <1>2, <2>1 DEF Approve, TypeOK, turn
<1>3. CASE UNCHANGED vars
  BY <1>3 DEF vars, TypeOK
<1> QED BY <1>1, <1>2, <1>3, DeliveryTypes, WorkerTypes DEF Next, RetryPending, Escalate

LEMMA InitType == Init => TypeOK
<1> SUFFICES ASSUME Init PROVE TypeOK
  OBVIOUS
<1>1. marker \in [head : 0..MaxHead, status : Status, token : Nat, leased : BOOLEAN]
  BY BreachAssumption DEF Init, NoMarker, Status
<1>2. Idle \in [at : {"idle", "reserved", "sent", "unsent"}, head : 0..MaxHead, token : Nat]
  BY BreachAssumption DEF Idle
<1> QED BY <1>1, <1>2, BreachAssumption DEF Init, TypeOK, Head, RowState

\* Every variable keeps its type, with counters of attempts and rulings that nothing bounds.
THEOREM TypeCorrect == Spec => []TypeOK
BY InitType, TypeStep, PTL DEF Spec

-----------------------------------------------------------------------------
\* No step takes a head up but the launch of its turn, which marks it, and what is recorded
\* of it later; so a step that keeps head and marker keeps the invariant.
LEMMA QuietStep ==
  ASSUME TypeOK, TakenInv, UNCHANGED <<head, marker>>,
         \A h \in Head : rulings'[h] <= 1, \A h \in Head : Taken(h)' => Taken(h)
  PROVE  TakenInv'
BY DEF TakenInv, MarkerBehind, RuledOnce, TakenBehind, TakenLive, TakenMarked

LEMMA TakenStep == TypeOK /\ TypeOK' /\ TakenInv /\ [Next]_vars => TakenInv'
<1> SUFFICES ASSUME TypeOK, TypeOK', TakenInv, [Next]_vars PROVE TakenInv'
  OBVIOUS
<1>0. \A h \in Head : rulings[h] \in Nat /\ rulings[h] <= 1 /\ rulings'[h] \in Nat
  BY DEF TypeOK, TakenInv, RuledOnce
\* The pull request moves on: the new head is nobody's yet.
<1>1. CASE Push
  BY <1>1 DEF Push, TypeOK, Head, turn, TakenInv, MarkerBehind, RuledOnce, TakenBehind, TakenLive,
              TakenMarked, Taken
<1>2. CASE Approve
  BY <1>2, <1>0, QuietStep DEF Approve, turn, Taken
<1>3. CASE LeaseEnds
  BY <1>3 DEF LeaseEnds, TypeOK, turn, TakenInv, MarkerBehind, RuledOnce, TakenBehind, TakenLive,
              TakenMarked, Taken
\* A head that was taken up is not delivered again: it is its marker's, which is adjudicating.
<1>4. ASSUME NEW s \in Sender, NEW h \in Head, Reserve(s, h) PROVE TakenInv'
  <2>1. h = head /\ marker'.head = h /\ UNCHANGED <<head, rulings, pc, row>>
    BY <1>4 DEF Reserve, turn, TypeOK
  <2>2. ~Taken(h)
    BY <1>4, <2>1 DEF Reserve, Deliverable, TakenInv, TakenLive, TakenMarked
  <2> QED
    BY <2>1, <2>2 DEF TakenInv, MarkerBehind, RuledOnce, TakenBehind, TakenLive, TakenMarked, Taken,
                      TypeOK, Head
\* A turn that is made pending is not one that has taken its head up.
<1>5. ASSUME NEW s \in Sender, Wake(s) PROVE TakenInv'
  <2>1. \A h \in Head : row'[h] # row[h] => row'[h] = "pending"
    BY <1>5 DEF Wake, TypeOK
  <2>2. \A h \in Head : pc'[h] # pc[h] => pc'[h] = "out"
    BY <1>5 DEF Wake, TypeOK
  <2>3. \A h \in Head : Taken(h)' => Taken(h)
    BY <1>5, <2>1, <2>2 DEF Wake, Taken
  <2> QED BY <1>5, <1>0, <2>3, QuietStep DEF Wake
<1>6. ASSUME NEW s \in Sender, WakeFails(s) \/ SenderDies(s) PROVE TakenInv'
  BY <1>6, <1>0, QuietStep DEF WakeFails, SenderDies, turn, Taken
<1>7. ASSUME NEW s \in Sender, Settle(s) PROVE TakenInv'
  <2>1. marker'.head = marker.head /\ (marker.status = "adjudicating" => marker'.status = "adjudicating")
    BY <1>7 DEF Settle, TypeOK
  <2> QED
    BY <1>7, <2>1 DEF Settle, turn, TakenInv, MarkerBehind, RuledOnce, TakenBehind, TakenLive,
                      TakenMarked, Taken
<1>8. ASSUME NEW h \in Head, ClaimTurn(h) \/ CheckTurn(h) PROVE TakenInv'
  <2>1. \A g \in Head : Taken(g)' => Taken(g)
    BY <1>8 DEF ClaimTurn, CheckTurn, Taken, TypeOK
  <2> QED BY <1>8, <1>0, <2>1, QuietStep DEF ClaimTurn, CheckTurn
\* The launch takes its head up under the lock of the marker, and only when it is the marker's.
<1>9. ASSUME NEW h \in Head, BreachStart(h) PROVE TakenInv'
  <2>1. CASE marker.head = h /\ marker.status # "adjudicating"
    <3>1. marker'.head = h /\ marker'.status = "adjudicating" /\ UNCHANGED <<head, rulings, row>>
      BY <1>9, <2>1 DEF BreachStart, TypeOK
    <3>2. \A g \in Head : g # h => (Taken(g)' => Taken(g))
      BY <1>9, <2>1 DEF BreachStart, Taken, TypeOK
    <3>3. h <= head
      BY <2>1 DEF TakenInv, MarkerBehind
    <3> QED
      BY <2>1, <3>1, <3>2, <3>3, <1>0
      DEF TakenInv, MarkerBehind, RuledOnce, TakenBehind, TakenLive, TakenMarked
  <2>2. CASE ~(marker.head = h /\ marker.status # "adjudicating")
    <3>1. \A g \in Head : Taken(g)' => Taken(g)
      BY <1>9, <2>2 DEF BreachStart, Taken, TypeOK
    <3> QED BY <1>9, <2>2, <1>0, <3>1, QuietStep DEF BreachStart
  <2> QED BY <2>1, <2>2
<1>10. ASSUME NEW h \in Head, RecordRuling(h) PROVE TakenInv'
  <2>1. \A g \in Head : Taken(g)' => Taken(g)
    BY <1>10 DEF RecordRuling, Taken, TypeOK
  <2>2. \A g \in Head : rulings'[g] <= 1
    BY <1>10, <1>0 DEF RecordRuling, TypeOK
  <2> QED BY <1>10, <2>1, <2>2, QuietStep DEF RecordRuling
<1>11. ASSUME NEW h \in Head, Complete(h) PROVE TakenInv'
  <2>1. \A g \in Head : Taken(g)' => Taken(g)
    BY <1>11 DEF Complete, Taken, TypeOK
  <2> QED BY <1>11, <1>0, <2>1, QuietStep DEF Complete
\* The marker is handed back only of a turn that has ended without a ruling.
<1>12. ASSUME NEW h \in Head, BreachResume(h) PROVE TakenInv'
  <2>1. CASE rulings[h] = 0 /\ marker.head = h /\ marker.status = "adjudicating"
    <3>1. ~Taken(h) /\ marker'.head = h /\ UNCHANGED <<head, rulings, row>>
      BY <1>12, <2>1 DEF BreachResume, Taken, TypeOK
    <3>2. \A g \in Head : Taken(g)' => Taken(g)
      BY <1>12 DEF BreachResume, Taken, TypeOK
    <3> QED
      BY <2>1, <3>1, <3>2, <1>0
      DEF TakenInv, MarkerBehind, RuledOnce, TakenBehind, TakenLive, TakenMarked
  <2>2. CASE ~(rulings[h] = 0 /\ marker.head = h /\ marker.status = "adjudicating")
    <3>1. \A g \in Head : Taken(g)' => Taken(g)
      BY <1>12 DEF BreachResume, Taken, TypeOK
    <3> QED BY <1>12, <2>2, <1>0, <3>1, QuietStep DEF BreachResume
  <2> QED BY <2>1, <2>2
<1>13. ASSUME NEW h \in Head, WorkerDies(h) PROVE TakenInv'
  <2>1. \A g \in Head : Taken(g)' => Taken(g)
    BY <1>13 DEF WorkerDies, Taken, TypeOK
  <2> QED BY <1>13, <1>0, <2>1, QuietStep DEF WorkerDies
<1>14. ASSUME NEW h \in Head, Recover(h) \/ Reconcile(h) \/ Retry(h) PROVE TakenInv'
  <2>1. \A g \in Head : Taken(g)' => Taken(g)
    BY <1>14 DEF Recover, Reconcile, Retry, Taken, TypeOK
  <2> QED BY <1>14, <1>0, <2>1, QuietStep DEF Recover, Reconcile, Retry
<1>15. CASE UNCHANGED vars
  BY <1>15, <1>0, QuietStep DEF vars, Taken
<1> QED
  BY <1>1, <1>2, <1>3, <1>4, <1>5, <1>6, <1>7, <1>8, <1>9, <1>10, <1>11, <1>12, <1>13, <1>14, <1>15
  DEF Next, RetryPending, Escalate

\* Only a reservation replaces the head of a marker, by the live one.
LEMMA ForwardStep == TypeOK /\ TakenInv /\ [Next]_vars => [marker'.head >= marker.head]_vars
<1> SUFFICES ASSUME TypeOK, TakenInv, Next PROVE marker'.head >= marker.head
  OBVIOUS
<1>1. marker.head \in Nat /\ marker.head <= head /\ head \in Nat
  BY BreachAssumption DEF TypeOK, TakenInv, MarkerBehind, Head
<1>2. ASSUME NEW s \in Sender, NEW h \in Head, Reserve(s, h) PROVE marker'.head = head
  BY <1>2 DEF Reserve
<1>3. marker'.head = marker.head \/ marker'.head = head
  <2>1. CASE \E s \in Sender : Settle(s)
    BY <2>1 DEF Settle, TypeOK
  <2>2. CASE LeaseEnds
    BY <2>2 DEF LeaseEnds, TypeOK
  <2>3. CASE \E h \in Head : BreachStart(h) \/ BreachResume(h)
    BY <2>3 DEF BreachStart, BreachResume, TypeOK
  <2> QED
    BY <1>2, <2>1, <2>2, <2>3
    DEF Next, RetryPending, Escalate, Push, Approve, Wake, WakeFails, SenderDies, ClaimTurn, CheckTurn,
        RecordRuling, Complete, WorkerDies, Recover, Reconcile, Retry
<1> QED BY <1>1, <1>3

LEMMA TakenMeans == TypeOK /\ TakenInv => RulingIsMarked /\ OneRuling
BY DEF TypeOK, TakenInv, RuledOnce, TakenLive, TakenMarked, Taken, RulingIsMarked, OneRuling

\* Whatever deliveries, retries, deaths and answers come in whatever order, a head is ruled on
\* at most once, its marker says so from the launch of the ruling turn as long as the head is
\* live, a ruled head is not offered again, and no late delivery moves the marker back.
THEOREM RulingsMarkedHolds == PartSpec => RulingsMarked
<1>1. PartInit => TypeOK /\ TakenInv
  BY InitType
  DEF PartInit, Init, NoMarker, Head, TakenInv, MarkerBehind, RuledOnce, TakenBehind, TakenLive, TakenMarked, Taken
<1>2. [PartNext]_partVars => [Next]_vars
  BY DEF PartNext, partVars
<1>3. PartSpec => [](TypeOK /\ TakenInv)
  BY <1>1, <1>2, TypeStep, TakenStep, PTL DEF PartSpec
<1>4. PartSpec => [](RulingIsMarked /\ OneRuling)
  BY <1>3, TakenMeans, PTL
<1>5. PartSpec => MarkerForward
  BY <1>2, <1>3, ForwardStep, PTL DEF PartSpec, MarkerForward
<1> QED BY <1>4, <1>5, PTL DEF RulingsMarked

-----------------------------------------------------------------------------
(* A backup put back (Backup).  A restore that died leaves the marker, so   *)
(* from its first file to its last nothing but a living worker goes on, and *)
(* the check of the next restore, which is all that could take the marker   *)
(* away, finds no run in flight and the route as it was: neither can have   *)
(* changed while the half was there.                                        *)

RowStates == {"none", "pending", "active", "done"}
Restoring == [at : {"out", "check", "queue", "ledger", "routes", "cron"}, force : BOOLEAN, exit : {-1, 0, 1, 2}]
Taking == [at : {"out", "listed", "snapped", "done"}, waits : SUBSET Turn]
Kept == [queue : {"none"} \cup SUBSET Turn, rows : {"none"} \cup [Turn -> RowStates],
         route : {"none", "ours", "theirs"}, job : {"none", "first", "second"}]

RestoreTyped ==
  /\ queue \subseteq Turn /\ rows \in [Turn -> RowStates] /\ run \in Restoring /\ taking \in Taking
  /\ archive \in Kept /\ backupRoute \in {"none", "ours", "theirs"} /\ job \in {"none", "first", "second"}
  /\ taking.at \in {"snapped", "done"} => archive.rows \in [Turn -> RowStates]
  /\ taking.at = "done" => archive.queue \subseteq Turn
\* Who passed the look at the marker has acted; a living worker's row is active.
RestoreWorkers == actor = Restore!Idle /\ \A t \in working : t \in Turn /\ rows[t] = "active"
\* A restore under way has its marker,
RestoreHeld == run.at # "out" => backupMarker /\ run.force /\ run.exit = -1 /\ taking.at = "done"
\* and so has a half; its check has passed, and would again.
RestoreHalf == half => backupMarker /\ taking.at = "done" /\ ~Restore!InFlight /\ Restore!Safe
RestoreChecked ==
  /\ run.at \in {"queue", "ledger"} => ~Restore!InFlight
  /\ run.at \in {"queue", "ledger", "routes"} => Restore!Safe
\* What has been put is the archive's, and no worker is left to change it.
RestorePut ==
  /\ run.at \in {"ledger", "routes", "cron"} => queue = archive.queue
  /\ run.at \in {"routes", "cron"} => rows = archive.rows /\ working = {} /\ ~half
RestoreInv == RestoreTyped /\ RestoreWorkers /\ RestoreHeld /\ RestoreHalf /\ RestoreChecked /\ RestorePut

LEMMA RestoreInit == Restore!Init => RestoreInv
BY DEF Restore!Init, Restore!None, Restore!Idle, Restore!Out, RestoreInv, RestoreTyped, RestoreWorkers, RestoreHeld,
       RestoreHalf, RestoreChecked, RestorePut, RowStates, Restoring, Taking, Kept

\* The install at work: with a marker only a living worker ends its turn.
LEMMA RestoreActs == RestoreInv /\ Restore!Act => RestoreInv'
<1> SUFFICES ASSUME RestoreInv, Restore!Act PROVE RestoreInv'
  OBVIOUS
<1>1. PICK do \in Restore!Doing, t \in Turn :
        /\ Restore!MayAct(do, t) /\ (~backupMarker \/ do = "finish") /\ Restore!Do(do, t)
  BY DEF Restore!Act, Restore!Paused
<1>2. /\ UNCHANGED <<backupRoute, job, archive, backupMarker, run, half, actor, deaths>>
      /\ queue' \subseteq Turn /\ taking' \in Taking /\ taking'.at = taking.at
  BY <1>1 DEF Restore!Act, Restore!Do, Restore!Doing, RestoreInv, RestoreTyped, Taking
<1>3. rows' \in [Turn -> RowStates]
  BY <1>1 DEF Restore!Do, Restore!Doing, RestoreInv, RestoreTyped, RowStates
<1>4. RestoreTyped'
  BY <1>2, <1>3 DEF RestoreInv, RestoreTyped
<1>5. RestoreWorkers'
  BY <1>1, <1>2 DEF Restore!MayAct, Restore!Do, Restore!Doing, RestoreInv, RestoreTyped, RestoreWorkers, Restore!None,
                    Restore!Idle
<1>6. CASE backupMarker
  <2>1. do = "finish" /\ t \in working /\ rows[t] = "active" /\ Restore!InFlight
    BY <1>1, <1>6 DEF Restore!MayAct, RestoreInv, RestoreWorkers, Restore!InFlight
  <2>2. ~half /\ run.at \in {"out", "check"}
    BY <2>1 DEF RestoreInv, RestoreTyped, RestoreHalf, RestoreChecked, RestorePut, Restoring
  <2> QED
    BY <1>2, <1>4, <1>5, <2>2 DEF RestoreInv, RestoreHeld, RestoreHalf, RestoreChecked, RestorePut
<1>7. CASE ~backupMarker
  <2>1. ~half /\ run.at = "out"
    BY <1>7 DEF RestoreInv, RestoreHalf, RestoreHeld
  <2> QED
    BY <1>2, <1>4, <1>5, <2>1 DEF RestoreInv, RestoreHeld, RestoreHalf, RestoreChecked, RestorePut
<1> QED
  BY <1>6, <1>7

\* The backup is taken before any restore, which puts back one that is whole.
LEMMA RestoreTakes ==
  ASSUME RestoreInv, Restore!List \/ Restore!Snapshot \/ Restore!Copy PROVE RestoreInv'
<1>1. /\ UNCHANGED <<queue, rows, backupRoute, job, backupMarker, run, half, actor, working, deaths>>
      /\ taking.at # "done"
  BY DEF Restore!List, Restore!Snapshot, Restore!Copy, Restore!install
<1>2. run.at = "out" /\ ~half
  BY <1>1 DEF RestoreInv, RestoreHeld, RestoreHalf
<1>3. /\ taking' \in Taking /\ archive' \in Kept
      /\ taking'.at \in {"snapped", "done"} => archive'.rows \in [Turn -> RowStates]
      /\ taking'.at = "done" => archive'.queue \subseteq Turn
  <2>1. CASE Restore!List
    BY <2>1 DEF Restore!List, RestoreInv, RestoreTyped, Taking, Kept
  <2>2. CASE Restore!Snapshot
    BY <2>2 DEF Restore!Snapshot, RestoreInv, RestoreTyped, Taking, Kept
  <2>3. CASE Restore!Copy
    BY <2>3 DEF Restore!Copy, RestoreInv, RestoreTyped, Taking, Kept
  <2> QED
    BY <2>1, <2>2, <2>3
<1> QED
  BY <1>1, <1>2, <1>3
  DEF RestoreInv, RestoreTyped, RestoreWorkers, RestoreHeld, RestoreHalf, RestoreChecked, RestorePut

\* What a step of the restore puts in its own place.
RestoreMove(place) == run.at # "out" /\ run' = [run EXCEPT !.at = place]
LEMMA RestoreMoves ==
  ASSUME RestoreInv, NEW place \in {"out", "check", "queue", "ledger", "routes", "cron"}, RestoreMove(place)
  PROVE  run' \in Restoring /\ run'.at = place /\ run'.force = run.force /\ run'.exit = run.exit
BY DEF RestoreMove, RestoreInv, RestoreTyped, Restoring

LEMMA RestoreEnds ==
  ASSUME RestoreInv, NEW code \in {-1, 0, 1, 2}, Restore!Exit(code)
  PROVE  run' \in Restoring /\ run'.at = "out" /\ run'.exit = code /\ ~backupMarker'
BY DEF Restore!Exit, RestoreInv, RestoreTyped, Restoring

LEMMA RestoreStep == RestoreInv /\ [Restore!Next]_backupVars => RestoreInv'
<1> SUFFICES ASSUME RestoreInv, [Restore!Next]_backupVars PROVE RestoreInv'
  OBVIOUS
<1> USE DEF RestoreInv
<1>1. CASE Restore!Look \/ Restore!ActLate \/ Restore!Raise \/ Restore!Migrate
  BY <1>1 DEF Restore!Look, Restore!ActLate, Restore!Raise, Restore!Migrate, RestoreWorkers
<1>2. CASE Restore!Reschedule \/ UNCHANGED backupVars
  BY <1>2
  DEF Restore!Reschedule, backupVars, Restore!None, RestoreTyped, RestoreWorkers, RestoreHeld, RestoreHalf,
      RestoreChecked, RestorePut, Restore!InFlight, Restore!Safe
\* Another takes the route's name only while there is no restore and no half of one.
<1>3. CASE Restore!Take
  <2>1. run.at = "out" /\ ~half
    BY <1>3 DEF Restore!Take
  <2> QED
    BY <1>3, <2>1
    DEF Restore!Take, Restore!None, RestoreTyped, RestoreWorkers, RestoreHeld, RestoreHalf, RestoreChecked,
        RestorePut, Restore!InFlight
<1>4. CASE Restore!Begin
  <2>1. run' = [at |-> "check", force |-> TRUE, exit |-> -1] /\ backupMarker' /\ taking.at = "done"
    BY <1>4 DEF Restore!Begin
  <2>2. run' \in Restoring /\ run'.at = "check" /\ run'.force /\ run'.exit = -1
    BY <2>1 DEF Restoring
  <2> QED
    BY <1>4, <2>1, <2>2
    DEF Restore!Begin, Restore!install, RestoreTyped, RestoreWorkers, RestoreHeld, RestoreHalf, RestoreChecked,
        RestorePut, Restore!InFlight, Restore!Safe
<1>5. CASE Restore!Check
  <2>0. UNCHANGED <<queue, rows, backupRoute, job, archive, taking, half, actor, working, deaths>> /\ run.at = "check"
    BY <1>5 DEF Restore!Check, Restore!install
  <2>1. CASE Restore!InFlight \/ ~run.force \/ ~Restore!Safe
    <3>1. ~half /\ Restore!Exit(2)
      BY <1>5, <2>0, <2>1 DEF Restore!Check, RestoreHalf, RestoreHeld
    <3> QED
      BY <2>0, <3>1, RestoreEnds
      DEF RestoreTyped, RestoreWorkers, RestoreHeld, RestoreHalf, RestoreChecked, RestorePut
  <2>2. CASE ~(Restore!InFlight \/ ~run.force \/ ~Restore!Safe)
    <3>1. RestoreMove("queue") /\ backupMarker' = backupMarker
      BY <1>5, <2>2 DEF Restore!Check, RestoreMove, Restore!At
    <3>2. ~Restore!InFlight' /\ Restore!Safe'
      BY <2>0, <2>2 DEF Restore!InFlight, Restore!Safe
    <3> QED
      BY <2>0, <3>1, <3>2, RestoreMoves
      DEF RestoreTyped, RestoreWorkers, RestoreHeld, RestoreHalf, RestoreChecked, RestorePut
  <2> QED
    BY <2>1, <2>2
<1>6. CASE Restore!PutQueue
  <2>1. /\ RestoreMove("ledger") /\ queue' = archive.queue /\ run.at = "queue"
        /\ UNCHANGED <<rows, backupRoute, job, archive, taking, backupMarker, actor, working, deaths>>
    BY <1>6 DEF Restore!PutQueue, RestoreMove, Restore!At
  <2>2. ~Restore!InFlight' /\ Restore!Safe'
    BY <2>1 DEF RestoreChecked, Restore!InFlight, Restore!Safe
  <2> QED
    BY <2>1, <2>2, RestoreMoves
    DEF RestoreTyped, RestoreWorkers, RestoreHeld, RestoreHalf, RestoreChecked, RestorePut
<1>7. CASE Restore!PutLedger
  <2>1. /\ RestoreMove("routes") /\ rows' = archive.rows /\ run.at = "ledger" /\ ~half' /\ Restore!Safe'
        /\ UNCHANGED <<queue, backupRoute, job, archive, taking, backupMarker, actor, working, deaths>>
    BY <1>7 DEF Restore!PutLedger, RestoreMove, Restore!At, RestoreChecked, Restore!Safe
  <2>2. working = {}
    BY <2>1 DEF RestoreChecked, RestoreWorkers, Restore!InFlight
  <2> QED
    BY <2>1, <2>2, RestoreMoves
    DEF RestoreTyped, RestoreWorkers, RestoreHeld, RestoreHalf, RestoreChecked, RestorePut
<1>8. CASE Restore!PutRoutes
  <2>1. /\ RestoreMove("cron") /\ run.at = "routes" /\ backupRoute' \in {"none", "ours", "theirs"}
        /\ UNCHANGED <<queue, rows, job, archive, taking, backupMarker, half, actor, working, deaths>>
    BY <1>8 DEF Restore!PutRoutes, RestoreMove, Restore!At, RestoreTyped, Kept
  <2> QED
    BY <2>1, RestoreMoves
    DEF RestoreTyped, RestoreWorkers, RestoreHeld, RestoreHalf, RestoreChecked, RestorePut
<1>9. CASE Restore!PutCron
  <2>1. /\ run.at = "cron" /\ job' \in {"none", "first", "second"}
        /\ UNCHANGED <<queue, rows, backupRoute, archive, taking, half, actor, working, deaths>>
        /\ \E code \in {0, 1} : Restore!Exit(code)
    BY <1>9 DEF Restore!PutCron, RestoreTyped, Kept, Restore!None
  <2> QED
    BY <2>1, RestoreEnds
    DEF RestoreTyped, RestoreWorkers, RestoreHeld, RestoreHalf, RestoreChecked, RestorePut
<1>10. CASE Restore!Die
  <2>1. /\ RestoreMove("out")
        /\ UNCHANGED <<queue, rows, backupRoute, job, archive, taking, backupMarker, half, actor, working>>
    BY <1>10 DEF Restore!Die, RestoreMove, Restore!At, Restore!install
  <2> QED
    BY <2>1, RestoreMoves
    DEF RestoreTyped, RestoreWorkers, RestoreHeld, RestoreHalf, RestoreChecked, RestorePut, Restore!InFlight, Restore!Safe
<1> QED
  BY <1>1, <1>2, <1>3, <1>4, <1>5, <1>6, <1>7, <1>8, <1>9, <1>10, RestoreActs, RestoreTakes
  DEF Restore!Next, Restore!Restore

\* What the last step of a restore finds, and what the ledger is when it is replaced.
LEMMA RestoreMeans ==
  ASSUME RestoreInv, [Restore!Next]_backupVars
  PROVE  /\ Restore!AsArchived /\ Restore!Untorn
         /\ backupRoute = "theirs" => backupRoute' = "theirs"
<1> USE DEF RestoreInv
<1>1. run.at = "ledger" => ~Restore!InFlight
  BY DEF RestoreChecked
<1>2. ASSUME Restore!Ended PROVE queue' = archive.queue /\ rows' = archive.rows
  <2>1. run.at # "out" /\ run'.at = "out" /\ run'.exit = 0 /\ run.exit = -1 /\ run \in Restoring
    BY <1>2 DEF Restore!Ended, RestoreHeld, RestoreTyped
  <2>2. Restore!PutCron
    <3>1. CASE Restore!Check
      BY <2>1, <3>1, RestoreEnds DEF Restore!Check, Restore!At, Restoring
    <3>2. CASE Restore!Die
      BY <2>1, <3>2 DEF Restore!Die, Restore!At, Restoring
    <3>3. CASE Restore!PutQueue \/ Restore!PutLedger \/ Restore!PutRoutes
      BY <2>1, <3>3 DEF Restore!PutQueue, Restore!PutLedger, Restore!PutRoutes, Restore!At, Restoring
    <3>4. run' # run
      BY <2>1
    <3>5. ~(Restore!Begin \/ Restore!Raise)
      BY <2>1 DEF Restore!Begin, Restore!Raise
    <3> QED
      BY <3>1, <3>2, <3>3, <3>4, <3>5
      DEF Restore!Next, Restore!Restore, Restore!Act, Restore!Look, Restore!ActLate, Restore!Reschedule, Restore!Take,
          Restore!List, Restore!Snapshot, Restore!Copy, Restore!Migrate, backupVars
  <2> QED
    BY <2>2 DEF Restore!PutCron, RestorePut
<1>3. backupRoute = "theirs" => backupRoute' = "theirs"
  BY DEF Restore!Next, Restore!Restore, Restore!Act, Restore!Look, Restore!ActLate, Restore!Reschedule, Restore!Take,
         Restore!List, Restore!Snapshot, Restore!Copy, Restore!Migrate, Restore!Die, Restore!Begin, Restore!Check,
         Restore!PutQueue, Restore!PutLedger, Restore!PutRoutes, Restore!PutCron, Restore!Raise, Restore!install,
         RestoreChecked, Restore!Safe, Restore!None, backupVars
<1> QED
  BY <1>1, <1>2, <1>3 DEF Restore!AsArchived, Restore!Untorn

\* Once the check of a restore has found a route that it may overwrite, nobody takes its name,
\* whoever acts late, raises, dies or removes the marker.
LateTaking == [at : {"out", "listed", "snapped", "done"}, waits : SUBSET LateTurn]
LateInv ==
  /\ run \in Restoring /\ taking \in LateTaking
  /\ run.at # "out" => taking.at = "done"
  /\ run.at \in {"queue", "ledger", "routes"} => Restore!Safe

LEMMA LateInit == LateRestore!Init => LateInv
BY DEF LateRestore!Init, LateRestore!Out, LateInv, LateTaking, Restoring

LEMMA LateStep == LateInv /\ [LateRestore!Next]_backupVars => LateInv' /\ (backupRoute = "theirs" => backupRoute' = "theirs")
<1> SUFFICES ASSUME LateInv, [LateRestore!Next]_backupVars
             PROVE  LateInv' /\ (backupRoute = "theirs" => backupRoute' = "theirs")
  OBVIOUS
<1> USE DEF LateInv
\* What leaves the restore where it is leaves the route or has no restore under way.
<1>1. CASE /\ taking' \in LateTaking
           /\ taking'.at = taking.at \/ run.at = "out"
           /\ run' = run
           /\ UNCHANGED <<archive, backupRoute>> \/ run.at = "out"
           /\ backupRoute = "theirs" => backupRoute' = "theirs"
  BY <1>1 DEF Restore!Safe
<1>2. ASSUME NEW place \in {"out", "queue", "ledger", "routes", "cron"}, run.at # "out",
             run' = [run EXCEPT !.at = place], UNCHANGED <<taking, archive>>,
             backupRoute' = backupRoute \/ (place \in {"out", "cron"} /\ backupRoute # "theirs"),
             place \in {"queue", "ledger", "routes"} => Restore!Safe
      PROVE  LateInv' /\ (backupRoute = "theirs" => backupRoute' = "theirs")
  BY <1>2 DEF Restore!Safe, Restoring
<1>3. ASSUME NEW code \in {-1, 0, 1, 2}, run' = [run EXCEPT !.at = "out", !.exit = code], UNCHANGED <<taking, backupRoute>>
      PROVE  LateInv' /\ (backupRoute = "theirs" => backupRoute' = "theirs")
  <2>1. run' \in Restoring /\ run'.at = "out"
    BY <1>3 DEF Restoring
  <2> QED
    BY <1>3, <2>1
<1>4. CASE LateRestore!Act \/ LateRestore!Look \/ LateRestore!ActLate \/ LateRestore!Reschedule \/ LateRestore!Take
             \/ LateRestore!List \/ LateRestore!Snapshot \/ LateRestore!Copy \/ LateRestore!Migrate \/ UNCHANGED backupVars
  <2>1. CASE LateRestore!Act \/ LateRestore!ActLate
    <3>1. run' = run /\ UNCHANGED <<archive, backupRoute>>
      BY <2>1 DEF LateRestore!Act, LateRestore!ActLate
    <3>2. taking' = taking \/ \E t : taking' = [taking EXCEPT !.waits = @ \ {t}]
      BY <2>1, Zenon DEF LateRestore!Act, LateRestore!ActLate, LateRestore!Do
    <3>3. taking' \in LateTaking /\ taking'.at = taking.at
      BY <3>2 DEF LateTaking
    <3> QED
      BY <1>1, <3>1, <3>3
  <2>2. CASE LateRestore!List \/ LateRestore!Snapshot \/ LateRestore!Copy
    <3>1. taking.at # "done" /\ UNCHANGED <<run, backupRoute>>
      BY <2>2 DEF LateRestore!List, LateRestore!Snapshot, LateRestore!Copy, LateRestore!install
    <3>2. taking' \in LateTaking
      BY <2>2 DEF LateRestore!List, LateRestore!Snapshot, LateRestore!Copy, LateTaking
    <3> QED
      BY <1>1, <3>1, <3>2
  <2>3. CASE LateRestore!Look \/ LateRestore!Reschedule \/ LateRestore!Take \/ LateRestore!Migrate \/ UNCHANGED backupVars
    BY <1>1, <2>3
    DEF LateRestore!Look, LateRestore!Reschedule, LateRestore!Take, LateRestore!Migrate, LateRestore!install, backupVars
  <2> QED
    BY <1>4, <2>1, <2>2, <2>3
<1>5. CASE LateRestore!Begin
  <2>1. PICK f \in BOOLEAN : run' = [at |-> "check", force |-> f, exit |-> -1]
    BY <1>5 DEF LateRestore!Begin
  <2> QED
    BY <1>5, <2>1 DEF LateRestore!Begin, LateRestore!install, Restoring
<1>6. CASE LateRestore!Check
  BY <1>2, <1>3, <1>6
  DEF LateRestore!Check, LateRestore!Exit, LateRestore!At, LateRestore!install, LateRestore!Safe, Restore!Safe,
      LateRestore!None, Restore!None
<1>7. CASE LateRestore!PutQueue \/ LateRestore!PutLedger \/ LateRestore!PutRoutes \/ LateRestore!Die
  BY <1>2, <1>7
  DEF LateRestore!PutQueue, LateRestore!PutLedger, LateRestore!PutRoutes, LateRestore!Die, LateRestore!At,
      LateRestore!install, Restore!Safe, Restore!None, LateRestore!None
<1>8. CASE LateRestore!PutCron \/ LateRestore!Raise
  BY <1>3, <1>8 DEF LateRestore!PutCron, LateRestore!Raise, LateRestore!Exit, LateRestore!install
<1> QED
  BY <1>4, <1>5, <1>6, <1>7, <1>8 DEF LateRestore!Next, LateRestore!Restore

\* However often a restore dies and is run again (backup.py's cmd_restore under migrate.py's hold).
\* Where no gate or worker is past its look at the marker, a restore is run with --force, only a
\* restore finishes a dead one and nobody takes a route's name meanwhile (Late, Plain, Advised and
\* Others FALSE; cli.py:4262 and routes.py:477 do not ensure it): one that says it is done has put
\* the archive's turns and rows back, no run was in flight when it replaced the ledger, and nobody
\* acts on a half of it.  Where all but the last may happen: another's route is never overwritten.
THEOREM RestoreIsWholeHolds == PartSpec => RestoreIsWhole
<1> DEFINE Inv == (part = "backup" => RestoreInv) /\ (part = "late_backup" => LateInv)
           Ends == part = "backup" => Restore!AsArchived /\ Restore!Untorn
           Theirs == backupRoute = "theirs" => backupRoute' = "theirs"
<1>1. PartInit => Inv
  BY RestoreInit, LateInit DEF PartInit
<1>2. Inv /\ [PartNext]_partVars => Inv' /\ Ends /\ Theirs
  <2> SUFFICES ASSUME Inv, [PartNext]_partVars PROVE Inv' /\ Ends /\ Theirs
    OBVIOUS
  <2>1. part' = part
    BY DEF PartNext, partVars
  <2>2. CASE part = "backup"
    <3>1. [Restore!Next]_backupVars
      BY <2>2 DEF PartNext, partVars
    <3> QED
      BY <2>1, <2>2, <3>1, RestoreStep, RestoreMeans
  <2>3. CASE part = "late_backup"
    <3>1. [LateRestore!Next]_backupVars
      BY <2>3 DEF PartNext, partVars
    <3> QED
      BY <2>1, <2>3, <3>1, LateStep
  <2>4. CASE part \notin {"backup", "late_backup"}
    <3>1. UNCHANGED backupVars
      BY <2>4 DEF PartNext, partVars
    <3> QED
      BY <2>1, <2>4, <3>1 DEF backupVars
  <2> QED
    BY <2>2, <2>3, <2>4
<1>3. Inv => (part = "backup" => Restore!NeverHalf)
  BY DEF RestoreInv, RestoreHalf, Restore!NeverHalf
<1>4. Inv /\ [PartNext]_partVars => [part = "backup" => Restore!AsArchived /\ Restore!Untorn]_backupVars
  BY <1>2
<1>5. Inv /\ [PartNext]_partVars => [backupRoute = "theirs" => backupRoute' = "theirs"]_(LateRestore!vars)
  BY <1>2
<1> HIDE DEF Inv
<1> QED
  BY <1>1, <1>2, <1>3, <1>4, <1>5, PTL DEF PartSpec, RestoreIsWhole, LateRestore!TheirsKept

-----------------------------------------------------------------------------
(* The route registry (RouteRegistry).  Its identity changes with its       *)
(* contents, so what is published over an identity that is still the one    *)
(* read is an edit of what is there.                                        *)

RegName == Named \cup Other
Entries == [RegName -> Int]
Commands == [at : {"out", "edit", "publish", "record", "forget", "off"}, kind : {"install", "uninstall", "off"},
             r : Named \cup {CHOOSE r \in Named : TRUE}, snap : Entries, ver : Nat]
Heals == [at : {"out", "read", "adopt", "snap", "publish"}, want : [Named -> Int], snap : Entries, ver : Nat]

RegTyped ==
  /\ reg \in Entries /\ ver \in Nat /\ intent \in [Named -> Int] /\ minted \in Nat
  /\ op \in Commands /\ (op.at # "out" => op.r \in Named) /\ sweep \in Heals
  /\ native \in [Native -> [on : BOOLEAN, snap : Entries]] /\ dropped \subseteq Named
\* What was read is what is there, while the identity is the same.
RegRead ==
  /\ op.ver <= ver /\ (op.at = "publish" /\ op.ver = ver => op.snap = reg)
  /\ sweep.ver <= ver /\ (sweep.at = "publish" /\ sweep.ver = ver => sweep.snap = reg)
RegInv == RegTyped /\ RegRead

LEMMA RegDisjoint == Named \cap Other = {}
BY HostAssumption DEF Registry!RouteRegistryAssumption

LEMMA RegBlanks == Registry!Blank \in Entries /\ Registry!Nothing \in [Named -> Int] /\ Registry!None \in Int
BY DEF Registry!Blank, Registry!Nothing, Registry!None, Registry!Name, Entries, RegName

LEMMA RegInit == Registry!Init => RegInv
BY DEF Registry!Init, Registry!Name, Registry!None, Registry!Foreign, Registry!Blank, Registry!Nothing, RegInv, RegTyped,
       RegRead, RegName, Entries, Commands, Heals

\* A publication makes a new identity or leaves the registry as it was.
LEMMA RegPublishes ==
  ASSUME RegInv, NEW e \in Entries, NEW v \in Nat, Registry!Publish(e, v)
  PROVE  /\ reg' \in Entries /\ ver' \in Nat /\ ver' >= ver /\ (ver' = ver => reg' = reg)
         /\ v = ver => reg' = e
         /\ v # ver => reg' = reg
BY DEF Registry!Publish, RegInv, RegTyped

\* What a command publishes, and what a heal does.
LEMMA RegEntries ==
  ASSUME RegInv
  PROVE  /\ op.at # "out" => \A e \in Int : [op.snap EXCEPT ![op.r] = e] \in Entries
         /\ [n \in Registry!Name |-> Registry!Restored(n)] \in Entries
BY DEF RegInv, RegTyped, Commands, Heals, Entries, RegName, Registry!Name, Registry!Restored

LEMMA RegCommand ==
  ASSUME RegInv, Registry!Command \/ \E r \in Named : Registry!Install(r) \/ Registry!Uninstall(r) \/ Registry!TurnOff(r)
  PROVE  RegInv'
<1> USE DEF RegInv
<1>1. ASSUME NEW r \in Named, Registry!Install(r) \/ Registry!Uninstall(r) \/ Registry!TurnOff(r) PROVE RegInv'
  <2>1. PICK kind \in {"install", "uninstall", "off"} : op' = [op EXCEPT !.at = "edit", !.kind = kind, !.r = r]
    BY <1>1, Zenon DEF Registry!Install, Registry!Uninstall, Registry!TurnOff, Registry!Begin
  <2>2. op' \in Commands /\ op'.at = "edit" /\ op'.r = r /\ op'.ver = op.ver
    BY <2>1 DEF RegTyped, Commands
  <2>3. UNCHANGED <<reg, ver, minted, sweep, native>> /\ intent' \in [Named -> Int] /\ dropped' \subseteq Named
    BY <1>1 DEF Registry!Install, Registry!Uninstall, Registry!TurnOff, Registry!None, RegTyped
  <2> QED
    BY <2>2, <2>3 DEF RegTyped, RegRead
<1>2. CASE Registry!OpEdit
  <2>1. op' = [op EXCEPT !.at = "publish", !.snap = reg, !.ver = ver] /\ op.at = "edit"
        /\ UNCHANGED <<reg, ver, intent, minted, sweep, native, dropped>>
    BY <1>2 DEF Registry!OpEdit
  <2>2. op' \in Commands /\ op'.at = "publish" /\ op'.r = op.r /\ op'.ver = ver /\ op'.snap = reg
    BY <2>1 DEF RegTyped, Commands
  <2> QED
    BY <2>1, <2>2 DEF RegTyped, RegRead
<1>3. CASE Registry!OpPublish
  <2> DEFINE e == IF op.kind = "install" THEN Registry!Installed(op.snap[op.r]) ELSE Registry!None
             w == [op.snap EXCEPT ![op.r] = e]
  <2>1. op.at = "publish" /\ op.r \in Named /\ op.snap \in Entries /\ minted \in Nat /\ op.ver \in Nat
    BY <1>3 DEF Registry!OpPublish, RegTyped, Commands
  <2>2. e \in Int
    BY <2>1 DEF Registry!Installed, Registry!None, Entries, RegName
  <2>3. Registry!Publish(w, op.ver) /\ UNCHANGED <<intent, sweep, native, dropped>>
    BY <1>3 DEF Registry!OpPublish
  <2>4. w \in Entries
    BY <2>1, <2>2, RegEntries
  <2>5. minted' \in Nat
    BY <1>3, <2>1, <2>2 DEF Registry!OpPublish
  <2>6. PICK place \in {"record", "off", "forget", "edit"} : op' = [op EXCEPT !.at = place, !.snap = Registry!Blank]
    BY <1>3 DEF Registry!OpPublish
  <2>7. op' \in Commands /\ op'.at = place /\ op'.r = op.r /\ op'.ver = op.ver
    BY <2>6, RegBlanks DEF RegTyped, Commands
  <2> HIDE DEF w
  <2>8. reg' \in Entries /\ ver' \in Nat /\ ver' >= ver /\ (ver' = ver => reg' = reg)
    BY <2>1, <2>3, <2>4, RegPublishes
  <2>9. op.ver \in Nat /\ sweep.ver \in Nat /\ ver \in Nat
    BY DEF RegTyped, Commands, Heals
  <2>10. RegTyped'
    BY <2>1, <2>3, <2>5, <2>7, <2>8 DEF RegTyped
  <2>11. RegRead'
    BY <2>3, <2>7, <2>8, <2>9 DEF RegRead
  <2> QED
    BY <2>10, <2>11
<1>4. CASE Registry!Record \/ Registry!Forget \/ Registry!Off
  <2>1. /\ op' = [op EXCEPT !.at = "out"] /\ op.at # "out"
        /\ UNCHANGED <<reg, ver, minted, sweep, native>>
    BY <1>4 DEF Registry!Record, Registry!Forget, Registry!Off
  <2>2. op' \in Commands /\ op'.at = "out" /\ op'.ver = op.ver
    BY <2>1 DEF RegTyped, Commands
  <2>3. op.r \in Named /\ reg[op.r] \in Int
    BY <2>1 DEF RegTyped, Entries, RegName
  <2>4. intent' \in [Named -> Int] /\ dropped' \subseteq Named
    BY <1>4, <2>3 DEF Registry!Record, Registry!Forget, Registry!Off, Registry!Gone, Registry!None, RegTyped
  <2> QED
    BY <2>1, <2>2, <2>4 DEF RegTyped, RegRead
<1> QED
  BY <1>1, <1>2, <1>3, <1>4 DEF Registry!Command

LEMMA RegHeal == RegInv /\ Registry!Heal => RegInv'
<1> SUFFICES ASSUME RegInv, Registry!Heal PROVE RegInv'
  OBVIOUS
<1> USE DEF RegInv
<1>1. CASE Registry!SweepLoad
  <2>1. sweep' = [sweep EXCEPT !.at = "read", !.want = [r \in Named |-> IF on[r] THEN intent[r] ELSE Registry!None]]
        /\ UNCHANGED <<reg, ver, intent, minted, op, native, dropped>>
    BY <1>1 DEF Registry!SweepLoad
  <2> DEFINE want == [r \in Named |-> IF on[r] THEN intent[r] ELSE Registry!None]
  <2>3. want \in [Named -> Int]
    BY RegBlanks DEF RegTyped
  <2> HIDE DEF want
  <2>4. sweep' = [sweep EXCEPT !.at = "read", !.want = want]
    BY <2>1 DEF want
  <2>2. sweep' \in Heals /\ sweep'.at = "read" /\ sweep'.ver = sweep.ver
    BY <2>3, <2>4 DEF RegTyped, Heals
  <2> QED
    BY <2>1, <2>2 DEF RegTyped, RegRead
<1>2. CASE Registry!SweepRead
  <2>1. sweep' = [sweep EXCEPT !.at = "adopt", !.snap = reg,
                               !.want = [r \in Named |-> IF r \in Registry!Adoptable THEN reg[r] ELSE @[r]]]
        /\ UNCHANGED <<reg, ver, intent, minted, op, native, dropped>>
    BY <1>2 DEF Registry!SweepRead
  <2>2. sweep' \in Heals /\ sweep'.at = "adopt" /\ sweep'.ver = sweep.ver
    BY <2>1, Zenon DEF RegTyped, Heals, Entries, RegName
  <2> QED
    BY <2>1, <2>2 DEF RegTyped, RegRead
<1>3. CASE Registry!SweepAdopt
  <2>1. UNCHANGED <<reg, ver, minted, op, native, dropped>> /\ intent' \in [Named -> Int]
    BY <1>3 DEF Registry!SweepAdopt, RegTyped, Heals
  <2> DEFINE want == IF Registry!Drifted = {} THEN Registry!Nothing ELSE sweep.want
             place == IF Registry!Drifted = {} THEN "out" ELSE "snap"
  <2>2. sweep' = [sweep EXCEPT !.at = place, !.snap = Registry!Blank, !.want = want]
    BY <1>3 DEF Registry!SweepAdopt
  <2>4. want \in [Named -> Int] /\ place \in {"out", "snap"}
    BY RegBlanks DEF RegTyped, Heals
  <2> HIDE DEF want, place
  <2>3. sweep' \in Heals /\ sweep'.at = place /\ sweep'.ver = sweep.ver
    BY <2>2, <2>4, RegBlanks DEF RegTyped, Heals
  <2> QED
    BY <2>1, <2>3, <2>4 DEF RegTyped, RegRead
<1>4. CASE Registry!SweepEdit
  <2>1. sweep' = [sweep EXCEPT !.at = "publish", !.snap = reg, !.ver = ver]
        /\ UNCHANGED <<reg, ver, intent, minted, op, native, dropped>>
    BY <1>4 DEF Registry!SweepEdit
  <2>2. sweep' \in Heals /\ sweep'.at = "publish" /\ sweep'.ver = ver /\ sweep'.snap = reg
    BY <2>1 DEF RegTyped, Heals
  <2> QED
    BY <2>1, <2>2 DEF RegTyped, RegRead
<1>5. CASE Registry!SweepPublish
  <2>1. sweep.at = "publish" /\ UNCHANGED <<intent, minted, op, native, dropped>>
        /\ Registry!Publish([n \in Registry!Name |-> Registry!Restored(n)], sweep.ver)
    BY <1>5 DEF Registry!SweepPublish
  <2>2. sweep.ver \in Nat /\ op.ver \in Nat /\ ver \in Nat
    BY DEF RegTyped, Heals, Commands
  <2>3. reg' \in Entries /\ ver' \in Nat /\ ver' >= ver /\ (ver' = ver => reg' = reg)
    BY <2>1, <2>2, RegPublishes, RegEntries
  <2>4. sweep' \in Heals /\ sweep'.at # "publish" /\ sweep'.ver <= ver
    <3>1. CASE sweep.ver = ver
      <4>1. sweep' = [sweep EXCEPT !.at = "out", !.snap = Registry!Blank, !.want = Registry!Nothing, !.ver = 0]
        BY <1>5, <3>1 DEF Registry!SweepPublish
      <4>2. sweep \in Heals
        BY DEF RegTyped
      <4>3. sweep' \in Heals
        BY <4>1, <4>2, RegBlanks DEF Heals
      <4>4. sweep'.at = "out" /\ sweep'.ver = 0
        BY <4>1, <4>2 DEF Heals
      <4> QED
        BY <2>2, <4>3, <4>4
    <3>2. CASE sweep.ver # ver
      <4>1. sweep' = [sweep EXCEPT !.at = "snap", !.snap = Registry!Blank]
        BY <1>5, <3>2 DEF Registry!SweepPublish
      <4>2. sweep.ver <= ver
        BY DEF RegRead
      <4> QED
        BY <2>2, <4>1, <4>2, RegBlanks DEF RegTyped, Heals
    <3> QED
      BY <3>1, <3>2
  <2>5. sweep'.ver \in Nat
    BY <2>4 DEF Heals
  <2>6. RegRead'
    BY <2>1, <2>2, <2>3, <2>4, <2>5 DEF RegRead
  <2> QED
    BY <2>1, <2>3, <2>4, <2>6 DEF RegTyped
<1> QED
  BY <1>1, <1>2, <1>3, <1>4, <1>5 DEF Registry!Heal

LEMMA RegNative ==
  ASSUME RegInv, NEW w \in Native, Registry!NativeRead(w) \/ Registry!NativeWrite(w) PROVE RegInv'
<1> USE DEF RegInv
<1>1. CASE Registry!NativeRead(w)
  <2>1. native' \in [Native -> [on : BOOLEAN, snap : Entries]]
    BY <1>1 DEF Registry!NativeRead, RegTyped
  <2> QED
    BY <1>1, <2>1 DEF Registry!NativeRead, RegTyped, RegRead
<1>2. CASE Registry!NativeWrite(w)
  <2>1. PICK n \in RegName, e \in Int : /\ reg' = [native[w].snap EXCEPT ![n] = e] /\ ver' = ver + 1
    BY <1>2
    DEF Registry!NativeWrite, Registry!Name, RegName, Registry!PublishOver, Registry!None, Registry!Foreign, Registry!Changed
  <2>2. native[w].snap \in Entries
    BY DEF RegTyped
  <2>3. reg' \in Entries
    BY <2>1, <2>2 DEF Entries
  <2>4. native' \in [Native -> [on : BOOLEAN, snap : Entries]]
    BY <1>2, RegBlanks DEF Registry!NativeWrite, RegTyped
  <2>5. op.ver \in Nat /\ sweep.ver \in Nat /\ ver \in Nat
    BY DEF RegTyped, Commands, Heals
  <2>6. dropped' \subseteq Named /\ UNCHANGED <<intent, minted, op, sweep>>
    BY <1>2 DEF Registry!NativeWrite, RegTyped
  <2>7. RegTyped'
    BY <2>1, <2>3, <2>4, <2>5, <2>6 DEF RegTyped
  <2>8. RegRead'
    BY <2>1, <2>5, <2>6 DEF RegRead
  <2> QED
    BY <2>7, <2>8
<1> QED
  BY <1>1, <1>2

\* What a command or a heal publishes is an edit of what is there.
LEMMA RegKeeps ==
  ASSUME RegInv
  PROVE  /\ Registry!OpPublish \/ Registry!SweepPublish => \A n \in Other : reg'[n] = reg[n]
         /\ Registry!SweepPublish => \A r \in Named : reg[r] = Registry!Foreign => reg'[r] = Registry!Foreign
<1> USE DEF RegInv
<1>0. reg \in Entries /\ op.snap \in Entries /\ sweep.snap \in Entries
  BY DEF RegTyped, Commands, Heals
<1>1. ASSUME Registry!OpPublish, NEW n \in Other PROVE reg'[n] = reg[n]
  <2>1. op.at = "publish" /\ op.r \in Named
    BY <1>1 DEF Registry!OpPublish, RegTyped
  <2>2. PICK e : Registry!Publish([op.snap EXCEPT ![op.r] = e], op.ver)
    BY <1>1 DEF Registry!OpPublish
  <2>3. n # op.r /\ n \in RegName
    BY <2>1, RegDisjoint DEF RegName
  <2>4. [op.snap EXCEPT ![op.r] = e][n] = op.snap[n]
    BY <1>0, <2>3 DEF Entries
  <2> QED
    BY <2>1, <2>2, <2>4 DEF Registry!Publish, RegRead
<1>2. ASSUME Registry!SweepPublish PROVE reg' = reg \/ (sweep.snap = reg /\ reg' = [n \in Registry!Name |-> Registry!Restored(n)])
  BY <1>2 DEF Registry!SweepPublish, Registry!Publish, RegRead
<1>3. ASSUME Registry!SweepPublish, NEW n \in Other PROVE reg'[n] = reg[n]
  <2>1. n \notin Named /\ n \in Registry!Name
    BY RegDisjoint DEF Registry!Name
  <2> QED
    BY <1>2, <1>3, <2>1 DEF Registry!Restored
<1>4. ASSUME Registry!SweepPublish, NEW r \in Named, reg[r] = Registry!Foreign PROVE reg'[r] = Registry!Foreign
  <2>1. r \in Registry!Name
    BY DEF Registry!Name
  <2> QED
    BY <1>2, <1>4, <2>1 DEF Registry!Restored
<1> QED
  BY <1>1, <1>3, <1>4

\* Where no command overlaps a heal, every step is one where they may.
LEMMA LoneIsReg == LoneRegistry!Next => Registry!Next
BY Zenon DEF LoneRegistry!Next, Registry!Next, LoneRegistry!Install, Registry!Install, LoneRegistry!Uninstall, Registry!Uninstall,
       LoneRegistry!TurnOff, Registry!TurnOff, LoneRegistry!Begin, Registry!Begin, LoneRegistry!Free, Registry!Free,
       LoneRegistry!Command, Registry!Command, LoneRegistry!Heal, Registry!Heal,
       LoneRegistry!OpEdit, Registry!OpEdit, LoneRegistry!OpPublish, Registry!OpPublish, LoneRegistry!Record,
       Registry!Record, LoneRegistry!Forget, Registry!Forget, LoneRegistry!Off, Registry!Off, LoneRegistry!SweepLoad,
       Registry!SweepLoad, LoneRegistry!SweepRead, Registry!SweepRead, LoneRegistry!SweepAdopt, Registry!SweepAdopt,
       LoneRegistry!SweepEdit, Registry!SweepEdit, LoneRegistry!SweepPublish, Registry!SweepPublish,
       LoneRegistry!NativeRead, Registry!NativeRead, LoneRegistry!NativeWrite, Registry!NativeWrite,
       LoneRegistry!Installed, Registry!Installed, LoneRegistry!Publish, Registry!Publish, LoneRegistry!PublishOver,
       Registry!PublishOver, LoneRegistry!Gone, Registry!Gone, LoneRegistry!Adoptable, Registry!Adoptable,
       LoneRegistry!Drifted, Registry!Drifted, LoneRegistry!Restored, Registry!Restored, LoneRegistry!Name, Registry!Name,
       LoneRegistry!None, Registry!None, LoneRegistry!Foreign, Registry!Foreign, LoneRegistry!Changed, Registry!Changed,
       LoneRegistry!Blank, Registry!Blank, LoneRegistry!Nothing, Registry!Nothing, LoneRegistry!bounds, Registry!bounds

LEMMA RegStep == RegInv /\ [Registry!Next]_regVars => RegInv'
<1>1. RegInv /\ UNCHANGED regVars => RegInv'
  BY DEF regVars, RegInv, RegTyped, RegRead
<1> QED
  BY <1>1, RegCommand, RegHeal, RegNative DEF Registry!Next

\* A route whose removal is complete has no entry, no record, and nothing that a heal under way
\* would put back: only a command records or forgets, and none runs beside a heal.
LoneApart == op.at = "out" \/ sweep.at = "out"
LoneIdle == sweep.at = "out" => sweep.want = [r \in Named |-> 0]
LoneGone == \A r \in dropped : reg[r] = 0 /\ intent[r] = 0 /\ sweep.want[r] = 0
LoneCommand ==
  /\ op.at \in {"edit", "publish", "record"} /\ op.kind = "install" => op.r \notin dropped
  /\ op.at = "record" => op.kind = "install"
  /\ op.at = "off" => op.kind = "uninstall"
  /\ op.at # "out" /\ op.kind = "uninstall" => intent[op.r] = 0
LoneInv == LoneApart /\ LoneIdle /\ LoneGone /\ LoneCommand

LEMMA LoneInit == LoneRegistry!Init => RegInv /\ LoneInv
<1>1. LoneRegistry!Init => Registry!Init
  BY DEF LoneRegistry!Init, Registry!Init, LoneRegistry!Name, Registry!Name, LoneRegistry!None, Registry!None,
         LoneRegistry!Foreign, Registry!Foreign, LoneRegistry!Blank, Registry!Blank, LoneRegistry!Nothing, Registry!Nothing
<1>2. LoneRegistry!Init => LoneInv
  BY DEF LoneRegistry!Init, LoneRegistry!Nothing, LoneRegistry!None, LoneInv, LoneApart, LoneIdle, LoneGone, LoneCommand
<1> QED
  BY <1>1, <1>2, RegInit

LEMMA LoneCommands ==
  ASSUME RegInv, LoneInv,
         LoneRegistry!Command \/ \E r \in Named : LoneRegistry!Install(r) \/ LoneRegistry!Uninstall(r) \/ LoneRegistry!TurnOff(r)
  PROVE  LoneInv'
<1> USE DEF RegInv, LoneInv
<1>0. /\ op \in Commands /\ dropped \subseteq Named /\ intent \in [Named -> Int] /\ reg \in Entries
      /\ op.at # "out" => op.r \in Named
  BY DEF RegTyped
<1>1. ASSUME NEW r \in Named, LoneRegistry!Install(r) \/ LoneRegistry!Uninstall(r) \/ LoneRegistry!TurnOff(r) PROVE LoneInv'
  <2>1. PICK kind \in {"install", "uninstall", "off"} :
          /\ op' = [op EXCEPT !.at = "edit", !.kind = kind, !.r = r] /\ sweep.at = "out"
          /\ kind = "install" => dropped' = dropped \ {r} /\ intent' = intent
          /\ kind = "uninstall" => intent' = [intent EXCEPT ![r] = 0] /\ dropped' = dropped
          /\ kind = "off" => dropped' = dropped /\ intent' = intent
    BY <1>1, Zenon DEF LoneRegistry!Install, LoneRegistry!Uninstall, LoneRegistry!TurnOff, LoneRegistry!Begin, LoneRegistry!Free,
                LoneRegistry!None
  <2>2. op'.at = "edit" /\ op'.r = r /\ op'.kind = kind
    BY <1>0, <2>1 DEF Commands
  <2>3. UNCHANGED <<reg, sweep>>
    BY <1>1 DEF LoneRegistry!Install, LoneRegistry!Uninstall, LoneRegistry!TurnOff
  <2> QED
    BY <1>0, <2>1, <2>2, <2>3 DEF LoneApart, LoneIdle, LoneGone, LoneCommand
<1>2. CASE LoneRegistry!OpEdit
  <2>1. op' = [op EXCEPT !.at = "publish", !.snap = reg, !.ver = ver] /\ op.at = "edit" /\ UNCHANGED <<reg, intent, sweep, dropped>>
    BY <1>2 DEF LoneRegistry!OpEdit
  <2>2. op'.at = "publish" /\ op'.r = op.r /\ op'.kind = op.kind
    BY <1>0, <2>1 DEF Commands
  <2> QED
    BY <2>1, <2>2 DEF LoneApart, LoneIdle, LoneGone, LoneCommand
<1>3. CASE LoneRegistry!OpPublish
  <2> DEFINE e == IF op.kind = "install" THEN LoneRegistry!Installed(op.snap[op.r]) ELSE LoneRegistry!None
  <2>1. /\ op.at = "publish" /\ UNCHANGED <<intent, sweep, dropped>> /\ op.r \in Named
        /\ LoneRegistry!Publish([op.snap EXCEPT ![op.r] = e], op.ver)
    BY <1>0, <1>3 DEF LoneRegistry!OpPublish
  <2>2. /\ op'.r = op.r /\ op'.kind = op.kind
        /\ op'.at \in {"record", "off", "forget", "edit"}
        /\ op'.at = "record" => op.kind = "install"
        /\ op'.at = "off" => op.kind = "uninstall"
    BY <1>0, <1>3 DEF LoneRegistry!OpPublish, Commands
  <2>3. reg' = reg \/ reg' = [reg EXCEPT ![op.r] = e]
    BY <2>1 DEF LoneRegistry!Publish, RegRead
  <2>4. op.kind # "install" => e = 0
    BY DEF LoneRegistry!None
  <2>5. op.kind = "install" => op.r \notin dropped
    BY <2>1 DEF LoneCommand
  <2> HIDE DEF e
  <2>6. \A r \in dropped : reg'[r] = 0
    BY <1>0, <2>3, <2>4, <2>5 DEF LoneGone, Entries, RegName
  <2> QED
    BY <2>1, <2>2, <2>6 DEF LoneApart, LoneIdle, LoneGone, LoneCommand
<1>4. CASE LoneRegistry!Record \/ LoneRegistry!Forget \/ LoneRegistry!Off
  <2>1. /\ op' = [op EXCEPT !.at = "out"] /\ op.at \in {"record", "forget", "off"} /\ UNCHANGED <<reg, sweep>>
    BY <1>4 DEF LoneRegistry!Record, LoneRegistry!Forget, LoneRegistry!Off
  <2>2. op'.at = "out"
    BY <1>0, <2>1 DEF Commands
  <2>3. sweep.want = [r \in Named |-> 0] /\ op.r \in Named
    BY <1>0, <2>1 DEF LoneApart, LoneIdle
  <2>4. CASE LoneRegistry!Record
    <3>1. op.r \notin dropped /\ dropped' = dropped
      BY <2>4 DEF LoneRegistry!Record, LoneCommand
    <3>2. \A r \in dropped : intent'[r] = intent[r]
      BY <1>0, <2>4, <3>1 DEF LoneRegistry!Record
    <3> QED
      BY <2>1, <2>2, <3>1, <3>2 DEF LoneApart, LoneIdle, LoneGone, LoneCommand
  <2>5. CASE LoneRegistry!Forget
    <3>1. intent' = [intent EXCEPT ![op.r] = 0]
          /\ dropped' = IF reg[op.r] = 0 THEN dropped \cup {op.r} ELSE dropped
      BY <2>5 DEF LoneRegistry!Forget, LoneRegistry!Gone, LoneRegistry!None
    <3> QED
      BY <1>0, <2>1, <2>2, <2>3, <3>1 DEF LoneApart, LoneIdle, LoneGone, LoneCommand
  <2>6. CASE LoneRegistry!Off
    <3>1. intent' = intent /\ dropped' = IF reg[op.r] = 0 THEN dropped \cup {op.r} ELSE dropped
      BY <2>6 DEF LoneRegistry!Off, LoneRegistry!Gone, LoneRegistry!None
    <3>2. intent[op.r] = 0
      BY <2>6 DEF LoneRegistry!Off, LoneCommand
    <3> QED
      BY <1>0, <2>1, <2>2, <2>3, <3>1, <3>2 DEF LoneApart, LoneIdle, LoneGone, LoneCommand
  <2> QED
    BY <1>4, <2>4, <2>5, <2>6
<1> QED
  BY <1>1, <1>2, <1>3, <1>4 DEF LoneRegistry!Command

LEMMA LoneHeals ==
  ASSUME RegInv, LoneInv, LoneRegistry!Heal
  PROVE  LoneInv' /\ (LoneRegistry!SweepPublish => \A r \in dropped : reg'[r] = 0)
<1> USE DEF RegInv, LoneInv
<1>0. /\ sweep \in Heals /\ dropped \subseteq Named /\ intent \in [Named -> Int] /\ reg \in Entries
  BY DEF RegTyped
<1>1. CASE LoneRegistry!SweepLoad
  <2>1. /\ sweep' = [sweep EXCEPT !.at = "read", !.want = [r \in Named |-> IF on[r] THEN intent[r] ELSE 0]]
        /\ op.at = "out" /\ UNCHANGED <<reg, intent, op, dropped>>
    BY <1>1 DEF LoneRegistry!SweepLoad, LoneRegistry!None
  <2>2. sweep'.at = "read" /\ sweep'.want = [r \in Named |-> IF on[r] THEN intent[r] ELSE 0]
    BY <1>0, <2>1 DEF Heals
  <2> QED
    BY <1>0, <1>1, <2>1, <2>2 DEF LoneApart, LoneIdle, LoneGone, LoneCommand, LoneRegistry!SweepPublish
<1>2. CASE LoneRegistry!SweepRead
  <2>1. /\ sweep.at = "read" /\ UNCHANGED <<reg, intent, op, dropped>>
        /\ sweep' = [sweep EXCEPT !.at = "adopt", !.snap = reg,
                               !.want = [r \in Named |-> IF r \in LoneRegistry!Adoptable THEN reg[r] ELSE @[r]]]
    BY <1>2 DEF LoneRegistry!SweepRead
  <2>2. sweep'.at = "adopt" /\ sweep'.want = [r \in Named |-> IF r \in LoneRegistry!Adoptable THEN reg[r] ELSE sweep.want[r]]
    BY <1>0, <2>1 DEF Heals
  <2> QED
    BY <1>0, <1>2, <2>1, <2>2 DEF LoneApart, LoneIdle, LoneGone, LoneCommand, LoneRegistry!SweepPublish
<1>3. CASE LoneRegistry!SweepAdopt
  <2> DEFINE want == IF LoneRegistry!Drifted = {} THEN LoneRegistry!Nothing ELSE sweep.want
             place == IF LoneRegistry!Drifted = {} THEN "out" ELSE "snap"
  <2>1. /\ sweep' = [sweep EXCEPT !.at = place, !.snap = LoneRegistry!Blank, !.want = want]
        /\ sweep.at = "adopt" /\ UNCHANGED <<reg, op, dropped>>
        /\ intent' = [r \in Named |-> IF intent[r] = 0 /\ sweep.want[r] # 0 /\ sweep.snap[r] = sweep.want[r]
                                         /\ sweep.want[r] > 0
                                      THEN sweep.want[r] ELSE intent[r]]
    BY <1>3 DEF LoneRegistry!SweepAdopt, LoneRegistry!None
  <2>2. /\ place = "out" => want = [r \in Named |-> 0]
        /\ place = "snap" => want = sweep.want
        /\ place \in {"out", "snap"}
    BY DEF LoneRegistry!Nothing, LoneRegistry!None
  <2> HIDE DEF want, place
  <2>3. sweep'.at = place /\ sweep'.want = want
    BY <1>0, <2>1 DEF Heals
  <2>4. op.at = "out"
    BY <2>1 DEF LoneApart
  <2>5. \A r \in dropped : sweep'.want[r] = 0 /\ intent'[r] = 0
    BY <1>0, <2>1, <2>2, <2>3 DEF LoneGone
  <2> QED
    BY <1>3, <2>1, <2>2, <2>3, <2>4, <2>5 DEF LoneApart, LoneIdle, LoneGone, LoneCommand, LoneRegistry!SweepPublish
<1>4. CASE LoneRegistry!SweepEdit
  <2>1. /\ sweep.at = "snap" /\ UNCHANGED <<reg, intent, op, dropped>>
        /\ sweep' = [sweep EXCEPT !.at = "publish", !.snap = reg, !.ver = ver]
    BY <1>4 DEF LoneRegistry!SweepEdit
  <2>2. sweep'.at = "publish" /\ sweep'.want = sweep.want
    BY <1>0, <2>1 DEF Heals
  <2> QED
    BY <1>4, <2>1, <2>2 DEF LoneApart, LoneIdle, LoneGone, LoneCommand, LoneRegistry!SweepPublish
<1>5. CASE LoneRegistry!SweepPublish
  <2>1. /\ sweep.at = "publish" /\ UNCHANGED <<intent, op, dropped>>
        /\ LoneRegistry!Publish([n \in LoneRegistry!Name |-> LoneRegistry!Restored(n)], sweep.ver)
    BY <1>5 DEF LoneRegistry!SweepPublish
  <2>2. reg' = reg \/ (sweep.snap = reg /\ reg' = [n \in LoneRegistry!Name |-> LoneRegistry!Restored(n)])
    BY <2>1 DEF LoneRegistry!Publish, RegRead
  <2>3. \A r \in dropped : reg'[r] = 0
    BY <1>0, <2>2 DEF LoneGone, LoneRegistry!Restored, LoneRegistry!None, LoneRegistry!Name
  <2>4. \/ sweep'.at = "out" /\ sweep'.want = [r \in Named |-> 0]
        \/ sweep'.at = "snap" /\ sweep'.want = sweep.want
    <3>1. CASE sweep.ver = ver
      <4>1. sweep' = [sweep EXCEPT !.at = "out", !.snap = LoneRegistry!Blank, !.want = LoneRegistry!Nothing, !.ver = 0]
        BY <1>5, <3>1 DEF LoneRegistry!SweepPublish
      <4>2. sweep'.at = "out" /\ sweep'.want = LoneRegistry!Nothing
        BY <1>0, <4>1 DEF Heals
      <4> QED
        BY <4>2 DEF LoneRegistry!Nothing, LoneRegistry!None
    <3>2. CASE sweep.ver # ver
      <4>1. sweep' = [sweep EXCEPT !.at = "snap", !.snap = LoneRegistry!Blank]
        BY <1>5, <3>2 DEF LoneRegistry!SweepPublish
      <4> QED
        BY <1>0, <4>1 DEF Heals
    <3> QED
      BY <3>1, <3>2
  <2> QED
    BY <1>0, <2>1, <2>3, <2>4 DEF LoneApart, LoneIdle, LoneGone, LoneCommand
<1> QED
  BY <1>1, <1>2, <1>3, <1>4, <1>5 DEF LoneRegistry!Heal

LEMMA LoneStep ==
  ASSUME RegInv, LoneInv, [LoneRegistry!Next]_regVars
  PROVE  LoneInv' /\ (LoneRegistry!SweepPublish => \A r \in dropped : reg'[r] = 0)
<1>1. CASE UNCHANGED regVars
  BY <1>1 DEF regVars, LoneInv, LoneApart, LoneIdle, LoneGone, LoneCommand, LoneRegistry!SweepPublish, Heals, RegInv, RegTyped
<1>2. CASE \E w \in Native : LoneRegistry!NativeRead(w) \/ LoneRegistry!NativeWrite(w)
  <2>1. /\ UNCHANGED <<intent, op, sweep>>
        /\ UNCHANGED <<reg, dropped>> \/ dropped' = {r \in dropped : reg'[r] = 0}
    BY <1>2 DEF LoneRegistry!NativeRead, LoneRegistry!NativeWrite, LoneRegistry!None
  <2> QED
    BY <2>1 DEF LoneInv, LoneApart, LoneIdle, LoneGone, LoneCommand, LoneRegistry!SweepPublish, Heals, RegInv, RegTyped
<1>3. CASE LoneRegistry!Command \/ \E r \in Named : LoneRegistry!Install(r) \/ LoneRegistry!Uninstall(r) \/ LoneRegistry!TurnOff(r)
  <2>1. ~LoneRegistry!SweepPublish
    BY <1>3, Zenon
    DEF LoneInv, LoneApart, LoneRegistry!Command, LoneRegistry!OpEdit, LoneRegistry!OpPublish, LoneRegistry!Record,
        LoneRegistry!Forget, LoneRegistry!Off, LoneRegistry!Install, LoneRegistry!Uninstall, LoneRegistry!TurnOff,
        LoneRegistry!Begin, LoneRegistry!Free, LoneRegistry!SweepPublish
  <2> QED
    BY <1>3, <2>1, LoneCommands
<1> QED
  BY <1>1, <1>2, <1>3, LoneHeals DEF LoneRegistry!Next

-----------------------------------------------------------------------------
(* The rename of a loop (LoopRename).  While the hooks are moved, one that  *)
(* is done with is on its new route and has answered there, or its route is *)
(* among the unproven, which are not removed.                               *)

RouteId == {"reviewer", "fixer"} \X {"old", "new"}
RenameTyped ==
  /\ routes \subseteq RouteId /\ url \in [Hook -> {"old", "new"}] /\ todo \subseteq Hook /\ moving \subseteq Hook
  /\ at \in {"out", "hooks", "state", "file", "intent", "unlink", "routes", "end"}
  /\ \A g, h \in moving : g = h
\* The new routes are there before any hook moves,
RenameCopied == at \in {"hooks", "state", "file", "intent", "unlink", "routes"} =>
  \A r \in {"reviewer", "fixer"} : <<r, "new">> \in routes
\* a hook that a rename has taken up is on its new one,
RenameMoved ==
  at \in {"hooks", "state", "file", "intent", "unlink", "routes"} =>
    \A h \in Hook \ todo : url[h] = "new" /\ (h \in moving \/ h \in answered \/ On[h] \in unproven)
\* and what follows the hooks begins when there are none left.
RenameDone == at \in {"state", "file", "intent", "unlink", "routes"} => todo = {} /\ moving = {}
RenameInv == RenameTyped /\ Renamed!HooksServed /\ RenameCopied /\ RenameMoved /\ RenameDone

OldGone ==
  \A r \in {"reviewer", "fixer"} : <<r, "old">> \in routes \ routes' =>
    \A h \in Hook : On[h] = r => url[h] = "new" /\ h \in answered

LEMMA OnRoutes == On \in [Hook -> {"reviewer", "fixer"}]
BY DEF On

LEMMA RenameInit == Renamed!Init => RenameInv
BY OnRoutes DEF Renamed!Init, RenameInv, RenameTyped, RouteId, Renamed!HooksServed, RenameCopied, RenameMoved, RenameDone

\* A hook at a time.
LEMMA RenameHooks ==
  ASSUME RenameInv, NEW h \in Hook,
         Renamed!MoveHook(h) \/ Renamed!Unconfirmed(h) \/ Renamed!Accepted(h) \/ Renamed!Silent(h) \/ Renamed!Refused(h)
  PROVE  RenameInv' /\ OldGone
<1> USE DEF RenameInv, RenameTyped
<1>0. On[h] \in {"reviewer", "fixer"} /\ at = "hooks" /\ UNCHANGED routes
  BY OnRoutes
  DEF Renamed!MoveHook, Renamed!Unconfirmed, Renamed!Accepted, Renamed!Silent, Renamed!Refused
<1>1. CASE Renamed!MoveHook(h)
  BY <1>0, <1>1 DEF Renamed!MoveHook, Renamed!HooksServed, RenameCopied, RenameMoved, RenameDone, OldGone
<1>2. CASE Renamed!Unconfirmed(h) \/ Renamed!Refused(h)
  <2>1. at' = "end" /\ UNCHANGED <<todo, moving>>
    BY <1>2 DEF Renamed!Unconfirmed, Renamed!Refused, Renamed!Leave, Renamed!run
  <2>2. PICK id \in {"old", "new"} : url' = [url EXCEPT ![h] = id] /\ <<On[h], id>> \in routes
    <3>1. CASE url' = url
      BY <3>1 DEF Renamed!HooksServed
    <3>2. CASE Renamed!Unconfirmed(h) /\ url' = [url EXCEPT ![h] = "new"]
      BY <1>0, <3>2 DEF RenameCopied
    <3>3. CASE Renamed!Refused(h) /\ url' # url
      BY <3>3 DEF Renamed!Refused
    <3> QED
      BY <1>2, <3>1, <3>2, <3>3 DEF Renamed!Unconfirmed
  <2> QED
    BY <1>0, <2>1, <2>2 DEF Renamed!HooksServed, RenameCopied, RenameMoved, RenameDone, OldGone
<1>3. CASE Renamed!Accepted(h) \/ Renamed!Silent(h)
  BY <1>0, <1>3
  DEF Renamed!Accepted, Renamed!Silent, Renamed!HooksServed, RenameCopied, RenameMoved, RenameDone, OldGone
<1> QED
  BY <1>1, <1>2, <1>3

LEMMA RenameStep == RenameInv /\ [Renamed!Next]_renameVars => RenameInv' /\ OldGone
<1> SUFFICES ASSUME RenameInv, [Renamed!Next]_renameVars PROVE RenameInv' /\ OldGone
  OBVIOUS
<1> USE DEF RenameInv, RenameTyped
<1>1. CASE Renamed!Start
  <2>1. routes' = routes \cup {"reviewer", "fixer"} \X {"new"} /\ at' = "hooks" /\ todo' = Hook /\ moving' = {} /\ url' = url
    BY <1>1 DEF Renamed!Start
  <2> QED
    BY <2>1 DEF RouteId, Renamed!HooksServed, RenameCopied, RenameMoved, RenameDone, OldGone
<1>2. CASE Renamed!HooksDone \/ Renamed!MoveDir \/ Renamed!WriteLoop \/ Renamed!Record \/ Renamed!Unlink
  <2>1. /\ UNCHANGED <<routes, url, todo, moving, unproven, answered>>
        /\ at \in {"hooks", "state", "file", "intent", "unlink"}
        /\ at' \in {"state", "file", "intent", "unlink", "routes"}
        /\ todo = {} /\ moving = {}
    BY <1>2 DEF Renamed!HooksDone, Renamed!MoveDir, Renamed!WriteLoop, Renamed!Record, Renamed!Unlink, Renamed!run, RenameDone
  <2> QED
    BY <2>1 DEF Renamed!HooksServed, RenameCopied, RenameMoved, RenameDone, OldGone
<1>3. CASE Renamed!RemoveRoutes
  <2>1. /\ at = "routes" /\ at' = "end" /\ UNCHANGED <<url, todo, moving>>
        /\ routes' = routes \ (({"reviewer", "fixer"} \ unproven) \X {"old"})
    BY <1>3 DEF Renamed!RemoveRoutes, Renamed!Gone, Renamed!run
  <2>2. todo = {} /\ moving = {}
    BY <2>1 DEF RenameDone
  <2>3. \A h \in Hook : url[h] = "new" /\ (h \in answered \/ On[h] \in unproven)
    BY <2>1, <2>2 DEF RenameMoved
  <2> QED
    BY <2>1, <2>2, <2>3 DEF Renamed!HooksServed, RenameCopied, RenameMoved, RenameDone, OldGone
<1>4. CASE Renamed!End \/ Renamed!Die \/ UNCHANGED renameVars
  <2>1. /\ UNCHANGED <<routes, url, todo, moving, unproven, answered>> /\ at' \in {"out", at}
    BY <1>4 DEF Renamed!End, Renamed!Die, Renamed!run, renameVars
  <2> QED
    BY <2>1 DEF Renamed!HooksServed, RenameCopied, RenameMoved, RenameDone, OldGone
<1> QED
  BY <1>1, <1>2, <1>3, <1>4, RenameHooks DEF Renamed!Next, Renamed!Rename

-----------------------------------------------------------------------------
\* However the registry's writers and the loop's commands and heals interleave: what others make
\* of their names survives the plugin's writes, the heal takes over no name that another has
\* taken, and where no heal overlaps a command (route_intent.py:273 does not ensure it, so this
\* conjunct has Overlap FALSE) none puts back a route that a command removed; and while
\* a loop is renamed, however often that dies, each hook's deliveries find a route and an old
\* route goes only when its hooks have been answered on the new one (routes.py, rename_loop).
THEOREM RoutesKeptHolds == PartSpec => RoutesKept
<1> DEFINE Inv == RegInv /\ (part = "lone_registry" => LoneInv) /\ RenameInv
           Kind == /\ Registry!OpPublish \/ Registry!SweepPublish => \A n \in Other : reg'[n] = reg[n]
                   /\ Registry!SweepPublish => \A r \in Named : reg[r] = Registry!Foreign => reg'[r] = Registry!Foreign
           Removed == part = "lone_registry" => LoneRegistry!StaysRemoved
<1>1. PartInit => Inv
  BY RegInit, LoneInit, RenameInit DEF PartInit
<1>2. Inv /\ [PartNext]_partVars => Inv' /\ Kind /\ Removed /\ OldGone
  <2> SUFFICES ASSUME Inv, [PartNext]_partVars PROVE Inv' /\ Kind /\ Removed /\ OldGone
    OBVIOUS
  <2>1. part' = part
    BY DEF PartNext, partVars
  <2>2. [Renamed!Next]_renameVars
    BY DEF PartNext, partVars
  <2>3. [Registry!Next]_regVars
    BY LoneIsReg DEF PartNext, partVars
  <2>4. RegInv' /\ RenameInv' /\ OldGone /\ Kind
    BY <2>2, <2>3, RegStep, RegKeeps, RenameStep
  <2>5. ASSUME part = "lone_registry" PROVE LoneInv' /\ LoneRegistry!StaysRemoved
    <3>1. [LoneRegistry!Next]_regVars
      BY <2>5 DEF PartNext, partVars
    <3> QED
      BY <2>5, <3>1, LoneStep DEF LoneRegistry!StaysRemoved, LoneRegistry!None
  <2> QED
    BY <2>1, <2>4, <2>5
<1>3. Inv => Renamed!HooksServed
  BY DEF RenameInv
<1>4. Inv /\ [PartNext]_partVars => [Registry!OpPublish \/ Registry!SweepPublish => \A n \in Other : reg'[n] = reg[n]]_(Registry!vars)
  BY <1>2
<1>5. Inv /\ [PartNext]_partVars =>
        [Registry!SweepPublish => \A r \in Named : reg[r] = Registry!Foreign => reg'[r] = Registry!Foreign]_(Registry!vars)
  BY <1>2
<1>6. Inv /\ [PartNext]_partVars => [part = "lone_registry" => LoneRegistry!StaysRemoved]_regVars
  BY <1>2
<1>7. Inv /\ [PartNext]_partVars =>
        [\A r \in {"reviewer", "fixer"} : <<r, "old">> \in routes \ routes' =>
           \A h \in Hook : On[h] = r => url[h] = "new" /\ h \in answered]_(Renamed!vars)
  BY <1>2 DEF OldGone
<1> HIDE DEF Inv
<1> QED
  BY <1>1, <1>2, <1>3, <1>4, <1>5, <1>6, <1>7, PTL
  DEF PartSpec, RoutesKept, Registry!OthersKept, Registry!ForeignKept, Renamed!ProvenFirst

-----------------------------------------------------------------------------
(* The sweeps of one loop (Sweep), for any of them where a stall persists   *)
(* and for one where it may clear and come back.  The mark that a stall was *)
(* alerted is in the file before its line is printed, so a mark that is due *)
(* again means that the line, if it was printed at all, is due again; and   *)
(* who is past the lock with a line has its mark there, which keeps every   *)
(* other sweep from making that line.                                       *)

Sw(Ss, C, F) == INSTANCE Sweep WITH Sweeper <- Ss, MayClear <- C, Faults <- F

SweepConst(Ss, C) ==
  /\ "nobody" \notin Ss /\ C \in BOOLEAN /\ (C => \E x : Ss = {x})
  /\ Cooldown \in Nat \ {0} /\ Failures \in Nat \ {0} /\ {"blind", "work_again"} \cap PR = {}

SwAge == -1..Cooldown
SwWatch == [marks : [PR -> SwAge], armed : BOOLEAN, old : SUBSET PR, fails : 0..Failures,
            said : BOOLEAN, read : SwAge, kicks : SUBSET PR]
SwRec == [at : {"out", "begin", "observe", "judge", "rest", "spent", "print"}, mem : SwWatch, todo : SUBSET PR,
          raised : SUBSET PR, blind : SUBSET PR, failing : BOOLEAN, lines : SUBSET (PR \cup {"blind", "work_again"})]
SwTyped(Ss) ==
  /\ stalled \subseteq PR /\ watch \in SwWatch /\ sw \in [Ss -> SwRec] /\ quiet \in [PR -> SwAge]

SwDue(p) == quiet[p] \in {-1, Cooldown}
SwLocked == {"begin", "observe", "judge", "rest"}
\* A sweep has the pull request among its lines, or will when its alerts become lines.
SwHas(s, p) == p \in sw[s].lines \/ (sw[s].at = "judge" /\ p \in sw[s].raised)

SwLock(Ss) == \A s \in Ss : (sw[s].at \in SwLocked) <=> (lock = s)
\* What the sweep that holds the lock remembers is the file, but for what it has seen not to stall.
SwSame(Ss) ==
  \A s \in Ss : sw[s].at \in SwLocked =>
    /\ sw[s].mem.old = watch.old /\ sw[s].mem.armed = watch.armed
    /\ \A p \in PR :
         \/ sw[s].mem.marks[p] = watch.marks[p]
         \/ /\ sw[s].at = "judge" /\ sw[s].mem.marks[p] = -1 /\ p \notin sw[s].todo /\ quiet[p] = -1
            /\ \A t \in Ss : ~SwHas(t, p)
\* A line that is not due again has a mark that is not.
SwFresh == \A p \in PR : SwDue(p) \/ (0 <= watch.marks[p] /\ watch.marks[p] <= quiet[p])
SwPending(Ss, C) ==
  \A s \in Ss, p \in PR :
    /\ p \in sw[s].lines => watch.marks[p] = 0 /\ sw[s].at \in {"rest", "spent", "print"}
    /\ SwHas(s, p) =>
         /\ SwDue(p) /\ watch.armed /\ p \notin watch.old /\ (C \/ p \in stalled)
         /\ sw[s].at = "judge" => p \notin sw[s].todo
         /\ \A t \in Ss \ {s} : ~SwHas(t, p)
    /\ sw[s].at = "judge" => watch.armed
    /\ sw[s].at \in {"begin", "observe"} => sw[s].raised = {}
SwAbsent == \A p \in PR : p \notin stalled \/ p \in watch.old \/ ~watch.armed => quiet[p] = -1
SwInv(Ss, C) == SwTyped(Ss) /\ SwLock(Ss) /\ SwSame(Ss) /\ SwFresh /\ SwPending(Ss, C) /\ SwAbsent

\* A step of one sweep: the others are where they were.
SwOne(Ss, s) == sw' \in [Ss -> SwRec] /\ \A t \in Ss \ {s} : sw'[t] = sw[t]

LEMMA SwInit ==
  ASSUME NEW Ss, NEW C, NEW F, SweepConst(Ss, C), Sw(Ss, C, F)!Init PROVE SwInv(Ss, C)
<1>1. /\ stalled = {} /\ lock = "nobody" /\ quiet = [p \in PR |-> -1]
      /\ watch = [marks |-> [p \in PR |-> -1], armed |-> FALSE, old |-> {}, fails |-> 0,
                  said |-> FALSE, read |-> -1, kicks |-> {}]
      /\ sw = [s \in Ss |-> [at |-> "out", mem |-> watch, todo |-> {}, raised |-> {}, blind |-> {},
                              failing |-> FALSE, lines |-> {}]]
  BY DEF Sw!Init, Sw!EmptyWatch, Sw!OutSweep, Sw!Never, Sw!NoSweeper
<1>2. watch \in SwWatch /\ watch.marks = [p \in PR |-> -1] /\ ~watch.armed
  BY <1>1 DEF SweepConst, SwWatch, SwAge
<1>3. sw \in [Ss -> SwRec] /\ \A s \in Ss : sw[s].at = "out" /\ sw[s].lines = {} /\ sw[s].raised = {}
  BY <1>1, <1>2 DEF SwRec
<1>4. SwTyped(Ss)
  <2>1. -1 \in SwAge
    BY DEF SwAge, SweepConst
  <2>2. quiet \in [PR -> SwAge]
    BY <1>1, <2>1
  <2> QED
    BY <1>1, <1>2, <1>3, <2>2 DEF SwTyped
<1>5. SwLock(Ss) /\ SwSame(Ss)
  BY <1>1, <1>3 DEF SwLock, SwSame, SwLocked, SweepConst
<1>6. SwFresh /\ SwPending(Ss, C) /\ SwAbsent
  BY <1>1, <1>2, <1>3 DEF SwFresh, SwDue, SwPending, SwHas, SwAbsent
<1> QED
  BY <1>4, <1>5, <1>6 DEF SwInv

\* The world: stalls come and, where one sweep runs, go; time passes while no sweep does.
LEMMA SwWorld ==
  ASSUME NEW Ss, NEW C, NEW F, SweepConst(Ss, C), SwInv(Ss, C),
         \/ Sw(Ss, C, F)!Calm \/ Sw(Ss, C, F)!Tick
         \/ \E p \in PR : Sw(Ss, C, F)!Stall(p) \/ Sw(Ss, C, F)!Clear(p)
  PROVE  SwInv(Ss, C)'
<1> USE DEF SwInv
<1>1. CASE Sw(Ss, C, F)!Calm
  BY <1>1
  DEF Sw!Calm, Sw!printed, SwTyped, SwLock, SwSame, SwFresh, SwDue, SwPending, SwHas, SwAbsent
<1>2. CASE Sw(Ss, C, F)!Tick
  <2>1. \A s \in Ss, p \in PR : sw[s].at = "out" /\ p \notin sw[s].lines /\ ~SwHas(s, p)
    BY <1>2 DEF Sw!Tick, SwPending, SwHas
  <2>2. /\ watch' = [watch EXCEPT !.marks = [p \in PR |-> Sw(Ss, C, F)!Older(@[p])], !.read = Sw(Ss, C, F)!Older(@)]
        /\ quiet' = [p \in PR |-> Sw(Ss, C, F)!Older(quiet[p])] /\ UNCHANGED <<stalled, lock, sw>>
    BY <1>2 DEF Sw!Tick, Sw!world
  <2>3. \A a \in SwAge : /\ Sw(Ss, C, F)!Older(a) \in SwAge
                         /\ a \in {-1, Cooldown} => Sw(Ss, C, F)!Older(a) = a
                         /\ a \notin {-1, Cooldown} => Sw(Ss, C, F)!Older(a) = a + 1
    BY DEF SwAge, SweepConst, Sw!Older, Sw!Never
  <2>4. watch' \in SwWatch /\ watch'.armed = watch.armed /\ watch'.old = watch.old
        /\ \A p \in PR : watch'.marks[p] = Sw(Ss, C, F)!Older(watch.marks[p])
    BY <2>2, <2>3, Zenon DEF SwTyped, SwWatch
  <2>5. quiet' \in [PR -> SwAge]
    BY <2>2, <2>3 DEF SwTyped
  <2>6. SwTyped(Ss)' /\ SwLock(Ss)'
    BY <2>2, <2>4, <2>5 DEF SwTyped, SwLock
  <2>7. SwFresh'
    <3> SUFFICES ASSUME NEW p \in PR PROVE quiet'[p] \in {-1, Cooldown} \/ (0 <= watch'.marks[p] /\ watch'.marks[p] <= quiet'[p])
      BY DEF SwFresh, SwDue
    <3>1. quiet[p] \in SwAge /\ watch.marks[p] \in SwAge
      BY DEF SwTyped, SwWatch
    <3>2. quiet'[p] = Sw(Ss, C, F)!Older(quiet[p]) /\ watch'.marks[p] = Sw(Ss, C, F)!Older(watch.marks[p])
      BY <2>2, <2>4
    <3>3. quiet[p] \in {-1, Cooldown} \/ (0 <= watch.marks[p] /\ watch.marks[p] <= quiet[p])
      BY DEF SwFresh, SwDue
    <3> QED
      BY <2>3, <3>1, <3>2, <3>3 DEF SwAge, SweepConst
  <2>8. SwAbsent'
    BY <2>2, <2>3, <2>4 DEF SwAbsent, SwTyped, SwAge, SweepConst
  <2>9. SwSame(Ss)' /\ SwPending(Ss, C)'
    BY <2>1, <2>2 DEF SwSame, SwLocked, SwPending, SwHas
  <2> QED
    BY <2>6, <2>7, <2>8, <2>9
<1>3. ASSUME NEW p \in PR, Sw(Ss, C, F)!Stall(p) PROVE SwInv(Ss, C)'
  BY <1>3
  DEF Sw!Stall, Sw!printed, SwTyped, SwLock, SwSame, SwFresh, SwDue, SwPending, SwHas, SwAbsent
<1>4. ASSUME NEW p \in PR, Sw(Ss, C, F)!Clear(p) PROVE SwInv(Ss, C)'
  <2>1. C /\ stalled' = stalled \ {p} /\ quiet' = [quiet EXCEPT ![p] = -1] /\ UNCHANGED <<watch, lock, sw>>
    BY <1>4 DEF Sw!Clear, Sw!Never
  <2>2. quiet' \in [PR -> SwAge] /\ quiet'[p] = -1 /\ \A q \in PR \ {p} : quiet'[q] = quiet[q]
    BY <2>1 DEF SwTyped, SwAge, SweepConst
  <2>3. SwTyped(Ss)' /\ SwLock(Ss)'
    BY <2>1, <2>2 DEF SwTyped, SwLock
  <2>4. SwFresh' /\ SwAbsent'
    BY <2>1, <2>2 DEF SwFresh, SwDue, SwAbsent
  <2>5. SwSame(Ss)'
    BY <2>1, <2>2 DEF SwSame, SwHas
  <2>6. SwPending(Ss, C)'
    BY <2>1, <2>2 DEF SwPending, SwHas, SwDue
  <2> QED
    BY <2>3, <2>4, <2>5, <2>6
<1> QED
  BY <1>1, <1>2, <1>3, <1>4

\* Steps that leave the marks and what sweeps have: the file's counts of failed reads, the end of a run.
LEMMA SwQuiet ==
  ASSUME NEW Ss, NEW C, SweepConst(Ss, C), SwInv(Ss, C), NEW s \in Ss,
         SwOne(Ss, s), UNCHANGED <<stalled, quiet>>, watch' \in SwWatch,
         watch'.old = watch.old, watch'.armed = watch.armed, watch'.marks = watch.marks,
         SwLock(Ss)',
         sw'[s].at \in {"out", "begin", "observe", "rest", "spent", "print"},
         \A p \in PR : p \in sw'[s].lines => p \in sw[s].lines /\ sw'[s].at \in {"rest", "spent", "print"},
         sw'[s].at \in {"begin", "observe"} => sw'[s].raised = {},
         sw'[s].at \in SwLocked => /\ sw'[s].mem.old = watch.old /\ sw'[s].mem.armed = watch.armed
                                   /\ sw'[s].mem.marks = watch.marks
  PROVE  SwInv(Ss, C)'
<1> USE DEF SwInv
<1>1. \A t \in Ss, p \in PR : SwHas(t, p)' => SwHas(t, p)
  BY DEF SwOne, SwHas
<1>2. SwTyped(Ss)'
  BY DEF SwTyped, SwOne
<1>3. SwFresh' /\ SwAbsent'
  BY DEF SwFresh, SwDue, SwAbsent
<1>4. SwSame(Ss)'
  <2> SUFFICES ASSUME NEW t \in Ss, sw'[t].at \in SwLocked
               PROVE  /\ sw'[t].mem.old = watch'.old /\ sw'[t].mem.armed = watch'.armed
                      /\ \A p \in PR :
                           \/ sw'[t].mem.marks[p] = watch'.marks[p]
                           \/ /\ sw'[t].at = "judge" /\ sw'[t].mem.marks[p] = -1 /\ p \notin sw'[t].todo /\ quiet'[p] = -1
                              /\ \A u \in Ss : ~SwHas(u, p)'
    BY DEF SwSame
  <2>1. CASE t = s
    BY <2>1
  <2>2. CASE t # s
    <3>1. sw'[t] = sw[t]
      BY <2>2 DEF SwOne
    <3> QED
      BY <1>1, <3>1 DEF SwSame
  <2> QED
    BY <2>1, <2>2
<1>5. SwPending(Ss, C)'
  <2> SUFFICES ASSUME NEW t \in Ss, NEW p \in PR
               PROVE  /\ p \in sw'[t].lines => watch'.marks[p] = 0 /\ sw'[t].at \in {"rest", "spent", "print"}
                      /\ SwHas(t, p)' =>
                           /\ SwDue(p)' /\ watch'.armed /\ p \notin watch'.old /\ (C \/ p \in stalled')
                           /\ sw'[t].at = "judge" => p \notin sw'[t].todo
                           /\ \A u \in Ss \ {t} : ~SwHas(u, p)'
                      /\ sw'[t].at = "judge" => watch'.armed
                      /\ sw'[t].at \in {"begin", "observe"} => sw'[t].raised = {}
    BY DEF SwPending
  <2>1. CASE t = s
    BY <1>1, <2>1 DEF SwPending, SwDue
  <2>2. CASE t # s
    <3>1. sw'[t] = sw[t]
      BY <2>2 DEF SwOne
    <3> QED
      BY <1>1, <3>1 DEF SwPending, SwDue
  <2> QED
    BY <2>1, <2>2
<1> QED
  BY <1>2, <1>3, <1>4, <1>5

\* The record of a failed read leaves the marks, and its line is no pull request.
LEMMA SwReadFailed ==
  ASSUME NEW Ss, NEW C, NEW F, SweepConst(Ss, C), NEW STATE m, m \in SwWatch
  PROVE  /\ Sw(Ss, C, F)!ReadFailed(m).mem \in SwWatch
         /\ Sw(Ss, C, F)!ReadFailed(m).mem.marks = m.marks
         /\ Sw(Ss, C, F)!ReadFailed(m).mem.old = m.old
         /\ Sw(Ss, C, F)!ReadFailed(m).mem.armed = m.armed
         /\ Sw(Ss, C, F)!ReadFailed(m).lines \subseteq {"blind"}
<1> DEFINE n == IF m.fails = Failures THEN Failures ELSE m.fails + 1
           tell == n = Failures /\ Sw(Ss, C, F)!Due(m.read)
           w == [m EXCEPT !.fails = n, !.said = @ \/ tell, !.read = IF tell THEN 0 ELSE @]
<1>1. Sw(Ss, C, F)!ReadFailed(m) = [mem |-> w, lines |-> IF tell THEN {"blind"} ELSE {}]
  BY DEF Sw!ReadFailed
<1>2. n \in 0..Failures /\ tell \in BOOLEAN /\ (IF tell THEN 0 ELSE m.read) \in SwAge /\ (m.said \/ tell) \in BOOLEAN
  BY DEF SweepConst, SwWatch, SwAge
<1> HIDE DEF n, tell
<1>3. w \in SwWatch /\ w.marks = m.marks /\ w.old = m.old /\ w.armed = m.armed
  BY <1>2 DEF SwWatch
<1> HIDE DEF w
<1> QED
  BY <1>1, <1>3

\* A run's steps that leave the marks.
LEMMA SwRuns ==
  ASSUME NEW Ss, NEW C, NEW F, SweepConst(Ss, C), SwInv(Ss, C), NEW s \in Ss,
         \/ Sw(Ss, C, F)!Begin(s) \/ Sw(Ss, C, F)!Raise(s) \/ Sw(Ss, C, F)!Spend(s)
         \/ Sw(Ss, C, F)!SpentIsCounted(s) \/ Sw(Ss, C, F)!Kill(s)
  PROVE  SwInv(Ss, C)'
<1> USE DEF SwInv
<1>0. s # "nobody" /\ watch \in SwWatch /\ sw \in [Ss -> SwRec] /\ sw[s] \in SwRec
  BY DEF SweepConst, SwTyped
<1>1. CASE Sw(Ss, C, F)!Begin(s)
  <2> DEFINE x == [[at |-> "out", mem |-> watch, todo |-> {}, raised |-> {}, blind |-> {},
                    failing |-> FALSE, lines |-> {}] EXCEPT !.at = "begin"]
  <2>1. sw' = [sw EXCEPT ![s] = x] /\ lock = "nobody" /\ lock' = s /\ UNCHANGED <<stalled, quiet, watch>>
    BY <1>1 DEF Sw!Begin, Sw!OutSweep, Sw!NoSweeper, Sw!world, Sw!printed
  <2>2. x \in SwRec /\ x.at = "begin" /\ x.mem = watch /\ x.lines = {} /\ x.raised = {}
    BY <1>0 DEF SwRec
  <2> HIDE DEF x
  <2>3. SwOne(Ss, s) /\ sw'[s] = x
    BY <1>0, <2>1, <2>2 DEF SwOne
  <2>4. SwLock(Ss)'
    BY <1>0, <2>1, <2>2, <2>3 DEF SwLock, SwOne, SwLocked, SweepConst
  <2> QED
    BY <1>0, <2>1, <2>2, <2>3, <2>4, SwQuiet
<1>2. CASE Sw(Ss, C, F)!Kill(s)
  <2> DEFINE x == Sw(Ss, C, F)!OutSweep(Sw(Ss, C, F)!EmptyWatch)
  <2>1. /\ sw' = [sw EXCEPT ![s] = x] /\ lock' = IF lock = s THEN "nobody" ELSE lock
        /\ UNCHANGED <<stalled, quiet, watch>>
    BY <1>2 DEF Sw!Kill, Sw!NoSweeper, Sw!world, Sw!printed
  <2>2. Sw(Ss, C, F)!EmptyWatch \in SwWatch
    <3>1. -1 \in SwAge
      BY DEF SwAge, SweepConst
    <3> QED
      BY <3>1 DEF Sw!EmptyWatch, SwWatch, SweepConst, Sw!Never
  <2>3. x \in SwRec /\ x.at = "out" /\ x.lines = {} /\ x.raised = {}
    BY <2>2 DEF SwRec, Sw!OutSweep
  <2> HIDE DEF x
  <2>4. SwOne(Ss, s) /\ sw'[s] = x
    BY <1>0, <2>1, <2>3 DEF SwOne
  <2>5. SwLock(Ss)'
    BY <1>0, <2>1, <2>3, <2>4 DEF SwLock, SwOne, SwLocked, SweepConst
  <2> QED
    BY <1>0, <2>1, <2>3, <2>4, <2>5, SwQuiet DEF SwLocked
<1>3. CASE Sw(Ss, C, F)!Raise(s) \/ Sw(Ss, C, F)!Spend(s)
  <2>1. PICK place \in {"print", "spent"} :
          /\ sw' = [sw EXCEPT ![s] = [sw[s] EXCEPT !.at = place]] /\ lock' = "nobody" /\ sw[s].at \in SwLocked
          /\ sw[s].at \in {"rest", "judge"} /\ UNCHANGED <<stalled, quiet, watch>>
    BY <1>0, <1>3 DEF Sw!Raise, Sw!Spend, Sw!NoSweeper, Sw!world, Sw!printed, SwLocked
  <2> DEFINE x == [sw[s] EXCEPT !.at = place]
  <2>2. x \in SwRec /\ x.at = place /\ x.lines = sw[s].lines
    BY <1>0 DEF SwRec
  <2> HIDE DEF x
  <2>3. SwOne(Ss, s) /\ sw'[s] = x
    BY <1>0, <2>1, <2>2 DEF SwOne, x
  <2>4. SwLock(Ss)'
    BY <1>0, <2>1, <2>2, <2>3 DEF SwLock, SwOne, SwLocked, SweepConst
  <2> QED
    BY <1>0, <2>1, <2>2, <2>3, <2>4, SwQuiet DEF SwLocked
<1>4. CASE Sw(Ss, C, F)!SpentIsCounted(s)
  <2> DEFINE f == Sw(Ss, C, F)!ReadFailed(watch)
             x == [sw[s] EXCEPT !.at = "print", !.lines = @ \cup f.lines]
  <2>1. /\ sw[s].at = "spent" /\ watch' = f.mem /\ UNCHANGED <<stalled, quiet, lock>>
        /\ sw' = [sw EXCEPT ![s].at = "print", ![s].lines = @ \cup f.lines]
    BY <1>4 DEF Sw!SpentIsCounted, Sw!world, Sw!printed
  <2>2. /\ f.mem \in SwWatch /\ f.mem.marks = watch.marks /\ f.mem.old = watch.old /\ f.mem.armed = watch.armed
        /\ f.lines \subseteq {"blind"}
    BY <1>0, SwReadFailed
  <2> HIDE DEF f
  <2>3. sw' = [sw EXCEPT ![s] = x]
    BY <1>0, <2>1 DEF SwRec
  <2>4. x \in SwRec /\ x.at = "print" /\ x.lines \subseteq sw[s].lines \cup {"blind"}
    BY <1>0, <2>2 DEF SwRec
  <2> HIDE DEF x
  <2>5. SwOne(Ss, s) /\ sw'[s] = x
    BY <1>0, <2>3, <2>4 DEF SwOne
  <2>6. SwLock(Ss)'
    BY <1>0, <2>1, <2>4, <2>5 DEF SwLock, SwOne, SwLocked, SweepConst
  <2>7. \A p \in PR : p \in x.lines => p \in sw[s].lines
    BY <2>4 DEF SweepConst
  <2> QED
    BY <1>0, <2>1, <2>2, <2>4, <2>5, <2>6, <2>7, SwQuiet DEF SwLocked
<1> QED
  BY <1>1, <1>2, <1>3, <1>4

LEMMA SwHealth ==
  ASSUME NEW Ss, NEW C, NEW F, SweepConst(Ss, C), SwInv(Ss, C), NEW s \in Ss, Sw(Ss, C, F)!Health(s)
  PROVE  SwInv(Ss, C)'
<1> USE DEF SwInv
<1>0. s # "nobody" /\ watch \in SwWatch /\ sw \in [Ss -> SwRec] /\ sw[s] \in SwRec /\ sw[s].mem \in SwWatch
  BY DEF SweepConst, SwTyped, SwRec
<1> DEFINE f == Sw(Ss, C, F)!ReadFailed(sw[s].mem)
<1>1. /\ f.mem \in SwWatch /\ f.mem.marks = sw[s].mem.marks /\ f.mem.old = sw[s].mem.old /\ f.mem.armed = sw[s].mem.armed
      /\ f.lines \subseteq {"blind"}
  BY <1>0, SwReadFailed
<1>2. /\ sw[s].at = "begin" /\ UNCHANGED <<stalled, quiet>>
      /\ \/ sw' = [sw EXCEPT ![s].at = "observe"] /\ UNCHANGED <<watch, lock>>
         \/ /\ watch' = f.mem /\ lock' = "nobody"
            /\ sw' = [sw EXCEPT ![s].at = "print", ![s].lines = f.lines]
         \/ /\ sw' = [sw EXCEPT ![s].at = "observe", ![s].mem = f.mem, ![s].failing = TRUE, ![s].lines = f.lines]
            /\ UNCHANGED <<watch, lock>>
  BY DEF Sw!Health, Sw!world, Sw!printed, Sw!NoSweeper
<1> HIDE DEF f
<1>3. /\ sw[s].mem.marks = watch.marks /\ sw[s].mem.old = watch.old /\ sw[s].mem.armed = watch.armed
      /\ sw[s].raised = {} /\ lock = s /\ \A p \in PR : p \notin sw[s].lines
  <2>1. \A p \in PR : sw[s].mem.marks[p] = watch.marks[p]
    BY <1>2 DEF SwSame, SwLocked
  <2>2. sw[s].mem.marks = watch.marks
    BY <1>0, <2>1 DEF SwWatch
  <2>3. sw[s].mem.old = watch.old /\ sw[s].mem.armed = watch.armed
    BY <1>2 DEF SwSame, SwLocked
  <2>4. sw[s].raised = {}
    <3>1. \A p \in PR : sw[s].raised = {}
      BY <1>2 DEF SwPending
    <3> QED
      BY <1>0, <3>1 DEF SwRec
  <2>5. lock = s
    BY <1>2 DEF SwLock, SwLocked
  <2>6. \A p \in PR : p \notin sw[s].lines
    BY <1>2 DEF SwPending
  <2> QED
    BY <2>2, <2>3, <2>4, <2>5, <2>6
<1>4. \A p \in PR : p \notin f.lines
  BY <1>1 DEF SweepConst
<1>5. CASE sw' = [sw EXCEPT ![s].at = "observe"] /\ UNCHANGED <<watch, lock>>
  <2> DEFINE x == [sw[s] EXCEPT !.at = "observe"]
  <2>1. sw' = [sw EXCEPT ![s] = x]
    BY <1>0, <1>5 DEF SwRec
  <2>2. x \in SwRec /\ x.at = "observe" /\ x.lines = sw[s].lines /\ x.raised = {} /\ x.mem = sw[s].mem
    BY <1>0, <1>3 DEF SwRec
  <2> HIDE DEF x
  <2>3. SwOne(Ss, s) /\ sw'[s] = x
    BY <1>0, <2>1, <2>2 DEF SwOne
  <2>4. SwLock(Ss)'
    BY <1>2, <1>3, <1>5, <2>2, <2>3 DEF SwLock, SwOne, SwLocked
  <2> QED
    BY <1>0, <1>2, <1>3, <1>5, <2>2, <2>3, <2>4, SwQuiet
<1>6. CASE watch' = f.mem /\ lock' = "nobody" /\ sw' = [sw EXCEPT ![s].at = "print", ![s].lines = f.lines]
  <2> DEFINE x == [sw[s] EXCEPT !.at = "print", !.lines = f.lines]
  <2>1. sw' = [sw EXCEPT ![s] = x]
    BY <1>0, <1>6 DEF SwRec
  <2>2. x \in SwRec /\ x.at = "print" /\ x.lines = f.lines
    BY <1>0, <1>1 DEF SwRec
  <2> HIDE DEF x
  <2>3. SwOne(Ss, s) /\ sw'[s] = x
    BY <1>0, <2>1, <2>2 DEF SwOne
  <2>4. SwLock(Ss)'
    BY <1>0, <1>3, <1>6, <2>2, <2>3 DEF SwLock, SwOne, SwLocked, SweepConst
  <2> QED
    BY <1>0, <1>1, <1>2, <1>3, <1>4, <1>6, <2>2, <2>3, <2>4, SwQuiet DEF SwLocked
<1>7. CASE /\ sw' = [sw EXCEPT ![s].at = "observe", ![s].mem = f.mem, ![s].failing = TRUE, ![s].lines = f.lines]
           /\ UNCHANGED <<watch, lock>>
  <2> DEFINE x == [sw[s] EXCEPT !.at = "observe", !.mem = f.mem, !.failing = TRUE, !.lines = f.lines]
  <2>1. sw' = [sw EXCEPT ![s] = x]
    BY <1>0, <1>7 DEF SwRec
  <2>2. x \in SwRec /\ x.at = "observe" /\ x.lines = f.lines /\ x.raised = {} /\ x.mem = f.mem
    BY <1>0, <1>1, <1>3 DEF SwRec
  <2> HIDE DEF x
  <2>3. SwOne(Ss, s) /\ sw'[s] = x
    BY <1>0, <2>1, <2>2 DEF SwOne
  <2>4. SwLock(Ss)'
    BY <1>2, <1>3, <1>7, <2>2, <2>3 DEF SwLock, SwOne, SwLocked
  <2> QED
    BY <1>0, <1>1, <1>2, <1>3, <1>4, <1>7, <2>2, <2>3, <2>4, SwQuiet
<1> QED
  BY <1>2, <1>5, <1>6, <1>7

\* Without a listing of the heads there is nothing to judge; with one, the snapshot of the first
\* sweep is of stalls that nothing was printed about.
LEMMA SwObserve ==
  ASSUME NEW Ss, NEW C, NEW F, SweepConst(Ss, C), SwInv(Ss, C), NEW s \in Ss, Sw(Ss, C, F)!Observe(s)
  PROVE  SwInv(Ss, C)'
<1> USE DEF SwInv
<1>0. /\ s # "nobody" /\ watch \in SwWatch /\ sw \in [Ss -> SwRec] /\ sw[s] \in SwRec /\ sw[s].mem \in SwWatch
      /\ stalled \subseteq PR
  BY DEF SweepConst, SwTyped, SwRec
<1> DEFINE old == IF sw[s].mem.armed THEN sw[s].mem.old \cap stalled ELSE stalled
           m == [sw[s].mem EXCEPT !.armed = TRUE, !.old = old]
           place == IF sw[s].mem.armed THEN "judge" ELSE "rest"
           x == [sw[s] EXCEPT !.mem = m, !.todo = PR, !.at = place]
<1>1. /\ sw[s].at = "observe" /\ watch' = m /\ UNCHANGED <<stalled, quiet, lock>>
      /\ sw' = [sw EXCEPT ![s].mem = m, ![s].todo = PR, ![s].at = place]
  <2>1. m = [sw[s].mem EXCEPT !.armed = TRUE, !.old = IF sw[s].mem.armed THEN @ \cap stalled ELSE stalled]
    BY <1>0 DEF SwWatch
  <2> HIDE DEF m
  <2> QED
    BY <2>1 DEF Sw!Observe, Sw!world, Sw!printed
<1>2. /\ \A p \in PR : sw[s].mem.marks[p] = watch.marks[p]
      /\ sw[s].mem.old = watch.old /\ sw[s].mem.armed = watch.armed /\ lock = s
      /\ \A p \in PR : p \notin sw[s].lines /\ p \notin sw[s].raised
  BY <1>1 DEF SwSame, SwLocked, SwPending, SwLock
<1>3. /\ m \in SwWatch /\ m.armed = TRUE /\ m.old = old /\ \A p \in PR : m.marks[p] = watch.marks[p]
  BY <1>0, <1>2 DEF SwWatch
<1>4. sw' = [sw EXCEPT ![s] = x]
  BY <1>0, <1>1 DEF SwRec
<1>5. /\ x \in SwRec /\ x.at = place /\ x.mem = m /\ x.todo = PR /\ x.raised = sw[s].raised /\ x.lines = sw[s].lines
      /\ place \in {"judge", "rest"}
  BY <1>0, <1>3 DEF SwRec
<1>6. \A p \in PR : p \notin old => p \notin watch.old \/ p \notin stalled
  BY <1>2
<1>7. \A p \in PR : p \in old => p \in stalled /\ (watch.armed => p \in watch.old)
  BY <1>2
<1>8. \A p \in PR : ~watch.armed /\ p \notin old => p \notin stalled
  BY <1>2
<1> HIDE DEF x, m, old, place
<1>9. SwOne(Ss, s) /\ sw'[s] = x
  BY <1>0, <1>4, <1>5 DEF SwOne
<1>10. \A t \in Ss, p \in PR : SwHas(t, p)' => SwHas(t, p) /\ t # s
  BY <1>2, <1>5, <1>9 DEF SwHas, SwOne
<1>11. \A t \in Ss \ {s} : sw'[t] = sw[t] /\ sw[t].at \notin SwLocked
  BY <1>1, <1>2, <1>9 DEF SwOne, SwLock
<1>12. SwTyped(Ss)' /\ SwLock(Ss)'
  <2>1. SwTyped(Ss)'
    BY <1>1, <1>3, <1>9 DEF SwTyped, SwOne
  <2>2. SwLock(Ss)'
    BY <1>1, <1>2, <1>5, <1>9, <1>11 DEF SwLock, SwLocked
  <2> QED
    BY <2>1, <2>2
<1>13. SwSame(Ss)'
  BY <1>1, <1>3, <1>5, <1>9, <1>11 DEF SwSame
<1>14. SwFresh' /\ SwAbsent'
  <2>1. SwFresh'
    BY <1>1, <1>3 DEF SwFresh, SwDue
  <2>2. SwAbsent'
    BY <1>1, <1>3, <1>6, <1>7, <1>8 DEF SwAbsent
  <2> QED
    BY <2>1, <2>2
<1>15. SwPending(Ss, C)'
  <2> SUFFICES ASSUME NEW t \in Ss, NEW p \in PR
               PROVE  /\ p \in sw'[t].lines => watch'.marks[p] = 0 /\ sw'[t].at \in {"rest", "spent", "print"}
                      /\ SwHas(t, p)' =>
                           /\ SwDue(p)' /\ watch'.armed /\ p \notin watch'.old /\ (C \/ p \in stalled')
                           /\ sw'[t].at = "judge" => p \notin sw'[t].todo
                           /\ \A u \in Ss \ {t} : ~SwHas(u, p)'
                      /\ sw'[t].at = "judge" => watch'.armed
                      /\ sw'[t].at \in {"begin", "observe"} => sw'[t].raised = {}
    BY DEF SwPending
  <2>1. CASE t = s
    BY <1>1, <1>2, <1>3, <1>5, <1>9, <1>10, <2>1
  <2>2. CASE t # s
    <3>1. sw'[t] = sw[t] /\ sw[t].at \notin SwLocked
      BY <1>11, <2>2
    <3>2. p \in sw[t].lines => watch'.marks[p] = 0 /\ sw[t].at \in {"rest", "spent", "print"}
      BY <1>1, <1>3 DEF SwPending
    <3>3. SwHas(t, p) => /\ SwDue(p) /\ watch.armed /\ p \notin watch.old /\ (C \/ p \in stalled)
                         /\ \A u \in Ss \ {t} : ~SwHas(u, p)
      BY DEF SwPending
    <3>4. SwHas(t, p)' => SwHas(t, p)
      BY <1>10
    <3> QED
      BY <1>1, <1>3, <1>7, <1>10, <3>1, <3>2, <3>3, <3>4 DEF SwLocked, SwDue
  <2> QED
    BY <2>1, <2>2
<1> QED
  BY <1>12, <1>13, <1>14, <1>15

\* One pull request is judged: it is raised only where its mark is due, and then nobody has it and
\* its line, if it was printed, is due again; its mark is forgotten only where it does not stall.
LEMMA SwJudge ==
  ASSUME NEW Ss, NEW C, NEW F, SweepConst(Ss, C), SwInv(Ss, C), NEW s \in Ss, NEW q \in PR,
         Sw(Ss, C, F)!Judge(s, q)
  PROVE  SwInv(Ss, C)'
<1> USE DEF SwInv
<1>0. /\ s # "nobody" /\ watch \in SwWatch /\ sw \in [Ss -> SwRec] /\ sw[s] \in SwRec /\ sw[s].mem \in SwWatch
      /\ stalled \subseteq PR /\ quiet \in [PR -> SwAge]
  BY DEF SweepConst, SwTyped, SwRec
<1> DEFINE stall == q \in stalled /\ q \notin sw[s].mem.old
           kick == stall /\ q \notin sw[s].mem.kicks
           raise == stall /\ sw[s].mem.marks[q] \in {-1, Cooldown}
           raised == IF raise THEN sw[s].raised \cup {q} ELSE sw[s].raised
           mark == IF stall THEN sw[s].mem.marks[q] ELSE -1
           kicks == IF kick THEN sw[s].mem.kicks \cup {q} ELSE sw[s].mem.kicks
           m == [sw[s].mem EXCEPT !.marks = [@ EXCEPT ![q] = mark], !.kicks = kicks]
           unread == sw[s].todo \ {q}
           x == [sw[s] EXCEPT !.todo = unread, !.raised = raised, !.mem = m]
           y == [sw[s] EXCEPT !.todo = unread, !.blind = @ \cup {q}]
<1>1. /\ sw[s].at = "judge" /\ q \in sw[s].todo /\ UNCHANGED <<stalled, quiet, lock, watch>>
      /\ \/ sw' = [sw EXCEPT ![s].todo = @ \ {q},
                  ![s].raised = IF stall /\ Sw(Ss, C, F)!Due(sw[s].mem.marks[q]) THEN @ \cup {q} ELSE @,
                  ![s].mem.marks[q] = IF stall THEN @ ELSE -1,
                  ![s].mem.kicks = IF kick THEN @ \cup {q} ELSE @]
         \/ sw' = [sw EXCEPT ![s].todo = @ \ {q}, ![s].blind = @ \cup {q}]
  BY Zenon DEF Sw!Judge, Sw!world, Sw!printed, Sw!Never
<1>2. sw' = [sw EXCEPT ![s] = x] \/ sw' = [sw EXCEPT ![s] = y]
  <2>1. Sw(Ss, C, F)!Due(sw[s].mem.marks[q]) <=> sw[s].mem.marks[q] \in {-1, Cooldown}
    BY DEF Sw!Due, Sw!Never
  <2>2. ASSUME sw' = [sw EXCEPT ![s].todo = @ \ {q},
                  ![s].raised = IF stall /\ Sw(Ss, C, F)!Due(sw[s].mem.marks[q]) THEN @ \cup {q} ELSE @,
                  ![s].mem.marks[q] = IF stall THEN @ ELSE -1,
                  ![s].mem.kicks = IF kick THEN @ \cup {q} ELSE @]
        PROVE  sw' = [sw EXCEPT ![s] = x]
    <3>1. sw' = [sw EXCEPT ![s].todo = unread, ![s].raised = raised, ![s].mem.marks[q] = mark, ![s].mem.kicks = kicks]
      BY <1>0, <2>1, <2>2 DEF SwRec, SwWatch
    <3> HIDE DEF unread, raised, mark, kicks
    <3>2. m = [sw[s].mem EXCEPT !.marks[q] = mark, !.kicks = kicks]
      BY <1>0 DEF SwWatch
    <3>3. [sw[s] EXCEPT !.todo = unread, !.raised = raised, !.mem.marks[q] = mark, !.mem.kicks = kicks] = x
      BY <1>0, <3>2 DEF SwRec, SwWatch
    <3> QED
      BY <1>0, <3>1, <3>3 DEF SwRec
  <2>3. ASSUME sw' = [sw EXCEPT ![s].todo = @ \ {q}, ![s].blind = @ \cup {q}] PROVE sw' = [sw EXCEPT ![s] = y]
    BY <1>0, <2>3 DEF SwRec
  <2> HIDE DEF x, y, stall, kick
  <2> QED
    BY <1>1, <2>2, <2>3, Zenon
<1>3. /\ lock = s /\ sw[s].mem.old = watch.old /\ sw[s].mem.armed = watch.armed /\ watch.armed
      /\ \A p \in PR : \/ sw[s].mem.marks[p] = watch.marks[p]
                       \/ /\ sw[s].mem.marks[p] = -1 /\ p \notin sw[s].todo /\ quiet[p] = -1
                          /\ \A t \in Ss : ~SwHas(t, p)
      /\ \A p \in PR : p \notin sw[s].lines
  BY <1>1, Zenon DEF SwSame, SwLocked, SwPending, SwLock
<1>4. sw[s].mem.marks[q] = watch.marks[q] /\ ~SwHas(s, q)
  BY <1>1, <1>3 DEF SwPending
<1>5. \A t \in Ss \ {s} : sw[t].at \notin SwLocked
  BY <1>3 DEF SwLock
<1>6. raise => /\ \A t \in Ss : ~SwHas(t, q)
               /\ SwDue(q)
  <2> SUFFICES ASSUME raise PROVE (\A t \in Ss : ~SwHas(t, q)) /\ SwDue(q)
    OBVIOUS
  <2>1. watch.marks[q] \in {-1, Cooldown} /\ Cooldown \in Nat \ {0}
    BY <1>4 DEF SweepConst
  <2>2. \A t \in Ss : q \notin sw[t].lines
    BY <2>1 DEF SwPending
  <2>3. \A t \in Ss : ~SwHas(t, q)
    BY <1>4, <1>5, <2>2 DEF SwHas, SwLocked
  <2>4. quiet[q] \in SwAge
    BY <1>0
  <2>5. SwDue(q)
    BY <2>1, <2>4 DEF SwFresh, SwDue, SwAge
  <2> QED
    BY <2>3, <2>5
<1>7. ~stall => quiet[q] = -1 /\ \A t \in Ss : ~SwHas(t, q)
  <2> SUFFICES ASSUME ~stall PROVE quiet[q] = -1 /\ \A t \in Ss : ~SwHas(t, q)
    OBVIOUS
  <2>1. q \notin stalled \/ q \in watch.old
    BY <1>3
  <2>2. \A t \in Ss : SwHas(t, q) => (C \/ q \in stalled) /\ q \notin watch.old
    BY DEF SwPending
  <2>3. C => \A t \in Ss : t = s
    BY DEF SweepConst
  <2> QED
    BY <1>4, <2>1, <2>2, <2>3 DEF SwAbsent
<1>8. /\ m \in SwWatch /\ m.old = sw[s].mem.old /\ m.armed = sw[s].mem.armed
      /\ \A p \in PR \ {q} : m.marks[p] = sw[s].mem.marks[p]
      /\ m.marks[q] = mark
  <2>1. mark \in SwAge
    BY <1>0 DEF SwWatch, SwAge, SweepConst
  <2> HIDE DEF mark
  <2> QED
    BY <1>0, <2>1 DEF SwWatch
<1>9. PICK z \in {x, y} : sw' = [sw EXCEPT ![s] = z]
  BY <1>2
<1>10. /\ z \in SwRec /\ z.at = "judge" /\ z.todo = unread /\ z.lines = sw[s].lines
       /\ \/ z.mem = m /\ z.raised = raised
          \/ z.mem = sw[s].mem /\ z.raised = sw[s].raised
  <2>1. raised \in SUBSET PR /\ unread \in SUBSET PR
    BY <1>0 DEF SwRec
  <2> HIDE DEF m, raised, unread
  <2>2. CASE z = x
    BY <1>0, <1>1, <1>8, <2>1, <2>2 DEF SwRec
  <2>3. CASE z = y
    BY <1>0, <1>1, <2>1, <2>3 DEF SwRec
  <2> QED
    BY <1>9, <2>2, <2>3
<1>11. \A p \in PR : p \in z.raised => p \in sw[s].raised \/ (p = q /\ raise)
  BY <1>10
<1>12. \A p \in PR : \/ z.mem.marks[p] = watch.marks[p]
                     \/ /\ z.mem.marks[p] = -1 /\ p \notin unread /\ quiet[p] = -1 /\ \A t \in Ss : ~SwHas(t, p)
  <2> SUFFICES ASSUME NEW p \in PR
               PROVE  \/ z.mem.marks[p] = watch.marks[p]
                      \/ /\ z.mem.marks[p] = -1 /\ p \notin unread /\ quiet[p] = -1 /\ \A t \in Ss : ~SwHas(t, p)
    OBVIOUS
  <2>1. p # q => z.mem.marks[p] = sw[s].mem.marks[p]
    BY <1>8, <1>10
  <2>2. p = q => z.mem.marks[q] = sw[s].mem.marks[q] \/ (~stall /\ z.mem.marks[q] = -1)
    BY <1>8, <1>10
  <2> QED
    BY <1>3, <1>4, <1>7, <2>1, <2>2
<1>13. z.mem.old = watch.old /\ z.mem.armed = watch.armed
  BY <1>3, <1>8, <1>10
<1>14. raise => stall /\ q \in stalled /\ q \notin watch.old
  BY <1>3
<1>15. \A p \in PR : z.raised # sw[s].raised => raise
  BY <1>10
<1>16. unread = sw[s].todo \ {q}
  OBVIOUS
<1>17. \A p \in PR : p = q /\ p \in z.raised => z.mem.marks[p] = watch.marks[p]
  <2>1. q \notin sw[s].raised
    BY <1>1, <1>4 DEF SwHas
  <2> QED
    BY <1>4, <1>8, <1>10, <2>1
<1> HIDE DEF x, y, m, raised, mark, unread, kick, raise, stall
<1>18. SwOne(Ss, s) /\ sw'[s] = z
  BY <1>0, <1>9, <1>10 DEF SwOne
<1>19. \A t \in Ss, p \in PR : SwHas(t, p)' => SwHas(t, p) \/ (t = s /\ p = q /\ raise)
  <2> SUFFICES ASSUME NEW t \in Ss, NEW p \in PR, SwHas(t, p)'
               PROVE  SwHas(t, p) \/ (t = s /\ p = q /\ raise)
    OBVIOUS
  <2>1. sw[s].at = "judge" /\ z.lines = sw[s].lines
    BY <1>1, <1>10
  <2>2. CASE t = s
    BY <1>11, <1>18, <2>1, <2>2 DEF SwHas
  <2>3. CASE t # s
    BY <1>18, <2>3 DEF SwHas, SwOne
  <2> QED
    BY <2>2, <2>3
<1>20. SwTyped(Ss)' /\ SwLock(Ss)'
  <2>1. SwTyped(Ss)'
    BY <1>1, <1>18 DEF SwTyped, SwOne
  <2>2. SwLock(Ss)'
    BY <1>1, <1>10, <1>18 DEF SwLock, SwOne, SwLocked
  <2> QED
    BY <2>1, <2>2
<1>21. SwFresh' /\ SwAbsent'
  BY <1>1 DEF SwFresh, SwDue, SwAbsent
<1>22. SwSame(Ss)'
  <2> SUFFICES ASSUME NEW t \in Ss, sw'[t].at \in SwLocked
               PROVE  /\ sw'[t].mem.old = watch'.old /\ sw'[t].mem.armed = watch'.armed
                      /\ \A p \in PR :
                           \/ sw'[t].mem.marks[p] = watch'.marks[p]
                           \/ /\ sw'[t].at = "judge" /\ sw'[t].mem.marks[p] = -1 /\ p \notin sw'[t].todo /\ quiet'[p] = -1
                              /\ \A u \in Ss : ~SwHas(u, p)'
    BY DEF SwSame
  <2>1. t = s
    BY <1>5, <1>18 DEF SwOne
  <2>2. ASSUME NEW p \in PR, z.mem.marks[p] # watch.marks[p] PROVE \A u \in Ss : ~SwHas(u, p)'
    <3>1. \A u \in Ss : ~SwHas(u, p)
      BY <1>12, <2>2
    <3>2. p = q => ~(p \in z.raised)
      BY <1>17, <2>2
    <3>3. z.lines = sw[s].lines /\ ~SwHas(s, p)'
      BY <1>3, <1>10, <1>18, <1>11, <1>1, <3>1, <3>2 DEF SwHas
    <3> QED
      BY <1>19, <3>1, <3>3
  <2> QED
    BY <1>1, <1>10, <1>12, <1>13, <1>18, <2>1, <2>2
<1>23. SwPending(Ss, C)'
  <2> SUFFICES ASSUME NEW t \in Ss, NEW p \in PR
               PROVE  /\ p \in sw'[t].lines => watch'.marks[p] = 0 /\ sw'[t].at \in {"rest", "spent", "print"}
                      /\ SwHas(t, p)' =>
                           /\ SwDue(p)' /\ watch'.armed /\ p \notin watch'.old /\ (C \/ p \in stalled')
                           /\ sw'[t].at = "judge" => p \notin sw'[t].todo
                           /\ \A u \in Ss \ {t} : ~SwHas(u, p)'
                      /\ sw'[t].at = "judge" => watch'.armed
                      /\ sw'[t].at \in {"begin", "observe"} => sw'[t].raised = {}
    BY DEF SwPending
  <2>1. p \in sw'[t].lines => watch'.marks[p] = 0 /\ sw'[t].at \in {"rest", "spent", "print"}
    <3>1. CASE t = s
      BY <1>3, <1>10, <1>18, <3>1
    <3>2. CASE t # s
      BY <1>1, <1>18, <3>2 DEF SwPending, SwOne
    <3> QED
      BY <3>1, <3>2
  <2>2. SwHas(t, p)' => /\ SwDue(p)' /\ watch'.armed /\ p \notin watch'.old /\ (C \/ p \in stalled')
                        /\ sw'[t].at = "judge" => p \notin sw'[t].todo
    <3>1. CASE SwHas(t, p)
      <4>1. SwDue(p) /\ watch.armed /\ p \notin watch.old /\ (C \/ p \in stalled)
            /\ (sw[t].at = "judge" => p \notin sw[t].todo)
        BY <3>1 DEF SwPending
      <4>2. sw'[t].at = "judge" => p \notin sw'[t].todo
        <5>1. CASE t = s
          BY <1>1, <1>10, <1>16, <1>18, <4>1, <5>1
        <5>2. CASE t # s
          BY <1>18, <4>1, <5>2 DEF SwOne
        <5> QED
          BY <5>1, <5>2
      <4> QED
        BY <1>1, <4>1, <4>2 DEF SwDue
    <3>2. CASE t = s /\ p = q /\ raise
      <4>1. SwDue(p) /\ p \in stalled /\ p \notin watch.old
        BY <1>6, <1>14, <3>2
      <4>2. watch.armed
        BY <1>3
      <4>3. p \notin sw'[t].todo
        BY <1>10, <1>16, <1>18, <3>2
      <4> QED
        BY <1>1, <4>1, <4>2, <4>3 DEF SwDue
    <3> QED
      BY <1>19, <3>1, <3>2
  <2>3. SwHas(t, p)' => \A u \in Ss \ {t} : ~SwHas(u, p)'
    <3> SUFFICES ASSUME SwHas(t, p)', NEW u \in Ss \ {t}, SwHas(u, p)' PROVE FALSE
      OBVIOUS
    <3>1. CASE SwHas(t, p) /\ SwHas(u, p)
      BY <3>1 DEF SwPending
    <3>2. CASE p = q /\ raise
      BY <1>6, <1>19, <3>2
    <3> QED
      BY <1>19, <3>1, <3>2
  <2>4. sw'[t].at = "judge" => watch'.armed
    BY <1>1, <1>3
  <2>5. sw'[t].at \in {"begin", "observe"} => sw'[t].raised = {}
    BY <1>10, <1>18 DEF SwPending, SwOne
  <2> QED
    BY <2>1, <2>2, <2>3, <2>4, <2>5
<1> QED
  BY <1>20, <1>21, <1>22, <1>23

\* The alerts become lines with their marks in the file: nobody else has them, so nobody else's
\* mark is overwritten by what this sweep remembers.
LEMMA SwDecide ==
  ASSUME NEW Ss, NEW C, NEW F, SweepConst(Ss, C), SwInv(Ss, C), NEW s \in Ss, Sw(Ss, C, F)!Decide(s)
  PROVE  SwInv(Ss, C)'
<1> USE DEF SwInv
<1>0. /\ s # "nobody" /\ watch \in SwWatch /\ sw \in [Ss -> SwRec] /\ sw[s] \in SwRec /\ sw[s].mem \in SwWatch
      /\ stalled \subseteq PR /\ quiet \in [PR -> SwAge]
  BY DEF SweepConst, SwTyped, SwRec
<1> DEFINE marks == [p \in PR |-> IF p \in sw[s].raised THEN 0 ELSE sw[s].mem.marks[p]]
           m == [sw[s].mem EXCEPT !.marks = marks]
           x == [sw[s] EXCEPT !.at = "rest", !.mem = m, !.lines = @ \cup sw[s].raised]
<1>1. /\ sw[s].at = "judge" /\ watch' = m /\ UNCHANGED <<stalled, quiet, lock>>
      /\ sw' = [sw EXCEPT ![s].at = "rest", ![s].mem = m, ![s].lines = @ \cup sw[s].raised]
  BY Zenon DEF Sw!Decide, Sw!Stamped, Sw!world, Sw!printed
<1>2. /\ lock = s /\ sw[s].mem.old = watch.old /\ sw[s].mem.armed = watch.armed
      /\ \A p \in PR : \/ sw[s].mem.marks[p] = watch.marks[p]
                       \/ quiet[p] = -1 /\ \A t \in Ss : ~SwHas(t, p)
      /\ \A p \in PR : p \notin sw[s].lines
  BY <1>1, Zenon DEF SwSame, SwLocked, SwPending, SwLock
<1>3. \A t \in Ss \ {s} : sw[t].at \notin SwLocked
  BY <1>2 DEF SwLock
<1>4. /\ m \in SwWatch /\ m.old = watch.old /\ m.armed = watch.armed /\ m.marks = marks
  <2>1. 0 \in SwAge
    BY DEF SwAge, SweepConst
  <2>2. marks \in [PR -> SwAge]
    BY <1>0, <2>1 DEF SwWatch
  <2> HIDE DEF marks
  <2> QED
    BY <1>0, <1>2, <2>2 DEF SwWatch
<1>5. sw' = [sw EXCEPT ![s] = x]
  BY <1>0, <1>1, Zenon DEF SwRec
<1>6. x \in SwRec /\ x.at = "rest" /\ x.mem = m /\ x.lines = sw[s].lines \cup sw[s].raised /\ x.raised = sw[s].raised
  BY <1>0, <1>4, Zenon DEF SwRec
<1>7. \A p \in PR : p \in sw[s].raised => marks[p] = 0 /\ SwHas(s, p)
  BY <1>1, Zenon DEF SwHas
<1>8. \A p \in PR : p \notin sw[s].raised => \/ marks[p] = watch.marks[p]
                                             \/ quiet[p] = -1 /\ \A t \in Ss : ~SwHas(t, p)
  BY <1>2
<1> HIDE DEF x, m, marks
<1>9. SwOne(Ss, s) /\ sw'[s] = x
  BY <1>0, <1>5, <1>6 DEF SwOne
<1>10. \A t \in Ss, p \in PR : SwHas(t, p)' => SwHas(t, p)
  BY <1>1, <1>2, <1>6, <1>9 DEF SwHas, SwOne
<1>11. SwTyped(Ss)' /\ SwLock(Ss)'
  <2>1. SwTyped(Ss)'
    BY <1>1, <1>4, <1>9 DEF SwTyped, SwOne
  <2>2. SwLock(Ss)'
    BY <1>1, <1>2, <1>6, <1>9 DEF SwLock, SwOne, SwLocked
  <2> QED
    BY <2>1, <2>2
<1>12. SwFresh' /\ SwAbsent'
  <2>1. SwFresh'
    <3> SUFFICES ASSUME NEW p \in PR PROVE SwDue(p) \/ (0 <= watch'.marks[p] /\ watch'.marks[p] <= quiet[p])
      BY <1>1 DEF SwFresh, SwDue
    <3>1. CASE p \in sw[s].raised
      BY <1>7, <3>1 DEF SwPending
    <3>2. CASE p \notin sw[s].raised
      BY <1>1, <1>4, <1>8, <3>2 DEF SwFresh, SwDue
    <3> QED
      BY <3>1, <3>2
  <2>2. SwAbsent'
    BY <1>1, <1>4 DEF SwAbsent
  <2> QED
    BY <2>1, <2>2
<1>13. SwSame(Ss)'
  <2> SUFFICES ASSUME NEW t \in Ss, sw'[t].at \in SwLocked
               PROVE  /\ sw'[t].mem.old = watch'.old /\ sw'[t].mem.armed = watch'.armed
                      /\ \A p \in PR : sw'[t].mem.marks[p] = watch'.marks[p]
    BY DEF SwSame
  <2>1. t = s
    BY <1>3, <1>9 DEF SwOne
  <2> QED
    BY <1>1, <1>6, <1>9, <2>1
<1>14. SwPending(Ss, C)'
  <2> SUFFICES ASSUME NEW t \in Ss, NEW p \in PR
               PROVE  /\ p \in sw'[t].lines => watch'.marks[p] = 0 /\ sw'[t].at \in {"rest", "spent", "print"}
                      /\ SwHas(t, p)' =>
                           /\ SwDue(p)' /\ watch'.armed /\ p \notin watch'.old /\ (C \/ p \in stalled')
                           /\ sw'[t].at = "judge" => p \notin sw'[t].todo
                           /\ \A u \in Ss \ {t} : ~SwHas(u, p)'
                      /\ sw'[t].at = "judge" => watch'.armed
                      /\ sw'[t].at \in {"begin", "observe"} => sw'[t].raised = {}
    BY DEF SwPending
  <2>1. SwHas(t, p)' => /\ SwDue(p) /\ watch.armed /\ p \notin watch.old /\ (C \/ p \in stalled)
                        /\ \A u \in Ss \ {t} : ~SwHas(u, p)'
    BY <1>10 DEF SwPending
  <2>2. CASE t = s
    BY <1>1, <1>2, <1>4, <1>6, <1>7, <1>9, <2>1, <2>2 DEF SwDue
  <2>3. CASE t # s
    <3>1. sw'[t] = sw[t] /\ sw[t].at \notin SwLocked
      BY <1>3, <1>9, <2>3 DEF SwOne
    <3>2. p \in sw[t].lines => watch.marks[p] = 0 /\ sw[t].at \in {"rest", "spent", "print"} /\ SwHas(t, p)
      BY DEF SwPending, SwHas
    <3>3. p \in sw[t].lines => watch'.marks[p] = 0
      <4>1. SwHas(t, p) => ~SwHas(s, p)
        BY <2>3 DEF SwPending
      <4> QED
        BY <1>1, <1>4, <1>7, <1>8, <3>2, <4>1
    <3> QED
      BY <1>1, <1>4, <2>1, <3>1, <3>2, <3>3 DEF SwLocked, SwDue
  <2> QED
    BY <2>2, <2>3
<1> QED
  BY <1>11, <1>12, <1>13, <1>14

\* The rest of the sweep and its last save leave the marks.
LEMMA SwRest ==
  ASSUME NEW Ss, NEW C, NEW F, SweepConst(Ss, C), SwInv(Ss, C), NEW s \in Ss, Sw(Ss, C, F)!Rest(s)
  PROVE  SwInv(Ss, C)'
<1> USE DEF SwInv
<1>0. /\ s # "nobody" /\ watch \in SwWatch /\ sw \in [Ss -> SwRec] /\ sw[s] \in SwRec /\ sw[s].mem \in SwWatch
  BY DEF SweepConst, SwTyped, SwRec
<1> DEFINE f == Sw(Ss, C, F)!Settled(s)
           x == [sw[s] EXCEPT !.at = "print", !.lines = @ \cup f.lines]
<1>1. /\ sw[s].at = "rest" /\ watch' = f.mem /\ lock' = "nobody" /\ UNCHANGED <<stalled, quiet>>
      /\ sw' = [sw EXCEPT ![s].at = "print", ![s].lines = @ \cup f.lines]
  BY DEF Sw!Rest, Sw!world, Sw!printed, Sw!NoSweeper
<1>2. /\ f.mem \in SwWatch /\ f.mem.marks = sw[s].mem.marks /\ f.mem.old = sw[s].mem.old
      /\ f.mem.armed = sw[s].mem.armed /\ f.lines \subseteq {"blind", "work_again"}
  <2> DEFINE r == Sw(Ss, C, F)!ReadFailed(sw[s].mem)
  <2>1. /\ r.mem \in SwWatch /\ r.mem.marks = sw[s].mem.marks /\ r.mem.old = sw[s].mem.old
        /\ r.mem.armed = sw[s].mem.armed /\ r.lines \subseteq {"blind"}
    BY <1>0, SwReadFailed
  <2> DEFINE w == [sw[s].mem EXCEPT !.fails = 0, !.said = FALSE, !.read = -1]
  <2>2. -1 \in SwAge /\ 0 \in 0..Failures
    BY DEF SwAge, SweepConst
  <2>3. w \in SwWatch /\ w.marks = sw[s].mem.marks /\ w.old = sw[s].mem.old /\ w.armed = sw[s].mem.armed
    BY <1>0, <2>2 DEF SwWatch
  <2>4. \/ f = [mem |-> sw[s].mem, lines |-> {}]
        \/ f = r
        \/ f = [mem |-> w, lines |-> IF sw[s].mem.said THEN {"work_again"} ELSE {}]
    BY DEF Sw!Settled, Sw!Never
  <2> HIDE DEF r, w, f
  <2> QED
    BY <1>0, <2>1, <2>3, <2>4
<1> HIDE DEF f
<1>3. /\ sw[s].mem.marks = watch.marks /\ sw[s].mem.old = watch.old /\ sw[s].mem.armed = watch.armed /\ lock = s
  <2>1. \A p \in PR : sw[s].mem.marks[p] = watch.marks[p]
    BY <1>1 DEF SwSame, SwLocked
  <2>2. sw[s].mem.marks = watch.marks
    BY <1>0, <2>1 DEF SwWatch
  <2> QED
    BY <1>1, <2>2 DEF SwSame, SwLocked, SwLock
<1>4. sw' = [sw EXCEPT ![s] = x]
  BY <1>0, <1>1 DEF SwRec
<1>5. x \in SwRec /\ x.at = "print" /\ x.lines = sw[s].lines \cup f.lines
  BY <1>0, <1>2 DEF SwRec
<1> HIDE DEF x
<1>6. SwOne(Ss, s) /\ sw'[s] = x
  BY <1>0, <1>4, <1>5 DEF SwOne
<1>7. SwLock(Ss)'
  BY <1>0, <1>1, <1>3, <1>5, <1>6 DEF SwLock, SwOne, SwLocked, SweepConst
<1>8. \A p \in PR : p \in x.lines => p \in sw[s].lines
  BY <1>2, <1>5 DEF SweepConst
<1> QED
  BY <1>0, <1>1, <1>2, <1>3, <1>5, <1>6, <1>7, <1>8, SwQuiet DEF SwLocked

\* A line is printed: its mark is there, and nobody else has it.
LEMMA SwSay ==
  ASSUME NEW Ss, NEW C, NEW F, SweepConst(Ss, C), SwInv(Ss, C), NEW s \in Ss, Sw(Ss, C, F)!Say(s)
  PROVE  SwInv(Ss, C)' /\ \A p \in PR : p \in sw[s].lines => quiet[p] \in {-1, Cooldown}
<1> USE DEF SwInv
<1>0. /\ s # "nobody" /\ watch \in SwWatch /\ sw \in [Ss -> SwRec] /\ sw[s] \in SwRec
      /\ stalled \subseteq PR /\ quiet \in [PR -> SwAge]
  BY DEF SweepConst, SwTyped
<1> DEFINE x == Sw(Ss, C, F)!OutSweep(Sw(Ss, C, F)!EmptyWatch)
           q == [p \in PR |-> IF p \in sw[s].lines /\ p \in stalled THEN 0 ELSE quiet[p]]
<1>1. /\ sw[s].at = "print" /\ sw' = [sw EXCEPT ![s] = x] /\ quiet' = q /\ UNCHANGED <<stalled, watch, lock>>
  BY DEF Sw!Say, Sw!world
<1>2. Sw(Ss, C, F)!EmptyWatch \in SwWatch
  <2>1. -1 \in SwAge
    BY DEF SwAge, SweepConst
  <2> QED
    BY <2>1 DEF Sw!EmptyWatch, SwWatch, SweepConst, Sw!Never
<1>3. x \in SwRec /\ x.at = "out" /\ x.lines = {} /\ x.raised = {}
  BY <1>2 DEF SwRec, Sw!OutSweep
<1> HIDE DEF x
<1>4. SwOne(Ss, s) /\ sw'[s] = x
  BY <1>0, <1>1, <1>3 DEF SwOne
<1>5. \A t \in Ss, p \in PR : SwHas(t, p)' => SwHas(t, p) /\ t # s
  BY <1>3, <1>4 DEF SwHas, SwOne
<1>6. q \in [PR -> SwAge]
  BY <1>0 DEF SwAge, SweepConst
<1>7. \A p \in PR : p \in sw[s].lines => /\ SwHas(s, p) /\ watch.marks[p] = 0 /\ SwDue(p) /\ watch.armed
                                         /\ p \notin watch.old /\ \A t \in Ss \ {s} : ~SwHas(t, p)
  <2>1. \A p \in PR : p \in sw[s].lines => SwHas(s, p)
    BY DEF SwHas
  <2> QED
    BY <2>1 DEF SwPending
<1>8. \A p \in PR : \/ q[p] = quiet[p]
                    \/ q[p] = 0 /\ p \in sw[s].lines /\ p \in stalled
  OBVIOUS
<1> HIDE DEF q
<1>9. SwTyped(Ss)' /\ SwLock(Ss)'
  <2>1. SwTyped(Ss)'
    BY <1>1, <1>4, <1>6 DEF SwTyped, SwOne
  <2>2. SwLock(Ss)'
    BY <1>1, <1>3, <1>4 DEF SwLock, SwOne, SwLocked
  <2> QED
    BY <2>1, <2>2
<1>10. SwFresh' /\ SwAbsent'
  <2>1. SwFresh'
    BY <1>1, <1>7, <1>8 DEF SwFresh, SwDue
  <2>2. SwAbsent'
    BY <1>1, <1>7, <1>8 DEF SwAbsent
  <2> QED
    BY <2>1, <2>2
<1>11. \A p \in PR : p \in sw[s].lines => \A t \in Ss : ~SwHas(t, p)'
  BY <1>5, <1>7
<1>12. SwSame(Ss)'
  <2> SUFFICES ASSUME NEW t \in Ss, sw'[t].at \in SwLocked
               PROVE  /\ sw'[t].mem.old = watch'.old /\ sw'[t].mem.armed = watch'.armed
                      /\ \A p \in PR :
                           \/ sw'[t].mem.marks[p] = watch'.marks[p]
                           \/ /\ sw'[t].at = "judge" /\ sw'[t].mem.marks[p] = -1 /\ p \notin sw'[t].todo /\ quiet'[p] = -1
                              /\ \A u \in Ss : ~SwHas(u, p)'
    BY DEF SwSame
  <2>1. t # s /\ sw'[t] = sw[t]
    BY <1>3, <1>4 DEF SwOne, SwLocked
  <2>2. sw[t].mem.old = watch.old /\ sw[t].mem.armed = watch.armed
    BY <2>1 DEF SwSame
  <2>3. ASSUME NEW p \in PR
        PROVE  \/ sw[t].mem.marks[p] = watch.marks[p]
               \/ /\ sw[t].at = "judge" /\ sw[t].mem.marks[p] = -1 /\ p \notin sw[t].todo /\ q[p] = -1
                  /\ \A u \in Ss : ~SwHas(u, p)'
    <3>1. \/ sw[t].mem.marks[p] = watch.marks[p]
          \/ /\ sw[t].at = "judge" /\ sw[t].mem.marks[p] = -1 /\ p \notin sw[t].todo /\ quiet[p] = -1
             /\ \A u \in Ss : ~SwHas(u, p)
      BY <2>1 DEF SwSame
    <3> QED
      BY <1>5, <1>7, <1>8, <3>1
  <2> QED
    BY <1>1, <2>1, <2>2, <2>3
<1>13. SwPending(Ss, C)'
  <2> SUFFICES ASSUME NEW t \in Ss, NEW p \in PR
               PROVE  /\ p \in sw'[t].lines => watch'.marks[p] = 0 /\ sw'[t].at \in {"rest", "spent", "print"}
                      /\ SwHas(t, p)' =>
                           /\ SwDue(p)' /\ watch'.armed /\ p \notin watch'.old /\ (C \/ p \in stalled')
                           /\ sw'[t].at = "judge" => p \notin sw'[t].todo
                           /\ \A u \in Ss \ {t} : ~SwHas(u, p)'
                      /\ sw'[t].at = "judge" => watch'.armed
                      /\ sw'[t].at \in {"begin", "observe"} => sw'[t].raised = {}
    BY DEF SwPending
  <2>1. CASE t = s
    BY <1>3, <1>4, <1>5, <2>1
  <2>2. CASE t # s
    <3>1. sw'[t] = sw[t]
      BY <1>4, <2>2 DEF SwOne
    <3>2. SwHas(t, p)' => p \notin sw[s].lines /\ SwHas(t, p)
      BY <1>5, <1>11
    <3>3. SwHas(t, p)' => SwDue(p)'
      BY <1>1, <1>8, <3>2 DEF SwPending, SwDue
    <3>4. SwHas(t, p) => /\ watch.armed /\ p \notin watch.old /\ (C \/ p \in stalled)
                         /\ sw[t].at = "judge" => p \notin sw[t].todo
                         /\ \A u \in Ss \ {t} : ~SwHas(u, p)
      BY DEF SwPending
    <3>5. /\ p \in sw[t].lines => watch.marks[p] = 0 /\ sw[t].at \in {"rest", "spent", "print"}
          /\ sw[t].at = "judge" => watch.armed
          /\ sw[t].at \in {"begin", "observe"} => sw[t].raised = {}
      BY DEF SwPending
    <3> QED
      BY <1>1, <1>5, <3>1, <3>2, <3>3, <3>4, <3>5
  <2> QED
    BY <2>1, <2>2
<1> QED
  BY <1>7, <1>9, <1>10, <1>12, <1>13 DEF SwDue

LEMMA SwStep ==
  ASSUME NEW Ss, NEW C, NEW F, SweepConst(Ss, C), SwInv(Ss, C),
         Sw(Ss, C, F)!Next \/ UNCHANGED sweepVars
  PROVE  SwInv(Ss, C)' /\ Sw(Ss, C, F)!Unrepeated
<1>1. CASE UNCHANGED sweepVars
  <2>1. UNCHANGED <<stalled, watch, lock, sw, quiet>>
    BY <1>1 DEF sweepVars
  <2>2. SwInv(Ss, C)'
    BY <2>1 DEF SwInv, SwTyped, SwLock, SwSame, SwFresh, SwDue, SwPending, SwHas, SwAbsent
  <2> QED
    BY <2>2, SwSay DEF Sw!Unrepeated, Sw!Never
<1>2. CASE Sw(Ss, C, F)!Next
  <2>1. ASSUME \/ Sw(Ss, C, F)!Calm \/ Sw(Ss, C, F)!Tick
               \/ \E p \in PR : Sw(Ss, C, F)!Stall(p) \/ Sw(Ss, C, F)!Clear(p)
        PROVE  SwInv(Ss, C)'
    BY <2>1, SwWorld
  <2>2. ASSUME NEW s \in Ss,
               Sw(Ss, C, F)!Run(s) \/ Sw(Ss, C, F)!Raise(s) \/ Sw(Ss, C, F)!Spend(s) \/ Sw(Ss, C, F)!Kill(s)
        PROVE  SwInv(Ss, C)'
    BY <2>2, SwRuns, SwHealth, SwObserve, SwJudge, SwDecide, SwRest, SwSay DEF Sw!Run
  <2>3. SwInv(Ss, C)'
    BY <1>2, <2>1, <2>2 DEF Sw!Next
  <2> QED
    BY <2>3, SwSay DEF Sw!Unrepeated, Sw!Never
<1> QED
  BY <1>1, <1>2

\* The part's own sweeps are instances of these.
LEMMA SweepLink ==
  /\ SweepConst({Watchdog}, TRUE) /\ SweepConst(Overlapping, FALSE)
  /\ Sweeps!Init => Sw({Watchdog}, TRUE, {"github", "slow", "raise", "kill"})!Init
  /\ Sweeps!Next => Sw({Watchdog}, TRUE, {"github", "slow", "raise", "kill"})!Next
  /\ Sw({Watchdog}, TRUE, {"github", "slow", "raise", "kill"})!Unrepeated => Sweeps!Unrepeated
  /\ TwoSweeps!Init => Sw(Overlapping, FALSE, {"slow"})!Init
  /\ TwoSweeps!Next => Sw(Overlapping, FALSE, {"slow"})!Next
  /\ Sw(Overlapping, FALSE, {"slow"})!Unrepeated => TwoSweeps!Unrepeated
<1>1. SweepConst({Watchdog}, TRUE) /\ SweepConst(Overlapping, FALSE)
  BY HostAssumption DEF Sweeps!SweepAssumption, TwoSweeps!SweepAssumption, SweepConst
<1>2. Sweeps!Init => Sw({Watchdog}, TRUE, {"github", "slow", "raise", "kill"})!Init
  BY DEF Sweeps!Init, Sweeps!EmptyWatch, Sweeps!OutSweep, Sweeps!Never, Sweeps!NoSweeper,
         Sw!Init, Sw!EmptyWatch, Sw!OutSweep, Sw!Never, Sw!NoSweeper
<1>3. TwoSweeps!Init => Sw(Overlapping, FALSE, {"slow"})!Init
  BY DEF TwoSweeps!Init, TwoSweeps!EmptyWatch, TwoSweeps!OutSweep, TwoSweeps!Never, TwoSweeps!NoSweeper,
         Sw!Init, Sw!EmptyWatch, Sw!OutSweep, Sw!Never, Sw!NoSweeper
<1>4. Sweeps!Next => Sw({Watchdog}, TRUE, {"github", "slow", "raise", "kill"})!Next
  BY Zenon
      DEF Sweeps!Next, Sw!Next, Sweeps!Calm, Sw!Calm, Sweeps!Tick, Sw!Tick, Sweeps!Stall, Sw!Stall,
          Sweeps!Clear, Sw!Clear, Sweeps!Run, Sw!Run, Sweeps!Begin, Sw!Begin, Sweeps!Health, Sw!Health,
          Sweeps!Observe, Sw!Observe, Sweeps!Judge, Sw!Judge, Sweeps!Decide, Sw!Decide, Sweeps!Rest,
          Sw!Rest, Sweeps!SpentIsCounted, Sw!SpentIsCounted, Sweeps!Say, Sw!Say, Sweeps!Raise, Sw!Raise,
          Sweeps!Spend, Sw!Spend, Sweeps!Kill, Sw!Kill, Sweeps!world, Sw!world, Sweeps!printed,
          Sw!printed, Sweeps!Never, Sw!Never, Sweeps!NoSweeper, Sw!NoSweeper, Sweeps!OutSweep,
          Sw!OutSweep, Sweeps!EmptyWatch, Sw!EmptyWatch, Sweeps!Older, Sw!Older, Sweeps!Fault, Sw!Fault,
          Sweeps!Due, Sw!Due, Sweeps!ReadFailed, Sw!ReadFailed, Sweeps!Stamped, Sw!Stamped,
          Sweeps!Settled, Sw!Settled
<1>5. TwoSweeps!Next => Sw(Overlapping, FALSE, {"slow"})!Next
  BY Zenon
      DEF TwoSweeps!Next, Sw!Next, TwoSweeps!Calm, Sw!Calm, TwoSweeps!Tick, Sw!Tick, TwoSweeps!Stall,
          Sw!Stall, TwoSweeps!Clear, Sw!Clear, TwoSweeps!Run, Sw!Run, TwoSweeps!Begin, Sw!Begin,
          TwoSweeps!Health, Sw!Health, TwoSweeps!Observe, Sw!Observe, TwoSweeps!Judge, Sw!Judge,
          TwoSweeps!Decide, Sw!Decide, TwoSweeps!Rest, Sw!Rest, TwoSweeps!SpentIsCounted,
          Sw!SpentIsCounted, TwoSweeps!Say, Sw!Say, TwoSweeps!Raise, Sw!Raise, TwoSweeps!Spend, Sw!Spend,
          TwoSweeps!Kill, Sw!Kill, TwoSweeps!world, Sw!world, TwoSweeps!printed, Sw!printed,
          TwoSweeps!Never, Sw!Never, TwoSweeps!NoSweeper, Sw!NoSweeper, TwoSweeps!OutSweep, Sw!OutSweep,
          TwoSweeps!EmptyWatch, Sw!EmptyWatch, TwoSweeps!Older, Sw!Older, TwoSweeps!Fault, Sw!Fault,
          TwoSweeps!Due, Sw!Due, TwoSweeps!ReadFailed, Sw!ReadFailed, TwoSweeps!Stamped, Sw!Stamped,
          TwoSweeps!Settled, Sw!Settled
<1>6. Sw({Watchdog}, TRUE, {"github", "slow", "raise", "kill"})!Unrepeated => Sweeps!Unrepeated
  BY DEF Sweeps!Unrepeated, Sw!Unrepeated, Sweeps!Say, Sw!Say, Sweeps!OutSweep, Sw!OutSweep, Sweeps!EmptyWatch,
         Sw!EmptyWatch, Sweeps!Never, Sw!Never, Sweeps!world, Sw!world
<1>7. Sw(Overlapping, FALSE, {"slow"})!Unrepeated => TwoSweeps!Unrepeated
  BY DEF TwoSweeps!Unrepeated, Sw!Unrepeated, TwoSweeps!Say, Sw!Say, TwoSweeps!OutSweep, Sw!OutSweep,
         TwoSweeps!EmptyWatch, Sw!EmptyWatch, TwoSweeps!Never, Sw!Never, TwoSweeps!world, Sw!world
<1> QED
  BY <1>1, <1>2, <1>3, <1>4, <1>5, <1>6, <1>7

-----------------------------------------------------------------------------
(* The ledgers of failed gates (GateFailures), for any sweeps, deliveries   *)
(* and faults.  Each step is first reduced to what it does to one entry.    *)

Gf(R, Ss, De, F) == INSTANCE GateFailures WITH MaxRedrives <- R, Sweeper <- Ss, Deliveries <- De,
                                               Faults <- F, sw <- failedSw

GfLedger == {"loop", "fallback"}
GfKey == {"event", "notice"}
GfEntry(R, Ss) == [attempts : Nat, redrives : 0..R, resolved : BOOLEAN, told : Nat, cooled : BOOLEAN,
                   claim : Ss \cup {"nobody"}]
GfSweep == [at : {"out", "drive", "say", "mark", "drop"}, l : GfLedger, k : GfKey, n : Nat, drove : BOOLEAN,
            cover : SUBSET Nat]
GfTyped(R, Ss) ==
  /\ file \in [GfLedger -> [GfKey -> GfEntry(R, Ss)]] /\ failedSw \in [Ss -> GfSweep]
  /\ owed \in [GfLedger -> [GfKey -> SUBSET Nat]] /\ said \in [GfLedger -> [GfKey -> Nat]]
  /\ drives \in [GfLedger -> Nat] /\ torn \subseteq GfLedger /\ copy \subseteq GfLedger

GfRest == <<torn, copy, failedSw, drives, said>>
\* A step that is about one entry leaves the others, and the rest of that one as e and o say.
GfAt(l, k, e, o) ==
  \A m \in GfLedger, j \in GfKey :
    /\ file'[m][j] = IF m = l /\ j = k THEN e ELSE file[m][j]
    /\ owed'[m][j] = IF m = l /\ j = k THEN o ELSE owed[m][j]

LEMMA GfPut ==
  ASSUME NEW S, NEW STATE f, f \in [GfLedger -> [GfKey -> S]], NEW l \in GfLedger, NEW k \in GfKey, NEW STATE e, e \in S,
         NEW STATE g, g = [f EXCEPT ![l][k] = e]
  PROVE  /\ g \in [GfLedger -> [GfKey -> S]]
         /\ \A m \in GfLedger, j \in GfKey : g[m][j] = IF m = l /\ j = k THEN e ELSE f[m][j]
<1> DEFINE inner == [f[l] EXCEPT ![k] = e]
<1>1. g = [f EXCEPT ![l] = inner]
  OBVIOUS
<1>2. inner \in [GfKey -> S] /\ \A j \in GfKey : inner[j] = IF j = k THEN e ELSE f[l][j]
  OBVIOUS
<1> HIDE DEF inner
<1> QED
  BY <1>1, <1>2

LEMMA GfPutOwed ==
  ASSUME owed \in [GfLedger -> [GfKey -> SUBSET Nat]], NEW l \in GfLedger, NEW k \in GfKey, NEW STATE o, o \in SUBSET Nat,
         owed' = [owed EXCEPT ![l][k] = o]
  PROVE  /\ owed' \in [GfLedger -> [GfKey -> SUBSET Nat]]
         /\ \A m \in GfLedger, j \in GfKey : owed'[m][j] = IF m = l /\ j = k THEN o ELSE owed[m][j]
<1> DEFINE S == SUBSET Nat
<1>1. owed \in [GfLedger -> [GfKey -> S]] /\ o \in S
  OBVIOUS
<1> HIDE DEF S
<1>2. /\ owed' \in [GfLedger -> [GfKey -> S]]
      /\ \A m \in GfLedger, j \in GfKey : owed'[m][j] = IF m = l /\ j = k THEN o ELSE owed[m][j]
  BY <1>1, GfPut
<1> QED
  BY <1>2 DEF S

LEMMA GfPutFile ==
  ASSUME NEW R, NEW Ss, GfTyped(R, Ss), NEW l \in GfLedger, NEW k \in GfKey,
         NEW STATE e, e \in GfEntry(R, Ss), file' = [file EXCEPT ![l][k] = e]
  PROVE  /\ file' \in [GfLedger -> [GfKey -> GfEntry(R, Ss)]]
         /\ \A m \in GfLedger, j \in GfKey : file'[m][j] = IF m = l /\ j = k THEN e ELSE file[m][j]
<1>1. file \in [GfLedger -> [GfKey -> GfEntry(R, Ss)]]
  BY DEF GfTyped
<1> QED
  BY <1>1, GfPut

LEMMA GfInit ==
  ASSUME NEW R \in Nat, NEW Ss, NEW De, NEW F, Gf(R, Ss, De, F)!Init
  PROVE  /\ GfTyped(R, Ss) /\ torn = {} /\ copy = {} /\ \A s \in Ss : failedSw[s].at = "out"
         /\ gt = [x \in Gate \cup Ss |-> "idle"]
         /\ \A l \in GfLedger, k \in GfKey :
              /\ file[l][k].attempts = 0 /\ file[l][k].redrives = 0 /\ file[l][k].told = 0
              /\ file[l][k].cooled = TRUE /\ owed[l][k] = {} /\ said[l][k] = 0 /\ drives[l] = 0
<1> DEFINE none == [attempts |-> 0, redrives |-> 0, resolved |-> FALSE, told |-> 0, cooled |-> TRUE,
                    claim |-> "nobody"]
           idle == [at |-> "out", l |-> "loop", k |-> "event", n |-> 0, drove |-> FALSE, cover |-> {}]
<1>1. /\ torn = {} /\ copy = {} /\ file = [l \in GfLedger |-> [k \in GfKey |-> none]]
      /\ failedSw = [s \in Ss |-> idle] /\ owed = [l \in GfLedger |-> [k \in GfKey |-> {}]]
      /\ drives = [l \in GfLedger |-> 0] /\ said = [l \in GfLedger |-> [k \in GfKey |-> 0]]
      /\ gt = [x \in Gate \cup Ss |-> "idle"]
  BY DEF Gf!Init, Gf!NoEntry, Gf!Idle, Gf!Ledger, Gf!Key, Gf!NoSweep, Gf!Runner, GfLedger, GfKey
<1>2. none \in GfEntry(R, Ss) /\ none.attempts = 0 /\ none.redrives = 0 /\ none.told = 0 /\ none.cooled = TRUE
  BY DEF GfEntry
<1>3. idle \in GfSweep /\ idle.at = "out"
  BY DEF GfSweep, GfLedger, GfKey
<1> HIDE DEF none, idle
<1>4. GfTyped(R, Ss)
  BY <1>1, <1>2, <1>3 DEF GfTyped
<1> QED
  BY <1>1, <1>2, <1>3, <1>4

\* Steps of a gate that write no ledger, and the health check of a sweep.
LEMMA GfQuiet ==
  ASSUME NEW R, NEW Ss, NEW De, NEW F,
         \/ \E g \in Gate : Gf(R, Ss, De, F)!Start(g)
         \/ \E x : \/ Gf(R, Ss, De, F)!Fail(x) \/ Gf(R, Ss, De, F)!Complete(x)
                   \/ Gf(R, Ss, De, F)!Busy(x) \/ Gf(R, Ss, De, F)!Own(x)
         \/ Gf(R, Ss, De, F)!Health
  PROVE  UNCHANGED <<file, torn, copy, failedSw, owed, drives, said>>
BY DEF Gf!Start, Gf!Fail, Gf!Complete, Gf!Busy, Gf!Own, Gf!Health

LEMMA GfRecord ==
  ASSUME NEW R \in Nat, NEW Ss, NEW De, NEW F, GfTyped(R, Ss), NEW x, NEW l \in GfLedger,
         Gf(R, Ss, De, F)!Record(x, l)
  PROVE  /\ GfTyped(R, Ss)' /\ l \notin torn /\ UNCHANGED GfRest
         /\ gt[x] = (IF l = "loop" THEN "record_loop" ELSE "record_fallback")
         /\ gt' = [gt EXCEPT ![x] = "own"]
         /\ \E e \in GfEntry(R, Ss) :
              /\ e.attempts = file[l]["event"].attempts + 1 /\ ~e.resolved
              /\ e.redrives = file[l]["event"].redrives /\ e.told = file[l]["event"].told
              /\ e.cooled = file[l]["event"].cooled /\ e.claim = file[l]["event"].claim
              /\ GfAt(l, "event", e, owed[l]["event"] \cup {e.attempts})
<1> DEFINE e == [file[l]["event"] EXCEPT !.attempts = @ + 1, !.resolved = FALSE]
           o == owed[l]["event"] \cup {e.attempts}
<1>1. /\ file' = [file EXCEPT ![l]["event"] = e] /\ owed' = [owed EXCEPT ![l]["event"] = o]
      /\ l \notin torn /\ UNCHANGED GfRest /\ gt[x] = (IF l = "loop" THEN "record_loop" ELSE "record_fallback")
      /\ gt' = [gt EXCEPT ![x] = "own"]
  BY DEF Gf!Record, Gf!Recorded, Gf!Put, Gf!RecordIn, Gf!Ledger, GfLedger, GfRest
<1>2. file[l]["event"] \in GfEntry(R, Ss) /\ owed[l]["event"] \in SUBSET Nat
  BY DEF GfTyped, GfKey
<1>3. /\ e \in GfEntry(R, Ss) /\ e.attempts = file[l]["event"].attempts + 1 /\ ~e.resolved
      /\ e.redrives = file[l]["event"].redrives /\ e.told = file[l]["event"].told
      /\ e.cooled = file[l]["event"].cooled /\ e.claim = file[l]["event"].claim
  <2>1. file[l]["event"].attempts + 1 \in Nat
    BY <1>2 DEF GfEntry
  <2> DEFINE z == file[l]["event"]
             n == z.attempts + 1
  <2>2. z \in GfEntry(R, Ss) /\ n \in Nat /\ e = [z EXCEPT !.attempts = n, !.resolved = FALSE] /\ n = file[l]["event"].attempts + 1
    BY <1>2, <2>1
  <2> HIDE DEF n, e
  <2> QED
    BY <2>2 DEF GfEntry
<1>4. o \in SUBSET Nat /\ o = owed[l]["event"] \cup {e.attempts}
  BY <1>2, <1>3 DEF GfEntry
<1> HIDE DEF e, o
<1>5. /\ file' \in [GfLedger -> [GfKey -> GfEntry(R, Ss)]]
      /\ \A m \in GfLedger, j \in GfKey : file'[m][j] = IF m = l /\ j = "event" THEN e ELSE file[m][j]
  BY <1>1, <1>3, GfPut DEF GfTyped, GfKey
<1>6. /\ owed' \in [GfLedger -> [GfKey -> SUBSET Nat]]
      /\ \A m \in GfLedger, j \in GfKey : owed'[m][j] = IF m = l /\ j = "event" THEN o ELSE owed[m][j]
  <2>1. owed \in [GfLedger -> [GfKey -> SUBSET Nat]] /\ "event" \in GfKey
    BY DEF GfTyped, GfKey
  <2>2. o \in SUBSET Nat /\ owed' = [owed EXCEPT ![l]["event"] = o]
    BY <1>1, <1>4
  <2> QED
    BY <2>1, <2>2, GfPutOwed
<1>7. GfTyped(R, Ss)'
  BY <1>1, <1>5, <1>6 DEF GfTyped, GfRest
<1>8. GfAt(l, "event", e, owed[l]["event"] \cup {e.attempts})
  BY <1>4, <1>5, <1>6 DEF GfAt
<1> QED
  BY <1>1, <1>3, <1>7, <1>8

\* The entries keep all but whether they are resolved.
GfKeep ==
  \A m \in GfLedger, j \in GfKey :
    /\ file'[m][j].attempts = file[m][j].attempts /\ file'[m][j].redrives = file[m][j].redrives
    /\ file'[m][j].told = file[m][j].told /\ file'[m][j].cooled = file[m][j].cooled
    /\ file'[m][j].claim = file[m][j].claim

\* One entry is resolved, or none.
LEMMA GfResolves ==
  ASSUME NEW R \in Nat, NEW Ss, GfTyped(R, Ss), NEW l \in GfLedger, NEW k \in GfKey,
         NEW STATE e, e = [file[l][k] EXCEPT !.resolved = TRUE], file' = [file EXCEPT ![l][k] = e]
  PROVE  /\ file' \in [GfLedger -> [GfKey -> GfEntry(R, Ss)]] /\ GfKeep
         /\ \A m \in GfLedger, j \in GfKey : m # l \/ j # k => file'[m][j] = file[m][j]
<1>1. e \in GfEntry(R, Ss)
      /\ e.attempts = file[l][k].attempts /\ e.redrives = file[l][k].redrives
      /\ e.told = file[l][k].told /\ e.cooled = file[l][k].cooled /\ e.claim = file[l][k].claim
  <2>1. file[l][k] \in GfEntry(R, Ss)
    BY DEF GfTyped
  <2> QED
    BY <2>1 DEF GfEntry
<1>2. /\ file' \in [GfLedger -> [GfKey -> GfEntry(R, Ss)]]
      /\ \A m \in GfLedger, j \in GfKey : file'[m][j] = IF m = l /\ j = k THEN e ELSE file[m][j]
  BY <1>1, GfPutFile
<1> QED
  BY <1>1, <1>2 DEF GfKeep

LEMMA GfResolve ==
  ASSUME NEW R \in Nat, NEW Ss, NEW De, NEW F, GfTyped(R, Ss), NEW x, NEW l \in GfLedger,
         Gf(R, Ss, De, F)!Resolve(x, l)
  PROVE  /\ GfTyped(R, Ss)' /\ UNCHANGED GfRest /\ GfKeep
         /\ gt' = [gt EXCEPT ![x] = IF l = "loop" THEN "resolve_fallback" ELSE "idle"]
         /\ \A m \in GfLedger : /\ owed'[m]["event"] = {} /\ owed'[m]["notice"] = owed[m]["notice"]
                                /\ file'[m]["notice"] = file[m]["notice"]
<1>1. /\ owed' = [m \in GfLedger |-> [owed[m] EXCEPT !["event"] = {}]] /\ UNCHANGED GfRest
      /\ gt' = [gt EXCEPT ![x] = IF l = "loop" THEN "resolve_fallback" ELSE "idle"]
      /\ \/ file' = file
         \/ file' = [file EXCEPT ![l]["event"] = [file[l]["event"] EXCEPT !.resolved = TRUE]]
  BY DEF Gf!Resolve, Gf!Ledger, Gf!Resolved, Gf!Put, GfLedger, GfRest
<1>2. /\ owed' \in [GfLedger -> [GfKey -> SUBSET Nat]]
      /\ \A m \in GfLedger : owed'[m]["event"] = {} /\ owed'[m]["notice"] = owed[m]["notice"]
  BY <1>1 DEF GfTyped, GfKey
<1>3. /\ file' \in [GfLedger -> [GfKey -> GfEntry(R, Ss)]] /\ GfKeep
      /\ \A m \in GfLedger : file'[m]["notice"] = file[m]["notice"]
  <2>1. CASE file' = file
    BY <2>1 DEF GfKeep, GfTyped
  <2>2. CASE file' = [file EXCEPT ![l]["event"] = [file[l]["event"] EXCEPT !.resolved = TRUE]]
    <3>1. "event" \in GfKey /\ "notice" \in GfKey /\ "event" # "notice"
      BY DEF GfKey
    <3> QED
      BY <2>2, <3>1, GfResolves
  <2> QED
    BY <1>1, <2>1, <2>2
<1>4. GfTyped(R, Ss)'
  BY <1>1, <1>2, <1>3 DEF GfTyped, GfRest
<1> QED
  BY <1>1, <1>2, <1>3, <1>4

LEMMA GfNotice ==
  ASSUME NEW R \in Nat, NEW Ss, NEW De, NEW F, GfTyped(R, Ss), NEW s, NEW l \in GfLedger,
         Gf(R, Ss, De, F)!ResolveNotice(s, l)
  PROVE  /\ GfTyped(R, Ss)' /\ UNCHANGED GfRest /\ GfKeep /\ gt' = gt /\ l \notin copy
         /\ owed'[l]["notice"] = {}
         /\ \A m \in GfLedger, j \in GfKey :
              m # l \/ j # "notice" => file'[m][j] = file[m][j] /\ owed'[m][j] = owed[m][j]
<1>1. /\ UNCHANGED GfRest /\ gt' = gt /\ l \notin copy /\ owed' = [owed EXCEPT ![l]["notice"] = {}]
      /\ file' = [file EXCEPT ![l]["notice"] = [file[l]["notice"] EXCEPT !.resolved = TRUE]]
  BY DEF Gf!ResolveNotice, Gf!Resolved, Gf!Put, GfRest
<1>2. "notice" \in GfKey /\ {} \in SUBSET Nat
  BY DEF GfKey
<1>3. /\ file' \in [GfLedger -> [GfKey -> GfEntry(R, Ss)]] /\ GfKeep
      /\ \A m \in GfLedger, j \in GfKey : m # l \/ j # "notice" => file'[m][j] = file[m][j]
  BY <1>1, <1>2, GfResolves
<1>4. owed \in [GfLedger -> [GfKey -> SUBSET Nat]]
  BY DEF GfTyped
<1>5. /\ owed' \in [GfLedger -> [GfKey -> SUBSET Nat]]
      /\ \A m \in GfLedger, j \in GfKey : owed'[m][j] = IF m = l /\ j = "notice" THEN {} ELSE owed[m][j]
  BY <1>1, <1>2, <1>4, GfPutOwed
<1>6. GfTyped(R, Ss)'
  BY <1>1, <1>3, <1>5 DEF GfTyped, GfRest
<1> QED
  BY <1>1, <1>2, <1>3, <1>5, <1>6

LEMMA GfDuplicate ==
  ASSUME NEW R \in Nat, NEW Ss, NEW De, NEW F, GfTyped(R, Ss), NEW s, Gf(R, Ss, De, F)!ResolveDuplicate(s)
  PROVE  /\ GfTyped(R, Ss)' /\ UNCHANGED GfRest /\ GfKeep /\ gt' = gt
         /\ file["fallback"]["event"].attempts > 0
<1>1. /\ UNCHANGED GfRest /\ gt' = gt /\ file["fallback"]["event"].attempts > 0
      /\ owed' = [owed EXCEPT !["fallback"]["event"] = {},
                              !["loop"]["event"] = @ \cup owed["fallback"]["event"]]
      /\ file' = [file EXCEPT !["fallback"]["event"] = [file["fallback"]["event"] EXCEPT !.resolved = TRUE]]
  BY DEF Gf!ResolveDuplicate, Gf!Resolved, Gf!Put, Gf!Open, Gf!Held, GfRest
<1>2. "fallback" \in GfLedger /\ "event" \in GfKey
  BY DEF GfLedger, GfKey
<1>3. file' \in [GfLedger -> [GfKey -> GfEntry(R, Ss)]] /\ GfKeep
  BY <1>1, <1>2, GfResolves
<1>4. owed' \in [GfLedger -> [GfKey -> SUBSET Nat]]
  BY <1>1 DEF GfTyped, GfLedger, GfKey
<1>5. GfTyped(R, Ss)'
  BY <1>1, <1>3, <1>4 DEF GfTyped, GfRest
<1> QED
  BY <1>1, <1>3, <1>5

\* A claim is made of an entry that nobody has, in a ledger that can be read.
GfClaimed(R, Ss, s, l, k) ==
  /\ GfTyped(R, Ss)' /\ UNCHANGED <<torn, copy, owed, said>>
  /\ failedSw[s].at = "out" /\ l \notin torn /\ file[l][k].attempts > 0 /\ file[l][k].claim = "nobody"
  /\ \A t \in Ss \ {s} : failedSw'[t] = failedSw[t]
  /\ failedSw'[s].l = l /\ failedSw'[s].k = k /\ failedSw'[s].cover = owed[l][k]
  /\ failedSw'[s].n = file[l][k].attempts
  /\ \A m \in GfLedger, j \in GfKey : m # l \/ j # k => file'[m][j] = file[m][j]
  /\ file'[l][k].claim = s /\ file'[l][k].attempts = file[l][k].attempts
  /\ file'[l][k].told = file[l][k].told /\ file'[l][k].cooled = file[l][k].cooled
  /\ file'[l][k].resolved = file[l][k].resolved
  /\ \A m \in GfLedger : m # l => drives'[m] = drives[m]
  /\ \/ /\ failedSw'[s].at = "drive" /\ failedSw'[s].drove /\ k = "event"
        /\ file'[l][k].redrives = file[l][k].redrives + 1 /\ drives'[l] = drives[l] + 1
        /\ gt' = [gt EXCEPT ![s] = "main"]
     \/ /\ failedSw'[s].at = "say" /\ ~failedSw'[s].drove
        /\ file[l][k].cooled \/ file[l][k].told # file[l][k].attempts
        /\ file'[l][k].redrives = file[l][k].redrives /\ drives'[l] = drives[l] /\ gt' = gt

LEMMA GfClaim ==
  ASSUME NEW R \in Nat, NEW Ss, NEW De, NEW F, GfTyped(R, Ss), NEW s \in Ss, NEW l \in GfLedger, NEW k \in GfKey,
         Gf(R, Ss, De, F)!Claim(s, l, k)
  PROVE  GfClaimed(R, Ss, s, l, k)
<1> DEFINE e == file[l][k]
<1>0. e \in GfEntry(R, Ss) /\ owed[l][k] \in SUBSET Nat /\ e.attempts \in Nat /\ e.redrives \in 0..R
  BY DEF GfTyped, GfEntry
<1>1. PICK drive \in BOOLEAN :
        /\ drive => k = "event" /\ e.redrives < R
        /\ drive \/ e.cooled \/ e.told # e.attempts
        /\ file' = [file EXCEPT ![l][k] = [e EXCEPT !.claim = s, !.redrives = IF drive THEN @ + 1 ELSE @]]
        /\ failedSw' = [failedSw EXCEPT ![s] = [at |-> IF drive THEN "drive" ELSE "say", l |-> l, k |-> k,
                                   n |-> e.attempts, drove |-> drive, cover |-> owed[l][k]]]
        /\ gt' = IF drive THEN [gt EXCEPT ![s] = "main"] ELSE gt
        /\ drives' = IF drive THEN [drives EXCEPT ![l] = @ + 1] ELSE drives
  BY Zenon DEF Gf!Claim, Gf!May, Gf!Due, Gf!Put, Gf!Claimed
<1>2. /\ UNCHANGED <<torn, copy, owed, said>> /\ failedSw[s].at = "out" /\ l \notin torn
      /\ e.attempts > 0 /\ e.claim = "nobody"
  BY DEF Gf!Claim, Gf!Open, Gf!Held, Gf!NoSweep
<1> DEFINE r == IF drive THEN e.redrives + 1 ELSE e.redrives
           c == [e EXCEPT !.claim = s, !.redrives = r]
           w == [at |-> IF drive THEN "drive" ELSE "say", l |-> l, k |-> k,
                 n |-> e.attempts, drove |-> drive, cover |-> owed[l][k]]
<1>3. r \in 0..R
  BY <1>0, <1>1
<1>4. file' = [file EXCEPT ![l][k] = c] /\ failedSw' = [failedSw EXCEPT ![s] = w]
  BY <1>0, <1>1 DEF GfEntry
<1>5. /\ w \in GfSweep /\ w.at = (IF drive THEN "drive" ELSE "say") /\ w.l = l /\ w.k = k /\ w.n = e.attempts
      /\ w.drove = drive /\ w.cover = owed[l][k]
  BY <1>0 DEF GfSweep
<1> HIDE DEF w
<1>6. /\ c \in GfEntry(R, Ss) /\ c.claim = s /\ c.redrives = r /\ c.attempts = e.attempts /\ c.told = e.told
      /\ c.cooled = e.cooled /\ c.resolved = e.resolved
  <2> HIDE DEF r, e
  <2> QED
    BY <1>0, <1>3 DEF GfEntry
<1> HIDE DEF c
<1>7. /\ file' \in [GfLedger -> [GfKey -> GfEntry(R, Ss)]]
      /\ \A m \in GfLedger, j \in GfKey : file'[m][j] = IF m = l /\ j = k THEN c ELSE file[m][j]
  BY <1>4, <1>6, GfPut DEF GfTyped
<1>8. /\ drives' \in [GfLedger -> Nat] /\ \A m \in GfLedger : m # l => drives'[m] = drives[m]
      /\ drives'[l] = IF drive THEN drives[l] + 1 ELSE drives[l]
  BY <1>1 DEF GfTyped
<1>9. /\ failedSw' \in [Ss -> GfSweep] /\ failedSw'[s] = w /\ \A t \in Ss \ {s} : failedSw'[t] = failedSw[t]
  BY <1>4, <1>5 DEF GfTyped
<1>10. GfTyped(R, Ss)'
  BY <1>2, <1>7, <1>8, <1>9 DEF GfTyped
<1>11. gt' = IF drive THEN [gt EXCEPT ![s] = "main"] ELSE gt
  BY <1>1
<1>12. drive => k = "event"
  BY <1>1
<1>13. drive \/ e.cooled \/ e.told # e.attempts
  BY <1>1
<1>14. CASE drive
  <2>1. /\ w.at = "drive" /\ w.drove /\ k = "event" /\ c.redrives = e.redrives + 1
        /\ drives'[l] = drives[l] + 1 /\ gt' = [gt EXCEPT ![s] = "main"]
    BY <1>5, <1>6, <1>8, <1>11, <1>12, <1>14
  <2> QED
    BY <1>2, <1>5, <1>6, <1>7, <1>8, <1>9, <1>10, <2>1 DEF GfClaimed
<1>15. CASE ~drive
  BY <1>2, <1>5, <1>6, <1>7, <1>8, <1>9, <1>10, <1>11, <1>13, <1>15 DEF GfClaimed
<1> QED
  BY <1>14, <1>15

\* A sweep between its claim and its line goes on with the entry it works on, or is killed.
GfMoved(R, Ss, F, s) ==
  /\ GfTyped(R, Ss)' /\ UNCHANGED <<file, torn, copy, owed, drives, said>>
  /\ \A t \in Ss \ {s} : failedSw'[t] = failedSw[t]
  /\ \/ /\ failedSw[s].at = "drive" /\ failedSw'[s].at \in {"say", "drop"}
        /\ failedSw'[s].at = "drop" => "kill" \in F
        /\ failedSw'[s].l = failedSw[s].l /\ failedSw'[s].k = failedSw[s].k
        /\ failedSw'[s].drove = failedSw[s].drove /\ gt' = [gt EXCEPT ![s] = "idle"]
     \/ failedSw'[s].at = "out" /\ "kill" \in F /\ gt' = gt

\* Steps of a sweep between its claim and its line, and its death.
LEMMA GfMoves ==
  ASSUME NEW R \in Nat, NEW Ss, NEW De, NEW F, GfTyped(R, Ss), NEW s \in Ss,
         \/ Gf(R, Ss, De, F)!Driven(s) \/ Gf(R, Ss, De, F)!GiveUp(s) \/ Gf(R, Ss, De, F)!Kill(s)
  PROVE  GfMoved(R, Ss, F, s)
<1>1. /\ failedSw \in [Ss -> GfSweep] /\ failedSw[s] \in GfSweep
      /\ file[failedSw[s].l][failedSw[s].k].attempts \in Nat /\ owed[failedSw[s].l][failedSw[s].k] \in SUBSET Nat
  <2>1. failedSw \in [Ss -> GfSweep] /\ failedSw[s] \in GfSweep
    BY DEF GfTyped
  <2>2. failedSw[s].l \in GfLedger /\ failedSw[s].k \in GfKey
    BY <2>1 DEF GfSweep
  <2>3. file[failedSw[s].l][failedSw[s].k] \in GfEntry(R, Ss) /\ owed[failedSw[s].l][failedSw[s].k] \in SUBSET Nat
    BY <2>2 DEF GfTyped
  <2> QED
    BY <2>1, <2>3 DEF GfEntry
<1>2. SUFFICES ASSUME NEW w \in GfSweep, failedSw' = [failedSw EXCEPT ![s] = w], UNCHANGED <<file, torn, copy, owed, drives, said>>,
                      \/ /\ failedSw[s].at = "drive" /\ w.at \in {"say", "drop"} /\ (w.at = "drop" => "kill" \in F)
                         /\ w.l = failedSw[s].l /\ w.k = failedSw[s].k
                         /\ w.drove = failedSw[s].drove /\ gt' = [gt EXCEPT ![s] = "idle"]
                      \/ w.at = "out" /\ "kill" \in F /\ gt' = gt
               PROVE  GfMoved(R, Ss, F, s)
  <2>1. CASE Gf(R, Ss, De, F)!Driven(s)
    <3> DEFINE a == [failedSw[s] EXCEPT !.at = "say", !.n = file[failedSw[s].l][failedSw[s].k].attempts,
                                        !.cover = owed[failedSw[s].l][failedSw[s].k]]
               b == [failedSw[s] EXCEPT !.at = "say"]
    <3>1. /\ failedSw[s].at = "drive" /\ gt' = [gt EXCEPT ![s] = "idle"] /\ UNCHANGED <<file, torn, copy, owed, drives, said>>
          /\ failedSw' = [failedSw EXCEPT ![s] = a] \/ failedSw' = [failedSw EXCEPT ![s] = b]
      BY <2>1 DEF Gf!Driven
    <3>2. a \in GfSweep /\ a.at = "say" /\ a.l = failedSw[s].l /\ a.k = failedSw[s].k /\ a.drove = failedSw[s].drove
      BY <1>1 DEF GfSweep
    <3>3. b \in GfSweep /\ b.at = "say" /\ b.l = failedSw[s].l /\ b.k = failedSw[s].k /\ b.drove = failedSw[s].drove
      BY <1>1 DEF GfSweep
    <3> HIDE DEF a, b
    <3> QED
      BY <1>2, <3>1, <3>2, <3>3
  <2>2. CASE Gf(R, Ss, De, F)!GiveUp(s)
    <3> DEFINE b == [failedSw[s] EXCEPT !.at = "drop"]
    <3>1. /\ failedSw[s].at = "drive" /\ gt' = [gt EXCEPT ![s] = "idle"] /\ UNCHANGED <<file, torn, copy, owed, drives, said>>
          /\ "kill" \in F /\ failedSw' = [failedSw EXCEPT ![s] = b]
      BY <1>1, <2>2 DEF Gf!GiveUp
    <3>2. b \in GfSweep /\ b.at = "drop" /\ b.l = failedSw[s].l /\ b.k = failedSw[s].k /\ b.drove = failedSw[s].drove
      BY <1>1 DEF GfSweep
    <3> HIDE DEF b
    <3> QED
      BY <1>2, <3>1, <3>2
  <2>3. CASE Gf(R, Ss, De, F)!Kill(s)
    <3>1. /\ "kill" \in F /\ gt' = gt /\ UNCHANGED <<file, torn, copy, owed, drives, said>>
          /\ failedSw' = [failedSw EXCEPT ![s] = Gf(R, Ss, De, F)!Idle]
      BY <2>3 DEF Gf!Kill
    <3>2. Gf(R, Ss, De, F)!Idle \in GfSweep /\ Gf(R, Ss, De, F)!Idle.at = "out"
      BY DEF Gf!Idle, GfSweep, GfLedger, GfKey
    <3> QED
      BY <1>2, <3>1, <3>2
  <2> QED
    BY <2>1, <2>2, <2>3
<1>3. failedSw' \in [Ss -> GfSweep] /\ failedSw'[s] = w /\ \A t \in Ss \ {s} : failedSw'[t] = failedSw[t]
  BY <1>1, <1>2
<1>4. GfTyped(R, Ss)'
  BY <1>2, <1>3 DEF GfTyped
<1>5. \/ /\ failedSw[s].at = "drive" /\ failedSw'[s].at \in {"say", "drop"}
         /\ failedSw'[s].at = "drop" => "kill" \in F
         /\ failedSw'[s].l = failedSw[s].l /\ failedSw'[s].k = failedSw[s].k
         /\ failedSw'[s].drove = failedSw[s].drove /\ gt' = [gt EXCEPT ![s] = "idle"]
      \/ failedSw'[s].at = "out" /\ "kill" \in F /\ gt' = gt
  <2>1. failedSw'[s] = w
    BY <1>3
  <2> QED
    BY <1>2, <2>1
<1> QED
  BY <1>2, <1>3, <1>4, <1>5 DEF GfMoved

\* The line is printed: the failures that it covers are owed no more.
GfSaid(R, Ss, s) ==
  /\ GfTyped(R, Ss)' /\ UNCHANGED <<file, torn, copy, drives, gt>>
  /\ failedSw[s].at = "say" /\ failedSw'[s].at = "mark"
  /\ failedSw'[s].l = failedSw[s].l /\ failedSw'[s].k = failedSw[s].k /\ failedSw'[s].n = failedSw[s].n
  /\ \A t \in Ss \ {s} : failedSw'[t] = failedSw[t]
  /\ \A m \in GfLedger, j \in GfKey :
       /\ said'[m][j] = IF m = failedSw[s].l /\ j = failedSw[s].k THEN failedSw[s].n ELSE said[m][j]
       /\ owed'[m][j] = IF m = failedSw[s].l /\ j = failedSw[s].k THEN owed[m][j] \ failedSw[s].cover ELSE owed[m][j]

LEMMA GfSay ==
  ASSUME NEW R \in Nat, NEW Ss, NEW De, NEW F, GfTyped(R, Ss), NEW s \in Ss, Gf(R, Ss, De, F)!Say(s)
  PROVE  GfSaid(R, Ss, s)
<1>1. failedSw \in [Ss -> GfSweep] /\ failedSw[s] \in GfSweep
  BY DEF GfTyped
<1>2. failedSw[s].l \in GfLedger /\ failedSw[s].k \in GfKey /\ failedSw[s].n \in Nat
  BY <1>1 DEF GfSweep
<1> DEFINE w == [failedSw[s] EXCEPT !.at = "mark"]
           o == owed[failedSw[s].l][failedSw[s].k] \ failedSw[s].cover
<1>3. /\ failedSw[s].at = "say" /\ failedSw' = [failedSw EXCEPT ![s] = w] /\ UNCHANGED <<file, torn, copy, drives, gt>>
      /\ said' = [said EXCEPT ![failedSw[s].l][failedSw[s].k] = failedSw[s].n]
      /\ owed' = [owed EXCEPT ![failedSw[s].l][failedSw[s].k] = o]
  BY <1>1 DEF Gf!Say
<1>4. w \in GfSweep /\ w.at = "mark" /\ w.l = failedSw[s].l /\ w.k = failedSw[s].k /\ w.n = failedSw[s].n
  BY <1>1 DEF GfSweep
<1>5. owed \in [GfLedger -> [GfKey -> SUBSET Nat]] /\ said \in [GfLedger -> [GfKey -> Nat]]
  BY DEF GfTyped
<1>6. o \in SUBSET Nat
  BY <1>2, <1>5
<1> HIDE DEF w
<1>7. failedSw' \in [Ss -> GfSweep] /\ failedSw'[s] = w /\ \A t \in Ss \ {s} : failedSw'[t] = failedSw[t]
  BY <1>1, <1>3, <1>4
<1>8. /\ said' \in [GfLedger -> [GfKey -> Nat]]
      /\ \A m \in GfLedger, j \in GfKey :
           said'[m][j] = IF m = failedSw[s].l /\ j = failedSw[s].k THEN failedSw[s].n ELSE said[m][j]
  BY <1>2, <1>3, <1>5, GfPut
<1>9. \A m \in GfLedger, j \in GfKey :
        m = failedSw[s].l /\ j = failedSw[s].k => o = owed[m][j] \ failedSw[s].cover
  OBVIOUS
<1> HIDE DEF o
<1>10. /\ owed' \in [GfLedger -> [GfKey -> SUBSET Nat]]
       /\ \A m \in GfLedger, j \in GfKey :
            owed'[m][j] = IF m = failedSw[s].l /\ j = failedSw[s].k THEN o ELSE owed[m][j]
  BY <1>2, <1>3, <1>5, <1>6, GfPutOwed
<1>11. GfTyped(R, Ss)'
  BY <1>3, <1>7, <1>8, <1>10 DEF GfTyped
<1>12. \A m \in GfLedger, j \in GfKey :
         owed'[m][j] = IF m = failedSw[s].l /\ j = failedSw[s].k THEN owed[m][j] \ failedSw[s].cover ELSE owed[m][j]
  BY <1>9, <1>10
<1>13. failedSw'[s].at = "mark" /\ failedSw'[s].l = failedSw[s].l /\ failedSw'[s].k = failedSw[s].k
       /\ failedSw'[s].n = failedSw[s].n
  BY <1>4, <1>7
<1> QED
  BY <1>3, <1>7, <1>8, <1>11, <1>12, <1>13 DEF GfSaid

\* A claim that is still the sweep's is given up, with what its line named if it said one.
GfReleased(R, Ss, s) ==
  /\ GfTyped(R, Ss)' /\ UNCHANGED <<torn, copy, drives, gt, owed, said>>
  /\ failedSw[s].at \in {"mark", "drop"} /\ failedSw'[s].at = "out"
  /\ \A t \in Ss \ {s} : failedSw'[t] = failedSw[t]
  /\ \A m \in GfLedger, j \in GfKey : m # failedSw[s].l \/ j # failedSw[s].k => file'[m][j] = file[m][j]
  /\ LET e == file[failedSw[s].l][failedSw[s].k]
         d == file'[failedSw[s].l][failedSw[s].k]
     IN \/ d = e /\ ~(e.attempts > 0 /\ e.claim = s)
        \/ /\ e.attempts > 0 /\ e.claim = s /\ d.claim = "nobody" /\ d.attempts = e.attempts
           /\ d.redrives = e.redrives /\ d.resolved = e.resolved
           /\ IF failedSw[s].at = "mark" THEN d.told = failedSw[s].n /\ ~d.cooled
                                         ELSE d.told = e.told /\ d.cooled = e.cooled

LEMMA GfRelease ==
  ASSUME NEW R \in Nat, NEW Ss, NEW De, NEW F, GfTyped(R, Ss), NEW s \in Ss, Gf(R, Ss, De, F)!Release(s)
  PROVE  GfReleased(R, Ss, s)
<1>1. failedSw \in [Ss -> GfSweep] /\ failedSw[s] \in GfSweep
  BY DEF GfTyped
<1>2. failedSw[s].l \in GfLedger /\ failedSw[s].k \in GfKey /\ failedSw[s].n \in Nat
  BY <1>1 DEF GfSweep
<1> DEFINE l == failedSw[s].l
           k == failedSw[s].k
           e == file[l][k]
           a == [e EXCEPT !.claim = "nobody", !.told = failedSw[s].n, !.cooled = FALSE]
           b == [e EXCEPT !.claim = "nobody"]
           c == IF failedSw[s].at = "mark" THEN a ELSE b
<1>3. /\ UNCHANGED <<torn, copy, drives, gt, owed, said>> /\ failedSw[s].at \in {"mark", "drop"}
      /\ failedSw' = [failedSw EXCEPT ![s] = Gf(R, Ss, De, F)!Idle]
      /\ file' = IF e.attempts > 0 /\ e.claim = s THEN [file EXCEPT ![l][k] = c] ELSE file
  BY DEF Gf!Release, Gf!Marked, Gf!Held, Gf!Put, Gf!NoSweep
<1>4. Gf(R, Ss, De, F)!Idle \in GfSweep /\ Gf(R, Ss, De, F)!Idle.at = "out"
  BY DEF Gf!Idle, GfSweep, GfLedger, GfKey
<1>5. e \in GfEntry(R, Ss)
  BY <1>2 DEF GfTyped
<1>6. /\ c \in GfEntry(R, Ss) /\ c.claim = "nobody" /\ c.attempts = e.attempts /\ c.redrives = e.redrives
      /\ c.resolved = e.resolved
      /\ IF failedSw[s].at = "mark" THEN c.told = failedSw[s].n /\ ~c.cooled
                                    ELSE c.told = e.told /\ c.cooled = e.cooled
  <2> HIDE DEF e
  <2> QED
    BY <1>2, <1>5 DEF GfEntry
<1>7. failedSw' \in [Ss -> GfSweep] /\ failedSw'[s].at = "out" /\ \A t \in Ss \ {s} : failedSw'[t] = failedSw[t]
  BY <1>1, <1>3, <1>4
<1>8. file \in [GfLedger -> [GfKey -> GfEntry(R, Ss)]]
  BY DEF GfTyped
<1> HIDE DEF c, l, k
<1>9. l \in GfLedger /\ k \in GfKey
  BY <1>2 DEF l, k
<1>10. CASE e.attempts > 0 /\ e.claim = s
  <2>1. file' = [file EXCEPT ![l][k] = c]
    BY <1>3, <1>10
  <2>2. /\ file' \in [GfLedger -> [GfKey -> GfEntry(R, Ss)]]
        /\ \A m \in GfLedger, j \in GfKey : file'[m][j] = IF m = l /\ j = k THEN c ELSE file[m][j]
    BY <1>6, <1>9, <2>1, GfPutFile
  <2>3. GfTyped(R, Ss)'
    BY <1>3, <1>7, <2>2 DEF GfTyped
  <2> QED
    BY <1>3, <1>6, <1>7, <1>9, <1>10, <2>2, <2>3, Zenon DEF l, k, GfReleased
<1>11. CASE ~(e.attempts > 0 /\ e.claim = s)
  <2>1. file' = file
    BY <1>3, <1>11
  <2>2. GfTyped(R, Ss)'
    BY <1>3, <1>7, <2>1 DEF GfTyped
  <2> QED
    BY <1>3, <1>7, <1>11, <2>1, <2>2, Zenon DEF l, k, GfReleased
<1> QED
  BY <1>10, <1>11

GfWorks(s, l, k) == failedSw[s].at # "out" /\ failedSw[s].l = l /\ failedSw[s].k = k

\* Time: an alert cools, the claim of a sweep that is gone expires.
GfTimed(R, Ss, l, k) ==
  /\ GfTyped(R, Ss)' /\ UNCHANGED <<torn, copy, failedSw, drives, gt, owed>>
  /\ \A m \in GfLedger, j \in GfKey : m # l \/ j # k => file'[m][j] = file[m][j] /\ said'[m][j] = said[m][j]
  /\ file'[l][k].attempts = file[l][k].attempts /\ file'[l][k].redrives = file[l][k].redrives
  /\ file'[l][k].told = file[l][k].told /\ file'[l][k].resolved = file[l][k].resolved
  /\ file'[l][k].claim = "nobody"
  /\ \/ file[l][k].claim = "nobody" /\ file'[l][k].cooled /\ said'[l][k] = 0
     \/ /\ ~GfWorks(file[l][k].claim, l, k)
        /\ file'[l][k].cooled = file[l][k].cooled /\ said'[l][k] = said[l][k]

LEMMA GfTime ==
  ASSUME NEW R \in Nat, NEW Ss, NEW De, NEW F, GfTyped(R, Ss), NEW l \in GfLedger, NEW k \in GfKey,
         Gf(R, Ss, De, F)!Cool(l, k) \/ Gf(R, Ss, De, F)!Expire(l, k)
  PROVE  GfTimed(R, Ss, l, k)
<1>0. file[l][k] \in GfEntry(R, Ss) /\ said \in [GfLedger -> [GfKey -> Nat]]
  BY DEF GfTyped
<1>1. CASE Gf(R, Ss, De, F)!Cool(l, k)
  <2> DEFINE e == [file[l][k] EXCEPT !.cooled = TRUE]
  <2>1. /\ file' = [file EXCEPT ![l][k] = e] /\ said' = [said EXCEPT ![l][k] = 0] /\ file[l][k].claim = "nobody"
        /\ UNCHANGED <<torn, copy, failedSw, drives, gt, owed>>
    BY <1>1 DEF Gf!Cool, Gf!NoSweep
  <2>2. /\ e \in GfEntry(R, Ss) /\ e.attempts = file[l][k].attempts /\ e.redrives = file[l][k].redrives
        /\ e.told = file[l][k].told /\ e.resolved = file[l][k].resolved /\ e.claim = file[l][k].claim /\ e.cooled
    BY <1>0 DEF GfEntry
  <2> HIDE DEF e
  <2>3. /\ file' \in [GfLedger -> [GfKey -> GfEntry(R, Ss)]]
        /\ \A m \in GfLedger, j \in GfKey : file'[m][j] = IF m = l /\ j = k THEN e ELSE file[m][j]
    BY <2>1, <2>2, GfPutFile
  <2>4. /\ said' \in [GfLedger -> [GfKey -> Nat]]
        /\ \A m \in GfLedger, j \in GfKey : said'[m][j] = IF m = l /\ j = k THEN 0 ELSE said[m][j]
    BY <1>0, <2>1, GfPut
  <2>5. GfTyped(R, Ss)'
    BY <2>1, <2>3, <2>4 DEF GfTyped
  <2> QED
    BY <2>1, <2>2, <2>3, <2>4, <2>5 DEF GfTimed
<1>2. CASE Gf(R, Ss, De, F)!Expire(l, k)
  <2> DEFINE e == [file[l][k] EXCEPT !.claim = "nobody"]
  <2>1. /\ file' = [file EXCEPT ![l][k] = e] /\ ~GfWorks(file[l][k].claim, l, k)
        /\ UNCHANGED <<torn, copy, failedSw, drives, gt, owed, said>>
    BY <1>2 DEF Gf!Expire, Gf!NoSweep, Gf!Works, GfWorks
  <2>2. /\ e \in GfEntry(R, Ss) /\ e.attempts = file[l][k].attempts /\ e.redrives = file[l][k].redrives
        /\ e.told = file[l][k].told /\ e.resolved = file[l][k].resolved /\ e.claim = "nobody"
        /\ e.cooled = file[l][k].cooled
    BY <1>0 DEF GfEntry
  <2> HIDE DEF e
  <2>3. /\ file' \in [GfLedger -> [GfKey -> GfEntry(R, Ss)]]
        /\ \A m \in GfLedger, j \in GfKey : file'[m][j] = IF m = l /\ j = k THEN e ELSE file[m][j]
    BY <2>1, <2>2, GfPutFile
  <2>4. GfTyped(R, Ss)'
    BY <2>1, <2>3 DEF GfTyped
  <2> QED
    BY <2>1, <2>2, <2>3, <2>4 DEF GfTimed
<1> QED
  BY <1>1, <1>2

\* The files: one becomes unreadable, is copied, and the operator deletes a copy.
LEMMA GfFiles ==
  ASSUME NEW R \in Nat, NEW Ss, NEW De, NEW F, GfTyped(R, Ss), NEW l \in GfLedger,
         \/ Gf(R, Ss, De, F)!Tear(l) \/ Gf(R, Ss, De, F)!CopyAside(l) \/ Gf(R, Ss, De, F)!Salvage(l)
  PROVE  /\ GfTyped(R, Ss)' /\ UNCHANGED <<file, failedSw, drives, gt, owed, said>>
         /\ \/ /\ "torn" \in F /\ copy' = copy /\ torn' = torn \cup {l}
               /\ ~(file[l]["notice"].attempts > 0) /\ file[l]["event"].attempts > 0
            \/ torn' = torn /\ copy' = copy \cup {l} /\ l \in torn
            \/ torn' = torn /\ copy' = copy \ {l} /\ l \in copy /\ file[l]["notice"].told > 0
<1>1. CASE Gf(R, Ss, De, F)!Tear(l)
  BY <1>1 DEF Gf!Tear, Gf!Held, GfTyped
<1>2. CASE Gf(R, Ss, De, F)!CopyAside(l)
  BY <1>2 DEF Gf!CopyAside, GfTyped
<1>3. CASE Gf(R, Ss, De, F)!Salvage(l)
  BY <1>3 DEF Gf!Salvage, GfTyped
<1> QED
  BY <1>1, <1>2, <1>3

LEMMA GfAfresh ==
  ASSUME NEW R \in Nat, NEW Ss, NEW De, NEW F, GfTyped(R, Ss), NEW l \in GfLedger, Gf(R, Ss, De, F)!Afresh(l)
  PROVE  /\ GfTyped(R, Ss)' /\ UNCHANGED <<copy, failedSw, gt>> /\ l \in torn /\ l \in copy /\ torn' = torn \ {l}
         /\ drives'[l] = 0 /\ \A m \in GfLedger : m # l => drives'[m] = drives[m]
         /\ file'[l]["event"].attempts = 0 /\ file'[l]["notice"].attempts = 1 /\ file'[l]["notice"].told = 0
         /\ file'[l]["event"].redrives = 0 /\ ~file'[l]["notice"].resolved
         /\ owed'[l]["event"] = {}
         /\ \A m \in GfLedger, j \in GfKey : m # l => file'[m][j] = file[m][j] /\ owed'[m][j] = owed[m][j]
<1> DEFINE none == [attempts |-> 0, redrives |-> 0, resolved |-> FALSE, told |-> 0, cooled |-> TRUE,
                    claim |-> "nobody"]
           news == [none EXCEPT !.attempts = 1]
           entries == [k \in GfKey |-> IF k = "notice" THEN news ELSE none]
           owe == [k \in GfKey |-> IF k = "notice" THEN owed[l]["event"] ELSE {}]
<1>1. /\ l \in torn /\ l \in copy /\ torn' = torn \ {l} /\ UNCHANGED <<copy, failedSw, gt>>
      /\ file' = [file EXCEPT ![l] = entries] /\ owed' = [owed EXCEPT ![l] = owe]
      /\ said' = [said EXCEPT ![l]["event"] = 0] /\ drives' = [drives EXCEPT ![l] = 0]
  BY DEF Gf!Afresh, Gf!Key, Gf!Notice, Gf!NoEntry, Gf!NoSweep, GfKey
<1>2. /\ none \in GfEntry(R, Ss) /\ none.attempts = 0 /\ none.redrives = 0
      /\ news \in GfEntry(R, Ss) /\ news.attempts = 1 /\ ~news.resolved /\ news.told = 0
  <2>1. none \in GfEntry(R, Ss) /\ none.attempts = 0 /\ none.redrives = 0 /\ ~none.resolved /\ none.told = 0
    BY DEF GfEntry
  <2> HIDE DEF none
  <2>2. news \in GfEntry(R, Ss) /\ news.attempts = 1 /\ ~news.resolved /\ news.told = 0
    BY <2>1 DEF GfEntry
  <2> QED
    BY <2>1, <2>2
<1> HIDE DEF none, news
<1>3. entries \in [GfKey -> GfEntry(R, Ss)] /\ entries["event"] = none /\ entries["notice"] = news
  BY <1>2 DEF GfKey
<1> HIDE DEF entries
<1>4. file' \in [GfLedger -> [GfKey -> GfEntry(R, Ss)]] /\ file'[l] = entries
      /\ \A m \in GfLedger : m # l => file'[m] = file[m]
  BY <1>1, <1>3 DEF GfTyped
<1>5. owe \in [GfKey -> SUBSET Nat] /\ owe["event"] = {}
  BY DEF GfTyped, GfKey
<1> HIDE DEF owe
<1>6. /\ owed' \in [GfLedger -> [GfKey -> SUBSET Nat]] /\ owed'[l] = owe
      /\ \A m \in GfLedger : m # l => owed'[m] = owed[m]
  BY <1>1, <1>5 DEF GfTyped
<1>7. said' \in [GfLedger -> [GfKey -> Nat]]
  BY <1>1 DEF GfTyped, GfKey
<1>8. /\ drives' \in [GfLedger -> Nat] /\ drives'[l] = 0 /\ \A m \in GfLedger : m # l => drives'[m] = drives[m]
  BY <1>1 DEF GfTyped
<1>9. GfTyped(R, Ss)'
  BY <1>1, <1>4, <1>6, <1>7, <1>8 DEF GfTyped
<1> QED
  BY <1>1, <1>2, <1>3, <1>4, <1>5, <1>6, <1>8, <1>9

\* Every step is one of these.
LEMMA GfCases ==
  ASSUME NEW R, NEW Ss, NEW De, NEW F, Gf(R, Ss, De, F)!Next
  PROVE  \/ UNCHANGED <<file, torn, copy, failedSw, owed, drives, said>>
         \/ \E x \in Gate \cup Ss, l \in GfLedger : Gf(R, Ss, De, F)!Record(x, l) \/ Gf(R, Ss, De, F)!Resolve(x, l)
         \/ \E s \in Ss : \/ Gf(R, Ss, De, F)!ResolveDuplicate(s) \/ Gf(R, Ss, De, F)!Driven(s)
                          \/ Gf(R, Ss, De, F)!Say(s) \/ Gf(R, Ss, De, F)!Release(s)
                          \/ Gf(R, Ss, De, F)!GiveUp(s) \/ Gf(R, Ss, De, F)!Kill(s)
                          \/ \E l \in GfLedger : \/ Gf(R, Ss, De, F)!ResolveNotice(s, l)
                                                 \/ \E k \in GfKey : Gf(R, Ss, De, F)!Claim(s, l, k)
         \/ \E l \in GfLedger :
              \/ Gf(R, Ss, De, F)!Tear(l) \/ Gf(R, Ss, De, F)!CopyAside(l) \/ Gf(R, Ss, De, F)!Salvage(l)
              \/ Gf(R, Ss, De, F)!Afresh(l)
              \/ \E k \in GfKey : Gf(R, Ss, De, F)!Cool(l, k) \/ Gf(R, Ss, De, F)!Expire(l, k)
<1>1. GfLedger = Gf(R, Ss, De, F)!Ledger /\ GfKey = Gf(R, Ss, De, F)!Key
  BY DEF GfLedger, GfKey, Gf!Ledger, Gf!Key
<1>2. CASE (\E g \in Gate : Gf(R, Ss, De, F)!Start(g)) \/ Gf(R, Ss, De, F)!Health
  BY <1>2, GfQuiet
<1>3. CASE \E x \in Gf(R, Ss, De, F)!Runner : Gf(R, Ss, De, F)!Run(x)
  <2>1. PICK x \in Gate \cup Ss : Gf(R, Ss, De, F)!Run(x)
    BY <1>3 DEF Gf!Runner
  <2>2. CASE \/ Gf(R, Ss, De, F)!Fail(x) \/ Gf(R, Ss, De, F)!Complete(x)
             \/ Gf(R, Ss, De, F)!Busy(x) \/ Gf(R, Ss, De, F)!Own(x)
    <3>1. UNCHANGED <<file, torn, copy, failedSw, owed, drives, said>>
      BY <2>2, GfQuiet
    <3> QED
      BY <3>1
  <2>3. CASE \E l \in GfLedger : Gf(R, Ss, De, F)!Record(x, l) \/ Gf(R, Ss, De, F)!Resolve(x, l)
    BY <2>3
  <2> QED
    BY <1>1, <2>1, <2>2, <2>3 DEF Gf!Run
<1>4. CASE \E s \in Ss : Gf(R, Ss, De, F)!Sweeping(s) \/ Gf(R, Ss, De, F)!GiveUp(s) \/ Gf(R, Ss, De, F)!Kill(s)
  BY <1>1, <1>4 DEF Gf!Sweeping
<1>5. CASE \E l \in Gf(R, Ss, De, F)!Ledger :
             \/ Gf(R, Ss, De, F)!Tear(l) \/ Gf(R, Ss, De, F)!Moving(l) \/ Gf(R, Ss, De, F)!Salvage(l)
             \/ \E k \in Gf(R, Ss, De, F)!Key : Gf(R, Ss, De, F)!Cool(l, k) \/ Gf(R, Ss, De, F)!Expire(l, k)
  BY <1>1, <1>5 DEF Gf!Moving
<1> QED
  BY <1>2, <1>3, <1>4, <1>5 DEF Gf!Next

\* What was run from an entry is at most what it counts, and a count never passes its limit.
GfBounded == \A l \in GfLedger : drives[l] <= file[l]["event"].redrives

LEMMA GfStep ==
  ASSUME NEW R \in Nat, NEW Ss, NEW De, NEW F, GfTyped(R, Ss), GfBounded,
         Gf(R, Ss, De, F)!Next \/ UNCHANGED failedVars
  PROVE  GfTyped(R, Ss)' /\ GfBounded'
<1>0. "event" \in GfKey /\ "notice" \in GfKey /\ "event" # "notice"
  BY DEF GfKey
<1>1. CASE UNCHANGED <<file, torn, copy, failedSw, owed, drives, said>>
  BY <1>1 DEF GfTyped, GfBounded
<1>2. ASSUME NEW x, NEW l \in GfLedger, Gf(R, Ss, De, F)!Record(x, l) PROVE GfTyped(R, Ss)' /\ GfBounded'
  <2>1. GfTyped(R, Ss)' /\ drives' = drives
    BY <1>2, GfRecord DEF GfRest
  <2>2. PICK e \in GfEntry(R, Ss) : e.redrives = file[l]["event"].redrives /\ GfAt(l, "event", e, owed[l]["event"] \cup {e.attempts})
    BY <1>2, GfRecord
  <2>3. \A m \in GfLedger : file'[m]["event"].redrives = file[m]["event"].redrives
    BY <1>0, <2>2 DEF GfAt
  <2> QED
    BY <2>1, <2>3 DEF GfBounded
<1>3. ASSUME NEW x, NEW l \in GfLedger, Gf(R, Ss, De, F)!Resolve(x, l) PROVE GfTyped(R, Ss)' /\ GfBounded'
  BY <1>0, <1>3, GfResolve DEF GfBounded, GfKeep, GfRest
<1>4. ASSUME NEW s \in Ss, NEW l \in GfLedger, Gf(R, Ss, De, F)!ResolveNotice(s, l) PROVE GfTyped(R, Ss)' /\ GfBounded'
  BY <1>0, <1>4, GfNotice DEF GfBounded, GfKeep, GfRest
<1>5. ASSUME NEW s \in Ss, Gf(R, Ss, De, F)!ResolveDuplicate(s) PROVE GfTyped(R, Ss)' /\ GfBounded'
  BY <1>0, <1>5, GfDuplicate DEF GfBounded, GfKeep, GfRest
<1>6. ASSUME NEW s \in Ss, NEW l \in GfLedger, NEW k \in GfKey, Gf(R, Ss, De, F)!Claim(s, l, k)
      PROVE GfTyped(R, Ss)' /\ GfBounded'
  <2>0. GfClaimed(R, Ss, s, l, k)
    BY <1>6, GfClaim
  <2>1. GfTyped(R, Ss)'
    BY <2>0 DEF GfClaimed
  <2>2. \A m \in GfLedger : \/ drives'[m] = drives[m] /\ file'[m]["event"].redrives = file[m]["event"].redrives
                            \/ drives'[m] = drives[m] + 1 /\ file'[m]["event"].redrives = file[m]["event"].redrives + 1
    <3> SUFFICES ASSUME NEW m \in GfLedger
                 PROVE  \/ drives'[m] = drives[m] /\ file'[m]["event"].redrives = file[m]["event"].redrives
                        \/ drives'[m] = drives[m] + 1 /\ file'[m]["event"].redrives = file[m]["event"].redrives + 1
      OBVIOUS
    <3>1. m # l => drives'[m] = drives[m]
      BY <2>0 DEF GfClaimed
    <3>2. m # l \/ k # "event" => file'[m]["event"] = file[m]["event"]
      BY <1>0, <2>0 DEF GfClaimed
    <3>3. \/ k = "event" /\ file'[l][k].redrives = file[l][k].redrives + 1 /\ drives'[l] = drives[l] + 1
          \/ file'[l][k].redrives = file[l][k].redrives /\ drives'[l] = drives[l]
      BY <2>0 DEF GfClaimed
    <3> QED
      BY <3>1, <3>2, <3>3
  <2>3. \A m \in GfLedger : drives[m] \in Nat /\ file[m]["event"].redrives \in Nat
    BY <1>0 DEF GfTyped, GfEntry
  <2> QED
    BY <2>1, <2>2, <2>3 DEF GfBounded
<1>7. ASSUME NEW s \in Ss, Gf(R, Ss, De, F)!Driven(s) \/ Gf(R, Ss, De, F)!GiveUp(s) \/ Gf(R, Ss, De, F)!Kill(s)
      PROVE GfTyped(R, Ss)' /\ GfBounded'
  <2>1. GfMoved(R, Ss, F, s)
    BY <1>0, <1>7, GfMoves
  <2> QED
    BY <1>0, <2>1 DEF GfBounded, GfMoved
<1>8. ASSUME NEW s \in Ss, Gf(R, Ss, De, F)!Say(s) PROVE GfTyped(R, Ss)' /\ GfBounded'
  BY <1>0, <1>8, GfSay DEF GfBounded, GfSaid
<1>9. ASSUME NEW s \in Ss, Gf(R, Ss, De, F)!Release(s) PROVE GfTyped(R, Ss)' /\ GfBounded'
  <2>1. GfTyped(R, Ss)' /\ drives' = drives
    BY <1>9, GfRelease DEF GfReleased
  <2>2. \A m \in GfLedger : file'[m]["event"].redrives = file[m]["event"].redrives
    BY <1>0, <1>9, GfRelease DEF GfReleased
  <2> QED
    BY <2>1, <2>2 DEF GfBounded
<1>10. ASSUME NEW l \in GfLedger, NEW k \in GfKey, Gf(R, Ss, De, F)!Cool(l, k) \/ Gf(R, Ss, De, F)!Expire(l, k)
       PROVE GfTyped(R, Ss)' /\ GfBounded'
  <2>0. GfTimed(R, Ss, l, k)
    BY <1>10, GfTime
  <2>1. GfTyped(R, Ss)' /\ drives' = drives
    BY <2>0 DEF GfTimed
  <2>2. \A m \in GfLedger : file'[m]["event"].redrives = file[m]["event"].redrives
    <3>1. \A m \in GfLedger : m # l \/ k # "event" => file'[m]["event"] = file[m]["event"]
      BY <1>0, <2>0 DEF GfTimed
    <3>2. file'[l][k].redrives = file[l][k].redrives
      BY <2>0 DEF GfTimed
    <3> QED
      BY <3>1, <3>2
  <2> QED
    BY <2>1, <2>2 DEF GfBounded
<1>11. ASSUME NEW l \in GfLedger,
              Gf(R, Ss, De, F)!Tear(l) \/ Gf(R, Ss, De, F)!CopyAside(l) \/ Gf(R, Ss, De, F)!Salvage(l)
       PROVE GfTyped(R, Ss)' /\ GfBounded'
  BY <1>11, GfFiles DEF GfBounded
<1>12. ASSUME NEW l \in GfLedger, Gf(R, Ss, De, F)!Afresh(l) PROVE GfTyped(R, Ss)' /\ GfBounded'
  <2>1. GfTyped(R, Ss)' /\ drives'[l] = 0 /\ file'[l]["event"].redrives = 0
    BY <1>12, GfAfresh
  <2>2. \A m \in GfLedger : m # l => drives'[m] = drives[m] /\ file'[m]["event"] = file[m]["event"]
    BY <1>0, <1>12, GfAfresh
  <2> QED
    BY <2>1, <2>2 DEF GfBounded
<1>13. CASE UNCHANGED failedVars
  BY <1>1, <1>13 DEF failedVars
<1> HIDE DEF GfBounded
<1> QED
  BY <1>1, <1>2, <1>3, <1>4, <1>5, <1>6, <1>7, <1>8, <1>9, <1>10, <1>11, <1>12, <1>13, GfCases

\* Where no ledger is ever busy and nothing migrates, no gate writes to the fallback.
GfGates(Ss) == gt \in [Gate \cup Ss -> {"idle", "main", "record_loop", "own", "resolve_loop", "resolve_fallback"}]

LEMMA GfGatesStep ==
  ASSUME NEW R, NEW Ss, NEW De, NEW F, F \cap {"busy", "migrating"} = {}, GfGates(Ss),
         Gf(R, Ss, De, F)!Next \/ UNCHANGED failedVars
  PROVE  GfGates(Ss)'
<1> USE DEF GfGates
<1>1. CASE UNCHANGED failedVars
  BY <1>1 DEF failedVars
<1>2. ASSUME NEW g \in Gate, Gf(R, Ss, De, F)!Start(g) PROVE GfGates(Ss)'
  BY <1>2 DEF Gf!Start
<1>3. ASSUME NEW x \in Gate \cup Ss, Gf(R, Ss, De, F)!Run(x) PROVE GfGates(Ss)'
  <2>1. CASE Gf(R, Ss, De, F)!Fail(x) \/ Gf(R, Ss, De, F)!Complete(x) \/ Gf(R, Ss, De, F)!Busy(x) \/ Gf(R, Ss, De, F)!Own(x)
    BY <1>3, <2>1 DEF Gf!Fail, Gf!Complete, Gf!Busy, Gf!Own
  <2>2. CASE \E l \in Gf(R, Ss, De, F)!Ledger : Gf(R, Ss, De, F)!Record(x, l) \/ Gf(R, Ss, De, F)!Resolve(x, l)
    BY <1>3, <2>2 DEF Gf!Record, Gf!Resolve
  <2> QED
    BY <1>3, <2>1, <2>2 DEF Gf!Run
<1>4. ASSUME NEW s \in Ss, Gf(R, Ss, De, F)!Sweeping(s) \/ Gf(R, Ss, De, F)!GiveUp(s) \/ Gf(R, Ss, De, F)!Kill(s)
      PROVE GfGates(Ss)'
  BY <1>4
  DEF Gf!Sweeping, Gf!GiveUp, Gf!Kill, Gf!ResolveDuplicate, Gf!Driven, Gf!Say, Gf!Release, Gf!ResolveNotice, Gf!Claim
<1>5. ASSUME NEW l,
             \/ Gf(R, Ss, De, F)!Tear(l) \/ Gf(R, Ss, De, F)!Moving(l) \/ Gf(R, Ss, De, F)!Salvage(l)
             \/ \E k \in Gf(R, Ss, De, F)!Key : Gf(R, Ss, De, F)!Cool(l, k) \/ Gf(R, Ss, De, F)!Expire(l, k)
      PROVE GfGates(Ss)'
  BY <1>5 DEF Gf!Tear, Gf!Moving, Gf!CopyAside, Gf!Afresh, Gf!Salvage, Gf!Cool, Gf!Expire
<1>6. CASE Gf(R, Ss, De, F)!Health
  BY <1>6 DEF Gf!Health
<1> QED
  BY <1>1, <1>2, <1>3, <1>4, <1>5, <1>6 DEF Gf!Next, Gf!Runner

\* What nobody was told of is in an open entry, an unreadable file or a copy; a notice that was told
\* leaves nothing owed, which is when its copy may be deleted.
OwLoop ==
  \A k \in GfKey : file["fallback"][k].attempts = 0 /\ owed["fallback"][k] = {} /\ "fallback" \notin torn
OwEntry(l) ==
  /\ owed[l]["event"] # {} => l \in torn \/ (file[l]["event"].attempts > 0 /\ ~file[l]["event"].resolved)
  /\ owed[l]["notice"] # {} => l \in copy /\ file[l]["notice"].attempts > 0 /\ ~file[l]["notice"].resolved
  /\ file[l]["notice"].attempts > 0 => l \notin torn
  /\ file[l]["notice"].told > 0 => owed[l]["notice"] = {}
OwSweep(s) ==
  /\ failedSw[s].at \in {"drive", "drop"} => failedSw[s].k = "event"
  /\ failedSw[s].at # "out" /\ failedSw[s].k = "notice" => file[failedSw[s].l]["notice"].attempts > 0
  /\ failedSw[s].at = "say" /\ failedSw[s].k = "notice" => owed[failedSw[s].l]["notice"] \subseteq failedSw[s].cover
  /\ failedSw[s].at = "mark" /\ failedSw[s].k = "notice" => owed[failedSw[s].l]["notice"] = {}
OwInv(R, Ss) ==
  GfTyped(R, Ss) /\ GfBounded /\ GfGates(Ss) /\ OwLoop /\ (\A l \in GfLedger : OwEntry(l)) /\ \A s \in Ss : OwSweep(s)

\* A step that leaves the attempts and whether they are told, resolves nothing and owes no more.
LEMMA OwKept ==
  ASSUME NEW R \in Nat, NEW Ss, OwInv(R, Ss), GfTyped(R, Ss)', UNCHANGED <<torn, copy>>,
         \A l \in GfLedger, k \in GfKey :
           /\ file'[l][k].attempts = file[l][k].attempts /\ owed'[l][k] \subseteq owed[l][k]
           /\ file'[l][k].resolved = file[l][k].resolved \/ owed'[l][k] = {}
           /\ file'[l]["notice"].told > 0 => file[l]["notice"].told > 0 \/ owed[l]["notice"] = {},
         \A s \in Ss : OwSweep(s)'
  PROVE  OwLoop' /\ (\A l \in GfLedger : OwEntry(l)') /\ \A s \in Ss : OwSweep(s)'
<1>1. "event" \in GfKey /\ "notice" \in GfKey /\ "fallback" \in GfLedger
  BY DEF GfKey, GfLedger
<1>2. OwLoop'
  BY <1>1 DEF OwInv, OwLoop
<1>3. ASSUME NEW l \in GfLedger PROVE OwEntry(l)'
  BY <1>1, <1>3 DEF OwInv, OwEntry
<1> QED
  BY <1>2, <1>3

\* What a sweep is about stays as it was.
LEMMA OwSwept ==
  ASSUME NEW R \in Nat, NEW Ss, OwInv(R, Ss), NEW s \in Ss, failedSw'[s] = failedSw[s],
         \A l \in GfLedger, k \in GfKey :
           file'[l][k].attempts = file[l][k].attempts /\ owed'[l][k] \subseteq owed[l][k]
  PROVE  OwSweep(s)'
<1>1. failedSw[s].l \in GfLedger /\ "notice" \in GfKey
  BY DEF OwInv, GfTyped, GfSweep, GfKey
<1> QED
  BY <1>1 DEF OwInv, OwSweep

LEMMA OwStep ==
  ASSUME NEW R \in Nat, NEW Ss, NEW De, NEW F, F \cap {"busy", "migrating"} = {}, OwInv(R, Ss),
         Gf(R, Ss, De, F)!Next \/ UNCHANGED failedVars
  PROVE  OwInv(R, Ss)'
<1> DEFINE Held == OwLoop /\ (\A l \in GfLedger : OwEntry(l)) /\ \A s \in Ss : OwSweep(s)
<1>0. "event" \in GfKey /\ "notice" \in GfKey /\ "event" # "notice" /\ "fallback" \in GfLedger /\ "fallback" # "loop"
  BY DEF GfKey, GfLedger
<1>a. GfTyped(R, Ss) /\ GfBounded /\ GfGates(Ss) /\ Held
  BY DEF OwInv
<1>b. GfTyped(R, Ss)' /\ GfBounded' /\ GfGates(Ss)'
  BY <1>a, GfStep, GfGatesStep
<1>c. GfTyped(R, Ss)
  BY <1>a
<1>1. ASSUME UNCHANGED <<file, torn, copy, failedSw, owed, drives, said>> PROVE Held'
  <2>1. \A s \in Ss : OwSweep(s)'
    BY <1>1, OwSwept
  <2> QED
    BY <1>1, <1>b, <2>1, OwKept
<1>2. ASSUME NEW x \in Gate \cup Ss, NEW l \in GfLedger, Gf(R, Ss, De, F)!Record(x, l) PROVE Held'
  <2>1. l = "loop" /\ l \notin torn /\ UNCHANGED GfRest
    <3>1. gt[x] = (IF l = "loop" THEN "record_loop" ELSE "record_fallback") /\ l \notin torn /\ UNCHANGED GfRest
      <4>1. l \notin torn /\ UNCHANGED GfRest
        BY <1>2, <1>c, GfRecord
      <4>2. gt[x] = (IF l = "loop" THEN "record_loop" ELSE "record_fallback")
        BY <1>2 DEF Gf!Record, Gf!RecordIn, Gf!Ledger, GfLedger
      <4> QED
        BY <4>1, <4>2
    <3> QED
      BY <3>1, <1>a DEF GfGates
  <2>2. PICK e \in GfEntry(R, Ss) : /\ e.attempts = file[l]["event"].attempts + 1 /\ ~e.resolved
                                    /\ GfAt(l, "event", e, owed[l]["event"] \cup {e.attempts})
    BY <1>2, <1>a, GfRecord
  <2>3. /\ file'[l]["event"] = e /\ \A m \in GfLedger : file'[m]["notice"] = file[m]["notice"] /\ owed'[m]["notice"] = owed[m]["notice"]
        /\ \A k \in GfKey : file'["fallback"][k] = file["fallback"][k] /\ owed'["fallback"][k] = owed["fallback"][k]
        /\ \A m \in GfLedger : m # l => file'[m]["event"] = file[m]["event"] /\ owed'[m]["event"] = owed[m]["event"]
    BY <1>0, <2>1, <2>2 DEF GfAt
  <2>4. e.attempts > 0
    BY <1>0, <1>a, <2>2 DEF GfTyped, GfEntry
  <2>5. OwLoop'
    BY <1>a, <2>1, <2>3 DEF OwLoop, GfRest
  <2>6. ASSUME NEW m \in GfLedger PROVE OwEntry(m)'
    BY <1>a, <2>1, <2>2, <2>3, <2>4 DEF OwEntry, GfRest
  <2>7. ASSUME NEW s \in Ss PROVE OwSweep(s)'
    <3>1. failedSw[s].l \in GfLedger
      BY <1>a DEF GfTyped, GfSweep
    <3> QED
      BY <1>a, <2>1, <2>3, <3>1 DEF OwSweep, GfRest
  <2> QED
    BY <2>5, <2>6, <2>7
<1>3. ASSUME NEW x, NEW l \in GfLedger, Gf(R, Ss, De, F)!Resolve(x, l) PROVE Held'
  <2>1. /\ UNCHANGED GfRest /\ GfKeep
        /\ \A m \in GfLedger : /\ owed'[m]["event"] = {} /\ owed'[m]["notice"] = owed[m]["notice"]
                               /\ file'[m]["notice"] = file[m]["notice"]
    BY <1>3, <1>a, GfResolve
  <2>2. \A m \in GfLedger, k \in GfKey :
           /\ file'[m][k].attempts = file[m][k].attempts /\ owed'[m][k] \subseteq owed[m][k]
           /\ file'[m][k].resolved = file[m][k].resolved \/ owed'[m][k] = {}
           /\ file'[m]["notice"].told > 0 => file[m]["notice"].told > 0 \/ owed[m]["notice"] = {}
    BY <2>1 DEF GfKeep, GfKey
  <2>3. UNCHANGED <<torn, copy>> /\ failedSw' = failedSw
    BY <2>1 DEF GfRest
  <2>4. \A s \in Ss : OwSweep(s)'
    BY <2>2, <2>3, OwSwept
  <2> QED
    BY <1>b, <2>2, <2>3, <2>4, OwKept
<1>4. ASSUME NEW s \in Ss, NEW l \in GfLedger, Gf(R, Ss, De, F)!ResolveNotice(s, l) PROVE Held'
  <2>1. /\ UNCHANGED GfRest /\ GfKeep /\ owed'[l]["notice"] = {}
        /\ \A m \in GfLedger, j \in GfKey :
              m # l \/ j # "notice" => file'[m][j] = file[m][j] /\ owed'[m][j] = owed[m][j]
    BY <1>4, <1>a, GfNotice
  <2>2. \A m \in GfLedger, k \in GfKey :
           /\ file'[m][k].attempts = file[m][k].attempts /\ owed'[m][k] \subseteq owed[m][k]
           /\ file'[m][k].resolved = file[m][k].resolved \/ owed'[m][k] = {}
           /\ file'[m]["notice"].told > 0 => file[m]["notice"].told > 0 \/ owed[m]["notice"] = {}
    BY <1>0, <2>1 DEF GfKeep
  <2>3. UNCHANGED <<torn, copy>> /\ failedSw' = failedSw
    BY <2>1 DEF GfRest
  <2>4. \A t \in Ss : OwSweep(t)'
    BY <2>2, <2>3, OwSwept
  <2> QED
    BY <1>b, <2>2, <2>3, <2>4, OwKept
<1>5. ASSUME NEW s \in Ss, Gf(R, Ss, De, F)!ResolveDuplicate(s) PROVE Held'
  <2>1. file["fallback"]["event"].attempts > 0
    BY <1>5, <1>a, GfDuplicate
  <2> QED
    BY <1>0, <1>a, <2>1 DEF OwLoop
<1>6. ASSUME NEW s \in Ss, NEW l \in GfLedger, NEW k \in GfKey, Gf(R, Ss, De, F)!Claim(s, l, k) PROVE Held'
  <2>1. GfClaimed(R, Ss, s, l, k)
    BY <1>6, <1>a, GfClaim
  <2>2. \A m \in GfLedger, j \in GfKey :
           /\ file'[m][j].attempts = file[m][j].attempts /\ owed'[m][j] = owed[m][j]
           /\ file'[m][j].resolved = file[m][j].resolved
           /\ file'[m][j].told = file[m][j].told
    BY <2>1 DEF GfClaimed
  <2>3. UNCHANGED <<torn, copy>> /\ \A t \in Ss \ {s} : failedSw'[t] = failedSw[t]
    BY <2>1 DEF GfClaimed
  <2>4. OwSweep(s)'
    <3>1. /\ failedSw'[s].l = l /\ failedSw'[s].k = k /\ failedSw'[s].cover = owed[l][k] /\ file[l][k].attempts > 0
          /\ failedSw'[s].at = "say" \/ (failedSw'[s].at = "drive" /\ k = "event")
      BY <2>1 DEF GfClaimed
    <3> QED
      BY <1>0, <2>2, <3>1 DEF OwSweep
  <2>5. \A t \in Ss : OwSweep(t)'
    BY <2>2, <2>3, <2>4, OwSwept
  <2> QED
    BY <1>0, <1>b, <2>2, <2>3, <2>5, OwKept
<1>7. ASSUME NEW s \in Ss, Gf(R, Ss, De, F)!Driven(s) \/ Gf(R, Ss, De, F)!GiveUp(s) \/ Gf(R, Ss, De, F)!Kill(s)
      PROVE Held'
  <2>1. /\ UNCHANGED <<file, torn, copy, owed, drives, said>>
        /\ \A t \in Ss \ {s} : failedSw'[t] = failedSw[t]
        /\ \/ /\ failedSw[s].at = "drive" /\ failedSw'[s].at \in {"say", "drop"} /\ failedSw'[s].k = failedSw[s].k
           \/ failedSw'[s].at = "out"
    <3>1. GfMoved(R, Ss, F, s)
      BY <1>7, <1>c, GfMoves
    <3> QED
      BY <3>1 DEF GfMoved
  <2>2. OwSweep(s)'
    BY <1>a, <2>1 DEF OwSweep
  <2>3. \A t \in Ss : OwSweep(t)'
    BY <2>1, <2>2, OwSwept
  <2> QED
    BY <1>b, <2>1, <2>3, OwKept
<1>8. ASSUME NEW s \in Ss, Gf(R, Ss, De, F)!Say(s) PROVE Held'
  <2>1. /\ UNCHANGED <<file, torn, copy, drives, gt>>
        /\ failedSw[s].at = "say" /\ failedSw'[s].at = "mark"
        /\ failedSw'[s].l = failedSw[s].l /\ failedSw'[s].k = failedSw[s].k
        /\ \A t \in Ss \ {s} : failedSw'[t] = failedSw[t]
        /\ \A m \in GfLedger, j \in GfKey :
             owed'[m][j] = IF m = failedSw[s].l /\ j = failedSw[s].k THEN owed[m][j] \ failedSw[s].cover ELSE owed[m][j]
    <3>1. GfSaid(R, Ss, s)
      BY <1>8, <1>c, GfSay
    <3> QED
      BY <3>1 DEF GfSaid
  <2>2. \A m \in GfLedger, j \in GfKey : owed'[m][j] \subseteq owed[m][j]
    BY <2>1
  <2>3. OwSweep(s)'
    <3>1. failedSw[s].l \in GfLedger
      BY <1>a DEF GfTyped, GfSweep
    <3>2. OwSweep(s)
      BY <1>a
    <3> QED
      BY <1>0, <2>1, <3>1, <3>2 DEF OwSweep
  <2>4. \A t \in Ss : OwSweep(t)'
    BY <2>1, <2>2, <2>3, OwSwept
  <2> QED
    BY <1>b, <2>1, <2>2, <2>4, OwKept
<1>9. ASSUME NEW s \in Ss, Gf(R, Ss, De, F)!Release(s) PROVE Held'
  <2> DEFINE e == file[failedSw[s].l][failedSw[s].k]
             d == file'[failedSw[s].l][failedSw[s].k]
  <2>1. /\ UNCHANGED <<torn, copy, drives, gt, owed, said>>
        /\ failedSw[s].at \in {"mark", "drop"} /\ failedSw'[s].at = "out"
        /\ \A t \in Ss \ {s} : failedSw'[t] = failedSw[t]
        /\ \A m \in GfLedger, j \in GfKey : m # failedSw[s].l \/ j # failedSw[s].k => file'[m][j] = file[m][j]
        /\ d.attempts = e.attempts /\ d.resolved = e.resolved
        /\ d.told = e.told \/ failedSw[s].at = "mark"
    <3>1. GfReleased(R, Ss, s)
      BY <1>9, <1>c, GfRelease
    <3> QED
      BY <3>1 DEF GfReleased
  <2>2. failedSw[s].l \in GfLedger /\ failedSw[s].k \in GfKey
    BY <1>a DEF GfTyped, GfSweep
  <2>3. \A m \in GfLedger, j \in GfKey :
           /\ file'[m][j].attempts = file[m][j].attempts /\ file'[m][j].resolved = file[m][j].resolved
    BY <2>1
  <2>4. \A m \in GfLedger : file'[m]["notice"].told > 0 => file[m]["notice"].told > 0 \/ owed[m]["notice"] = {}
    <3> SUFFICES ASSUME NEW m \in GfLedger, file'[m]["notice"].told # file[m]["notice"].told PROVE owed[m]["notice"] = {}
      OBVIOUS
    <3>1. m = failedSw[s].l /\ failedSw[s].k = "notice" /\ failedSw[s].at = "mark"
      BY <1>0, <2>1
    <3> QED
      BY <1>a, <3>1 DEF OwSweep
  <2>5. OwSweep(s)'
    BY <2>1 DEF OwSweep
  <2>6. \A t \in Ss : OwSweep(t)'
    BY <2>1, <2>3, <2>5, OwSwept
  <2> QED
    BY <1>b, <2>1, <2>3, <2>4, <2>6, OwKept
<1>10. ASSUME NEW l \in GfLedger, NEW k \in GfKey, Gf(R, Ss, De, F)!Cool(l, k) \/ Gf(R, Ss, De, F)!Expire(l, k)
       PROVE Held'
  <2>1. GfTimed(R, Ss, l, k)
    BY <1>10, <1>a, GfTime
  <2>2. \A m \in GfLedger, j \in GfKey :
           /\ file'[m][j].attempts = file[m][j].attempts /\ file'[m][j].resolved = file[m][j].resolved
           /\ file'[m][j].told = file[m][j].told
    BY <2>1 DEF GfTimed
  <2>3. UNCHANGED <<torn, copy, failedSw, owed>>
    BY <2>1 DEF GfTimed
  <2>4. \A t \in Ss : OwSweep(t)'
    BY <2>2, <2>3, OwSwept
  <2> QED
    BY <1>0, <1>b, <2>2, <2>3, <2>4, OwKept
<1>11. ASSUME NEW l \in GfLedger,
              Gf(R, Ss, De, F)!Tear(l) \/ Gf(R, Ss, De, F)!CopyAside(l) \/ Gf(R, Ss, De, F)!Salvage(l)
       PROVE Held'
  <2>1. /\ UNCHANGED <<file, failedSw, drives, gt, owed, said>>
        /\ \/ /\ copy' = copy /\ torn' = torn \cup {l}
              /\ ~(file[l]["notice"].attempts > 0) /\ file[l]["event"].attempts > 0
           \/ torn' = torn /\ copy' = copy \cup {l} /\ l \in torn
           \/ torn' = torn /\ copy' = copy \ {l} /\ l \in copy /\ file[l]["notice"].told > 0
    BY <1>11, <1>a, GfFiles
  <2>2. OwLoop'
    BY <1>0, <1>a, <2>1 DEF OwLoop
  <2>3. ASSUME NEW m \in GfLedger PROVE OwEntry(m)'
    BY <1>a, <2>1 DEF OwEntry
  <2>4. ASSUME NEW t \in Ss PROVE OwSweep(t)'
    BY <1>a, <2>1 DEF OwSweep
  <2> QED
    BY <2>2, <2>3, <2>4
<1>12. ASSUME NEW l \in GfLedger, Gf(R, Ss, De, F)!Afresh(l) PROVE Held'
  <2>1. /\ UNCHANGED <<copy, failedSw, gt>> /\ l \in torn /\ l \in copy /\ torn' = torn \ {l}
        /\ file'[l]["notice"].attempts = 1 /\ file'[l]["notice"].told = 0
        /\ ~file'[l]["notice"].resolved /\ owed'[l]["event"] = {}
        /\ \A m \in GfLedger, j \in GfKey : m # l => file'[m][j] = file[m][j] /\ owed'[m][j] = owed[m][j]
    BY <1>12, <1>a, GfAfresh
  <2>2. OwLoop'
    BY <1>0, <1>a, <2>1 DEF OwLoop
  <2>3. ASSUME NEW m \in GfLedger PROVE OwEntry(m)'
    BY <1>0, <1>a, <2>1 DEF OwEntry
  <2>4. ASSUME NEW t \in Ss PROVE OwSweep(t)'
    <3>1. failedSw[t].l \in GfLedger
      BY <1>a DEF GfTyped, GfSweep
    <3>2. failedSw[t].at # "out" /\ failedSw[t].k = "notice" => failedSw[t].l # l
      BY <1>a, <2>1 DEF OwSweep, OwEntry
    <3> QED
      BY <1>0, <1>a, <2>1, <3>1, <3>2 DEF OwSweep
  <2> QED
    BY <2>2, <2>3, <2>4
<1>13. Held'
  <2> HIDE DEF Held
  <2>1. CASE UNCHANGED failedVars
    BY <1>1, <2>1 DEF failedVars
  <2>2. CASE Gf(R, Ss, De, F)!Next
    BY <1>1, <1>2, <1>3, <1>4, <1>5, <1>6, <1>7, <1>8, <1>9, <1>10, <1>11, <1>12, <2>2, GfCases
  <2> QED
    BY <2>1, <2>2
<1> QED
  BY <1>b, <1>13 DEF OwInv

\* Where no sweep dies and no ledger is torn, who works on an entry has its claim; what was told of
\* it is what was said, until its cooldown is over; and who is about to say its line, without having
\* driven the gate again, says attempts that were not.
SaidSweep(s) ==
  LET l == failedSw[s].l
      k == failedSw[s].k
  IN /\ failedSw[s].at # "drop" /\ (failedSw[s].at = "drive" => failedSw[s].drove)
     /\ failedSw[s].at # "out" => file[l][k].claim = s /\ file[l][k].attempts > 0
     /\ failedSw[s].at = "mark" => said[l][k] = failedSw[s].n
     /\ failedSw[s].at = "say" /\ ~failedSw[s].drove => said[l][k] # failedSw[s].n
SaidEntry(Ss, l, k) ==
  (\A s \in Ss : ~(GfWorks(s, l, k) /\ failedSw[s].at = "mark"))
    => said[l][k] = IF file[l][k].cooled THEN 0 ELSE file[l][k].told
SaidInv(R, Ss) ==
  /\ GfTyped(R, Ss) /\ GfBounded /\ torn = {}
  /\ \A s \in Ss : SaidSweep(s)
  /\ \A l \in GfLedger, k \in GfKey : SaidEntry(Ss, l, k)

\* A step that leaves the claims, the cooldowns and what was told.
LEMMA SaidKept ==
  ASSUME NEW R \in Nat, NEW Ss, SaidInv(R, Ss), UNCHANGED <<failedSw, said>>,
         \A l \in GfLedger, k \in GfKey :
           /\ file[l][k].attempts > 0 => file'[l][k].attempts > 0
           /\ file'[l][k].claim = file[l][k].claim
           /\ file'[l][k].told = file[l][k].told /\ file'[l][k].cooled = file[l][k].cooled
  PROVE  (\A s \in Ss : SaidSweep(s)') /\ \A l \in GfLedger, k \in GfKey : SaidEntry(Ss, l, k)'
<1>1. ASSUME NEW s \in Ss PROVE SaidSweep(s)'
  <2>1. failedSw[s].l \in GfLedger /\ failedSw[s].k \in GfKey
    BY DEF SaidInv, GfTyped, GfSweep
  <2> QED
    BY <2>1 DEF SaidInv, SaidSweep
<1>2. ASSUME NEW l \in GfLedger, NEW k \in GfKey PROVE SaidEntry(Ss, l, k)'
  <2>1. SaidEntry(Ss, l, k)
    BY DEF SaidInv
  <2> QED
    BY <2>1 DEF SaidEntry, GfWorks
<1> QED
  BY <1>1, <1>2

LEMMA SaidStep ==
  ASSUME NEW R \in Nat, NEW Ss, NEW De, NEW F, F \cap {"kill", "torn", "migrating"} = {}, "nobody" \notin Ss,
         SaidInv(R, Ss), Gf(R, Ss, De, F)!Next \/ UNCHANGED failedVars
  PROVE  SaidInv(R, Ss)'
<1> DEFINE Said == (\A s \in Ss : SaidSweep(s)) /\ \A l \in GfLedger, k \in GfKey : SaidEntry(Ss, l, k)
           Done == Said' /\ torn' = {}
<1>0. "event" \in GfKey /\ "notice" \in GfKey
  BY DEF GfKey
<1>a. GfTyped(R, Ss) /\ GfBounded /\ torn = {} /\ Said
  BY DEF SaidInv
<1>b. GfTyped(R, Ss)' /\ GfBounded'
  BY <1>a, GfStep
<1>c. GfTyped(R, Ss)
  BY <1>a
<1>d. \A s \in Ss : failedSw[s].l \in GfLedger /\ failedSw[s].k \in GfKey
  BY <1>a DEF GfTyped, GfSweep
\* Two sweeps are not about one entry.
<1>e. \A s \in Ss, t \in Ss, l \in GfLedger, k \in GfKey : GfWorks(s, l, k) /\ GfWorks(t, l, k) => s = t
  BY <1>a DEF SaidSweep, GfWorks
<1>f. \A s \in Ss, l \in GfLedger, k \in GfKey : GfWorks(s, l, k) => file[l][k].claim = s
  BY <1>a DEF SaidSweep, GfWorks
<1>1. ASSUME UNCHANGED <<file, torn, copy, failedSw, owed, drives, said>> PROVE Done
  BY <1>1, <1>a, SaidKept
<1>2. ASSUME NEW x, NEW l \in GfLedger, Gf(R, Ss, De, F)!Record(x, l) PROVE Done
  <2>1. UNCHANGED GfRest
    BY <1>2, <1>c, GfRecord
  <2>2. PICK e \in GfEntry(R, Ss) : /\ e.attempts = file[l]["event"].attempts + 1
                                    /\ e.told = file[l]["event"].told
                                    /\ e.cooled = file[l]["event"].cooled /\ e.claim = file[l]["event"].claim
                                    /\ GfAt(l, "event", e, owed[l]["event"] \cup {e.attempts})
    BY <1>2, <1>c, GfRecord
  <2>3. file[l]["event"].attempts \in Nat
    BY <1>0, <1>c DEF GfTyped, GfEntry
  <2>4. \A m \in GfLedger, k \in GfKey :
           /\ file[m][k].attempts > 0 => file'[m][k].attempts > 0
           /\ file'[m][k].claim = file[m][k].claim
           /\ file'[m][k].told = file[m][k].told /\ file'[m][k].cooled = file[m][k].cooled
    BY <1>0, <2>2, <2>3 DEF GfAt
  <2> QED
    BY <1>a, <2>1, <2>4, SaidKept DEF GfRest
<1>3. ASSUME NEW x, NEW l \in GfLedger, Gf(R, Ss, De, F)!Resolve(x, l) PROVE Done
  <2>1. UNCHANGED GfRest /\ GfKeep
    BY <1>3, <1>c, GfResolve
  <2> QED
    BY <1>a, <2>1, SaidKept DEF GfRest, GfKeep
<1>4. ASSUME NEW s \in Ss, NEW l \in GfLedger, Gf(R, Ss, De, F)!ResolveNotice(s, l) PROVE Done
  <2>1. UNCHANGED GfRest /\ GfKeep
    BY <1>4, <1>c, GfNotice
  <2> QED
    BY <1>a, <2>1, SaidKept DEF GfRest, GfKeep
<1>5. ASSUME NEW s \in Ss, Gf(R, Ss, De, F)!ResolveDuplicate(s) PROVE Done
  <2>1. UNCHANGED GfRest /\ GfKeep
    BY <1>5, <1>c, GfDuplicate
  <2> QED
    BY <1>a, <2>1, SaidKept DEF GfRest, GfKeep
<1>6. ASSUME NEW s \in Ss, NEW l \in GfLedger, NEW k \in GfKey, Gf(R, Ss, De, F)!Claim(s, l, k) PROVE Done
  <2>1. GfClaimed(R, Ss, s, l, k)
    BY <1>6, <1>c, GfClaim
  <2>2. /\ UNCHANGED <<torn, said>> /\ \A t \in Ss \ {s} : failedSw'[t] = failedSw[t]
        /\ failedSw[s].at = "out" /\ file[l][k].attempts > 0 /\ file[l][k].claim = "nobody"
        /\ \A m \in GfLedger, j \in GfKey : m # l \/ j # k => file'[m][j] = file[m][j]
        /\ failedSw'[s].l = l /\ failedSw'[s].k = k /\ failedSw'[s].n = file[l][k].attempts
        /\ file'[l][k].claim = s /\ file'[l][k].attempts = file[l][k].attempts
        /\ file'[l][k].told = file[l][k].told /\ file'[l][k].cooled = file[l][k].cooled
        /\ \/ failedSw'[s].at = "drive" /\ failedSw'[s].drove
           \/ /\ failedSw'[s].at = "say" /\ ~failedSw'[s].drove
              /\ file[l][k].cooled \/ file[l][k].told # file[l][k].attempts
    BY <2>1 DEF GfClaimed
  <2>3. \A t \in Ss : ~GfWorks(t, l, k)
    BY <1>f, <2>2
  <2>4. said[l][k] = IF file[l][k].cooled THEN 0 ELSE file[l][k].told
    BY <1>a, <2>3 DEF SaidEntry
  <2>5. SaidSweep(s)'
    BY <2>2, <2>4 DEF SaidSweep
  <2>6. ASSUME NEW t \in Ss, t # s PROVE SaidSweep(t)'
    <3>1. failedSw'[t] = failedSw[t] /\ failedSw[t].l \in GfLedger /\ failedSw[t].k \in GfKey
      BY <1>d, <2>2, <2>6
    <3>2. failedSw[t].at = "out" \/ failedSw[t].l # l \/ failedSw[t].k # k
      BY <2>3 DEF GfWorks
    <3>3. SaidSweep(t)
      BY <1>a
    <3>4. failedSw[t].at # "out" => file'[failedSw[t].l][failedSw[t].k] = file[failedSw[t].l][failedSw[t].k]
      BY <2>2, <3>1, <3>2
    <3> QED
      BY <2>2, <3>1, <3>3, <3>4 DEF SaidSweep
  <2>7. ASSUME NEW m \in GfLedger, NEW j \in GfKey PROVE SaidEntry(Ss, m, j)'
    <3>1. file'[m][j].told = file[m][j].told /\ file'[m][j].cooled = file[m][j].cooled
      BY <2>2
    <3>2. SaidEntry(Ss, m, j)
      BY <1>a
    <3>3. \A t \in Ss : (GfWorks(t, m, j) /\ failedSw[t].at = "mark") => (GfWorks(t, m, j) /\ failedSw[t].at = "mark")'
      BY <2>2 DEF GfWorks
    <3> QED
      BY <2>2, <3>1, <3>2, <3>3 DEF SaidEntry
  <2> QED
    BY <1>a, <2>2, <2>5, <2>6, <2>7
<1>7. ASSUME NEW s \in Ss, Gf(R, Ss, De, F)!Driven(s) \/ Gf(R, Ss, De, F)!GiveUp(s) \/ Gf(R, Ss, De, F)!Kill(s)
      PROVE Done
  <2>1. /\ UNCHANGED <<file, torn, said>>
        /\ \A t \in Ss \ {s} : failedSw'[t] = failedSw[t]
        /\ \/ /\ failedSw[s].at = "drive" /\ failedSw'[s].at \in {"say", "drop"} /\ (failedSw'[s].at = "drop" => "kill" \in F)
              /\ failedSw'[s].l = failedSw[s].l /\ failedSw'[s].k = failedSw[s].k
              /\ failedSw'[s].drove = failedSw[s].drove
           \/ failedSw'[s].at = "out" /\ "kill" \in F
    <3>1. GfMoved(R, Ss, F, s)
      BY <1>7, <1>c, GfMoves
    <3> QED
      BY <3>1 DEF GfMoved
  <2>2. /\ failedSw[s].at = "drive" /\ failedSw'[s].at = "say" /\ failedSw[s].drove
        /\ failedSw'[s].l = failedSw[s].l /\ failedSw'[s].k = failedSw[s].k
        /\ failedSw'[s].drove = failedSw[s].drove
    BY <1>a, <2>1 DEF SaidSweep
  <2>3. ASSUME NEW t \in Ss PROVE SaidSweep(t)'
    <3>1. SaidSweep(t)
      BY <1>a
    <3>2. CASE t = s
      BY <2>1, <2>2, <3>1, <3>2 DEF SaidSweep
    <3>3. CASE t # s
      BY <2>1, <3>1, <3>3 DEF SaidSweep
    <3> QED
      BY <3>2, <3>3
  <2>4. ASSUME NEW m \in GfLedger, NEW j \in GfKey PROVE SaidEntry(Ss, m, j)'
    <3>1. \A t \in Ss : (GfWorks(t, m, j) /\ failedSw[t].at = "mark") => (GfWorks(t, m, j) /\ failedSw[t].at = "mark")'
      BY <2>1, <2>2 DEF GfWorks
    <3>2. SaidEntry(Ss, m, j)
      BY <1>a
    <3> QED
      BY <2>1, <3>1, <3>2 DEF SaidEntry
  <2> QED
    BY <1>a, <2>1, <2>3, <2>4
<1>8. ASSUME NEW s \in Ss, Gf(R, Ss, De, F)!Say(s) PROVE Done
  <2>0. GfSaid(R, Ss, s)
    BY <1>8, <1>c, GfSay
  <2>1. /\ UNCHANGED <<file, torn>>
        /\ failedSw[s].at = "say" /\ failedSw'[s].at = "mark"
        /\ failedSw'[s].l = failedSw[s].l /\ failedSw'[s].k = failedSw[s].k /\ failedSw'[s].n = failedSw[s].n
        /\ \A t \in Ss \ {s} : failedSw'[t] = failedSw[t]
        /\ \A m \in GfLedger, j \in GfKey :
             said'[m][j] = IF m = failedSw[s].l /\ j = failedSw[s].k THEN failedSw[s].n ELSE said[m][j]
    BY <2>0 DEF GfSaid
  <2>2. ASSUME NEW t \in Ss PROVE SaidSweep(t)'
    <3>1. SaidSweep(t) /\ failedSw[t].l \in GfLedger /\ failedSw[t].k \in GfKey
      BY <1>a, <1>d
    <3>2. CASE t = s
      BY <2>1, <3>1, <3>2 DEF SaidSweep
    <3>3. CASE t # s
      <4>1. failedSw[t].at = "out" \/ failedSw[t].l # failedSw[s].l \/ failedSw[t].k # failedSw[s].k
        BY <1>d, <1>e, <2>1, <3>3 DEF GfWorks
      <4>2. failedSw[t].at # "out" => said'[failedSw[t].l][failedSw[t].k] = said[failedSw[t].l][failedSw[t].k]
        BY <2>1, <3>1, <4>1
      <4> QED
        BY <2>1, <3>1, <3>3, <4>2 DEF SaidSweep
    <3> QED
      BY <3>2, <3>3
  <2>3. ASSUME NEW m \in GfLedger, NEW j \in GfKey PROVE SaidEntry(Ss, m, j)'
    <3>1. CASE m = failedSw[s].l /\ j = failedSw[s].k
      BY <2>1, <3>1 DEF SaidEntry, GfWorks
    <3>2. CASE ~(m = failedSw[s].l /\ j = failedSw[s].k)
      <4>1. \A t \in Ss : (GfWorks(t, m, j) /\ failedSw[t].at = "mark") => (GfWorks(t, m, j) /\ failedSw[t].at = "mark")'
        BY <2>1 DEF GfWorks
      <4>2. SaidEntry(Ss, m, j)
        BY <1>a
      <4> QED
        BY <2>1, <3>2, <4>1, <4>2 DEF SaidEntry
    <3> QED
      BY <3>1, <3>2
  <2> QED
    BY <1>a, <2>1, <2>2, <2>3
<1>9. ASSUME NEW s \in Ss, Gf(R, Ss, De, F)!Release(s) PROVE Done
  <2> DEFINE l == failedSw[s].l
             k == failedSw[s].k
  <2>0. failedSw[s].at = "mark" /\ file[l][k].claim = s /\ file[l][k].attempts > 0 /\ said[l][k] = failedSw[s].n
    <3>1. failedSw[s].at \in {"mark", "drop"}
      BY <1>9 DEF Gf!Release
    <3> QED
      BY <1>a, <3>1 DEF SaidSweep
  <2>1. /\ UNCHANGED <<torn, said>> /\ failedSw'[s].at = "out"
        /\ \A t \in Ss \ {s} : failedSw'[t] = failedSw[t]
        /\ \A m \in GfLedger, j \in GfKey : m # l \/ j # k => file'[m][j] = file[m][j]
        /\ file'[l][k].told = failedSw[s].n /\ ~file'[l][k].cooled
    <3>1. GfReleased(R, Ss, s)
      BY <1>9, <1>c, GfRelease
    <3> QED
      BY <2>0, <3>1 DEF GfReleased
  <2>2. ASSUME NEW t \in Ss PROVE SaidSweep(t)'
    <3>1. SaidSweep(t) /\ failedSw[t].l \in GfLedger /\ failedSw[t].k \in GfKey
      BY <1>a, <1>d
    <3>2. CASE t = s
      BY <2>1, <3>2 DEF SaidSweep
    <3>3. CASE t # s
      <4>1. failedSw[t].at = "out" \/ failedSw[t].l # l \/ failedSw[t].k # k
        BY <1>d, <1>e, <2>0, <3>3 DEF GfWorks
      <4>2. failedSw[t].at # "out" => file'[failedSw[t].l][failedSw[t].k] = file[failedSw[t].l][failedSw[t].k]
        BY <2>1, <3>1, <4>1
      <4> QED
        BY <2>1, <3>1, <3>3, <4>2 DEF SaidSweep
    <3> QED
      BY <3>2, <3>3
  <2>3. ASSUME NEW m \in GfLedger, NEW j \in GfKey PROVE SaidEntry(Ss, m, j)'
    <3>1. CASE m = l /\ j = k
      BY <2>0, <2>1, <3>1 DEF SaidEntry
    <3>2. CASE ~(m = l /\ j = k)
      <4>1. \A t \in Ss : (GfWorks(t, m, j) /\ failedSw[t].at = "mark") => (GfWorks(t, m, j) /\ failedSw[t].at = "mark")'
        BY <2>1, <3>2 DEF GfWorks
      <4>2. SaidEntry(Ss, m, j)
        BY <1>a
      <4> QED
        BY <2>1, <3>2, <4>1, <4>2 DEF SaidEntry
    <3> QED
      BY <3>1, <3>2
  <2> QED
    BY <1>a, <2>1, <2>2, <2>3
<1>10. ASSUME NEW l \in GfLedger, NEW k \in GfKey, Gf(R, Ss, De, F)!Cool(l, k) \/ Gf(R, Ss, De, F)!Expire(l, k)
       PROVE Done
  <2>1. GfTimed(R, Ss, l, k)
    BY <1>10, <1>c, GfTime
  <2>2. /\ UNCHANGED <<torn, failedSw>>
        /\ \A m \in GfLedger, j \in GfKey : m # l \/ j # k => file'[m][j] = file[m][j] /\ said'[m][j] = said[m][j]
        /\ file'[l][k].told = file[l][k].told
        /\ \/ file[l][k].claim = "nobody" /\ file'[l][k].cooled /\ said'[l][k] = 0
           \/ /\ ~GfWorks(file[l][k].claim, l, k)
              /\ file'[l][k].cooled = file[l][k].cooled /\ said'[l][k] = said[l][k]
    BY <2>1 DEF GfTimed
  <2>3. \A t \in Ss : ~GfWorks(t, l, k)
    BY <1>f, <2>2
  <2>4. ASSUME NEW t \in Ss PROVE SaidSweep(t)'
    <3>1. SaidSweep(t) /\ failedSw[t].l \in GfLedger /\ failedSw[t].k \in GfKey
      BY <1>a, <1>d
    <3>2. failedSw[t].at # "out" => /\ file'[failedSw[t].l][failedSw[t].k] = file[failedSw[t].l][failedSw[t].k]
                                    /\ said'[failedSw[t].l][failedSw[t].k] = said[failedSw[t].l][failedSw[t].k]
      BY <2>2, <2>3, <3>1 DEF GfWorks
    <3> QED
      BY <2>2, <3>1, <3>2 DEF SaidSweep
  <2>5. ASSUME NEW m \in GfLedger, NEW j \in GfKey PROVE SaidEntry(Ss, m, j)'
    <3>1. SaidEntry(Ss, m, j)
      BY <1>a
    <3>2. CASE m = l /\ j = k
      BY <2>2, <2>3, <3>1, <3>2 DEF SaidEntry, GfWorks
    <3>3. CASE ~(m = l /\ j = k)
      BY <2>2, <3>1, <3>3 DEF SaidEntry, GfWorks
    <3> QED
      BY <3>2, <3>3
  <2> QED
    BY <1>a, <2>2, <2>4, <2>5
<1>11. ASSUME NEW l \in GfLedger,
              Gf(R, Ss, De, F)!Tear(l) \/ Gf(R, Ss, De, F)!CopyAside(l) \/ Gf(R, Ss, De, F)!Salvage(l)
       PROVE Done
  <2>1. UNCHANGED <<file, failedSw, said>> /\ torn' = torn
    BY <1>11, <1>a, <1>c, GfFiles
  <2> QED
    BY <1>a, <2>1, SaidKept
<1>12. ASSUME NEW l \in GfLedger, Gf(R, Ss, De, F)!Afresh(l) PROVE Done
  BY <1>12, <1>a DEF Gf!Afresh
<1>13. Done
  <2> HIDE DEF Done
  <2>1. CASE UNCHANGED failedVars
    BY <1>1, <2>1 DEF failedVars
  <2>2. CASE Gf(R, Ss, De, F)!Next
    BY <1>1, <1>2, <1>3, <1>4, <1>5, <1>6, <1>7, <1>8, <1>9, <1>10, <1>11, <1>12, <2>2, GfCases
  <2> QED
    BY <2>1, <2>2
<1> QED
  BY <1>b, <1>13 DEF SaidInv

\* The part's own ledgers are instances of these.
LEMMA FailedLink ==
  /\ FailedGates!Init => Gf(Redrives, Overlapping, Deliveries, {"kill"})!Init
  /\ FailedGates!Next => Gf(Redrives, Overlapping, Deliveries, {"kill"})!Next
  /\ Gf(Redrives, Overlapping, Deliveries, {"kill"})!RedrivesBounded => FailedGates!RedrivesBounded
BY Zenon
  DEF FailedGates!Next, Gf!Next, FailedGates!Start, Gf!Start, FailedGates!Run, Gf!Run, FailedGates!Fail,
      Gf!Fail, FailedGates!Complete, Gf!Complete, FailedGates!Busy, Gf!Busy, FailedGates!Own, Gf!Own,
      FailedGates!Record, Gf!Record, FailedGates!Recorded, Gf!Recorded, FailedGates!RecordIn,
      Gf!RecordIn, FailedGates!Resolve, Gf!Resolve, FailedGates!ResolveIn, Gf!ResolveIn,
      FailedGates!Resolved, Gf!Resolved, FailedGates!Settle, Gf!Settle, FailedGates!Put, Gf!Put,
      FailedGates!Open, Gf!Open, FailedGates!Held, Gf!Held, FailedGates!Sweeping, Gf!Sweeping,
      FailedGates!ResolveNotice, Gf!ResolveNotice, FailedGates!ResolveDuplicate, Gf!ResolveDuplicate,
      FailedGates!Homed, Gf!Homed, FailedGates!Claim, Gf!Claim, FailedGates!Claimed, Gf!Claimed,
      FailedGates!Due, Gf!Due, FailedGates!May, Gf!May, FailedGates!Driven, Gf!Driven,
      FailedGates!GiveUp, Gf!GiveUp, FailedGates!Say, Gf!Say, FailedGates!Release, Gf!Release,
      FailedGates!Marked, Gf!Marked, FailedGates!Health, Gf!Health, FailedGates!OwnerState,
      Gf!OwnerState, FailedGates!Cool, Gf!Cool, FailedGates!Kill, Gf!Kill, FailedGates!Works, Gf!Works,
      FailedGates!Expire, Gf!Expire, FailedGates!Tear, Gf!Tear, FailedGates!CopyAside, Gf!CopyAside,
      FailedGates!Moving, Gf!Moving, FailedGates!Afresh, Gf!Afresh, FailedGates!Notice, Gf!Notice,
      FailedGates!Salvage, Gf!Salvage, FailedGates!Ledger, Gf!Ledger, FailedGates!Key, Gf!Key,
      FailedGates!Runner, Gf!Runner, FailedGates!NoSweep, Gf!NoSweep, FailedGates!NoEntry, Gf!NoEntry,
      FailedGates!Idle, Gf!Idle, FailedGates!Init, Gf!Init, FailedGates!OwedIsHeld, Gf!OwedIsHeld,
      FailedGates!RedrivesBounded, Gf!RedrivesBounded, FailedGates!Unrepeated, Gf!Unrepeated

LEMMA TornLink ==
  /\ TornLedger!Init => Gf(FewRedrives, {OneSweep}, FewDeliveries, {"kill", "torn", "clean"})!Init
  /\ TornLedger!Next => Gf(FewRedrives, {OneSweep}, FewDeliveries, {"kill", "torn", "clean"})!Next
  /\ Gf(FewRedrives, {OneSweep}, FewDeliveries, {"kill", "torn", "clean"})!OwedIsHeld => TornLedger!OwedIsHeld
BY Zenon
  DEF TornLedger!Next, Gf!Next, TornLedger!Start, Gf!Start, TornLedger!Run, Gf!Run, TornLedger!Fail,
      Gf!Fail, TornLedger!Complete, Gf!Complete, TornLedger!Busy, Gf!Busy, TornLedger!Own, Gf!Own,
      TornLedger!Record, Gf!Record, TornLedger!Recorded, Gf!Recorded, TornLedger!RecordIn, Gf!RecordIn,
      TornLedger!Resolve, Gf!Resolve, TornLedger!ResolveIn, Gf!ResolveIn, TornLedger!Resolved,
      Gf!Resolved, TornLedger!Settle, Gf!Settle, TornLedger!Put, Gf!Put, TornLedger!Open, Gf!Open,
      TornLedger!Held, Gf!Held, TornLedger!Sweeping, Gf!Sweeping, TornLedger!ResolveNotice,
      Gf!ResolveNotice, TornLedger!ResolveDuplicate, Gf!ResolveDuplicate, TornLedger!Homed, Gf!Homed,
      TornLedger!Claim, Gf!Claim, TornLedger!Claimed, Gf!Claimed, TornLedger!Due, Gf!Due, TornLedger!May,
      Gf!May, TornLedger!Driven, Gf!Driven, TornLedger!GiveUp, Gf!GiveUp, TornLedger!Say, Gf!Say,
      TornLedger!Release, Gf!Release, TornLedger!Marked, Gf!Marked, TornLedger!Health, Gf!Health,
      TornLedger!OwnerState, Gf!OwnerState, TornLedger!Cool, Gf!Cool, TornLedger!Kill, Gf!Kill,
      TornLedger!Works, Gf!Works, TornLedger!Expire, Gf!Expire, TornLedger!Tear, Gf!Tear,
      TornLedger!CopyAside, Gf!CopyAside, TornLedger!Moving, Gf!Moving, TornLedger!Afresh, Gf!Afresh,
      TornLedger!Notice, Gf!Notice, TornLedger!Salvage, Gf!Salvage, TornLedger!Ledger, Gf!Ledger,
      TornLedger!Key, Gf!Key, TornLedger!Runner, Gf!Runner, TornLedger!NoSweep, Gf!NoSweep,
      TornLedger!NoEntry, Gf!NoEntry, TornLedger!Idle, Gf!Idle, TornLedger!Init, Gf!Init,
      TornLedger!OwedIsHeld, Gf!OwedIsHeld, TornLedger!RedrivesBounded, Gf!RedrivesBounded,
      TornLedger!Unrepeated, Gf!Unrepeated

LEMMA SaidLink ==
  /\ SaidFailures!Init => Gf(FewRedrives, Overlapping, FewDeliveries, {"busy", "clean"})!Init
  /\ SaidFailures!Next => Gf(FewRedrives, Overlapping, FewDeliveries, {"busy", "clean"})!Next
  /\ Gf(FewRedrives, Overlapping, FewDeliveries, {"busy", "clean"})!Unrepeated => SaidFailures!Unrepeated
BY Zenon
  DEF SaidFailures!Next, Gf!Next, SaidFailures!Start, Gf!Start, SaidFailures!Run, Gf!Run,
      SaidFailures!Fail, Gf!Fail, SaidFailures!Complete, Gf!Complete, SaidFailures!Busy, Gf!Busy,
      SaidFailures!Own, Gf!Own, SaidFailures!Record, Gf!Record, SaidFailures!Recorded, Gf!Recorded,
      SaidFailures!RecordIn, Gf!RecordIn, SaidFailures!Resolve, Gf!Resolve, SaidFailures!ResolveIn,
      Gf!ResolveIn, SaidFailures!Resolved, Gf!Resolved, SaidFailures!Settle, Gf!Settle, SaidFailures!Put,
      Gf!Put, SaidFailures!Open, Gf!Open, SaidFailures!Held, Gf!Held, SaidFailures!Sweeping, Gf!Sweeping,
      SaidFailures!ResolveNotice, Gf!ResolveNotice, SaidFailures!ResolveDuplicate, Gf!ResolveDuplicate,
      SaidFailures!Homed, Gf!Homed, SaidFailures!Claim, Gf!Claim, SaidFailures!Claimed, Gf!Claimed,
      SaidFailures!Due, Gf!Due, SaidFailures!May, Gf!May, SaidFailures!Driven, Gf!Driven,
      SaidFailures!GiveUp, Gf!GiveUp, SaidFailures!Say, Gf!Say, SaidFailures!Release, Gf!Release,
      SaidFailures!Marked, Gf!Marked, SaidFailures!Health, Gf!Health, SaidFailures!OwnerState,
      Gf!OwnerState, SaidFailures!Cool, Gf!Cool, SaidFailures!Kill, Gf!Kill, SaidFailures!Works,
      Gf!Works, SaidFailures!Expire, Gf!Expire, SaidFailures!Tear, Gf!Tear, SaidFailures!CopyAside,
      Gf!CopyAside, SaidFailures!Moving, Gf!Moving, SaidFailures!Afresh, Gf!Afresh, SaidFailures!Notice,
      Gf!Notice, SaidFailures!Salvage, Gf!Salvage, SaidFailures!Ledger, Gf!Ledger, SaidFailures!Key,
      Gf!Key, SaidFailures!Runner, Gf!Runner, SaidFailures!NoSweep, Gf!NoSweep, SaidFailures!NoEntry,
      Gf!NoEntry, SaidFailures!Idle, Gf!Idle, SaidFailures!Init, Gf!Init, SaidFailures!OwedIsHeld,
      Gf!OwedIsHeld, SaidFailures!RedrivesBounded, Gf!RedrivesBounded, SaidFailures!Unrepeated,
      Gf!Unrepeated


\* A standing alert is not repeated within its cooldown, however sweeps overlap, run out of time,
\* raise or are killed; one failure of a gate is not told by two sweeps; and no overlap and no death
\* makes more re-drives of it than MAX_REDRIVES, or takes the record of one that nobody was told of
\* (watch.py's sweep_loop, gate_failures.py's claim and release).
THEOREM AlertsOnceHolds == PartSpec => AlertsOnce
<1> DEFINE Inv == /\ part = "sweep" => SwInv({Watchdog}, TRUE)
                  /\ part = "two_sweeps" => SwInv(Overlapping, FALSE)
                  /\ part = "failed_gates" => GfTyped(Redrives, Overlapping) /\ GfBounded
                  /\ part = "torn_ledger" => OwInv(FewRedrives, {OneSweep})
                  /\ part = "said_failures" => SaidInv(FewRedrives, Overlapping)
           Lines == (part = "sweep" => Sweeps!Unrepeated) /\ (part = "two_sweeps" => TwoSweeps!Unrepeated)
           Told == part = "said_failures" => SaidFailures!Unrepeated
<1>0. Redrives \in Nat /\ FewRedrives \in Nat /\ "nobody" \notin Overlapping
  BY HostAssumption DEF FailedGates!GateFailuresAssumption, TornLedger!GateFailuresAssumption, TwoSweeps!SweepAssumption
<1>1. PartInit => Inv
  <2> SUFFICES ASSUME PartInit PROVE Inv
    OBVIOUS
  <2>1. /\ part = "sweep" => SwInv({Watchdog}, TRUE)
        /\ part = "two_sweeps" => SwInv(Overlapping, FALSE)
    <3>1. part = "sweep" => Sweeps!Init
      BY DEF PartInit
    <3>2. part = "two_sweeps" => TwoSweeps!Init
      BY DEF PartInit
    <3> QED
      BY <3>1, <3>2, SweepLink, SwInit
  <2>2. part = "failed_gates" => GfTyped(Redrives, Overlapping) /\ GfBounded
    <3> SUFFICES ASSUME part = "failed_gates" PROVE GfTyped(Redrives, Overlapping) /\ GfBounded
      OBVIOUS
    <3>1. Gf(Redrives, Overlapping, Deliveries, {"kill"})!Init
      BY FailedLink DEF PartInit
    <3>2. /\ GfTyped(Redrives, Overlapping)
          /\ \A l \in GfLedger, k \in GfKey : file[l][k].redrives = 0 /\ drives[l] = 0
      BY <1>0, <3>1, GfInit
    <3>3. "event" \in GfKey
      BY DEF GfKey
    <3> QED
      BY <3>2, <3>3 DEF GfBounded
  <2>3. part = "torn_ledger" => OwInv(FewRedrives, {OneSweep})
    <3> SUFFICES ASSUME part = "torn_ledger" PROVE OwInv(FewRedrives, {OneSweep})
      OBVIOUS
    <3>1. Gf(FewRedrives, {OneSweep}, FewDeliveries, {"kill", "torn", "clean"})!Init
      BY TornLink DEF PartInit
    <3>2. /\ GfTyped(FewRedrives, {OneSweep}) /\ torn = {} /\ \A s \in {OneSweep} : failedSw[s].at = "out"
          /\ gt = [x \in Gate \cup {OneSweep} |-> "idle"]
          /\ \A l \in GfLedger, k \in GfKey :
               /\ file[l][k].attempts = 0 /\ file[l][k].redrives = 0 /\ file[l][k].told = 0
               /\ owed[l][k] = {} /\ drives[l] = 0
      BY <1>0, <3>1, GfInit
    <3>3. "event" \in GfKey /\ "notice" \in GfKey /\ "fallback" \in GfLedger
      BY DEF GfKey, GfLedger
    <3>4. GfBounded /\ GfGates({OneSweep})
      BY <3>2, <3>3 DEF GfBounded, GfGates
    <3>5. OwLoop /\ (\A l \in GfLedger : OwEntry(l)) /\ \A s \in {OneSweep} : OwSweep(s)
      BY <3>2, <3>3 DEF OwLoop, OwEntry, OwSweep
    <3> QED
      BY <3>2, <3>4, <3>5 DEF OwInv
  <2>4. part = "said_failures" => SaidInv(FewRedrives, Overlapping)
    <3> SUFFICES ASSUME part = "said_failures" PROVE SaidInv(FewRedrives, Overlapping)
      OBVIOUS
    <3>1. Gf(FewRedrives, Overlapping, FewDeliveries, {"busy", "clean"})!Init
      BY SaidLink DEF PartInit
    <3>2. /\ GfTyped(FewRedrives, Overlapping) /\ torn = {} /\ \A s \in Overlapping : failedSw[s].at = "out"
          /\ \A l \in GfLedger, k \in GfKey :
               /\ file[l][k].redrives = 0 /\ file[l][k].cooled = TRUE /\ said[l][k] = 0 /\ drives[l] = 0
      BY <1>0, <3>1, GfInit
    <3>3. "event" \in GfKey
      BY DEF GfKey
    <3>4. GfBounded
      BY <3>2, <3>3 DEF GfBounded
    <3>5. \A s \in Overlapping : SaidSweep(s)
      BY <3>2 DEF SaidSweep
    <3>6. \A l \in GfLedger, k \in GfKey : SaidEntry(Overlapping, l, k)
      BY <3>2 DEF SaidEntry
    <3> QED
      BY <3>2, <3>4, <3>5, <3>6 DEF SaidInv
  <2> QED
    BY <2>1, <2>2, <2>3, <2>4
<1>2. Inv /\ [PartNext]_partVars => Inv' /\ Lines /\ Told
  <2> SUFFICES ASSUME Inv, [PartNext]_partVars PROVE Inv' /\ Lines /\ Told
    OBVIOUS
  <2>1. part' = part
    BY DEF PartNext, partVars
  <2>2. ASSUME part = "sweep" PROVE SwInv({Watchdog}, TRUE)' /\ Sweeps!Unrepeated
    <3>1. Sw({Watchdog}, TRUE, {"github", "slow", "raise", "kill"})!Next \/ UNCHANGED sweepVars
      BY <2>2, SweepLink DEF PartNext, partVars
    <3>2. SwInv({Watchdog}, TRUE)' /\ Sw({Watchdog}, TRUE, {"github", "slow", "raise", "kill"})!Unrepeated
      BY <2>2, <3>1, SweepLink, SwStep
    <3> QED
      BY <3>2, SweepLink
  <2>3. ASSUME part = "two_sweeps" PROVE SwInv(Overlapping, FALSE)' /\ TwoSweeps!Unrepeated
    <3>1. Sw(Overlapping, FALSE, {"slow"})!Next \/ UNCHANGED sweepVars
      BY <2>3, SweepLink DEF PartNext, partVars
    <3>2. SwInv(Overlapping, FALSE)' /\ Sw(Overlapping, FALSE, {"slow"})!Unrepeated
      BY <2>3, <3>1, SweepLink, SwStep
    <3> QED
      BY <3>2, SweepLink
  <2>4. ASSUME part = "failed_gates" PROVE (GfTyped(Redrives, Overlapping) /\ GfBounded)'
    <3>1. Gf(Redrives, Overlapping, Deliveries, {"kill"})!Next \/ UNCHANGED failedVars
      BY <2>4, FailedLink DEF PartNext, partVars
    <3> QED
      BY <1>0, <2>4, <3>1, GfStep
  <2>5. ASSUME part = "torn_ledger" PROVE OwInv(FewRedrives, {OneSweep})'
    <3>1. Gf(FewRedrives, {OneSweep}, FewDeliveries, {"kill", "torn", "clean"})!Next \/ UNCHANGED failedVars
      BY <2>5, TornLink DEF PartNext, partVars
    <3>2. {"kill", "torn", "clean"} \cap {"busy", "migrating"} = {}
      OBVIOUS
    <3> QED
      BY <1>0, <2>5, <3>1, <3>2, OwStep
  <2>6. ASSUME part = "said_failures" PROVE SaidInv(FewRedrives, Overlapping)' /\ SaidFailures!Unrepeated
    <3>1. Gf(FewRedrives, Overlapping, FewDeliveries, {"busy", "clean"})!Next \/ UNCHANGED failedVars
      BY <2>6, SaidLink DEF PartNext, partVars
    <3>2. {"busy", "clean"} \cap {"kill", "torn", "migrating"} = {}
      OBVIOUS
    <3>3. SaidInv(FewRedrives, Overlapping)'
      BY <1>0, <2>6, <3>1, <3>2, SaidStep
    <3>4. \A s \in Overlapping : SaidSweep(s)
      BY <2>6 DEF SaidInv
    <3>5. SaidFailures!Unrepeated
      BY <3>4 DEF SaidSweep, SaidFailures!Unrepeated, SaidFailures!Say
    <3> QED
      BY <3>3, <3>5
  <2> QED
    BY <2>1, <2>2, <2>3, <2>4, <2>5, <2>6
<1>3. Inv => (part = "failed_gates" => FailedGates!RedrivesBounded)
  <2> SUFFICES ASSUME GfTyped(Redrives, Overlapping), GfBounded PROVE FailedGates!RedrivesBounded
    OBVIOUS
  <2>1. \A l \in GfLedger : drives[l] \in Nat /\ file[l]["event"].redrives \in 0..Redrives
    BY DEF GfTyped, GfKey, GfEntry
  <2> QED
    BY <1>0, <2>1 DEF GfBounded, FailedGates!RedrivesBounded, FailedGates!Ledger, GfLedger
<1>4. Inv => (part = "torn_ledger" => TornLedger!OwedIsHeld)
  BY DEF OwInv, OwEntry, GfLedger, TornLedger!OwedIsHeld, TornLedger!Ledger, TornLedger!Open, TornLedger!Held
<1>5. Inv /\ [PartNext]_partVars =>
        [(part = "sweep" => Sweeps!Unrepeated) /\ (part = "two_sweeps" => TwoSweeps!Unrepeated)]_sweepVars
  BY <1>2
<1>6. Inv /\ [PartNext]_partVars => [part = "said_failures" => SaidFailures!Unrepeated]_failedVars
  BY <1>2
<1> HIDE DEF Inv
<1> QED
  BY <1>1, <1>2, <1>3, <1>4, <1>5, <1>6, PTL DEF PartSpec, AlertsOnce

-----------------------------------------------------------------------------
(* The installation.  A command is alone with the config, the routes and   *)
(* the hooks until it ends, so what it says at its end follows from what   *)
(* each of its stages has done since it began: the invariant says it, one  *)
(* kind of command after the other and one place of its plan after the     *)
(* other, and what undoing a stage that failed has put back by then.       *)

Plans == INSTANCE Sequences
Li(Pr, Ki, Co) == INSTANCE LoopInstall WITH Seat <- {"reviewer", "fixer"}, Prof <- Pr, MaxHook <- MostHooks,
                                            Kinds <- Ki, Commands <- Co, Faults <- InstallFaults,
                                            intent <- installIntent, minted <- installMinted, faults <- installFaults

InSeat == {"reviewer", "fixer"}
InHook == 1..MostHooks
InStage == {"config", "routes", "intent", "posts", "moves", "flips", "deletes", "unpost", "unmove", "unroute",
            "unintent", "unconfig"}
InKind == {"init", "apply", "recreate", "ensure", "arm", "pause", "uninstall"}
InRoute(Pr) == [prof : Pr \cup {"none"}, sec : Nat]
InHooks(Pr) == [InHook -> [seat : InSeat, prof : Pr \cup {"none"}, sec : Nat, on : BOOLEAN]]
InMove == [hook : InHook, seat : InSeat]
InSnap(Pr) == [cfg : [InSeat -> Pr \cup {"none"}], route : [InSeat -> InRoute(Pr)], hook : InHooks(Pr), next : Nat]
InCmd(Pr) ==
  [kind : InKind \cup {"none"}, plan : Plans!Seq(InStage), res : {"ok", "warn", "failed", "dirty"}, arm : BOOLEAN,
   seats : SUBSET InSeat, todo : SUBSET InSeat, to : [InSeat -> Pr \cup {"none"}], moves : SUBSET InMove,
   tried : SUBSET InMove, hooks : SUBSET InHook, snap : {cmd.snap}]

\* Types; and GitHub has no hook that it has not created yet.
InStore(Pr) ==
  /\ settings \in [InSeat -> Pr] /\ cfg \in [InSeat -> Pr \cup {"none"}]
  /\ route \in [InSeat -> InRoute(Pr)] /\ installIntent \in [InSeat -> InRoute(Pr)]
  /\ hook \in InHooks(Pr) /\ next \in Nat \ {0} /\ installMinted \in Nat
  /\ \A h \in InHook : h >= next => hook[h].prof = "none"
InSnapped(Pr) ==
  /\ cmd.snap \in InSnap(Pr) /\ cmd.snap.next <= next
  /\ \A h \in InHook : h >= cmd.snap.next => cmd.snap.hook[h].prof = "none"
InTyped(Pr) ==
  /\ InStore(Pr) /\ cmd \in InCmd(Pr) /\ \A m \in cmd.moves : m.hook < next
  /\ IF cmd.kind = "none" THEN cmd.plan = <<>> ELSE InSnapped(Pr)

InAt(f, s, p) == {h \in InHook : f[h].prof # "none" /\ f[h].seat = s /\ f[h].prof = p}
\* The hooks post where they did when the command began.
InUnmoved == \A h \in InHook : hook[h].prof = cmd.snap.hook[h].prof

InRouteBack == \A s \in InSeat : route[s] = cmd.snap.route[s]

\* init: a hook that its routes would share does not exist, or signs with their secret.
InitBegun ==
  \/ /\ cmd.plan = <<"config", "routes", "intent", "posts">> /\ InUnmoved /\ cmd.todo = InSeat
     /\ \A s \in InSeat : InAt(hook, s, cmd.to[s]) = {}
  \/ /\ cmd.plan = <<"routes", "intent", "posts">> /\ InUnmoved
     /\ cfg = cmd.to /\ \A s \in InSeat : InAt(hook, s, cmd.to[s]) = {} /\ (s \notin cmd.todo => route[s].prof = cmd.to[s])
  \/ /\ cmd.plan = <<"intent", "posts">> /\ InUnmoved /\ cmd.todo = InSeat
     /\ cfg = cmd.to /\ \A s \in InSeat : InAt(hook, s, cmd.to[s]) = {} /\ route[s].prof = cmd.to[s]
  \/ /\ cmd.plan \in {<<"posts">>, <<>>} /\ (cmd.plan = <<>> => cmd.todo = {})
     /\ cfg = cmd.to
     /\ \A s \in InSeat :
          /\ route[s].prof = cmd.to[s]
          /\ \A h \in InAt(hook, s, cmd.to[s]) : hook[h].sec = route[s].sec
          /\ s \notin cmd.todo => \E h \in InAt(hook, s, cmd.to[s]) : hook[h].on = cmd.arm
InitFailed ==
  \/ cmd.plan = <<"unpost", "unroute", "unintent", "unconfig">>
  \/ cmd.plan \in {<<"unroute", "unintent", "unconfig">>, <<"unroute", "unconfig">>} /\ (cmd.res = "failed" => InUnmoved)
  \/ /\ cmd.plan \in {<<"unintent", "unconfig">>, <<"unconfig">>}
     /\ cmd.res = "failed" => InUnmoved /\ InRouteBack
  \/ cmd.plan = <<>> /\ (cmd.res = "failed" => InUnmoved /\ InRouteBack /\ cfg = cmd.snap.cfg)
InInit(Pr) ==
  /\ cmd.seats = InSeat /\ cmd.to \in [InSeat -> Pr]
  /\ \A h \in InHook : h < cmd.snap.next => hook[h].prof = cmd.snap.hook[h].prof
  /\ \/ cmd.res = "ok" /\ InitBegun
     \/ cmd.res \in {"failed", "dirty"} /\ InitFailed

\* arm and pause: what was not confirmed to be flipped is still to be.
InWakes(s) == InAt(hook, s, IF route[s].prof = cfg[s] THEN cfg[s] ELSE "none")
InOurs(s) == InAt(hook, s, route[s].prof) \cup InAt(hook, s, cfg[s])
InHeard(s) == \E h \in InWakes(s) : hook[h].on /\ hook[h].sec = route[s].sec
InFlip ==
  /\ cmd.arm = (cmd.kind = "arm") /\ cmd.res \in {"ok", "failed"}
  /\ \/ /\ cmd.plan = <<"flips">>
        /\ cmd.res = "ok" =>
             \A s \in InSeat : \A h \in (IF cmd.arm THEN InWakes(s) ELSE InOurs(s)) : h \in cmd.hooks \/ hook[h].on = cmd.arm
     \/ cmd.plan = <<>> /\ (cmd.res = "ok" => \A s \in InSeat : InHeard(s) <=> cmd.arm)

\* uninstall: the routes go when no hook of theirs was left in the listing.
InGone == \A s \in InSeat : InAt(hook, s, cmd.snap.route[s].prof) = {} /\ InAt(hook, s, cmd.snap.cfg[s]) = {}
InNoRoutes == \A s \in InSeat : route[s] = [prof |-> "none", sec |-> 0]
InUninstall ==
  /\ cmd.seats = InSeat
  /\ \/ /\ cmd.plan = <<"deletes", "unintent", "unroute", "unconfig">> /\ cmd.res \in {"ok", "failed"}
        /\ cfg = cmd.snap.cfg /\ route = cmd.snap.route
     \/ cmd.plan \in {<<"unintent", "unroute", "unconfig">>, <<"unroute", "unconfig">>} /\ cmd.res = "ok" /\ InGone
     \/ cmd.plan \in {<<"unconfig">>, <<>>} /\ cmd.res = "ok" /\ InGone /\ InNoRoutes
     \/ cmd.plan = <<>> /\ cmd.res = "failed"

\* apply, recreate and ensure move hooks of their own seat, each to where its seat's route will be.
InSent(s) == IF s \in cmd.seats THEN cmd.to[s] ELSE cmd.snap.route[s].prof
InMoves == \A m \in cmd.moves \cup cmd.tried : hook[m.hook].seat = m.seat
InSigned == \A m \in cmd.tried : hook[m.hook].sec = route[m.seat].sec
\* A seat that had an armed hook has one, at its route or about to be moved there.
InHad(s) == \E h \in InAt(cmd.snap.hook, s, cmd.snap.route[s].prof) : cmd.snap.hook[h].on
InHas(s) ==
  \E h \in InHook : /\ hook[h].prof # "none" /\ hook[h].seat = s /\ hook[h].on
                    /\ hook[h].prof = InSent(s) \/ [hook |-> h, seat |-> s] \in cmd.moves
InStays ==
  /\ \A m \in cmd.moves : cmd.to[m.seat] = InSent(m.seat)
  /\ \A s \in InSeat : InHad(s) => InHas(s)
InRouted == \A s \in cmd.seats : route[s].prof = cmd.to[s]
InAgreed == \A s \in cmd.seats : route[s].prof = cfg[s] /\ installIntent[s] = route[s]

ApplyBegun ==
  /\ InMoves /\ InStays /\ InSigned
  /\ \/ /\ cmd.plan = <<"routes", "moves", "config", "intent">> /\ cmd.tried = {}
        /\ \A s \in cmd.seats \ cmd.todo : route[s].prof = cmd.to[s]
     \/ cmd.plan = <<"moves", "config", "intent">> /\ InRouted
     \/ cmd.plan = <<"config", "intent">> /\ InRouted /\ cmd.moves = {}
     \/ cmd.plan = <<"intent">> /\ InRouted /\ cmd.moves = {} /\ cfg = cmd.to
     \/ cmd.plan = <<>> /\ cmd.moves = {} /\ cfg = cmd.to /\ InAgreed
ApplyFailed ==
  \/ cmd.plan = <<"unmove", "unroute", "unconfig">>
  \/ cmd.plan = <<"unroute", "unconfig">> /\ (cmd.res = "failed" => InUnmoved)
  \/ cmd.plan = <<"unconfig">> /\ (cmd.res = "failed" => InUnmoved /\ InRouteBack)
  \/ cmd.plan = <<>> /\ (cmd.res = "failed" => InUnmoved /\ InRouteBack /\ cfg = cmd.snap.cfg)
InApply(Pr) ==
  /\ cmd.to \in [InSeat -> Pr] /\ cmd.todo \subseteq cmd.seats
  /\ \A s \in InSeat \ cmd.seats : route[s] = cmd.snap.route[s]
  /\ \A h \in InHook : hook[h].prof = cmd.snap.hook[h].prof \/ \E m \in cmd.tried : m.hook = h
  /\ \/ cmd.res \in {"ok", "warn"} /\ ApplyBegun
     \/ cmd.res \in {"failed", "dirty"} /\ ApplyFailed

InRecreate ==
  /\ cmd.todo \subseteq cmd.seats
  /\ \/ /\ cmd.res \in {"ok", "warn"} /\ InMoves /\ InSigned /\ cfg = cmd.to
        /\ \/ /\ cmd.plan = <<"routes", "moves", "intent">> /\ cmd.tried = {}
              /\ \A s \in cmd.seats \ cmd.todo : route[s].prof = cmd.to[s]
           \/ cmd.plan \in {<<"moves", "intent">>, <<"intent">>} /\ InRouted
           \/ cmd.plan = <<>> /\ InAgreed
     \/ cmd.res \in {"failed", "dirty"} /\ cmd.plan \in {<<"unroute", "unintent">>, <<"unintent">>, <<>>}

InEnsure(Pr) ==
  /\ cmd.seats = {} /\ cmd.to \in [InSeat -> Pr]
  /\ \/ /\ cmd.res \in {"ok", "warn"} /\ route = cmd.snap.route /\ InMoves /\ InStays
        /\ \/ cmd.plan = <<"posts", "moves">> /\ cmd.tried = {}
           \/ cmd.plan = <<"moves">>
           \/ cmd.plan = <<>> /\ cmd.moves = {}
     \/ cmd.res \in {"failed", "dirty"} /\ cmd.plan \in {<<"unpost">>, <<>>}

InCommand(Pr) ==
  /\ cmd.kind = "init" => InInit(Pr)
  /\ cmd.kind \in {"arm", "pause"} => InFlip
  /\ cmd.kind = "uninstall" => InUninstall
  /\ cmd.kind = "apply" => InApply(Pr)
  /\ cmd.kind = "recreate" => InRecreate
  /\ cmd.kind = "ensure" => InEnsure(Pr)
InstallInv(Pr) == InTyped(Pr) /\ InCommand(Pr)

\* What a stage leaves of the command, and what it makes of the rest.
InTo(plan, res, due, moves, tried, hooks) ==
  /\ cmd'.kind = cmd.kind /\ cmd'.seats = cmd.seats /\ cmd'.arm = cmd.arm /\ cmd'.to = cmd.to /\ cmd'.snap = cmd.snap
  /\ cmd'.plan = plan /\ cmd'.res = res /\ cmd'.todo = due /\ cmd'.moves = moves /\ cmd'.tried = tried
  /\ cmd'.hooks = hooks
InOn(plan, res) == InTo(plan, res, cmd.todo, cmd.moves, cmd.tried, cmd.hooks)
InDone == InOn(Plans!Tail(cmd.plan), cmd.res)
\* What a command undoes when a stage fails.
InUndo(stage) ==
  IF cmd.kind = "init" THEN IF stage = "posts" THEN <<"unpost", "unroute", "unintent", "unconfig">>
                                               ELSE <<"unroute", "unconfig">>
  ELSE IF cmd.kind = "apply" THEN <<"unmove", "unroute", "unconfig">>
  ELSE IF cmd.kind = "recreate" THEN <<"unroute", "unintent">>
  ELSE IF cmd.kind = "ensure" /\ stage = "posts" THEN <<"unpost">> ELSE <<>>
\* A hook that is created posts to the route, signs with its secret, and is armed as the command says.
InPost(s) ==
  /\ next \in InHook /\ next' = next + 1
  /\ hook' = [hook EXCEPT ![next] = [seat |-> s, prof |-> route[s].prof, sec |-> route[s].sec, on |-> cmd.arm]]
\* A hook that is moved posts to the command's route for its seat, and signs with its secret.
InPatch(m) == hook' = [hook EXCEPT ![m.hook].prof = cmd.to[m.seat], ![m.hook].sec = route[m.seat].sec]
InSet(h) == hook' = [hook EXCEPT ![h].on = cmd.arm]
\* What the listing and the pings confirm after the flips.
InSure ==
  /\ \A s \in InSeat : IF cmd.arm THEN InWakes(s) # {} ELSE InOurs(s) # {}
  /\ cmd.arm => \A s \in InSeat : \A h \in InWakes(s) : hook[h].sec = route[s].sec

OnConfig == InDone /\ cfg' = cmd.to /\ UNCHANGED <<route, installIntent, hook, next>>
OnRoute(s) ==
  /\ InTo(cmd.plan, cmd.res, cmd.todo \ {s}, cmd.moves, cmd.tried, cmd.hooks)
  /\ s \in cmd.todo /\ route'[s].prof = cmd.to[s] /\ \A t \in InSeat \ {s} : route'[t] = route[t]
  /\ UNCHANGED <<cfg, installIntent, hook, next>>
OnRoutesDone ==
  /\ cmd.todo = {} /\ UNCHANGED <<cfg, route, installIntent, hook, next>>
  /\ InTo(Plans!Tail(cmd.plan), cmd.res, IF cmd.kind = "init" THEN InSeat ELSE {}, cmd.moves, cmd.tried, cmd.hooks)
OnIntent == InDone /\ (\A s \in cmd.seats : installIntent'[s] = route[s]) /\ UNCHANGED <<cfg, route, hook, next>>
OnFailure(stage) == InOn(InUndo(stage), "failed") /\ UNCHANGED <<cfg, route, installIntent, hook, next>>
OnPost(s) ==
  /\ s \in cmd.todo /\ UNCHANGED <<cfg, route, installIntent>>
  /\ \/ InPost(s) /\ InTo(cmd.plan, cmd.res, cmd.todo \ {s}, cmd.moves, cmd.tried, cmd.hooks \cup {next})
     \/ (InPost(s) \/ UNCHANGED <<hook, next>>) /\ InOn(InUndo("posts"), "failed")
OnPostsDone == cmd.todo = {} /\ InDone /\ UNCHANGED <<cfg, route, installIntent, hook, next>>
OnMove(m) ==
  /\ m \in InMove /\ UNCHANGED <<cfg, route, installIntent, next>>
  /\ \/ InPatch(m) /\ InTo(cmd.plan, cmd.res, cmd.todo, cmd.moves \ {m}, cmd.tried \cup {m}, cmd.hooks)
     \/ /\ InPatch(m) \/ UNCHANGED hook
        /\ InTo(InUndo("moves"), "failed", cmd.todo, cmd.moves \ {m}, cmd.tried \cup {m}, cmd.hooks)
OnMovesDone == cmd.moves = {} /\ InDone /\ UNCHANGED <<cfg, route, installIntent, hook, next>>
OnFlip(h) ==
  /\ UNCHANGED <<cfg, route, installIntent, next>>
  /\ \/ InSet(h) /\ InTo(cmd.plan, cmd.res, cmd.todo, cmd.moves, cmd.tried, cmd.hooks \ {h})
     \/ (InSet(h) \/ UNCHANGED hook) /\ InTo(cmd.plan, "failed", cmd.todo, cmd.moves, cmd.tried, cmd.hooks \ {h})
OnFlipsDone ==
  /\ cmd.hooks = {} /\ UNCHANGED <<cfg, route, installIntent, hook, next>>
  /\ InOn(Plans!Tail(cmd.plan), IF InSure THEN cmd.res ELSE "failed")
OnDelete ==
  /\ UNCHANGED <<cfg, route, installIntent, next>>
  /\ \E h, r : /\ r \in {cmd.res, "failed"}
             /\ InTo(cmd.plan, r, cmd.todo, cmd.moves, cmd.tried, cmd.hooks \ {h})
\* Uninstall goes on only if the listing has none of its hooks left.
OnDeletesDone ==
  /\ UNCHANGED <<cfg, route, installIntent, hook, next>>
  /\ \/ InDone /\ cmd.res = "ok" /\ \A s \in InSeat : InOurs(s) = {}
     \/ \E r \in {"failed", cmd.res} : InOn(<<>>, r) /\ (cmd.res = "ok" => r = "failed")
\* A step of undoing that fails leaves the outcome dirty.
OnUnpost ==
  /\ UNCHANGED <<cfg, route, installIntent, next>>
  /\ \/ InDone /\ \A h \in InHook : IF h >= cmd.snap.next THEN hook'[h].prof = "none" ELSE hook'[h] = hook[h]
     \/ UNCHANGED hook /\ InOn(Plans!Tail(cmd.plan), "dirty")
OnUnmove ==
  /\ UNCHANGED <<cfg, route, installIntent, next>>
  /\ \/ /\ InDone
        /\ \A h \in InHook : hook'[h] = IF \E m \in cmd.tried : m.hook = h THEN cmd.snap.hook[h] ELSE hook[h]
     \/ UNCHANGED hook /\ InOn(Plans!Tail(cmd.plan), "dirty")
OnUnroute ==
  /\ UNCHANGED <<cfg, installIntent, hook, next>>
  /\ \/ /\ InDone
        /\ \A s \in InSeat : route'[s] = IF s \notin cmd.seats THEN route[s]
                                         ELSE IF cmd.kind \in {"recreate", "uninstall"} THEN [prof |-> "none", sec |-> 0]
                                         ELSE cmd.snap.route[s]
     \/ cmd.kind = "uninstall" /\ UNCHANGED route /\ InOn(<<>>, "failed")
     \/ cmd.kind # "uninstall" /\ UNCHANGED route /\ InOn(Plans!Tail(cmd.plan), "dirty")
OnUnintent == InDone /\ UNCHANGED <<cfg, route, hook, next>>
OnUnconfig ==
  InDone /\ (cmd.kind # "uninstall" => cfg' = cmd.snap.cfg) /\ UNCHANGED <<route, installIntent, hook, next>>

InAtStage(stage) == cmd.plan # <<>> /\ cmd.plan[1] = stage /\ cmd.kind # "none"

\* A plan grows shorter by its first stage.
LEMMA InShorter == ASSUME NEW p \in Plans!Seq(InStage), p # <<>> PROVE Plans!Tail(p) \in Plans!Seq(InStage)
OBVIOUS

\* A command whose plan and outcome are others.
LEMMA InReplanned ==
  ASSUME NEW Pr, InTyped(Pr), NEW STATE plan, plan \in Plans!Seq(InStage), NEW STATE res, res \in {"ok", "warn", "failed", "dirty"},
         cmd' = [cmd EXCEPT !.plan = plan, !.res = res]
  PROVE  cmd' \in InCmd(Pr)' /\ InOn(plan, res)
BY DEF InTyped, InCmd, InTo, InOn

\* The stages that write the config, the routes and the record of them.
LEMMA InConfigs ==
  ASSUME NEW Pr, NEW Ki, NEW Co, InTyped(Pr), Li(Pr, Ki, Co)!WriteConfig
  PROVE  InTyped(Pr)' /\ InAtStage("config") /\ OnConfig
<1>1. cmd.plan # <<>> /\ cmd.plan[1] = "config" /\ cfg' = cmd.to /\ cmd' = [cmd EXCEPT !.plan = Plans!Tail(cmd.plan)]
      /\ UNCHANGED <<settings, route, installIntent, hook, next, installMinted>>
  BY Zenon DEF Li!WriteConfig, Li!In, Li!Onward
<1>2. Plans!Tail(cmd.plan) \in Plans!Seq(InStage) /\ cmd.kind # "none"
  BY <1>1, InShorter DEF InTyped, InCmd
<1>3. cmd' \in InCmd(Pr)' /\ InDone
  BY <1>1, <1>2 DEF InTyped, InCmd, InDone, InTo, InOn
<1>4. InStore(Pr)'
  BY <1>1 DEF InTyped, InStore, InHooks, InCmd
<1> QED BY <1>1, <1>2, <1>3, <1>4 DEF InTyped, InDone, InTo, InOn, InSnapped, InSnap, InHooks, OnConfig, InAtStage

LEMMA InUndoes ==
  ASSUME NEW Pr, NEW Ki, NEW Co, NEW STATE stage
  PROVE  Li(Pr, Ki, Co)!Undo(stage) = InUndo(stage) /\ InUndo(stage) \in Plans!Seq(InStage)
<1>1. Li(Pr, Ki, Co)!Undo(stage) = InUndo(stage)
  BY DEF Li!Undo, InUndo
<1>2. <<"unpost", "unroute", "unintent", "unconfig">> \in Plans!Seq(InStage) /\ <<"unroute", "unconfig">> \in Plans!Seq(InStage)
      /\ <<"unmove", "unroute", "unconfig">> \in Plans!Seq(InStage) /\ <<"unroute", "unintent">> \in Plans!Seq(InStage)
      /\ <<"unpost">> \in Plans!Seq(InStage) /\ <<>> \in Plans!Seq(InStage)
  BY DEF InStage
<1>3. InUndo(stage) \in Plans!Seq(InStage)
  BY <1>2, Zenon DEF InUndo
<1> QED BY <1>1, <1>3

LEMMA InRoutes ==
  ASSUME NEW Pr, NEW Ki, NEW Co, InTyped(Pr), NEW s \in InSeat, Li(Pr, Ki, Co)!WriteRoute(s)
  PROVE  InTyped(Pr)' /\ InAtStage("routes") /\ OnRoute(s)
<1>1. /\ cmd.plan # <<>> /\ cmd.plan[1] = "routes" /\ s \in cmd.todo /\ cmd' = [cmd EXCEPT !.todo = @ \ {s}]
      /\ installMinted' = (IF route[s].sec = 0 THEN installMinted + 1 ELSE installMinted)
      /\ route' = [route EXCEPT ![s] = [prof |-> cmd.to[s], sec |-> IF @.sec = 0 THEN installMinted' ELSE @.sec]]
      /\ UNCHANGED <<settings, cfg, installIntent, hook, next>>
  BY Zenon DEF Li!WriteRoute, Li!In
<1>2. cmd.kind # "none"
  BY <1>1 DEF InTyped
<1>3. cmd' \in InCmd(Pr)' /\ InTo(cmd.plan, cmd.res, cmd.todo \ {s}, cmd.moves, cmd.tried, cmd.hooks)
  BY <1>1 DEF InTyped, InCmd, InTo, InOn
<1>4. InStore(Pr)' /\ route'[s].prof = cmd.to[s] /\ \A t \in InSeat \ {s} : route'[t] = route[t]
  <2>1. installMinted' \in Nat /\ cmd.to[s] \in Pr \cup {"none"} /\ route[s].sec \in Nat
    BY <1>1 DEF InTyped, InStore, InCmd, InRoute
  <2>2. route' \in [InSeat -> InRoute(Pr)]
    BY <1>1, <2>1 DEF InTyped, InStore, InRoute
  <2> QED BY <1>1, <2>1, <2>2 DEF InTyped, InStore
<1> QED BY <1>1, <1>2, <1>3, <1>4 DEF InTyped, InTo, InOn, InSnapped, InSnap, InHooks, OnRoute, InAtStage

LEMMA InRoutesDone ==
  ASSUME NEW Pr, NEW Ki, NEW Co, InTyped(Pr), Li(Pr, Ki, Co)!RoutesDone
  PROVE  InTyped(Pr)' /\ InAtStage("routes") /\ OnRoutesDone
<1>1. /\ cmd.plan # <<>> /\ cmd.plan[1] = "routes" /\ cmd.todo = {}
      /\ cmd' = [cmd EXCEPT !.plan = Plans!Tail(cmd.plan), !.todo = IF cmd.kind = "init" THEN {"reviewer", "fixer"} ELSE {}]
      /\ UNCHANGED <<settings, cfg, route, installIntent, hook, next, installMinted>>
  BY Zenon DEF Li!RoutesDone, Li!In, Li!Onward
<1>2. Plans!Tail(cmd.plan) \in Plans!Seq(InStage) /\ cmd.kind # "none"
  BY <1>1, InShorter DEF InTyped, InCmd
<1>3. /\ cmd' \in InCmd(Pr)'
      /\ InTo(Plans!Tail(cmd.plan), cmd.res, IF cmd.kind = "init" THEN InSeat ELSE {}, cmd.moves, cmd.tried, cmd.hooks)
  BY <1>1, <1>2 DEF InTyped, InCmd, InTo, InOn, InSeat
<1>4. InStore(Pr)'
  BY <1>1 DEF InTyped, InStore, InHooks
<1> QED BY <1>1, <1>2, <1>3, <1>4 DEF InTyped, InTo, InOn, InSnapped, InSnap, InHooks, OnRoutesDone, InAtStage

LEMMA InRecords ==
  ASSUME NEW Pr, NEW Ki, NEW Co, InTyped(Pr), Li(Pr, Ki, Co)!RecordIntent
  PROVE  InTyped(Pr)' /\ InAtStage("intent") /\ OnIntent
<1>1. /\ cmd.plan # <<>> /\ cmd.plan[1] = "intent" /\ cmd' = [cmd EXCEPT !.plan = Plans!Tail(cmd.plan)]
      /\ installIntent' = [s \in InSeat |-> IF s \in cmd.seats THEN route[s] ELSE installIntent[s]]
      /\ UNCHANGED <<settings, cfg, route, hook, next, installMinted>>
  BY Zenon DEF Li!RecordIntent, Li!In, Li!Onward, InSeat
<1>2. Plans!Tail(cmd.plan) \in Plans!Seq(InStage) /\ cmd.kind # "none"
  BY <1>1, InShorter DEF InTyped, InCmd
<1>3. cmd' \in InCmd(Pr)' /\ InDone /\ cmd.seats \subseteq InSeat
  BY <1>1, <1>2 DEF InTyped, InCmd, InDone, InTo, InOn
<1>4. InStore(Pr)' /\ \A s \in cmd.seats : installIntent'[s] = route[s]
  BY <1>1, <1>3 DEF InTyped, InStore, InHooks
<1> QED BY <1>1, <1>2, <1>3, <1>4 DEF InTyped, InDone, InTo, InOn, InSnapped, InSnap, InHooks, OnIntent, InAtStage

LEMMA InFailed ==
  ASSUME NEW Pr, NEW Ki, NEW Co, InTyped(Pr), Li(Pr, Ki, Co)!WriteFails
  PROVE  InTyped(Pr)' /\ InAtStage(cmd.plan[1]) /\ cmd.plan[1] \in {"routes", "intent"} /\ OnFailure(cmd.plan[1])
<1> DEFINE undone == InUndo(cmd.plan[1])
<1>1. /\ cmd.plan # <<>> /\ cmd.plan[1] \in {"routes", "intent"}
      /\ cmd' = [cmd EXCEPT !.res = "failed", !.plan = Li(Pr, Ki, Co)!Undo(cmd.plan[1])]
      /\ UNCHANGED <<settings, cfg, route, installIntent, hook, next, installMinted>>
  BY Zenon DEF Li!WriteFails, Li!In, Li!Failed
<1>2. undone \in Plans!Seq(InStage) /\ cmd.kind # "none" /\ Li(Pr, Ki, Co)!Undo(cmd.plan[1]) = undone
  BY <1>1, InUndoes DEF InTyped
<1> HIDE DEF undone
<1>3. cmd' \in InCmd(Pr)' /\ InOn(undone, "failed")
  BY <1>1, <1>2 DEF InTyped, InCmd, InTo, InOn, InOn
<1>4. InStore(Pr)'
  BY <1>1 DEF InTyped, InStore, InHooks
<1> QED
  BY <1>1, <1>2, <1>3, <1>4 DEF InTyped, InTo, InOn, InOn, InSnapped, InSnap, InHooks, undone, OnFailure, InAtStage

\* The hooks of a seat, and those of the routes that the registry or the config binds.
InOf(s) == {h \in InHook : hook[h].prof # "none" /\ hook[h].seat = s}
LEMMA InListed ==
  ASSUME NEW Pr, NEW Ki, NEW Co, NEW s, NEW p
  PROVE  Li(Pr, Ki, Co)!Of(s) = InOf(s) /\ Li(Pr, Ki, Co)!At(s, p) = InAt(hook, s, p)
<1>1. Li(Pr, Ki, Co)!Of(s) = InOf(s)
  BY DEF Li!Of, Li!Live, Li!Hook, Li!NoProf, InHook, InOf
<1> QED BY <1>1 DEF Li!At, InAt, InOf

LEMMA InSets ==
  ASSUME NEW Pr, NEW Ki, NEW Co
  PROVE  /\ \A c : Li(Pr, Ki, Co)!Owned(c) = {} <=> \A s \in InSeat : InAt(hook, s, route[s].prof) \cup InAt(hook, s, c[s]) = {}
         /\ \A s : Li(Pr, Ki, Co)!Wakes(s) = InWakes(s)
<1>1. \A s, p : Li(Pr, Ki, Co)!At(s, p) = InAt(hook, s, p)
  BY InListed
<1>2. \A c : Li(Pr, Ki, Co)!Owned(c) = UNION {InAt(hook, s, route[s].prof) \cup InAt(hook, s, c[s]) : s \in InSeat}
  BY <1>1, Zenon DEF Li!Owned, InSeat
<1>3. \A c : Li(Pr, Ki, Co)!Owned(c) = {} <=> \A s \in InSeat : InAt(hook, s, route[s].prof) \cup InAt(hook, s, c[s]) = {}
  BY <1>2
<1>4. \A s : Li(Pr, Ki, Co)!Wakes(s) = InWakes(s)
  BY <1>1, Zenon DEF Li!Wakes, Li!Target, Li!NoProf, InWakes
<1> QED BY <1>3, <1>4

LEMMA InPosts ==
  ASSUME NEW Pr, NEW Ki, NEW Co, InTyped(Pr), NEW s \in InSeat, Li(Pr, Ki, Co)!PostHook(s)
  PROVE  InTyped(Pr)' /\ InAtStage("posts") /\ OnPost(s)
<1> DEFINE Undone == InUndo("posts")
<1>1. /\ cmd.plan # <<>> /\ cmd.plan[1] = "posts" /\ s \in cmd.todo /\ next <= MostHooks
      /\ UNCHANGED <<settings, cfg, route, installIntent, installMinted>>
  BY Zenon DEF Li!PostHook, Li!In
<1>2. next \in InHook /\ cmd.kind # "none" /\ Undone \in Plans!Seq(InStage)
  BY <1>1, HostAssumption, InUndoes DEF InTyped, InStore, InHook, Install!LoopInstallAssumption
<1>3. \/ InPost(s) /\ cmd' = [cmd EXCEPT !.todo = @ \ {s}, !.hooks = @ \cup {next}]
      \/ (InPost(s) \/ UNCHANGED <<hook, next>>) /\ cmd' = [cmd EXCEPT !.res = "failed", !.plan = Undone]
  <2>1. Li(Pr, Ki, Co)!Undo(cmd.plan[1]) = Undone
    BY <1>1, InUndoes
  <2> HIDE DEF Undone
  <2> QED BY <1>1, <1>2, <2>1 DEF Li!PostHook, Li!Failed, InPost
<1> HIDE DEF Undone
<1>4. InStore(Pr)' /\ next <= next' /\ next' \in Nat
  <2>1. CASE InPost(s)
    <3>1. hook' \in InHooks(Pr)
      BY <1>2, <2>1 DEF InPost, InTyped, InStore, InHooks, InRoute, InCmd
    <3> QED BY <1>1, <1>2, <2>1, <3>1 DEF InPost, InTyped, InStore, InHook
  <2>2. CASE UNCHANGED <<hook, next>>
    BY <1>1, <2>2 DEF InTyped, InStore, InHooks
  <2> QED BY <1>3, <2>1, <2>2
<1>5. /\ cmd' \in InCmd(Pr)' /\ cmd'.snap = cmd.snap /\ cmd'.moves = cmd.moves /\ cmd'.kind = cmd.kind
      /\ \/ InPost(s) /\ InTo(cmd.plan, cmd.res, cmd.todo \ {s}, cmd.moves, cmd.tried, cmd.hooks \cup {next})
         \/ /\ InPost(s) \/ UNCHANGED <<hook, next>>
            /\ InOn(Undone, "failed")
  <2>1. CASE cmd' = [cmd EXCEPT !.todo = @ \ {s}, !.hooks = @ \cup {next}] /\ InPost(s)
    BY <1>2, <2>1 DEF InTyped, InCmd, InTo, InOn
  <2>2. CASE cmd' = [cmd EXCEPT !.res = "failed", !.plan = Undone] /\ (InPost(s) \/ UNCHANGED <<hook, next>>)
    BY <1>2, <2>2 DEF InTyped, InCmd, InTo, InOn
  <2> QED BY <1>3, <2>1, <2>2
<1>6. (\A m \in cmd.moves : m.hook < next') /\ InSnapped(Pr)'
  <2>1. \A m \in cmd.moves : m.hook \in Nat
    BY DEF InTyped, InCmd, InMove, InHook
  <2>2. cmd.snap.next \in Nat /\ cmd.snap.next <= next /\ next \in Nat
    BY <1>2 DEF InTyped, InStore, InSnapped, InSnap
  <2> QED BY <1>2, <1>4, <1>5, <2>1, <2>2 DEF InTyped, InSnapped, InSnap, InHooks
<1> QED BY <1>1, <1>2, <1>4, <1>5, <1>6 DEF InTyped, Undone, OnPost, InAtStage

LEMMA InPostsDone ==
  ASSUME NEW Pr, NEW Ki, NEW Co, InTyped(Pr), Li(Pr, Ki, Co)!PostsDone
  PROVE  InTyped(Pr)' /\ InAtStage("posts") /\ OnPostsDone
<1>1. /\ cmd.plan # <<>> /\ cmd.plan[1] = "posts" /\ cmd.todo = {} /\ cmd' = [cmd EXCEPT !.plan = Plans!Tail(cmd.plan)]
      /\ UNCHANGED <<settings, cfg, route, installIntent, hook, next, installMinted>>
  BY Zenon DEF Li!PostsDone, Li!In, Li!Onward
<1>2. Plans!Tail(cmd.plan) \in Plans!Seq(InStage) /\ cmd.kind # "none"
  BY <1>1, InShorter DEF InTyped, InCmd
<1>3. cmd' \in InCmd(Pr)' /\ InDone
  BY <1>1, <1>2 DEF InTyped, InCmd, InDone, InTo, InOn
<1>4. InStore(Pr)'
  BY <1>1 DEF InTyped, InStore, InHooks
<1> QED BY <1>1, <1>2, <1>3, <1>4 DEF InTyped, InDone, InTo, InOn, InSnapped, InSnap, InHooks, OnPostsDone, InAtStage

LEMMA InPatches ==
  ASSUME NEW Pr, NEW Ki, NEW Co, InTyped(Pr), NEW m \in cmd.moves, Li(Pr, Ki, Co)!MoveHook(m)
  PROVE  InTyped(Pr)' /\ InAtStage("moves") /\ OnMove(m)
<1> DEFINE Undone == InUndo("moves")
           c == [cmd EXCEPT !.moves = @ \ {m}]
           Tried == [c EXCEPT !.tried = @ \cup {m}]
<1>1. /\ cmd.plan # <<>> /\ cmd.plan[1] = "moves"
      /\ \/ InPatch(m) /\ cmd' = Tried
         \/ (InPatch(m) \/ UNCHANGED hook) /\ cmd' = [Tried EXCEPT !.res = "failed", !.plan = Li(Pr, Ki, Co)!Undo(cmd.plan[1])]
      /\ UNCHANGED <<settings, cfg, route, installIntent, next, installMinted>>
  BY Zenon DEF Li!MoveHook, Li!In, Li!Failed, Li!Tried, Li!Patched, InPatch
<1>2. cmd.kind # "none" /\ Undone \in Plans!Seq(InStage) /\ m \in InMove /\ m.hook \in InHook /\ m.seat \in InSeat
      /\ m.hook < next /\ Li(Pr, Ki, Co)!Undo(cmd.plan[1]) = Undone
  BY <1>1, InUndoes DEF InTyped, InCmd, InMove
<1> HIDE DEF Undone
<1>3. InStore(Pr)'
  <2>1. CASE InPatch(m)
    <3>0. cmd.to[m.seat] \in Pr \cup {"none"} /\ route[m.seat].sec \in Nat /\ hook \in InHooks(Pr)
      BY <1>2 DEF InTyped, InStore, InRoute, InCmd
    <3>1. hook' \in InHooks(Pr)
      BY <1>2, <2>1, <3>0 DEF InPatch, InHooks
    <3>2. \A h \in InHook : h >= next => hook'[h] = hook[h]
      BY <1>2, <2>1 DEF InPatch, InTyped, InStore, InHooks, InHook
    <3> QED BY <1>1, <3>1, <3>2 DEF InTyped, InStore
  <2>2. CASE UNCHANGED hook
    BY <1>1, <2>2 DEF InTyped, InStore, InHooks
  <2> QED BY <1>1, <2>1, <2>2
<1>4. /\ cmd' \in InCmd(Pr)' /\ cmd'.snap = cmd.snap /\ cmd'.moves \subseteq cmd.moves /\ cmd'.kind = cmd.kind
      /\ \/ InPatch(m) /\ InTo(cmd.plan, cmd.res, cmd.todo, cmd.moves \ {m}, cmd.tried \cup {m}, cmd.hooks)
         \/ /\ InPatch(m) \/ UNCHANGED hook
            /\ InTo(Undone, "failed", cmd.todo, cmd.moves \ {m}, cmd.tried \cup {m}, cmd.hooks)
  <2>1. CASE cmd' = Tried /\ InPatch(m)
    BY <1>2, <2>1 DEF InTyped, InCmd, InTo, InOn
  <2>2. CASE cmd' = [Tried EXCEPT !.res = "failed", !.plan = Undone] /\ (InPatch(m) \/ UNCHANGED hook)
    BY <1>2, <2>2 DEF InTyped, InCmd, InTo, InOn
  <2> QED BY <1>1, <1>2, <2>1, <2>2
<1> QED BY <1>1, <1>2, <1>3, <1>4 DEF InTyped, InSnapped, InSnap, InHooks, Undone, OnMove, InAtStage

LEMMA InPatched ==
  ASSUME NEW Pr, NEW Ki, NEW Co, InTyped(Pr), Li(Pr, Ki, Co)!MovesDone
  PROVE  InTyped(Pr)' /\ InAtStage("moves") /\ OnMovesDone
<1>1. /\ cmd.plan # <<>> /\ cmd.plan[1] = "moves" /\ cmd.moves = {} /\ cmd' = [cmd EXCEPT !.plan = Plans!Tail(cmd.plan)]
      /\ UNCHANGED <<settings, cfg, route, installIntent, hook, next, installMinted>>
  BY Zenon DEF Li!MovesDone, Li!In, Li!Onward
<1>2. Plans!Tail(cmd.plan) \in Plans!Seq(InStage) /\ cmd.kind # "none"
  BY <1>1, InShorter DEF InTyped, InCmd
<1>3. cmd' \in InCmd(Pr)' /\ InDone
  BY <1>1, <1>2 DEF InTyped, InCmd, InDone, InTo, InOn
<1>4. InStore(Pr)'
  BY <1>1 DEF InTyped, InStore, InHooks
<1> QED BY <1>1, <1>2, <1>3, <1>4 DEF InTyped, InDone, InTo, InOn, InSnapped, InSnap, InHooks, OnMovesDone, InAtStage

LEMMA InFlips ==
  ASSUME NEW Pr, NEW Ki, NEW Co, InTyped(Pr), NEW h \in InHook, Li(Pr, Ki, Co)!FlipHook(h)
  PROVE  InTyped(Pr)' /\ InAtStage("flips") /\ OnFlip(h)
<1> DEFINE c == [cmd EXCEPT !.hooks = @ \ {h}]
<1>1. /\ cmd.plan # <<>> /\ cmd.plan[1] = "flips"
      /\ \/ InSet(h) /\ cmd' = c
         \/ (InSet(h) \/ UNCHANGED hook) /\ cmd' = [c EXCEPT !.res = "failed"]
      /\ UNCHANGED <<settings, cfg, route, installIntent, next, installMinted>>
  BY Zenon DEF Li!FlipHook, Li!In, InSet
<1>2. cmd.kind # "none"
  BY <1>1 DEF InTyped
<1>3. InStore(Pr)'
  <2>1. CASE InSet(h)
    <3>0. cmd.arm \in BOOLEAN /\ hook \in InHooks(Pr)
      BY DEF InTyped, InStore, InCmd
    <3>1. hook' \in InHooks(Pr)
      BY <2>1, <3>0 DEF InSet, InHooks
    <3>2. \A g \in InHook : hook'[g].prof = hook[g].prof
      BY <2>1, <3>0 DEF InSet, InHooks
    <3> QED BY <1>1, <3>1, <3>2 DEF InTyped, InStore
  <2>2. CASE UNCHANGED hook
    BY <1>1, <2>2 DEF InTyped, InStore, InHooks
  <2> QED BY <1>1, <2>1, <2>2
<1>4. /\ cmd' \in InCmd(Pr)' /\ cmd'.snap = cmd.snap /\ cmd'.moves = cmd.moves /\ cmd'.kind = cmd.kind
      /\ \/ InSet(h) /\ InTo(cmd.plan, cmd.res, cmd.todo, cmd.moves, cmd.tried, cmd.hooks \ {h})
         \/ /\ InSet(h) \/ UNCHANGED hook
            /\ InTo(cmd.plan, "failed", cmd.todo, cmd.moves, cmd.tried, cmd.hooks \ {h})
  <2>1. CASE cmd' = c /\ InSet(h)
    BY <1>2, <2>1 DEF InTyped, InCmd, InTo, InOn
  <2>2. CASE cmd' = [c EXCEPT !.res = "failed"] /\ (InSet(h) \/ UNCHANGED hook)
    BY <1>2, <2>2 DEF InTyped, InCmd, InTo, InOn
  <2> QED BY <1>1, <2>1, <2>2
<1> QED BY <1>1, <1>2, <1>3, <1>4 DEF InTyped, InSnapped, InSnap, InHooks, OnFlip, InAtStage

LEMMA InFlipped ==
  ASSUME NEW Pr, NEW Ki, NEW Co, InTyped(Pr), Li(Pr, Ki, Co)!FlipsDone
  PROVE  InTyped(Pr)' /\ InAtStage("flips") /\ OnFlipsDone
<1>0. Li(Pr, Ki, Co)!Confirmed <=> InSure
  <2>1. \A s : Li(Pr, Ki, Co)!Wakes(s) = InWakes(s)
    BY InSets
  <2>2. \A s, p : Li(Pr, Ki, Co)!At(s, p) = InAt(hook, s, p)
    BY InListed
  <2>3. \A s : Li(Pr, Ki, Co)!At(s, route[s].prof) \cup Li(Pr, Ki, Co)!At(s, cfg[s]) = InOurs(s)
    BY <2>2, Zenon DEF InOurs
  <2> QED BY <2>1, <2>3, Zenon DEF Li!Confirmed, InSure, InSeat
<1>1. /\ cmd.plan # <<>> /\ cmd.plan[1] = "flips" /\ cmd.hooks = {}
      /\ cmd' = [cmd EXCEPT !.plan = Plans!Tail(cmd.plan), !.res = IF Li(Pr, Ki, Co)!Confirmed THEN @ ELSE "failed"]
      /\ UNCHANGED <<settings, cfg, route, installIntent, hook, next, installMinted>>
  BY Zenon DEF Li!FlipsDone, Li!In, Li!Onward
<1>2. Plans!Tail(cmd.plan) \in Plans!Seq(InStage) /\ cmd.kind # "none"
  BY <1>1, InShorter DEF InTyped, InCmd
<1>3. /\ cmd' \in InCmd(Pr)'
      /\ InOn(Plans!Tail(cmd.plan), IF InSure THEN cmd.res ELSE "failed")
  BY <1>0, <1>1, <1>2 DEF InTyped, InCmd, InTo, InOn
<1>4. InStore(Pr)'
  BY <1>1 DEF InTyped, InStore, InHooks
<1> QED BY <1>1, <1>2, <1>3, <1>4 DEF InTyped, InTo, InOn, InSnapped, InSnap, InHooks, OnFlipsDone, InAtStage

\* A deleted hook is nowhere.
InDrop(h) == hook' = [hook EXCEPT ![h] = [seat |-> CHOOSE s \in InSeat : TRUE, prof |-> "none", sec |-> 0, on |-> FALSE]]

LEMMA InDeletes ==
  ASSUME NEW Pr, NEW Ki, NEW Co, InTyped(Pr), NEW h \in InHook, Li(Pr, Ki, Co)!DeleteHook(h)
  PROVE  InTyped(Pr)' /\ InAtStage("deletes") /\ OnDelete
<1> DEFINE c == [cmd EXCEPT !.hooks = @ \ {h}]
<1>1. /\ cmd.plan # <<>> /\ cmd.plan[1] = "deletes" /\ (InDrop(h) \/ UNCHANGED hook)
      /\ cmd' = c \/ cmd' = [c EXCEPT !.res = "failed"]
      /\ UNCHANGED <<settings, cfg, route, installIntent, next, installMinted>>
  BY Zenon DEF Li!DeleteHook, Li!In, Li!NoHook, Li!NoProf, InDrop, InSeat
<1>2. cmd.kind # "none"
  BY <1>1 DEF InTyped
<1>3. InStore(Pr)'
  <2>1. CASE InDrop(h)
    <3>0. (CHOOSE s \in InSeat : TRUE) \in InSeat /\ hook \in InHooks(Pr)
      BY DEF InTyped, InStore, InSeat
    <3>1. hook' \in InHooks(Pr)
      BY <2>1, <3>0 DEF InDrop, InHooks
    <3>2. \A g \in InHook : hook'[g].prof \in {hook[g].prof, "none"}
      BY <2>1, <3>0 DEF InDrop, InHooks
    <3> QED BY <1>1, <3>1, <3>2 DEF InTyped, InStore
  <2>2. CASE UNCHANGED hook
    BY <1>1, <2>2 DEF InTyped, InStore, InHooks
  <2> QED BY <1>1, <2>1, <2>2
<1>4. /\ cmd' \in InCmd(Pr)' /\ cmd'.snap = cmd.snap /\ cmd'.moves = cmd.moves /\ cmd'.kind = cmd.kind
      /\ \/ InTo(cmd.plan, cmd.res, cmd.todo, cmd.moves, cmd.tried, cmd.hooks \ {h})
         \/ InTo(cmd.plan, "failed", cmd.todo, cmd.moves, cmd.tried, cmd.hooks \ {h})
  <2>1. CASE cmd' = c
    BY <1>2, <2>1 DEF InTyped, InCmd, InTo, InOn
  <2>2. CASE cmd' = [c EXCEPT !.res = "failed"]
    BY <1>2, <2>2 DEF InTyped, InCmd, InTo, InOn
  <2> QED BY <1>1, <2>1, <2>2
<1> QED BY <1>1, <1>2, <1>3, <1>4 DEF InTyped, InSnapped, InSnap, InHooks, OnDelete, InAtStage

\* Uninstall goes on only if the listing has none of its hooks left.
LEMMA InDeleted ==
  ASSUME NEW Pr, NEW Ki, NEW Co, InTyped(Pr), Li(Pr, Ki, Co)!DeletesDone
  PROVE  InTyped(Pr)' /\ InAtStage("deletes") /\ OnDeletesDone
<1> DEFINE None == \A s \in InSeat : InOurs(s) = {}
<1>0. Li(Pr, Ki, Co)!Owned(cfg) = {} <=> None
  BY InSets DEF InOurs
<1>1. /\ cmd.plan # <<>> /\ cmd.plan[1] = "deletes"
      /\ cmd' = [cmd EXCEPT !.plan = IF cmd.res = "ok" /\ None THEN Plans!Tail(cmd.plan) ELSE <<>>,
                            !.res = IF None THEN @ ELSE "failed"]
      /\ UNCHANGED <<settings, cfg, route, installIntent, hook, next, installMinted>>
  <2> HIDE DEF None
  <2> QED BY <1>0, Zenon DEF Li!DeletesDone, Li!DeletesGo, Li!In, Li!Onward
<1> HIDE DEF None
<1>2. Plans!Tail(cmd.plan) \in Plans!Seq(InStage) /\ cmd.kind # "none"
  BY <1>1, InShorter DEF InTyped, InCmd
<1>3. /\ cmd' \in InCmd(Pr)'
      /\ \/ None /\ cmd.res = "ok" /\ InOn(Plans!Tail(cmd.plan), "ok")
         \/ \E r \in {"failed", cmd.res} : /\ InOn(<<>>, r)
                                           /\ cmd.res = "ok" => r = "failed"
      /\ cmd'.kind = cmd.kind /\ cmd'.snap = cmd.snap /\ cmd'.moves = cmd.moves
  <2>1. CASE None /\ cmd.res = "ok"
    BY <1>1, <1>2, <2>1 DEF InTyped, InCmd, InTo, InOn
  <2>2. <<>> \in Plans!Seq(InStage) /\ cmd.res \in {"ok", "warn", "failed", "dirty"}
    BY DEF InTyped, InCmd
  <2>3. CASE ~None
    <3>1. cmd' = [cmd EXCEPT !.plan = <<>>, !.res = "failed"]
      BY <1>1, <2>3
    <3> QED BY <2>2, <2>3, <3>1, InReplanned DEF InTo, InOn
  <2>4. CASE None /\ cmd.res # "ok"
    <3>1. cmd' = [cmd EXCEPT !.plan = <<>>, !.res = cmd.res]
      BY <1>1, <2>4
    <3> QED BY <2>2, <2>4, <3>1, InReplanned DEF InTo, InOn
  <2> QED BY <2>1, <2>3, <2>4
<1>4. InStore(Pr)'
  BY <1>1 DEF InTyped, InStore, InHooks
<1> QED
  BY <1>1, <1>2, <1>3, <1>4
    DEF InTyped, InSnapped, InSnap, InHooks, None, OnDeletesDone, InAtStage, InDone, InOn

\* What undoing does; a step of it that fails leaves the outcome dirty.
LEMMA InUnposts ==
  ASSUME NEW Pr, NEW Ki, NEW Co, InTyped(Pr), Li(Pr, Ki, Co)!Unpost
  PROVE  InTyped(Pr)' /\ InAtStage("unpost") /\ OnUnpost
<1> DEFINE None == [seat |-> CHOOSE s \in InSeat : TRUE, prof |-> "none", sec |-> 0, on |-> FALSE]
           c == [cmd EXCEPT !.plan = Plans!Tail(cmd.plan)]
<1>1. /\ cmd.plan # <<>> /\ cmd.plan[1] = "unpost"
      /\ \/ hook' = [h \in InHook |-> IF h >= cmd.snap.next THEN None ELSE hook[h]] /\ cmd' = c
         \/ UNCHANGED hook /\ cmd' = [c EXCEPT !.res = "dirty"]
      /\ UNCHANGED <<settings, cfg, route, installIntent, next, installMinted>>
  BY Zenon DEF Li!Unpost, Li!In, Li!NoHook, Li!NoProf, Li!Hook, Li!Done, Li!Dirty, Li!Onward, InSeat, InHook
<1>2. Plans!Tail(cmd.plan) \in Plans!Seq(InStage) /\ cmd.kind # "none"
  BY <1>1, InShorter DEF InTyped, InCmd
<1>3. CASE hook' = [h \in InHook |-> IF h >= cmd.snap.next THEN None ELSE hook[h]] /\ cmd' = c
  <2>1. cmd' \in InCmd(Pr)' /\ InDone
    BY <1>2, <1>3 DEF InTyped, InCmd, InDone, InTo, InOn
  <2>2. (CHOOSE s \in InSeat : TRUE) \in InSeat /\ hook \in InHooks(Pr)
    BY DEF InTyped, InStore, InSeat
  <2>3. hook' \in InHooks(Pr)
    BY <1>3, <2>2 DEF InHooks
  <2>4. \A h \in InHook : IF h >= cmd.snap.next THEN hook'[h].prof = "none" ELSE hook'[h] = hook[h]
    BY <1>3
  <2>5. InStore(Pr)'
    BY <1>1, <2>3, <2>4 DEF InTyped, InStore
  <2> QED
    BY <1>1, <1>2, <2>1, <2>4, <2>5
      DEF InTyped, InDone, InTo, InOn, InSnapped, InSnap, InHooks, OnUnpost, InAtStage
<1>4. CASE UNCHANGED hook /\ cmd' = [c EXCEPT !.res = "dirty"]
  <2>1. cmd' \in InCmd(Pr)' /\ InOn(Plans!Tail(cmd.plan), "dirty")
    BY <1>2, <1>4 DEF InTyped, InCmd, InTo, InOn
  <2>2. InStore(Pr)'
    BY <1>1, <1>4 DEF InTyped, InStore, InHooks
  <2> QED BY <1>1, <1>2, <1>4, <2>1, <2>2 DEF InTyped, InTo, InOn, InSnapped, InSnap, InHooks, OnUnpost, InAtStage
<1> QED BY <1>1, <1>3, <1>4

LEMMA InUnmoves ==
  ASSUME NEW Pr, NEW Ki, NEW Co, InTyped(Pr), Li(Pr, Ki, Co)!Unmove
  PROVE  InTyped(Pr)' /\ InAtStage("unmove") /\ OnUnmove
<1> DEFINE c == [cmd EXCEPT !.plan = Plans!Tail(cmd.plan)]
           Back == [h \in InHook |-> IF \E m \in cmd.tried : m.hook = h THEN cmd.snap.hook[h] ELSE hook[h]]
<1>1. /\ cmd.plan # <<>> /\ cmd.plan[1] = "unmove"
      /\ (hook' = Back /\ cmd' = c) \/ (UNCHANGED hook /\ cmd' = [c EXCEPT !.res = "dirty"])
      /\ UNCHANGED <<settings, cfg, route, installIntent, next, installMinted>>
  BY Zenon DEF Li!Unmove, Li!In, Li!Hook, Li!Done, Li!Dirty, Li!Onward, InHook
<1>2. Plans!Tail(cmd.plan) \in Plans!Seq(InStage) /\ cmd.kind # "none"
  BY <1>1, InShorter DEF InTyped, InCmd
<1>3. CASE hook' = Back /\ cmd' = c
  <2>1. cmd' \in InCmd(Pr)' /\ InDone
    BY <1>2, <1>3 DEF InTyped, InCmd, InDone, InTo, InOn
  <2>2. hook \in InHooks(Pr) /\ cmd.snap.hook \in InHooks(Pr)
    BY <1>2 DEF InTyped, InStore, InSnapped, InSnap
  <2>3. hook' \in InHooks(Pr)
    BY <1>3, <2>2 DEF InHooks
  <2>4. \A h \in InHook : hook'[h] = IF \E m \in cmd.tried : m.hook = h THEN cmd.snap.hook[h] ELSE hook[h]
    BY <1>3
  <2>5. \A h \in InHook : h >= next => hook'[h].prof = "none"
    <3>1. next \in Nat /\ cmd.snap.next \in Nat /\ cmd.snap.next <= next
      BY <1>2 DEF InTyped, InStore, InSnapped, InSnap
    <3>2. \A h \in InHook : h \in Nat /\ (h >= next => hook[h].prof = "none")
      BY DEF InTyped, InStore, InHook
    <3>3. \A h \in InHook : h >= cmd.snap.next => cmd.snap.hook[h].prof = "none"
      BY <1>2 DEF InTyped, InSnapped
    <3>4. \A h \in InHook : h >= next => h >= cmd.snap.next
      BY <3>1, <3>2
    <3> QED BY <2>4, <3>2, <3>3, <3>4
  <2>6. InStore(Pr)'
    BY <1>1, <2>3, <2>5 DEF InTyped, InStore
  <2> QED
    BY <1>1, <1>2, <2>1, <2>4, <2>6
      DEF InTyped, InDone, InTo, InOn, InSnapped, InSnap, InHooks, OnUnmove, InAtStage
<1>4. CASE UNCHANGED hook /\ cmd' = [c EXCEPT !.res = "dirty"]
  <2>1. cmd' \in InCmd(Pr)' /\ InOn(Plans!Tail(cmd.plan), "dirty")
    BY <1>2, <1>4 DEF InTyped, InCmd, InTo, InOn
  <2>2. InStore(Pr)'
    BY <1>1, <1>4 DEF InTyped, InStore, InHooks
  <2> QED BY <1>1, <1>2, <1>4, <2>1, <2>2 DEF InTyped, InTo, InOn, InSnapped, InSnap, InHooks, OnUnmove, InAtStage
<1> QED BY <1>1, <1>3, <1>4

LEMMA InUnroutes ==
  ASSUME NEW Pr, NEW Ki, NEW Co, InTyped(Pr), Li(Pr, Ki, Co)!Unroute
  PROVE  InTyped(Pr)' /\ InAtStage("unroute") /\ OnUnroute
<1> DEFINE c == [cmd EXCEPT !.plan = Plans!Tail(cmd.plan)]
           Back == [s \in InSeat |-> IF s \notin cmd.seats THEN route[s]
                                     ELSE IF cmd.kind \in {"recreate", "uninstall"} THEN [prof |-> "none", sec |-> 0]
                                     ELSE cmd.snap.route[s]]
<1>1. /\ cmd.plan # <<>> /\ cmd.plan[1] = "unroute"
      /\ \/ route' = Back /\ cmd' = c
         \/ UNCHANGED route /\ cmd.kind = "uninstall" /\ cmd' = [cmd EXCEPT !.plan = <<>>, !.res = "failed"]
         \/ UNCHANGED route /\ cmd.kind # "uninstall" /\ cmd' = [c EXCEPT !.res = "dirty"]
      /\ UNCHANGED <<settings, cfg, installIntent, hook, next, installMinted>>
  BY Zenon DEF Li!Unroute, Li!In, Li!NoRoute, Li!NoProf, Li!Done, Li!Dirty, Li!Onward, InSeat
<1>2. Plans!Tail(cmd.plan) \in Plans!Seq(InStage) /\ cmd.kind # "none"
  BY <1>1, InShorter DEF InTyped, InCmd
<1>3. CASE route' = Back /\ cmd' = c
  <2>1. cmd' \in InCmd(Pr)' /\ InDone
    BY <1>2, <1>3 DEF InTyped, InCmd, InDone, InTo, InOn
  <2>2. route \in [InSeat -> InRoute(Pr)] /\ cmd.snap.route \in [InSeat -> InRoute(Pr)]
    BY <1>2 DEF InTyped, InStore, InSnapped, InSnap
  <2>3. route' \in [InSeat -> InRoute(Pr)]
    BY <1>3, <2>2 DEF InRoute
  <2>4. InStore(Pr)'
    BY <1>1, <2>3 DEF InTyped, InStore, InHooks
  <2>5. \A s \in InSeat : route'[s] = Back[s]
    BY <1>3
  <2> QED
    BY <1>1, <1>2, <2>1, <2>4, <2>5
      DEF InTyped, InDone, InTo, InOn, InSnapped, InSnap, InHooks, OnUnroute, InAtStage
<1>4. CASE UNCHANGED route /\ cmd.kind = "uninstall" /\ cmd' = [cmd EXCEPT !.plan = <<>>, !.res = "failed"]
  <2>0. <<>> \in Plans!Seq(InStage)
    OBVIOUS
  <2>1. cmd' \in InCmd(Pr)' /\ InOn(<<>>, "failed")
    BY <1>4, <2>0, InReplanned
  <2>2. InStore(Pr)'
    BY <1>1, <1>4 DEF InTyped, InStore, InHooks
  <2> QED BY <1>1, <1>2, <1>4, <2>1, <2>2 DEF InTyped, InTo, InOn, InSnapped, InSnap, InHooks, OnUnroute, InAtStage
<1>5. CASE UNCHANGED route /\ cmd.kind # "uninstall" /\ cmd' = [c EXCEPT !.res = "dirty"]
  <2>1. cmd' \in InCmd(Pr)' /\ InOn(Plans!Tail(cmd.plan), "dirty")
    BY <1>2, <1>5 DEF InTyped, InCmd, InTo, InOn
  <2>2. InStore(Pr)'
    BY <1>1, <1>5 DEF InTyped, InStore, InHooks
  <2> QED BY <1>1, <1>2, <1>5, <2>1, <2>2 DEF InTyped, InTo, InOn, InSnapped, InSnap, InHooks, OnUnroute, InAtStage
<1> QED BY <1>1, <1>3, <1>4, <1>5

LEMMA InUnrecords ==
  ASSUME NEW Pr, NEW Ki, NEW Co, InTyped(Pr), Li(Pr, Ki, Co)!Unintent
  PROVE  InTyped(Pr)' /\ InAtStage("unintent") /\ OnUnintent
<1>1. /\ cmd.plan # <<>> /\ cmd.plan[1] = "unintent" /\ cmd' = [cmd EXCEPT !.plan = Plans!Tail(cmd.plan)]
      /\ installIntent' = [s \in InSeat |-> IF s \in cmd.seats THEN [prof |-> "none", sec |-> 0] ELSE installIntent[s]]
      /\ UNCHANGED <<settings, cfg, route, hook, next, installMinted>>
  BY Zenon DEF Li!Unintent, Li!In, Li!Onward, Li!Done, Li!NoRoute, Li!NoProf, InSeat
<1>2. Plans!Tail(cmd.plan) \in Plans!Seq(InStage) /\ cmd.kind # "none"
  BY <1>1, InShorter DEF InTyped, InCmd
<1>3. cmd' \in InCmd(Pr)' /\ InDone
  BY <1>1, <1>2 DEF InTyped, InCmd, InDone, InTo, InOn
<1>4. InStore(Pr)'
  BY <1>1, <1>3 DEF InTyped, InStore, InRoute, InHooks
<1> QED BY <1>1, <1>2, <1>3, <1>4 DEF InTyped, InDone, InTo, InOn, InSnapped, InSnap, InHooks, OnUnintent, InAtStage

LEMMA InUnconfigs ==
  ASSUME NEW Pr, NEW Ki, NEW Co, InTyped(Pr), Li(Pr, Ki, Co)!Unconfig
  PROVE  InTyped(Pr)' /\ InAtStage("unconfig") /\ OnUnconfig
<1>1. /\ cmd.plan # <<>> /\ cmd.plan[1] = "unconfig" /\ cmd' = [cmd EXCEPT !.plan = Plans!Tail(cmd.plan)]
      /\ cfg' = (IF cmd.kind = "uninstall" THEN [s \in InSeat |-> "none"] ELSE cmd.snap.cfg)
      /\ UNCHANGED <<settings, route, installIntent, hook, next, installMinted>>
  BY Zenon DEF Li!Unconfig, Li!In, Li!Onward, Li!Done, Li!NoConfig, Li!NoProf, InSeat
<1>2. Plans!Tail(cmd.plan) \in Plans!Seq(InStage) /\ cmd.kind # "none"
  BY <1>1, InShorter DEF InTyped, InCmd
<1>3. cmd' \in InCmd(Pr)' /\ InDone
  BY <1>1, <1>2 DEF InTyped, InCmd, InDone, InTo, InOn
<1>4. cmd.snap.cfg \in [InSeat -> Pr \cup {"none"}]
  BY <1>2 DEF InTyped, InSnapped, InSnap
<1>5. InStore(Pr)'
  BY <1>1, <1>4 DEF InTyped, InStore, InHooks
<1> QED BY <1>1, <1>2, <1>3, <1>5 DEF InTyped, InDone, InTo, InOn, InSnapped, InSnap, InHooks, OnUnconfig, InAtStage

\* What a command that has not ended does next.
InWorks ==
  \/ InAtStage("config") /\ OnConfig
  \/ InAtStage("routes") /\ ((\E s \in InSeat : OnRoute(s)) \/ OnRoutesDone \/ OnFailure("routes"))
  \/ InAtStage("intent") /\ (OnIntent \/ OnFailure("intent"))
  \/ InAtStage("posts") /\ ((\E s \in InSeat : OnPost(s)) \/ OnPostsDone)
  \/ InAtStage("moves") /\ ((\E m \in cmd.moves : OnMove(m)) \/ OnMovesDone)
  \/ InAtStage("flips") /\ ((\E h \in InHook : OnFlip(h)) \/ OnFlipsDone)
  \/ InAtStage("deletes") /\ (OnDelete \/ OnDeletesDone)
  \/ InAtStage("unpost") /\ OnUnpost
  \/ InAtStage("unmove") /\ OnUnmove
  \/ InAtStage("unroute") /\ OnUnroute
  \/ InAtStage("unintent") /\ OnUnintent
  \/ InAtStage("unconfig") /\ OnUnconfig

LEMMA InStages ==
  ASSUME NEW Pr, NEW Ki, NEW Co, InTyped(Pr), Li(Pr, Ki, Co)!Next, cmd.kind # "none",
         ~Li(Pr, Ki, Co)!Finish, ~Li(Pr, Ki, Co)!Crash
  PROVE  InTyped(Pr)' /\ InWorks
<1>1. CASE Li(Pr, Ki, Co)!WriteConfig
  BY <1>1, InConfigs DEF InWorks
<1>2. CASE Li(Pr, Ki, Co)!StepRoute
  BY <1>2, InRoutes, InRoutesDone DEF InWorks, Li!StepRoute, InSeat
<1>3. CASE Li(Pr, Ki, Co)!RecordIntent
  BY <1>3, InRecords DEF InWorks
<1>4. CASE Li(Pr, Ki, Co)!WriteFails
  BY <1>4, InFailed DEF InWorks
<1>5. CASE Li(Pr, Ki, Co)!StepPost
  BY <1>5, InPosts, InPostsDone DEF InWorks, Li!StepPost, InSeat
<1>6. CASE Li(Pr, Ki, Co)!StepMove
  BY <1>6, InPatches, InPatched DEF InWorks, Li!StepMove
<1>7. CASE Li(Pr, Ki, Co)!StepFlip
  BY <1>7, InFlips, InFlipped DEF InWorks, Li!StepFlip, Li!Hook, InHook
<1>8. CASE Li(Pr, Ki, Co)!StepDelete
  BY <1>8, InDeletes, InDeleted DEF InWorks, Li!StepDelete, Li!Hook, InHook
<1>9. CASE Li(Pr, Ki, Co)!Unpost \/ Li(Pr, Ki, Co)!Unmove \/ Li(Pr, Ki, Co)!Unroute
  BY <1>9, InUnposts, InUnmoves, InUnroutes DEF InWorks
<1>10. CASE Li(Pr, Ki, Co)!Unintent \/ Li(Pr, Ki, Co)!Unconfig
  BY <1>10, InUnrecords, InUnconfigs DEF InWorks
<1>11. ~\E kind, c : Li(Pr, Ki, Co)!Start(kind, c)
  BY DEF Li!Start
<1>12. ~Li(Pr, Ki, Co)!Edit /\ ~Li(Pr, Ki, Co)!Erase /\ ~Li(Pr, Ki, Co)!Heal
  BY DEF Li!Edit, Li!Erase, Li!Heal
<1>13. ~(\E b \in BOOLEAN : Li(Pr, Ki, Co)!StartInit(b) \/ Li(Pr, Ki, Co)!StartArm(b)) /\ ~Li(Pr, Ki, Co)!StartApply
       /\ ~Li(Pr, Ki, Co)!StartRecreate /\ ~Li(Pr, Ki, Co)!StartEnsure /\ ~Li(Pr, Ki, Co)!StartUninstall
  BY <1>11, Zenon DEF Li!StartInit, Li!InitOver, Li!StartArm, Li!StartApply, Li!StartRecreate, Li!StartEnsure, Li!StartUninstall
<1> QED
  BY <1>1, <1>2, <1>3, <1>4, <1>5, <1>6, <1>7, <1>8, <1>9, <1>10, <1>12, <1>13, Zenon DEF Li!Next

LEMMA InFlipStep ==
  ASSUME NEW Pr, InTyped(Pr), cmd.kind \in {"arm", "pause"}, InFlip, InWorks
  PROVE  InFlip'
<1>1. cmd.plan = <<"flips">> /\ cmd.plan[1] = "flips" /\ Plans!Tail(cmd.plan) = <<>>
  <2>1. cmd.plan # <<>>
    BY Zenon DEF InWorks, InAtStage
  <2>2. cmd.plan = <<"flips">>
    BY <2>1 DEF InFlip
  <2> QED BY <2>2
<1>2. (\E h \in InHook : OnFlip(h)) \/ OnFlipsDone
  BY <1>1 DEF InWorks, InAtStage
<1>3. cfg' = cfg /\ route' = route /\ cmd'.arm = cmd.arm /\ cmd'.kind = cmd.kind
  BY <1>2 DEF OnFlip, OnFlipsDone, InTo, InOn
<1>4. ASSUME NEW h \in InHook, OnFlip(h) PROVE InFlip'
  <2>1. CASE cmd'.res = "failed"
    BY <1>1, <1>3, <1>4, <2>1 DEF InFlip, OnFlip, InTo
  <2>2. CASE cmd'.res # "failed"
    <3>1. /\ hook' = [hook EXCEPT ![h].on = cmd.arm] /\ cmd'.plan = cmd.plan /\ cmd'.res = cmd.res
          /\ cmd'.hooks = cmd.hooks \ {h}
      BY <1>4, <2>2 DEF OnFlip, InSet, InTo
    <3>2. \A g \in InHook : /\ hook'[g].prof = hook[g].prof /\ hook'[g].seat = hook[g].seat
                            /\ hook'[g].on = IF g = h THEN cmd.arm ELSE hook[g].on
      BY <3>1 DEF InTyped, InStore, InHooks
    <3>3. \A s \in InSeat : InWakes(s)' = InWakes(s) /\ InOurs(s)' = InOurs(s)
      BY <1>3, <3>2 DEF InWakes, InOurs, InAt
    <3> QED BY <1>1, <1>3, <3>1, <3>2, <3>3 DEF InFlip
  <2> QED BY <2>1, <2>2
<1>5. CASE OnFlipsDone
  <2>1. cmd'.plan = <<>> /\ cmd'.res = (IF InSure THEN cmd.res ELSE "failed") /\ hook' = hook /\ cmd.hooks = {}
    BY <1>1, <1>5 DEF OnFlipsDone, InOn, InTo
  <2>2. \A s \in InSeat : InWakes(s)' = InWakes(s) /\ InHeard(s)' = InHeard(s)
    BY <1>3, <2>1 DEF InWakes, InHeard, InAt
  <2>3. ASSUME cmd'.res = "ok", NEW s \in InSeat PROVE InHeard(s) <=> cmd.arm
    <3>1. InSure /\ cmd.res = "ok"
      BY <2>1, <2>3
    <3>2. \A h \in (IF cmd.arm THEN InWakes(s) ELSE InOurs(s)) : hook[h].on = cmd.arm
      BY <1>1, <2>1, <3>1 DEF InFlip
    <3>3. CASE cmd.arm
      BY <3>1, <3>2, <3>3 DEF InHeard, InSure
    <3>4. CASE ~cmd.arm
      <4>1. InWakes(s) \subseteq InOurs(s)
        BY DEF InWakes, InOurs, InAt
      <4>2. cmd.arm = FALSE
        BY <3>4 DEF InTyped, InCmd
      <4> QED BY <3>2, <4>1, <4>2 DEF InHeard
    <3> QED BY <3>3, <3>4
  <2> QED BY <1>1, <1>3, <2>1, <2>2, <2>3 DEF InFlip
<1> QED BY <1>2, <1>4, <1>5

LEMMA InUninstallStep ==
  ASSUME NEW Pr, InTyped(Pr), cmd.kind = "uninstall", InUninstall, InWorks
  PROVE  InUninstall'
<1> DEFINE Long == <<"deletes", "unintent", "unroute", "unconfig">>
<1>0. cmd.plan # <<>>
  BY Zenon DEF InWorks, InAtStage
<1>1. /\ Long[1] = "deletes" /\ Plans!Tail(Long) = <<"unintent", "unroute", "unconfig">>
      /\ <<"unintent", "unroute", "unconfig">>[1] = "unintent"
      /\ Plans!Tail(<<"unintent", "unroute", "unconfig">>) = <<"unroute", "unconfig">>
      /\ <<"unroute", "unconfig">>[1] = "unroute" /\ Plans!Tail(<<"unroute", "unconfig">>) = <<"unconfig">>
      /\ <<"unconfig">>[1] = "unconfig" /\ Plans!Tail(<<"unconfig">>) = <<>>
  OBVIOUS
<1>2. CASE cmd.plan = Long
  <2>1. cmd.plan[1] = "deletes" /\ cfg = cmd.snap.cfg /\ route = cmd.snap.route
    BY <1>1, <1>2 DEF InUninstall
  <2>2. OnDelete \/ OnDeletesDone
    BY <2>1, Zenon DEF InWorks, InAtStage
  <2>3. CASE OnDelete
    BY <1>2, <2>1, <2>3 DEF InUninstall, OnDelete, InTo
  <2>4. CASE OnDeletesDone
    <3>1. cfg' = cfg /\ route' = route /\ hook' = hook /\ cmd'.snap = cmd.snap /\ cmd'.seats = cmd.seats
      BY <2>4 DEF OnDeletesDone, InDone, InOn, InTo
    <3>2. CASE InDone /\ cmd.res = "ok" /\ \A s \in InSeat : InOurs(s) = {}
      <4>1. InGone'
        BY <2>1, <3>1, <3>2 DEF InGone, InOurs, InAt
      <4> QED BY <1>1, <1>2, <3>1, <3>2, <4>1 DEF InUninstall, InDone, InOn, InTo
    <3>3. CASE cmd'.plan = <<>> /\ cmd'.res = "failed"
      BY <3>1, <3>3 DEF InUninstall
    <3>4. cmd.res \in {"ok", "failed"}
      BY <1>2 DEF InUninstall
    <3> QED BY <2>4, <3>2, <3>3, <3>4 DEF OnDeletesDone, InOn, InTo
  <2> QED BY <2>2, <2>3, <2>4
<1>3. CASE cmd.plan = <<"unintent", "unroute", "unconfig">>
  <2>1. cmd.plan[1] = "unintent" /\ cmd.res = "ok" /\ InGone
    BY <1>1, <1>3 DEF InUninstall
  <2>2. OnUnintent
    BY <2>1, Zenon DEF InWorks, InAtStage
  <2>3. hook' = hook /\ cmd'.snap = cmd.snap /\ cmd'.seats = cmd.seats /\ cmd'.res = cmd.res /\ cmd'.plan = <<"unroute", "unconfig">>
    BY <1>1, <1>3, <2>2 DEF OnUnintent, InDone, InOn, InTo
  <2>4. InGone'
    BY <2>1, <2>3 DEF InGone, InAt
  <2> QED BY <2>1, <2>3, <2>4 DEF InUninstall
<1>4. CASE cmd.plan = <<"unroute", "unconfig">>
  <2>1. cmd.plan[1] = "unroute" /\ cmd.res = "ok" /\ InGone /\ cmd.seats = InSeat
    BY <1>1, <1>4 DEF InUninstall
  <2>2. OnUnroute
    BY <2>1, Zenon DEF InWorks, InAtStage
  <2>3. hook' = hook /\ cmd'.snap = cmd.snap /\ cmd'.seats = cmd.seats
    BY <2>2 DEF OnUnroute, InDone, InOn, InTo
  <2>4. InGone'
    BY <2>1, <2>3 DEF InGone, InAt
  <2>5. CASE cmd'.plan = <<>> /\ cmd'.res = "failed"
    BY <2>1, <2>3, <2>5 DEF InUninstall
  <2>6. CASE /\ cmd'.plan = <<"unconfig">> /\ cmd'.res = "ok"
             /\ \A s \in InSeat : route'[s] = [prof |-> "none", sec |-> 0]
    <3>1. InNoRoutes'
      BY <2>6 DEF InNoRoutes
    <3> QED BY <2>1, <2>3, <2>4, <2>6, <3>1 DEF InUninstall
  <2> QED BY <1>1, <1>4, <2>1, <2>2, <2>5, <2>6 DEF OnUnroute, InDone, InOn, InTo
<1>5. CASE cmd.plan = <<"unconfig">>
  <2>1. cmd.plan[1] = "unconfig" /\ cmd.res = "ok" /\ InGone /\ InNoRoutes /\ cmd.seats = InSeat
    BY <1>1, <1>5 DEF InUninstall
  <2>2. OnUnconfig
    BY <2>1, Zenon DEF InWorks, InAtStage
  <2>3. /\ hook' = hook /\ route' = route /\ cmd'.snap = cmd.snap /\ cmd'.seats = cmd.seats
        /\ cmd'.res = cmd.res /\ cmd'.plan = <<>>
    BY <1>1, <1>5, <2>2 DEF OnUnconfig, InDone, InOn, InTo
  <2>4. InGone' /\ InNoRoutes'
    BY <2>1, <2>3 DEF InGone, InNoRoutes, InAt
  <2> QED BY <2>1, <2>3, <2>4 DEF InUninstall
<1> QED
  <2>1. cmd.plan \in {Long, <<"unintent", "unroute", "unconfig">>, <<"unroute", "unconfig">>, <<"unconfig">>}
    BY <1>0 DEF InUninstall
  <2> QED BY <1>2, <1>3, <1>4, <1>5, <2>1

\* What moving a hook, or creating one, changes.
LEMMA InMovedHook ==
  ASSUME NEW Pr, InTyped(Pr), NEW m \in InMove, InPatch(m)
  PROVE  \A h \in InHook :
           /\ hook'[h].seat = hook[h].seat /\ hook'[h].on = hook[h].on
           /\ hook'[h].prof = IF h = m.hook THEN cmd.to[m.seat] ELSE hook[h].prof
           /\ hook'[h].sec = IF h = m.hook THEN route[m.seat].sec ELSE hook[h].sec
<1>1. hook \in InHooks(Pr) /\ m.hook \in InHook
  BY DEF InTyped, InStore, InMove
<1> QED BY <1>1 DEF InPatch, InHooks

LEMMA InMadeHook ==
  ASSUME NEW Pr, InTyped(Pr), NEW s \in InSeat, InPost(s)
  PROVE  /\ next \in InHook /\ next' = next + 1 /\ \A h \in InHook \ {next} : hook'[h] = hook[h]
         /\ hook'[next] = [seat |-> s, prof |-> route[s].prof, sec |-> route[s].sec, on |-> cmd.arm]
<1>1. hook \in InHooks(Pr)
  BY DEF InTyped, InStore
<1> QED BY <1>1 DEF InPost, InHooks

LEMMA InMovesStay ==
  ASSUME NEW Pr, InTyped(Pr), NEW m \in cmd.moves, OnMove(m), cmd'.res # "failed", InMoves, InSigned
  PROVE  InMoves' /\ InSigned' /\ cmd'.moves = cmd.moves \ {m} /\ InPatch(m)
<1>1. /\ InPatch(m) /\ m \in InMove /\ cmd'.moves = cmd.moves \ {m} /\ cmd'.tried = cmd.tried \cup {m} /\ route' = route
  BY DEF OnMove, InTo
<1>2. \A n \in cmd.moves \cup cmd.tried : n.hook \in InHook
  BY DEF InTyped, InCmd, InMove
<1>3. InMoves'
  BY <1>1, <1>2, InMovedHook DEF InMoves
<1>4. \A n \in cmd.tried : n.hook = m.hook => n.seat = m.seat
  BY DEF InMoves
<1>5. InSigned'
  BY <1>1, <1>2, <1>4, InMovedHook DEF InSigned
<1> QED BY <1>1, <1>3, <1>5

LEMMA InRecreateStep ==
  ASSUME NEW Pr, InTyped(Pr), cmd.kind = "recreate", InRecreate, InWorks
  PROVE  InRecreate'
<1>0. cmd.plan # <<>>
  BY Zenon DEF InWorks, InAtStage
<1>1. /\ <<"routes", "moves", "intent">>[1] = "routes" /\ Plans!Tail(<<"routes", "moves", "intent">>) = <<"moves", "intent">>
      /\ <<"moves", "intent">>[1] = "moves" /\ Plans!Tail(<<"moves", "intent">>) = <<"intent">>
      /\ <<"intent">>[1] = "intent" /\ Plans!Tail(<<"intent">>) = <<>>
      /\ <<"unroute", "unintent">>[1] = "unroute" /\ Plans!Tail(<<"unroute", "unintent">>) = <<"unintent">>
      /\ <<"unintent">>[1] = "unintent" /\ Plans!Tail(<<"unintent">>) = <<>>
  OBVIOUS
<1>2. \A stage : InUndo(stage) = <<"unroute", "unintent">>
  BY DEF InUndo
<1>3. CASE cmd.plan = <<"routes", "moves", "intent">>
  <2>1. /\ cmd.plan[1] = "routes" /\ cmd.res \in {"ok", "warn"} /\ InMoves /\ InSigned /\ cfg = cmd.to /\ cmd.tried = {}
        /\ cmd.todo \subseteq cmd.seats /\ \A s \in cmd.seats \ cmd.todo : route[s].prof = cmd.to[s]
    BY <1>1, <1>3 DEF InRecreate
  <2>2. (\E s \in InSeat : OnRoute(s)) \/ OnRoutesDone \/ OnFailure("routes")
    BY <2>1, Zenon DEF InWorks, InAtStage
  <2>3. ASSUME NEW s \in InSeat, OnRoute(s) PROVE InRecreate'
    <3>1. InMoves' /\ InSigned'
      BY <2>1, <2>3 DEF InMoves, InSigned, OnRoute, InTo
    <3>2. cmd'.todo = cmd.todo \ {s} /\ cmd'.seats = cmd.seats /\ cmd'.to = cmd.to /\ cmd.seats \subseteq InSeat
      BY <2>3 DEF OnRoute, InTo, InTyped, InCmd
    <3>3. \A t \in cmd.seats \ (cmd.todo \ {s}) : route'[t].prof = cmd.to[t]
      BY <2>1, <2>3, <3>2 DEF OnRoute
    <3> QED BY <1>3, <2>1, <2>3, <3>1, <3>2, <3>3 DEF InRecreate, OnRoute, InTo
  <2>4. CASE OnRoutesDone
    <3>1. InMoves' /\ InSigned'
      BY <2>1, <2>4 DEF InMoves, InSigned, OnRoutesDone, InTo
    <3>2. InRouted'
      BY <2>1, <2>4 DEF InRouted, OnRoutesDone, InTo
    <3> QED BY <1>1, <1>3, <2>1, <2>4, <3>1, <3>2 DEF InRecreate, OnRoutesDone, InTo
  <2>5. CASE OnFailure("routes")
    BY <1>2, <2>1, <2>5 DEF InRecreate, OnFailure, InOn, InTo
  <2> QED BY <2>2, <2>3, <2>4, <2>5
<1>4. CASE cmd.plan = <<"moves", "intent">>
  <2>1. /\ cmd.plan[1] = "moves" /\ cmd.res \in {"ok", "warn"} /\ InMoves /\ InSigned /\ cfg = cmd.to /\ InRouted
        /\ cmd.todo \subseteq cmd.seats
    BY <1>1, <1>4 DEF InRecreate
  <2>2. (\E m \in cmd.moves : OnMove(m)) \/ OnMovesDone
    BY <2>1, Zenon DEF InWorks, InAtStage
  <2>3. ASSUME NEW m \in cmd.moves, OnMove(m) PROVE InRecreate'
    <3>1. CASE cmd'.res = "failed"
      BY <1>2, <1>4, <2>1, <2>3, <3>1 DEF InRecreate, OnMove, InTo
    <3>2. CASE cmd'.res # "failed"
      <4>1. InMoves' /\ InSigned'
        BY <2>1, <2>3, <3>2, InMovesStay
      <4>2. InRouted'
        BY <2>1, <2>3 DEF InRouted, OnMove, InTo
      <4> QED BY <1>4, <2>1, <2>3, <3>2, <4>1, <4>2 DEF InRecreate, OnMove, InTo
    <3> QED BY <3>1, <3>2
  <2>4. CASE OnMovesDone
    <3>1. InMoves' /\ InSigned' /\ InRouted'
      BY <2>1, <2>4 DEF InMoves, InSigned, InRouted, OnMovesDone, InDone, InOn, InTo
    <3> QED BY <1>1, <1>4, <2>1, <2>4, <3>1 DEF InRecreate, OnMovesDone, InDone, InOn, InTo
  <2> QED BY <2>2, <2>3, <2>4
<1>5. CASE cmd.plan = <<"intent">>
  <2>1. /\ cmd.plan[1] = "intent" /\ cmd.res \in {"ok", "warn"} /\ InMoves /\ InSigned /\ cfg = cmd.to /\ InRouted
        /\ cmd.todo \subseteq cmd.seats
    BY <1>1, <1>5 DEF InRecreate
  <2>2. OnIntent \/ OnFailure("intent")
    BY <2>1, Zenon DEF InWorks, InAtStage
  <2>3. CASE OnIntent
    <3>1. InMoves' /\ InSigned' /\ InAgreed'
      BY <2>1, <2>3 DEF InMoves, InSigned, InRouted, InAgreed, OnIntent, InDone, InOn, InTo
    <3> QED BY <1>1, <1>5, <2>1, <2>3, <3>1 DEF InRecreate, OnIntent, InDone, InOn, InTo
  <2>4. CASE OnFailure("intent")
    BY <1>2, <2>1, <2>4 DEF InRecreate, OnFailure, InOn, InTo
  <2> QED BY <2>2, <2>3, <2>4
<1>6. CASE cmd.plan = <<"unroute", "unintent">>
  <2>1. cmd.plan[1] = "unroute" /\ cmd.res \in {"failed", "dirty"} /\ cmd.todo \subseteq cmd.seats
    BY <1>1, <1>6 DEF InRecreate
  <2>2. OnUnroute
    BY <2>1, Zenon DEF InWorks, InAtStage
  <2> QED BY <1>1, <1>6, <2>1, <2>2 DEF InRecreate, OnUnroute, InDone, InOn, InTo
<1>7. CASE cmd.plan = <<"unintent">>
  <2>1. cmd.plan[1] = "unintent" /\ cmd.res \in {"failed", "dirty"} /\ cmd.todo \subseteq cmd.seats
    BY <1>1, <1>7 DEF InRecreate
  <2>2. OnUnintent
    BY <2>1, Zenon DEF InWorks, InAtStage
  <2> QED BY <1>1, <1>7, <2>1, <2>2 DEF InRecreate, OnUnintent, InDone, InOn, InTo
<1> QED
  <2>1. cmd.plan \in {<<"routes", "moves", "intent">>, <<"moves", "intent">>, <<"intent">>, <<"unroute", "unintent">>, <<"unintent">>}
    BY <1>0 DEF InRecreate
  <2> QED BY <1>3, <1>4, <1>5, <1>6, <1>7, <2>1

\* A seat that had an armed hook still has one when a hook has moved.
LEMMA InStaysMoved ==
  ASSUME NEW Pr, "none" \notin Pr, InTyped(Pr), cmd.to \in [InSeat -> Pr], NEW m \in cmd.moves, OnMove(m),
         cmd'.res # "failed", InMoves, InStays
  PROVE  InStays'
<1>1. /\ InPatch(m) /\ m \in InMove /\ cmd'.moves = cmd.moves \ {m}
      /\ cmd'.to = cmd.to /\ cmd'.seats = cmd.seats /\ cmd'.snap = cmd.snap
  BY DEF OnMove, InTo
<1>2. m.hook \in InHook /\ m.seat \in InSeat /\ hook[m.hook].seat = m.seat /\ cmd.to[m.seat] # "none"
      /\ cmd.to[m.seat] = InSent(m.seat) /\ m = [hook |-> m.hook, seat |-> m.seat]
  BY <1>1 DEF InMove, InMoves, InStays
<1>3. \A s \in InSeat : InSent(s)' = InSent(s) /\ InHad(s)' = InHad(s)
  BY <1>1 DEF InSent, InHad, InAt
<1>4. \A h \in InHook :
        /\ hook'[h].seat = hook[h].seat /\ hook'[h].on = hook[h].on
        /\ hook'[h].prof = IF h = m.hook THEN cmd.to[m.seat] ELSE hook[h].prof
  BY <1>1, InMovedHook
<1>5. ASSUME NEW s \in InSeat, InHas(s) PROVE InHas(s)'
  <2>1. PICK h \in InHook : /\ hook[h].prof # "none" /\ hook[h].seat = s /\ hook[h].on
                            /\ hook[h].prof = InSent(s) \/ [hook |-> h, seat |-> s] \in cmd.moves
    BY <1>5 DEF InHas
  <2>2. CASE h = m.hook
    BY <1>2, <1>3, <1>4, <2>1, <2>2 DEF InHas
  <2>3. CASE h # m.hook
    <3>1. [hook |-> h, seat |-> s] # m
      BY <1>2, <2>3
    <3> QED BY <1>1, <1>3, <1>4, <2>1, <2>3, <3>1 DEF InHas
  <2> QED BY <2>2, <2>3
<1>6. \A n \in cmd'.moves : n.seat \in InSeat /\ n \in cmd.moves
  BY <1>1 DEF InTyped, InCmd, InMove
<1> QED BY <1>1, <1>3, <1>5, <1>6 DEF InStays

\* It still has one whatever else changes that is not about its hooks.
LEMMA InStaysSame ==
  ASSUME InStays, hook' = hook, cmd'.moves = cmd.moves, cmd'.to = cmd.to, cmd'.seats = cmd.seats, cmd'.snap = cmd.snap
  PROVE  InStays'
<1>1. \A s : InSent(s)' = InSent(s) /\ InHad(s)' = InHad(s) /\ InHas(s)' = InHas(s)
  BY DEF InSent, InHad, InHas, InAt
<1> QED BY <1>1 DEF InStays

LEMMA InEnsureStep ==
  ASSUME NEW Pr, "none" \notin Pr, InTyped(Pr), cmd.kind = "ensure", InEnsure(Pr), InWorks
  PROVE  InEnsure(Pr)'
<1>0. cmd.plan # <<>>
  BY Zenon DEF InWorks, InAtStage
<1>1. /\ <<"posts", "moves">>[1] = "posts" /\ Plans!Tail(<<"posts", "moves">>) = <<"moves">>
      /\ <<"moves">>[1] = "moves" /\ Plans!Tail(<<"moves">>) = <<>>
      /\ <<"unpost">>[1] = "unpost" /\ Plans!Tail(<<"unpost">>) = <<>>
  OBVIOUS
<1>2. InUndo("posts") = <<"unpost">> /\ InUndo("moves") = <<>>
  BY DEF InUndo
<1>3. CASE cmd.plan = <<"posts", "moves">>
  <2>1. /\ cmd.plan[1] = "posts" /\ cmd.res \in {"ok", "warn"} /\ route = cmd.snap.route /\ InMoves /\ InStays
        /\ cmd.tried = {} /\ cmd.seats = {} /\ cmd.to \in [InSeat -> Pr]
    BY <1>1, <1>3 DEF InEnsure
  <2>2. (\E s \in InSeat : OnPost(s)) \/ OnPostsDone
    BY <2>1, Zenon DEF InWorks, InAtStage
  <2>3. ASSUME NEW s \in InSeat, OnPost(s) PROVE InEnsure(Pr)'
    <3>1. CASE InOn(InUndo("posts"), "failed")
      BY <1>2, <2>1, <3>1 DEF InEnsure, InOn, InTo
    <3>2. CASE InPost(s) /\ InTo(cmd.plan, cmd.res, cmd.todo \ {s}, cmd.moves, cmd.tried, cmd.hooks \cup {next})
      <4>1. /\ cmd'.moves = cmd.moves /\ cmd'.to = cmd.to /\ cmd'.seats = cmd.seats /\ cmd'.snap = cmd.snap
            /\ cmd'.tried = cmd.tried /\ cmd'.plan = cmd.plan /\ cmd'.res = cmd.res /\ route' = route
        BY <2>3, <3>2 DEF InTo, OnPost
      <4>2. next \in InHook /\ \A h \in InHook \ {next} : hook'[h] = hook[h]
        BY <3>2, InMadeHook
      <4>3. hook[next].prof = "none" /\ \A m \in cmd.moves : m.hook \in InHook /\ m.hook # next
        BY <4>2 DEF InTyped, InStore, InCmd, InMove, InHook
      <4>4. InMoves'
        BY <2>1, <4>1, <4>2, <4>3 DEF InMoves
      <4>5. InStays'
        <5>1. \A t \in InSeat : InSent(t)' = InSent(t) /\ InHad(t)' = InHad(t)
          BY <4>1 DEF InSent, InHad, InAt
        <5>2. \A t \in InSeat : InHas(t) => InHas(t)'
          BY <4>1, <4>2, <4>3, <5>1 DEF InHas
        <5>3. \A m \in cmd.moves : m.seat \in InSeat
          BY DEF InTyped, InCmd, InMove
        <5> QED BY <2>1, <4>1, <5>1, <5>2, <5>3 DEF InStays
      <4> QED BY <1>3, <2>1, <4>1, <4>4, <4>5 DEF InEnsure
    <3> QED BY <2>3, <3>1, <3>2 DEF OnPost
  <2>4. CASE OnPostsDone
    <3>1. InMoves' /\ InStays'
      BY <2>1, <2>4, InStaysSame DEF InMoves, OnPostsDone, InDone, InOn, InTo
    <3> QED BY <1>1, <1>3, <2>1, <2>4, <3>1 DEF InEnsure, OnPostsDone, InDone, InOn, InTo
  <2> QED BY <2>2, <2>3, <2>4
<1>4. CASE cmd.plan = <<"moves">>
  <2>1. /\ cmd.plan[1] = "moves" /\ cmd.res \in {"ok", "warn"} /\ route = cmd.snap.route /\ InMoves /\ InStays
        /\ cmd.seats = {} /\ cmd.to \in [InSeat -> Pr]
    BY <1>1, <1>4 DEF InEnsure
  <2>2. (\E m \in cmd.moves : OnMove(m)) \/ OnMovesDone
    BY <2>1, Zenon DEF InWorks, InAtStage
  <2>3. ASSUME NEW m \in cmd.moves, OnMove(m) PROVE InEnsure(Pr)'
    <3>1. CASE cmd'.res = "failed"
      BY <1>2, <1>4, <2>1, <2>3, <3>1 DEF InEnsure, OnMove, InTo
    <3>2. CASE cmd'.res # "failed"
      <4>1. \A n \in cmd.moves \cup cmd.tried : n.hook \in InHook
        BY DEF InTyped, InCmd, InMove
      <4>2. InMoves'
        <5>1. InPatch(m) /\ m \in InMove /\ cmd'.moves = cmd.moves \ {m} /\ cmd'.tried = cmd.tried \cup {m}
          BY <2>3, <3>2 DEF OnMove, InTo
        <5> QED BY <2>1, <4>1, <5>1, InMovedHook DEF InMoves
      <4>3. InStays'
        BY <2>1, <2>3, <3>2, InStaysMoved
      <4> QED BY <1>4, <2>1, <2>3, <3>2, <4>2, <4>3 DEF InEnsure, OnMove, InTo
    <3> QED BY <3>1, <3>2
  <2>4. CASE OnMovesDone
    <3>1. InMoves' /\ InStays'
      BY <2>1, <2>4, InStaysSame DEF InMoves, OnMovesDone, InDone, InOn, InTo
    <3> QED BY <1>1, <1>4, <2>1, <2>4, <3>1 DEF InEnsure, OnMovesDone, InDone, InOn, InTo
  <2> QED BY <2>2, <2>3, <2>4
<1>5. CASE cmd.plan = <<"unpost">>
  <2>1. cmd.plan[1] = "unpost" /\ cmd.res \in {"failed", "dirty"} /\ cmd.seats = {} /\ cmd.to \in [InSeat -> Pr]
    BY <1>1, <1>5 DEF InEnsure
  <2>2. OnUnpost
    BY <2>1, Zenon DEF InWorks, InAtStage
  <2> QED BY <1>1, <1>5, <2>1, <2>2 DEF InEnsure, OnUnpost, InDone, InOn, InTo
<1> QED
  <2>1. cmd.plan \in {<<"posts", "moves">>, <<"moves">>, <<"unpost">>}
    BY <1>0 DEF InEnsure
  <2> QED BY <1>3, <1>4, <1>5, <2>1

LEMMA InApplyStep ==
  ASSUME NEW Pr, "none" \notin Pr, InTyped(Pr), cmd.kind = "apply", InApply(Pr), InWorks
  PROVE  InApply(Pr)'
<1>0. cmd.plan # <<>>
  BY Zenon DEF InWorks, InAtStage
<1>1. /\ <<"routes", "moves", "config", "intent">>[1] = "routes"
      /\ Plans!Tail(<<"routes", "moves", "config", "intent">>) = <<"moves", "config", "intent">>
      /\ <<"moves", "config", "intent">>[1] = "moves" /\ Plans!Tail(<<"moves", "config", "intent">>) = <<"config", "intent">>
      /\ <<"config", "intent">>[1] = "config" /\ Plans!Tail(<<"config", "intent">>) = <<"intent">>
      /\ <<"intent">>[1] = "intent" /\ Plans!Tail(<<"intent">>) = <<>>
      /\ <<"unmove", "unroute", "unconfig">>[1] = "unmove" /\ Plans!Tail(<<"unmove", "unroute", "unconfig">>) = <<"unroute", "unconfig">>
      /\ <<"unroute", "unconfig">>[1] = "unroute" /\ Plans!Tail(<<"unroute", "unconfig">>) = <<"unconfig">>
      /\ <<"unconfig">>[1] = "unconfig" /\ Plans!Tail(<<"unconfig">>) = <<>>
  OBVIOUS
<1>2. \A stage : InUndo(stage) = <<"unmove", "unroute", "unconfig">>
  BY DEF InUndo
<1> DEFINE Apart == \A s \in InSeat \ cmd.seats : route[s] = cmd.snap.route[s]
           Traced == \A h \in InHook : hook[h].prof = cmd.snap.hook[h].prof \/ \E m \in cmd.tried : m.hook = h
           SameCmd == cmd'.seats = cmd.seats /\ cmd'.to = cmd.to /\ cmd'.snap = cmd.snap
<1>3. cmd.to \in [InSeat -> Pr] /\ cmd.todo \subseteq cmd.seats /\ Apart /\ Traced
  BY DEF InApply
<1>4. cmd.seats \subseteq InSeat /\ \A m \in cmd.moves \cup cmd.tried : m.hook \in InHook /\ m.seat \in InSeat
  BY DEF InTyped, InCmd, InMove
<1>5. CASE cmd.plan = <<"routes", "moves", "config", "intent">>
  <2>1. /\ cmd.plan[1] = "routes" /\ cmd.res \in {"ok", "warn"} /\ InMoves /\ InStays /\ InSigned /\ cmd.tried = {}
        /\ \A s \in cmd.seats \ cmd.todo : route[s].prof = cmd.to[s]
    BY <1>1, <1>5 DEF InApply, ApplyBegun, ApplyFailed
  <2>2. (\E s \in InSeat : OnRoute(s)) \/ OnRoutesDone \/ OnFailure("routes")
    BY <2>1, Zenon DEF InWorks, InAtStage
  <2>3. ASSUME NEW s \in InSeat, OnRoute(s) PROVE InApply(Pr)'
    <3>1. /\ SameCmd /\ cmd'.todo = cmd.todo \ {s} /\ cmd'.plan = cmd.plan /\ cmd'.res = cmd.res /\ s \in cmd.todo
          /\ cmd'.moves = cmd.moves /\ cmd'.tried = cmd.tried /\ hook' = hook
      BY <2>3 DEF OnRoute, InTo
    <3>2. InMoves' /\ InSigned' /\ InStays'
      BY <2>1, <3>1, InStaysSame DEF InMoves, InSigned
    <3>3. \A t \in cmd.seats \ cmd'.todo : route'[t].prof = cmd.to[t]
      BY <1>4, <2>1, <2>3, <3>1 DEF OnRoute
    <3>4. ApplyBegun'
      BY <1>5, <2>1, <3>1, <3>2, <3>3 DEF ApplyBegun
    <3>5. Apart' /\ Traced'
      BY <1>3, <1>4, <2>3, <3>1 DEF OnRoute
    <3> QED BY <1>3, <2>1, <3>1, <3>4, <3>5 DEF InApply
  <2>4. CASE OnRoutesDone
    <3>1. /\ SameCmd /\ cmd'.todo = {} /\ cmd'.plan = <<"moves", "config", "intent">> /\ cmd'.res = cmd.res /\ cmd.todo = {}
          /\ cmd'.moves = cmd.moves /\ cmd'.tried = cmd.tried /\ hook' = hook /\ route' = route
      BY <1>1, <1>5, <2>4 DEF OnRoutesDone, InTo
    <3>2. InMoves' /\ InSigned' /\ InStays' /\ InRouted'
      BY <2>1, <3>1, InStaysSame DEF InMoves, InSigned, InRouted
    <3>3. ApplyBegun'
      BY <3>1, <3>2 DEF ApplyBegun
    <3> QED BY <1>3, <2>1, <3>1, <3>3 DEF InApply
  <2>5. CASE OnFailure("routes")
    <3>1. /\ SameCmd /\ cmd'.todo = cmd.todo /\ cmd'.plan = <<"unmove", "unroute", "unconfig">> /\ cmd'.res = "failed"
          /\ cmd'.tried = cmd.tried /\ hook' = hook /\ route' = route
      BY <1>2, <2>5 DEF OnFailure, InOn, InTo
    <3> QED BY <1>3, <3>1 DEF InApply, ApplyFailed
  <2> QED BY <2>2, <2>3, <2>4, <2>5
<1>6. CASE cmd.plan = <<"moves", "config", "intent">>
  <2>1. cmd.plan[1] = "moves" /\ cmd.res \in {"ok", "warn"} /\ InMoves /\ InStays /\ InSigned /\ InRouted
    BY <1>1, <1>6 DEF InApply, ApplyBegun, ApplyFailed
  <2>2. (\E m \in cmd.moves : OnMove(m)) \/ OnMovesDone
    BY <2>1, Zenon DEF InWorks, InAtStage
  <2>3. ASSUME NEW m \in cmd.moves, OnMove(m) PROVE InApply(Pr)'
    <3>1. /\ SameCmd /\ cmd'.todo = cmd.todo /\ cmd'.tried = cmd.tried \cup {m} /\ route' = route /\ m \in InMove
          /\ InPatch(m) \/ UNCHANGED hook
      BY <2>3 DEF OnMove, InTo
    <3>2. \A h \in InHook : hook'[h].prof = hook[h].prof \/ h = m.hook
      BY <3>1, InMovedHook
    <3>3. Traced'
      BY <1>3, <3>1, <3>2
    <3>4. CASE cmd'.res = "failed"
      <4>1. cmd'.plan = <<"unmove", "unroute", "unconfig">>
        BY <1>2, <2>1, <2>3, <3>4 DEF OnMove, InTo
      <4> QED BY <1>3, <3>1, <3>3, <3>4, <4>1 DEF InApply, ApplyFailed
    <3>5. CASE cmd'.res # "failed"
      <4>1. cmd'.plan = cmd.plan /\ cmd'.res = cmd.res
        BY <2>3, <3>5 DEF OnMove, InTo
      <4>2. InMoves' /\ InSigned' /\ InStays'
        BY <1>3, <2>1, <2>3, <3>5, InMovesStay, InStaysMoved
      <4>3. InRouted'
        BY <2>1, <3>1 DEF InRouted
      <4>4. ApplyBegun'
        BY <1>6, <4>1, <4>2, <4>3 DEF ApplyBegun
      <4> QED BY <1>3, <2>1, <3>1, <3>3, <4>1, <4>4 DEF InApply
    <3> QED BY <3>4, <3>5
  <2>4. CASE OnMovesDone
    <3>1. /\ SameCmd /\ cmd'.todo = cmd.todo /\ cmd'.plan = <<"config", "intent">> /\ cmd'.res = cmd.res /\ cmd'.moves = {}
          /\ cmd'.moves = cmd.moves /\ cmd'.tried = cmd.tried /\ hook' = hook /\ route' = route
      BY <1>1, <1>6, <2>4 DEF OnMovesDone, InDone, InOn, InTo
    <3>2. InMoves' /\ InSigned' /\ InStays' /\ InRouted'
      BY <2>1, <3>1, InStaysSame DEF InMoves, InSigned, InRouted
    <3>3. ApplyBegun'
      BY <3>1, <3>2 DEF ApplyBegun
    <3> QED BY <1>3, <2>1, <3>1, <3>3 DEF InApply
  <2> QED BY <2>2, <2>3, <2>4
<1>7. CASE cmd.plan = <<"config", "intent">>
  <2>1. /\ cmd.plan[1] = "config" /\ cmd.res \in {"ok", "warn"} /\ InMoves /\ InStays /\ InSigned /\ InRouted
        /\ cmd.moves = {}
    BY <1>1, <1>7 DEF InApply, ApplyBegun, ApplyFailed
  <2>2. OnConfig
    BY <2>1, Zenon DEF InWorks, InAtStage
  <2>3. /\ SameCmd /\ cmd'.todo = cmd.todo /\ cmd'.plan = <<"intent">> /\ cmd'.res = cmd.res /\ cfg' = cmd.to
        /\ cmd'.moves = cmd.moves /\ cmd'.tried = cmd.tried /\ hook' = hook /\ route' = route
    BY <1>1, <1>7, <2>2 DEF OnConfig, InDone, InOn, InTo
  <2>4. InMoves' /\ InSigned' /\ InStays' /\ InRouted'
    BY <2>1, <2>3, InStaysSame DEF InMoves, InSigned, InRouted
  <2>5. ApplyBegun'
    BY <2>1, <2>3, <2>4 DEF ApplyBegun
  <2> QED BY <1>3, <2>1, <2>3, <2>5 DEF InApply
<1>8. CASE cmd.plan = <<"intent">>
  <2>1. /\ cmd.plan[1] = "intent" /\ cmd.res \in {"ok", "warn"} /\ InMoves /\ InStays /\ InSigned /\ InRouted
        /\ cmd.moves = {} /\ cfg = cmd.to
    BY <1>1, <1>8 DEF InApply, ApplyBegun, ApplyFailed
  <2>2. OnIntent \/ OnFailure("intent")
    BY <2>1, Zenon DEF InWorks, InAtStage
  <2>3. CASE OnIntent
    <3>1. /\ SameCmd /\ cmd'.todo = cmd.todo /\ cmd'.plan = <<>> /\ cmd'.res = cmd.res /\ cfg' = cfg
          /\ cmd'.moves = cmd.moves /\ cmd'.tried = cmd.tried /\ hook' = hook /\ route' = route
          /\ \A s \in cmd.seats : installIntent'[s] = route[s]
      BY <1>1, <1>8, <2>3 DEF OnIntent, InDone, InOn, InTo
    <3>2. InMoves' /\ InSigned' /\ InStays' /\ InAgreed'
      BY <2>1, <3>1, InStaysSame DEF InMoves, InSigned, InRouted, InAgreed
    <3>3. ApplyBegun'
      BY <2>1, <3>1, <3>2 DEF ApplyBegun
    <3> QED BY <1>3, <2>1, <3>1, <3>3 DEF InApply
  <2>4. CASE OnFailure("intent")
    <3>1. /\ SameCmd /\ cmd'.todo = cmd.todo /\ cmd'.plan = <<"unmove", "unroute", "unconfig">> /\ cmd'.res = "failed"
          /\ cmd'.tried = cmd.tried /\ hook' = hook /\ route' = route
      BY <1>2, <2>4 DEF OnFailure, InOn, InTo
    <3> QED BY <1>3, <3>1 DEF InApply, ApplyFailed
  <2> QED BY <2>2, <2>3, <2>4
<1>9. CASE cmd.plan = <<"unmove", "unroute", "unconfig">>
  <2>1. cmd.plan[1] = "unmove" /\ cmd.res \in {"failed", "dirty"}
    BY <1>1, <1>9 DEF InApply, ApplyBegun, ApplyFailed
  <2>2. OnUnmove
    BY <2>1, Zenon DEF InWorks, InAtStage
  <2>3. /\ SameCmd /\ cmd'.todo = cmd.todo /\ cmd'.plan = <<"unroute", "unconfig">> /\ cmd'.tried = cmd.tried /\ route' = route
    BY <1>1, <1>9, <2>2 DEF OnUnmove, InDone, InOn, InTo
  <2>4. CASE cmd'.res = "dirty" /\ hook' = hook
    BY <1>3, <2>3, <2>4 DEF InApply, ApplyFailed
  <2>5. CASE /\ cmd'.res = cmd.res
             /\ \A h \in InHook : hook'[h] = IF \E m \in cmd.tried : m.hook = h THEN cmd.snap.hook[h] ELSE hook[h]
    <3>1. \A h \in InHook : hook'[h].prof = cmd.snap.hook[h].prof
      BY <1>3, <2>5
    <3>2. InUnmoved' /\ Traced'
      BY <2>3, <3>1 DEF InUnmoved
    <3> QED BY <1>3, <2>1, <2>3, <2>5, <3>2 DEF InApply, ApplyFailed
  <2> QED BY <2>2, <2>4, <2>5 DEF OnUnmove, InDone, InOn, InTo
<1>10. CASE cmd.plan = <<"unroute", "unconfig">>
  <2>1. cmd.plan[1] = "unroute" /\ cmd.res \in {"failed", "dirty"} /\ (cmd.res = "failed" => InUnmoved)
    BY <1>1, <1>10 DEF InApply, ApplyBegun, ApplyFailed
  <2>2. OnUnroute
    BY <2>1, Zenon DEF InWorks, InAtStage
  <2>3. /\ SameCmd /\ cmd'.todo = cmd.todo /\ cmd'.plan = <<"unconfig">> /\ cmd'.tried = cmd.tried /\ hook' = hook
    BY <1>1, <1>10, <2>2 DEF OnUnroute, InDone, InOn, InTo
  <2>4. CASE cmd'.res = "dirty" /\ route' = route
    BY <1>3, <2>3, <2>4 DEF InApply, ApplyFailed
  <2>5. CASE /\ cmd'.res = cmd.res
             /\ \A s \in InSeat : route'[s] = IF s \notin cmd.seats THEN route[s] ELSE cmd.snap.route[s]
    <3>1. \A s \in InSeat : route'[s] = cmd.snap.route[s]
      BY <1>3, <2>5
    <3>2. InRouteBack' /\ (cmd.res = "failed" => InUnmoved') /\ Apart'
      BY <2>1, <2>3, <3>1 DEF InRouteBack, InUnmoved
    <3> QED BY <1>3, <2>1, <2>3, <2>5, <3>2 DEF InApply, ApplyFailed
  <2> QED BY <2>2, <2>4, <2>5 DEF OnUnroute, InDone, InOn, InTo
<1>11. CASE cmd.plan = <<"unconfig">>
  <2>1. cmd.plan[1] = "unconfig" /\ cmd.res \in {"failed", "dirty"} /\ (cmd.res = "failed" => InUnmoved /\ InRouteBack)
    BY <1>1, <1>11 DEF InApply, ApplyBegun, ApplyFailed
  <2>2. OnUnconfig
    BY <2>1, Zenon DEF InWorks, InAtStage
  <2>3. /\ SameCmd /\ cmd'.todo = cmd.todo /\ cmd'.plan = <<>> /\ cmd'.tried = cmd.tried /\ hook' = hook /\ route' = route
        /\ cmd'.res = cmd.res /\ cfg' = cmd.snap.cfg
    BY <1>1, <1>11, <2>2 DEF OnUnconfig, InDone, InOn, InTo
  <2>4. cmd.res = "failed" => InUnmoved' /\ InRouteBack'
    BY <2>1, <2>3 DEF InUnmoved, InRouteBack
  <2> QED BY <1>3, <2>1, <2>3, <2>4 DEF InApply, ApplyFailed
<1> QED
  <2>1. cmd.plan \in {<<"routes", "moves", "config", "intent">>, <<"moves", "config", "intent">>, <<"config", "intent">>,
                      <<"intent">>, <<"unmove", "unroute", "unconfig">>, <<"unroute", "unconfig">>, <<"unconfig">>}
    BY <1>0 DEF InApply, ApplyBegun, ApplyFailed
  <2> QED BY <1>5, <1>6, <1>7, <1>8, <1>9, <1>10, <1>11, <2>1

LEMMA InInitStep ==
  ASSUME NEW Pr, "none" \notin Pr, InTyped(Pr), cmd.kind = "init", InInit(Pr), InWorks
  PROVE  InInit(Pr)'
<1>0. cmd.plan # <<>>
  BY Zenon DEF InWorks, InAtStage
<1>1. /\ <<"config", "routes", "intent", "posts">>[1] = "config"
      /\ Plans!Tail(<<"config", "routes", "intent", "posts">>) = <<"routes", "intent", "posts">>
      /\ <<"routes", "intent", "posts">>[1] = "routes" /\ Plans!Tail(<<"routes", "intent", "posts">>) = <<"intent", "posts">>
      /\ <<"intent", "posts">>[1] = "intent" /\ Plans!Tail(<<"intent", "posts">>) = <<"posts">>
      /\ <<"posts">>[1] = "posts" /\ Plans!Tail(<<"posts">>) = <<>>
      /\ <<"unpost", "unroute", "unintent", "unconfig">>[1] = "unpost"
      /\ Plans!Tail(<<"unpost", "unroute", "unintent", "unconfig">>) = <<"unroute", "unintent", "unconfig">>
  OBVIOUS
<1>2. /\ <<"unroute", "unintent", "unconfig">>[1] = "unroute"
      /\ Plans!Tail(<<"unroute", "unintent", "unconfig">>) = <<"unintent", "unconfig">>
      /\ <<"unroute", "unconfig">>[1] = "unroute" /\ Plans!Tail(<<"unroute", "unconfig">>) = <<"unconfig">>
      /\ <<"unintent", "unconfig">>[1] = "unintent" /\ Plans!Tail(<<"unintent", "unconfig">>) = <<"unconfig">>
      /\ <<"unconfig">>[1] = "unconfig" /\ Plans!Tail(<<"unconfig">>) = <<>>
  OBVIOUS
<1>3. /\ InUndo("posts") = <<"unpost", "unroute", "unintent", "unconfig">>
      /\ InUndo("routes") = <<"unroute", "unconfig">> /\ InUndo("intent") = <<"unroute", "unconfig">>
  BY DEF InUndo
<1> DEFINE Older == \A h \in InHook : h < cmd.snap.next => hook[h].prof = cmd.snap.hook[h].prof
           None == \A s \in InSeat : InAt(hook, s, cmd.to[s]) = {}
           SameCmd == cmd'.seats = cmd.seats /\ cmd'.to = cmd.to /\ cmd'.snap = cmd.snap /\ cmd'.arm = cmd.arm
<1>4. cmd.seats = InSeat /\ cmd.to \in [InSeat -> Pr] /\ Older
  BY DEF InInit
<1>5. ASSUME SameCmd, hook' = hook PROVE Older' /\ (InUnmoved => InUnmoved') /\ (None => None')
  BY <1>4, <1>5 DEF InUnmoved, InAt
<1>6. CASE cmd.plan = <<"config", "routes", "intent", "posts">>
  <2>1. cmd.plan[1] = "config" /\ cmd.res = "ok" /\ InUnmoved /\ None
    BY <1>1, <1>6 DEF InInit, InitBegun, InitFailed
  <2>2. OnConfig
    BY <2>1, Zenon DEF InWorks, InAtStage
  <2>3. SameCmd /\ cmd'.plan = <<"routes", "intent", "posts">> /\ cmd'.res = "ok" /\ hook' = hook /\ cfg' = cmd'.to
        /\ cmd'.todo = cmd.todo /\ route' = route
    BY <1>1, <1>6, <2>1, <2>2 DEF OnConfig, InDone, InOn, InTo
  <2>4. \A s \in InSeat : s \in cmd.todo
    BY <1>6 DEF InInit, InitBegun, InitFailed
  <2>5. InitBegun'
    BY <1>5, <2>1, <2>3, <2>4 DEF InitBegun
  <2> QED BY <1>4, <1>5, <2>3, <2>5 DEF InInit
<1>7. CASE cmd.plan = <<"routes", "intent", "posts">>
  <2>0. cmd.res = "ok" /\ InitBegun
    BY <1>7 DEF InInit, InitFailed
  <2>1. /\ cmd.plan[1] = "routes" /\ cmd.res = "ok" /\ InUnmoved /\ None /\ cfg = cmd.to
        /\ \A s \in InSeat : s \notin cmd.todo => route[s].prof = cmd.to[s]
    <3>1. cmd.plan[1] = "routes"
      BY <1>1, <1>7
    <3> QED
      BY <1>7, <2>0, <3>1 DEF InitBegun
  <2>2. (\E s \in InSeat : OnRoute(s)) \/ OnRoutesDone \/ OnFailure("routes")
    BY <2>1, Zenon DEF InWorks, InAtStage
  <2>3. ASSUME NEW s \in InSeat, OnRoute(s) PROVE InInit(Pr)'
    <3>1. SameCmd /\ cmd'.plan = cmd.plan /\ cmd'.res = "ok" /\ hook' = hook /\ cfg' = cmd'.to /\ cmd'.todo = cmd.todo \ {s}
      BY <2>1, <2>3 DEF OnRoute, InTo
    <3>2. \A t \in InSeat : t \notin cmd'.todo => route'[t].prof = cmd.to[t]
      BY <2>1, <2>3, <3>1 DEF OnRoute
    <3>3. InitBegun'
      BY <1>5, <1>7, <2>1, <3>1, <3>2 DEF InitBegun
    <3> QED BY <1>4, <1>5, <3>1, <3>3 DEF InInit
  <2>4. CASE OnRoutesDone
    <3>1. SameCmd /\ cmd'.plan = <<"intent", "posts">> /\ cmd'.res = "ok" /\ hook' = hook /\ cfg' = cmd'.to
          /\ cmd'.todo = InSeat /\ cmd.todo = {} /\ route' = route
      BY <1>1, <1>7, <2>1, <2>4 DEF OnRoutesDone, InTo
    <3>2. InitBegun'
      BY <1>5, <2>1, <3>1 DEF InitBegun
    <3> QED BY <1>4, <1>5, <3>1, <3>2 DEF InInit
  <2>5. CASE OnFailure("routes")
    <3>1. SameCmd /\ cmd'.plan = <<"unroute", "unconfig">> /\ cmd'.res = "failed" /\ hook' = hook
      BY <1>3, <2>5 DEF OnFailure, InOn, InTo
    <3> QED BY <1>4, <1>5, <2>1, <3>1 DEF InInit, InitFailed
  <2> QED BY <2>2, <2>3, <2>4, <2>5
<1>8. CASE cmd.plan = <<"intent", "posts">>
  <2>0. cmd.res = "ok" /\ InitBegun
    BY <1>8 DEF InInit, InitFailed
  <2>1. /\ cmd.plan[1] = "intent" /\ cmd.res = "ok" /\ InUnmoved /\ None /\ cfg = cmd.to /\ cmd.todo = InSeat
        /\ \A s \in InSeat : route[s].prof = cmd.to[s]
    <3>1. cmd.plan[1] = "intent"
      BY <1>1, <1>8
    <3> QED
      BY <1>8, <2>0, <3>1 DEF InitBegun
  <2>2. OnIntent \/ OnFailure("intent")
    BY <2>1, Zenon DEF InWorks, InAtStage
  <2>3. CASE OnIntent
    <3>1. SameCmd /\ cmd'.plan = <<"posts">> /\ cmd'.res = "ok" /\ hook' = hook /\ cfg' = cmd'.to
          /\ cmd'.todo = InSeat /\ route' = route
      BY <1>1, <1>8, <2>1, <2>3 DEF OnIntent, InDone, InOn, InTo
    <3>2. InitBegun'
      BY <1>5, <2>1, <3>1 DEF InitBegun
    <3> QED BY <1>4, <1>5, <3>1, <3>2 DEF InInit
  <2>4. CASE OnFailure("intent")
    <3>1. SameCmd /\ cmd'.plan = <<"unroute", "unconfig">> /\ cmd'.res = "failed" /\ hook' = hook
      BY <1>3, <2>4 DEF OnFailure, InOn, InTo
    <3> QED BY <1>4, <1>5, <2>1, <3>1 DEF InInit, InitFailed
  <2> QED BY <2>2, <2>3, <2>4
<1>9. CASE cmd.plan = <<"posts">>
  <2>1. /\ cmd.plan[1] = "posts" /\ cmd.res = "ok" /\ cfg = cmd.to
        /\ \A s \in InSeat :
             /\ route[s].prof = cmd.to[s]
             /\ \A h \in InAt(hook, s, cmd.to[s]) : hook[h].sec = route[s].sec
             /\ s \notin cmd.todo => \E h \in InAt(hook, s, cmd.to[s]) : hook[h].on = cmd.arm
    BY <1>1, <1>9 DEF InInit, InitBegun, InitFailed
  <2>2. (\E s \in InSeat : OnPost(s)) \/ OnPostsDone
    BY <2>1, Zenon DEF InWorks, InAtStage
  <2>3. ASSUME NEW s \in InSeat, OnPost(s) PROVE InInit(Pr)'
    <3>1. SameCmd /\ cfg' = cfg /\ route' = route
      BY <2>3 DEF OnPost, InOn, InTo
    <3>2. InPost(s) => /\ next \in InHook /\ \A h \in InHook \ {next} : hook'[h] = hook[h]
                       /\ hook'[next] = [seat |-> s, prof |-> route[s].prof, sec |-> route[s].sec, on |-> cmd.arm]
      BY InMadeHook
    <3>3. Older'
      <4>1. CASE InPost(s)
        <5>1. \A h \in InHook : h < cmd.snap.next => h # next
          BY DEF InTyped, InStore, InSnapped, InSnap, InHook
        <5> QED BY <1>4, <3>1, <3>2, <4>1, <5>1
      <4>2. CASE UNCHANGED <<hook, next>>
        BY <1>5, <3>1, <4>2
      <4> QED BY <2>3, <4>1, <4>2 DEF OnPost
    <3>4. CASE InOn(InUndo("posts"), "failed")
      BY <1>3, <1>4, <3>1, <3>3, <3>4 DEF InInit, InitFailed, InOn, InTo
    <3>5. CASE InPost(s) /\ InTo(cmd.plan, cmd.res, cmd.todo \ {s}, cmd.moves, cmd.tried, cmd.hooks \cup {next})
      <4>1. cmd'.plan = cmd.plan /\ cmd'.res = cmd.res /\ cmd'.todo = cmd.todo \ {s}
        BY <3>5 DEF InTo
      <4>2. hook[next].prof = "none" /\ cmd.to[s] # "none" /\ next \in InHook
        BY <1>4, <3>2, <3>5 DEF InTyped, InStore
      <4>3. \A t \in InSeat :
              InAt(hook', t, cmd.to[t]) = IF t = s THEN InAt(hook, t, cmd.to[t]) \cup {next} ELSE InAt(hook, t, cmd.to[t])
        BY <2>1, <3>1, <3>2, <3>5, <4>2 DEF InAt
      <4>4. \A t \in InSeat : \A h \in InAt(hook, t, cmd.to[t]) : hook'[h] = hook[h]
        BY <3>2, <3>5, <4>2 DEF InAt
      <4>5. ASSUME NEW t \in InSeat
            PROVE  /\ route'[t].prof = cmd'.to[t]
                   /\ \A h \in InAt(hook', t, cmd'.to[t]) : hook'[h].sec = route'[t].sec
                   /\ t \notin cmd'.todo => \E h \in InAt(hook', t, cmd'.to[t]) : hook'[h].on = cmd'.arm
        <5>1. CASE t = s
          <6>0. InAt(hook', t, cmd.to[t]) = InAt(hook, t, cmd.to[t]) \cup {next}
            BY <4>3, <5>1, Zenon
          <6>1. hook'[next].sec = route[t].sec /\ hook'[next].on = cmd.arm /\ next \in InAt(hook', t, cmd.to[t])
            BY <3>2, <3>5, <5>1, <6>0
          <6>2. \A h \in InAt(hook', t, cmd.to[t]) : h # next => h \in InAt(hook, t, cmd.to[t])
            BY <6>0
          <6> QED BY <2>1, <3>1, <4>4, <6>1, <6>2
        <5>2. CASE t # s
          <6>1. InAt(hook', t, cmd.to[t]) = InAt(hook, t, cmd.to[t])
            BY <4>3, <5>2, Zenon
          <6>2. t \notin cmd'.todo => t \notin cmd.todo
            BY <4>1, <5>2
          <6>3. \A h \in InAt(hook, t, cmd.to[t]) : hook'[h].sec = hook[h].sec /\ hook'[h].on = hook[h].on
            BY <4>4, Zenon
          <6>4. cmd'.to = cmd.to /\ cmd'.arm = cmd.arm /\ route' = route
            BY <3>1
          <6> QED BY <2>1, <6>1, <6>2, <6>3, <6>4
        <5> QED BY <5>1, <5>2
      <4>6. InitBegun'
        BY <1>9, <2>1, <3>1, <4>1, <4>5 DEF InitBegun
      <4> QED BY <1>4, <2>1, <3>1, <3>3, <4>1, <4>6 DEF InInit
    <3> QED BY <2>3, <3>4, <3>5 DEF OnPost
  <2>4. CASE OnPostsDone
    <3>1. SameCmd /\ cmd'.plan = <<>> /\ cmd'.res = "ok" /\ hook' = hook /\ cfg' = cfg /\ route' = route
          /\ cmd'.todo = {} /\ cmd.todo = {}
      BY <1>1, <1>9, <2>1, <2>4 DEF OnPostsDone, InDone, InOn, InTo
    <3>2. \A s \in InSeat : InAt(hook, s, cmd.to[s])' = InAt(hook, s, cmd.to[s])
      BY <3>1 DEF InAt
    <3>3. InitBegun'
      BY <2>1, <3>1, <3>2 DEF InitBegun
    <3> QED BY <1>4, <1>5, <3>1, <3>3 DEF InInit
  <2> QED BY <2>2, <2>3, <2>4
<1>10. CASE cmd.plan = <<"unpost", "unroute", "unintent", "unconfig">>
  <2>1. cmd.plan[1] = "unpost" /\ cmd.res \in {"failed", "dirty"}
    BY <1>1, <1>10 DEF InInit, InitBegun, InitFailed
  <2>2. OnUnpost
    BY <2>1, Zenon DEF InWorks, InAtStage
  <2>3. SameCmd /\ cmd'.plan = <<"unroute", "unintent", "unconfig">>
    BY <1>1, <1>10, <2>2 DEF OnUnpost, InDone, InOn, InTo
  <2>4. CASE cmd'.res = "dirty" /\ hook' = hook
    BY <1>4, <1>5, <2>3, <2>4 DEF InInit, InitFailed
  <2>5. CASE /\ cmd'.res = cmd.res
             /\ \A h \in InHook : IF h >= cmd.snap.next THEN hook'[h].prof = "none" ELSE hook'[h] = hook[h]
    <3>1. \A h \in InHook : h >= cmd.snap.next => cmd.snap.hook[h].prof = "none"
      BY <2>1 DEF InTyped, InSnapped
    <3>2. \A h \in InHook : h \in Nat /\ cmd.snap.next \in Nat
      BY DEF InTyped, InSnapped, InSnap, InHook
    <3>3. InUnmoved' /\ Older'
      BY <1>4, <2>3, <2>5, <3>1, <3>2 DEF InUnmoved
    <3> QED BY <1>4, <2>1, <2>3, <2>5, <3>3 DEF InInit, InitFailed
  <2> QED BY <2>2, <2>4, <2>5 DEF OnUnpost, InDone, InOn, InTo
<1>11. CASE cmd.plan = <<"unroute", "unintent", "unconfig">> \/ cmd.plan = <<"unroute", "unconfig">>
  <2>1. cmd.plan[1] = "unroute" /\ cmd.res \in {"failed", "dirty"} /\ (cmd.res = "failed" => InUnmoved)
    BY <1>2, <1>11 DEF InInit, InitBegun, InitFailed
  <2>2. OnUnroute
    BY <2>1, Zenon DEF InWorks, InAtStage
  <2>3. SameCmd /\ cmd'.plan \in {<<"unintent", "unconfig">>, <<"unconfig">>} /\ hook' = hook
    BY <1>2, <1>11, <2>2 DEF OnUnroute, InDone, InOn, InTo
  <2>4. CASE cmd'.res = "dirty"
    BY <1>4, <1>5, <2>3, <2>4 DEF InInit, InitFailed
  <2>5. CASE cmd'.res = cmd.res /\ \A s \in InSeat : route'[s] = cmd.snap.route[s]
    <3>1. InRouteBack'
      BY <2>3, <2>5 DEF InRouteBack
    <3> QED BY <1>4, <1>5, <2>1, <2>3, <2>5, <3>1 DEF InInit, InitFailed
  <2> QED BY <1>4, <2>2, <2>4, <2>5 DEF OnUnroute, InDone, InOn, InTo
<1>12. CASE cmd.plan = <<"unintent", "unconfig">>
  <2>1. cmd.plan[1] = "unintent" /\ cmd.res \in {"failed", "dirty"} /\ (cmd.res = "failed" => InUnmoved /\ InRouteBack)
    BY <1>2, <1>12 DEF InInit, InitBegun, InitFailed
  <2>2. OnUnintent
    BY <2>1, Zenon DEF InWorks, InAtStage
  <2>3. SameCmd /\ cmd'.plan = <<"unconfig">> /\ hook' = hook /\ route' = route /\ cmd'.res = cmd.res
    BY <1>2, <1>12, <2>2 DEF OnUnintent, InDone, InOn, InTo
  <2>4. cmd.res = "failed" => InRouteBack'
    BY <2>1, <2>3 DEF InRouteBack
  <2> QED BY <1>4, <1>5, <2>1, <2>3, <2>4 DEF InInit, InitFailed
<1>13. CASE cmd.plan = <<"unconfig">>
  <2>1. cmd.plan[1] = "unconfig" /\ cmd.res \in {"failed", "dirty"} /\ (cmd.res = "failed" => InUnmoved /\ InRouteBack)
    BY <1>2, <1>13 DEF InInit, InitBegun, InitFailed
  <2>2. OnUnconfig
    BY <2>1, Zenon DEF InWorks, InAtStage
  <2>3. SameCmd /\ cmd'.plan = <<>> /\ hook' = hook /\ route' = route /\ cmd'.res = cmd.res /\ cfg' = cmd.snap.cfg
    BY <1>2, <1>13, <2>2 DEF OnUnconfig, InDone, InOn, InTo
  <2>4. cmd.res = "failed" => InRouteBack'
    BY <2>1, <2>3 DEF InRouteBack
  <2> QED BY <1>4, <1>5, <2>1, <2>3, <2>4 DEF InInit, InitFailed
<1> QED
  <2>1. cmd.plan \in {<<"config", "routes", "intent", "posts">>, <<"routes", "intent", "posts">>, <<"intent", "posts">>,
                      <<"posts">>, <<"unpost", "unroute", "unintent", "unconfig">>, <<"unroute", "unintent", "unconfig">>,
                      <<"unroute", "unconfig">>, <<"unintent", "unconfig">>, <<"unconfig">>}
    BY <1>0 DEF InInit, InitBegun, InitFailed
  <2> QED BY <1>6, <1>7, <1>8, <1>9, <1>10, <1>11, <1>12, <1>13, <2>1

\* A set of hooks has an oldest, and the one that is kept of a seat's is armed if one of them is.
LEMMA InLeast ==
  ASSUME NEW Pr, NEW Ki, NEW Co, NEW STATE H, H \subseteq InHook, H # {}
  PROVE  Li(Pr, Ki, Co)!Least(H) \in H
<1> DEFINE R == {ss \in Nat \X Nat : ss[1] < ss[2]}
<1>1. IsWellFoundedOn(R, Nat)
  BY NatLessThanWellFounded DEF OpToRel
<1>2. \A g, h \in H : g \in Nat /\ h \in Nat /\ (<<g, h>> \notin R => h <= g)
  BY DEF InHook
<1> HIDE DEF R
<1>3. H \subseteq Nat
  BY <1>2
<1>4. PICK h \in H : \A g \in H : ~(<<g, h>> \in R)
  BY <1>1, <1>3, WFMin, Zenon
<1>5. \E l \in H : \A g \in H : l <= g
  BY <1>2, <1>4
<1> QED BY <1>5 DEF Li!Least

LEMMA InKeeps ==
  ASSUME NEW Pr, NEW Ki, NEW Co, NEW STATE s, NEW STATE p, InOf(s) # {}
  PROVE  LET k == Li(Pr, Ki, Co)!KeepOne(Li(Pr, Ki, Co)!Of(s), p) IN
         k \in InOf(s) /\ ((\E h \in InOf(s) : hook[h].on) => hook[k].on)
<1> DEFINE awake == {h \in InOf(s) : hook[h].on}
           A == IF awake # {} THEN awake ELSE InOf(s)
           there == {h \in A : hook[h].prof = p}
           B == IF there # {} THEN there ELSE A
<1>1. Li(Pr, Ki, Co)!KeepOne(Li(Pr, Ki, Co)!Of(s), p) = Li(Pr, Ki, Co)!Least(B)
  <2>1. Li(Pr, Ki, Co)!Of(s) = InOf(s)
    BY InListed
  <2> QED BY <2>1, Zenon DEF Li!KeepOne
<1>2. B \subseteq A /\ A \subseteq InOf(s) /\ InOf(s) \subseteq InHook /\ B # {} /\ (awake # {} => A = awake)
  BY DEF InOf
<1>3. B \subseteq InHook /\ B # {}
  BY <1>2
<1> HIDE DEF B
<1>4. Li(Pr, Ki, Co)!Least(B) \in B
  BY <1>3, InLeast
<1>5. Li(Pr, Ki, Co)!Least(B) \in InOf(s)
  BY <1>2, <1>4
<1>6. ASSUME NEW h \in InOf(s), hook[h].on PROVE hook[Li(Pr, Ki, Co)!Least(B)].on
  <2>1. awake # {}
    BY <1>6
  <2>2. Li(Pr, Ki, Co)!Least(B) \in awake
    BY <1>2, <1>4, <2>1
  <2> QED BY <2>2
<1> QED BY <1>1, <1>5, <1>6

\* A command that starts has what it was asked for, and a look at how things are.
InAsked(Pr) ==
  [kind : {"none"}, plan : Plans!Seq(InStage), res : {"ok", "warn"}, arm : BOOLEAN,
   seats : SUBSET InSeat, todo : SUBSET InSeat, to : [InSeat -> Pr \cup {"none"}], moves : SUBSET InMove,
   tried : {{}}, hooks : SUBSET InHook, snap : {<<>>}]
InStarts(kind, c) ==
  /\ cmd'.kind = kind /\ cmd'.plan = c.plan /\ cmd'.res = c.res /\ cmd'.arm = c.arm /\ cmd'.seats = c.seats
  /\ cmd'.todo = c.todo /\ cmd'.to = c.to /\ cmd'.moves = c.moves /\ cmd'.tried = {} /\ cmd'.hooks = c.hooks
  /\ cmd'.snap = [cfg |-> cfg, route |-> route, hook |-> hook, next |-> next]
  /\ UNCHANGED <<settings, cfg, route, installIntent, hook, next>>

LEMMA InStart ==
  ASSUME NEW Pr, NEW Ki, NEW Co, InTyped(Pr), NEW kind \in InKind, NEW STATE c, c \in InAsked(Pr),
         \A m \in c.moves : m.hook < next, Li(Pr, Ki, Co)!Start(kind, c)
  PROVE  InTyped(Pr)' /\ InStarts(kind, c)
<1> DEFINE seen == [cfg |-> cfg, route |-> route, hook |-> hook, next |-> next]
<1>1. /\ cmd' = [c EXCEPT !.kind = kind, !.snap = seen]
      /\ UNCHANGED <<settings, cfg, route, installIntent, hook, next, installMinted>>
  BY Zenon DEF Li!Start, Li!Snapshot
<1>2. seen \in InSnap(Pr)
  BY DEF InTyped, InStore, InSnap
<1> HIDE DEF seen
<1>3. InStore(Pr)'
  BY <1>1 DEF InTyped, InStore, InHooks
<1>4. cmd' \in InCmd(Pr)' /\ cmd'.kind = kind /\ cmd'.snap = seen /\ cmd'.moves = c.moves
  BY <1>1 DEF InCmd, InAsked
<1>5. /\ cmd'.plan = c.plan /\ cmd'.res = c.res /\ cmd'.arm = c.arm /\ cmd'.seats = c.seats
      /\ cmd'.todo = c.todo /\ cmd'.to = c.to /\ cmd'.tried = {} /\ cmd'.hooks = c.hooks
  BY <1>1 DEF InAsked
<1>6. InSnapped(Pr)'
  <2>1. seen.next = next /\ seen.hook = hook /\ next \in Nat
    BY DEF seen, InTyped, InStore
  <2> QED BY <1>1, <1>2, <1>4, <2>1 DEF InSnapped, InTyped, InStore, InSnap, InHooks
<1>7. InTyped(Pr)'
  BY <1>1, <1>3, <1>4, <1>6 DEF InTyped, InKind
<1> QED BY <1>1, <1>4, <1>5, <1>7 DEF InStarts, seen

LEMMA InIdle ==
  ASSUME NEW Pr, NEW Ki, NEW Co
  PROVE  LET idle == Li(Pr, Ki, Co)!Idle IN
         /\ idle \in InAsked(Pr) /\ idle.plan = <<>> /\ idle.res = "ok" /\ idle.arm = FALSE /\ idle.seats = {}
         /\ idle.todo = {} /\ idle.moves = {} /\ idle.hooks = {} /\ idle.kind = "none"
<1>1. [s \in InSeat |-> "none"] \in [InSeat -> Pr \cup {"none"}] /\ <<>> \in Plans!Seq(InStage)
  OBVIOUS
<1> QED BY <1>1 DEF Li!Idle, Li!NoConfig, Li!NoProf, InSeat, InAsked

LEMMA InStartInit ==
  ASSUME NEW Pr, NEW Ki, NEW Co, "none" \notin Pr, InTyped(Pr), NEW b \in BOOLEAN, Li(Pr, Ki, Co)!StartInit(b)
  PROVE  InTyped(Pr)' /\ cmd'.kind = "init" /\ InInit(Pr)'
<1> DEFINE idle == Li(Pr, Ki, Co)!Idle
           c == [idle EXCEPT !.plan = <<"config", "routes", "intent", "posts">>, !.arm = b, !.to = settings,
                             !.seats = InSeat, !.todo = InSeat]
<1>1. Li(Pr, Ki, Co)!Owned(settings) = {} /\ Li(Pr, Ki, Co)!Start("init", c)
  BY Zenon DEF Li!StartInit, Li!InitOver, InSeat
<1>2. settings \in [InSeat -> Pr] /\ "init" \in InKind /\ <<"config", "routes", "intent", "posts">> \in Plans!Seq(InStage)
  BY DEF InStage, InTyped, InStore, InKind
<1>0. idle \in InAsked(Pr) /\ idle.res = "ok" /\ idle.moves = {}
  BY InIdle
<1> HIDE DEF idle
<1>3. /\ c \in InAsked(Pr) /\ c.plan = <<"config", "routes", "intent", "posts">> /\ c.to = settings /\ c.seats = InSeat
      /\ c.todo = InSeat /\ c.res = "ok" /\ c.moves = {}
  BY <1>0, <1>2 DEF InAsked
<1> HIDE DEF c
<1>4. InTyped(Pr)' /\ InStarts("init", c)
  BY <1>1, <1>2, <1>3, InStart
<1>5. \A s \in InSeat : InAt(hook, s, settings[s]) = {}
  BY <1>1, InSets
<1>6. /\ hook' = hook /\ cmd'.snap.hook = hook /\ cmd'.plan = <<"config", "routes", "intent", "posts">> /\ cmd'.todo = InSeat
      /\ cmd'.to = settings /\ cmd'.seats = InSeat /\ cmd'.res = "ok" /\ cmd'.kind = "init"
  BY <1>3, <1>4 DEF InStarts
<1>7. InUnmoved' /\ InitBegun'
  BY <1>5, <1>6 DEF InUnmoved, InitBegun, InAt
<1> QED BY <1>2, <1>4, <1>6, <1>7 DEF InInit

LEMMA InStartArm ==
  ASSUME NEW Pr, NEW Ki, NEW Co, InTyped(Pr), NEW b \in BOOLEAN, Li(Pr, Ki, Co)!StartArm(b)
  PROVE  InTyped(Pr)' /\ cmd'.kind \in {"arm", "pause"} /\ InFlip'
<1> DEFINE flips == IF b THEN UNION {InWakes(s) : s \in InSeat} ELSE UNION {InOurs(s) : s \in InSeat}
           kind == IF b THEN "arm" ELSE "pause"
           idle == Li(Pr, Ki, Co)!Idle
           c == [idle EXCEPT !.plan = <<"flips">>, !.arm = b, !.hooks = flips]
<1>1. Li(Pr, Ki, Co)!Flips(b) = flips
  <2>1. \A s : Li(Pr, Ki, Co)!Wakes(s) = InWakes(s)
    BY InSets
  <2>2. \A s, p : Li(Pr, Ki, Co)!At(s, p) = InAt(hook, s, p)
    BY InListed
  <2>3. Li(Pr, Ki, Co)!Owned(cfg) = UNION {InOurs(s) : s \in InSeat}
    BY <2>2, Zenon DEF Li!Owned, InSeat, InOurs
  <2> QED BY <2>1, <2>3, Zenon DEF Li!Flips, InSeat
<1> HIDE DEF flips
<1>2. Li(Pr, Ki, Co)!Start(kind, c)
  BY <1>1, Zenon DEF Li!StartArm
<1>3. flips \subseteq InHook /\ <<"flips">> \in Plans!Seq(InStage)
  BY DEF flips, InWakes, InOurs, InAt, InStage
<1>0. idle \in InAsked(Pr) /\ idle.res = "ok" /\ idle.moves = {}
  BY InIdle
<1> HIDE DEF idle
<1>4. c \in InAsked(Pr) /\ c.plan = <<"flips">> /\ c.arm = b /\ c.hooks = flips /\ c.res = "ok" /\ c.moves = {}
  BY <1>0, <1>3 DEF InAsked
<1>5. InTyped(Pr)' /\ InStarts(kind, c) /\ kind \in {"arm", "pause"} /\ (b <=> kind = "arm")
  <2>1. kind \in InKind /\ kind \in {"arm", "pause"} /\ (b <=> kind = "arm")
    BY DEF InKind
  <2> HIDE DEF kind, c
  <2> QED BY <1>2, <1>4, <2>1, InStart
<1> HIDE DEF kind, c
<1>6. /\ hook' = hook /\ cfg' = cfg /\ route' = route /\ cmd'.plan = <<"flips">> /\ cmd'.arm = b /\ cmd'.hooks = flips
      /\ cmd'.res = "ok" /\ cmd'.kind = kind
  BY <1>4, <1>5 DEF InStarts
<1>7. \A s \in InSeat : InWakes(s)' = InWakes(s) /\ InOurs(s)' = InOurs(s)
  BY <1>6 DEF InWakes, InOurs, InAt
<1>8. \A s \in InSeat : \A h \in (IF b THEN InWakes(s) ELSE InOurs(s)) : h \in flips
  BY DEF flips
<1> QED BY <1>5, <1>6, <1>7, <1>8 DEF InFlip

LEMMA InStartUninstall ==
  ASSUME NEW Pr, NEW Ki, NEW Co, InTyped(Pr), Li(Pr, Ki, Co)!StartUninstall
  PROVE  InTyped(Pr)' /\ cmd'.kind = "uninstall" /\ InUninstall'
<1> DEFINE owned == UNION {InOurs(s) : s \in InSeat}
           idle == Li(Pr, Ki, Co)!Idle
           c == [idle EXCEPT !.plan = <<"deletes", "unintent", "unroute", "unconfig">>, !.seats = InSeat, !.hooks = owned]
<1>1. Li(Pr, Ki, Co)!Owned(cfg) = owned
  <2>1. \A s, p : Li(Pr, Ki, Co)!At(s, p) = InAt(hook, s, p)
    BY InListed
  <2> QED BY <2>1, Zenon DEF Li!Owned, InSeat, InOurs
<1> HIDE DEF owned
<1>2. Li(Pr, Ki, Co)!Start("uninstall", c)
  BY <1>1, Zenon DEF Li!StartUninstall, InSeat
<1>3. /\ owned \subseteq InHook /\ "uninstall" \in InKind
      /\ <<"deletes", "unintent", "unroute", "unconfig">> \in Plans!Seq(InStage)
  BY DEF owned, InOurs, InAt, InStage, InKind
<1>0. idle \in InAsked(Pr) /\ idle.res = "ok" /\ idle.moves = {}
  BY InIdle
<1> HIDE DEF idle
<1>4. /\ c \in InAsked(Pr) /\ c.plan = <<"deletes", "unintent", "unroute", "unconfig">> /\ c.seats = InSeat
      /\ c.res = "ok" /\ c.moves = {}
  BY <1>0, <1>3 DEF InAsked
<1> HIDE DEF c
<1>5. InTyped(Pr)' /\ InStarts("uninstall", c)
  BY <1>2, <1>3, <1>4, InStart
<1>6. /\ cfg' = cfg /\ route' = route /\ cmd'.plan = <<"deletes", "unintent", "unroute", "unconfig">> /\ cmd'.seats = InSeat
      /\ cmd'.res = "ok" /\ cmd'.kind = "uninstall" /\ cmd'.snap.cfg = cfg /\ cmd'.snap.route = route
  BY <1>4, <1>5 DEF InStarts
<1> QED BY <1>5, <1>6 DEF InUninstall

\* The moves that a command is to make: of a hook of each seat it is about, armed if one of them is.
InKept(m) == m.hook \in InOf(m.seat) /\ ((\E h \in InOf(m.seat) : hook[h].on) => hook[m.hook].on)

LEMMA InMoved ==
  ASSUME NEW Pr, NEW Ki, NEW Co, InTyped(Pr), NEW STATE S, S \subseteq InSeat
  PROVE  /\ \A m \in Li(Pr, Ki, Co)!Moves(S) : /\ m \in InMove /\ m.seat \in S /\ InKept(m)
                                               /\ m.hook < next /\ hook[m.hook].seat = m.seat
         /\ \A s \in S : InOf(s) # {} => \E m \in Li(Pr, Ki, Co)!Moves(S) : m.seat = s
<1> DEFINE keep(s) == Li(Pr, Ki, Co)!KeepOne(Li(Pr, Ki, Co)!Of(s), settings[s])
<1>1. \A s : Li(Pr, Ki, Co)!Of(s) = InOf(s)
  BY InListed
<1>2. Li(Pr, Ki, Co)!Moves(S) = {[hook |-> keep(s), seat |-> s] : s \in {t \in S : InOf(t) # {}}}
  BY <1>1 DEF Li!Moves
<1>3. ASSUME NEW s \in S, InOf(s) # {}
      PROVE  /\ keep(s) \in InOf(s) /\ ((\E h \in InOf(s) : hook[h].on) => hook[keep(s)].on)
             /\ keep(s) \in InHook /\ keep(s) < next /\ hook[keep(s)].seat = s
  <2>1. keep(s) \in InOf(s) /\ ((\E h \in InOf(s) : hook[h].on) => hook[keep(s)].on)
    BY <1>3, InKeeps
  <2> HIDE DEF keep
  <2> QED BY <2>1 DEF InOf, InTyped, InStore, InHook
<1> HIDE DEF keep
<1>4. ASSUME NEW m \in Li(Pr, Ki, Co)!Moves(S)
      PROVE  /\ m \in InMove /\ m.seat \in S /\ InKept(m) /\ m.hook < next /\ hook[m.hook].seat = m.seat
  <2>1. PICK s \in S : InOf(s) # {} /\ m = [hook |-> keep(s), seat |-> s]
    BY <1>2
  <2>2. m.hook = keep(s) /\ m.seat = s
    BY <2>1
  <2> QED BY <1>3, <2>1, <2>2 DEF InKept, InMove
<1>5. ASSUME NEW s \in S, InOf(s) # {} PROVE \E m \in Li(Pr, Ki, Co)!Moves(S) : m.seat = s
  <2>1. [hook |-> keep(s), seat |-> s] \in Li(Pr, Ki, Co)!Moves(S)
    BY <1>2, <1>5
  <2> QED BY <2>1
<1> QED BY <1>4, <1>5

LEMMA InPushes ==
  ASSUME NEW Pr, NEW Ki, NEW Co, NEW STATE c
  PROVE  \E res \in {"ok", "warn"} : Li(Pr, Ki, Co)!Pushed(c) = [c EXCEPT !.res = res]
<1> DEFINE res == IF \E s \in {"reviewer", "fixer"} : \E g, h \in Li(Pr, Ki, Co)!Of(s) : g # h THEN "warn" ELSE "ok"
<1>1. Li(Pr, Ki, Co)!Pushed(c) = [c EXCEPT !.res = res]
  BY Zenon DEF Li!Pushed
<1>2. res \in {"ok", "warn"}
  OBVIOUS
<1> QED BY <1>1, <1>2

LEMMA InStartRecreate ==
  ASSUME NEW Pr, NEW Ki, NEW Co, InTyped(Pr), Li(Pr, Ki, Co)!StartRecreate
  PROVE  InTyped(Pr)' /\ cmd'.kind = "recreate" /\ InRecreate'
<1> DEFINE idle == Li(Pr, Ki, Co)!Idle
           missing == Li(Pr, Ki, Co)!Missing
           moves == Li(Pr, Ki, Co)!Moves(missing)
           asked == [idle EXCEPT !.plan = <<"routes", "moves", "intent">>, !.to = cfg, !.seats = missing,
                                 !.todo = missing, !.moves = moves]
           c == Li(Pr, Ki, Co)!Pushed(asked)
<1>0. idle \in InAsked(Pr)
  BY InIdle
<1>1. Li(Pr, Ki, Co)!Start("recreate", c)
  BY Zenon DEF Li!StartRecreate, InSeat
<1>2. missing \subseteq InSeat
  BY DEF Li!Missing, InSeat
<1> HIDE DEF idle, missing
<1>3. moves \subseteq InMove /\ \A m \in moves : m.hook < next /\ hook[m.hook].seat = m.seat
  BY <1>2, InMoved
<1> HIDE DEF moves
<1>c. PICK res \in {"ok", "warn"} : c = [asked EXCEPT !.res = res]
  <2> HIDE DEF asked
  <2> QED BY InPushes
<1>4. cfg \in [InSeat -> Pr \cup {"none"}] /\ <<"routes", "moves", "intent">> \in Plans!Seq(InStage) /\ "recreate" \in InKind
  BY DEF InTyped, InStore, InStage, InKind
<1>5. /\ c \in InAsked(Pr) /\ c.plan = <<"routes", "moves", "intent">> /\ c.to = cfg /\ c.seats = missing
      /\ c.todo = missing /\ c.moves = moves /\ c.res = res
  <2>1. /\ asked \in InAsked(Pr) /\ asked.plan = <<"routes", "moves", "intent">> /\ asked.to = cfg
        /\ asked.seats = missing /\ asked.todo = missing /\ asked.moves = moves
    BY <1>0, <1>2, <1>3, <1>4 DEF InAsked
  <2> HIDE DEF asked
  <2> QED BY <1>c, <2>1 DEF InAsked
<1> HIDE DEF asked, c
<1>6. InTyped(Pr)' /\ InStarts("recreate", c)
  BY <1>1, <1>3, <1>4, <1>5, InStart
<1>7. /\ cmd'.plan = <<"routes", "moves", "intent">> /\ cmd'.to = cfg /\ cmd'.seats = missing /\ cmd'.todo = missing
      /\ cmd'.moves = moves /\ cmd'.tried = {} /\ cmd'.res \in {"ok", "warn"} /\ cmd'.kind = "recreate"
      /\ cfg' = cfg /\ hook' = hook /\ route' = route
  BY <1>2, <1>5, <1>6 DEF InStarts
<1>8. InMoves' /\ InSigned'
  BY <1>3, <1>7 DEF InMoves, InSigned
<1> QED BY <1>6, <1>7, <1>8 DEF InRecreate

LEMMA InStartEnsure ==
  ASSUME NEW Pr, NEW Ki, NEW Co, "none" \notin Pr, InTyped(Pr), Li(Pr, Ki, Co)!StartEnsure
  PROVE  InTyped(Pr)' /\ cmd'.kind = "ensure" /\ InEnsure(Pr)'
<1> DEFINE idle == Li(Pr, Ki, Co)!Idle
           bare == {s \in InSeat : Li(Pr, Ki, Co)!Of(s) = {}}
           moves == {m \in Li(Pr, Ki, Co)!Moves(InSeat) : hook[m.hook].prof # cfg[m.seat]}
           asked == [idle EXCEPT !.plan = <<"posts", "moves">>, !.to = cfg, !.todo = bare, !.moves = moves]
           c == Li(Pr, Ki, Co)!Pushed(asked)
<1>0. idle \in InAsked(Pr) /\ idle.seats = {}
  BY InIdle
<1>1. Li(Pr, Ki, Co)!Start("ensure", c) /\ cfg = settings /\ \A s \in InSeat : route[s].prof = cfg[s]
  <2>1. Li(Pr, Ki, Co)!Start("ensure", c)
    BY Zenon DEF Li!StartEnsure, InSeat
  <2> HIDE DEF c
  <2> QED BY <2>1, Zenon DEF Li!StartEnsure, InSeat
<1>2. bare \subseteq InSeat
  OBVIOUS
<1> HIDE DEF idle, bare
<1>3. moves \subseteq InMove /\ \A m \in moves : m.seat \in InSeat /\ m.hook < next /\ hook[m.hook].seat = m.seat
  BY InMoved
<1> HIDE DEF moves
<1>c. PICK res \in {"ok", "warn"} : c = [asked EXCEPT !.res = res]
  <2> HIDE DEF asked
  <2> QED BY InPushes
<1>4. cfg \in [InSeat -> Pr] /\ <<"posts", "moves">> \in Plans!Seq(InStage) /\ "ensure" \in InKind
  BY <1>1 DEF InTyped, InStore, InStage, InKind
<1>5. /\ c \in InAsked(Pr) /\ c.plan = <<"posts", "moves">> /\ c.to = cfg /\ c.seats = {} /\ c.moves = moves /\ c.res = res
  <2>1. /\ asked \in InAsked(Pr) /\ asked.plan = <<"posts", "moves">> /\ asked.to = cfg /\ asked.seats = {}
        /\ asked.moves = moves
    BY <1>0, <1>2, <1>3, <1>4 DEF InAsked
  <2> HIDE DEF asked
  <2> QED BY <1>c, <2>1 DEF InAsked
<1> HIDE DEF asked, c
<1>6. InTyped(Pr)' /\ InStarts("ensure", c)
  BY <1>1, <1>3, <1>4, <1>5, InStart
<1>7. /\ cmd'.plan = <<"posts", "moves">> /\ cmd'.to = cfg /\ cmd'.seats = {} /\ cmd'.snap.hook = hook
      /\ cmd'.moves = moves /\ cmd'.tried = {} /\ cmd'.res \in {"ok", "warn"} /\ cmd'.kind = "ensure"
      /\ cmd'.snap.route = route /\ hook' = hook /\ route' = route
  BY <1>2, <1>5, <1>6 DEF InStarts
<1>8. InMoves'
  BY <1>3, <1>7 DEF InMoves
<1>9. InStays'
  <2>1. \A s \in InSeat : InSent(s)' = route[s].prof
    BY <1>7 DEF InSent
  <2>2. \A s \in InSeat : InHad(s)' => InHas(s)'
    BY <1>7, <2>1 DEF InHad, InHas, InAt
  <2> QED BY <1>1, <1>3, <1>7, <2>1, <2>2 DEF InStays
<1> QED BY <1>4, <1>6, <1>7, <1>8, <1>9 DEF InEnsure

LEMMA InStartApply ==
  ASSUME NEW Pr, NEW Ki, NEW Co, "none" \notin Pr, InTyped(Pr), Li(Pr, Ki, Co)!StartApply
  PROVE  InTyped(Pr)' /\ cmd'.kind = "apply" /\ InApply(Pr)'
<1> DEFINE idle == Li(Pr, Ki, Co)!Idle
           moved == Li(Pr, Ki, Co)!Moved
           binds == Li(Pr, Ki, Co)!Binds
           moves == {m \in Li(Pr, Ki, Co)!Moves(moved \cup binds) : hook[m.hook].prof # settings[m.seat]}
           asked == [idle EXCEPT !.plan = <<"routes", "moves", "config", "intent">>, !.to = settings, !.seats = binds,
                                 !.todo = binds, !.moves = moves]
           c == Li(Pr, Ki, Co)!Pushed(asked)
<1>0. idle \in InAsked(Pr)
  BY InIdle
<1>1. Li(Pr, Ki, Co)!Start("apply", c) /\ \A s \in moved : route[s] # [prof |-> "none", sec |-> 0]
  <2>1. Li(Pr, Ki, Co)!Start("apply", c)
    BY Zenon DEF Li!StartApply, InSeat
  <2> HIDE DEF c
  <2> QED BY <2>1, Zenon DEF Li!StartApply, Li!NoRoute, Li!NoProf
<1>2. /\ moved \subseteq InSeat /\ binds \subseteq InSeat
      /\ \A s \in moved \ binds : route[s].prof = settings[s]
  BY <1>1 DEF Li!Moved, Li!Binds, Li!NoRoute, Li!NoProf, InSeat
<1> HIDE DEF idle, moved, binds
<1>3. /\ moves \subseteq InMove
      /\ \A m \in moves : m.seat \in moved \cup binds /\ m.hook < next /\ hook[m.hook].seat = m.seat
      /\ \A s \in binds : InOf(s) # {} =>
           \E m \in InMove : m.seat = s /\ InKept(m) /\ (m \in moves \/ hook[m.hook].prof = settings[m.seat])
  <2> DEFINE all == Li(Pr, Ki, Co)!Moves(moved \cup binds)
  <2>1. moved \cup binds \subseteq InSeat
    BY <1>2
  <2>2. /\ \A m \in all : m \in InMove /\ m.seat \in moved \cup binds /\ InKept(m) /\ m.hook < next /\ hook[m.hook].seat = m.seat
        /\ \A s \in moved \cup binds : InOf(s) # {} => \E m \in all : m.seat = s
    BY <2>1, InMoved
  <2> HIDE DEF all
  <2>3. moves = {m \in all : hook[m.hook].prof # settings[m.seat]}
    BY DEF all
  <2> HIDE DEF moves
  <2> QED BY <2>2, <2>3
<1> HIDE DEF moves
<1>c. PICK res \in {"ok", "warn"} : c = [asked EXCEPT !.res = res]
  <2> HIDE DEF asked
  <2> QED BY InPushes
<1>4. settings \in [InSeat -> Pr] /\ <<"routes", "moves", "config", "intent">> \in Plans!Seq(InStage) /\ "apply" \in InKind
  BY DEF InTyped, InStore, InStage, InKind
<1>5. /\ c \in InAsked(Pr) /\ c.plan = <<"routes", "moves", "config", "intent">> /\ c.to = settings /\ c.seats = binds
      /\ c.todo = binds /\ c.moves = moves /\ c.res = res
  <2>1. settings \in [InSeat -> Pr \cup {"none"}]
    BY <1>4
  <2>2. /\ asked \in InAsked(Pr) /\ asked.plan = <<"routes", "moves", "config", "intent">> /\ asked.to = settings
        /\ asked.seats = binds /\ asked.todo = binds /\ asked.moves = moves
    BY <1>0, <1>2, <1>3, <1>4, <2>1 DEF InAsked
  <2> HIDE DEF asked
  <2> QED BY <1>c, <2>2 DEF InAsked
<1> HIDE DEF asked, c
<1>6. InTyped(Pr)' /\ InStarts("apply", c)
  BY <1>1, <1>3, <1>4, <1>5, InStart
<1>7. /\ cmd'.plan = <<"routes", "moves", "config", "intent">> /\ cmd'.to = settings /\ cmd'.seats = binds
      /\ cmd'.todo = binds /\ cmd'.snap.hook = hook /\ cmd'.snap.route = route /\ cmd'.moves = moves
      /\ cmd'.tried = {} /\ cmd'.res \in {"ok", "warn"} /\ cmd'.kind = "apply" /\ hook' = hook /\ route' = route
  BY <1>2, <1>5, <1>6 DEF InStarts
<1>8. InMoves' /\ InSigned'
  BY <1>3, <1>7 DEF InMoves, InSigned
<1>9. InStays'
  <2>1. \A s \in InSeat : InSent(s)' = IF s \in binds THEN settings[s] ELSE route[s].prof
    BY <1>7 DEF InSent
  <2>2. \A m \in moves : m.seat \in InSeat /\ InSent(m.seat)' = settings[m.seat]
    BY <1>2, <1>3, <2>1
  <2>3. ASSUME NEW s \in InSeat, InHad(s)' PROVE InHas(s)'
    <3>1. PICK h \in InHook : hook[h].prof # "none" /\ hook[h].seat = s /\ hook[h].prof = route[s].prof /\ hook[h].on
      BY <1>7, <2>3 DEF InHad, InAt
    <3>2. CASE s \notin binds
      BY <1>7, <2>1, <3>1, <3>2 DEF InHas
    <3>3. CASE s \in binds
      <4>1. h \in InOf(s)
        BY <3>1 DEF InOf
      <4>2. PICK m \in InMove : m.seat = s /\ InKept(m) /\ (m \in moves \/ hook[m.hook].prof = settings[m.seat])
        BY <1>3, <3>3, <4>1
      <4>3. m.hook \in InHook /\ m = [hook |-> m.hook, seat |-> s]
        BY <4>2 DEF InMove
      <4>4. hook[m.hook].prof # "none" /\ hook[m.hook].seat = s /\ hook[m.hook].on
        BY <3>1, <4>1, <4>2 DEF InKept, InOf
      <4>5. hook[m.hook].prof = InSent(s)' \/ [hook |-> m.hook, seat |-> s] \in moves
        BY <2>1, <3>3, <4>2, <4>3
      <4> QED BY <1>7, <4>3, <4>4, <4>5 DEF InHas
    <3> QED BY <3>2, <3>3
  <2> QED BY <1>7, <2>2, <2>3 DEF InStays
<1>10. ApplyBegun'
  BY <1>7, <1>8, <1>9 DEF ApplyBegun
<1> QED BY <1>4, <1>6, <1>7, <1>10 DEF InApply

\* A command that ends, however it does, leaves no plan;
LEMMA InEnds ==
  ASSUME NEW Pr, NEW Ki, NEW Co, InTyped(Pr), Li(Pr, Ki, Co)!Finish \/ Li(Pr, Ki, Co)!Crash
  PROVE  InTyped(Pr)' /\ cmd'.kind = "none"
<1> DEFINE idle == Li(Pr, Ki, Co)!Idle
<1>0. idle \in InAsked(Pr) /\ idle.plan = <<>> /\ idle.moves = {} /\ idle.kind = "none"
  BY InIdle
<1>1. cmd' = idle /\ UNCHANGED <<settings, cfg, route, installIntent, hook, next, installMinted>>
  BY Zenon DEF Li!Finish, Li!Crash
<1> HIDE DEF idle
<1>2. InStore(Pr)'
  BY <1>1 DEF InTyped, InStore
<1>3. cmd' \in InCmd(Pr)'
  BY <1>0, <1>1 DEF InCmd, InAsked
<1> QED BY <1>0, <1>1, <1>2, <1>3 DEF InTyped

\* and between two of them the form, the routes and the record of them may change.
LEMMA InBetween ==
  ASSUME NEW Pr, NEW Ki, NEW Co, InTyped(Pr), cmd.kind = "none",
         \/ Li(Pr, Ki, Co)!Edit \/ Li(Pr, Ki, Co)!Erase \/ Li(Pr, Ki, Co)!Heal
         \/ UNCHANGED <<settings, cfg, route, installIntent, hook, next, installMinted, cmd>>
  PROVE  InTyped(Pr)' /\ cmd'.kind = "none"
<1>1. UNCHANGED <<cfg, hook, next, installMinted, cmd>>
  BY DEF Li!Edit, Li!Erase, Li!Heal
<1>2. settings' \in [InSeat -> Pr]
  BY DEF Li!Edit, Li!Erase, Li!Heal, InTyped, InStore
<1>3. route' \in [InSeat -> InRoute(Pr)]
  <2>1. CASE Li(Pr, Ki, Co)!Edit \/ UNCHANGED route
    BY <2>1 DEF Li!Edit, InTyped, InStore
  <2>2. CASE Li(Pr, Ki, Co)!Erase
    <3>1. PICK s \in InSeat : route' = [route EXCEPT ![s] = [prof |-> "none", sec |-> 0]]
      BY <2>2, Zenon DEF Li!Erase, Li!NoRoute, Li!NoProf, InSeat
    <3>2. route \in [InSeat -> InRoute(Pr)] /\ [prof |-> "none", sec |-> 0] \in InRoute(Pr)
      BY DEF InTyped, InStore, InRoute
    <3> QED BY <3>1, <3>2
  <2>3. CASE Li(Pr, Ki, Co)!Heal
    BY <2>3 DEF Li!Heal, InSeat, InTyped, InStore
  <2> QED BY <2>1, <2>2, <2>3
<1>4. installIntent' \in [InSeat -> InRoute(Pr)]
  <2>1. CASE Li(Pr, Ki, Co)!Edit \/ UNCHANGED installIntent
    BY <2>1 DEF Li!Edit, InTyped, InStore
  <2>2. CASE Li(Pr, Ki, Co)!Erase
    <3>1. PICK s \in InSeat : installIntent' = [installIntent EXCEPT ![s] = [prof |-> "none", sec |-> 0]]
                               \/ installIntent' = installIntent
      BY <2>2, Zenon DEF Li!Erase, Li!NoRoute, Li!NoProf, InSeat
    <3>2. installIntent \in [InSeat -> InRoute(Pr)] /\ [prof |-> "none", sec |-> 0] \in InRoute(Pr)
      BY DEF InTyped, InStore, InRoute
    <3> QED BY <3>1, <3>2
  <2>3. CASE Li(Pr, Ki, Co)!Heal
    BY <2>3 DEF Li!Heal, InSeat, InTyped, InStore
  <2> QED BY <2>1, <2>2, <2>3
<1>5. InStore(Pr)'
  BY <1>1, <1>2, <1>3, <1>4 DEF InTyped, InStore
<1>6. cmd' \in InCmd(Pr)'
  BY <1>1 DEF InTyped, InCmd
<1> QED BY <1>1, <1>5, <1>6 DEF InTyped

LEMMA InInitial ==
  ASSUME NEW Pr, NEW Ki, NEW Co, Li(Pr, Ki, Co)!Init
  PROVE  InstallInv(Pr)
<1>1. /\ settings \in [InSeat -> Pr] /\ cfg = [s \in InSeat |-> "none"]
      /\ route = [s \in InSeat |-> [prof |-> "none", sec |-> 0]] /\ installIntent = route
      /\ hook = [h \in InHook |-> Li(Pr, Ki, Co)!NoHook] /\ next = 1 /\ installMinted = 0 /\ cmd = Li(Pr, Ki, Co)!Idle
  BY Zenon DEF Li!Init, Li!NoConfig, Li!NoRoute, Li!NoProf, Li!Hook, InSeat, InHook
<1>2. Li(Pr, Ki, Co)!NoHook \in [seat : InSeat, prof : {"none"}, sec : Nat, on : BOOLEAN]
  <2>1. (CHOOSE s \in InSeat : TRUE) \in InSeat
    BY DEF InSeat
  <2> QED BY <2>1 DEF Li!NoHook, Li!NoProf, InSeat
<1>3. InStore(Pr)
  BY <1>1, <1>2 DEF InStore, InRoute, InHooks
<1>4. cmd.kind = "none" /\ cmd.plan = <<>> /\ cmd.moves = {} /\ cmd \in InAsked(Pr)
  <2> DEFINE idle == Li(Pr, Ki, Co)!Idle
  <2>1. idle \in InAsked(Pr) /\ idle.plan = <<>> /\ idle.moves = {} /\ idle.kind = "none"
    BY InIdle
  <2>2. cmd = idle
    BY <1>1
  <2> HIDE DEF idle
  <2> QED BY <2>1, <2>2
<1>5. InTyped(Pr)
  BY <1>3, <1>4 DEF InTyped, InCmd, InAsked
<1> QED BY <1>4, <1>5 DEF InstallInv, InCommand

\* What is not a stage of a command begins one, ends it, or lies between two.
LEMMA InRests ==
  ASSUME NEW Pr, NEW Ki, NEW Co, Li(Pr, Ki, Co)!Next, cmd.kind = "none", cmd.plan = <<>>
  PROVE  \/ (\E b \in BOOLEAN : Li(Pr, Ki, Co)!StartInit(b) \/ Li(Pr, Ki, Co)!StartArm(b))
         \/ Li(Pr, Ki, Co)!StartApply \/ Li(Pr, Ki, Co)!StartRecreate \/ Li(Pr, Ki, Co)!StartEnsure
         \/ Li(Pr, Ki, Co)!StartUninstall
         \/ Li(Pr, Ki, Co)!Edit \/ Li(Pr, Ki, Co)!Erase \/ Li(Pr, Ki, Co)!Heal
BY Zenon
DEF Li!Next, Li!WriteConfig, Li!StepRoute, Li!WriteRoute, Li!RoutesDone, Li!RecordIntent, Li!WriteFails, Li!StepPost,
    Li!PostHook, Li!PostsDone, Li!StepMove, Li!MoveHook, Li!MovesDone, Li!StepFlip, Li!FlipHook, Li!FlipsDone,
    Li!StepDelete, Li!DeleteHook, Li!DeletesDone, Li!Unpost, Li!Unmove, Li!Unroute, Li!Unintent, Li!Unconfig,
    Li!Finish, Li!Crash, Li!In

LEMMA InWorkKeeps ==
  ASSUME InWorks
  PROVE  cmd'.kind = cmd.kind
BY Zenon
DEF InWorks, OnConfig, OnRoute, OnRoutesDone, OnIntent, OnFailure, OnPost, OnPostsDone, OnMove, OnMovesDone, OnFlip,
    OnFlipsDone, OnDelete, OnDeletesDone, OnUnpost, OnUnmove, OnUnroute, OnUnintent, OnUnconfig, InDone, InOn, InTo

LEMMA InStep ==
  ASSUME NEW Pr, NEW Ki, NEW Co, "none" \notin Pr, InstallInv(Pr), Li(Pr, Ki, Co)!Next
  PROVE  InstallInv(Pr)'
<1>0. InTyped(Pr) /\ InCommand(Pr)
  BY DEF InstallInv
<1>1. ASSUME InTyped(Pr)', cmd'.kind = "none" PROVE InstallInv(Pr)'
  BY <1>1 DEF InstallInv, InCommand
<1>2. CASE cmd.kind = "none"
  <2>1. cmd.plan = <<>>
    BY <1>0, <1>2 DEF InTyped
  <2>2. ASSUME NEW b \in BOOLEAN, Li(Pr, Ki, Co)!StartInit(b) PROVE InstallInv(Pr)'
    <3>1. InTyped(Pr)' /\ cmd'.kind = "init" /\ InInit(Pr)'
      BY <1>0, <2>2, InStartInit
    <3> QED BY <3>1 DEF InstallInv, InCommand
  <2>3. ASSUME NEW b \in BOOLEAN, Li(Pr, Ki, Co)!StartArm(b) PROVE InstallInv(Pr)'
    <3>1. InTyped(Pr)' /\ cmd'.kind \in {"arm", "pause"} /\ InFlip'
      BY <1>0, <2>3, InStartArm
    <3> QED BY <3>1 DEF InstallInv, InCommand
  <2>4. CASE Li(Pr, Ki, Co)!StartApply
    <3>1. InTyped(Pr)' /\ cmd'.kind = "apply" /\ InApply(Pr)'
      BY <1>0, <2>4, InStartApply
    <3> QED BY <3>1 DEF InstallInv, InCommand
  <2>5. CASE Li(Pr, Ki, Co)!StartRecreate
    <3>1. InTyped(Pr)' /\ cmd'.kind = "recreate" /\ InRecreate'
      BY <1>0, <2>5, InStartRecreate
    <3> QED BY <3>1 DEF InstallInv, InCommand
  <2>6. CASE Li(Pr, Ki, Co)!StartEnsure
    <3>1. InTyped(Pr)' /\ cmd'.kind = "ensure" /\ InEnsure(Pr)'
      BY <1>0, <2>6, InStartEnsure
    <3> QED BY <3>1 DEF InstallInv, InCommand
  <2>7. CASE Li(Pr, Ki, Co)!StartUninstall
    <3>1. InTyped(Pr)' /\ cmd'.kind = "uninstall" /\ InUninstall'
      BY <1>0, <2>7, InStartUninstall
    <3> QED BY <3>1 DEF InstallInv, InCommand
  <2>8. CASE Li(Pr, Ki, Co)!Edit \/ Li(Pr, Ki, Co)!Erase \/ Li(Pr, Ki, Co)!Heal
    <3>1. InTyped(Pr)' /\ cmd'.kind = "none"
      BY <1>0, <1>2, <2>8, InBetween
    <3> QED BY <1>1, <3>1
  <2> QED BY <1>2, <2>1, <2>2, <2>3, <2>4, <2>5, <2>6, <2>7, <2>8, InRests
<1>3. CASE Li(Pr, Ki, Co)!Finish \/ Li(Pr, Ki, Co)!Crash
  <2>1. InTyped(Pr)' /\ cmd'.kind = "none"
    BY <1>0, <1>3, InEnds
  <2> QED BY <1>1, <2>1
<1>4. CASE cmd.kind # "none" /\ ~Li(Pr, Ki, Co)!Finish /\ ~Li(Pr, Ki, Co)!Crash
  <2>1. InTyped(Pr)' /\ InWorks
    BY <1>0, <1>4, InStages
  <2>2. cmd'.kind = cmd.kind
    BY <2>1, InWorkKeeps
  <2>3. cmd.kind = "init" => InInit(Pr)'
    BY <1>0, <2>1, InInitStep DEF InCommand
  <2>4. cmd.kind \in {"arm", "pause"} => InFlip'
    BY <1>0, <2>1, InFlipStep DEF InCommand
  <2>5. cmd.kind = "uninstall" => InUninstall'
    BY <1>0, <2>1, InUninstallStep DEF InCommand
  <2>6. cmd.kind = "apply" => InApply(Pr)'
    BY <1>0, <2>1, InApplyStep DEF InCommand
  <2>7. cmd.kind = "recreate" => InRecreate'
    BY <1>0, <2>1, InRecreateStep DEF InCommand
  <2>8. cmd.kind = "ensure" => InEnsure(Pr)'
    BY <1>0, <2>1, InEnsureStep DEF InCommand
  <2> QED BY <2>1, <2>2, <2>3, <2>4, <2>5, <2>6, <2>7, <2>8 DEF InstallInv, InCommand
<1> QED BY <1>2, <1>3, <1>4

\* What a command that is over has left behind.
InTold ==
  cmd.plan = <<>> =>
    /\ cmd.kind = "arm" /\ cmd.res = "ok" => \A s \in InSeat : InHeard(s)
    /\ cmd.kind = "init" /\ cmd.res = "ok" /\ cmd.arm => \A s \in InSeat : InHeard(s)
    /\ cmd.kind = "pause" /\ cmd.res = "ok" => \A s \in InSeat : ~InHeard(s)
    /\ cmd.kind = "init" /\ cmd.res = "ok" =>
         \A s \in InSeat : \A h \in InAt(hook, s, route[s].prof) : hook[h].sec = route[s].sec
    /\ cmd.kind = "uninstall" /\ cmd.res = "ok" => InGone /\ InNoRoutes
    /\ cmd.kind \in {"init", "apply"} /\ cmd.res = "failed" => cfg = cmd.snap.cfg /\ InUnmoved /\ InRouteBack
    /\ cmd.kind \in {"apply", "ensure"} /\ cmd.res \in {"ok", "warn"} =>
         \A s \in InSeat : InHad(s) => \E h \in InAt(hook, s, route[s].prof) : hook[h].on
    /\ cmd.kind \in {"apply", "recreate"} /\ cmd.res = "ok" => InAgreed /\ InSigned

LEMMA InOver ==
  ASSUME NEW Pr, InstallInv(Pr)
  PROVE  InTold
<1> SUFFICES ASSUME cmd.plan = <<>> PROVE InTold
  BY DEF InTold
<1>0. InTyped(Pr) /\ InCommand(Pr)
  BY DEF InstallInv
<1>1. ASSUME cmd.kind = "init"
      PROVE  /\ cmd.res = "ok" => \A s \in InSeat : \A h \in InAt(hook, s, route[s].prof) : hook[h].sec = route[s].sec
             /\ cmd.res = "ok" /\ cmd.arm => \A s \in InSeat : InHeard(s)
             /\ cmd.res = "failed" => cfg = cmd.snap.cfg /\ InUnmoved /\ InRouteBack
  <2>1. InInit(Pr)
    BY <1>0, <1>1 DEF InCommand
  <2>2. cmd.res = "ok" =>
          /\ cfg = cmd.to
          /\ \A s \in InSeat : /\ route[s].prof = cmd.to[s]
                               /\ \A h \in InAt(hook, s, cmd.to[s]) : hook[h].sec = route[s].sec
                               /\ \E h \in InAt(hook, s, cmd.to[s]) : hook[h].on = cmd.arm
    BY <2>1 DEF InInit, InitBegun, InitFailed
  <2>3. cmd.res = "failed" => cfg = cmd.snap.cfg /\ InUnmoved /\ InRouteBack
    BY <2>1 DEF InInit, InitBegun, InitFailed
  <2>4. ASSUME cmd.res = "ok", cmd.arm, NEW s \in InSeat PROVE InHeard(s)
    <3>1. InWakes(s) = InAt(hook, s, cmd.to[s])
      BY <2>2, <2>4 DEF InWakes
    <3> QED BY <2>2, <2>4, <3>1 DEF InHeard
  <2> QED BY <2>2, <2>3, <2>4
<1>2. ASSUME cmd.kind \in {"arm", "pause"}, cmd.res = "ok" PROVE \A s \in InSeat : InHeard(s) <=> cmd.kind = "arm"
  <2>1. InFlip
    BY <1>0, <1>2 DEF InCommand
  <2>2. /\ cmd.arm = (cmd.kind = "arm")
        /\ cmd.plan = <<>> /\ cmd.res = "ok" => \A s \in InSeat : InHeard(s) <=> cmd.arm
    BY <2>1, <<>> # <<"flips">> DEF InFlip
  <2> QED BY <1>2, <2>2, Zenon
<1>3. ASSUME cmd.kind = "uninstall", cmd.res = "ok" PROVE InGone /\ InNoRoutes
  <2>1. InUninstall
    BY <1>0, <1>3 DEF InCommand
  <2> QED BY <1>3, <2>1 DEF InUninstall
<1>4. ASSUME cmd.kind = "apply"
      PROVE  /\ cmd.res = "failed" => cfg = cmd.snap.cfg /\ InUnmoved /\ InRouteBack
             /\ cmd.res \in {"ok", "warn"} => InAgreed /\ InSigned
             /\ cmd.res \in {"ok", "warn"} =>
                  \A s \in InSeat : InHad(s) => \E h \in InAt(hook, s, route[s].prof) : hook[h].on
  <2>1. InApply(Pr)
    BY <1>0, <1>4 DEF InCommand
  <2>2. /\ \A s \in InSeat \ cmd.seats : route[s] = cmd.snap.route[s]
        /\ cmd.res \in {"ok", "warn"} => InStays /\ InSigned /\ cmd.moves = {} /\ cfg = cmd.to /\ InAgreed
    BY <2>1 DEF InApply, ApplyBegun, ApplyFailed
  <2>3. InRouteBack <=> \A s \in InSeat : route[s] = cmd.snap.route[s]
    BY DEF InRouteBack
  <2>4. cmd.res = "failed" => cfg = cmd.snap.cfg /\ InUnmoved /\ InRouteBack
    BY <2>1 DEF InApply, ApplyBegun, ApplyFailed
  <2>5. ASSUME cmd.res \in {"ok", "warn"}, NEW s \in InSeat, InHad(s)
        PROVE  \E h \in InAt(hook, s, route[s].prof) : hook[h].on
    <3>1. InHas(s) /\ InSent(s) = route[s].prof
      BY <2>2, <2>5 DEF InStays, InSent, InAgreed
    <3> QED BY <2>2, <2>5, <3>1 DEF InHas, InAt
  <2> QED BY <2>2, <2>4, <2>5
<1>5. ASSUME cmd.kind = "ensure", cmd.res \in {"ok", "warn"}, NEW s \in InSeat, InHad(s)
      PROVE  \E h \in InAt(hook, s, route[s].prof) : hook[h].on
  <2>1. InEnsure(Pr)
    BY <1>0, <1>5 DEF InCommand
  <2>2. cmd.seats = {} /\ InStays /\ cmd.moves = {} /\ route = cmd.snap.route
    BY <1>5, <2>1 DEF InEnsure
  <2>3. InHas(s) /\ InSent(s) = route[s].prof
    BY <1>5, <2>2 DEF InStays, InSent
  <2> QED BY <2>2, <2>3 DEF InHas, InAt
<1>6. ASSUME cmd.kind = "recreate", cmd.res = "ok" PROVE InAgreed /\ InSigned
  <2>1. InRecreate
    BY <1>0, <1>6 DEF InCommand
  <2> QED BY <1>6, <2>1 DEF InRecreate
<1> QED BY <1>1, <1>2, <1>3, <1>4, <1>5, <1>6 DEF InTold

\* The two instances of the installation are of one form.
LEMMA InstallLink ==
  /\ Install!Init => Li(FewProfs, {"init", "arm", "pause", "recreate", "uninstall"}, InstallCommands)!Init
  /\ Install!Next => Li(FewProfs, {"init", "arm", "pause", "recreate", "uninstall"}, InstallCommands)!Next
BY Zenon
  DEF Install!Init, Li!Init, Install!Next, Li!Next, Install!StepRoute, Li!StepRoute,
      Install!StepPost, Li!StepPost, Install!StepMove, Li!StepMove, Install!StepFlip, Li!StepFlip,
      Install!StepDelete, Li!StepDelete, Install!StartInit, Li!StartInit, Install!InitOver,
      Li!InitOver, Install!StartArm, Li!StartArm, Install!StartApply, Li!StartApply,
      Install!StartRecreate, Li!StartRecreate, Install!StartEnsure, Li!StartEnsure,
      Install!StartUninstall, Li!StartUninstall, Install!Start, Li!Start, Install!WriteConfig,
      Li!WriteConfig, Install!WriteRoute, Li!WriteRoute, Install!RoutesDone, Li!RoutesDone,
      Install!RecordIntent, Li!RecordIntent, Install!WriteFails, Li!WriteFails, Install!PostHook,
      Li!PostHook, Install!PostsDone, Li!PostsDone, Install!MoveHook, Li!MoveHook,
      Install!MovesDone, Li!MovesDone, Install!FlipHook, Li!FlipHook, Install!FlipsDone,
      Li!FlipsDone, Install!DeleteHook, Li!DeleteHook, Install!DeletesDone, Li!DeletesDone,
      Install!DeletesGo, Li!DeletesGo, Install!Unpost, Li!Unpost, Install!Unmove, Li!Unmove,
      Install!Unroute, Li!Unroute, Install!Unintent, Li!Unintent, Install!Unconfig, Li!Unconfig,
      Install!Finish, Li!Finish, Install!Crash, Li!Crash, Install!Edit, Li!Edit, Install!Erase,
      Li!Erase, Install!Heal, Li!Heal, Install!In, Li!In, Install!Onward, Li!Onward, Install!Undo,
      Li!Undo, Install!Fault, Li!Fault, Install!Sound, Li!Sound, Install!Failed, Li!Failed,
      Install!Patched, Li!Patched, Install!Tried, Li!Tried, Install!Confirmed, Li!Confirmed,
      Install!Dirty, Li!Dirty, Install!Done, Li!Done, Install!Flips, Li!Flips, Install!Missing,
      Li!Missing, Install!Pushed, Li!Pushed, Install!Moves, Li!Moves, Install!Explained,
      Li!Explained, Install!Binds, Li!Binds, Install!Moved, Li!Moved, Install!Owned, Li!Owned,
      Install!Target, Li!Target, Install!Wakes, Li!Wakes, Install!At, Li!At, Install!Of, Li!Of,
      Install!Live, Li!Live, Install!Least, Li!Least, Install!KeepOne, Li!KeepOne, Install!Idle,
      Li!Idle, Install!Snapshot, Li!Snapshot, Install!bounds, Li!bounds, Install!Hook, Li!Hook,
      Install!NoProf, Li!NoProf, Install!NoRoute, Li!NoRoute, Install!NoHook, Li!NoHook,
      Install!NoConfig, Li!NoConfig

LEMMA MovedLink ==
  /\ Moved!Init => Li(Profs, {"init", "apply", "recreate", "ensure"}, MoveCommands)!Init
  /\ Moved!Next => Li(Profs, {"init", "apply", "recreate", "ensure"}, MoveCommands)!Next
BY Zenon
  DEF Moved!Init, Li!Init, Moved!Next, Li!Next, Moved!StepRoute, Li!StepRoute, Moved!StepPost,
      Li!StepPost, Moved!StepMove, Li!StepMove, Moved!StepFlip, Li!StepFlip, Moved!StepDelete,
      Li!StepDelete, Moved!StartInit, Li!StartInit, Moved!InitOver, Li!InitOver, Moved!StartArm,
      Li!StartArm, Moved!StartApply, Li!StartApply, Moved!StartRecreate, Li!StartRecreate,
      Moved!StartEnsure, Li!StartEnsure, Moved!StartUninstall, Li!StartUninstall, Moved!Start,
      Li!Start, Moved!WriteConfig, Li!WriteConfig, Moved!WriteRoute, Li!WriteRoute,
      Moved!RoutesDone, Li!RoutesDone, Moved!RecordIntent, Li!RecordIntent, Moved!WriteFails,
      Li!WriteFails, Moved!PostHook, Li!PostHook, Moved!PostsDone, Li!PostsDone, Moved!MoveHook,
      Li!MoveHook, Moved!MovesDone, Li!MovesDone, Moved!FlipHook, Li!FlipHook, Moved!FlipsDone,
      Li!FlipsDone, Moved!DeleteHook, Li!DeleteHook, Moved!DeletesDone, Li!DeletesDone,
      Moved!DeletesGo, Li!DeletesGo, Moved!Unpost, Li!Unpost, Moved!Unmove, Li!Unmove,
      Moved!Unroute, Li!Unroute, Moved!Unintent, Li!Unintent, Moved!Unconfig, Li!Unconfig,
      Moved!Finish, Li!Finish, Moved!Crash, Li!Crash, Moved!Edit, Li!Edit, Moved!Erase, Li!Erase,
      Moved!Heal, Li!Heal, Moved!In, Li!In, Moved!Onward, Li!Onward, Moved!Undo, Li!Undo,
      Moved!Fault, Li!Fault, Moved!Sound, Li!Sound, Moved!Failed, Li!Failed, Moved!Patched,
      Li!Patched, Moved!Tried, Li!Tried, Moved!Confirmed, Li!Confirmed, Moved!Dirty, Li!Dirty,
      Moved!Done, Li!Done, Moved!Flips, Li!Flips, Moved!Missing, Li!Missing, Moved!Pushed,
      Li!Pushed, Moved!Moves, Li!Moves, Moved!Explained, Li!Explained, Moved!Binds, Li!Binds,
      Moved!Moved, Li!Moved, Moved!Owned, Li!Owned, Moved!Target, Li!Target, Moved!Wakes, Li!Wakes,
      Moved!At, Li!At, Moved!Of, Li!Of, Moved!Live, Li!Live, Moved!Least, Li!Least, Moved!KeepOne,
      Li!KeepOne, Moved!Idle, Li!Idle, Moved!Snapshot, Li!Snapshot, Moved!bounds, Li!bounds,
      Moved!Hook, Li!Hook, Moved!NoProf, Li!NoProf, Moved!NoRoute, Li!NoRoute, Moved!NoHook,
      Li!NoHook, Moved!NoConfig, Li!NoConfig

\* A command says how it ended when its plan is done.
LEMMA InSaid ==
  ASSUME InTold
  PROVE  /\ Install!Says({"arm"}, "ok") \/ (Install!Says({"init"}, "ok") /\ cmd.arm) =>
              \A s \in {"reviewer", "fixer"} : Install!Hears(s)
         /\ Install!Says({"pause"}, "ok") => \A s \in {"reviewer", "fixer"} : ~Install!Hears(s)
         /\ Install!Says({"init"}, "ok") =>
              \A s \in {"reviewer", "fixer"} : \A h \in Install!At(s, route[s].prof) : hook[h].sec = route[s].sec
         /\ Install!Says({"uninstall"}, "ok") =>
              \A s \in {"reviewer", "fixer"} : /\ Install!At(s, cmd.snap.route[s].prof) = {}
                                               /\ Install!At(s, cmd.snap.cfg[s]) = {} /\ route[s] = Install!NoRoute
         /\ Moved!Says({"init", "apply"}, "failed") =>
              /\ cfg = cmd.snap.cfg /\ \A h \in Moved!Hook : hook[h].prof = cmd.snap.hook[h].prof
              /\ \A s \in {"reviewer", "fixer"} : route[s] = cmd.snap.route[s]
         /\ Moved!Says({"apply", "ensure"}, "ok") \/ Moved!Says({"apply", "ensure"}, "warn") =>
              \A s \in {"reviewer", "fixer"} :
                (\E h \in Moved!Hook : cmd.snap.hook[h].on /\ cmd.snap.hook[h].seat = s
                                       /\ cmd.snap.hook[h].prof = cmd.snap.route[s].prof
                                       /\ cmd.snap.route[s].prof # Moved!NoProf)
                => \E h \in Moved!At(s, route[s].prof) : hook[h].on
         /\ Moved!Says({"apply", "recreate"}, "ok") =>
              /\ \A s \in cmd.seats : route[s].prof = cfg[s] /\ installIntent[s] = route[s]
              /\ \A m \in cmd.tried : hook[m.hook].sec = route[m.seat].sec
<1>1. /\ \A ks, r : Install!Says(ks, r) => cmd.kind \in ks /\ cmd.res = r /\ cmd.plan = <<>>
      /\ \A ks, r : Moved!Says(ks, r) => cmd.kind \in ks /\ cmd.res = r /\ cmd.plan = <<>>
  BY Zenon DEF Install!Says, Install!Finish, Moved!Says, Moved!Finish
<1>2. /\ \A s, p : Install!At(s, p) = InAt(hook, s, p)
      /\ \A s, p : Moved!At(s, p) = InAt(hook, s, p)
  BY DEF Install!At, Install!Of, Install!Live, Install!Hook, Install!NoProf, Moved!At, Moved!Of, Moved!Live,
         Moved!Hook, Moved!NoProf, InAt, InHook
<1>3. \A s : Install!Hears(s) <=> InHeard(s)
  <2>1. \A s : Install!Wakes(s) = InWakes(s)
    BY <1>2, Zenon DEF Install!Wakes, Install!Target, Install!NoProf, InWakes
  <2>2. \A s : \A h \in InWakes(s) : h \in Install!Hook
    BY DEF InWakes, InAt, InHook, Install!Hook
  <2> QED BY <2>1, <2>2, Zenon DEF Install!Hears, Install!Serves, InHeard
<1>4. Moved!Hook = InHook /\ Moved!NoProf = "none" /\ Install!NoRoute = [prof |-> "none", sec |-> 0]
  BY DEF Moved!Hook, InHook, Moved!NoProf, Install!NoRoute, Install!NoProf
<1>5. ASSUME Install!Says({"arm"}, "ok") \/ (Install!Says({"init"}, "ok") /\ cmd.arm)
      PROVE  \A s \in {"reviewer", "fixer"} : Install!Hears(s)
  <2>1. cmd.plan = <<>> /\ cmd.res = "ok" /\ (cmd.kind = "arm" \/ (cmd.kind = "init" /\ cmd.arm))
    <3>1. CASE Install!Says({"arm"}, "ok")
      BY <1>1, <3>1
    <3>2. CASE Install!Says({"init"}, "ok") /\ cmd.arm
      <4>1. cmd.plan = <<>> /\ cmd.res = "ok" /\ cmd.kind = "init"
        BY <1>1, <3>2
      <4> QED BY <3>2, <4>1, Zenon
    <3> QED BY <1>5, <3>1, <3>2
  <2> QED BY <1>3, <2>1 DEF InTold, InSeat
<1>6. ASSUME Install!Says({"pause"}, "ok") PROVE \A s \in {"reviewer", "fixer"} : ~Install!Hears(s)
  BY <1>1, <1>3, <1>6 DEF InTold, InSeat
<1>7. ASSUME Install!Says({"init"}, "ok"), NEW s \in InSeat, NEW h \in Install!At(s, route[s].prof)
      PROVE  hook[h].sec = route[s].sec
  <2>1. cmd.plan = <<>> /\ cmd.res = "ok" /\ cmd.kind = "init"
    BY <1>1, <1>7
  <2> QED BY <1>2, <1>7, <2>1 DEF InTold
<1>8. ASSUME Install!Says({"uninstall"}, "ok"), NEW s \in InSeat
      PROVE  /\ Install!At(s, cmd.snap.route[s].prof) = {} /\ Install!At(s, cmd.snap.cfg[s]) = {}
             /\ route[s] = Install!NoRoute
  <2>1. cmd.plan = <<>> /\ cmd.res = "ok" /\ cmd.kind = "uninstall"
    BY <1>1, <1>8
  <2> QED BY <1>2, <1>4, <1>8, <2>1 DEF InTold, InGone, InNoRoutes
<1>9. ASSUME Moved!Says({"init", "apply"}, "failed")
      PROVE  /\ cfg = cmd.snap.cfg /\ \A h \in Moved!Hook : hook[h].prof = cmd.snap.hook[h].prof
             /\ \A s \in InSeat : route[s] = cmd.snap.route[s]
  <2>1. cmd.plan = <<>> /\ cmd.res = "failed" /\ cmd.kind \in {"init", "apply"}
    BY <1>1, <1>9
  <2> QED BY <1>4, <2>1 DEF InTold, InUnmoved, InRouteBack
<1>10. ASSUME Moved!Says({"apply", "ensure"}, "ok") \/ Moved!Says({"apply", "ensure"}, "warn"), NEW s \in InSeat,
              NEW h \in InHook, cmd.snap.hook[h].on, cmd.snap.hook[h].seat = s,
              cmd.snap.hook[h].prof = cmd.snap.route[s].prof, cmd.snap.route[s].prof # "none"
       PROVE  \E g \in Moved!At(s, route[s].prof) : hook[g].on
  <2>1. cmd.plan = <<>> /\ cmd.res \in {"ok", "warn"} /\ cmd.kind \in {"apply", "ensure"}
    BY <1>1, <1>10
  <2>2. InHad(s)
    BY <1>10 DEF InHad, InAt
  <2>3. \E g \in InAt(hook, s, route[s].prof) : hook[g].on
    BY <1>10, <2>1, <2>2 DEF InTold
  <2> QED BY <1>2, <2>3
<1>11. ASSUME Moved!Says({"apply", "recreate"}, "ok")
       PROVE  /\ \A s \in cmd.seats : route[s].prof = cfg[s] /\ installIntent[s] = route[s]
              /\ \A m \in cmd.tried : hook[m.hook].sec = route[m.seat].sec
  <2>1. cmd.plan = <<>> /\ cmd.res = "ok" /\ cmd.kind \in {"apply", "recreate"}
    BY <1>1, <1>11
  <2> QED BY <2>1 DEF InTold, InAgreed, InSigned
<1>12. InSeat = {"reviewer", "fixer"}
  BY DEF InSeat
<1>13. \A s \in InSeat :
         Moved!Says({"apply", "ensure"}, "ok") \/ Moved!Says({"apply", "ensure"}, "warn") =>
           ((\E h \in Moved!Hook : cmd.snap.hook[h].on /\ cmd.snap.hook[h].seat = s
                                   /\ cmd.snap.hook[h].prof = cmd.snap.route[s].prof
                                   /\ cmd.snap.route[s].prof # Moved!NoProf)
            => \E h \in Moved!At(s, route[s].prof) : hook[h].on)
  BY <1>4, <1>10
<1> HIDE DEF InTold
<1> QED BY <1>5, <1>6, <1>7, <1>8, <1>9, <1>11, <1>12, <1>13, Zenon

LEMMA InSame ==
  ASSUME NEW Pr, InstallInv(Pr), UNCHANGED installVars
  PROVE  InstallInv(Pr)'
<1>0. UNCHANGED <<settings, cfg, route, installIntent, hook, next, installMinted, cmd>>
  BY DEF installVars
<1>1. InTyped(Pr)'
  BY <1>0 DEF InstallInv, InTyped, InStore, InSnapped, InCmd
<1>2. InUnmoved' = InUnmoved /\ InRouteBack' = InRouteBack
  BY <1>0 DEF InUnmoved, InRouteBack
<1>3. InInit(Pr)' = InInit(Pr)
  BY <1>0, <1>2 DEF InInit, InitBegun, InitFailed
<1>4. InFlip' = InFlip
  BY <1>0 DEF InFlip, InWakes, InOurs, InHeard
<1>5. InUninstall' = InUninstall
  BY <1>0 DEF InUninstall, InGone, InNoRoutes
<1>6. InMoves' = InMoves /\ InSigned' = InSigned /\ InStays' = InStays /\ InRouted' = InRouted /\ InAgreed' = InAgreed
  BY <1>0 DEF InMoves, InSigned, InStays, InSent, InHad, InHas, InRouted, InAgreed
<1>7. InApply(Pr)' = InApply(Pr)
  BY <1>0, <1>2, <1>6 DEF InApply, ApplyBegun, ApplyFailed
<1>8. InRecreate' = InRecreate /\ InEnsure(Pr)' = InEnsure(Pr)
  BY <1>0, <1>6 DEF InRecreate, InEnsure
<1> QED BY <1>0, <1>1, <1>3, <1>4, <1>5, <1>7, <1>8 DEF InstallInv, InCommand

\* However calls fail, answers are lost and commands die, where commands run one at a time and heals,
\* edits and erased routes come only between them (a heal over an uninstall is route_intent.py:273):
\* an init, arm, pause or uninstall that says it succeeded has done what it is about, and an init or
\* apply that says it put everything back has; an apply, ensure or recreate keeps armed what was and
\* leaves the routes as the config has them (cmd_init, _set_hooks, cmd_uninstall, _apply, _ensure_hooks).
THEOREM InstallAsSaidHolds == PartSpec => InstallAsSaid
<1> DEFINE Ki == {"init", "arm", "pause", "recreate", "uninstall"}
           MoveKi == {"init", "apply", "recreate", "ensure"}
           Inv == IF part = "profile_change" THEN InstallInv(Profs) ELSE InstallInv(FewProfs)
<1>0. "none" \notin FewProfs /\ "none" \notin Profs
  BY HostAssumption DEF Install!LoopInstallAssumption, Install!NoProf, Moved!LoopInstallAssumption, Moved!NoProf
<1>1. PartInit => Inv
  <2> SUFFICES ASSUME PartInit PROVE Inv
    OBVIOUS
  <2>1. CASE part = "profile_change"
    <3>1. Li(Profs, MoveKi, MoveCommands)!Init
      BY <2>1, MovedLink DEF PartInit
    <3> QED BY <2>1, <3>1, InInitial
  <2>2. CASE part # "profile_change"
    <3>1. Li(FewProfs, Ki, InstallCommands)!Init
      BY <2>2, InstallLink DEF PartInit
    <3> QED BY <2>2, <3>1, InInitial
  <2> QED BY <2>1, <2>2
<1>2. Inv /\ [PartNext]_partVars => Inv'
  <2> SUFFICES ASSUME Inv, [PartNext]_partVars PROVE Inv'
    OBVIOUS
  <2>1. part' = part
    BY DEF PartNext, partVars
  <2>2. CASE UNCHANGED installVars
    BY <2>1, <2>2, InSame
  <2>3. CASE part = "profile_change" /\ Moved!Next
    BY <1>0, <2>1, <2>3, MovedLink, InStep
  <2>4. CASE part = "install" /\ Install!Next
    BY <1>0, <2>1, <2>4, InstallLink, InStep
  <2> QED BY <2>2, <2>3, <2>4 DEF PartNext, partVars
<1>3. Inv => InTold
  BY InOver
<1>4. Inv => [Install!Says({"arm"}, "ok") \/ (Install!Says({"init"}, "ok") /\ cmd.arm) =>
                \A s \in {"reviewer", "fixer"} : Install!Hears(s)]_(Install!vars)
  BY <1>3, InSaid
<1>5. Inv => [Install!Says({"pause"}, "ok") => \A s \in {"reviewer", "fixer"} : ~Install!Hears(s)]_(Install!vars)
  BY <1>3, InSaid
<1>6. Inv => [Install!Says({"init"}, "ok") =>
                \A s \in {"reviewer", "fixer"} :
                  \A h \in Install!At(s, route[s].prof) : hook[h].sec = route[s].sec]_(Install!vars)
  BY <1>3, InSaid
<1>7. Inv => [Install!Says({"uninstall"}, "ok") =>
                \A s \in {"reviewer", "fixer"} :
                  Install!At(s, cmd.snap.route[s].prof) = {} /\ Install!At(s, cmd.snap.cfg[s]) = {}
                  /\ route[s] = Install!NoRoute]_(Install!vars)
  BY <1>3, InSaid
<1>8. Inv => [Moved!Says({"init", "apply"}, "failed") =>
                /\ cfg = cmd.snap.cfg /\ \A h \in Moved!Hook : hook[h].prof = cmd.snap.hook[h].prof
                /\ \A s \in {"reviewer", "fixer"} : route[s] = cmd.snap.route[s]]_(Moved!vars)
  BY <1>3, InSaid
<1>9. Inv => [Moved!Says({"apply", "ensure"}, "ok") \/ Moved!Says({"apply", "ensure"}, "warn") =>
                \A s \in {"reviewer", "fixer"} :
                  (\E h \in Moved!Hook : cmd.snap.hook[h].on /\ cmd.snap.hook[h].seat = s
                                         /\ cmd.snap.hook[h].prof = cmd.snap.route[s].prof
                                         /\ cmd.snap.route[s].prof # Moved!NoProf)
                  => \E h \in Moved!At(s, route[s].prof) : hook[h].on]_(Moved!vars)
  BY <1>3, InSaid
<1>10. Inv => [Moved!Says({"apply", "recreate"}, "ok") =>
                 /\ \A s \in cmd.seats : route[s].prof = cfg[s] /\ installIntent[s] = route[s]
                 /\ \A m \in cmd.tried : hook[m.hook].sec = route[m.seat].sec]_(Moved!vars)
  BY <1>3, InSaid
<1> HIDE DEF Inv
<1> QED
  BY <1>1, <1>2, <1>4, <1>5, <1>6, <1>7, <1>8, <1>9, <1>10, PTL
  DEF PartSpec, InstallAsSaid, Install!Armed, Install!Paused, Install!Fresh, Install!Gone, Moved!Restored,
      Moved!StaysArmed, Moved!Agrees
=============================================================================
