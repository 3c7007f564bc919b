--------------------------- MODULE ReviewLoopProofs ---------------------------
(***************************************************************************)
(* The loop's rounds, for every number of heads, of gates and every cap:   *)
(* while nobody dismisses a verdict the fixer is ordered to work fewer     *)
(* times than the cap has verdicts.                                        *)
(*                                                                         *)
(* A gate counts long before it commits, so the count that it holds says   *)
(* little of the ledger at its commit.  What does is the set of the heads  *)
(* that are ordered or that some gate may still order: it lies within the  *)
(* heads with a verdict, which only grow, and each gate that joined it     *)
(* counted fewer of those than the cap.                                    *)
(*                                                                         *)
(* Then the chain of findings on fixes, and retargeted pull requests.      *)
(***************************************************************************)
EXTENDS MCEvents, FiniteSetTheorems, TLAPS

\* Gates that may still order a fix: they counted fewer rounds than the cap.
MayOrder(g) == /\ gate[g].kind # "review"
               /\ \/ gate[g].at = "local" /\ gate[g].rounds < Cap
                  \/ gate[g].at = "commit"
Committed == Ordered \cup {gate[g].head : g \in {k \in Gate : MayOrder(k)}}

RoundsInv == TypeOK /\ Committed \subseteq changes /\ Cardinality(Committed) < Cap

-----------------------------------------------------------------------------
LEMMA Finite ==
  ASSUME TypeOK
  PROVE  /\ IsFiniteSet(changes)
         /\ \A S \in SUBSET changes : /\ IsFiniteSet(S) /\ Cardinality(S) \in Nat
                                     /\ Cardinality(S) <= Cardinality(changes)
<1>1. IsFiniteSet(Head)
  BY FS_Interval, ReviewLoopAssumption DEF Head
<1>2. IsFiniteSet(changes)
  BY <1>1, FS_Subset DEF TypeOK
<1> QED
  BY <1>2, FS_Subset, FS_CardinalityType

\* The verdict at the head is counted once.
LEMMA RoundsCounted ==
  ASSUME TypeOK, NEW h \in changes
  PROVE  Cardinality(changes \ {h}) + 1 = Cardinality(changes)
BY Finite, FS_RemoveElement, FS_CardinalityType

\* Fewer heads cannot be more than the cap allows.
LEMMA Fewer ==
  ASSUME RoundsInv, TypeOK', changes \subseteq changes', Committed' \subseteq Committed
  PROVE  RoundsInv'
<1>1. IsFiniteSet(Committed) /\ Cardinality(Committed) \in Nat
  BY Finite DEF RoundsInv
<1>2. IsFiniteSet(Committed') /\ Cardinality(Committed') \in Nat
      /\ Cardinality(Committed') <= Cardinality(Committed)
  BY <1>1, FS_Subset, FS_CardinalityType
<1> QED
  BY <1>1, <1>2, ReviewLoopAssumption DEF RoundsInv

-----------------------------------------------------------------------------
LEMMA RoundsInit == Init => RoundsInv
<1> SUFFICES ASSUME Init PROVE RoundsInv
  OBVIOUS
<1>1. TypeOK
  <2>1. 1 \in Head /\ 0 \in 0..MaxHead
    BY ReviewLoopAssumption DEF Head
  <2>2. gate \in [Gate -> [kind : {"review", "fix", "approval"}, head : Head, again : BOOLEAN,
                  at : {"out", "pr", "reviews", "local", "commit"}, rounds : Nat]]
    BY <2>1 DEF Init, OutGate
  <2> QED
    BY <2>1, <2>2 DEF Init, TypeOK, Turn
<1>2. Committed = {}
  BY DEF Init, Committed, Ordered, MayOrder, OutGate
<1> QED
  BY <1>1, <1>2, FS_EmptySet, ReviewLoopAssumption DEF RoundsInv

GateState == [kind : {"review", "fix", "approval"}, head : Head, again : BOOLEAN,
              at : {"out", "pr", "reviews", "local", "commit"}, rounds : Nat]
LEMMA OutTyped == OutGate \in GateState
BY ReviewLoopAssumption DEF OutGate, GateState, Head

LEMMA GateTyped ==
  ASSUME TypeOK, NEW g \in Gate, NEW at \in {"out", "pr", "reviews", "local", "commit"},
         NEW rounds \in Nat, NEW again \in BOOLEAN
  PROVE  /\ Out(g) => gate' \in [Gate -> GateState]
         /\ Goto(g, at) => gate' \in [Gate -> GateState]
         /\ gate' = [gate EXCEPT ![g].at = at, ![g].rounds = rounds] => gate' \in [Gate -> GateState]
         /\ gate' = [gate EXCEPT ![g].at = at, ![g].rounds = rounds, ![g].again = again]
              => gate' \in [Gate -> GateState]
<1>1. gate \in [Gate -> GateState]
  BY DEF TypeOK, GateState
<1>2. /\ [gate[g] EXCEPT !.at = at] \in GateState
      /\ [gate[g] EXCEPT !.at = at, !.rounds = rounds] \in GateState
      /\ [gate[g] EXCEPT !.at = at, !.rounds = rounds, !.again = again] \in GateState
  BY <1>1 DEF GateState
<1> QED
  BY <1>1, <1>2, OutTyped DEF Out, Goto

LEMMA TypeStep == TypeOK /\ [Next]_vars => TypeOK'
<1> SUFFICES ASSUME TypeOK, [Next]_vars PROVE TypeOK'
  OBVIOUS
<1> USE ReviewLoopAssumption DEF hub, loop, ledger
<1>0. Cardinality(changes) \in Nat /\ \A h \in Head : Cardinality(changes \ {h}) + 1 \in Nat
  BY Finite
\* A step of a gate that only reads.
<1>1. ASSUME UNCHANGED <<hub, human, granted, ledger>>, gate' \in [Gate -> GateState],
             marker' \in 0..MaxHead, escalated' \in BOOLEAN, told' \subseteq Head
      PROVE  TypeOK'
  BY <1>1 DEF TypeOK, GateState
<1>2. CASE Push \/ Close \/ Escalate
  <2>0. head \in 1..MaxHead /\ open \in BOOLEAN /\ marker \in 0..MaxHead /\ escalated \in BOOLEAN
    BY DEF TypeOK, Head
  <2>1. head' \in Head /\ open' \in BOOLEAN
    <3>1. CASE Push
      BY <2>0, <3>1 DEF Push, Head
    <3>2. CASE Close \/ Escalate
      BY <2>0, <3>2 DEF Close, Escalate, Head
    <3> QED
      BY <1>2, <3>1, <3>2
  <2>2. marker' \in 0..MaxHead /\ escalated' \in BOOLEAN
    <3>1. CASE Push \/ Close
      BY <2>0, <3>1 DEF Push, Close
    <3>2. CASE Escalate
      BY <2>0, <3>2 DEF Escalate
    <3> QED
      BY <1>2, <3>1, <3>2
  <2>3. UNCHANGED <<changes, approved, dismissed, human, granted, told, ledger, gate>>
    BY <1>2 DEF Push, Close, Escalate
  <2> QED
    BY <2>1, <2>2, <2>3 DEF TypeOK
<1>3. CASE Grant
  BY <1>0, <1>3 DEF Grant, Verdicts, TypeOK
<1>4. ASSUME NEW h \in Head, Dismiss(h) PROVE TypeOK'
  BY <1>4 DEF Dismiss, TypeOK
<1>5. ASSUME NEW h \in Head, EndFix(h) PROVE TypeOK'
  <2>1. head' \in Head
    BY <1>5 DEF EndFix, TypeOK, Head
  <2>2. fix' \in [Head -> Turn]
    BY <1>5 DEF EndFix, TypeOK, Turn
  <2>3. UNCHANGED <<open, changes, approved, dismissed, loop, review, gate>>
    BY <1>5 DEF EndFix
  <2> QED
    BY <2>1, <2>2, <2>3 DEF TypeOK
<1>6. ASSUME NEW t \in Head \X BOOLEAN, CheckReview(t) \/ EndReview(t) PROVE TypeOK'
  <2>1. review' \in [Head \X BOOLEAN -> Turn]
    BY <1>6 DEF CheckReview, EndReview, TypeOK, Turn
  <2>2. /\ changes' \subseteq Head /\ approved' \subseteq Head /\ human' \subseteq Head
        /\ UNCHANGED <<head, open, dismissed, marker, escalated, granted, told, fix, gate>>
    BY <1>6 DEF CheckReview, EndReview, TypeOK
  <2> QED
    BY <2>1, <2>2 DEF TypeOK
<1>7. ASSUME NEW g \in Gate, NEW kind \in {"review", "fix", "approval"}, NEW h \in Head,
             Start(g, kind, h)
      PROVE  TypeOK'
  <2>1. [OutGate EXCEPT !.kind = kind, !.at = "pr", !.head = h] \in GateState
    BY OutTyped DEF GateState
  <2>2. gate' \in [Gate -> GateState]
    BY <1>7, <2>1 DEF Start, TypeOK, GateState
  <2> QED
    BY <1>7, <2>2 DEF Start, TypeOK, GateState
<1>8. ASSUME NEW g \in Gate, \/ ReadPR(g) \/ ReadForApproval(g) \/ ReadForReview(g) \/ ReadForFix(g)
      PROVE  TypeOK'
  <2>1. gate[g].head \in Head /\ (gate[g].head \in dismissed) \in BOOLEAN
    BY DEF TypeOK
  <2>2. CASE ReadPR(g)
    BY <1>1, <2>2, GateTyped DEF ReadPR, TypeOK
  <2>3. CASE ReadForApproval(g)
    BY <1>1, <2>1, <2>3, GateTyped DEF ReadForApproval, TypeOK
  <2>4. CASE ReadForReview(g)
    <3>1. gate' \in [Gate -> GateState]
      BY <1>0, <2>1, <2>4, GateTyped DEF ReadForReview, Verdicts
    <3> QED
      BY <1>1, <2>4, <3>1 DEF ReadForReview, TypeOK
  <2>5. CASE ReadForFix(g)
    <3>1. gate' \in [Gate -> GateState]
      BY <1>0, <2>1, <2>5, GateTyped DEF ReadForFix
    <3> QED
      BY <1>1, <2>5, <3>1 DEF ReadForFix, TypeOK
  <2> QED
    BY <1>8, <2>2, <2>3, <2>4, <2>5
<1>9. ASSUME NEW g \in Gate, JudgeReview(g) \/ JudgeFix(g) PROVE TypeOK'
  <2>1. gate[g].head \in Head /\ gate[g].head \in 0..MaxHead
    BY DEF TypeOK, Head
  <2>2. gate' \in [Gate -> GateState]
    BY <1>9, GateTyped DEF JudgeReview, JudgeFix
  <2>3. marker' \in 0..MaxHead /\ escalated' \in BOOLEAN /\ told' \subseteq Head
    BY <1>9, <2>1 DEF JudgeReview, JudgeFix, Park, TypeOK
  <2> QED
    BY <1>1, <1>9, <2>2, <2>3 DEF JudgeReview, JudgeFix
<1>10. ASSUME NEW g \in Gate, Commit(g) PROVE TypeOK'
  <2>1. review' \in [Head \X BOOLEAN -> Turn] /\ fix' \in [Head -> Turn]
    BY <1>10 DEF Commit, TypeOK, Turn
  <2>2. gate' \in [Gate -> GateState]
    BY <1>10, GateTyped DEF Commit
  <2> QED
    BY <1>10, <2>1, <2>2 DEF Commit, TypeOK, GateState
<1>11. CASE UNCHANGED vars
  BY <1>11 DEF vars, TypeOK
<1> QED
  BY <1>2, <1>3, <1>4, <1>5, <1>6, <1>7, <1>8, <1>9, <1>10, <1>11 DEF Next

-----------------------------------------------------------------------------
LEMMA RoundsStep ==
  ASSUME "dismiss" \notin Persons
  PROVE  RoundsInv /\ [Next]_vars => RoundsInv'
<1> SUFFICES ASSUME RoundsInv, [Next]_vars PROVE RoundsInv'
  OBVIOUS
<1>0. TypeOK /\ TypeOK'
  BY TypeStep DEF RoundsInv
\* Steps that touch neither the gates nor the fixer's turns.
<1>1. ASSUME UNCHANGED <<gate, fix>>, changes \subseteq changes' PROVE RoundsInv'
  <2>1. Committed' = Committed
    BY <1>1 DEF Committed, Ordered, MayOrder
  <2> QED
    BY <1>0, <1>1, <2>1, Fewer
<1>2. CASE Push \/ Close \/ Grant \/ Escalate \/ UNCHANGED vars
  BY <1>1, <1>2 DEF Push, Close, Grant, Escalate, vars, hub, ledger
<1>3. ASSUME NEW h \in Head, Dismiss(h) PROVE FALSE
  BY <1>3 DEF Dismiss
<1>4. ASSUME NEW t \in Head \X BOOLEAN, CheckReview(t) \/ EndReview(t) PROVE RoundsInv'
  BY <1>1, <1>4 DEF CheckReview, EndReview, hub
\* A turn that was ordered ends: it stays ordered.
<1>5. ASSUME NEW h \in Head, EndFix(h) PROVE RoundsInv'
  <2>1. UNCHANGED <<gate, changes>> /\ fix[h] = "run"
    BY <1>5 DEF EndFix
  <2>2. \A k \in Head : fix'[k] # "none" => fix[k] # "none"
    BY <1>0, <1>5 DEF EndFix, TypeOK
  <2>3. Committed' \subseteq Committed
    BY <2>1, <2>2 DEF Committed, Ordered, MayOrder
  <2> QED
    BY <1>0, <2>1, <2>3, Fewer
\* A gate moves, and orders no more than before.
<1>6. ASSUME NEW g \in Gate, UNCHANGED <<changes, fix>>, NEW to,
             gate' = [gate EXCEPT ![g] = to],
             \/ to.kind = "review" \/ to.at \notin {"local", "commit"}
             \/ MayOrder(g) /\ to.head = gate[g].head
             \/ to.at = "local" /\ to.rounds >= Cap
      PROVE  RoundsInv'
  <2>1. \A k \in Gate : gate'[k] = IF k = g THEN to ELSE gate[k]
    BY <1>0, <1>6 DEF TypeOK
  <2>2. \A k \in Gate : MayOrder(k)' => MayOrder(k) /\ gate'[k].head = gate[k].head
    <3> SUFFICES ASSUME NEW k \in Gate, MayOrder(k)'
                 PROVE  MayOrder(k) /\ gate'[k].head = gate[k].head
      OBVIOUS
    <3>1. CASE k # g
      BY <2>1, <3>1 DEF MayOrder
    <3>2. CASE k = g
      <4>1. to.kind # "review" /\ ((to.at = "local" /\ to.rounds < Cap) \/ to.at = "commit")
        BY <2>1, <3>2 DEF MayOrder
      <4>2. ~(to.at = "local" /\ to.rounds >= Cap)
        <5>1. gate'[g] = to /\ gate'[g].rounds \in Nat
          BY <1>0, <2>1 DEF TypeOK
        <5> QED
          BY <4>1, <5>1, ReviewLoopAssumption
      <4> QED
        BY <1>6, <2>1, <3>2, <4>1, <4>2
    <3> QED
      BY <3>1, <3>2
  <2>3. Committed' \subseteq Committed
    BY <1>6, <2>2 DEF Committed, Ordered
  <2> QED
    BY <1>0, <1>6, <2>3, Fewer
<1>7. ASSUME NEW g \in Gate, NEW kind \in {"review", "fix", "approval"}, NEW h \in Head,
             Start(g, kind, h)
      PROVE  RoundsInv'
  BY <1>6, <1>7 DEF Start, hub, ledger, OutGate
<1>8. ASSUME NEW g \in Gate, UNCHANGED <<changes, fix>>, Out(g) PROVE RoundsInv'
  BY <1>6, <1>8 DEF Out, OutGate
<1>9. ASSUME NEW g \in Gate, ReadPR(g) PROVE RoundsInv'
  <2>1. CASE Out(g)
    BY <1>8, <1>9, <2>1 DEF ReadPR, hub, ledger
  <2>2. CASE Goto(g, "reviews")
    <3>1. gate' = [gate EXCEPT ![g] = [gate[g] EXCEPT !.at = "reviews"]]
      BY <1>0, <2>2 DEF Goto
    <3>2. [gate[g] EXCEPT !.at = "reviews"].at = "reviews"
      BY <1>0 DEF TypeOK
    <3> QED
      BY <1>6, <1>9, <3>1, <3>2 DEF ReadPR, hub, ledger
  <2> QED
    BY <1>9, <2>1, <2>2 DEF ReadPR
<1>10. ASSUME NEW g \in Gate, ReadForReview(g) PROVE RoundsInv'
  <2>1. CASE Out(g)
    BY <1>8, <1>10, <2>1 DEF ReadForReview, hub, ledger
  <2>2. CASE gate' = [gate EXCEPT ![g].at = "local", ![g].rounds = Verdicts,
                                  ![g].again = gate[g].head \in dismissed]
    <3> DEFINE to == [gate[g] EXCEPT !.at = "local", !.rounds = Verdicts,
                                     !.again = gate[g].head \in dismissed]
    <3>1. gate' = [gate EXCEPT ![g] = to]
      BY <1>0, <2>2 DEF TypeOK
    <3>2. to.kind = "review"
      BY <1>0, <1>10 DEF ReadForReview, TypeOK
    <3> HIDE DEF to
    <3> QED
      BY <1>6, <1>10, <3>1, <3>2 DEF ReadForReview, hub, ledger
  <2> QED
    BY <1>10, <2>1, <2>2 DEF ReadForReview
\* The one step that adds a head: the gate counts all that has a verdict, and its own is in.
<1>11. ASSUME NEW g \in Gate, ReadForFix(g) PROVE RoundsInv'
  <2>1. CASE Out(g)
    BY <1>8, <1>11, <2>1 DEF ReadForFix, hub, ledger
  <2>2. CASE /\ gate[g].head \in changes
             /\ gate' = [gate EXCEPT ![g].at = "local",
                                     ![g].rounds = Cardinality(changes \ {gate[g].head}) + 1]
    <3> DEFINE h == gate[g].head
               to == [gate[g] EXCEPT !.at = "local", !.rounds = Cardinality(changes)]
    <3>1. gate' = [gate EXCEPT ![g] = to]
      BY <1>0, <2>2, RoundsCounted DEF TypeOK
    <3>2. to.head = h /\ to.rounds = Cardinality(changes) /\ to.at = "local"
      BY <1>0 DEF TypeOK
    <3>3. UNCHANGED <<changes, fix>>
      BY <1>11 DEF ReadForFix, hub, ledger
    <3>4. Cardinality(changes) \in Nat
      BY <1>0, Finite
    <3> HIDE DEF to
    <3>5. CASE Cardinality(changes) >= Cap
      BY <1>6, <3>1, <3>2, <3>3, <3>5
    <3>6. CASE Cardinality(changes) < Cap
      <4>1. \A k \in Gate : gate'[k] = IF k = g THEN to ELSE gate[k]
        BY <1>0, <3>1 DEF TypeOK
      <4>2. Committed' \subseteq Committed \cup {h}
        BY <3>2, <3>3, <4>1 DEF Committed, Ordered, MayOrder
      <4>3. Committed' \subseteq changes
        BY <2>2, <4>2 DEF RoundsInv
      <4>4. Cardinality(Committed') \in Nat /\ Cardinality(Committed') <= Cardinality(changes)
        BY <1>0, <4>3, Finite
      <4> QED
        BY <1>0, <3>3, <3>4, <3>6, <4>3, <4>4, ReviewLoopAssumption DEF RoundsInv
    <3> QED
      BY <3>4, <3>5, <3>6, ReviewLoopAssumption
  <2> QED
    BY <1>11, <2>1, <2>2 DEF ReadForFix
<1>12. ASSUME NEW g \in Gate, ReadForApproval(g) PROVE RoundsInv'
  BY <1>8, <1>12 DEF ReadForApproval, hub, ledger
<1>13. ASSUME NEW g \in Gate, Goto(g, "commit"), UNCHANGED <<changes, fix>>,
              gate[g].kind = "review" \/ MayOrder(g)
       PROVE  RoundsInv'
  <2> DEFINE to == [gate[g] EXCEPT !.at = "commit"]
  <2>1. gate' = [gate EXCEPT ![g] = to]
    BY <1>13 DEF Goto
  <2>2. to.kind = gate[g].kind /\ to.head = gate[g].head
    BY <1>0 DEF TypeOK
  <2> HIDE DEF to
  <2> QED
    BY <1>6, <1>13, <2>1, <2>2
<1>14. ASSUME NEW g \in Gate, JudgeReview(g) PROVE RoundsInv'
  BY <1>8, <1>13, <1>14 DEF JudgeReview, hub, ledger
\* A gate that goes on to commit had counted fewer rounds than the cap.
<1>15. ASSUME NEW g \in Gate, JudgeFix(g) PROVE RoundsInv'
  <2>1. UNCHANGED <<changes, fix>> /\ (Out(g) \/ (Goto(g, "commit") /\ ~(gate[g].rounds >= Cap)))
    BY <1>15 DEF JudgeFix, hub, ledger
  <2>2. gate[g].at = "local" /\ gate[g].kind = "fix" /\ gate[g].rounds \in Nat
    BY <1>0, <1>15 DEF JudgeFix, TypeOK
  <2>3. CASE Goto(g, "commit") /\ ~(gate[g].rounds >= Cap)
    BY <1>13, <2>1, <2>2, <2>3, ReviewLoopAssumption DEF MayOrder
  <2> QED
    BY <1>8, <2>1, <2>3
<1>16. ASSUME NEW g \in Gate, Commit(g) PROVE RoundsInv'
  <2>1. CASE gate[g].kind # "review"
    <3>1. /\ MayOrder(g) /\ UNCHANGED changes /\ gate' = [gate EXCEPT ![g] = OutGate]
          /\ fix' = [fix EXCEPT ![gate[g].head] = IF @ = "none" THEN "run" ELSE @]
      BY <1>16, <2>1 DEF Commit, MayOrder, Out, hub
    <3>2. Ordered' \subseteq Ordered \cup {gate[g].head}
      BY <1>0, <3>1 DEF Ordered, TypeOK
    <3>3. \A k \in Gate : MayOrder(k)' => MayOrder(k) /\ gate'[k].head = gate[k].head
      BY <1>0, <3>1 DEF MayOrder, OutGate, TypeOK
    <3>4. Committed' \subseteq Committed
      BY <3>1, <3>2, <3>3 DEF Committed
    <3> QED
      BY <1>0, <3>1, <3>4, Fewer
  <2>2. CASE gate[g].kind = "review"
    <3>1. Out(g) /\ UNCHANGED changes
      BY <1>16 DEF Commit, hub
    <3>2. UNCHANGED fix
      BY <1>16, <2>2 DEF Commit
    <3> QED
      BY <1>8, <3>1, <3>2
  <2> QED
    BY <2>1, <2>2
<1> QED
  BY <1>2, <1>3, <1>4, <1>5, <1>7, <1>9, <1>10, <1>11, <1>12, <1>14, <1>15, <1>16 DEF Next

\* The loop's variables have their types.
THEOREM LoopTypeOK == Spec => []TypeOK
<1>1. RoundsInv => TypeOK
  BY DEF RoundsInv
<1>2. Init => TypeOK
  BY RoundsInit, <1>1
<1> QED
  BY <1>2, TypeStep, PTL DEF Spec

\* However many events repeat and overtake each other, the fixer is ordered to work fewer times
\* than the cap has verdicts, while nobody dismisses one.
THEOREM FixesBoundedHolds ==
  ASSUME "dismiss" \notin Persons
  PROVE  Spec => []FixesBounded
<1>1. RoundsInv => FixesBounded
  <2> SUFFICES ASSUME RoundsInv PROVE FixesBounded
    OBVIOUS
  <2>1. Ordered \subseteq Committed /\ IsFiniteSet(Committed) /\ Cardinality(Committed) \in Nat
    BY Finite DEF RoundsInv, Committed
  <2>2. Cardinality(Ordered) \in Nat /\ Cardinality(Ordered) <= Cardinality(Committed)
    BY <2>1, FS_Subset, FS_CardinalityType
  <2> QED
    BY <2>1, <2>2, ReviewLoopAssumption DEF RoundsInv, FixesBounded
<1>2. RoundsInv /\ [Next]_vars => RoundsInv'
  BY RoundsStep
<1> QED
  BY RoundsInit, <1>1, <1>2, PTL DEF Spec

-----------------------------------------------------------------------------
(* The chain of findings on fixes (IssueChain), for any issues, processes, *)
(* depth and days. A hand-off reads the labels, the depth and the pull     *)
(* request long before it queues; what it read stays true: a filed issue   *)
(* keeps its depth and origin, a merged pull request stays merged, and a   *)
(* fix label stays, or the day's cap has one process.                      *)

ChainTyped ==
  /\ depth \in [Issue -> Nat] /\ origin \in [Issue -> Chain!PullRequest] /\ labels \in [Issue -> SUBSET {"auto", "fix"}]
  /\ pr \in [Chain!PullRequest -> {"none", "open", "merged", "closed"}] /\ held \subseteq Issue
  /\ pc \in [Proc -> [at : {"out", "cap", "queue", "count"}, i : Chain!PullRequest, auto : BOOLEAN]] /\ deepest \in Nat
\* A filed issue came from a pull request that was opened; what waits for one was filed, and has a
\* person's label if it is too deep; what is under way has one that merged.
ChainFiled == \A i \in Issue : depth[i] > 0 => pr[origin[i]] # "none"
ChainHeld == \A i \in held : depth[i] > 0 /\ (depth[i] <= MaxDepth \/ "fix" \in labels[i])
ChainOnWay ==
  \A p \in Proc : pc[p].at \in {"cap", "queue"} =>
    /\ pc[p].i \in Issue /\ depth[pc[p].i] > 0 /\ pr[origin[pc[p].i]] = "merged"
    /\ pc[p].auto => depth[pc[p].i] <= MaxDepth
ChainInv == ChainTyped /\ ChainFiled /\ ChainHeld /\ ChainOnWay /\ Chain!ChainBounded
QueuedMerged == \A i \in queued' \ queued : pr[origin[i]] = "merged"

LEMMA ChainConstants == Root \notin Issue /\ MaxDepth \in Nat
<1>1. Chain!IssueChainAssumption
  BY EventsAssumption
<1> QED
  BY <1>1 DEF Chain!IssueChainAssumption

LEMMA ChainInit == Chain!Init => ChainInv
BY ChainConstants DEF Chain!Init, ChainInv, ChainTyped, ChainFiled, ChainHeld, ChainOnWay, Chain!ChainBounded,
   Chain!PullRequest, Chain!Out

\* A hand-off of an issue that was filed, and is shallow unless a person asked for it.
LEMMA ChainHands ==
  ASSUME ChainInv, NEW p \in Proc, NEW i \in Issue, NEW auto \in BOOLEAN,
         depth[i] > 0, auto => depth[i] <= MaxDepth, depth[i] <= MaxDepth \/ "fix" \in labels'[i],
         Chain!HandOff(p, i, auto) \/ Chain!Unreadable(i),
         UNCHANGED <<depth, origin, pr, queued, deepest>>, labels' \in [Issue -> SUBSET {"auto", "fix"}],
         \A j \in Issue : "fix" \in labels[j] => "fix" \in labels'[j]
  PROVE  ChainInv'
<1>1. ChainTyped /\ pr[origin[i]] # "none"
  BY DEF ChainInv, ChainFiled
<1>2. i \in Chain!PullRequest /\ origin[i] \in Chain!PullRequest
  BY <1>1 DEF ChainTyped, Chain!PullRequest
<1>3. /\ held' \subseteq held \cup {i}
      /\ \/ pc' = pc
         \/ /\ pr[origin[i]] = "merged"
            /\ pc' = [pc EXCEPT ![p] = [at |-> IF auto THEN "cap" ELSE "queue", i |-> i, auto |-> auto]]
  <2>1. CASE Chain!Unreadable(i)
    BY <2>1 DEF Chain!Unreadable
  <2>2. CASE Chain!HandOff(p, i, auto)
    BY <1>1, <1>2, <2>2 DEF Chain!HandOff, Chain!Go, ChainTyped
  <2> QED
    BY <2>1, <2>2
<1>4. ChainTyped'
  BY <1>1, <1>2, <1>3 DEF ChainTyped
<1>5. ChainFiled' /\ Chain!ChainBounded'
  BY DEF ChainInv, ChainFiled, Chain!ChainBounded
<1>6. ChainHeld'
  BY <1>1, <1>3 DEF ChainInv, ChainHeld, ChainTyped
<1>7. ChainOnWay'
  BY <1>1, <1>3 DEF ChainInv, ChainOnWay, ChainTyped
<1> QED
  BY <1>4, <1>5, <1>6, <1>7 DEF ChainInv

LEMMA ChainStep == ChainInv /\ [Chain!Next]_chainVars => ChainInv' /\ QueuedMerged
<1> SUFFICES ASSUME ChainInv, [Chain!Next]_chainVars PROVE ChainInv' /\ QueuedMerged
  OBVIOUS
<1> USE ChainConstants
<1>1. ChainTyped
  BY DEF ChainInv
<1>2. CASE UNCHANGED chainVars
  BY <1>2 DEF chainVars, ChainInv, ChainTyped, ChainFiled, ChainHeld, ChainOnWay, Chain!ChainBounded, QueuedMerged
<1>3. ASSUME NEW i \in Issue, NEW p \in Chain!PullRequest, Chain!FileIssue(i, p) PROVE ChainInv' /\ QueuedMerged
  <2>1. /\ depth[i] = 0 /\ pr[p] = "open"
        /\ depth' = [depth EXCEPT ![i] = Chain!DepthOf(p) + 1] /\ origin' = [origin EXCEPT ![i] = p]
        /\ UNCHANGED <<labels, pr, held, queued, pc, deepest>>
    BY <1>1, <1>3 DEF Chain!FileIssue, Chain!Filed, Chain!Lineage, ChainTyped
  <2>2. Chain!DepthOf(p) \in Nat
    BY <1>1 DEF Chain!DepthOf, ChainTyped, Chain!PullRequest
  <2>3. ChainTyped'
    BY <1>1, <2>1, <2>2 DEF ChainTyped
  <2>4. ChainFiled' /\ ChainHeld'
    BY <1>1, <2>1, <2>2 DEF ChainInv, ChainTyped, ChainFiled, ChainHeld
  <2>5. ChainOnWay'
    BY <1>1, <2>1, <2>2 DEF ChainInv, ChainTyped, ChainOnWay
  <2> QED
    BY <2>1, <2>3, <2>4, <2>5 DEF ChainInv, Chain!ChainBounded, QueuedMerged
<1>4. ASSUME NEW i \in Issue, Chain!Maintain(i) PROVE ChainInv' /\ QueuedMerged
  <2>1. labels' = [labels EXCEPT ![i] = @ \cup {"fix"}] /\ UNCHANGED <<depth, origin, pr, held, queued, pc, deepest>>
    BY <1>4 DEF Chain!Maintain
  <2> QED
    BY <1>1, <2>1 DEF ChainInv, ChainTyped, ChainFiled, ChainHeld, ChainOnWay, Chain!ChainBounded, QueuedMerged
<1>5. ASSUME NEW q \in Chain!PullRequest, NEW s \in {"open", "merged", "closed"},
             pr' = [pr EXCEPT ![q] = s], pr[q] \notin {"merged", "closed"},
             UNCHANGED <<depth, origin, labels, held, pc, deepest>>, queued' \subseteq queued
      PROVE  ChainInv' /\ QueuedMerged
  <2>1. ChainTyped'
    BY <1>1, <1>5 DEF ChainTyped
  <2>2. ChainFiled' /\ ChainOnWay'
    BY <1>1, <1>5 DEF ChainInv, ChainTyped, ChainFiled, ChainOnWay
  <2> QED
    BY <1>5, <2>1, <2>2 DEF ChainInv, ChainHeld, Chain!ChainBounded, QueuedMerged
<1>6. ASSUME NEW q \in Chain!PullRequest, Chain!EndPr(q) PROVE ChainInv' /\ QueuedMerged
  BY <1>5, <1>6 DEF Chain!EndPr
<1>7. ASSUME NEW i \in Issue, Chain!Fix(i) PROVE ChainInv' /\ QueuedMerged
  <2>1. i \in Chain!PullRequest
    BY DEF Chain!PullRequest
  <2>2. CASE pr' = pr
    BY <1>1, <1>7, <2>2
    DEF Chain!Fix, ChainInv, ChainTyped, ChainFiled, ChainHeld, ChainOnWay, Chain!ChainBounded, QueuedMerged
  <2>3. CASE pr[i] = "none" /\ pr' = [pr EXCEPT ![i] = "open"]
    BY <1>5, <1>7, <2>1, <2>3 DEF Chain!Fix
  <2> QED
    BY <1>7, <2>2, <2>3 DEF Chain!Fix
<1>8. CASE Chain!Midnight
  BY <1>8 DEF Chain!Midnight, ChainInv, ChainTyped, ChainFiled, ChainHeld, ChainOnWay, Chain!ChainBounded, QueuedMerged
<1>9. ASSUME NEW p \in Proc, Chain!DayCap(p) \/ Chain!Count(p) PROVE ChainInv' /\ QueuedMerged
  <2>1. /\ pc' = [pc EXCEPT ![p] = Chain!Out] \/ (pc[p].at = "cap" /\ pc' = [pc EXCEPT ![p].at = "queue"])
        /\ UNCHANGED <<depth, origin, labels, pr, held, queued, deepest>>
    BY <1>9 DEF Chain!DayCap, Chain!Count, Chain!End, Chain!world, Chain!ghosts
  <2>2. Chain!Out \in [at : {"out"}, i : Chain!PullRequest, auto : BOOLEAN]
    BY DEF Chain!Out, Chain!PullRequest
  <2>3. ChainTyped'
    BY <1>1, <2>1, <2>2 DEF ChainTyped
  <2>4. ChainOnWay'
    BY <1>1, <2>1, <2>2 DEF ChainInv, ChainTyped, ChainOnWay
  <2> QED
    BY <2>1, <2>3, <2>4 DEF ChainInv, ChainFiled, ChainHeld, Chain!ChainBounded, QueuedMerged
<1>10. ASSUME NEW p \in Proc, Chain!Queue(p) PROVE ChainInv' /\ QueuedMerged
  <2> DEFINE i == pc[p].i
  <2>1. /\ pc[p].at = "queue" /\ queued' = queued \cup {i} /\ held' = held \ {i}
        /\ UNCHANGED <<depth, origin, labels, pr>>
        /\ \/ /\ pc[p].auto /\ pc' = [pc EXCEPT ![p].at = "count"]
              /\ deepest' = IF depth[i] > deepest THEN depth[i] ELSE deepest
           \/ pc' = [pc EXCEPT ![p] = Chain!Out] /\ deepest' = deepest
    BY <1>1, <1>10 DEF Chain!Queue, Chain!End, Chain!world, Chain!ghosts, ChainTyped
  <2>2. Chain!Out \in [at : {"out"}, i : Chain!PullRequest, auto : BOOLEAN]
    BY DEF Chain!Out, Chain!PullRequest
  <2>3. i \in Issue /\ pr[origin[i]] = "merged" /\ (pc[p].auto => depth[i] <= MaxDepth)
    BY <2>1 DEF ChainInv, ChainOnWay
  <2> HIDE DEF i
  <2>4. ChainTyped'
    <3>1. pc' \in [Proc -> [at : {"out", "cap", "queue", "count"}, i : Chain!PullRequest, auto : BOOLEAN]]
      BY <1>1, <2>1, <2>2 DEF ChainTyped
    <3>2. deepest' \in Nat
      BY <1>1, <2>1, <2>3 DEF ChainTyped
    <3> QED
      BY <1>1, <2>1, <3>1, <3>2 DEF ChainTyped
  <2>5. ChainOnWay'
    BY <1>1, <2>1, <2>2 DEF ChainInv, ChainTyped, ChainOnWay
  <2>6. Chain!ChainBounded'
    BY <1>1, <2>1, <2>3 DEF ChainInv, ChainTyped, Chain!ChainBounded
  <2> QED
    BY <2>1, <2>3, <2>4, <2>5, <2>6 DEF ChainInv, ChainFiled, ChainHeld, QueuedMerged
<1>11. ASSUME NEW p \in Proc, NEW i \in Issue, Chain!Labelled(p, i) PROVE ChainInv' /\ QueuedMerged
  <2>1. UNCHANGED <<depth, origin, labels, pr, queued, deepest>>
    BY <1>11 DEF Chain!Labelled, Chain!world, Chain!ghosts
  <2>2. depth[i] > 0 /\ "fix" \in labels[i] /\ (Chain!HandOff(p, i, FALSE) \/ Chain!Unreadable(i))
    BY <1>11 DEF Chain!Labelled, Chain!Eligible, Chain!Live, Chain!Filed
  <2>3. ChainInv'
    BY <1>1, <2>1, <2>2, ChainHands DEF ChainTyped
  <2> QED
    BY <2>1, <2>3 DEF QueuedMerged
<1>12. ASSUME NEW p \in Proc, NEW i \in Issue, Chain!Triage(p, i) PROVE ChainInv' /\ QueuedMerged
  <2>1. /\ depth[i] > 0 /\ labels' = [labels EXCEPT ![i] = @ \cup {"auto"}]
        /\ UNCHANGED <<depth, origin, pr, queued, deepest>>
        /\ \/ depth[i] <= MaxDepth /\ (Chain!HandOff(p, i, TRUE) \/ Chain!Unreadable(i))
           \/ UNCHANGED <<held, pc>>
    BY <1>12 DEF Chain!Triage, Chain!Live, Chain!Filed, Chain!Shallow, Chain!ghosts
  <2>2. labels' \in [Issue -> SUBSET {"auto", "fix"}] /\ \A j \in Issue : "fix" \in labels[j] => "fix" \in labels'[j]
    BY <1>1, <2>1 DEF ChainTyped
  <2>3. CASE depth[i] <= MaxDepth /\ (Chain!HandOff(p, i, TRUE) \/ Chain!Unreadable(i))
    BY <2>1, <2>2, <2>3, ChainHands DEF QueuedMerged
  <2>4. CASE UNCHANGED <<held, pc>>
    BY <1>1, <2>1, <2>2, <2>4
    DEF ChainInv, ChainTyped, ChainFiled, ChainHeld, ChainOnWay, Chain!ChainBounded, QueuedMerged
  <2> QED
    BY <2>1, <2>3, <2>4
<1>13. ASSUME NEW p \in Proc, NEW i \in Issue, Chain!Release(p, i) PROVE ChainInv' /\ QueuedMerged
  <2>1. /\ i \in held /\ pr[origin[i]] # "open" /\ UNCHANGED <<depth, origin, labels, pr, queued, deepest>>
        /\ \/ held' = held \ {i} /\ UNCHANGED pc
           \/ pr[origin[i]] # "closed" /\ Chain!Go(p, i, Chain!Automatic(i)) /\ UNCHANGED held
    BY <1>13 DEF Chain!Release, Chain!world, Chain!ghosts
  <2>2. CASE held' = held \ {i} /\ UNCHANGED pc
    BY <1>1, <2>1, <2>2
    DEF ChainInv, ChainTyped, ChainFiled, ChainHeld, ChainOnWay, Chain!ChainBounded, QueuedMerged
  <2>3. CASE pr[origin[i]] # "closed" /\ Chain!Go(p, i, Chain!Automatic(i)) /\ UNCHANGED held
    <3>1. depth[i] > 0 /\ (Chain!Automatic(i) => depth[i] <= MaxDepth) /\ Chain!Automatic(i) \in BOOLEAN
      BY <2>1 DEF ChainInv, ChainHeld, Chain!Automatic
    <3>2. i \in Chain!PullRequest /\ origin[i] \in Chain!PullRequest
      BY <1>1 DEF ChainTyped, Chain!PullRequest
    <3>3. pr[origin[i]] = "merged"
      BY <1>1, <2>1, <2>3, <3>1, <3>2 DEF ChainInv, ChainFiled, ChainTyped
    <3> DEFINE auto == Chain!Automatic(i)
    <3>4. pc' = [pc EXCEPT ![p] = [at |-> IF auto THEN "cap" ELSE "queue", i |-> i, auto |-> auto]]
      BY <2>3 DEF Chain!Go
    <3> HIDE DEF auto
    <3>5. auto \in BOOLEAN /\ (auto => depth[i] <= MaxDepth)
      BY <3>1 DEF auto
    <3>6. ChainTyped'
      BY <1>1, <2>1, <2>3, <3>2, <3>4, <3>5 DEF ChainTyped
    <3>7. ChainOnWay'
      BY <1>1, <2>1, <3>1, <3>3, <3>4, <3>5 DEF ChainInv, ChainOnWay, ChainTyped
    <3> QED
      BY <2>1, <2>3, <3>6, <3>7 DEF ChainInv, ChainFiled, ChainHeld, Chain!ChainBounded, QueuedMerged
  <2> QED
    BY <2>1, <2>2, <2>3
<1> QED
  BY <1>2, <1>3, <1>4, <1>6, <1>7, <1>8, <1>9, <1>10, <1>11, <1>12, <1>13
  DEF Chain!Next, Chain!Handing, chainVars, Chain!vars

-----------------------------------------------------------------------------
(* The day's cap (IssueChain), where a fix label may be withdrawn again and *)
(* one process hands off: between its look at the count and its turn's     *)
(* count nothing counts but itself, and midnight only makes room.          *)

DaysTyped ==
  /\ depth \in [Issue -> Nat] /\ origin \in [Issue -> ChainDays!PullRequest]
  /\ labels \in [Issue -> SUBSET {"auto", "fix"}]
  /\ pr \in [ChainDays!PullRequest -> {"none", "open", "merged", "closed"}] /\ held \subseteq Issue
  /\ pc \in [{OneProc} -> [at : {"out", "cap", "queue", "count"}, i : ChainDays!PullRequest, auto : BOOLEAN]]
  /\ count \in Nat /\ offered \in Nat
DaysFiled == \A i \in Issue : depth[i] > 0 => pr[origin[i]] # "none"
DaysHeld == \A i \in held : depth[i] > 0
DaysOnWay ==
  pc[OneProc].at \in {"cap", "queue"} =>
    pc[OneProc].i \in Issue /\ depth[pc[OneProc].i] > 0 /\ pr[origin[pc[OneProc].i]] = "merged"
DaysCounts ==
  /\ offered <= OneDay
  /\ offered <= IF pc[OneProc].at = "count" THEN count + 1 ELSE count
  /\ pc[OneProc].at = "queue" /\ pc[OneProc].auto => offered < OneDay
DaysInv == DaysTyped /\ DaysFiled /\ DaysHeld /\ DaysOnWay /\ DaysCounts

LEMMA DaysConstants == Root \notin Issue /\ OneDay \in Nat
<1>1. ChainDays!IssueChainAssumption
  BY EventsAssumption
<1> QED
  BY <1>1 DEF ChainDays!IssueChainAssumption

LEMMA DaysInit == ChainDays!Init => DaysInv
BY DaysConstants DEF ChainDays!Init, DaysInv, DaysTyped, DaysFiled, DaysHeld, DaysOnWay, DaysCounts,
   ChainDays!PullRequest, ChainDays!Out

LEMMA DaysHands ==
  ASSUME DaysInv, NEW p \in {OneProc}, NEW i \in Issue, NEW auto \in BOOLEAN,
         depth[i] > 0, pc[p].at = "out",
         ChainDays!HandOff(p, i, auto) \/ ChainDays!Unreadable(i),
         UNCHANGED <<depth, origin, pr, queued, count, offered>>, labels' \in [Issue -> SUBSET {"auto", "fix"}]
  PROVE  DaysInv'
<1>1. DaysTyped /\ pr[origin[i]] # "none"
  BY DEF DaysInv, DaysFiled
<1>2. i \in ChainDays!PullRequest /\ origin[i] \in ChainDays!PullRequest
  BY <1>1 DEF DaysTyped, ChainDays!PullRequest
<1>3. /\ held' \subseteq held \cup {i}
      /\ \/ pc' = pc
         \/ /\ pr[origin[i]] = "merged"
            /\ pc' = [pc EXCEPT ![p] = [at |-> IF auto THEN "cap" ELSE "queue", i |-> i, auto |-> auto]]
  <2>1. CASE ChainDays!Unreadable(i)
    BY <2>1 DEF ChainDays!Unreadable
  <2>2. CASE ChainDays!HandOff(p, i, auto)
    BY <1>1, <1>2, <2>2 DEF ChainDays!HandOff, ChainDays!Go, DaysTyped
  <2> QED
    BY <2>1, <2>2
<1>4. DaysTyped'
  BY <1>1, <1>2, <1>3 DEF DaysTyped
<1>5. DaysFiled'
  BY DEF DaysInv, DaysFiled
<1>6. DaysHeld'
  BY <1>1, <1>3 DEF DaysInv, DaysHeld, DaysTyped
<1>7. DaysOnWay'
  BY <1>1, <1>3 DEF DaysInv, DaysOnWay, DaysTyped
<1>8. DaysCounts'
  BY <1>1, <1>3 DEF DaysInv, DaysCounts, DaysTyped
<1> QED
  BY <1>4, <1>5, <1>6, <1>7, <1>8 DEF DaysInv

LEMMA DaysStep == DaysInv /\ [ChainDays!Next]_chainVars => DaysInv' /\ QueuedMerged
<1> SUFFICES ASSUME DaysInv, [ChainDays!Next]_chainVars PROVE DaysInv' /\ QueuedMerged
  OBVIOUS
<1> USE DaysConstants
<1>1. DaysTyped
  BY DEF DaysInv
<1>2. CASE UNCHANGED chainVars
  BY <1>2 DEF chainVars, DaysInv, DaysTyped, DaysFiled, DaysHeld, DaysOnWay, DaysCounts, QueuedMerged
<1>3. ASSUME NEW i \in Issue, NEW p \in ChainDays!PullRequest, ChainDays!FileIssue(i, p) PROVE DaysInv' /\ QueuedMerged
  <2>1. /\ depth[i] = 0 /\ pr[p] = "open"
        /\ depth' = [depth EXCEPT ![i] = ChainDays!DepthOf(p) + 1] /\ origin' = [origin EXCEPT ![i] = p]
        /\ UNCHANGED <<labels, pr, held, queued, pc, count, offered>>
    BY <1>1, <1>3 DEF ChainDays!FileIssue, ChainDays!Filed, ChainDays!Lineage, DaysTyped
  <2>2. ChainDays!DepthOf(p) \in Nat
    BY <1>1 DEF ChainDays!DepthOf, DaysTyped, ChainDays!PullRequest
  <2>3. DaysTyped'
    BY <1>1, <2>1, <2>2 DEF DaysTyped
  <2>4. DaysFiled' /\ DaysHeld'
    BY <1>1, <2>1, <2>2 DEF DaysInv, DaysTyped, DaysFiled, DaysHeld
  <2>5. DaysOnWay'
    BY <1>1, <2>1, <2>2 DEF DaysInv, DaysTyped, DaysOnWay
  <2> QED
    BY <2>1, <2>3, <2>4, <2>5 DEF DaysInv, DaysCounts, QueuedMerged
<1>4. ASSUME NEW i \in Issue, ChainDays!Maintain(i) PROVE DaysInv' /\ QueuedMerged
  <2>1. /\ labels' \in [Issue -> SUBSET {"auto", "fix"}]
        /\ UNCHANGED <<depth, origin, pr, held, queued, pc, count, offered>>
    BY <1>1, <1>4 DEF ChainDays!Maintain, DaysTyped
  <2> QED
    BY <1>1, <2>1 DEF DaysInv, DaysTyped, DaysFiled, DaysHeld, DaysOnWay, DaysCounts, QueuedMerged
<1>5. ASSUME NEW q \in ChainDays!PullRequest, NEW s \in {"open", "merged", "closed"},
             pr' = [pr EXCEPT ![q] = s], pr[q] \notin {"merged", "closed"},
             UNCHANGED <<depth, origin, labels, held, pc, count, offered>>, queued' \subseteq queued
      PROVE  DaysInv' /\ QueuedMerged
  <2>1. DaysTyped'
    BY <1>1, <1>5 DEF DaysTyped
  <2>2. DaysFiled' /\ DaysOnWay'
    BY <1>1, <1>5 DEF DaysInv, DaysTyped, DaysFiled, DaysOnWay
  <2> QED
    BY <1>5, <2>1, <2>2 DEF DaysInv, DaysHeld, DaysCounts, QueuedMerged
<1>6. ASSUME NEW q \in ChainDays!PullRequest, ChainDays!EndPr(q) PROVE DaysInv' /\ QueuedMerged
  BY <1>5, <1>6 DEF ChainDays!EndPr
<1>7. ASSUME NEW i \in Issue, ChainDays!Fix(i) PROVE DaysInv' /\ QueuedMerged
  <2>1. i \in ChainDays!PullRequest
    BY DEF ChainDays!PullRequest
  <2>2. CASE pr' = pr
    <3>1. UNCHANGED <<depth, origin, labels, held, pc, count, offered>> /\ queued' \subseteq queued
      BY <1>7 DEF ChainDays!Fix
    <3> QED
      BY <1>1, <2>2, <3>1 DEF DaysInv, DaysTyped, DaysFiled, DaysHeld, DaysOnWay, DaysCounts, QueuedMerged
  <2>3. CASE pr[i] = "none" /\ pr' = [pr EXCEPT ![i] = "open"]
    BY <1>5, <1>7, <2>1, <2>3 DEF ChainDays!Fix
  <2> QED
    BY <1>7, <2>2, <2>3 DEF ChainDays!Fix
<1>8. CASE ChainDays!Midnight
  <2>1. count' = 0 /\ offered' = 0 /\ UNCHANGED <<depth, origin, labels, pr, held, queued, pc>>
    BY <1>8 DEF ChainDays!Midnight
  <2>2. DaysCounts'
    BY <1>1, <2>1 DEF DaysInv, DaysCounts, DaysTyped
  <2> QED
    BY <1>1, <2>1, <2>2 DEF DaysInv, DaysTyped, DaysFiled, DaysHeld, DaysOnWay, QueuedMerged
<1>9. /\ ChainDays!Out \in [at : {"out"}, i : ChainDays!PullRequest, auto : BOOLEAN]
      /\ pc[OneProc] \in [at : {"out", "cap", "queue", "count"}, i : ChainDays!PullRequest, auto : BOOLEAN]
  BY <1>1 DEF ChainDays!Out, ChainDays!PullRequest, DaysTyped
<1>10. ASSUME NEW p \in {OneProc}, ChainDays!DayCap(p) \/ ChainDays!Count(p) \/ ChainDays!Queue(p)
       PROVE  DaysInv' /\ QueuedMerged
  <2>1. UNCHANGED <<depth, origin, labels, pr>> /\ p = OneProc
    BY <1>10 DEF ChainDays!DayCap, ChainDays!Count, ChainDays!Queue, ChainDays!world
  <2>2. CASE ChainDays!DayCap(p)
    <3>1. /\ pc[p].at = "cap" /\ UNCHANGED <<held, queued, count, offered>>
          /\ \/ pc' = [pc EXCEPT ![p] = ChainDays!Out]
             \/ count < OneDay /\ pc' = [pc EXCEPT ![p].at = "queue"]
      BY <1>1, <2>2 DEF ChainDays!DayCap, ChainDays!End, ChainDays!ghosts, DaysTyped
    <3>2. DaysTyped' /\ DaysOnWay' /\ DaysCounts'
      BY <1>1, <1>9, <2>1, <3>1 DEF DaysInv, DaysTyped, DaysOnWay, DaysCounts
    <3> QED
      BY <2>1, <3>1, <3>2 DEF DaysInv, DaysFiled, DaysHeld, QueuedMerged
  <2>3. CASE ChainDays!Count(p)
    <3>1. pc[p].at = "count" /\ count' = count + 1 /\ pc' = [pc EXCEPT ![p] = ChainDays!Out] /\ UNCHANGED <<held, queued, offered>>
      BY <2>3 DEF ChainDays!Count, ChainDays!End, ChainDays!ghosts
    <3>2. DaysTyped' /\ DaysOnWay' /\ DaysCounts'
      BY <1>1, <1>9, <2>1, <3>1 DEF DaysInv, DaysTyped, DaysOnWay, DaysCounts
    <3> QED
      BY <2>1, <3>1, <3>2 DEF DaysInv, DaysFiled, DaysHeld, QueuedMerged
  <2>4. CASE ChainDays!Queue(p)
    <3>1. /\ pc[p].at = "queue" /\ queued' = queued \cup {pc[p].i} /\ held' \subseteq held /\ count' = count
          /\ \/ /\ pc[p].auto /\ pc' = [pc EXCEPT ![p].at = "count"] /\ offered' \in {offered, offered + 1}
             \/ pc' = [pc EXCEPT ![p] = ChainDays!Out] /\ offered' = offered
      BY <2>4 DEF ChainDays!Queue, ChainDays!End, ChainDays!ghosts
    <3>2. DaysTyped'
      <4>1. pc' \in [{OneProc} -> [at : {"out", "cap", "queue", "count"}, i : ChainDays!PullRequest, auto : BOOLEAN]]
        BY <1>1, <1>9, <2>1, <3>1 DEF DaysTyped
      <4>2. count' \in Nat /\ offered' \in Nat
        BY <1>1, <3>1 DEF DaysTyped
      <4> QED
        BY <1>1, <2>1, <3>1, <4>1, <4>2 DEF DaysTyped
    <3>3. DaysOnWay' /\ DaysCounts'
      BY <1>1, <1>9, <2>1, <3>1 DEF DaysInv, DaysTyped, DaysOnWay, DaysCounts
    <3>4. pr[origin[pc[p].i]] = "merged"
      BY <2>1, <3>1 DEF DaysInv, DaysOnWay
    <3> QED
      BY <2>1, <3>1, <3>2, <3>3, <3>4 DEF DaysInv, DaysFiled, DaysHeld, QueuedMerged
  <2> QED
    BY <1>10, <2>2, <2>3, <2>4
<1>11. ASSUME NEW p \in {OneProc}, NEW i \in Issue, ChainDays!Labelled(p, i) PROVE DaysInv' /\ QueuedMerged
  <2>1. UNCHANGED <<depth, origin, labels, pr, queued, count, offered>> /\ pc[p].at = "out"
    BY <1>11 DEF ChainDays!Labelled, ChainDays!world, ChainDays!ghosts
  <2>2. depth[i] > 0 /\ (ChainDays!HandOff(p, i, FALSE) \/ ChainDays!Unreadable(i))
    BY <1>11 DEF ChainDays!Labelled, ChainDays!Eligible, ChainDays!Live, ChainDays!Filed
  <2>3. DaysInv'
    BY <1>1, <2>1, <2>2, DaysHands DEF DaysTyped
  <2> QED
    BY <2>1, <2>3 DEF QueuedMerged
<1>12. ASSUME NEW p \in {OneProc}, NEW i \in Issue, ChainDays!Triage(p, i) PROVE DaysInv' /\ QueuedMerged
  <2>1. /\ depth[i] > 0 /\ pc[p].at = "out" /\ labels' = [labels EXCEPT ![i] = @ \cup {"auto"}]
        /\ UNCHANGED <<depth, origin, pr, queued, count, offered>>
        /\ \/ ChainDays!HandOff(p, i, TRUE) \/ ChainDays!Unreadable(i)
           \/ UNCHANGED <<held, pc>>
    BY <1>12 DEF ChainDays!Triage, ChainDays!Live, ChainDays!Filed, ChainDays!ghosts
  <2>2. labels' \in [Issue -> SUBSET {"auto", "fix"}]
    BY <1>1, <2>1 DEF DaysTyped
  <2>3. CASE ChainDays!HandOff(p, i, TRUE) \/ ChainDays!Unreadable(i)
    BY <2>1, <2>2, <2>3, DaysHands DEF QueuedMerged
  <2>4. CASE UNCHANGED <<held, pc>>
    BY <1>1, <2>1, <2>2, <2>4
    DEF DaysInv, DaysTyped, DaysFiled, DaysHeld, DaysOnWay, DaysCounts, QueuedMerged
  <2> QED
    BY <2>1, <2>3, <2>4
<1>13. ASSUME NEW p \in {OneProc}, NEW i \in Issue, ChainDays!Release(p, i) PROVE DaysInv' /\ QueuedMerged
  <2>1. /\ i \in held /\ pc[p].at = "out" /\ pr[origin[i]] # "open" /\ UNCHANGED <<depth, origin, labels, pr, queued, count, offered>>
        /\ \/ held' = held \ {i} /\ UNCHANGED pc
           \/ pr[origin[i]] # "closed" /\ ChainDays!Go(p, i, ChainDays!Automatic(i)) /\ UNCHANGED held
    BY <1>13 DEF ChainDays!Release, ChainDays!world, ChainDays!ghosts
  <2>2. CASE held' = held \ {i} /\ UNCHANGED pc
    BY <1>1, <2>1, <2>2
    DEF DaysInv, DaysTyped, DaysFiled, DaysHeld, DaysOnWay, DaysCounts, QueuedMerged
  <2>3. CASE pr[origin[i]] # "closed" /\ ChainDays!Go(p, i, ChainDays!Automatic(i)) /\ UNCHANGED held
    <3>1. depth[i] > 0
      BY <2>1 DEF DaysInv, DaysHeld
    <3>2. i \in ChainDays!PullRequest /\ origin[i] \in ChainDays!PullRequest
      BY <1>1 DEF DaysTyped, ChainDays!PullRequest
    <3>3. pr[origin[i]] = "merged"
      BY <1>1, <2>1, <2>3, <3>1, <3>2 DEF DaysInv, DaysFiled, DaysTyped
    <3> DEFINE auto == ChainDays!Automatic(i)
    <3>4. pc' = [pc EXCEPT ![p] = [at |-> IF auto THEN "cap" ELSE "queue", i |-> i, auto |-> auto]]
      BY <2>3 DEF ChainDays!Go
    <3> HIDE DEF auto
    <3>5. auto \in BOOLEAN
      BY DEF auto, ChainDays!Automatic
    <3>6. DaysTyped'
      BY <1>1, <2>1, <2>3, <3>2, <3>4, <3>5 DEF DaysTyped
    <3>7. DaysOnWay'
      BY <1>1, <2>1, <3>1, <3>3, <3>4, <3>5 DEF DaysInv, DaysOnWay, DaysTyped
    <3>8. DaysCounts'
      BY <1>1, <2>1, <3>4, <3>5 DEF DaysInv, DaysCounts, DaysTyped
    <3> QED
      BY <2>1, <2>3, <3>6, <3>7, <3>8 DEF DaysInv, DaysFiled, DaysHeld, QueuedMerged
  <2> QED
    BY <2>1, <2>2, <2>3
<1> QED
  BY <1>2, <1>3, <1>4, <1>6, <1>7, <1>8, <1>10, <1>11, <1>12, <1>13
  DEF ChainDays!Next, ChainDays!Handing, chainVars, ChainDays!vars

\* In any number of days and of issues: a fix turn is queued only when the pull request of its
\* finding has merged; nothing deeper than the bound is handed to the fixer without a person, as
\* long as no fix label is withdrawn (MayWithdraw is off: fix_hold.py:112 reads a label once); and
\* the day's cap is kept where one process alone hands off (fix_hold.py:138 counts and queues
\* without a lock, so two go over it).
THEOREM ChainBoundedHolds == PartSpec => ChainBounded
<1> DEFINE Inv == IF part = "chain_days" THEN DaysInv ELSE ChainInv
<1>1. PartInit => Inv
  BY ChainInit, DaysInit DEF PartInit
<1>2. Inv /\ [PartNext]_partVars => Inv' /\ QueuedMerged
  <2> SUFFICES ASSUME Inv, [PartNext]_partVars PROVE Inv' /\ QueuedMerged
    OBVIOUS
  <2>1. part' = part
    BY DEF PartNext, partVars
  <2>2. CASE part = "chain_days"
    <3>1. [ChainDays!Next]_chainVars
      BY <2>2 DEF PartNext, partVars
    <3> QED
      BY <2>1, <2>2, <3>1, DaysStep
  <2>3. CASE part # "chain_days"
    <3>1. [Chain!Next]_chainVars
      BY <2>3 DEF PartNext, partVars
    <3> QED
      BY <2>1, <2>3, <3>1, ChainStep
  <2> QED
    BY <2>2, <2>3
<1>3. Inv => (part = "chain" => Chain!ChainBounded) /\ (part = "chain_days" => ChainDays!DailyCap)
  BY DEF ChainInv, DaysInv, DaysCounts, ChainDays!DailyCap
<1>4. Inv /\ [PartNext]_partVars => [\A i \in queued' \ queued : pr[origin[i]] = "merged"]_(Chain!vars)
  BY <1>2 DEF QueuedMerged
<1> HIDE DEF Inv
<1> QED
  BY <1>1, <1>2, <1>3, <1>4, PTL DEF PartSpec, ChainBounded, Chain!NotBeforeMerge

-----------------------------------------------------------------------------
(* The review of a retargeted pull request (Retarget), for any actors,     *)
(* changes of the base, reviews, failures and deaths.                      *)

Working(p) ==
  p \in [at : {"set", "clear", "start", "act", "fresh"}, why : {"edited", "sweep", "requested", "changes"},
         review : {p.review}, pr : Retargeted!Snapshot, observed : BOOLEAN, era : Nat, key : Nat, old : {p.old}, born : Nat]
\* A review that a baseline does not name was made after the baseline was read.
After(old, e) == old = Retargeted!Unread \/ \A r \in reviews : r.id \in old \/ r.era >= e
ReviewsKnown ==
  /\ retargetPr \in Retargeted!Snapshot /\ era \in Nat /\ clock \in Nat \ {0}
  /\ \A r \in reviews : r \in [id : {r.id}, head : {1}, base : Retargeted!Base, era : Nat, receipt : BOOLEAN]
HoldKnown ==
  hold # Retargeted!None =>
    /\ hold \in [head : {1}, at : Nat \ {0}, old : {hold.old}, era : Nat, fresh : {"none", "enqueued", "retry"}]
    /\ hold.era <= era /\ After(hold.old, hold.era)
\* A name of a turn is the hold's. Who is past the record of a hold, or acts upon a boundary that
\* was seen, finds the hold.
Named(h, key) == key = 0 \/ (h # Retargeted!None /\ key = h.at)
ActorsKnown ==
  /\ proc = [a \in Actor |-> proc[a]]
  /\ \A a \in Actor : proc[a].at # "idle" =>
       /\ Working(proc[a]) /\ proc[a].era <= era /\ Named(hold, proc[a].key)
       /\ proc[a].at = "set" => proc[a].born # 0 /\ After(proc[a].old, proc[a].era)
       /\ proc[a].at = "clear" \/ (proc[a].at = "act" /\ proc[a].observed) => hold # Retargeted!None
TurnsKnown ==
  /\ \A t \in turns : t \in [head : {1}, key : Nat, era : Nat] /\ Named(hold, t.key)
  /\ \A t, u \in turns : t.key = u.key => t = u
RetargetInv == ReviewsKnown /\ HoldKnown /\ ActorsKnown /\ TurnsKnown /\ Retargeted!FixAttested

LEMMA NoneIsNoHold ==
  ASSUME NEW h, NEW a, NEW o, NEW e, NEW f
  PROVE  [head |-> h, at |-> a, old |-> o, era |-> e, fresh |-> f] # Retargeted!None
BY DEF Retargeted!None

LEMMA RetargetInit == Retargeted!Init => RetargetInv
BY DEF Retargeted!Init, RetargetInv, ReviewsKnown, HoldKnown, ActorsKnown, TurnsKnown, Retargeted!FixAttested,
   Retargeted!Snapshot, Retargeted!Head, Retargeted!Base, Retargeted!Idle

\* Reviews come, and get their receipts; none goes.
LEMMA ReviewsCome ==
  ASSUME RetargetInv, UNCHANGED <<retargetPr, era, hold, turns, acts, proc, clock>>,
         \A r \in reviews' :
           /\ r \in [id : {r.id}, head : {1}, base : Retargeted!Base, era : Nat, receipt : BOOLEAN]
           /\ r.era = era \/ \E q \in reviews : q.id = r.id /\ q.era = r.era,
         \A q \in reviews : \E r \in reviews' : r.id = q.id /\ (q.receipt => r.receipt)
  PROVE  RetargetInv'
<1>1. ReviewsKnown'
  BY DEF RetargetInv, ReviewsKnown
<1>2. ASSUME NEW old, NEW e \in Nat, e <= era, After(old, e) PROVE After(old, e)'
  BY <1>2 DEF RetargetInv, ReviewsKnown, After
<1>3. HoldKnown'
  BY <1>2 DEF RetargetInv, HoldKnown
<1>4. ActorsKnown'
  <2>1. ASSUME NEW a \in Actor, proc[a].at = "set" PROVE proc[a].era \in Nat /\ proc[a].era <= era
    BY <2>1 DEF RetargetInv, ActorsKnown, Working
  <2> QED
    BY <1>2, <2>1 DEF RetargetInv, ActorsKnown, Working, Named
<1>5. TurnsKnown'
  BY DEF RetargetInv, TurnsKnown, Named
<1>6. Retargeted!FixAttested'
  BY DEF RetargetInv, Retargeted!FixAttested, Retargeted!ReceiptOf
<1> QED
  BY <1>1, <1>3, <1>4, <1>5, <1>6 DEF RetargetInv

\* An actor that takes a step leaves the others as they are, and what the others know stays so
\* while a hold that stands keeps its name.
LEMMA ActorSteps ==
  ASSUME RetargetInv, NEW a \in Actor, proc' = [proc EXCEPT ![a] = proc'[a]],
         UNCHANGED <<retargetPr, era, reviews>>, clock' \in Nat \ {0},
         hold # Retargeted!None => hold' # Retargeted!None /\ hold'.at = hold.at,
         HoldKnown', TurnsKnown', Retargeted!FixAttested',
         proc'[a].at # "idle" =>
           /\ Working(proc'[a]) /\ proc'[a].era <= era /\ Named(hold', proc'[a].key)
           /\ proc'[a].at = "set" => proc'[a].born # 0 /\ After(proc'[a].old, proc'[a].era)
           /\ proc'[a].at = "clear" \/ (proc'[a].at = "act" /\ proc'[a].observed) => hold' # Retargeted!None
  PROVE  RetargetInv'
<1>1. ReviewsKnown'
  BY DEF RetargetInv, ReviewsKnown
<1>2. proc' = [b \in Actor |-> proc'[b]] /\ \A b \in Actor : b # a => proc'[b] = proc[b]
  BY DEF RetargetInv, ActorsKnown
<1>3. \A key : Named(hold, key) => Named(hold', key)
  BY DEF Named
<1>4. ASSUME NEW b \in Actor, proc'[b].at # "idle"
      PROVE  /\ Working(proc'[b]) /\ proc'[b].era <= era /\ Named(hold', proc'[b].key)
             /\ proc'[b].at = "set" => proc'[b].born # 0 /\ After(proc'[b].old, proc'[b].era)
             /\ proc'[b].at = "clear" \/ (proc'[b].at = "act" /\ proc'[b].observed) => hold' # Retargeted!None
  <2>1. CASE b = a
    BY <1>4, <2>1
  <2>2. CASE b # a
    <3>1. proc'[b] = proc[b]
      BY <1>2, <2>2
    <3>2. /\ Working(proc[b]) /\ proc[b].era <= era /\ Named(hold, proc[b].key)
          /\ proc[b].at = "set" => proc[b].born # 0 /\ After(proc[b].old, proc[b].era)
          /\ proc[b].at = "clear" \/ (proc[b].at = "act" /\ proc[b].observed) => hold # Retargeted!None
      BY <1>4, <3>1 DEF RetargetInv, ActorsKnown
    <3> QED
      BY <1>3, <3>1, <3>2
  <2> QED
    BY <2>1, <2>2
<1>5. ActorsKnown'
  BY <1>2, <1>4 DEF ActorsKnown, Working, After
<1> QED
  BY <1>1, <1>5 DEF RetargetInv

\* While the hold and the turns stay as they are.
LEMMA StaysKnown ==
  ASSUME RetargetInv, UNCHANGED <<era, reviews, hold, turns, acts>>
  PROVE  HoldKnown' /\ TurnsKnown' /\ Retargeted!FixAttested' /\ \A key : Named(hold', key) = Named(hold, key)
BY DEF RetargetInv, HoldKnown, After, TurnsKnown, Named, Retargeted!FixAttested, Retargeted!ReceiptOf

LEMMA RetargetRecord ==
  ASSUME RetargetInv, NEW a \in Actor, NEW why \in {"edited", "sweep", "requested", "changes"}, NEW r,
         Retargeted!Record(a, why, r), UNCHANGED <<retargetPr, era, reviews, hold, turns, acts>>
  PROVE  RetargetInv'
<1> DEFINE p == Retargeted!Begin(why, r)
<1>1. /\ Working(p) /\ p.era = era /\ p.at \in {"start", "act"} /\ p.pr = retargetPr /\ p.observed = Retargeted!Boundary
      /\ p.key = IF Retargeted!Holds(retargetPr.head) THEN hold.at ELSE 0
  <2>1. (IF Retargeted!Holds(retargetPr.head) THEN hold.at ELSE 0) \in Nat
    BY DEF RetargetInv, HoldKnown, Retargeted!Holds
  <2> QED
    BY <2>1 DEF RetargetInv, ReviewsKnown, Working, Retargeted!Begin, Retargeted!TurnKey, Retargeted!Boundary
<1>2. Named(hold, p.key) /\ era \in Nat
  BY <1>1 DEF Named, Retargeted!Holds, RetargetInv, ReviewsKnown
<1> HIDE DEF p
<1>3. CASE Retargeted!Holds(retargetPr.head) \/ ~Retargeted!Boundary
  <2>1. proc' = [proc EXCEPT ![a] = p] /\ clock' = clock
    BY <1>3 DEF Retargeted!Record, p
  <2>2. p.observed => hold' # Retargeted!None
    BY <1>1, <1>3 DEF Retargeted!Holds
  <2>3. clock' \in Nat \ {0}
    BY <2>1 DEF RetargetInv, ReviewsKnown
  <2>4. proc'[a] = p /\ proc' = [proc EXCEPT ![a] = proc'[a]]
    BY <2>1 DEF RetargetInv, ActorsKnown
  <2> QED
    BY <1>1, <1>2, <2>2, <2>3, <2>4, ActorSteps, StaysKnown
<1>4. CASE ~(Retargeted!Holds(retargetPr.head) \/ ~Retargeted!Boundary)
  <2>1. PICK old \in {Retargeted!Baseline, Retargeted!Unread} :
          clock' = clock + 1 /\ proc' = [proc EXCEPT ![a] = [p EXCEPT !.at = "set", !.old = old, !.born = clock]]
    BY <1>4 DEF Retargeted!Record, p
  <2> DEFINE q == [p EXCEPT !.at = "set", !.old = old, !.born = clock]
  <2>2. clock \in Nat \ {0} /\ clock' \in Nat \ {0}
    BY <2>1 DEF RetargetInv, ReviewsKnown
  <2>3. Working(q) /\ q.era = p.era /\ q.key = p.key /\ q.at = "set" /\ q.old = old /\ q.born = clock
    BY <1>1, <2>2 DEF Working
  <2>4. After(old, era)
    BY DEF After, Retargeted!Baseline
  <2>5. proc'[a] = q /\ proc' = [proc EXCEPT ![a] = proc'[a]]
    BY <2>1 DEF RetargetInv, ActorsKnown
  <2> HIDE DEF q
  <2> QED
    BY <1>1, <1>2, <2>2, <2>3, <2>4, <2>5, ActorSteps, StaysKnown
<1> QED
  BY <1>3, <1>4

LEMMA RetargetSets ==
  ASSUME RetargetInv, NEW a \in Actor, Retargeted!SetHold(a) \/ Retargeted!Quarantine(a)
  PROVE  RetargetInv'
<1> DEFINE p == proc[a]
<1>1. /\ p.at # "idle" /\ Working(p) /\ p.era <= era /\ Named(hold, p.key) /\ retargetPr.head = 1 /\ p.pr.head = 1
      /\ UNCHANGED <<retargetPr, era, reviews, turns, acts, clock>> /\ clock \in Nat \ {0}
  BY DEF Retargeted!SetHold, Retargeted!Quarantine, RetargetInv, ActorsKnown, ReviewsKnown, Retargeted!work,
     Retargeted!github, Working, Retargeted!Snapshot, Retargeted!Head
<1>2. CASE Retargeted!SetHold(a)
  <2> DEFINE q == [p EXCEPT !.at = "clear", !.old = {}, !.born = 0]
  <2>1. proc'[a] = q /\ proc' = [proc EXCEPT ![a] = proc'[a]]
    BY <1>2 DEF Retargeted!SetHold, RetargetInv, ActorsKnown
  <2>2. Working(q) /\ q.at = "clear" /\ q.era = p.era /\ q.key = p.key
    BY <1>1 DEF Working
  <2>3. p.at = "set" /\ p.born # 0 /\ After(p.old, p.era)
    BY <1>2 DEF Retargeted!SetHold, RetargetInv, ActorsKnown
  <2>4. hold' = IF hold # Retargeted!None THEN hold ELSE Retargeted!Entry(p)
    BY <1>1, <1>2 DEF Retargeted!SetHold, Retargeted!Set, Retargeted!Holds, RetargetInv, HoldKnown
  <2>5. hold' # Retargeted!None /\ (hold # Retargeted!None => hold' = hold)
    BY <2>4, NoneIsNoHold DEF Retargeted!Entry
  <2>6. HoldKnown'
    <3>1. CASE hold # Retargeted!None
      BY <1>1, <2>4, <3>1 DEF RetargetInv, HoldKnown, After
    <3>2. CASE hold = Retargeted!None
      <4>1. hold' = [head |-> 1, at |-> p.born, old |-> p.old, era |-> p.era, fresh |-> "none"]
        BY <1>1, <2>4, <3>2 DEF Retargeted!Entry
      <4>2. p.born \in Nat \ {0} /\ p.era \in Nat
        BY <1>1, <2>3 DEF Working
      <4> QED
        BY <1>1, <2>3, <4>1, <4>2 DEF HoldKnown, After
    <3> QED
      BY <3>1, <3>2
  <2>7. \A key : Named(hold, key) => Named(hold', key)
    BY <2>5 DEF Named
  <2>8. TurnsKnown'
    BY <1>1, <2>7 DEF RetargetInv, TurnsKnown
  <2>9. Retargeted!FixAttested'
    BY <1>1 DEF RetargetInv, Retargeted!FixAttested, Retargeted!ReceiptOf
  <2> HIDE DEF p, q
  <2> QED
    BY <1>1, <2>1, <2>2, <2>5, <2>6, <2>7, <2>8, <2>9, ActorSteps
<1>3. CASE Retargeted!Quarantine(a)
  <2> DEFINE n == Retargeted!Next1(p)
             k == IF Retargeted!Holds(p.pr.head) THEN hold.at ELSE 0
             q == [p EXCEPT !.at = n, !.key = k]
  <2>1. proc'[a] = q /\ proc' = [proc EXCEPT ![a] = proc'[a]] /\ hold' = hold
    BY <1>3 DEF Retargeted!Quarantine, Retargeted!TurnKey, RetargetInv, ActorsKnown
  <2>2. n \in {"start", "act"} /\ k \in Nat /\ Named(hold, k)
    BY DEF Retargeted!Next1, Retargeted!Holds, RetargetInv, HoldKnown, Named
  <2>3. hold # Retargeted!None
    BY <1>3 DEF Retargeted!Quarantine, RetargetInv, ActorsKnown
  <2> HIDE DEF n, k, p
  <2>4. Working(q) /\ q.at \in {"start", "act"} /\ q.era = p.era /\ q.key = k
    BY <1>1, <2>2 DEF Working
  <2> HIDE DEF q
  <2> QED
    BY <1>1, <2>1, <2>2, <2>3, <2>4, ActorSteps, StaysKnown
<1> QED
  BY <1>2, <1>3

\* A turn is submitted under the name of the hold, or without one, and once.
LEMMA Submits ==
  ASSUME RetargetInv, NEW a \in Actor, proc[a].at # "idle", NEW STATE key, Named(hold, key),
         turns' = Retargeted!Submitted(Retargeted!Turn(proc[a], key)),
         hold # Retargeted!None => hold' # Retargeted!None /\ hold'.at = hold.at
  PROVE  TurnsKnown'
<1> DEFINE t == Retargeted!Turn(proc[a], key)
<1>1. t \in [head : {1}, key : Nat, era : Nat] /\ t.key = key
  <2>1. Working(proc[a]) /\ key \in Nat
    BY DEF RetargetInv, ActorsKnown, HoldKnown, Named
  <2> QED
    BY <2>1 DEF Retargeted!Turn, Working, Retargeted!Snapshot, Retargeted!Head
<1>2. /\ turns' \subseteq turns \cup {t}
      /\ turns' # turns => \A u \in turns : u.key # key
  BY <1>1 DEF Retargeted!Submitted, RetargetInv, TurnsKnown
<1>3. \A k : Named(hold, k) => Named(hold', k)
  BY DEF Named
<1>4. \A u \in turns' : u \in [head : {1}, key : Nat, era : Nat] /\ Named(hold', u.key)
  BY <1>1, <1>2, <1>3 DEF RetargetInv, TurnsKnown
<1>5. \A u, v \in turns' : u.key = v.key => u = v
  BY <1>1, <1>2 DEF RetargetInv, TurnsKnown
<1> QED
  BY <1>4, <1>5 DEF TurnsKnown

LEMMA RetargetStarts ==
  ASSUME RetargetInv, NEW a \in Actor, proc[a].at # "idle", Retargeted!StartFresh(proc[a]),
         proc' = [proc EXCEPT ![a] = Retargeted!Idle], UNCHANGED <<retargetPr, era, reviews, acts, clock>>
  PROVE  RetargetInv'
<1>1. proc'[a].at = "idle" /\ proc' = [proc EXCEPT ![a] = proc'[a]] /\ clock' \in Nat \ {0}
  BY DEF Retargeted!Idle, RetargetInv, ActorsKnown, ReviewsKnown
<1>2. CASE UNCHANGED <<turns, hold>>
  BY <1>1, <1>2, ActorSteps, StaysKnown
<1>3. CASE ~UNCHANGED <<turns, hold>>
  <2>1. /\ hold # Retargeted!None
        /\ \/ turns' = Retargeted!Submitted(Retargeted!Turn(proc[a], hold.at)) /\ hold' = [hold EXCEPT !.fresh = "enqueued"]
           \/ turns' = turns /\ hold' = [hold EXCEPT !.fresh = "retry"]
    BY <1>3 DEF Retargeted!StartFresh, Retargeted!Due, Retargeted!Eligible, Retargeted!Holds, Retargeted!TurnKey
  <2>2. PICK f \in {"enqueued", "retry"} : hold' = [hold EXCEPT !.fresh = f]
    BY <2>1
  <2>3. /\ hold \in [head : {1}, at : Nat \ {0}, old : {hold.old}, era : Nat, fresh : {"none", "enqueued", "retry"}]
        /\ hold.era <= era /\ After(hold.old, hold.era)
    BY <2>1 DEF RetargetInv, HoldKnown
  <2>4. hold' = [head |-> hold.head, at |-> hold.at, old |-> hold.old, era |-> hold.era, fresh |-> f]
    BY <2>2, <2>3
  <2>5. hold' # Retargeted!None /\ hold'.at = hold.at
    BY <2>4, NoneIsNoHold
  <2>6. HoldKnown'
    BY <2>3, <2>4 DEF HoldKnown, After
  <2>7. TurnsKnown'
    <3>1. CASE turns' = turns
      BY <2>5, <3>1 DEF RetargetInv, TurnsKnown, Named
    <3>2. CASE turns' # turns
      <4>1. Named(hold, hold.at)
        BY <2>1 DEF Named
      <4> QED
        BY <2>1, <2>5, <3>2, <4>1, Submits
    <3> QED
      BY <3>1, <3>2
  <2>8. Retargeted!FixAttested'
    BY DEF RetargetInv, Retargeted!FixAttested, Retargeted!ReceiptOf
  <2> QED
    BY <1>1, <2>5, <2>6, <2>7, <2>8, ActorSteps
<1> QED
  BY <1>2, <1>3

LEMMA RetargetActs ==
  ASSUME RetargetInv, NEW a \in Actor, Retargeted!Orders(a) \/ Retargeted!Fixes(a) \/ Retargeted!Die(a)
  PROVE  RetargetInv'
<1>1. /\ proc' = [proc EXCEPT ![a] = Retargeted!Idle] /\ UNCHANGED <<retargetPr, era, reviews, hold, clock>>
      /\ proc[a] # Retargeted!Idle
  BY DEF Retargeted!Orders, Retargeted!Fixes, Retargeted!Die, Retargeted!github, Retargeted!work, Retargeted!Idle
<1>2. proc'[a].at = "idle" /\ proc' = [proc EXCEPT ![a] = proc'[a]] /\ clock' \in Nat \ {0}
  BY <1>1 DEF Retargeted!Idle, RetargetInv, ActorsKnown, ReviewsKnown
<1>3. CASE Retargeted!Die(a)
  <2>1. UNCHANGED <<turns, acts>>
    BY <1>3 DEF Retargeted!Die, Retargeted!work
  <2> QED
    BY <1>1, <1>2, <2>1, ActorSteps, StaysKnown
<1>4. CASE Retargeted!Orders(a)
  <2>1. proc[a].at = "act" /\ acts' = acts
        /\ (turns' = turns \/ turns' = Retargeted!Submitted(Retargeted!Turn(proc[a], proc[a].key)))
    BY <1>4 DEF Retargeted!Orders
  <2>2. Named(hold, proc[a].key)
    BY <2>1 DEF RetargetInv, ActorsKnown
  <2>3. TurnsKnown'
    <3>1. CASE turns' = turns
      BY <1>1, <3>1 DEF RetargetInv, TurnsKnown
    <3>2. CASE turns' = Retargeted!Submitted(Retargeted!Turn(proc[a], proc[a].key))
      <4> DEFINE k == proc[a].key
      <4>1. turns' = Retargeted!Submitted(Retargeted!Turn(proc[a], k)) /\ Named(hold, k) /\ proc[a].at # "idle"
        BY <2>1, <2>2, <3>2
      <4> HIDE DEF k
      <4> QED
        BY <1>1, <4>1, Submits
    <3> QED
      BY <2>1, <3>1, <3>2
  <2>4. HoldKnown' /\ Retargeted!FixAttested'
    BY <1>1, <2>1 DEF RetargetInv, HoldKnown, After, Retargeted!FixAttested, Retargeted!ReceiptOf
  <2> QED
    BY <1>1, <1>2, <2>3, <2>4, ActorSteps
<1>5. CASE Retargeted!Fixes(a)
  <2>1. /\ turns' = turns /\ proc[a].at = "act"
        /\ \/ acts' = acts
           \/ /\ \E r \in Retargeted!Effective(proc[a].pr.head) : r.id = proc[a].review
              /\ acts' = Retargeted!Kept(Retargeted!Act("fix", proc[a]))
    BY <1>5 DEF Retargeted!Fixes, Retargeted!work
  <2>2. Working(proc[a]) /\ (proc[a].observed => hold # Retargeted!None) /\ (hold # Retargeted!None => hold.head = 1)
    BY <2>1 DEF RetargetInv, ActorsKnown, HoldKnown
  <2>3. proc[a].pr.head = 1
    BY <2>2 DEF Working, Retargeted!Snapshot, Retargeted!Head
  <2>4. Retargeted!FixAttested'
    <3>1. CASE acts' = acts
      BY <1>1, <3>1 DEF RetargetInv, Retargeted!FixAttested, Retargeted!ReceiptOf
    <3>2. CASE acts' # acts
      <4>1. PICK r \in Retargeted!Effective(1) : r.id = proc[a].review
        BY <2>1, <2>3, <3>2
      <4>2. proc[a].observed => r \in reviews /\ r.receipt
        BY <2>2, <4>1 DEF Retargeted!Effective, Retargeted!Holds
      <4>3. \A x \in acts' : x.observed = proc[a].observed /\ x.review = proc[a].review
        BY <2>1, <3>2 DEF Retargeted!Act, Retargeted!Kept
      <4> QED
        BY <1>1, <4>1, <4>2, <4>3 DEF Retargeted!FixAttested, Retargeted!ReceiptOf
    <3> QED
      BY <3>1, <3>2
  <2>5. HoldKnown' /\ TurnsKnown'
    BY <1>1, <2>1 DEF RetargetInv, HoldKnown, After, TurnsKnown
  <2> QED
    BY <1>1, <1>2, <2>4, <2>5, ActorSteps
<1> QED
  BY <1>3, <1>4, <1>5

\* GitHub: the base changes, the draft is ready; persons and the run of a turn write reviews.
LEMMA RetargetHub ==
  ASSUME RetargetInv,
         \/ Retargeted!Push \/ Retargeted!Rebase \/ Retargeted!Ready \/ Retargeted!Approved
         \/ Retargeted!EscalateCount \/ Retargeted!EscalateMark \/ Retargeted!Pin \/ Retargeted!PersonReviews \/ Retargeted!Post \/ Retargeted!Confirm
  PROVE  RetargetInv'
<1>1. ReviewsKnown
  BY DEF RetargetInv
<1>2. ASSUME era' \in Nat, era <= era', retargetPr' \in Retargeted!Snapshot,
             UNCHANGED <<reviews, hold, turns, acts, proc, clock>>
      PROVE  RetargetInv'
  <2>1. ReviewsKnown' /\ HoldKnown' /\ TurnsKnown' /\ Retargeted!FixAttested'
    BY <1>1, <1>2 DEF RetargetInv, ReviewsKnown, HoldKnown, After, TurnsKnown, Retargeted!FixAttested, Retargeted!ReceiptOf
  <2>2. ActorsKnown'
    BY <1>1, <1>2 DEF RetargetInv, ActorsKnown, ReviewsKnown, Working, After
  <2> QED
    BY <2>1, <2>2 DEF RetargetInv
<1>3. CASE Retargeted!Push
  BY <1>1, <1>3 DEF Retargeted!Push, ReviewsKnown, Retargeted!Snapshot, Retargeted!Head
<1>4. CASE Retargeted!Rebase \/ Retargeted!Ready
  <2>1. era' \in Nat /\ era <= era' /\ retargetPr' \in Retargeted!Snapshot
    <3>1. CASE Retargeted!Rebase
      BY <1>1, <3>1 DEF Retargeted!Rebase, ReviewsKnown, Retargeted!Snapshot, Retargeted!Base
    <3>2. CASE Retargeted!Ready
      <4>1. retargetPr' = [retargetPr EXCEPT !.draft = FALSE] /\ era' = era
        BY <3>2 DEF Retargeted!Ready
      <4>2. retargetPr' \in Retargeted!Snapshot
        BY <1>1, <4>1 DEF ReviewsKnown, Retargeted!Snapshot
      <4> QED
        BY <1>1, <4>1, <4>2 DEF ReviewsKnown
    <3> QED
      BY <1>4, <3>1, <3>2
  <2>2. UNCHANGED <<reviews, hold, turns, acts, proc, clock>>
    BY <1>4 DEF Retargeted!Rebase, Retargeted!Ready, Retargeted!work
  <2> QED
    BY <1>2, <2>1, <2>2
<1>5. CASE Retargeted!EscalateCount \/ Retargeted!EscalateMark \/ Retargeted!Pin
  <2>1. UNCHANGED <<retargetPr, era, reviews, hold, turns, acts, proc, clock>>
    BY <1>5 DEF Retargeted!EscalateCount, Retargeted!EscalateMark, Retargeted!Pin, Retargeted!github, Retargeted!work
  <2> QED
    BY <1>1, <1>2, <2>1 DEF ReviewsKnown
<1>6. CASE Retargeted!Approved
  <2>1. UNCHANGED <<retargetPr, era, reviews, hold, turns, proc, clock>> /\ \A x \in acts' : x.kind = "merge"
    BY <1>6 DEF Retargeted!Approved, Retargeted!Kept, Retargeted!github, Retargeted!work
  <2>2. Retargeted!FixAttested'
    BY <2>1 DEF Retargeted!FixAttested
  <2>3. ReviewsKnown' /\ HoldKnown' /\ TurnsKnown'
    BY <1>1, <2>1 DEF RetargetInv, ReviewsKnown, HoldKnown, After, TurnsKnown
  <2>4. ActorsKnown'
    BY <2>1 DEF RetargetInv, ActorsKnown, Working, After
  <2> QED
    BY <2>2, <2>3, <2>4 DEF RetargetInv
<1>7. CASE Retargeted!PersonReviews \/ Retargeted!Post
  <2>1. /\ UNCHANGED <<retargetPr, era, hold, turns, acts, proc, clock>>
        /\ reviews' = reviews \/ reviews' = reviews \cup {Retargeted!Review(FALSE)}
    BY <1>7 DEF Retargeted!PersonReviews, Retargeted!Post, Retargeted!github, Retargeted!work
  <2> DEFINE n == Retargeted!Review(FALSE)
  <2>2. n \in [id : {n.id}, head : {1}, base : Retargeted!Base, era : Nat, receipt : BOOLEAN] /\ n.era = era
    BY <1>1 DEF ReviewsKnown, Retargeted!Review, Retargeted!Snapshot, Retargeted!Head
  <2> HIDE DEF n
  <2>3. reviews' = reviews \/ reviews' = reviews \cup {n}
    BY <2>1 DEF n
  <2> QED
    BY <1>1, <2>1, <2>2, <2>3, ReviewsCome DEF ReviewsKnown
<1>8. CASE Retargeted!Confirm
  <2>1. UNCHANGED <<retargetPr, era, hold, turns, acts, proc, clock>>
    BY <1>8 DEF Retargeted!Confirm, Retargeted!github
  <2>2. CASE reviews' = reviews
    BY <1>1, <2>1, <2>2, ReviewsCome DEF ReviewsKnown
  <2>3. CASE reviews' = {IF r.id = run.posted THEN [r EXCEPT !.receipt = TRUE] ELSE r : r \in reviews}
    <3>1. ASSUME NEW q \in reviews
          PROVE  /\ [q EXCEPT !.receipt = TRUE] \in [id : {q.id}, head : {1}, base : Retargeted!Base, era : Nat, receipt : BOOLEAN]
                 /\ [q EXCEPT !.receipt = TRUE].id = q.id /\ [q EXCEPT !.receipt = TRUE].era = q.era
                 /\ [q EXCEPT !.receipt = TRUE].receipt = TRUE
      BY <1>1 DEF ReviewsKnown
    <3>2. \A r \in reviews' :
            /\ r \in [id : {r.id}, head : {1}, base : Retargeted!Base, era : Nat, receipt : BOOLEAN]
            /\ \E q \in reviews : q.id = r.id /\ q.era = r.era
      BY <1>1, <2>3, <3>1 DEF ReviewsKnown
    <3>3. \A q \in reviews : \E r \in reviews' : r.id = q.id /\ (q.receipt => r.receipt)
      <4>1. ASSUME NEW q \in reviews PROVE \E r \in reviews' : r.id = q.id /\ (q.receipt => r.receipt)
        <5> DEFINE r == IF q.id = run.posted THEN [q EXCEPT !.receipt = TRUE] ELSE q
        <5>1. r \in reviews'
          BY <2>3
        <5>2. r.id = q.id /\ (q.receipt => r.receipt)
          BY <3>1
        <5> QED
          BY <5>1, <5>2
      <4> QED
        BY <4>1
    <3> QED
      BY <2>1, <3>2, <3>3, ReviewsCome
  <2> QED
    BY <1>8, <2>2, <2>3 DEF Retargeted!Confirm
<1> QED
  BY <1>3, <1>4, <1>5, <1>6, <1>7, <1>8

LEMMA RetargetStep == RetargetInv /\ [Retargeted!Next]_retargetVars => RetargetInv'
<1> SUFFICES ASSUME RetargetInv, [Retargeted!Next]_retargetVars PROVE RetargetInv'
  OBVIOUS
<1> USE EventsAssumption
<1>1. Sweep \in Actor
  BY DEF Retargeted!RetargetAssumption
<1>2. CASE UNCHANGED retargetVars
  <2>1. UNCHANGED <<retargetPr, era, reviews, hold, turns, acts, proc, clock>>
    BY <1>2 DEF retargetVars
  <2> QED
    BY <2>1, ReviewsCome DEF RetargetInv, ReviewsKnown
<1>3. CASE Retargeted!SweepLooks
  <2>1. UNCHANGED <<retargetPr, era, reviews, hold, turns, acts>>
    BY <1>3 DEF Retargeted!SweepLooks, Retargeted!github, Retargeted!work
  <2>2. CASE Retargeted!Record(Sweep, "sweep", 0)
    BY <1>1, <2>1, <2>2, RetargetRecord
  <2>3. CASE ~Retargeted!Record(Sweep, "sweep", 0)
    <3> DEFINE p == Retargeted!Begin("sweep", 0)
               q == [p EXCEPT !.at = "fresh"]
    <3>1. proc' = [proc EXCEPT ![Sweep] = q] /\ clock' = clock
      BY <1>3, <2>3 DEF Retargeted!SweepLooks
    <3>2. /\ Working(p) /\ p.era = era /\ p.key = IF Retargeted!Holds(retargetPr.head) THEN hold.at ELSE 0
      <4>1. (IF Retargeted!Holds(retargetPr.head) THEN hold.at ELSE 0) \in Nat
        BY DEF RetargetInv, HoldKnown, Retargeted!Holds
      <4> QED
        BY <4>1 DEF RetargetInv, ReviewsKnown, Working, Retargeted!Begin, Retargeted!TurnKey, Retargeted!Boundary
    <3>3. Named(hold, p.key) /\ era \in Nat
      BY <3>2 DEF Named, Retargeted!Holds, RetargetInv, ReviewsKnown
    <3> HIDE DEF p
    <3>4. Working(q) /\ q.at = "fresh" /\ q.era = era /\ q.key = p.key
      BY <3>2 DEF Working
    <3> HIDE DEF q
    <3>5. proc'[Sweep] = q /\ proc' = [proc EXCEPT ![Sweep] = proc'[Sweep]] /\ clock' \in Nat \ {0}
      BY <1>1, <3>1 DEF RetargetInv, ActorsKnown, ReviewsKnown
    <3> QED
      BY <1>1, <2>1, <3>3, <3>4, <3>5, ActorSteps, StaysKnown
  <2> QED
    BY <2>2, <2>3
<1>4. CASE Retargeted!RetryFresh
  <2>1. /\ proc[Sweep].at # "idle" /\ Retargeted!StartFresh(proc[Sweep])
        /\ proc' = [proc EXCEPT ![Sweep] = Retargeted!Idle] /\ UNCHANGED <<retargetPr, era, reviews, acts, clock>>
    BY <1>4 DEF Retargeted!RetryFresh, Retargeted!Retry, Retargeted!github
  <2> QED
    BY <1>1, <2>1, RetargetStarts
<1>5. ASSUME NEW a \in Actor, Retargeted!EditedHook(a) \/ Retargeted!ReviewerGate(a) \/ Retargeted!FixerGate(a)
      PROVE  RetargetInv'
  <2>1. UNCHANGED <<retargetPr, era, reviews, hold, turns, acts>>
    BY <1>5 DEF Retargeted!EditedHook, Retargeted!ReviewerGate, Retargeted!FixerGate, Retargeted!github, Retargeted!work
  <2>2. \/ Retargeted!Record(a, "edited", 0) \/ Retargeted!Record(a, "requested", 0)
        \/ \E r \in reviews : Retargeted!Record(a, "changes", r.id)
    BY <1>5 DEF Retargeted!EditedHook, Retargeted!ReviewerGate, Retargeted!FixerGate, Retargeted!FixRecord
  <2>3. CASE Retargeted!Record(a, "edited", 0)
    BY <2>1, <2>3, RetargetRecord
  <2>4. CASE Retargeted!Record(a, "requested", 0)
    BY <2>1, <2>4, RetargetRecord
  <2>5. CASE \E r \in reviews : Retargeted!Record(a, "changes", r.id)
    BY <2>1, <2>5, RetargetRecord
  <2> QED
    BY <2>2, <2>3, <2>4, <2>5
<1>6. ASSUME NEW a \in Actor, Retargeted!Start(a) PROVE RetargetInv'
  <2>1. /\ proc[a].at # "idle" /\ Retargeted!StartFresh(proc[a])
        /\ proc' = [proc EXCEPT ![a] = Retargeted!Idle] /\ UNCHANGED <<retargetPr, era, reviews, acts, clock>>
    BY <1>6 DEF Retargeted!Start, Retargeted!github
  <2> QED
    BY <2>1, RetargetStarts
<1>7. \/ UNCHANGED retargetVars \/ Retargeted!SweepLooks \/ Retargeted!RetryFresh
      \/ Retargeted!Push \/ Retargeted!Rebase \/ Retargeted!Ready \/ Retargeted!Approved
      \/ Retargeted!EscalateCount \/ Retargeted!EscalateMark \/ Retargeted!Pin \/ Retargeted!PersonReviews \/ Retargeted!Post \/ Retargeted!Confirm
      \/ \E a \in Actor :
           \/ Retargeted!EditedHook(a) \/ Retargeted!ReviewerGate(a) \/ Retargeted!FixerGate(a)
           \/ Retargeted!SetHold(a) \/ Retargeted!Quarantine(a) \/ Retargeted!Start(a)
           \/ Retargeted!Orders(a) \/ Retargeted!Fixes(a) \/ Retargeted!Die(a)
  BY DEF Retargeted!Next, Retargeted!Steps
<1> QED
  BY <1>2, <1>3, <1>4, <1>5, <1>6, <1>7, RetargetHub, RetargetSets, RetargetActs

LEMMA TurnsCounted ==
  ASSUME NEW S PROVE Retargeted!Cardinality(S) = Cardinality(S)
BY DEF Retargeted!Cardinality, Cardinality

LEMMA RetargetMeans ==
  RetargetInv => Retargeted!Attested /\ Retargeted!FixAttested /\ Retargeted!OneTurn
<1> SUFFICES ASSUME RetargetInv PROVE Retargeted!Attested /\ Retargeted!FixAttested /\ Retargeted!OneTurn
  OBVIOUS
<1>1. Retargeted!Attested
  <2>1. ASSUME Retargeted!Holds(retargetPr.head), NEW r \in Retargeted!Effective(retargetPr.head)
        PROVE  r.receipt /\ r.era >= hold.era
    <3>1. hold.old # Retargeted!Unread /\ r \in reviews /\ r.receipt /\ r.id \notin hold.old
      BY <2>1 DEF Retargeted!Effective, Retargeted!BaselineMissing
    <3>2. After(hold.old, hold.era)
      BY <2>1 DEF Retargeted!Holds, RetargetInv, HoldKnown
    <3> QED
      BY <3>1, <3>2 DEF After
  <2> QED
    BY <2>1 DEF Retargeted!Attested
<1>2. Retargeted!FixAttested
  BY DEF RetargetInv
<1>3. Retargeted!OneTurn
  <2> SUFFICES ASSUME hold # Retargeted!None
               PROVE  Cardinality({t \in turns : t.key > 0 /\ t.head = hold.head /\ t.era >= hold.era}) <= 1
    BY TurnsCounted DEF Retargeted!OneTurn
  <2> DEFINE S == {t \in turns : t.key > 0 /\ t.head = hold.head /\ t.era >= hold.era}
  <2>1. \A t, u \in S : t = u
    BY DEF RetargetInv, TurnsKnown, Named
  <2> HIDE DEF S
  <2>2. Cardinality(S) <= 1
    <3>1. CASE S = {}
      BY <3>1, FS_EmptySet
    <3>2. CASE S # {}
      <4>1. PICK t \in S : S = {t}
        BY <2>1, <3>2
      <4>2. Cardinality(S) = 1
        BY <4>1, FS_Singleton
      <4> QED
        BY <4>2
    <3> QED
      BY <3>1, <3>2
  <2> QED
    BY <2>2 DEF S
<1> QED
  BY <1>1, <1>2, <1>3

(***************************************************************************)
(* Heads are pushed, and the watch's sweep and the gates record holds of   *)
(* them. The markers that stood go in a step of their own, after the       *)
(* record; until then the process that recorded is about to take it, for   *)
(* none dies.                                                              *)
(***************************************************************************)
Recording(p) ==
  p \in [at : {"set", "clear", "start", "act", "fresh"}, why : {p.why}, review : {p.review}, pr : {p.pr},
         observed : {p.observed}, era : {p.era}, key : {p.key}, old : {p.old}, born : {p.born}]
Recorded(p) == p.at = "idle" \/ Recording(p)
HoldTimed ==
  hold # RetargetPushed!None =>
    hold = [head |-> hold.head, at |-> hold.at, old |-> hold.old, era |-> hold.era, fresh |-> hold.fresh]
\* A marker at the head of the hold that was written before the hold was recorded.
Outlived ==
  hold # RetargetPushed!None /\ breach # RetargetPushed!None /\ breach.head = hold.head /\ ~breach.held
PushedInv ==
  /\ left = [failures |-> 0, deaths |-> 0]
  /\ HoldTimed
  /\ proc = [a \in Actor |-> proc[a]] /\ \A a \in Actor : Recorded(proc[a])
  /\ Outlived => \E a \in Actor : proc[a].at = "clear"

LEMMA PushedMeans == PushedInv => RetargetPushed!Cleared
BY DEF PushedInv, HoldTimed, Outlived, RetargetPushed!Cleared, RetargetPushed!Recorded, RetargetPushed!Escalated

LEMMA PushedInit == RetargetPushed!Init => PushedInv
BY DEF RetargetPushed!Init, PushedInv, HoldTimed, Recorded, Outlived, RetargetPushed!Idle

\* An actor that does not clear leaves the head of the hold, or is about to clear.
LEMMA PushedActs ==
  ASSUME PushedInv, NEW a \in Actor, proc' = [proc EXCEPT ![a] = proc'[a]], UNCHANGED left,
         Recorded(proc'[a]), HoldTimed', breach' \in {breach, RetargetPushed!None},
         \/ breach' = RetargetPushed!None \/ proc'[a].at = "clear"
         \/ proc[a].at # "clear" /\ (Outlived' => Outlived)
  PROVE  PushedInv'
<1>1. proc' = [b \in Actor |-> proc'[b]] /\ \A b \in Actor : b # a => proc'[b] = proc[b]
  BY DEF PushedInv
<1>2. \A b \in Actor : Recorded(proc'[b])
  BY <1>1 DEF PushedInv
<1>3. Outlived' => \E b \in Actor : proc'[b].at = "clear"
  BY <1>1 DEF PushedInv, Outlived
<1>4. (\A b \in Actor : Recorded(proc[b]))'
  BY <1>2 DEF Recorded, Recording
<1> QED
  BY <1>1, <1>3, <1>4 DEF PushedInv

\* What is not about a hold, or begins with a read of the pull request.
LEMMA PushedBegins ==
  ASSUME PushedInv, NEW a \in Actor, proc[a].at # "clear", UNCHANGED <<hold, breach, left>>,
         proc' = [proc EXCEPT ![a] = proc'[a]], Recorded(proc'[a])
  PROVE  PushedInv'
<1>1. HoldTimed' /\ (Outlived' => Outlived)
  BY DEF PushedInv, HoldTimed, Outlived
<1> QED
  BY <1>1, PushedActs

LEMMA PushedRecord ==
  ASSUME PushedInv, NEW a \in Actor, NEW why \in {"edited", "sweep", "requested", "changes"}, NEW r,
         proc[a].at # "clear", RetargetPushed!Record(a, why, r), UNCHANGED <<hold, breach>>
  PROVE  PushedInv'
<1> DEFINE p == RetargetPushed!Begin(why, r)
<1>1. Recording(p) /\ p.at \in {"start", "act"}
  BY DEF PushedInv, Recording, RetargetPushed!Begin
<1> HIDE DEF p
<1>2. CASE RetargetPushed!Holds(retargetPr.head) \/ ~RetargetPushed!Boundary
  <2>1. proc' = [proc EXCEPT ![a] = p] /\ left' = left
    BY <1>2 DEF RetargetPushed!Record, p
  <2>2. proc'[a] = p /\ proc' = [proc EXCEPT ![a] = proc'[a]] /\ Recorded(p)
    BY <1>1, <2>1 DEF PushedInv, Recorded
  <2> QED
    BY <2>1, <2>2, PushedBegins
<1>3. CASE ~(RetargetPushed!Holds(retargetPr.head) \/ ~RetargetPushed!Boundary)
  <2>1. PICK old \in {RetargetPushed!Baseline, RetargetPushed!Unread} :
          /\ proc' = [proc EXCEPT ![a] = [p EXCEPT !.at = "set", !.old = old, !.born = clock]]
          /\ left' = left \/ left.failures > 0
    BY <1>3 DEF RetargetPushed!Record, RetargetPushed!ReadFails, p
  <2> DEFINE q == [p EXCEPT !.at = "set", !.old = old, !.born = clock]
  <2>2. Recording(q)
    BY <1>1 DEF Recording
  <2>3. left' = left
    BY <2>1 DEF PushedInv
  <2>4. proc'[a] = q /\ proc' = [proc EXCEPT ![a] = proc'[a]] /\ Recorded(q)
    BY <1>1, <2>1, <2>2 DEF PushedInv, Recorded
  <2> QED
    BY <2>3, <2>4, PushedBegins
<1> QED
  BY <1>2, <1>3

LEMMA PushedSets ==
  ASSUME PushedInv, NEW a \in Actor, RetargetPushed!SetHold(a) \/ RetargetPushed!Quarantine(a)
  PROVE  PushedInv'
<1> DEFINE p == proc[a]
<1>1. Recording(p) /\ UNCHANGED left
  BY DEF RetargetPushed!SetHold, RetargetPushed!Quarantine, RetargetPushed!github, PushedInv, Recorded, Recording
<1>2. CASE RetargetPushed!SetHold(a)
  <2> DEFINE q == [p EXCEPT !.at = "clear", !.old = {}, !.born = 0]
  <2>1. proc'[a] = q /\ proc' = [proc EXCEPT ![a] = proc'[a]] /\ breach' = breach
    BY <1>2 DEF RetargetPushed!SetHold, PushedInv
  <2>2. Recording(q) /\ q.at = "clear"
    BY <1>1 DEF Recording
  <2>3. Recorded(q)
    BY <1>1, <2>2 DEF Recorded
  <2>4. HoldTimed'
    <3>1. hold' = hold \/ hold' = RetargetPushed!Entry(p)
      BY <1>2 DEF RetargetPushed!SetHold, RetargetPushed!Set, RetargetPushed!Holds
    <3>2. CASE hold' = hold
      BY <1>1, <3>2 DEF PushedInv, HoldTimed
    <3>3. CASE hold' = RetargetPushed!Entry(p)
      BY <1>1, <3>3 DEF HoldTimed, RetargetPushed!Entry
    <3> QED
      BY <3>1, <3>2, <3>3
  <2> HIDE DEF p, q
  <2> QED
    BY <1>1, <2>1, <2>2, <2>3, <2>4, PushedActs
<1>3. CASE RetargetPushed!Quarantine(a)
  <2> DEFINE n == RetargetPushed!Next1(p)
             k == IF RetargetPushed!Holds(p.pr.head) THEN RetargetPushed!TurnKey(hold) ELSE 0
             q == [p EXCEPT !.at = n, !.key = k]
  <2>1. proc'[a] = q /\ proc' = [proc EXCEPT ![a] = proc'[a]] /\ hold' = hold /\ breach' = RetargetPushed!None
    BY <1>3 DEF RetargetPushed!Quarantine, RetargetPushed!Clear, PushedInv
  <2>2. n \in {"start", "act"}
    BY DEF RetargetPushed!Next1
  <2> HIDE DEF n, k, p
  <2>3. Recording(q)
    BY <1>1, <2>2 DEF Recording
  <2> HIDE DEF q
  <2>4. HoldTimed' /\ Recorded(q)
    BY <1>1, <2>1, <2>3 DEF PushedInv, HoldTimed, Recorded
  <2> QED
    BY <1>1, <2>1, <2>4, PushedActs
<1> QED
  BY <1>2, <1>3

\* The fresh turn: the hold keeps its head.
LEMMA PushedStarts ==
  ASSUME PushedInv, NEW a \in Actor, proc[a].at # "clear", RetargetPushed!StartFresh(proc[a]),
         proc' = [proc EXCEPT ![a] = RetargetPushed!Idle], UNCHANGED breach
  PROVE  PushedInv'
<1>1. proc'[a].at = "idle" /\ proc' = [proc EXCEPT ![a] = proc'[a]] /\ Recorded(proc'[a])
  BY DEF RetargetPushed!Idle, PushedInv, Recorded
<1>2. /\ left' = left
      /\ hold' = hold \/ \E f \in {"enqueued", "retry"} : hold # RetargetPushed!None /\ hold' = [hold EXCEPT !.fresh = f]
  BY DEF RetargetPushed!StartFresh, RetargetPushed!ReadFails, RetargetPushed!Due, RetargetPushed!Eligible,
     RetargetPushed!Holds, PushedInv
<1>3. CASE hold' = hold
  BY <1>1, <1>2, <1>3, PushedBegins
<1>4. CASE hold' # hold
  <2>1. PICK f \in {"enqueued", "retry"} : hold # RetargetPushed!None /\ hold' = [hold EXCEPT !.fresh = f]
    BY <1>2, <1>4
  <2>2. hold = [head |-> hold.head, at |-> hold.at, old |-> hold.old, era |-> hold.era, fresh |-> hold.fresh]
    BY <2>1 DEF PushedInv, HoldTimed
  <2>3. hold' = [head |-> hold.head, at |-> hold.at, old |-> hold.old, era |-> hold.era, fresh |-> f]
    BY <2>1, <2>2
  <2>4. HoldTimed' /\ (Outlived' => Outlived)
    BY <2>1, <2>3 DEF PushedInv, HoldTimed, Outlived
  <2> QED
    BY <1>1, <1>2, <2>4, PushedActs
<1> QED
  BY <1>3, <1>4

LEMMA PushedStep == PushedInv /\ [RetargetPushed!Next]_retargetVars => PushedInv'
<1> SUFFICES ASSUME PushedInv, [RetargetPushed!Next]_retargetVars PROVE PushedInv'
  OBVIOUS
<1>1. Sweep \in Actor
  BY EventsAssumption DEF RetargetPushed!RetargetAssumption
<1>2. RetargetPushed!Idle.at = "idle"
  BY DEF RetargetPushed!Idle
\* GitHub's changes, the run of a turn, and what an approval cues.
<1>3. CASE \/ UNCHANGED retargetVars
           \/ RetargetPushed!Push \/ RetargetPushed!Rebase \/ RetargetPushed!Ready \/ RetargetPushed!PersonReviews
           \/ RetargetPushed!Approved \/ RetargetPushed!Pin \/ RetargetPushed!Post \/ RetargetPushed!Confirm
           \/ RetargetPushed!EscalateCount
  <2>1. UNCHANGED <<hold, breach, proc, left>>
    BY <1>3 DEF RetargetPushed!Push, RetargetPushed!Rebase, RetargetPushed!Ready, RetargetPushed!PersonReviews,
       RetargetPushed!Approved, RetargetPushed!Pin, RetargetPushed!Post, RetargetPushed!Confirm,
       RetargetPushed!EscalateCount, RetargetPushed!github, RetargetPushed!work, retargetVars
  <2>2. HoldTimed' /\ (Outlived' => Outlived) /\ (\A a \in Actor : Recorded(proc[a]))'
    BY <2>1 DEF PushedInv, HoldTimed, Outlived, Recorded, Recording
  <2> QED
    BY <2>1, <2>2 DEF PushedInv
\* A marker that is written at the head of the hold is written under it.
<1>4. CASE RetargetPushed!EscalateMark
  <2>1. /\ UNCHANGED <<hold, proc, left>>
        /\ breach' = breach \/ breach' = [head |-> cue, held |-> RetargetPushed!Holds(cue)]
    BY <1>4 DEF RetargetPushed!EscalateMark, RetargetPushed!github
  <2>2. HoldTimed' /\ (\A a \in Actor : Recorded(proc[a]))'
    BY <2>1 DEF PushedInv, HoldTimed, Recorded, Recording
  <2>3. Outlived' => Outlived
    <3>1. CASE breach' = breach
      BY <2>1, <3>1 DEF Outlived
    <3>2. CASE breach' = [head |-> cue, held |-> RetargetPushed!Holds(cue)]
      <4>1. CASE RetargetPushed!Holds(cue)
        BY <3>2, <4>1 DEF Outlived
      <4>2. CASE ~RetargetPushed!Holds(cue)
        <5>1. breach'.head = cue
          BY <3>2
        <5> QED
          BY <2>1, <4>2, <5>1 DEF Outlived, RetargetPushed!Holds
      <4> QED
        BY <4>1, <4>2
    <3> QED
      BY <2>1, <3>1, <3>2
  <2> QED
    BY <2>1, <2>2, <2>3 DEF PushedInv
<1>5. CASE RetargetPushed!SweepLooks
  <2>1. UNCHANGED <<hold, breach>> /\ proc[Sweep].at # "clear"
    BY <1>2, <1>5 DEF RetargetPushed!SweepLooks, RetargetPushed!github
  <2>2. CASE RetargetPushed!Record(Sweep, "sweep", 0)
    BY <1>1, <2>1, <2>2, PushedRecord
  <2>3. CASE ~RetargetPushed!Record(Sweep, "sweep", 0)
    <3> DEFINE q == [RetargetPushed!Begin("sweep", 0) EXCEPT !.at = "fresh"]
    <3>1. proc' = [proc EXCEPT ![Sweep] = q] /\ left' = left
      BY <1>5, <2>3 DEF RetargetPushed!SweepLooks
    <3>2. Recording(q)
      BY DEF PushedInv, Recording, RetargetPushed!Begin
    <3> HIDE DEF q
    <3>3. proc'[Sweep] = q /\ proc' = [proc EXCEPT ![Sweep] = proc'[Sweep]] /\ Recorded(q)
      BY <1>1, <3>1, <3>2 DEF PushedInv, Recorded
    <3> QED
      BY <1>1, <2>1, <3>1, <3>3, PushedBegins
  <2> QED
    BY <2>2, <2>3
<1>6. CASE RetargetPushed!RetryFresh
  <2>1. /\ proc[Sweep].at # "clear" /\ RetargetPushed!StartFresh(proc[Sweep])
        /\ proc' = [proc EXCEPT ![Sweep] = RetargetPushed!Idle] /\ UNCHANGED breach
    BY <1>6 DEF RetargetPushed!RetryFresh, RetargetPushed!Retry, RetargetPushed!github
  <2> QED
    BY <1>1, <2>1, PushedStarts
<1>7. ASSUME NEW a \in Actor,
             RetargetPushed!EditedHook(a) \/ RetargetPushed!ReviewerGate(a) \/ RetargetPushed!FixerGate(a)
      PROVE  PushedInv'
  <2>1. UNCHANGED <<hold, breach>> /\ proc[a].at # "clear"
    BY <1>2, <1>7 DEF RetargetPushed!EditedHook, RetargetPushed!ReviewerGate, RetargetPushed!FixerGate, RetargetPushed!github
  <2>2. \/ RetargetPushed!Record(a, "edited", 0) \/ RetargetPushed!Record(a, "requested", 0)
        \/ \E r \in reviews : RetargetPushed!Record(a, "changes", r.id)
    BY <1>7 DEF RetargetPushed!EditedHook, RetargetPushed!ReviewerGate, RetargetPushed!FixerGate, RetargetPushed!FixRecord
  <2>3. CASE RetargetPushed!Record(a, "edited", 0)
    BY <2>1, <2>3, PushedRecord
  <2>4. CASE RetargetPushed!Record(a, "requested", 0)
    BY <2>1, <2>4, PushedRecord
  <2>5. CASE \E r \in reviews : RetargetPushed!Record(a, "changes", r.id)
    BY <2>1, <2>5, PushedRecord
  <2> QED
    BY <2>2, <2>3, <2>4, <2>5
<1>8. ASSUME NEW a \in Actor, RetargetPushed!Start(a) PROVE PushedInv'
  <2>1. /\ proc[a].at # "clear" /\ RetargetPushed!StartFresh(proc[a])
        /\ proc' = [proc EXCEPT ![a] = RetargetPushed!Idle] /\ UNCHANGED breach
    BY <1>8 DEF RetargetPushed!Start, RetargetPushed!github
  <2> QED
    BY <2>1, PushedStarts
<1>9. ASSUME NEW a \in Actor, RetargetPushed!Orders(a) \/ RetargetPushed!Fixes(a) \/ RetargetPushed!Die(a)
      PROVE  PushedInv'
  <2>1. ~RetargetPushed!Die(a)
    BY DEF RetargetPushed!Die, PushedInv
  <2>2. /\ proc[a].at # "clear" /\ UNCHANGED <<hold, breach, left>>
        /\ proc' = [proc EXCEPT ![a] = RetargetPushed!Idle]
    BY <1>9, <2>1 DEF RetargetPushed!Orders, RetargetPushed!Fixes, RetargetPushed!github
  <2>3. proc' = [proc EXCEPT ![a] = proc'[a]] /\ Recorded(proc'[a])
    BY <1>2, <2>2 DEF PushedInv, Recorded
  <2> QED
    BY <2>2, <2>3, PushedBegins
<1>10. \/ UNCHANGED retargetVars \/ RetargetPushed!SweepLooks \/ RetargetPushed!RetryFresh
       \/ RetargetPushed!Push \/ RetargetPushed!Rebase \/ RetargetPushed!Ready \/ RetargetPushed!PersonReviews
       \/ RetargetPushed!Approved \/ RetargetPushed!Pin \/ RetargetPushed!Post \/ RetargetPushed!Confirm
       \/ RetargetPushed!EscalateCount \/ RetargetPushed!EscalateMark
       \/ \E a \in Actor :
            \/ RetargetPushed!EditedHook(a) \/ RetargetPushed!ReviewerGate(a) \/ RetargetPushed!FixerGate(a)
            \/ RetargetPushed!SetHold(a) \/ RetargetPushed!Quarantine(a) \/ RetargetPushed!Start(a)
            \/ RetargetPushed!Orders(a) \/ RetargetPushed!Fixes(a) \/ RetargetPushed!Die(a)
  BY DEF RetargetPushed!Next, RetargetPushed!Steps
<1> QED
  BY <1>3, <1>4, <1>5, <1>6, <1>7, <1>8, <1>9, <1>10, PushedSets

\* RetargetAttested, the run's invariant: a held head is decided by attested reviews that were
\* made for the new base; the gates order a fix, where the watch saw a boundary, from such a
\* review alone; one turn bears the name of the hold; and, where no recorder dies, no marker that
\* was written before the hold is left at its head when its record has ended (transition.record,
\* effective_reviews).  An escalation that was counted before may still be marked after it.
THEOREM RetargetAttestedHolds == PartSpec => []RetargetAttested
<1> DEFINE Inv == (part = "retarget" => RetargetInv) /\ (part = "retarget_pushed" => PushedInv)
<1>1. PartInit => Inv
  BY RetargetInit, PushedInit DEF PartInit
<1>2. Inv /\ [PartNext]_partVars => Inv'
  <2> SUFFICES ASSUME Inv, [PartNext]_partVars PROVE Inv'
    OBVIOUS
  <2>1. part' = part
    BY DEF PartNext, partVars
  <2>2. CASE part = "retarget"
    <3>1. [Retargeted!Next]_retargetVars
      BY <2>2 DEF PartNext, partVars
    <3> QED
      BY <2>1, <2>2, <3>1, RetargetStep
  <2>3. CASE part = "retarget_pushed"
    <3>1. [RetargetPushed!Next]_retargetVars
      BY <2>3 DEF PartNext, partVars
    <3> QED
      BY <2>1, <2>3, <3>1, PushedStep
  <2> QED
    BY <2>1, <2>2, <2>3
<1>3. Inv => RetargetAttested
  BY RetargetMeans, PushedMeans DEF RetargetAttested
<1> QED
  BY <1>1, <1>2, <1>3, PTL DEF PartSpec
=============================================================================
