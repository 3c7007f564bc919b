-------------------------- MODULE TurnsProofs -----------------------------
(***************************************************************************)
(* Proofs about what a turn does outside the ledger.  First the leased     *)
(* push, for every set of pushers and of commits and for any number of     *)
(* deaths and of journal failures: what landed is journalled, a turn that  *)
(* was denied wrote nothing, and no push takes a commit off its branch.    *)
(* Then the broker's other writes, the verdict body, the staged source and *)
(* the clean-up.                                                           *)
(***************************************************************************)
EXTENDS MCTurns, Sequences, TLAPS

\* A push is on its way only after the attempt is recorded, with its commit.
Untried == \A p \in Pushers :
  pc[p] \in {"idle", "building", "attempt"} => p \notin flying \cup landed
Recorded == \A p \in flying \cup landed : <<p, new[p]>> \in journal
\* The pull request has a branch, and a pusher knows the commits that it works with.
Known == /\ ref["pr"] \in Commits
         /\ \A p \in Pushers : /\ pc[p] = "building" => head[p] \in Commits
                               /\ pc[p] = "attempt" => new[p] \in Commits
                               /\ pc[p] \in {"idle", "building"} => new[p] = Absent
DeniedEarly == \A p \in Pushers :
  Kind[p] = "turn" /\ answer[p] = "denied" => pc[p] = "done" /\ p \notin flying \cup landed

\* A commit reaches itself once it is made, and what it reaches was made.
Made == /\ \A c \in Commits : \A d \in has[c] : d \in has[d]
        /\ \A b \in Branches : ref[b] # Absent => ref[b] \in has[ref[b]]
        /\ 1 \in has[1]
\* What a pusher builds reaches all that the leased head reaches.
Built == \A p \in Pushers :
  /\ head[p] # Absent => head[p] \in has[head[p]]
  /\ new[p] # Absent => /\ head[p] # Absent /\ new[p] \in has[new[p]]
                        /\ has[head[p]] \subseteq has[new[p]]

PushInv == TypeOK /\ Untried /\ Known /\ Recorded /\ DeniedEarly
LeaseInv == PushInv /\ Made /\ Built

-----------------------------------------------------------------------------
\* A commit that is made next is one that nothing reaches.
LEMMA FreshUnused ==
  ASSUME TypeOK, NEW c \in Fresh
  PROVE  c \in Commits /\ \A d \in Commits : c \notin has[d]
BY DEF Fresh, Range, TypeOK

LEMMA PushInit == Init => PushInv
<1> SUFFICES ASSUME Init PROVE PushInv
  OBVIOUS
<1> USE Bounds DEF Init, Absent, Branches
<1>1. TypeOK
  BY DEF TypeOK
<1> QED
  BY <1>1 DEF PushInv, Untried, Known, Recorded, DeniedEarly

LEMMA LeaseInit == Init => LeaseInv
<1> SUFFICES ASSUME Init PROVE LeaseInv
  OBVIOUS
<1>1. Made
  BY Bounds DEF Init, Made, Absent, Branches
<1>2. Built
  BY DEF Init, Built, Absent
<1> QED
  BY <1>1, <1>2, PushInit DEF LeaseInv

-----------------------------------------------------------------------------
\* Every step of a pusher and of the world keeps the journal's invariant.
LEMMA PushStep == PushInv /\ [Next]_vars => PushInv'
<1> SUFFICES ASSUME PushInv, [Next]_vars PROVE PushInv'
  OBVIOUS
<1> USE Bounds DEF PushInv
<1>1. ASSUME NEW p \in Pushers, Start(p) PROVE PushInv'
  <2> USE DEF github, wire
  <2>1. PICK h \in IF Kind[p] = "issue" THEN {1} ELSE has[ref["pr"]] :
          /\ head' = [head EXCEPT ![p] = h]
          /\ \/ /\ pc' = [pc EXCEPT ![p] = "building"] /\ UNCHANGED answer
                /\ lock' = IF Locked(p) THEN p ELSE lock
             \/ /\ pc' = [pc EXCEPT ![p] = "done"] /\ UNCHANGED lock
                /\ answer' = [answer EXCEPT ![p] = "denied"]
    BY <1>1 DEF Start, Denied
  <2>2. h \in Commits
    BY DEF TypeOK, Known
  <2>3. /\ pc[p] = "idle"
        /\ UNCHANGED <<ref, seen, prHead, open, has, landed, new, sure, flying, result,
                       journal, policy, failures, deaths>>
    BY <1>1 DEF Start
  <2>4. TypeOK'
    BY <2>1, <2>2, <2>3 DEF TypeOK
  <2>5. Untried' /\ Recorded' /\ DeniedEarly'
    BY <2>1, <2>3 DEF TypeOK, Untried, Recorded, DeniedEarly
  <2>6. Known'
    BY <2>1, <2>2, <2>3 DEF TypeOK, Known
  <2> QED
    BY <2>4, <2>5, <2>6
<1>2. ASSUME NEW p \in Pushers, Build(p) PROVE PushInv'
  <2>1. /\ pc[p] = "building" /\ head[p] \in Commits
        /\ UNCHANGED <<ref, seen, prHead, open, head, sure, flying, result, journal, policy,
                       failures, deaths, landed>>
    BY <1>2 DEF Build, At, wire, Known
  <2>2. CASE /\ pc' = [pc EXCEPT ![p] = "done"] /\ answer' = [answer EXCEPT ![p] = "denied"]
             /\ lock' = (IF lock = p THEN NoOne ELSE lock) /\ UNCHANGED <<new, has>>
    <3>1. TypeOK'
      BY <2>1, <2>2 DEF TypeOK
    <3> QED
      BY <2>1, <2>2, <3>1 DEF TypeOK, Untried, Recorded, DeniedEarly, Known
  <2>3. ASSUME NEW c \in Fresh,
               /\ pc' = [pc EXCEPT ![p] = "attempt"] /\ new' = [new EXCEPT ![p] = c]
               /\ has' = [has EXCEPT ![c] = has[head[p]] \cup {c}]
               /\ UNCHANGED <<answer, lock>>
        PROVE  PushInv'
    <3>1. c \in Commits
      BY FreshUnused
    <3>2. TypeOK'
      BY <2>1, <2>3, <3>1 DEF TypeOK
    <3> QED
      BY <2>1, <2>3, <3>1, <3>2 DEF TypeOK, Untried, Recorded, DeniedEarly, Known
  <2> QED
    BY <1>2, <2>2, <2>3 DEF Build, At, Denied, Release
<1>3. ASSUME NEW p \in Pushers, Attempt(p) PROVE PushInv'
  <2> USE <1>3 DEF Attempt, At, github, local, host
  <2>1. TypeOK'
    BY DEF TypeOK, Known, Branches, Absent
  <2>2. Untried'
    BY DEF TypeOK, Untried
  <2>3. Recorded'
    BY DEF TypeOK, Untried, Recorded
  <2>4. Known'
    BY DEF TypeOK, Recorded, Known, Branches, BranchOf, Absent
  <2>5. DeniedEarly'
    BY DEF TypeOK, Untried, DeniedEarly
  <2> QED
    BY <2>1, <2>2, <2>3, <2>4, <2>5
<1>4. ASSUME NEW p \in Pushers, AttemptDenied(p) PROVE PushInv'
  <2> USE <1>4 DEF AttemptDenied, At, github, local, wire, Release, Denied
  <2>1. TypeOK'
    BY DEF TypeOK, Known, Branches, Absent
  <2>2. Untried'
    BY DEF TypeOK, Untried
  <2>3. Recorded'
    BY DEF TypeOK, Untried, Recorded
  <2>4. Known'
    BY DEF TypeOK, Recorded, Known, Branches, BranchOf, Absent
  <2>5. DeniedEarly'
    BY DEF TypeOK, Untried, DeniedEarly
  <2> QED
    BY <2>1, <2>2, <2>3, <2>4, <2>5
<1>5. ASSUME NEW p \in Pushers, AttemptUnwritten(p) PROVE PushInv'
  <2> USE <1>5 DEF AttemptUnwritten, At, github, local, wire, Release
  <2>1. TypeOK'
    BY DEF TypeOK, Known, Branches, Absent
  <2>2. Untried'
    BY DEF TypeOK, Untried
  <2>3. Recorded'
    BY DEF TypeOK, Untried, Recorded
  <2>4. Known'
    BY DEF TypeOK, Recorded, Known, Branches, BranchOf, Absent
  <2>5. DeniedEarly'
    BY DEF TypeOK, Untried, DeniedEarly
  <2> QED
    BY <2>1, <2>2, <2>3, <2>4, <2>5
<1>6. ASSUME NEW p \in Pushers, Receive(p) PROVE PushInv'
  <2> USE <1>6 DEF Receive, local, host, Takes
  <2>1. TypeOK'
    BY DEF TypeOK, Known, Branches, Absent
  <2>2. Untried'
    BY DEF TypeOK, Untried
  <2>3. Recorded'
    BY DEF TypeOK, Untried, Recorded
  <2>4. Known'
    <3>0. <<p, new[p]>> \in journal
      BY DEF Recorded
    <3>1. new[p] \in Commits
      BY <3>0 DEF TypeOK
    <3>2. \/ UNCHANGED ref
          \/ \E b \in Branches : ref' = [ref EXCEPT ![b] = new[p]]
      BY DEF Branches, BranchOf
    <3>3. ref'["pr"] \in Commits
      BY <3>1, <3>2 DEF TypeOK, Known, Branches
    <3> QED
      BY <3>3 DEF Known
  <2>5. DeniedEarly'
    BY DEF TypeOK, Untried, DeniedEarly
  <2> QED
    BY <2>1, <2>2, <2>3, <2>4, <2>5
<1>7. ASSUME NEW p \in Pushers, Hear(p) PROVE PushInv'
  <2> USE <1>7 DEF Hear, At, github, wire, host
  <2>1. TypeOK'
    BY DEF TypeOK, Known, Branches, Absent
  <2>2. Untried'
    BY DEF TypeOK, Untried
  <2>3. Recorded'
    BY DEF TypeOK, Untried, Recorded
  <2>4. Known'
    BY DEF TypeOK, Recorded, Known, Branches, BranchOf, Absent
  <2>5. DeniedEarly'
    BY DEF TypeOK, Untried, DeniedEarly
  <2> QED
    BY <2>1, <2>2, <2>3, <2>4, <2>5
<1>8. ASSUME NEW p \in Pushers, Lose(p) PROVE PushInv'
  <2> USE <1>8 DEF Lose, At, github, wire, host
  <2>1. TypeOK'
    BY DEF TypeOK, Known, Branches, Absent
  <2>2. Untried'
    BY DEF TypeOK, Untried
  <2>3. Recorded'
    BY DEF TypeOK, Untried, Recorded
  <2>4. Known'
    BY DEF TypeOK, Recorded, Known, Branches, BranchOf, Absent
  <2>5. DeniedEarly'
    BY DEF TypeOK, Untried, DeniedEarly
  <2> QED
    BY <2>1, <2>2, <2>3, <2>4, <2>5
<1>9. ASSUME NEW p \in Pushers, Confirm(p) PROVE PushInv'
  <2> USE <1>9 DEF Confirm, At, github, wire, host, Outcomes
  <2>1. TypeOK'
    BY DEF TypeOK, Known, Branches, Absent
  <2>2. Untried'
    BY DEF TypeOK, Untried
  <2>3. Recorded'
    BY DEF TypeOK, Untried, Recorded
  <2>4. Known'
    BY DEF TypeOK, Recorded, Known, Branches, BranchOf, Absent
  <2>5. DeniedEarly'
    BY DEF TypeOK, Untried, DeniedEarly
  <2> QED
    BY <2>1, <2>2, <2>3, <2>4, <2>5
<1>10. ASSUME NEW p \in Pushers, Settle(p) PROVE PushInv'
  <2> USE <1>10 DEF Settle, At, github, local, wire, Release, Told
  <2>1. TypeOK'
    BY DEF TypeOK, Known, Branches, Absent
  <2>2. Untried'
    BY DEF TypeOK, Untried
  <2>3. Recorded'
    BY DEF TypeOK, Untried, Recorded
  <2>4. Known'
    BY DEF TypeOK, Recorded, Known, Branches, BranchOf, Absent
  <2>5. DeniedEarly'
    BY DEF TypeOK, Untried, DeniedEarly
  <2> QED
    BY <2>1, <2>2, <2>3, <2>4, <2>5
<1>11. ASSUME NEW p \in Pushers, SettleUnwritten(p) PROVE PushInv'
  <2> USE <1>11 DEF SettleUnwritten, At, github, local, wire, Release
  <2>1. TypeOK'
    BY DEF TypeOK, Known, Branches, Absent
  <2>2. Untried'
    BY DEF TypeOK, Untried
  <2>3. Recorded'
    BY DEF TypeOK, Untried, Recorded
  <2>4. Known'
    BY DEF TypeOK, Recorded, Known, Branches, BranchOf, Absent
  <2>5. DeniedEarly'
    BY DEF TypeOK, Untried, DeniedEarly
  <2> QED
    BY <2>1, <2>2, <2>3, <2>4, <2>5
<1>12. ASSUME NEW p \in Pushers, Die(p) PROVE PushInv'
  <2> USE <1>12 DEF Die, github, local, wire, Release
  <2>1. TypeOK'
    BY DEF TypeOK, Known, Branches, Absent
  <2>2. Untried'
    BY DEF TypeOK, Untried
  <2>3. Recorded'
    BY DEF TypeOK, Untried, Recorded
  <2>4. Known'
    BY DEF TypeOK, Recorded, Known, Branches, BranchOf, Absent
  <2>5. DeniedEarly'
    BY DEF TypeOK, Untried, DeniedEarly
  <2> QED
    BY <2>1, <2>2, <2>3, <2>4, <2>5
<1>13. ASSUME AuthorPushes PROVE PushInv'
  <2>1. PICK b \in Branches, c \in Fresh :
          /\ ref' = [ref EXCEPT ![b] = c]
          /\ has' = [has EXCEPT ![c] = Reaches(b) \cup {c}]
    BY <1>13 DEF AuthorPushes, BranchOf, Branches
  <2>2. c \in Commits /\ Reaches(b) \subseteq Commits
    BY FreshUnused DEF TypeOK, Reaches
  <2> USE <1>13, <2>1, <2>2 DEF AuthorPushes, local, wire, host
  <2>3. TypeOK'
    BY DEF TypeOK
  <2>4. Known'
    BY DEF TypeOK, Known, Branches
  <2> QED
    BY <2>3, <2>4 DEF Untried, Recorded, DeniedEarly
<1>14. ASSUME AuthorRewinds PROVE PushInv'
  <2>1. PICK c \in Commits : ref' = [ref EXCEPT !["pr"] = c]
    BY <1>14 DEF AuthorRewinds, TypeOK, Known, Branches
  <2> QED
    BY <1>14, <2>1 DEF AuthorRewinds, local, wire, host, TypeOK, Branches, Known, Untried,
       Recorded, DeniedEarly
<1>15. ASSUME \/ Closed \/ CatchesUp \/ Disable \/ UNCHANGED vars PROVE PushInv'
  <2>1. CASE Closed
    BY <2>1 DEF Closed, local, wire, host, TypeOK, Known, Untried, Recorded, DeniedEarly
  <2>2. CASE CatchesUp
    <3>1. /\ seen' \in [Branches -> Commits \cup {Absent}] /\ prHead' \in Commits
          /\ UNCHANGED <<ref, open, has, landed, pc, local, wire, journal, answer, host>>
      BY <2>2 DEF CatchesUp, TypeOK, Known, Branches
    <3> QED
      BY <3>1 DEF local, wire, host, TypeOK, Known, Untried, Recorded, DeniedEarly
  <2>3. CASE Disable
    BY <2>3 DEF Disable, github, local, wire, TypeOK, Known, Untried, Recorded, DeniedEarly
  <2>4. CASE UNCHANGED vars
    BY <2>4 DEF vars, TypeOK, Known, Untried, Recorded, DeniedEarly
  <2> QED
    BY <1>15, <2>1, <2>2, <2>3, <2>4
<1> QED
  BY <1>1, <1>2, <1>3, <1>4, <1>5, <1>6, <1>7, <1>8, <1>9, <1>10, <1>11, <1>12, <1>13, <1>14,
     <1>15 DEF Next, Pushing

\* The variables of the leased push have their types.
THEOREM TypeOKHolds == Spec => []TypeOK
<1>1. PushInv => TypeOK
  BY DEF PushInv
<1> QED
  BY PushInit, PushStep, <1>1, PTL DEF Spec

\* Every commit that the loop wrote is journalled, for any number of deaths and of failures.
THEOREM JournaledHolds == Spec => []Journaled
<1>1. PushInv => Journaled
  BY DEF PushInv, Recorded, Journaled
<1> QED
  BY PushInit, PushStep, <1>1, PTL DEF Spec

\* A turn that was told that its write was denied wrote nothing and never will.
THEOREM DeniedNeverLandsHolds == Spec => []DeniedNeverLands
<1>1. PushInv => DeniedNeverLands
  BY DEF PushInv, DeniedEarly, DeniedNeverLands
<1> QED
  BY PushInit, PushStep, <1>1, PTL DEF Spec

-----------------------------------------------------------------------------
\* What is made stays made, and a pusher's commit keeps reaching the leased head.
LEMMA LeaseStep == LeaseInv /\ [Next]_vars => LeaseInv'
<1> SUFFICES ASSUME LeaseInv, [Next]_vars PROVE Made' /\ Built'
  BY PushStep DEF LeaseInv
<1>0. PushInv /\ TypeOK /\ Known /\ Made /\ Built
  BY DEF LeaseInv, PushInv
<1> USE <1>0, Bounds DEF Absent
<1>1. ASSUME NEW p \in Pushers, Start(p) PROVE Made' /\ Built'
  <2>1. PICK h \in Commits : h \in has[h] /\ head' = [head EXCEPT ![p] = h]
    <3>1. PICK h \in IF Kind[p] = "issue" THEN {1} ELSE has[ref["pr"]] :
            head' = [head EXCEPT ![p] = h]
      BY <1>1 DEF Start
    <3>2. h \in Commits /\ h \in has[h]
      BY <3>1 DEF TypeOK, Known, Made
    <3> QED
      BY <3>1, <3>2
  <2>2. pc[p] = "idle" /\ UNCHANGED <<ref, has, new>>
    BY <1>1 DEF Start, github
  <2>3. new[p] = Absent
    BY <2>2 DEF Known
  <2> QED
    BY <2>1, <2>2, <2>3 DEF Made, Built, TypeOK
<1>2. ASSUME NEW p \in Pushers, Build(p) PROVE Made' /\ Built'
  <2>1. CASE UNCHANGED <<ref, has, head, new>>
    BY <2>1 DEF Made, Built
  <2>2. ASSUME NEW c \in Fresh, new' = [new EXCEPT ![p] = c],
               has' = [has EXCEPT ![c] = has[head[p]] \cup {c}]
        PROVE  Made' /\ Built'
    <3>1. c \in Commits /\ \A d \in Commits : c \notin has[d]
      BY <2>2, FreshUnused
    <3>2. head[p] \in Commits /\ UNCHANGED <<ref, head>>
      BY <1>2 DEF Build, At, Known
    <3>3. \A d \in Commits : d # c => has'[d] = has[d]
      BY <2>2, <3>1 DEF TypeOK
    <3>4. has'[c] = has[head[p]] \cup {c} /\ has[head[p]] \subseteq Commits
      BY <2>2, <3>1, <3>2 DEF TypeOK
    <3>5. Made'
      BY <3>1, <3>2, <3>3, <3>4 DEF TypeOK, Made, Branches
    <3>6. Built'
      BY <2>2, <3>1, <3>2, <3>3, <3>4 DEF TypeOK, Built
    <3> QED
      BY <3>5, <3>6
  <2> QED
    BY <1>2, <2>1, <2>2 DEF Build
<1>3. ASSUME NEW p \in Pushers, Receive(p) PROVE Made' /\ Built'
  <2>1. UNCHANGED <<has, head, new>>
    BY <1>3 DEF Receive, local
  <2>2. new[p] \in has[new[p]]
    <3>1. p \in flying
      BY <1>3 DEF Receive
    <3>2. <<p, new[p]>> \in journal
      BY <3>1 DEF PushInv, Recorded
    <3>3. new[p] # 0
      BY <3>2 DEF TypeOK
    <3> QED
      BY <3>3 DEF Built
  <2>3. \/ UNCHANGED ref
        \/ \E b \in Branches : ref' = [ref EXCEPT ![b] = new[p]]
    BY <1>3 DEF Receive, Takes, BranchOf, Branches
  <2> QED
    BY <2>1, <2>2, <2>3 DEF Made, Built, TypeOK
<1>4. ASSUME AuthorPushes PROVE Made' /\ Built'
  <2>1. PICK b \in Branches, c \in Fresh :
          /\ ref' = [ref EXCEPT ![b] = c]
          /\ has' = [has EXCEPT ![c] = Reaches(b) \cup {c}]
    BY <1>4 DEF AuthorPushes, BranchOf, Branches
  <2>2. c \in Commits /\ \A d \in Commits : c \notin has[d]
    BY <2>1, FreshUnused
  <2>3. Reaches(b) \subseteq Commits /\ \A d \in Reaches(b) : d \in has[d] /\ d # c
    <3>1. Reaches(b) = {} \/ (ref[b] \in Commits /\ Reaches(b) = has[ref[b]])
      BY DEF Reaches, TypeOK
    <3>2. \A d \in Commits : has[d] \subseteq Commits
      BY DEF TypeOK
    <3>3. CASE ref[b] \in Commits /\ Reaches(b) = has[ref[b]]
      BY <2>2, <3>2, <3>3 DEF Made
    <3> QED
      BY <3>1, <3>3
  <2>4. \A d \in Commits : has'[d] = IF d = c THEN Reaches(b) \cup {c} ELSE has[d]
    BY <2>1, <2>2 DEF TypeOK
  <2>5. UNCHANGED <<head, new>>
    BY <1>4 DEF AuthorPushes, local
  <2>6. Made'
    BY <2>1, <2>2, <2>3, <2>4 DEF Made, TypeOK, Branches
  <2>7. Built'
    <3>1. \A d \in Commits : d \in has[d] => has'[d] = has[d]
      BY <2>2, <2>4
    <3> QED
      BY <2>5, <3>1 DEF Built, TypeOK
  <2> QED
    BY <2>6, <2>7
<1>5. ASSUME AuthorRewinds PROVE Made' /\ Built'
  <2>1. PICK c \in has[ref["pr"]] : ref' = [ref EXCEPT !["pr"] = c]
    BY <1>5 DEF AuthorRewinds
  <2>2. c \in has[c]
    BY <2>1 DEF Known, Made
  <2>3. UNCHANGED <<has, head, new>>
    BY <1>5 DEF AuthorRewinds, local
  <2> QED
    BY <2>1, <2>2, <2>3 DEF Made, Built, TypeOK, Branches
<1>6. ASSUME UNCHANGED <<ref, has, head, new>> PROVE Made' /\ Built'
  BY <1>6 DEF Made, Built
<1>7. ASSUME NEW p \in Pushers,
             \/ Attempt(p) \/ AttemptDenied(p) \/ AttemptUnwritten(p) \/ Hear(p) \/ Lose(p)
             \/ Confirm(p) \/ Settle(p) \/ SettleUnwritten(p) \/ Die(p)
      PROVE  UNCHANGED <<ref, has, head, new>>
  BY <1>7 DEF Attempt, AttemptDenied, AttemptUnwritten, Hear, Lose, Confirm, Settle,
     SettleUnwritten, Die, github, local
<1>8. ASSUME \/ Closed \/ CatchesUp \/ Disable \/ UNCHANGED vars
      PROVE  UNCHANGED <<ref, has, head, new>>
  BY <1>8 DEF Closed, CatchesUp, Disable, vars, github, local
<1> QED
  BY <1>1, <1>2, <1>3, <1>4, <1>5, <1>6, <1>7, <1>8 DEF Next, Pushing

\* A push lands on the leased head only, and its commit reaches all that the head reaches.
LEMMA LeasedStep == LeaseInv /\ [Next]_vars =>
  \A p \in Pushers : p \in landed' \ landed =>
    Reaches(BranchOf(p)) \subseteq Reaches(BranchOf(p))'
<1> SUFFICES ASSUME LeaseInv, [Next]_vars, NEW p \in Pushers, p \in landed' \ landed
             PROVE  Reaches(BranchOf(p)) \subseteq Reaches(BranchOf(p))'
  OBVIOUS
<1>0. PushInv /\ TypeOK /\ Built /\ LeaseInv'
  BY LeaseStep DEF LeaseInv, PushInv
<1>1. Receive(p)
  <2>1. ASSUME NEW q \in Pushers, Receive(q) PROVE landed' \subseteq landed \cup {q}
    BY <2>1 DEF Receive, Takes
  <2>2. ASSUME NEW q \in Pushers,
               \/ Start(q) \/ Build(q) \/ Attempt(q) \/ AttemptDenied(q) \/ AttemptUnwritten(q)
               \/ Hear(q) \/ Lose(q) \/ Confirm(q) \/ Settle(q) \/ SettleUnwritten(q) \/ Die(q)
        PROVE  UNCHANGED landed
    BY <2>2 DEF Start, Build, Attempt, AttemptDenied, AttemptUnwritten, Hear, Lose, Confirm,
       Settle, SettleUnwritten, Die, github
  <2>3. ASSUME \/ AuthorPushes \/ AuthorRewinds \/ Closed \/ CatchesUp \/ Disable
               \/ UNCHANGED vars
        PROVE  UNCHANGED landed
    BY <2>3 DEF AuthorPushes, AuthorRewinds, Closed, CatchesUp, Disable, vars, github
  <2> QED
    BY <2>1, <2>2, <2>3 DEF Next, Pushing
<1>2. ref[BranchOf(p)] = Lease(p) /\ ref' = [ref EXCEPT ![BranchOf(p)] = new[p]]
  BY <1>1 DEF Receive, Takes
<1>3. has' = has /\ BranchOf(p) \in Branches
  BY <1>1 DEF Receive, BranchOf, Branches
<1>4. new[p] # Absent
  <2>1. <<p, new[p]>> \in journal
    BY <1>0, <1>1 DEF PushInv, Recorded, Receive
  <2> QED
    BY <1>0, <2>1, Bounds DEF TypeOK, Absent
<1>5. Reaches(BranchOf(p))' = has[new[p]]
  BY <1>0, <1>2, <1>3, <1>4 DEF Reaches, TypeOK
<1>6. CASE Lease(p) = Absent
  BY <1>2, <1>6 DEF Reaches
<1>7. CASE Lease(p) = head[p] /\ head[p] # Absent
  BY <1>0, <1>2, <1>4, <1>5, <1>7 DEF Reaches, Built
<1> QED
  BY <1>6, <1>7 DEF Lease

\* No push of the loop takes a commit off the branch that it writes.
THEOREM NothingLostHolds == Spec => NothingLost
<1>1. LeaseInv /\ [Next]_vars => [\A p \in Pushers : p \in landed' \ landed =>
        Reaches(BranchOf(p)) \subseteq Reaches(BranchOf(p))']_vars
  BY LeasedStep
<1> QED
  BY LeaseInit, LeaseStep, <1>1, PTL DEF Spec, NothingLost

\* Safe push keeps all three of its promises, for any pushers, commits and failures.
THEOREM PushSafeHolds == Spec => PushSafe
  BY JournaledHolds, DeniedNeverLandsHolds, NothingLostHolds, PTL DEF PushSafe

-----------------------------------------------------------------------------
(* The other writes of the broker (BrokerWrites), for every kind of write  *)
(* and however often the run is launched.                                  *)

\* A write is under way: of its course only requests are left, none of which GitHub has had.
Writing == at > 0 /\ Writes!Step \in Writes!Requests
SentSoFar ==
  \A q \in Writes!Requests : posts[q] = IF \E i \in 1..(at - 1) : Writes!Course(kind)[i] = q THEN 1 ELSE 0
WritesTyped ==
  /\ Writes!TypeOK /\ at \in 0..Writes!Last
  /\ (run = "running" => told = "nothing") /\ (run # "running" => at = 0)
\* The record that lets a request go on is made before GitHub has had anything.
Unwritten ==
  /\ kind \in {"ruling", "triage"} => (row = "recorded" => ~Writes!Wrote) /\ (Writing => row = "posting")
  /\ kind \in {"fix", "comment"} /\ at = 2 => row = "recorded" /\ ~Writes!Wrote
  /\ kind # "dispute" => dispute = "none"
  /\ kind = "answers" => row # "recorded"
\* A dispute has its own row, which is what keeps its run from a second launch.
DisputeKept ==
  /\ dispute \in {"none", "posting"} \/ run # "running"
  /\ kind = "dispute" =>
       /\ dispute # "none" \/ at > 0 => used
       /\ at \in 1..3 => ~Writes!Wrote
       /\ at = 1 => dispute = "none"
       /\ at > 1 => dispute = "posting"
       /\ dispute \in {"none", "denied"} => ~Writes!Wrote
WritesInv ==
  /\ WritesTyped /\ Writes!NothingTwice /\ Writes!RowIsTrue /\ (Evident => Writes!ToldIsTrue)
  /\ (Writing => row \in {"recorded", "posting"} /\ SentSoFar)
  /\ Unwritten /\ DisputeKept

LEMMA WritesAssumed == Kinds \subseteq Writes!AllKinds /\ Turns \in Nat \ {0}
  BY TurnsAssumption DEF Writes!BrokerWritesAssumption

\* The requests of a course come last in it, and each comes once.
LEMMA Courses ==
  ASSUME NEW k \in Writes!AllKinds
  PROVE  /\ Len(Writes!Course(k)) \in 3..5
         /\ Writes!Course(k)[1] \notin Writes!Requests
         /\ Writes!Course(k)[Len(Writes!Course(k))] \in Writes!Requests
         /\ \A i \in 1..Len(Writes!Course(k)) : Writes!Course(k)[i] \in Writes!Requests =>
              \A j \in (i + 1)..Len(Writes!Course(k)) :
                Writes!Course(k)[j] \in Writes!Requests /\ Writes!Course(k)[j] # Writes!Course(k)[i]
<1> USE DEF Writes!Course, Writes!Requests
<1>1. CASE k = "answers"
  BY <1>1
<1>2. CASE k = "dispute"
  BY <1>2
<1>3. CASE k = "ruling"
  BY <1>3
<1>4. CASE k = "triage"
  BY <1>4
<1>5. CASE k = "fix"
  BY <1>5
<1>6. CASE k = "comment"
  BY <1>6
<1>7. CASE k = "filed"
  BY <1>7
<1> QED
  BY <1>1, <1>2, <1>3, <1>4, <1>5, <1>6, <1>7 DEF Writes!AllKinds

\* Where the steps that are not requests stand in the courses.
LEMMA Places ==
  ASSUME NEW k \in Writes!AllKinds, NEW i \in 1..Len(Writes!Course(k))
  PROVE  /\ Writes!Course(k)[i] = "dispute" => k = "dispute" /\ i = 1
         /\ Writes!Course(k)[i] = "recorded" => k \in {"ruling", "triage", "fix", "comment", "filed"} /\ i \in 1..2
         /\ Writes!Course(k)[i] = "recorded" /\ k \in {"ruling", "triage", "fix", "comment"} =>
              i = 1 /\ Writes!Course(k)[2] \notin Writes!Requests
         /\ Writes!Course(k)[i] = "posting" => k \in {"answers", "dispute", "ruling", "triage"} /\ i \in 2..3
         /\ Writes!Course(k)[i] = "posting" /\ k = "dispute" => i = 3
         /\ Writes!Course(k)[i] = "authorize" => i \in 1..2
         /\ Writes!Course(k)[i] = "authorize" /\ k \in {"dispute", "fix", "comment"} => i = 2
         /\ Writes!Course(k)[i] = "authorize" /\ k \notin {"fix", "comment"} =>
              Writes!Course(k)[i + 1] \notin Writes!Requests
         /\ Writes!Course(k)[i] \in Writes!Requests => i > 2
         /\ Writes!Course(k)[i] \in Writes!Requests /\ k = "dispute" => i = 4 /\ Len(Writes!Course(k)) = 4
<1> USE DEF Writes!Course, Writes!Requests
<1>1. CASE k = "answers"
  BY <1>1
<1>2. CASE k = "dispute"
  BY <1>2
<1>3. CASE k = "ruling"
  BY <1>3
<1>4. CASE k = "triage"
  BY <1>4
<1>5. CASE k = "fix"
  BY <1>5
<1>6. CASE k = "comment"
  BY <1>6
<1>7. CASE k = "filed"
  BY <1>7
<1> QED
  BY <1>1, <1>2, <1>3, <1>4, <1>5, <1>6, <1>7 DEF Writes!AllKinds

LEMMA WritesInit == PartInit => WritesInv
<1> SUFFICES ASSUME PartInit PROVE WritesInv
  OBVIOUS
<1>1. Writes!Init /\ kind \in Writes!AllKinds /\ Turns \in Nat \ {0}
  BY WritesAssumed DEF PartInit, Writes!Init
<1>2. Len(Writes!Course(kind)) \in 3..5
  BY <1>1, Courses
<1>3. WritesTyped
  <2>1. turns \in 0..Turns /\ at \in 0..5 /\ at \in 0..Writes!Last
    BY <1>1, <1>2 DEF Writes!Init, Writes!Last
  <2>2. posts \in [Writes!Requests -> Nat]
    BY <1>1 DEF Writes!Init
  <2> QED
    BY <1>1, <2>1, <2>2 DEF WritesTyped, Writes!Init, Writes!TypeOK, Writes!RowState
<1>4. ~Writes!Wrote /\ ~Writing
  BY <1>1 DEF Writes!Init, Writes!Wrote, Writing
<1> QED
  BY <1>1, <1>3, <1>4 DEF WritesInv, Writes!Init, Writes!NothingTwice, Writes!RowIsTrue, Writes!ToldIsTrue,
     Unwritten, DisputeKept

\* Every step of the broker, of the supervisor and of the notices keeps the invariant.
LEMMA WritesStep == WritesInv /\ [Writes!Next]_writesVars => WritesInv'
<1>s. SUFFICES ASSUME WritesInv, [Writes!Next]_writesVars PROVE WritesInv'
  OBVIOUS
<1>0. WritesTyped /\ Writes!NothingTwice /\ Writes!RowIsTrue /\ (Evident => Writes!ToldIsTrue)
      /\ (Writing => row \in {"recorded", "posting"} /\ SentSoFar) /\ Unwritten /\ DisputeKept
  BY <1>s DEF WritesInv
<1>k. kind \in Writes!AllKinds /\ Turns \in Nat \ {0}
  BY <1>0, WritesAssumed DEF WritesTyped, Writes!TypeOK
<1>l. Len(Writes!Course(kind)) \in 3..5 /\ Writes!Course(kind)[1] \notin Writes!Requests
  BY <1>k, Courses
<1>p. posts \in [Writes!Requests -> Nat] /\ at \in 0..5 /\ at \in 0..Writes!Last /\ Writes!Last = Len(Writes!Course(kind))
  BY <1>0 DEF WritesTyped, Writes!TypeOK, Writes!Last
<1>n. ~Writes!Wrote => \A q \in Writes!Requests : posts[q] = 0
  BY <1>p DEF Writes!Wrote
<1>u. Writes!Step # "idle" => Writes!Step = Writes!Course(kind)[at] /\ at \in 1..Len(Writes!Course(kind))
  BY <1>p DEF Writes!Step
\* What a step at most changes of what no step but a request writes.
<1>a. ASSUME UNCHANGED <<kind, posts, row, dispute>>, WritesTyped',
             at' = 0 \/ (at' = 1 /\ (kind = "dispute" => dispute = "none")),
             (Evident => Writes!ToldIsTrue)',
             dispute \in {"none", "posting"} \/ run' # "running",
             kind = "dispute" /\ (dispute # "none" \/ at' > 0) => used'
      PROVE  WritesInv'
  <2>1. Writes!NothingTwice' /\ Writes!RowIsTrue'
    BY <1>0, <1>a DEF Writes!NothingTwice, Writes!RowIsTrue, Writes!Wrote, Writes!Last
  <2>2. ~Writing'
    BY <1>a, <1>l DEF Writing, Writes!Step
  <2>3. Unwritten'
    BY <1>0, <1>a, <2>2 DEF Unwritten, Writes!Wrote
  <2>4. DisputeKept'
    BY <1>0, <1>a DEF DisputeKept, Writes!Wrote
  <2> QED
    BY <1>a, <2>1, <2>2, <2>3, <2>4 DEF WritesInv
\* A step to the next of the course with nothing written.
<1>b. ASSUME UNCHANGED <<kind, posts>>, ~Writes!Wrote, WritesTyped', run' = "running",
             at' = at + 1, Writes!Step \notin Writes!Requests \cup {"idle"},
             row' # "posted", Writing' => row' \in {"recorded", "posting"},
             kind \in {"ruling", "triage"} /\ Writing' => row' = "posting",
             kind \in {"fix", "comment"} /\ at' = 2 => row' = "recorded",
             kind = "answers" => row' # "recorded",
             IF kind = "dispute" THEN dispute' = "posting" /\ used' ELSE dispute' = "none"
      PROVE  WritesInv'
  <2>1. ~Writes!Wrote' /\ \A q \in Writes!Requests : posts'[q] = 0
    BY <1>b, <1>n DEF Writes!Wrote
  <2>2. Writing' => SentSoFar'
    <3>1. ASSUME NEW i \in 1..at PROVE Writes!Course(kind)[i] \notin Writes!Requests
      BY <1>b, <1>u, <1>k, <1>p, Courses
    <3> QED
      BY <1>b, <2>1, <3>1, <1>p DEF SentSoFar
  <2>3. Writes!NothingTwice' /\ Writes!RowIsTrue'
    BY <1>b, <2>1 DEF Writes!NothingTwice, Writes!RowIsTrue
  <2>4. Unwritten' /\ DisputeKept'
    <3>1. at' > 1
      BY <1>b, <1>u
    <3> QED
      BY <1>b, <2>1, <3>1 DEF Unwritten, DisputeKept
  <2> QED
    BY <1>b, <2>2, <2>3, <2>4 DEF WritesInv, Writes!ToldIsTrue
\* While requests are being sent none is sent again, and the row says that they may be.
<1>w. ASSUME Writing
      PROVE  /\ row \in {"recorded", "posting"} /\ SentSoFar /\ posts[Writes!Step] = 0 /\ at \in 3..Writes!Last
             /\ kind \in {"ruling", "triage"} => row = "posting"
             /\ kind = "answers" => row # "recorded"
             /\ IF kind = "dispute" THEN dispute = "posting" /\ used /\ at = Writes!Last ELSE dispute = "none"
  <2>1. Writes!Step = Writes!Course(kind)[at] /\ at \in 1..Len(Writes!Course(kind))
    BY <1>w, <1>p DEF Writing, Writes!Step
  <2>2. row \in {"recorded", "posting"} /\ SentSoFar /\ Writes!Step \in Writes!Requests
    BY <1>w, <1>0 DEF Writing
  <2>3. \A i \in 1..(at - 1) : Writes!Course(kind)[i] # Writes!Step
    BY <2>1, <2>2, <1>k, Courses
  <2>4. posts[Writes!Step] = 0
    BY <2>2, <2>3 DEF SentSoFar
  <2>5. at \in 3..Writes!Last /\ (kind = "dispute" => at = Writes!Last)
    BY <2>1, <2>2, <1>k, <1>p, Places
  <2>6. (kind \in {"ruling", "triage"} => row = "posting") /\ (kind = "answers" => row # "recorded")
    BY <1>w, <1>0 DEF Unwritten
  <2>7. IF kind = "dispute" THEN dispute = "posting" /\ used ELSE dispute = "none"
    BY <1>0, <2>5 DEF Unwritten, DisputeKept
  <2> QED
    BY <2>2, <2>4, <2>5, <2>6, <2>7
\* A write that ends with its outcome known to nobody, or to GitHub alone.
<1>e. ASSUME Writing, WritesTyped', UNCHANGED <<kind, used, told>>, at' = 0, run = "running",
             posts' \in {posts, [posts EXCEPT ![Writes!Step] = @ + 1]},
             row' \in {row, "uncertain"}, dispute' \in {dispute, IF dispute = "posting" THEN "uncertain" ELSE dispute},
             kind = "dispute" => run' # "running"
      PROVE  WritesInv'
  <2>1. Writes!NothingTwice'
    <3>1. ASSUME NEW q \in Writes!Requests PROVE posts'[q] <= 1
      BY <1>e, <1>w, <1>p, <1>0 DEF Writes!NothingTwice
    <3> QED
      BY <3>1 DEF Writes!NothingTwice
  <2>2. Writes!RowIsTrue' /\ Unwritten' /\ DisputeKept' /\ ~Writing'
    BY <1>e, <1>w DEF Writes!RowIsTrue, Unwritten, DisputeKept, Writing
  <2>3. Writes!ToldIsTrue'
    BY <1>e, <1>0 DEF Writes!ToldIsTrue, WritesTyped
  <2> QED
    BY <1>e, <2>1, <2>2, <2>3 DEF WritesInv
\* One that is refused leaves the run in one of three states.
<1>f. ASSUME Writes!Refused, run = "running" PROVE run' \in {"running", "done", "failed"}
  BY <1>f DEF Writes!Refused
<1>1. CASE Writes!Begin
  <2>1. at' = 1 /\ 1 \in 0..Writes!Last /\ UNCHANGED <<kind, run, turns, row, dispute, posts, told>> /\ run = "running"
    BY <1>1, <1>l, <1>p DEF Writes!Begin
  <2>2. used' \in BOOLEAN /\ (kind = "dispute" => used')
    BY <1>1 DEF Writes!Begin
  <2>3. WritesTyped'
    BY <1>0, <2>1, <2>2 DEF WritesTyped, Writes!TypeOK, Writes!Last
  <2>4. kind = "dispute" => dispute = "none"
    BY <1>0, <1>1 DEF Writes!Begin, DisputeKept
  <2>5. dispute \in {"none", "posting"} \/ run' # "running"
    BY <1>0, <2>1 DEF DisputeKept
  <2>6. (Evident => Writes!ToldIsTrue)'
    BY <2>1 DEF Writes!ToldIsTrue
  <2> QED
    BY <1>a, <2>1, <2>2, <2>3, <2>4, <2>5, <2>6
<1>2. CASE Writes!Record
  <2>1. UNCHANGED <<kind, turns, used, dispute, posts, told>> /\ run = "running" /\ Writes!Step \in {"recorded", "posting"}
    BY <1>2 DEF Writes!Record
  <2>2. CASE Writes!Recordable
    <3>1. row' = Writes!Step /\ at' = at + 1 /\ run' = run
      BY <1>2, <2>2 DEF Writes!Record
    <3>2. Writes!Step = Writes!Course(kind)[at] /\ at \in 1..Len(Writes!Course(kind)) /\ Writes!Step \notin Writes!Requests
      BY <2>1, <1>u DEF Writes!Requests
    <3>3. at \in 1..(Len(Writes!Course(kind)) - 1)
      BY <3>2, <1>k, <1>l, Courses
    <3>4. ~Writes!Wrote
      <4>1. CASE row = "none"
        BY <4>1, <1>0 DEF Writes!RowIsTrue
      <4>2. CASE Writes!Step = "posting" /\ row = "recorded"
        <5>1. (kind = "dispute" /\ at = 3) \/ kind \in {"ruling", "triage"}
          BY <4>2, <3>2, <1>0, <1>k, Places DEF Unwritten
        <5> QED
          BY <4>2, <5>1, <1>0 DEF Unwritten, DisputeKept
      <4> QED
        BY <2>2, <4>1, <4>2 DEF Writes!Recordable
    <3>5. WritesTyped'
      <4>1. at' \in 0..5 /\ at' \in 0..Len(Writes!Course(kind))
        <5> DEFINE L == Len(Writes!Course(kind))
        <5>1. L \in 3..5 /\ at \in 1..(L - 1) /\ at' = at + 1
          BY <3>1, <3>3, <1>l
        <5> HIDE DEF L
        <5>2. at' \in 0..5 /\ at' \in 0..L
          BY <5>1
        <5> QED
          BY <5>2 DEF L
      <4>2. row' \in Writes!RowState
        BY <2>1, <3>1 DEF Writes!RowState
      <4> QED
        BY <1>0, <2>1, <3>1, <4>1, <4>2 DEF WritesTyped, Writes!TypeOK, Writes!Last
    <3>6. kind \in {"ruling", "triage"} /\ Writing' => row' = "posting"
      BY <2>1, <3>1, <3>2, <1>k, Places DEF Writing, Writes!Step
    <3>7. kind \in {"fix", "comment"} /\ at' = 2 => row' = "recorded"
      BY <2>1, <3>1, <3>2, <1>k, Places
    <3>8. IF kind = "dispute" THEN dispute' = "posting" /\ used' ELSE dispute' = "none"
      BY <2>1, <3>2, <1>0, <1>k, Places DEF Unwritten, DisputeKept
    <3> QED
      <4>1. kind = "answers" => row' # "recorded"
        BY <2>1, <3>1, <3>2, <1>k, Places
      <4> QED
        BY <1>b, <2>1, <3>1, <3>2, <3>4, <3>5, <3>6, <3>7, <3>8, <4>1
  <2>3. CASE ~Writes!Recordable
    <3>1. Writes!Refused /\ row' = row
      BY <1>2, <2>3 DEF Writes!Record
    <3>2. run' \in {"running", "done", "failed"} /\ at' = 0
      BY <1>f, <2>1, <3>1 DEF Writes!Refused, Writes!Stop
    <3>3. WritesTyped'
      BY <1>0, <2>1, <3>1, <3>2, <1>l, <1>p DEF WritesTyped, Writes!TypeOK, Writes!Last
    <3>4. (Evident => Writes!ToldIsTrue)'
      BY <1>0, <2>1 DEF Writes!ToldIsTrue, WritesTyped
    <3> QED
      BY <1>a, <1>0, <2>1, <3>1, <3>2, <3>3, <3>4 DEF DisputeKept
  <2> QED
    BY <2>2, <2>3
<1>3. CASE Writes!RecordDispute
  <2>1. UNCHANGED <<kind, run, turns, used, row, posts, told>> /\ run = "running" /\ at' = at + 1 /\ Writes!Step = "dispute"
    BY <1>3 DEF Writes!RecordDispute
  <2>2. Writes!Step \notin Writes!Requests \cup {"idle"} /\ kind = "dispute" /\ at = 1
    BY <2>1, <1>u, <1>k, Places DEF Writes!Requests
  <2>3. ~Writes!Wrote /\ used /\ dispute' = "posting"
    BY <1>0, <1>3, <2>2 DEF DisputeKept, Writes!RecordDispute
  <2>4. WritesTyped'
    BY <1>0, <2>1, <2>2, <2>3, <1>l, <1>p DEF WritesTyped, Writes!TypeOK, Writes!Last, Writes!RowState
  <2>5. ~Writing'
    BY <2>1, <2>2 DEF Writing, Writes!Step, Writes!Course, Writes!Requests
  <2>6. row' # "posted"
    <3>1. \E i \in 1..Len(Writes!Course(kind)) : Writes!Course(kind)[i] \in Writes!Requests /\ posts[Writes!Course(kind)[i]] = 0
      BY <1>k, <1>l, <1>n, <2>3, Courses
    <3> QED
      BY <1>0, <1>p, <2>1, <3>1 DEF Writes!RowIsTrue
  <2> QED
    BY <1>b, <2>1, <2>2, <2>3, <2>4, <2>5, <2>6
<1>4. CASE Writes!Authorize
  <2>1. UNCHANGED <<kind, turns, used, posts, told>> /\ run = "running" /\ Writes!Step = "authorize"
    BY <1>4 DEF Writes!Authorize
  <2>2. Writes!Step = Writes!Course(kind)[at] /\ at \in 1..2 /\ Writes!Step \notin Writes!Requests
        /\ at \in 1..Len(Writes!Course(kind)) /\ (kind \in {"dispute", "fix", "comment"} => at = 2)
    BY <2>1, <1>u, <1>k, Places DEF Writes!Requests
  <2>3. CASE at' = at + 1 /\ UNCHANGED <<run, row, dispute>>
    <3>1. at' \in 2..3 /\ at' \in 0..Writes!Last
      BY <2>2, <2>3, <1>l, <1>p
    <3>2. WritesTyped'
      BY <1>0, <2>1, <2>3, <3>1, <1>p DEF WritesTyped, Writes!TypeOK, Writes!Last
    <3>3. Writing' => kind \in {"fix", "comment"}
      BY <2>1, <2>2, <2>3, <1>k, Places DEF Writing, Writes!Step
    <3>4. CASE kind \in {"dispute", "fix", "comment"}
      <4>1. ~Writes!Wrote /\ (kind # "dispute" => row = "recorded") /\ (kind = "dispute" => dispute = "posting" /\ used)
        BY <1>0, <2>2, <3>4 DEF Unwritten, DisputeKept
      <4>2. row # "posted"
        <5>1. \E i \in 1..Len(Writes!Course(kind)) : Writes!Course(kind)[i] \in Writes!Requests /\ posts[Writes!Course(kind)[i]] = 0
          BY <1>k, <1>l, <1>n, <4>1, Courses
        <5> QED
          BY <1>0, <1>p, <5>1 DEF Writes!RowIsTrue
      <4>3. IF kind = "dispute" THEN dispute' = "posting" /\ used' ELSE dispute' = "none"
        BY <1>0, <2>1, <2>3, <4>1 DEF Unwritten
      <4>4. Writing' => row' \in {"recorded", "posting"}
        BY <2>3, <3>3, <4>1
      <4> QED
        BY <1>b, <2>1, <2>2, <2>3, <3>2, <3>3, <3>4, <4>1, <4>2, <4>3, <4>4
    <3>5. CASE kind \notin {"dispute", "fix", "comment"}
      <4>1. Writes!NothingTwice' /\ Writes!RowIsTrue' /\ Unwritten' /\ ~Writing'
        BY <1>0, <2>1, <2>3, <3>3, <3>5 DEF Writes!NothingTwice, Writes!RowIsTrue, Unwritten, Writes!Wrote, Writes!Last
      <4>2. DisputeKept'
        BY <1>0, <2>1, <2>3, <3>5 DEF DisputeKept
      <4> QED
        BY <2>1, <2>3, <3>2, <4>1, <4>2 DEF WritesInv, Writes!ToldIsTrue
    <3> QED
      BY <3>4, <3>5
  <2>4. CASE Writes!Deny
    <3>1. run' \in {"running", "done", "failed"} /\ at' = 0 /\ (kind = "dispute" => run' # "running")
      BY <1>f, <2>1, <2>4 DEF Writes!Deny, Writes!Refused, Writes!Stop, Writes!Completes
    <3>2. \/ row' = row
          \/ row' = "denied" /\ row \in {"recorded", "none"} /\ (row = "recorded" => Writes!Completes)
      BY <2>4 DEF Writes!Deny
    <3>3. IF kind = "dispute" THEN dispute = "posting" /\ dispute' = "denied" /\ used ELSE dispute = "none" /\ dispute' = "none"
      BY <1>0, <2>2, <2>4 DEF Unwritten, DisputeKept, Writes!Deny, Writes!DisputeIs
    <3>4. WritesTyped'
      <4>1. row' \in Writes!RowState /\ dispute' \in Writes!RowState
        BY <1>0, <3>2, <3>3 DEF WritesTyped, Writes!TypeOK, Writes!RowState
      <4> QED
        BY <1>0, <2>1, <3>1, <4>1, <1>l, <1>p DEF WritesTyped, Writes!TypeOK, Writes!Last
    <3>5. row' = "denied" => ~Writes!Wrote
      BY <1>0, <2>2, <3>2 DEF Writes!RowIsTrue, Unwritten, Writes!Completes
    <3>6. kind = "dispute" => ~Writes!Wrote
      BY <1>0, <2>2 DEF DisputeKept
    <3>7. Writes!RowIsTrue' /\ Writes!NothingTwice' /\ ~Writing'
      BY <1>0, <2>1, <3>1, <3>2, <3>5, <3>6
         DEF Writes!RowIsTrue, Writes!NothingTwice, Writes!Wrote, Writes!Last, Writing
    <3>8. Unwritten' /\ DisputeKept'
      BY <1>0, <2>1, <3>1, <3>2, <3>3, <3>6, <3>7 DEF Unwritten, DisputeKept, Writes!Wrote
    <3>9. Writes!ToldIsTrue'
      BY <1>0, <2>1 DEF Writes!ToldIsTrue, WritesTyped
    <3> QED
      BY <3>4, <3>7, <3>8, <3>9 DEF WritesInv
  <2> QED
    BY <1>4, <2>3, <2>4 DEF Writes!Authorize
<1>5. CASE Writes!Post
  <2>1. Writing /\ run = "running" /\ UNCHANGED <<kind, turns, used, told>>
    BY <1>5, <1>p DEF Writes!Post, Writing, Writes!Step, Writes!Requests
  <2>2. posts' = [posts EXCEPT ![Writes!Step] = @ + 1] /\ Writes!Step \in Writes!Requests
    BY <1>5 DEF Writes!Post
  <2>3. posts'[Writes!Step] = 1 /\ \A q \in Writes!Requests : q # Writes!Step => posts'[q] = posts[q]
    BY <1>w, <1>p, <2>1, <2>2
  <2>4. Writes!NothingTwice' /\ posts' \in [Writes!Requests -> Nat]
    BY <1>0, <1>p, <2>2, <2>3 DEF Writes!NothingTwice
  <2>5. Writes!Step = Writes!Course(kind)[at] /\ at \in 3..Len(Writes!Course(kind))
    BY <1>w, <1>p, <2>1 DEF Writes!Step
  <2>6. CASE at = Writes!Last
    <3>1. at' = 0 /\ row' = "posted" /\ dispute' = (IF dispute = "posting" THEN "posted" ELSE dispute)
          /\ run' \in {"running", "done"} /\ (kind = "dispute" => run' = "done")
      BY <1>5, <2>1, <2>6 DEF Writes!Post, Writes!DisputeIs, Writes!Finished
    <3>2. WritesTyped'
      <4>1. dispute' \in Writes!RowState /\ row' \in Writes!RowState
        BY <1>w, <2>1, <3>1 DEF Writes!RowState
      <4> QED
        BY <1>0, <2>1, <2>4, <3>1, <4>1, <1>l, <1>p DEF WritesTyped, Writes!TypeOK, Writes!Last
    <3>3. ASSUME NEW i \in 1..Writes!Last, Writes!Course(kind)[i] \in Writes!Requests PROVE posts'[Writes!Course(kind)[i]] = 1
      <4>1. CASE i = at
        BY <4>1, <2>3, <2>5
      <4>2. CASE i # at
        <5>1. i \in 1..(at - 1) /\ Writes!Course(kind)[i] # Writes!Step
          BY <4>2, <2>5, <2>6, <3>3, <1>k, <1>p, Courses
        <5>2. posts[Writes!Course(kind)[i]] = 1
          BY <1>w, <2>1, <3>3, <5>1 DEF SentSoFar
        <5> QED
          BY <2>3, <3>3, <5>1, <5>2
      <4> QED
        BY <4>1, <4>2
    <3>4. Writes!RowIsTrue'
      BY <1>w, <2>1, <3>1, <3>3 DEF Writes!RowIsTrue, Writes!Last
    <3>5. Unwritten' /\ DisputeKept' /\ ~Writing' /\ Writes!ToldIsTrue'
      BY <1>0, <1>w, <2>1, <3>1 DEF Unwritten, DisputeKept, Writing, Writes!ToldIsTrue, WritesTyped
    <3> QED
      BY <2>4, <3>2, <3>4, <3>5 DEF WritesInv
  <2>7. CASE at # Writes!Last
    <3>1. at' = at + 1 /\ UNCHANGED <<row, dispute, run>>
      BY <1>5, <2>7 DEF Writes!Post
    <3>2. at' \in 4..Len(Writes!Course(kind)) /\ kind # "dispute"
      BY <1>w, <1>p, <2>1, <2>5, <2>7, <3>1
    <3>3. WritesTyped'
      <4>1. at' \in 0..5 /\ at' \in 0..Len(Writes!Course(kind))
        <5> DEFINE L == Len(Writes!Course(kind))
        <5>1. L \in 3..5 /\ at' \in 4..L
          BY <3>2, <1>l
        <5> HIDE DEF L
        <5>2. at' \in 0..5 /\ at' \in 0..L
          BY <5>1
        <5> QED
          BY <5>2 DEF L
      <4> QED
        BY <1>0, <2>1, <2>4, <3>1, <4>1 DEF WritesTyped, Writes!TypeOK, Writes!Last
    <3>4. SentSoFar'
      <4>1. ASSUME NEW q \in Writes!Requests
            PROVE  posts'[q] = IF \E i \in 1..at : Writes!Course(kind)[i] = q THEN 1 ELSE 0
        <5>1. CASE q = Writes!Step
          BY <5>1, <2>3, <2>5
        <5>2. CASE q # Writes!Step
          <6>1. (\E i \in 1..at : Writes!Course(kind)[i] = q) <=> (\E i \in 1..(at - 1) : Writes!Course(kind)[i] = q)
            BY <5>2, <2>5
          <6> QED
            BY <6>1, <5>2, <2>1, <2>3, <1>w DEF SentSoFar
        <5> QED
          BY <5>1, <5>2
      <4>2. at' - 1 = at
        BY <3>1, <2>5
      <4> QED
        BY <2>1, <4>1, <4>2 DEF SentSoFar
    <3>5. Writes!RowIsTrue' /\ Unwritten' /\ DisputeKept' /\ Writes!ToldIsTrue'
      BY <1>0, <1>w, <2>1, <3>1, <3>2 DEF Writes!RowIsTrue, Unwritten, DisputeKept, Writes!ToldIsTrue, WritesTyped
    <3> QED
      BY <1>w, <2>1, <2>4, <3>1, <3>3, <3>4, <3>5 DEF WritesInv
  <2> QED
    BY <2>6, <2>7
<1>6. CASE Writes!Lost
  <2>1. Writing /\ run = "running" /\ UNCHANGED <<kind, turns, used, told>> /\ at' = 0
        /\ posts' \in {posts, [posts EXCEPT ![Writes!Step] = @ + 1]} /\ Writes!Step \in Writes!Requests
    BY <1>6, <1>p DEF Writes!Lost, Writes!Stop, Writing, Writes!Step, Writes!Requests
  <2>2. row' \in {row, "uncertain"} /\ dispute' = (IF dispute = "posting" THEN "uncertain" ELSE dispute)
        /\ run' \in {"running", "done", "uncertain"} /\ (kind = "dispute" => run' # "running")
    BY <1>6, <2>1 DEF Writes!Lost, Writes!DisputeIs
  <2>3. posts' \in [Writes!Requests -> Nat] /\ row' \in Writes!RowState /\ dispute' \in Writes!RowState
    BY <1>w, <1>p, <2>1, <2>2 DEF Writes!RowState
  <2>4. WritesTyped'
    BY <1>0, <2>1, <2>2, <2>3, <1>l, <1>p DEF WritesTyped, Writes!TypeOK, Writes!Last
  <2> QED
    BY <1>e, <2>1, <2>2, <2>4
<1>7. CASE Writes!DieAfterPost
  <2>1. Writing /\ run = "running" /\ UNCHANGED <<kind, turns, used, row, dispute, told>> /\ at' = 0 /\ run' = "failed"
        /\ posts' = [posts EXCEPT ![Writes!Step] = @ + 1] /\ Writes!Step \in Writes!Requests
    BY <1>7, <1>p DEF Writes!DieAfterPost, Writes!Stop, Writing, Writes!Step, Writes!Requests
  <2>2. posts' \in [Writes!Requests -> Nat]
    BY <1>p, <2>1
  <2>3. WritesTyped'
    BY <1>0, <2>1, <2>2, <1>l, <1>p DEF WritesTyped, Writes!TypeOK, Writes!Last
  <2> QED
    BY <1>e, <2>1, <2>3
<1>8. CASE Writes!Die
  <2>1. WritesTyped'
    BY <1>0, <1>8, <1>l DEF Writes!Die, Writes!Stop, WritesTyped, Writes!TypeOK, Writes!Last
  <2> QED
    BY <1>0, <1>8, <1>a, <2>1 DEF Writes!Die, Writes!Stop, DisputeKept, Writes!ToldIsTrue, WritesTyped
<1>9. CASE Writes!Rearm
  <2>1. WritesTyped'
    <3>1. turns' \in 0..Turns
      BY <1>0, <1>9, <1>k DEF Writes!Rearm, WritesTyped, Writes!TypeOK
    <3> QED
      BY <1>0, <1>9, <3>1 DEF Writes!Rearm, WritesTyped, Writes!TypeOK, Writes!Last
  <2>2. dispute = "none" /\ at' = 0
    BY <1>0, <1>9 DEF Writes!Rearm, Writes!Evidence, Writes!Recorded, WritesTyped
  <2> QED
    BY <1>9, <1>a, <2>1, <2>2 DEF Writes!Rearm, Writes!ToldIsTrue
<1>10. CASE Writes!Notice \/ Writes!TellDispute \/ Writes!TellRuling
  <2>1. UNCHANGED <<kind, run, turns, used, at, row, dispute, posts>>
    BY <1>10 DEF Writes!Notice, Writes!TellDispute, Writes!TellRuling
  <2>2. run # "running" /\ at = 0
    BY <1>0, <1>10 DEF Writes!Notice, Writes!TellDispute, Writes!TellRuling, DisputeKept, WritesTyped
  <2>3. told' \in {"possible_write", "no_write", "posted", "denied", "unknown"}
    BY <1>10 DEF Writes!Notice, Writes!TellDispute, Writes!TellRuling, Writes!Status, Writes!RulingStatus
  <2>4. Evident /\ told' \in {"no_write", "denied"} => ~Writes!Wrote
    <3>1. CASE Writes!Notice
      BY <1>0, <1>k, <3>1 DEF Writes!Notice, Writes!Evidence, Writes!Recorded, Evident, Writes!RowIsTrue, Writes!AllKinds
    <3>2. CASE Writes!TellDispute
      BY <1>0, <3>2 DEF Writes!TellDispute, Writes!Status, Unwritten, DisputeKept
    <3>3. CASE Writes!TellRuling
      BY <1>0, <3>3 DEF Writes!TellRuling, Writes!RulingStatus, Writes!Status, Unwritten, Writes!RowIsTrue
    <3> QED
      BY <1>10, <3>1, <3>2, <3>3
  <2>5. WritesTyped'
    BY <1>0, <2>1, <2>2, <2>3 DEF WritesTyped, Writes!TypeOK, Writes!Last
  <2>6. (Evident => Writes!ToldIsTrue)'
    BY <2>1, <2>4 DEF Writes!ToldIsTrue, Evident, Writes!Wrote
  <2> QED
    BY <1>0, <1>a, <2>1, <2>2, <2>5, <2>6 DEF DisputeKept
<1>11. CASE UNCHANGED writesVars
  <2>1. WritesTyped'
    BY <1>0, <1>11 DEF writesVars, WritesTyped, Writes!TypeOK, Writes!Last
  <2>2. Writing' = Writing /\ SentSoFar' = SentSoFar
    BY <1>11 DEF writesVars, Writing, SentSoFar, Writes!Step
  <2> QED
    BY <1>0, <1>11, <2>1, <2>2 DEF WritesInv, writesVars, Writes!NothingTwice, Writes!RowIsTrue, Writes!ToldIsTrue, Writes!Wrote,
       Writes!Last, Unwritten, DisputeKept, Evident
<1> QED
  BY <1>1, <1>2, <1>3, <1>4, <1>5, <1>6, <1>7, <1>8, <1>9, <1>10, <1>11, <1>s DEF Writes!Next

\* A step of the instance is one of this component or leaves it alone.
LEMMA PartWrites == [PartNext]_partVars => [Writes!Next]_writesVars
  BY DEF PartNext, partVars

\* The broker's writes, for any number of launches, deaths, lost answers and refusals: of every kind
\* none takes effect twice and no row denies one that did; and of the kinds whose record the
\* supervisor reads, what the operator is told is so and a run that wrote is not started again.
\* (Evident leaves out a fixer's answers and filed issues, which run_supervisor.py:1019 does not ask
\* for: a run that left one of them and died is started again.)
THEOREM WritesTrueHolds == PartSpec => WritesAreTrue
<1>1. WritesInv => Writes!NothingTwice /\ Writes!RowIsTrue /\ (Evident => Writes!ToldIsTrue)
  BY DEF WritesInv
<1>2. WritesInv => [Evident /\ Writes!Rearm => ~Writes!Wrote]_writesVars
  <2> SUFFICES ASSUME WritesInv, Evident, Writes!Rearm PROVE ~Writes!Wrote
    OBVIOUS
  <2>1. kind \in Writes!AllKinds
    BY WritesAssumed DEF WritesInv, WritesTyped, Writes!TypeOK
  <2> QED
    BY <2>1 DEF WritesInv, Writes!Rearm, Writes!Evidence, Writes!Recorded, Evident, Writes!RowIsTrue, Writes!AllKinds
<1> QED
  BY WritesInit, WritesStep, PartWrites, <1>1, <1>2, PTL DEF PartSpec, WritesAreTrue

-----------------------------------------------------------------------------
(* The verdict's body (VerdictBody), for any number of findings, whole or  *)
(* partial.                                                                *)

\* While no record was lost, what the landed reviews raised is open on record, once the last of
\* them is recorded.
Raised(f) == owed[f] = "raised"
OnRecord ==
  \/ verdictLanded = Verdict!None /\ \A f \in Finding : Raised(f) => entry.state[f] = "open"
  \/ /\ verdictLanded # Verdict!None
     /\ \A f \in Finding :
          /\ verdictLanded.line[f] = "open" => Verdict!Known(f)
          /\ Raised(f) => \/ verdictLanded.line[f] \in {"new", "open"}
                          \/ verdictLanded.line[f] = "none" /\ entry.state[f] = "open"
VerdictInv ==
  /\ ci \in Verdict!CI /\ faults \in Nat /\ faults <= LostRecords
  /\ faults = LostRecords => OnRecord

LEMMA RecordsAreLost == LostRecords \in Nat
<1>1. Verdict!VerdictBodyAssumption
  BY TurnsAssumption
<1> QED
  BY <1>1 DEF Verdict!VerdictBodyAssumption

LEMMA LandedIsSome == \A x : [line |-> x] # Verdict!None
  BY DEF Verdict!None

LEMMA VerdictInit == PartInit => VerdictInv
  BY RecordsAreLost DEF PartInit, VerdictInv, OnRecord, Raised, Verdict!Init, PartialVerdict!Init, Verdict!CI, PartialVerdict!CI,
     Verdict!None, PartialVerdict!None

\* A review that the broker accepts has a line that fits what is known of each finding.
LEMMA VerdictSubmit == VerdictInv /\ (Verdict!Submit \/ PartialVerdict!Submit) => VerdictInv'
<1> SUFFICES ASSUME VerdictInv, Verdict!Submit \/ PartialVerdict!Submit PROVE VerdictInv'
  OBVIOUS
<1>1. PICK b \in Verdict!Body :
         Verdict!Lines(b) /\ verdictLanded' = [line |-> b.line] /\ owed' = Verdict!Owed(b)
  BY DEF Verdict!Submit, PartialVerdict!Submit, Verdict!Accepted, PartialVerdict!Accepted, Verdict!Found, PartialVerdict!Found,
         Verdict!Body, PartialVerdict!Body, Verdict!State, PartialVerdict!State, Verdict!Lines, PartialVerdict!Lines,
         Verdict!Known, PartialVerdict!Known, Verdict!Owed, PartialVerdict!Owed, Verdict!Settles, PartialVerdict!Settles
<1>2. UNCHANGED <<entry, ci, faults>> /\ verdictLanded = Verdict!None
  BY DEF Verdict!Submit, PartialVerdict!Submit, Verdict!None, PartialVerdict!None
<1>3. verdictLanded' # Verdict!None /\ verdictLanded'.line = b.line
  BY <1>1, LandedIsSome
<1>4. ASSUME faults = LostRecords, NEW f \in Finding
      PROVE  /\ b.line[f] = "open" => Verdict!Known(f)'
             /\ Raised(f)' => b.line[f] \in {"new", "open"} \/ (b.line[f] = "none" /\ entry'.state[f] = "open")
  <2>1. b.line[f] \in Verdict!State \cup {"new", "none"}
    BY DEF Verdict!Body
  <2>2. b.line[f] = "open" => Verdict!Known(f)'
    BY <1>1, <1>2 DEF Verdict!Lines, Verdict!Known
  <2>3. owed'[f] = IF b.line[f] \in {"new", "open"} THEN "raised"
                   ELSE IF b.line[f] \in {"fixed", "withdrawn"} THEN "settled" ELSE owed[f]
    BY <1>1 DEF Verdict!Owed, Verdict!Settles
  <2>4. Raised(f) => entry.state[f] = "open"
    BY <1>2, <1>4 DEF VerdictInv, OnRecord
  <2> QED
    BY <1>2, <2>1, <2>2, <2>3, <2>4 DEF Raised, Verdict!State
<1> QED
  BY <1>2, <1>3, <1>4 DEF VerdictInv, OnRecord

\* The record of the landed review is what makes its findings open; one that fails is lost.
LEMMA VerdictRecord == VerdictInv /\ Verdict!Record => VerdictInv'
<1> SUFFICES ASSUME VerdictInv, Verdict!Record PROVE VerdictInv'
  OBVIOUS
<1>1. /\ verdictLanded # Verdict!None /\ verdictLanded' = Verdict!None /\ UNCHANGED <<ci, owed>>
      /\ \/ entry' = Verdict!Applied(verdictLanded.line) /\ faults' = faults
         \/ faults > 0 /\ faults' = faults - 1
  BY DEF Verdict!Record
<1>2. CASE faults' # faults \/ faults # LostRecords
  BY <1>1, <1>2, RecordsAreLost DEF VerdictInv
<1>3. CASE faults' = faults /\ faults = LostRecords
  <2>1. entry' = Verdict!Applied(verdictLanded.line)
    BY <1>1, <1>3, RecordsAreLost
  <2>2. ASSUME NEW f \in Finding, Raised(f) PROVE entry'.state[f] = "open"
    <3>1. verdictLanded.line[f] = "open" => Verdict!Known(f)
      BY <1>1, <1>3 DEF VerdictInv, OnRecord
    <3>2. verdictLanded.line[f] \in {"new", "open"} \/ (verdictLanded.line[f] = "none" /\ entry.state[f] = "open")
      BY <1>1, <1>3, <2>2 DEF VerdictInv, OnRecord
    <3> QED
      BY <2>1, <3>1, <3>2 DEF Verdict!Applied, Verdict!State
  <2> QED
    BY <1>1, <1>3, <2>2 DEF VerdictInv, OnRecord, Raised
<1> QED
  BY <1>2, <1>3

LEMMA VerdictStep == VerdictInv /\ [PartNext]_partVars => VerdictInv'
<1> SUFFICES ASSUME VerdictInv, [PartNext]_partVars PROVE VerdictInv'
  OBVIOUS
<1>1. Verdict!Next \/ PartialVerdict!Next \/ UNCHANGED verdictVars
  BY DEF PartNext, partVars
<1>2. CASE Verdict!Submit \/ PartialVerdict!Submit
  BY <1>2, VerdictSubmit
<1>3. CASE Verdict!Record \/ PartialVerdict!Record
  <2>1. PartialVerdict!Record => Verdict!Record
    BY DEF PartialVerdict!Record, Verdict!Record, PartialVerdict!None, Verdict!None, PartialVerdict!Applied, Verdict!Applied,
           PartialVerdict!State, Verdict!State, PartialVerdict!Known, Verdict!Known
  <2> QED
    BY <1>3, <2>1, VerdictRecord
<1>4. CASE Verdict!CIMoves \/ PartialVerdict!CIMoves \/ UNCHANGED verdictVars
  <2>1. UNCHANGED <<entry, verdictLanded, owed, faults>> /\ ci' \in Verdict!CI
    BY <1>4 DEF Verdict!CIMoves, PartialVerdict!CIMoves, verdictVars, Verdict!CI, PartialVerdict!CI, VerdictInv
  <2> QED
    BY <2>1 DEF VerdictInv, OnRecord, Raised, Verdict!Known
<1> QED
  BY <1>1, <1>2, <1>3, <1>4 DEF Verdict!Next, PartialVerdict!Next

\* The body that settles what is open, and raises the findings of a set.
Settling(raising) == [f \in Finding |-> IF f \in raising THEN "new" ELSE IF f \in Verdict!Open THEN "fixed" ELSE "none"]
BodyOf(raising) == [line |-> Settling(raising), cite |-> "check", missed |-> TRUE, recent |-> TRUE, needs |-> "met"]

LEMMA BodyOfFits ==
  ASSUME NEW raising \in SUBSET {f \in Finding : ~Verdict!Known(f)}
  PROVE  /\ BodyOf(raising) \in Verdict!Body /\ Verdict!Lines(BodyOf(raising)) /\ Verdict!Accounts(BodyOf(raising))
         /\ Verdict!New(BodyOf(raising)) = raising
         /\ \A f \in Finding : BodyOf(raising).line[f] # "open" /\ (f \in Verdict!Open => BodyOf(raising).line[f] = "fixed")
<1>1. \A f \in Verdict!Open : f \in Finding /\ Verdict!Known(f) /\ f \notin raising
  BY DEF Verdict!Open, Verdict!Known
<1>2. Settling(raising) \in [Finding -> Verdict!State \cup {"new", "none"}]
  BY DEF Settling, Verdict!State
<1>3. BodyOf(raising) \in Verdict!Body
  BY <1>2 DEF BodyOf, Verdict!Body
<1>4. \A f \in Finding : BodyOf(raising).line[f] = IF f \in raising THEN "new" ELSE IF f \in Verdict!Open THEN "fixed" ELSE "none"
  BY DEF BodyOf, Settling
<1>5. Verdict!New(BodyOf(raising)) = raising
  BY <1>4 DEF Verdict!New
<1>6. Verdict!Lines(BodyOf(raising))
  BY <1>1, <1>4 DEF Verdict!Lines, Verdict!State
<1>7. Verdict!Accounts(BodyOf(raising))
  BY <1>1, <1>4 DEF Verdict!Accounts, BodyOf
<1> QED
  BY <1>1, <1>3, <1>4, <1>5, <1>6, <1>7

\* A reviewer with a whole change approves on green, cites the red check, or says nothing new.
LEMMA SayableAlways == VerdictInv => Verdict!Sayable
<1> SUFFICES ASSUME VerdictInv, verdictLanded = Verdict!None, ci # "cancelled", NEW g \in Finding, ~Verdict!Known(g)
             PROVE  \E v \in Verdict!Verdict, b \in Verdict!Body :
                      Verdict!Honest(v, b) /\ (\A f \in Finding : b.line[f] # "open") /\ Verdict!Accepted(v, b)
  BY DEF Verdict!Sayable
<1>1. ci \in {"green", "failed", "missing", "unreadable"}
  BY DEF VerdictInv, Verdict!CI
<1>2. CASE ci \in {"green", "unreadable"}
  <2> DEFINE v == IF ci = "green" THEN "APPROVE" ELSE "REQUEST_CHANGES"
  <2>1. v \in Verdict!Verdict /\ BodyOf({}) \in Verdict!Body
    BY BodyOfFits DEF Verdict!Verdict
  <2>2. Verdict!New(BodyOf({})) = {} /\ \A f \in Finding : BodyOf({}).line[f] # "open"
    BY BodyOfFits
  <2>3. Verdict!Found(v, BodyOf({}))
    BY BodyOfFits DEF Verdict!Found, Verdict!Approves, Verdict!Settles, Verdict!Open
  <2>4. Verdict!Bears(v) /\ Verdict!Cites(v, BodyOf({})) /\ Verdict!Requirements(v, BodyOf({}))
    BY <1>2 DEF Verdict!Bears, Verdict!Cites, Verdict!Requirements, Verdict!Answered, BodyOf
  <2> HIDE DEF v
  <2> QED
    BY <2>1, <2>2, <2>3, <2>4 DEF Verdict!Honest, Verdict!Accepted
<1>3. CASE ci \in {"failed", "missing"}
  <2>1. "REQUEST_CHANGES" \in Verdict!Verdict /\ BodyOf({g}) \in Verdict!Body
    BY BodyOfFits DEF Verdict!Verdict
  <2>2. \A f \in Finding : BodyOf({g}).line[f] # "open"
    BY BodyOfFits
  <2>3. BodyOf({g}).line[g] = "new" /\ BodyOf({g}).cite = "check"
    BY DEF BodyOf, Settling
  <2>4. Verdict!Found("REQUEST_CHANGES", BodyOf({g}))
    BY BodyOfFits DEF Verdict!Found, Verdict!Approves
  <2>5. Verdict!Cites("REQUEST_CHANGES", BodyOf({g})) /\ Verdict!Honest("REQUEST_CHANGES", BodyOf({g}))
    BY <1>3, <2>3 DEF Verdict!Cites, Verdict!RedHost, Verdict!Honest
  <2>6. Verdict!Bears("REQUEST_CHANGES") /\ Verdict!Requirements("REQUEST_CHANGES", BodyOf({g}))
    BY DEF Verdict!Bears, Verdict!Requirements, Verdict!Answered, BodyOf
  <2> QED
    BY <2>1, <2>2, <2>4, <2>5, <2>6 DEF Verdict!Accepted
<1> QED
  BY <1>1, <1>2, <1>3

\* One with a part of it may request changes without a new finding.
LEMMA PartialSayable == VerdictInv => PartialVerdict!Sayable
<1> SUFFICES \E v \in PartialVerdict!Verdict, b \in PartialVerdict!Body :
               PartialVerdict!Honest(v, b) /\ (\A f \in Finding : b.line[f] # "open") /\ PartialVerdict!Accepted(v, b)
  BY DEF PartialVerdict!Sayable
<1>1. "REQUEST_CHANGES" \in PartialVerdict!Verdict /\ BodyOf({}) \in PartialVerdict!Body
  BY BodyOfFits DEF PartialVerdict!Verdict, PartialVerdict!Body, Verdict!Body, PartialVerdict!State, Verdict!State
<1>2. PartialVerdict!New(BodyOf({})) = {} /\ \A f \in Finding : BodyOf({}).line[f] # "open"
  BY BodyOfFits DEF PartialVerdict!New, Verdict!New
<1>3. PartialVerdict!Lines(BodyOf({})) /\ PartialVerdict!Accounts(BodyOf({}))
  BY BodyOfFits DEF PartialVerdict!Lines, Verdict!Lines, PartialVerdict!Accounts, Verdict!Accounts, PartialVerdict!Known, Verdict!Known,
     PartialVerdict!State, Verdict!State, PartialVerdict!Open, Verdict!Open, PartialVerdict!New, Verdict!New
<1>4. PartialVerdict!Found("REQUEST_CHANGES", BodyOf({}))
  BY <1>3 DEF PartialVerdict!Found, PartialVerdict!Approves
<1>5. PartialVerdict!Bears("REQUEST_CHANGES") /\ PartialVerdict!Cites("REQUEST_CHANGES", BodyOf({}))
      /\ PartialVerdict!Requirements("REQUEST_CHANGES", BodyOf({}))
  BY DEF PartialVerdict!Bears, PartialVerdict!Cites, PartialVerdict!Requirements, PartialVerdict!Owes
<1> QED
  BY <1>1, <1>2, <1>4, <1>5 DEF PartialVerdict!Honest, PartialVerdict!Accepted

\* While no record was lost an accepted approval settles each open finding, and a partial view
\* approves nothing.
LEMMA ApprovalSettles ==
  VerdictInv /\ [PartNext]_partVars =>
    (approved' /\ round' # round /\ faults = LostRecords => \A f \in Finding : owed[f] = "raised" => owed'[f] = "settled")
<1> SUFFICES ASSUME VerdictInv, [PartNext]_partVars, approved', round' # round, faults = LostRecords,
                    NEW f \in Finding, owed[f] = "raised"
             PROVE  owed'[f] = "settled"
  OBVIOUS
<1>1. Verdict!Submit \/ PartialVerdict!Submit
  BY DEF PartNext, partVars, verdictVars, Verdict!Next, PartialVerdict!Next, Verdict!Record, PartialVerdict!Record,
         Verdict!CIMoves, PartialVerdict!CIMoves
<1>2. ~PartialVerdict!Submit
  BY DEF PartialVerdict!Submit, PartialVerdict!Accepted, PartialVerdict!Bears
<1>3. PICK b \in Verdict!Body : Verdict!Accepted("APPROVE", b) /\ owed' = Verdict!Owed(b) /\ verdictLanded = Verdict!None
  BY <1>1, <1>2 DEF Verdict!Submit
<1>4. entry.state[f] = "open"
  BY <1>3 DEF VerdictInv, OnRecord, Raised
<1>5. b.line[f] \in {"fixed", "withdrawn"}
  BY <1>3, <1>4 DEF Verdict!Accepted, Verdict!Found, Verdict!Approves, Verdict!Settles, Verdict!Open
<1> QED
  BY <1>3, <1>5 DEF Verdict!Owed, Verdict!Settles

\* Whatever reviews land and however many of their records are lost, a reviewer that means an
\* honest verdict finds a body the broker accepts; and as long as no record was lost, an approval
\* settles every finding that the landed reviews left open. For any number of findings.
THEOREM VerdictsSettleHolds == PartSpec => VerdictsSettle
<1>1. VerdictInv => (part = "verdict" => Verdict!Sayable) /\ (part = "verdict_partial" => PartialVerdict!Sayable)
  BY SayableAlways, PartialSayable
<1>2. VerdictInv /\ [PartNext]_partVars =>
        [approved' /\ round' # round /\ faults = LostRecords => \A f \in Finding : owed[f] = "raised" => owed'[f] = "settled"]_verdictVars
  BY ApprovalSettles
<1>3. verdictVars = Verdict!vars
  BY DEF verdictVars, Verdict!vars
<1> QED
  BY VerdictInit, VerdictStep, <1>1, <1>2, <1>3, PTL DEF PartSpec, VerdictsSettle, Verdict!AllAnswered, Verdict!vars, verdictVars

-----------------------------------------------------------------------------
(* The staged source (Staging), for any commit, archive, and exports.      *)

Ats == {"identity", "live", "tree", "second", "fetch", "hop", "extract", "third", "publish", "done", "denied", "dead"}
Whys == {"", "exists", "principal", "moved", "unsafe", "redirect", "mismatch", "missing", "unavailable"}
Export == [at : Ats, role : Role, entries : SUBSET Stage!Entry, skipped : SUBSET Stage!Name,
           todo : SUBSET Stage!Entry, files : SUBSET Stage!Entry, why : Whys]
PullRequest == [open : BOOLEAN, head : {"asked", "another"}, based : BOOLEAN]
LiveNow(role, now) == IF role = "issue_fixer" THEN now.based ELSE now.open /\ now.head = "asked"

\* What an export has written is of the tree, all of it once it may publish, and the commit was
\* live after the last of it.
StagedAs(r, saw) ==
  /\ r \in Export /\ r.files \subseteq Stage!Exported(tree)
  /\ r.at \in {"second", "fetch", "hop", "extract", "third", "publish"} => r.entries = Stage!Exported(tree)
  /\ r.at \in {"third", "publish"} => r.files = Stage!Exported(tree)
  /\ r.at = "third" => pr \in saw
  /\ r.at = "publish" => \E now \in saw : LiveNow(r.role, now)
Rooted ==
  root # Stage!None =>
    /\ root.files = Stage!Exported(tree)
    /\ \E p \in Proc : root.by = p /\ stageRun[p].at = "done" /\ \E now \in since[p] : LiveNow(stageRun[p].role, now)
StageInv ==
  /\ pr \in PullRequest /\ tree \in Tree /\ since \in [Proc -> SUBSET PullRequest]
  /\ stageRun \in [Proc -> Export] /\ (\A p \in Proc : StagedAs(stageRun[p], since[p])) /\ Rooted
  /\ \A a \in asked : a.credential => a.host = "api"

LEMMA StageAssumed ==
  /\ Loose \subseteq Stage!Entry /\ "nobody" \notin Proc
  /\ \A t \in Tree : t \subseteq Stage!Entry /\ (\A e \in t : e.data = "own") /\ \A e, f \in t : e.name = f.name => e = f
<1>1. Stage!StagingAssumption
  BY TurnsAssumption
<1> QED
  BY <1>1 DEF Stage!StagingAssumption

LEMMA StageInit == PartInit => (part = "staging" => StageInv)
<1> SUFFICES ASSUME Stage!Init PROVE StageInv
  BY DEF PartInit
<1>1. tree \in Tree /\ root = Stage!None /\ asked = {} /\ pr \in PullRequest
  BY DEF Stage!Init, PullRequest
<1>2. since = [p \in Proc |-> {}]
  BY DEF Stage!Init
<1>3. ASSUME NEW p \in Proc
      PROVE  stageRun[p] \in Export /\ stageRun[p].at = "identity" /\ stageRun[p].files = {}
  <2>1. stageRun[p] \in [at : {"identity"}, role : Role, entries : {{}}, skipped : {{}}, todo : {{}}, files : {{}}, why : {""}]
    BY DEF Stage!Init
  <2>2. stageRun[p].at \in Ats /\ stageRun[p].entries = {} /\ stageRun[p].skipped = {} /\ stageRun[p].todo = {}
        /\ stageRun[p].files = {} /\ stageRun[p].role \in Role /\ stageRun[p].why \in Whys
    BY <2>1 DEF Ats, Whys
  <2>3. stageRun[p] = [at |-> stageRun[p].at, role |-> stageRun[p].role, entries |-> stageRun[p].entries, skipped |-> stageRun[p].skipped,
                       todo |-> stageRun[p].todo, files |-> stageRun[p].files, why |-> stageRun[p].why]
    BY <2>1
  <2> QED
    BY <2>1, <2>2, <2>3 DEF Export
<1>4. stageRun \in [Proc -> Export]
  BY <1>3 DEF Stage!Init
<1> QED
  BY <1>1, <1>2, <1>3, <1>4 DEF StageInv, StagedAs, Rooted

\* A file that is written is an entry of the tree.
LEMMA WrittenIsEntry ==
  ASSUME StageInv, NEW p \in Proc, stageRun[p].at = "extract", NEW m \in Stage!Entry, Stage!Matches(p, m)
  PROVE  Stage!Written(p, m) \in Stage!Exported(tree)
<1>1. stageRun[p].entries = Stage!Exported(tree)
  BY DEF StageInv, StagedAs
<1> DEFINE e == CHOOSE e \in stageRun[p].entries : e.name = m.name
<1>2. e \in stageRun[p].entries /\ e.name = m.name /\ m.data = "own"
  BY DEF Stage!Matches
<1>3. e \in Stage!Entry /\ e.data = "own"
  BY <1>1, <1>2, StageAssumed DEF StageInv, Stage!Exported
<1>4. Stage!Written(p, m) = [name |-> m.name, data |-> m.data, kind |-> e.kind]
  BY DEF Stage!Written
<1> HIDE DEF e
<1>5. e = [name |-> e.name, kind |-> e.kind, data |-> e.data]
  BY <1>3 DEF Stage!Entry
<1>6. [name |-> e.name, kind |-> e.kind, data |-> e.data] = [name |-> m.name, data |-> m.data, kind |-> e.kind]
  BY <1>2, <1>3
<1> QED
  BY <1>1, <1>2, <1>4, <1>5, <1>6

\* With every name of the tree written, all of the tree is.
LEMMA CompleteIsAll ==
  ASSUME StageInv, NEW p \in Proc, stageRun[p].at = "extract", Stage!Complete(p)
  PROVE  stageRun[p].files = Stage!Exported(tree)
<1>1. stageRun[p].entries = Stage!Exported(tree) /\ stageRun[p].files \subseteq Stage!Exported(tree)
  BY DEF StageInv, StagedAs
<1>2. ASSUME NEW e \in Stage!Exported(tree) PROVE e \in stageRun[p].files
  <2>1. e.name \in {f.name : f \in stageRun[p].files}
    BY <1>1 DEF Stage!Complete
  <2>2. PICK f \in stageRun[p].files : f.name = e.name
    BY <2>1
  <2>3. f = e
    BY <1>1, <2>2, StageAssumed DEF StageInv, Stage!Exported
  <2> QED
    BY <2>3
<1> QED
  BY <1>1, <1>2

\* What a step that only moves an export on, or ends it, leaves of its record.
LEMMA Moved ==
  ASSUME stageRun \in [Proc -> Export], NEW p \in Proc, NEW to \in Ats, NEW why \in Whys,
         \/ Stage!At(p, to)
         \/ to = "denied" /\ Stage!Deny(p, why)
  PROVE  /\ stageRun'[p].at = to /\ stageRun'[p].role = stageRun[p].role
         /\ stageRun'[p].entries = stageRun[p].entries /\ stageRun'[p].files = stageRun[p].files
         /\ stageRun'[p] \in Export /\ stageRun' = [stageRun EXCEPT ![p] = stageRun'[p]]
<1> DEFINE r == stageRun[p]
<1>1. r \in Export
  OBVIOUS
<1>2. \/ stageRun' = [stageRun EXCEPT ![p] = [r EXCEPT !.at = to]]
      \/ to = "denied" /\ stageRun' = [stageRun EXCEPT ![p] = [r EXCEPT !.at = to, !.why = why]]
  BY DEF Stage!At, Stage!Deny
<1> HIDE DEF r
<1>3. [r EXCEPT !.at = to] \in Export /\ [r EXCEPT !.at = to, !.why = why] \in Export
  BY <1>1 DEF Export
<1>4. \/ stageRun'[p] = [r EXCEPT !.at = to]
      \/ stageRun'[p] = [r EXCEPT !.at = to, !.why = why]
  BY <1>2
<1>5. stageRun'[p].at = to /\ stageRun'[p].role = r.role /\ stageRun'[p].entries = r.entries /\ stageRun'[p].files = r.files
  BY <1>1, <1>4 DEF Export
<1>6. stageRun' = [stageRun EXCEPT ![p] = stageRun'[p]]
  BY <1>2, <1>4
<1> QED
  BY <1>3, <1>4, <1>5, <1>6 DEF r

\* Every step of an export, its failures, and every move of the pull request keep the invariant.
LEMMA StageStep == StageInv /\ [Stage!Next]_stageVars => StageInv'
<1>s. SUFFICES ASSUME StageInv, [Stage!Next]_stageVars PROVE StageInv'
  OBVIOUS
<1>0. pr \in PullRequest /\ tree \in Tree /\ since \in [Proc -> SUBSET PullRequest] /\ stageRun \in [Proc -> Export]
  BY <1>s DEF StageInv
\* One export becomes r, and saw is what it saw of the pull request since its files were complete.
<1>a. ASSUME NEW p \in Proc, NEW r, NEW saw \in SUBSET PullRequest, StagedAs(r, saw), UNCHANGED <<pr, tree>>,
             stageRun' = [stageRun EXCEPT ![p] = r], since' = [since EXCEPT ![p] = saw],
             \A a \in asked' \ asked : a.credential => a.host = "api",
             \/ root' = root /\ stageRun[p].at # "done"
             \/ /\ root'.files = Stage!Exported(tree) /\ root'.by = p
                /\ r.at = "done" /\ \E now \in saw : LiveNow(r.role, now)
      PROVE  StageInv'
  <2>1. ASSUME NEW q \in Proc PROVE StagedAs(stageRun[q], since[q])'
    <3>1. StagedAs(stageRun'[q], since'[q])
      <4>1. CASE q = p
        BY <4>1, <1>0, <1>a
      <4>2. CASE q # p
        BY <4>2, <1>0, <1>a, <1>s DEF StageInv
      <4> QED
        BY <4>1, <4>2
    <3> QED
      BY <3>1, <1>a DEF StagedAs, Stage!Exported
  <2>2. r \in Export
    BY <1>a DEF StagedAs
  <2>3. stageRun' \in [Proc -> Export] /\ since' \in [Proc -> SUBSET PullRequest]
    BY <1>0, <1>a, <2>2
  <2>4. Rooted'
    <3>1. CASE root' = root /\ stageRun[p].at # "done"
      <4>1. ASSUME root # Stage!None PROVE \E q \in Proc : root.by = q /\ q # p /\ stageRun[q].at = "done"
                                                             /\ \E now \in since[q] : LiveNow(stageRun[q].role, now)
        BY <1>s, <3>1, <4>1 DEF StageInv, Rooted
      <4>2. \A q \in Proc : q # p => stageRun'[q] = stageRun[q] /\ since'[q] = since[q]
        BY <1>0, <1>a
      <4> QED
        BY <1>s, <1>a, <3>1, <4>1, <4>2 DEF StageInv, Rooted, Stage!None, Stage!Exported
    <3>2. CASE root'.files = Stage!Exported(tree) /\ root'.by = p /\ r.at = "done" /\ \E now \in saw : LiveNow(r.role, now)
      <4>1. stageRun'[p] = r /\ since'[p] = saw
        BY <1>0, <1>a
      <4> QED
        BY <1>a, <3>2, <4>1 DEF Rooted, Stage!Exported
    <3> QED
      BY <1>a, <3>1, <3>2
  <2> QED
    BY <1>0, <1>a, <1>s, <2>1, <2>3, <2>4 DEF StageInv
\* A step that only moves an export on, or ends it.
<1>b. ASSUME NEW p \in Proc, UNCHANGED <<pr, tree, since, root>>, \A a \in asked' \ asked : a.credential => a.host = "api",
             stageRun[p].at # "done",
             \/ \E to \in {"live", "tree", "fetch", "hop", "dead"} :
                  Stage!At(p, to) /\ (to \in {"fetch", "hop"} => stageRun[p].at \in {"second", "fetch"})
             \/ \E why \in Whys : Stage!Deny(p, why)
      PROVE  StageInv'
  <2> DEFINE r == stageRun'[p]
  <2>1. StagedAs(stageRun[p], since[p]) /\ stageRun[p] \in Export /\ since[p] \in SUBSET PullRequest
    BY <1>0, <1>s DEF StageInv
  <2>2. PICK to \in {"live", "tree", "fetch", "hop", "denied", "dead"} :
          /\ r.at = to /\ (to \in {"fetch", "hop"} => stageRun[p].at \in {"second", "fetch"})
          /\ r.entries = stageRun[p].entries /\ r.files = stageRun[p].files
          /\ r \in Export /\ stageRun' = [stageRun EXCEPT ![p] = r]
    <3>1. CASE \E to \in {"live", "tree", "fetch", "hop", "dead"} :
                 Stage!At(p, to) /\ (to \in {"fetch", "hop"} => stageRun[p].at \in {"second", "fetch"})
      <4>1. PICK to \in {"live", "tree", "fetch", "hop", "dead"} :
                 Stage!At(p, to) /\ (to \in {"fetch", "hop"} => stageRun[p].at \in {"second", "fetch"})
        BY <3>1
      <4>2. to \in Ats /\ "" \in Whys
        BY DEF Ats, Whys
      <4> QED
        BY <1>0, <4>1, <4>2, Moved
    <3>2. CASE \E why \in Whys : Stage!Deny(p, why)
      <4>1. "denied" \in Ats
        BY DEF Ats
      <4> QED
        BY <1>0, <3>2, <4>1, Moved
    <3> QED
      BY <1>b, <3>1, <3>2
  <2> HIDE DEF r
  <2>3. StagedAs(r, since[p])
    BY <2>1, <2>2 DEF StagedAs
  <2>4. since' = [since EXCEPT ![p] = since[p]]
    BY <1>0, <1>b
  <2> QED
    BY <1>a, <1>b, <2>1, <2>2, <2>3, <2>4
<1>1. CASE Stage!Move
  <2>1. pr' \in PullRequest
    BY <1>0, <1>1 DEF Stage!Move, Stage!Moved, PullRequest
  <2>2. UNCHANGED <<tree, stageRun, root, asked>>
    BY <1>1 DEF Stage!Move
  <2>3. \A p \in Proc : since'[p] = IF since[p] = {} THEN {} ELSE since[p] \cup {pr'}
    BY <1>1 DEF Stage!Move
  <2>4. since' \in [Proc -> SUBSET PullRequest]
    BY <1>0, <1>1, <2>1 DEF Stage!Move
  <2>5. ASSUME NEW p \in Proc PROVE StagedAs(stageRun[p], since[p])'
    <3>1. StagedAs(stageRun[p], since[p])
      BY <1>s DEF StageInv
    <3>2. since[p] \subseteq since'[p] /\ (since[p] # {} => pr' \in since'[p])
      BY <2>3
    <3> QED
      BY <2>2, <3>1, <3>2 DEF StagedAs, Stage!Exported
  <2>6. Rooted'
    <3>1. \A p \in Proc : since[p] \subseteq since'[p]
      BY <2>3
    <3> QED
      BY <1>s, <2>2, <3>1 DEF StageInv, Rooted, Stage!None, Stage!Exported
  <2> QED
    BY <1>0, <1>s, <2>1, <2>2, <2>4, <2>5, <2>6 DEF StageInv
<1>2. ASSUME NEW p \in Proc, Stage!Identity(p) PROVE StageInv'
  <2>1. UNCHANGED <<pr, tree, since, root>> /\ stageRun[p].at = "identity"
        /\ \A a \in asked' \ asked : a.credential => a.host = "api"
    BY <1>2 DEF Stage!Identity, Stage!Ask
  <2>2. Stage!At(p, "live") \/ Stage!Deny(p, "exists") \/ Stage!Deny(p, "principal")
    BY <1>2 DEF Stage!Identity
  <2> QED
    BY <1>b, <2>1, <2>2 DEF Whys
\* A read of the pull request: on, or denied.
<1>l. ASSUME NEW p \in Proc, NEW from \in Ats \ {"done"}, NEW to \in {"tree", "fetch", "publish"}, Stage!LiveRead(p, from, to)
      PROVE  /\ UNCHANGED <<pr, tree, since, root>> /\ stageRun[p].at = from
             /\ \A a \in asked' \ asked : a.credential => a.host = "api"
             /\ \/ Stage!At(p, to) /\ LiveNow(stageRun[p].role, pr)
                \/ Stage!Deny(p, "moved")
  <2>1. \A a \in asked' \ asked : a.credential => a.host = "api"
    BY <1>l DEF Stage!LiveRead, Stage!Ask
  <2> QED
    BY <1>l, <2>1 DEF Stage!LiveRead, Stage!Live, Stage!Based, LiveNow
<1>3. ASSUME NEW p \in Proc, Stage!First(p) \/ Stage!Second(p) PROVE StageInv'
  <2>1. CASE Stage!First(p)
    <3>1. /\ UNCHANGED <<pr, tree, since, root>> /\ stageRun[p].at = "live"
          /\ \A a \in asked' \ asked : a.credential => a.host = "api"
          /\ Stage!At(p, "tree") \/ Stage!Deny(p, "moved")
      BY <1>l, <2>1 DEF Stage!First, Ats
    <3> QED
      BY <1>b, <3>1 DEF Whys
  <2>2. CASE Stage!Second(p)
    <3>1. /\ UNCHANGED <<pr, tree, since, root>> /\ stageRun[p].at = "second"
          /\ \A a \in asked' \ asked : a.credential => a.host = "api"
          /\ Stage!At(p, "fetch") \/ Stage!Deny(p, "moved")
      BY <1>l, <2>2 DEF Stage!Second, Ats
    <3> QED
      BY <1>b, <3>1 DEF Whys
  <2> QED
    BY <1>3, <2>1, <2>2
<1>4. ASSUME NEW p \in Proc, Stage!Third(p) PROVE StageInv'
  <2>1. UNCHANGED <<pr, tree, since, root>> /\ stageRun[p].at = "third" /\ \A a \in asked' \ asked : a.credential => a.host = "api"
    BY <1>l, <1>4 DEF Stage!Third, Ats
  <2>2. CASE Stage!Deny(p, "moved")
    BY <1>b, <2>1, <2>2 DEF Whys
  <2>3. CASE Stage!At(p, "publish") /\ LiveNow(stageRun[p].role, pr)
    <3> DEFINE r == stageRun'[p]
    <3>1. r.at = "publish" /\ r.role = stageRun[p].role /\ r.entries = stageRun[p].entries /\ r.files = stageRun[p].files
          /\ r \in Export /\ stageRun' = [stageRun EXCEPT ![p] = r]
      BY <1>0, <2>3, Moved DEF Ats, Whys
    <3> HIDE DEF r
    <3>2. StagedAs(stageRun[p], since[p])
      BY <1>s DEF StageInv
    <3>3. StagedAs(r, since[p])
      BY <2>1, <2>3, <3>1, <3>2 DEF StagedAs
    <3>4. since' = [since EXCEPT ![p] = since[p]] /\ since[p] \in SUBSET PullRequest
      BY <1>0, <2>1
    <3> QED
      BY <1>a, <2>1, <3>1, <3>3, <3>4
  <2> QED
    BY <1>l, <1>4, <2>2, <2>3 DEF Stage!Third, Ats
<1>5. ASSUME NEW p \in Proc, Stage!ReadTree(p) PROVE StageInv'
  <2>1. UNCHANGED <<pr, tree, since, root>> /\ stageRun[p].at = "tree" /\ \A a \in asked' \ asked : a.credential => a.host = "api"
    BY <1>5 DEF Stage!ReadTree, Stage!Ask
  <2>2. CASE Stage!Deny(p, "unsafe")
    BY <1>b, <2>1, <2>2 DEF Whys
  <2>3. CASE ~Stage!Deny(p, "unsafe")
    <3> DEFINE r == [stageRun[p] EXCEPT !.at = "second", !.entries = Stage!Exported(tree), !.skipped = Stage!Skipped(tree)]
    <3>1. stageRun' = [stageRun EXCEPT ![p] = r]
      BY <1>5, <2>3 DEF Stage!ReadTree
    <3>2. Stage!Exported(tree) \in SUBSET Stage!Entry /\ Stage!Skipped(tree) \in SUBSET Stage!Name
      BY <1>0, StageAssumed DEF Stage!Exported, Stage!Skipped, Stage!Entry
    <3>3. r \in Export /\ r.at = "second" /\ r.entries = Stage!Exported(tree) /\ r.files = stageRun[p].files
      BY <1>0, <3>2 DEF Export, Ats
    <3> HIDE DEF r
    <3>4. StagedAs(stageRun[p], since[p])
      BY <1>s DEF StageInv
    <3>5. StagedAs(r, since[p])
      BY <3>3, <3>4 DEF StagedAs
    <3>6. since' = [since EXCEPT ![p] = since[p]] /\ since[p] \in SUBSET PullRequest
      BY <1>0, <2>1
    <3> QED
      BY <1>a, <2>1, <3>1, <3>5, <3>6
  <2> QED
    BY <2>2, <2>3
\* What arrives are entries, of the tree or not.
<1>c. ASSUME NEW p \in Proc, Stage!Arrives(p), stageRun[p].at \in {"fetch", "hop"}, UNCHANGED <<pr, tree, since, root>>,
             \A a \in asked' \ asked : a.credential => a.host = "api"
      PROVE  StageInv'
  <2>1. PICK todo \in Stage!Archives : stageRun' = [stageRun EXCEPT ![p].at = "extract", ![p].todo = todo]
    BY <1>c DEF Stage!Arrives
  <2>2. todo \in SUBSET Stage!Entry
    BY <1>0, <2>1, StageAssumed DEF Stage!Archives
  <2> DEFINE r == [stageRun[p] EXCEPT !.at = "extract", !.todo = todo]
  <2>3. stageRun' = [stageRun EXCEPT ![p] = r]
    BY <2>1
  <2>4. r \in Export /\ r.at = "extract" /\ r.entries = stageRun[p].entries /\ r.files = stageRun[p].files
    BY <1>0, <2>2 DEF Export, Ats
  <2> HIDE DEF r
  <2>5. StagedAs(stageRun[p], since[p])
    BY <1>s DEF StageInv
  <2>6. StagedAs(r, since[p])
    BY <1>c, <2>4, <2>5 DEF StagedAs
  <2>7. since' = [since EXCEPT ![p] = since[p]] /\ since[p] \in SUBSET PullRequest
    BY <1>0, <1>c
  <2> QED
    BY <1>a, <1>c, <2>3, <2>6, <2>7
<1>6. ASSUME NEW p \in Proc, Stage!Fetch(p) PROVE StageInv'
  <2>1. UNCHANGED <<pr, tree, since, root>> /\ stageRun[p].at = "fetch" /\ \A a \in asked' \ asked : a.credential => a.host = "api"
    <3>1. asked' = asked \cup {[host |-> "api", credential |-> TRUE]}
      BY <1>6 DEF Stage!Fetch, Stage!Ask
    <3>2. UNCHANGED <<pr, tree, since, root>> /\ stageRun[p].at = "fetch"
      BY <1>6 DEF Stage!Fetch
    <3> QED
      BY <3>1, <3>2
  <2>2. CASE Stage!Arrives(p)
    BY <1>c, <2>1, <2>2
  <2>3. CASE ~Stage!Arrives(p)
    <3>1. PICK to \in {"hop", "denied"}, why \in Whys : stageRun' = [stageRun EXCEPT ![p].at = to, ![p].why = why]
      BY <1>6, <2>3 DEF Stage!Fetch, Whys
    <3> DEFINE r == [stageRun[p] EXCEPT !.at = to, !.why = why]
    <3>2. stageRun' = [stageRun EXCEPT ![p] = r]
      BY <3>1
    <3>3. r \in Export /\ r.at = to /\ r.entries = stageRun[p].entries /\ r.files = stageRun[p].files
      BY <1>0 DEF Export, Ats
    <3> HIDE DEF r
    <3>4. StagedAs(stageRun[p], since[p])
      BY <1>s DEF StageInv
    <3>5. StagedAs(r, since[p])
      BY <2>1, <3>3, <3>4 DEF StagedAs
    <3>6. since' = [since EXCEPT ![p] = since[p]] /\ since[p] \in SUBSET PullRequest
      BY <1>0, <2>1
    <3> QED
      BY <1>a, <2>1, <3>2, <3>5, <3>6
  <2> QED
    BY <2>2, <2>3
<1>7. ASSUME NEW p \in Proc, Stage!FetchHop(p) PROVE StageInv'
  BY <1>c, <1>7 DEF Stage!FetchHop, Stage!Hop, Stage!Ask
<1>8. ASSUME NEW p \in Proc, Stage!Extract(p) PROVE StageInv'
  <2>1. UNCHANGED <<pr, tree, since, root, asked>> /\ stageRun[p].at = "extract"
    BY <1>8 DEF Stage!Extract
  <2> DEFINE rest(m) == [stageRun[p] EXCEPT !.todo = @ \ {m}]
             with(m) == [stageRun[p] EXCEPT !.todo = @ \ {m}, !.files = @ \cup {Stage!Written(p, m)}]
  <2>2. PICK m \in stageRun[p].todo :
          \/ stageRun' = [stageRun EXCEPT ![p] = rest(m)]
          \/ Stage!Matches(p, m) /\ stageRun' = [stageRun EXCEPT ![p] = with(m)]
          \/ Stage!Deny(p, "unsafe") \/ Stage!Deny(p, "mismatch")
    <3>1. PICK m \in stageRun[p].todo :
            \/ stageRun' = [stageRun EXCEPT ![p].todo = @ \ {m}]
            \/ /\ Stage!Matches(p, m)
               /\ stageRun' = [[stageRun EXCEPT ![p].todo = @ \ {m}] EXCEPT ![p].files = @ \cup {Stage!Written(p, m)}]
            \/ Stage!Deny(p, "unsafe") \/ Stage!Deny(p, "mismatch")
      BY <1>8 DEF Stage!Extract
    <3>2. stageRun[p] \in Export
      BY <1>0
    <3>3. [stageRun EXCEPT ![p].todo = @ \ {m}] = [stageRun EXCEPT ![p] = rest(m)]
      OBVIOUS
    <3>4. [[stageRun EXCEPT ![p].todo = @ \ {m}] EXCEPT ![p].files = @ \cup {Stage!Written(p, m)}] = [stageRun EXCEPT ![p] = with(m)]
      BY <1>0, <3>2 DEF Export
    <3> QED
      BY <3>1, <3>3, <3>4
  <2>3. StagedAs(stageRun[p], since[p]) /\ stageRun[p] \in Export
    BY <1>0, <1>s DEF StageInv
  <2>4. m \in Stage!Entry
    BY <2>2, <2>3 DEF Export
  <2>5. since' = [since EXCEPT ![p] = since[p]] /\ since[p] \in SUBSET PullRequest
    BY <1>0, <2>1
  <2>6. CASE stageRun' = [stageRun EXCEPT ![p] = rest(m)]
    <3>1. rest(m) \in Export /\ rest(m).at = "extract" /\ rest(m).entries = stageRun[p].entries /\ rest(m).files = stageRun[p].files
      BY <2>1, <2>3 DEF Export
    <3>2. PICK r : r = rest(m)
      OBVIOUS
    <3> HIDE DEF rest
    <3>3. StagedAs(r, since[p])
      BY <2>1, <2>3, <3>1, <3>2 DEF StagedAs
    <3> QED
      BY <1>a, <2>1, <2>5, <2>6, <3>2, <3>3
  <2>7. CASE Stage!Matches(p, m) /\ stageRun' = [stageRun EXCEPT ![p] = with(m)]
    <3>1. Stage!Written(p, m) \in Stage!Exported(tree)
      BY <1>s, <2>1, <2>4, <2>7, WrittenIsEntry
    <3>2. Stage!Written(p, m) \in Stage!Entry
      BY <1>0, <3>1, StageAssumed DEF Stage!Exported
    <3>3. with(m) \in Export /\ with(m).at = "extract" /\ with(m).entries = stageRun[p].entries
          /\ with(m).files = stageRun[p].files \cup {Stage!Written(p, m)}
      BY <2>1, <2>3, <3>2 DEF Export
    <3>4. PICK r : r = with(m)
      OBVIOUS
    <3> HIDE DEF with
    <3>5. StagedAs(r, since[p])
      BY <2>1, <2>3, <3>1, <3>3, <3>4 DEF StagedAs
    <3> QED
      BY <1>a, <2>1, <2>5, <2>7, <3>4, <3>5
  <2>8. CASE Stage!Deny(p, "unsafe") \/ Stage!Deny(p, "mismatch")
    BY <1>b, <2>1, <2>8 DEF Whys
  <2> QED
    BY <2>2, <2>6, <2>7, <2>8
<1>9. ASSUME NEW p \in Proc, Stage!Extracted(p) PROVE StageInv'
  <2>1. UNCHANGED <<pr, tree, root, asked>> /\ stageRun[p].at = "extract"
    BY <1>9 DEF Stage!Extracted
  <2>2. CASE Stage!Complete(p)
    <3> DEFINE r == stageRun'[p]
    <3>1. Stage!At(p, "third") /\ since' = [since EXCEPT ![p] = {pr}]
      BY <1>9, <2>2 DEF Stage!Extracted
    <3>2. r.at = "third" /\ r.role = stageRun[p].role /\ r.entries = stageRun[p].entries /\ r.files = stageRun[p].files
          /\ r \in Export /\ stageRun' = [stageRun EXCEPT ![p] = r]
      BY <1>0, <3>1, Moved DEF Ats, Whys
    <3> HIDE DEF r
    <3>3. stageRun[p].files = Stage!Exported(tree) /\ StagedAs(stageRun[p], since[p])
      BY <1>s, <2>1, <2>2, CompleteIsAll DEF StageInv
    <3>4. StagedAs(r, {pr})
      BY <2>1, <3>2, <3>3 DEF StagedAs
    <3> QED
      BY <1>0, <1>a, <2>1, <3>1, <3>2, <3>4
  <2>3. CASE ~Stage!Complete(p)
    BY <1>9, <1>b, <2>1, <2>3 DEF Stage!Extracted, Whys
  <2> QED
    BY <2>2, <2>3
<1>10. ASSUME NEW p \in Proc, Stage!Publish(p) PROVE StageInv'
  <2>1. UNCHANGED <<pr, tree, since, asked>> /\ stageRun[p].at = "publish"
    BY <1>10 DEF Stage!Publish
  <2>2. CASE Stage!Free(p)
    <3> DEFINE r == stageRun'[p]
    <3>1. Stage!At(p, "done") /\ root' = [by |-> p, files |-> stageRun[p].files]
      BY <1>10, <2>2 DEF Stage!Publish
    <3>2. r.at = "done" /\ r.role = stageRun[p].role /\ r.entries = stageRun[p].entries /\ r.files = stageRun[p].files
          /\ r \in Export /\ stageRun' = [stageRun EXCEPT ![p] = r]
      BY <1>0, <3>1, Moved DEF Ats, Whys
    <3> HIDE DEF r
    <3>3. StagedAs(stageRun[p], since[p])
      BY <1>s DEF StageInv
    <3>4. StagedAs(r, since[p]) /\ \E now \in since[p] : LiveNow(r.role, now)
      BY <2>1, <3>2, <3>3 DEF StagedAs
    <3>5. root'.files = Stage!Exported(tree) /\ root'.by = p
      BY <2>1, <3>1, <3>3 DEF StagedAs
    <3>6. since' = [since EXCEPT ![p] = since[p]] /\ since[p] \in SUBSET PullRequest
      BY <1>0, <2>1
    <3> QED
      BY <1>a, <2>1, <3>2, <3>4, <3>5, <3>6
  <2>3. CASE ~Stage!Free(p)
    BY <1>10, <1>b, <2>1, <2>3 DEF Stage!Publish, Whys
  <2> QED
    BY <2>2, <2>3
<1>11. ASSUME NEW p \in Proc, Stage!Fails(p) \/ Stage!Dies(p) PROVE StageInv'
  <2>1. UNCHANGED <<pr, tree, root, asked, since>> /\ stageRun[p].at # "done"
    BY <1>11 DEF Stage!Fails, Stage!Dies
  <2>2. Stage!Deny(p, "unavailable") \/ Stage!At(p, "dead")
    BY <1>11 DEF Stage!Fails, Stage!Dies
  <2> QED
    BY <1>b, <2>1, <2>2 DEF Whys
<1>12. ASSUME UNCHANGED <<pr, tree, stageRun, root, asked, since>> PROVE StageInv'
  BY <1>s, <1>12 DEF StageInv, StagedAs, Rooted, Stage!None, Stage!Exported
<1>13. ASSUME NEW p \in Proc, Stage!Cleared(p) PROVE StageInv'
  BY <1>12, <1>13 DEF Stage!Cleared
<1> QED
  <2>1. CASE UNCHANGED stageVars
    BY <1>12, <2>1 DEF stageVars
  <2>2. CASE Stage!Next
    BY <1>1, <1>2, <1>3, <1>4, <1>5, <1>6, <1>7, <1>8, <1>9, <1>10, <1>11, <1>13, <2>2 DEF Stage!Next, Stage!Step
  <2> QED
    BY <1>s, <2>1, <2>2

\* No step of any export, of one or of many, replaces what is at the root.
LEMMA RootKept == [PartNext]_partVars => (root # Stages!None => root' = root)
<1> SUFFICES ASSUME [PartNext]_partVars, root # Stages!None PROVE root' = root
  OBVIOUS
<1>1. Stage!Next \/ Stages!Next \/ UNCHANGED stageVars
  BY DEF PartNext, partVars
<1>2. ASSUME Stage!Next PROVE root' = root
  BY <1>2 DEF Stage!Next, Stage!Step, Stage!Move, Stage!Identity, Stage!First, Stage!ReadTree, Stage!Second, Stage!Third, Stage!LiveRead,
     Stage!Fetch, Stage!FetchHop, Stage!Extract, Stage!Extracted, Stage!Publish, Stage!Free, Stage!Cleared, Stage!Fails, Stage!Dies,
     Stage!None, Stages!None
<1>3. ASSUME Stages!Next PROVE root' = root
  BY <1>3 DEF Stages!Next, Stages!Step, Stages!Move, Stages!Identity, Stages!First, Stages!ReadTree, Stages!Second, Stages!Third,
     Stages!LiveRead, Stages!Fetch, Stages!FetchHop, Stages!Extract, Stages!Extracted, Stages!Publish, Stages!Free, Stages!Cleared,
     Stages!Fails, Stages!Dies
<1> QED
  BY <1>1, <1>2, <1>3 DEF stageVars

\* What a turn is given is the commit's regular files, of a pull request that was live after the
\* last was written, and of two exports to one root none replaces the other, for any trees,
\* archives, moves, faults and numbers of exports.
THEOREM SourceIsWholeHolds == PartSpec => SourceIsWhole
<1> DEFINE Inv == part = "staging" => StageInv
<1>1. PartInit => Inv
  BY StageInit
<1>2. Inv /\ [PartNext]_partVars => Inv'
  <2> SUFFICES ASSUME Inv, [PartNext]_partVars, part' = "staging" PROVE StageInv'
    OBVIOUS
  <2>1. part = "staging" /\ [Stage!Next]_stageVars
    BY DEF PartNext, partVars
  <2> QED
    BY <2>1, StageStep
<1>3. Inv => (part = "staging" => Stage!Whole /\ Stage!WasLive /\ Stage!Kept)
  <2> SUFFICES ASSUME StageInv PROVE Stage!Whole /\ Stage!WasLive /\ Stage!Kept
    OBVIOUS
  <2>1. Rooted
    BY DEF StageInv
  <2>2. ASSUME NEW p \in Proc, root.by = p PROVE \E now \in since[p] : Stage!Live(p, now)
    <3>1. root # Stage!None
      BY <2>2, StageAssumed DEF Stage!None
    <3> QED
      BY <2>1, <2>2, <3>1 DEF Rooted, LiveNow, Stage!Live, Stage!Based
  <2> QED
    BY <2>1, <2>2 DEF StageInv, Rooted, Stage!Whole, Stage!WasLive, Stage!Kept
<1>4. [PartNext]_partVars => [root # Stages!None => root' = root]_stageVars
  BY RootKept
<1> HIDE DEF Inv
<1> QED
  BY <1>1, <1>2, <1>3, <1>4, PTL DEF PartSpec, SourceIsWhole, Stages!Exclusive, Stages!vars, stageVars

-----------------------------------------------------------------------------
(* The clean-up (Cleanup), for any directories and files.                  *)

\* What a path may hold: as in Of, with a branch checked out in a worktree meanwhile.
Held(p) == {c \in Clean!Content : p = Artifacts => c.pr = "mine" /\ c.inside /\ c.git \notin {"detached", "branch"}}
CleanAts == {"look", "clear", "save", "list", "next", "judge", "remove", "done", "refused"}
CleanRun ==
  [at : CleanAts, loaded : SUBSET Clean!PR, registered : SUBSET Path, protected : SUBSET Path, todo : SUBSET Path,
   path : Path \cup {Clean!None}, pinned : Clean!Content \cup {Clean!None}, ok : BOOLEAN]
CleanTyped ==
  /\ state \subseteq Clean!PR /\ cleanRun \in CleanRun /\ disk \in [Path -> Clean!Content \cup {Clean!None}]
  /\ \A p \in Path : disk[p] # Clean!None => disk[p] \in Held(p)
  /\ cleanLeft \in [swaps : 0..1, checkouts : Nat, alone : BOOLEAN]
  /\ cleanRun.at \in {"judge", "remove"} =>
       cleanRun.path \in Path /\ cleanRun.pinned # Clean!None /\ cleanRun.pinned \in Held(cleanRun.path)

\* What may be removed of a path, evidence apart.
Fit(p, c) == c # Clean!None /\ ~c.link /\ c.inside /\ c.git # "foreign" /\ (c.git \in {"below", "branch_below"} => p = Artifacts)
\* The directory that was judged is the one that was pinned, or one was swapped since and none will be.
Judged ==
  /\ cleanRun.at = "judge" /\ cleanLeft.swaps > 0 => disk[cleanRun.path] = cleanRun.pinned
  /\ cleanRun.at = "remove" =>
       \/ Fit(cleanRun.path, cleanRun.pinned)
       \/ cleanLeft.swaps = 0 /\ Fit(cleanRun.path, disk[cleanRun.path])
\* Nobody else has done anything: what is left of the list is what is still on the disk.
Listed == cleanRun.at \in {"next", "judge", "remove", "done"}
Branched(p) == disk[p] # Clean!None /\ disk[p].git \in {"branch", "branch_below"}
Detached(p) == disk[p] # Clean!None /\ disk[p].git = "detached"
Undisturbed ==
  /\ cleanRun.at \in {"judge", "remove"} => disk[cleanRun.path] = cleanRun.pinned
  /\ cleanRun.at = "remove" => cleanRun.path \notin cleanRun.protected /\ Clean!OwnGit(cleanRun.path)
  /\ Listed => \A p \in Path :
       /\ Branched(p) => p \in cleanRun.protected
       /\ Detached(p) => p \in cleanRun.registered
       /\ p \in cleanRun.protected /\ disk[p] # Clean!None => Branched(p)
       /\ Clean!Leftover(p) => p \in cleanRun.todo \/ (cleanRun.at \in {"judge", "remove"} /\ p = cleanRun.path)
  /\ cleanRun.at = "done" => cleanRun.todo = {}
CleanInv ==
  /\ CleanTyped /\ Judged /\ (cleanLeft.alone => Undisturbed)
  /\ (Listed \/ cleanRun.at = "list" => "mine" \notin state)
  /\ Clean!OnlyOwn /\ (cleanLeft.alone => Clean!BranchKept)

LEMMA CleanAssumed == Artifacts \in Path /\ Contents \subseteq Clean!Content /\ Swaps \in 0..1 /\ Checkouts \in Nat
<1>1. Clean!CleanupAssumption
  BY TurnsAssumption
<1> QED
  BY <1>1 DEF Clean!CleanupAssumption

LEMMA ContentIsSome == \A c \in Clean!Content : c # Clean!None
<1> SUFFICES ASSUME NEW c \in Clean!Content, c = Clean!None PROVE FALSE
  OBVIOUS
<1>1. "pr" \in DOMAIN c /\ DOMAIN c = {"none"}
  BY DEF Clean!Content, Clean!None
<1> QED
  BY <1>1

LEMMA OfIsHeld == \A p \in Path : Clean!Of(p) \subseteq Held(p)
  BY CleanAssumed DEF Clean!Of, Held

LEMMA CleanInit == PartInit => CleanInv
<1> SUFFICES ASSUME Clean!Init PROVE CleanInv
  BY DEF PartInit
<1>1. disk \in [Path -> Contents \cup {Clean!None}] /\ \A p \in Path : disk[p] = Clean!None \/ disk[p] \in Clean!Of(p)
  BY DEF Clean!Init
<1>2. cleanRun = [at |-> "look", loaded |-> {}, registered |-> {}, protected |-> {}, todo |-> {}, path |-> Clean!None,
                  pinned |-> Clean!None, ok |-> FALSE]
      /\ cleanLeft = [swaps |-> Swaps, checkouts |-> Checkouts, alone |-> TRUE] /\ removed = {}
  BY DEF Clean!Init
<1>3. CleanTyped
  <2>1. disk \in [Path -> Clean!Content \cup {Clean!None}]
    BY <1>1, CleanAssumed
  <2>2. \A p \in Path : disk[p] # Clean!None => disk[p] \in Held(p)
    BY <1>1, OfIsHeld
  <2>3. cleanRun \in CleanRun
    BY <1>2 DEF CleanRun, CleanAts
  <2>4. cleanLeft \in [swaps : 0..1, checkouts : Nat, alone : BOOLEAN]
    BY <1>2, CleanAssumed
  <2>5. state \subseteq Clean!PR /\ cleanRun.at = "look"
    <3>1. state \in SUBSET Clean!PR
      BY DEF Clean!Init
    <3> QED
      BY <3>1, <1>2
  <2> QED
    BY <2>1, <2>2, <2>3, <2>4, <2>5 DEF CleanTyped
<1>4. Judged /\ Undisturbed /\ ~Listed /\ cleanRun.at # "list"
  BY <1>2 DEF Judged, Undisturbed, Listed
<1> QED
  BY <1>2, <1>3, <1>4 DEF CleanInv, Clean!OnlyOwn, Clean!BranchKept

\* The steps of the clean-up, and of the others meanwhile, keep the invariant.
LEMMA CleanStep == CleanInv /\ [Clean!Next]_cleanVars => CleanInv'
<1>s. SUFFICES ASSUME CleanInv, [Clean!Next]_cleanVars PROVE CleanInv'
  OBVIOUS
<1>0. CleanTyped /\ Judged /\ (cleanLeft.alone => Undisturbed) /\ (Listed \/ cleanRun.at = "list" => "mine" \notin state)
      /\ Clean!OnlyOwn /\ (cleanLeft.alone => Clean!BranchKept)
  BY <1>s DEF CleanInv
<1>t. state \subseteq Clean!PR /\ cleanRun \in CleanRun /\ disk \in [Path -> Clean!Content \cup {Clean!None}]
      /\ (\A p \in Path : disk[p] # Clean!None => disk[p] \in Held(p))
      /\ cleanLeft \in [swaps : 0..1, checkouts : Nat, alone : BOOLEAN]
      /\ (cleanRun.at \in {"judge", "remove"} =>
            cleanRun.path \in Path /\ cleanRun.pinned # Clean!None /\ cleanRun.pinned \in Held(cleanRun.path))
  BY <1>0 DEF CleanTyped
\* The steps before the list is made leave everything as it is but the state.
<1>a. ASSUME UNCHANGED <<disk, removed, cleanLeft>>, cleanRun' \in CleanRun, cleanRun'.at \notin {"next", "judge", "remove", "done"},
             cleanRun'.at = "list" => "mine" \notin state', state' \subseteq Clean!PR
      PROVE  CleanInv'
  <2>1. CleanTyped'
    BY <1>a, <1>t DEF CleanTyped
  <2>2. Judged' /\ Undisturbed' /\ ~Listed'
    BY <1>a DEF Judged, Undisturbed, Listed
  <2> QED
    BY <1>0, <1>a, <2>1, <2>2 DEF CleanInv, Clean!OnlyOwn, Clean!BranchKept
<1>1. CASE Clean!Look
  <2>1. cleanRun' = [cleanRun EXCEPT !.at = "clear"] \/ cleanRun' = [cleanRun EXCEPT !.at = "refused"]
    BY <1>1 DEF Clean!Look, Clean!Found, Clean!At
  <2>2. cleanRun' \in CleanRun /\ cleanRun'.at \in {"clear", "refused"}
    BY <1>t, <2>1 DEF CleanRun, CleanAts
  <2> QED
    BY <1>1, <1>a, <1>t, <2>2 DEF Clean!Look
<1>2. CASE Clean!Load
  <2>1. cleanRun' = [cleanRun EXCEPT !.at = "save", !.loaded = state] /\ UNCHANGED <<disk, state, removed, cleanLeft>>
    BY <1>2 DEF Clean!Load
  <2>2. cleanRun' \in CleanRun /\ cleanRun'.at = "save"
    BY <1>t, <2>1 DEF CleanRun, CleanAts
  <2> QED
    BY <1>a, <1>t, <2>1, <2>2
<1>3. CASE Clean!Save
  <2>1. cleanRun' = [cleanRun EXCEPT !.at = "list"] /\ state' = cleanRun.loaded \ {"mine"} /\ UNCHANGED <<disk, removed, cleanLeft>>
    BY <1>3 DEF Clean!Save, Clean!At
  <2>2. cleanRun' \in CleanRun /\ cleanRun'.at = "list" /\ cleanRun.loaded \subseteq Clean!PR
    BY <1>t, <2>1 DEF CleanRun, CleanAts
  <2> QED
    BY <1>a, <2>1, <2>2
\* The list names, of what is on the disk, all that may go, and what must stay.
<1>4. CASE Clean!List
  <2>1. cleanRun.at = "list" /\ UNCHANGED <<disk, state, removed, cleanLeft>>
        /\ cleanRun' = [cleanRun EXCEPT !.at = "next", !.todo = Clean!Candidates,
                          !.registered = {p \in Clean!Worktrees : disk[p].git = "detached"},
                          !.protected = {p \in Path : Clean!There(p) /\ disk[p].git \in {"branch", "branch_below"}}]
    BY <1>4 DEF Clean!List
  <2>2. Clean!Candidates \subseteq Path /\ Clean!Worktrees \subseteq Path
    BY CleanAssumed DEF Clean!Candidates, Clean!Worktrees, Clean!Children
  <2>3. cleanRun' \in CleanRun /\ cleanRun'.at = "next" /\ cleanRun'.todo = Clean!Candidates
        /\ cleanRun'.registered = {p \in Clean!Worktrees : disk[p].git = "detached"}
        /\ cleanRun'.protected = {p \in Path : Clean!There(p) /\ disk[p].git \in {"branch", "branch_below"}}
    BY <1>t, <2>1, <2>2 DEF CleanRun, CleanAts
  <2>4. CleanTyped' /\ Judged'
    BY <1>t, <2>1, <2>3 DEF CleanTyped, Judged
  <2>5. ASSUME NEW p \in Path
        PROVE  /\ Branched(p) <=> p \in cleanRun'.protected
               /\ Detached(p) => p \in cleanRun'.registered
               /\ Clean!Leftover(p) => p \in cleanRun'.todo
    <3>1. Branched(p) <=> p \in cleanRun'.protected
      BY <2>3 DEF Branched, Clean!There
    <3>2. Detached(p) => p \in cleanRun'.registered
      BY <2>3 DEF Detached, Clean!Worktrees, Clean!There
    <3>3. Clean!Leftover(p) => p \in cleanRun'.todo
      BY <2>3, CleanAssumed DEF Clean!Leftover, Clean!Candidates, Clean!Worktrees, Clean!Children, Clean!There
    <3> QED
      BY <3>1, <3>2, <3>3
  <2>6. Undisturbed'
    BY <2>1, <2>3, <2>5 DEF Undisturbed, Listed, Branched, Detached, Clean!Leftover, Clean!There
  <2> QED
    BY <1>0, <2>1, <2>3, <2>4, <2>6 DEF CleanInv, Listed, Clean!OnlyOwn, Clean!BranchKept
<1>5. CASE Clean!Pin
  <2>1. cleanRun.at = "next" /\ UNCHANGED <<disk, state, removed, cleanLeft>>
    BY <1>5 DEF Clean!Pin
  <2>2. CASE cleanRun.todo = {}
    <3>1. cleanRun' = [cleanRun EXCEPT !.at = "done"]
      BY <1>5, <2>2 DEF Clean!Pin, Clean!At
    <3>2. cleanRun' \in CleanRun /\ cleanRun'.at = "done" /\ cleanRun'.todo = {} /\ cleanRun'.registered = cleanRun.registered
          /\ cleanRun'.protected = cleanRun.protected
      BY <1>t, <2>2, <3>1 DEF CleanRun, CleanAts
    <3>3. CleanTyped' /\ Judged'
      BY <1>t, <2>1, <3>2 DEF CleanTyped, Judged
    <3>4. cleanLeft.alone => Undisturbed'
      BY <1>0, <2>1, <2>2, <3>2 DEF Undisturbed, Listed, Branched, Detached, Clean!Leftover, Clean!There
    <3> QED
      BY <1>0, <2>1, <3>2, <3>3, <3>4 DEF CleanInv, Listed, Clean!OnlyOwn, Clean!BranchKept
  <2>3. CASE cleanRun.todo # {}
    <3>1. PICK p \in cleanRun.todo :
            cleanRun' = IF Clean!There(p) /\ ~disk[p].link
                        THEN [cleanRun EXCEPT !.at = "judge", !.todo = @ \ {p}, !.path = p, !.pinned = disk[p]]
                        ELSE [cleanRun EXCEPT !.todo = @ \ {p}]
      BY <1>5, <2>3 DEF Clean!Pin
    <3>2. p \in Path /\ disk[p] \in Clean!Content \cup {Clean!None}
      BY <1>t DEF CleanRun
    <3>3. CASE Clean!There(p) /\ ~disk[p].link
      <4>1. cleanRun' = [cleanRun EXCEPT !.at = "judge", !.todo = @ \ {p}, !.path = p, !.pinned = disk[p]]
        BY <3>1, <3>3
      <4>2. cleanRun' \in CleanRun /\ cleanRun'.at = "judge" /\ cleanRun'.todo = cleanRun.todo \ {p} /\ cleanRun'.path = p
            /\ cleanRun'.pinned = disk[p] /\ cleanRun'.registered = cleanRun.registered /\ cleanRun'.protected = cleanRun.protected
        BY <1>t, <3>2, <4>1 DEF CleanRun, CleanAts
      <4>3. CleanTyped' /\ Judged'
        BY <1>t, <2>1, <3>2, <3>3, <4>2 DEF CleanTyped, Judged, Clean!There
      <4>4. cleanLeft.alone => Undisturbed'
        BY <1>0, <2>1, <4>2 DEF Undisturbed, Listed, Branched, Detached, Clean!Leftover, Clean!There
      <4> QED
        BY <1>0, <2>1, <4>2, <4>3, <4>4 DEF CleanInv, Listed, Clean!OnlyOwn, Clean!BranchKept
    <3>4. CASE ~(Clean!There(p) /\ ~disk[p].link)
      <4>1. cleanRun' = [cleanRun EXCEPT !.todo = @ \ {p}]
        BY <3>1, <3>4
      <4>2. cleanRun' \in CleanRun /\ cleanRun'.at = "next" /\ cleanRun'.todo = cleanRun.todo \ {p}
            /\ cleanRun'.registered = cleanRun.registered /\ cleanRun'.protected = cleanRun.protected
        BY <1>t, <2>1, <4>1 DEF CleanRun
      <4>3. CleanTyped' /\ Judged' /\ ~Clean!Leftover(p)
        BY <1>t, <2>1, <3>4, <4>2 DEF CleanTyped, Judged, Clean!Leftover
      <4>4. cleanLeft.alone => Undisturbed'
        BY <1>0, <2>1, <4>2, <4>3 DEF Undisturbed, Listed, Branched, Detached, Clean!Leftover, Clean!There
      <4> QED
        BY <1>0, <2>1, <4>2, <4>3, <4>4 DEF CleanInv, Listed, Clean!OnlyOwn, Clean!BranchKept
    <3> QED
      BY <3>3, <3>4
  <2> QED
    BY <2>2, <2>3
<1>6. CASE Clean!Judge
  <2>p. PICK p : p = cleanRun.path
    OBVIOUS
  <2> DEFINE ok == Clean!Owned(p) /\ ~Clean!Overlaps(p)
  <2>1. cleanRun.at = "judge" /\ UNCHANGED <<disk, state, removed, cleanLeft>>
        /\ cleanRun' = [cleanRun EXCEPT !.at = IF ok THEN "remove" ELSE "next"]
    BY <1>6, <2>p DEF Clean!Judge, Clean!At
  <2>2. cleanRun' \in CleanRun /\ cleanRun'.at = (IF ok THEN "remove" ELSE "next") /\ cleanRun'.todo = cleanRun.todo
        /\ cleanRun'.path = p /\ cleanRun'.pinned = cleanRun.pinned
        /\ cleanRun'.registered = cleanRun.registered /\ cleanRun'.protected = cleanRun.protected
    BY <1>t, <2>1, <2>p DEF CleanRun, CleanAts
  <2>3. CleanTyped' /\ p \in Path
    BY <1>t, <2>1, <2>2, <2>p DEF CleanTyped
  <2>4. ok => Fit(p, disk[p]) /\ p \notin cleanRun.protected /\ Clean!OwnGit(p)
    BY DEF Clean!Owned, Clean!OwnedAnyGit, Clean!OwnGit, Clean!Overlaps, Clean!There, Fit
  <2>5. Judged'
    BY <1>0, <1>t, <2>1, <2>2, <2>4, <2>p DEF Judged
  <2>6. cleanLeft.alone => Undisturbed'
    <3>1. SUFFICES ASSUME cleanLeft.alone PROVE Undisturbed'
      OBVIOUS
    <3>2. Undisturbed
      BY <1>0, <3>1
    <3>3. Clean!Leftover(p) => ok
      <4>1. SUFFICES ASSUME Clean!Leftover(p) PROVE ok
        OBVIOUS
      <4>2. disk[p] # Clean!None /\ disk[p] \in Held(p) /\ ~disk[p].link /\ disk[p].inside
        BY <1>t, <2>3, <4>1 DEF Clean!Leftover, Clean!There, Held
      <4>3. disk[p].git \in {"none", "detached"} \/ (p = Artifacts /\ disk[p].git = "below")
        BY <4>1 DEF Clean!Leftover
      <4>4. p \notin cleanRun.protected
        BY <2>1, <2>3, <3>2, <4>2, <4>3 DEF Undisturbed, Listed, Branched
      <4>5. disk[p].git = "detached" => p \in cleanRun.registered
        BY <2>1, <2>3, <3>2, <4>2 DEF Undisturbed, Listed, Detached
      <4> QED
        BY <4>2, <4>3, <4>4, <4>5 DEF Clean!Owned, Clean!OwnedAnyGit, Clean!OwnGit, Clean!Overlaps, Clean!There
    <3> HIDE DEF ok
    <3>4. cleanRun'.at = "remove" => cleanRun'.path \notin cleanRun'.protected /\ Clean!OwnGit(cleanRun'.path)
      BY <2>1, <2>2, <2>4 DEF ok
    <3>5. \A q : Clean!OwnGit(q)' <=> Clean!OwnGit(q)
      BY <2>1, <2>2 DEF Clean!OwnGit
    <3> QED
      BY <2>1, <2>2, <2>p, <3>2, <3>3, <3>4, <3>5 DEF Undisturbed, Listed, Branched, Detached, Clean!Leftover, Clean!There
  <2> QED
    BY <1>0, <2>1, <2>2, <2>3, <2>5, <2>6 DEF CleanInv, Listed, Clean!OnlyOwn, Clean!BranchKept
<1>7. CASE Clean!Remove
  <2> DEFINE p == cleanRun.path
  <2>1. cleanRun.at = "remove" /\ UNCHANGED <<state, cleanLeft>> /\ cleanRun' = [cleanRun EXCEPT !.at = "next"]
    BY <1>7 DEF Clean!Remove, Clean!At
  <2>2. cleanRun' \in CleanRun /\ cleanRun'.at = "next" /\ cleanRun'.todo = cleanRun.todo
        /\ cleanRun'.registered = cleanRun.registered /\ cleanRun'.protected = cleanRun.protected
    BY <1>t, <2>1 DEF CleanRun, CleanAts
  <2>3. p \in Path /\ cleanRun.pinned # Clean!None /\ cleanRun.pinned \in Held(p)
    BY <1>t, <2>1
  <2>4. CASE Clean!Same(p) /\ ~disk[p].evidence
    <3>1. disk' = [disk EXCEPT ![p] = Clean!None] /\ removed' = removed \cup {[path |-> p, was |-> disk[p]]}
      BY <1>7, <2>4 DEF Clean!Remove
    <3>2. Fit(p, disk[p]) /\ disk[p] = cleanRun.pinned
      BY <1>0, <2>1, <2>4 DEF Judged, Clean!Same
    <3>3. CleanTyped' /\ Judged'
      BY <1>t, <2>1, <2>2, <3>1 DEF CleanTyped, Judged
    <3>4. disk'[p] = Clean!None /\ \A q \in Path : q # p => disk'[q] = disk[q]
      BY <1>t, <2>3, <3>1
    <3>5. Clean!OnlyOwn'
      BY <1>0, <2>4, <3>1, <3>2 DEF Clean!OnlyOwn, Fit
    <3>6. cleanLeft.alone => Undisturbed' /\ Clean!BranchKept'
      <4>1. SUFFICES ASSUME cleanLeft.alone PROVE Undisturbed' /\ Clean!BranchKept'
        OBVIOUS
      <4>2. Undisturbed /\ Clean!BranchKept
        BY <1>0, <4>1
      <4>3. p \notin cleanRun.protected
        BY <2>1, <4>2 DEF Undisturbed
      <4>4. disk[p].git \notin {"branch", "branch_below"}
        BY <2>1, <2>3, <3>2, <4>2, <4>3 DEF Undisturbed, Listed, Branched
      <4>5. Clean!BranchKept'
        BY <3>1, <4>2, <4>4 DEF Clean!BranchKept
      <4>6. Undisturbed'
        BY <2>1, <2>2, <3>4, <4>2 DEF Undisturbed, Listed, Branched, Detached, Clean!Leftover, Clean!There
      <4> QED
        BY <4>5, <4>6
    <3> QED
      BY <1>0, <2>1, <2>2, <3>3, <3>5, <3>6 DEF CleanInv, Listed
  <2>5. CASE ~(Clean!Same(p) /\ ~disk[p].evidence)
    <3>1. UNCHANGED <<disk, removed>>
      BY <1>7, <2>5 DEF Clean!Remove
    <3>2. CleanTyped' /\ Judged'
      BY <1>t, <2>1, <2>2, <3>1 DEF CleanTyped, Judged
    <3>3. cleanLeft.alone => Undisturbed'
      <4>1. SUFFICES ASSUME cleanLeft.alone PROVE Undisturbed'
        OBVIOUS
      <4>2. Undisturbed
        BY <1>0, <4>1
      <4>3. ~Clean!Leftover(p)
        BY <2>1, <2>5, <4>2 DEF Undisturbed, Clean!Same, Clean!Leftover
      <4> QED
        BY <2>1, <2>2, <3>1, <4>2, <4>3 DEF Undisturbed, Listed, Branched, Detached, Clean!Leftover, Clean!There
    <3> QED
      BY <1>0, <2>1, <2>2, <3>1, <3>2, <3>3 DEF CleanInv, Listed, Clean!OnlyOwn, Clean!BranchKept
  <2> QED
    BY <2>4, <2>5
\* A swap is the last one, and what was pinned before it is no longer there.
<1>8. CASE Clean!Swap
  <2>1. UNCHANGED <<state, cleanRun, removed>> /\ cleanLeft.swaps > 0 /\ cleanLeft' = [cleanLeft EXCEPT !.alone = FALSE, !.swaps = @ - 1]
    BY <1>8 DEF Clean!Swap
  <2>p. PICK p \in Path : \E c \in Clean!Of(p) : disk' = [disk EXCEPT ![p] = c]
    BY <1>8 DEF Clean!Swap
  <2>2. PICK c \in Clean!Of(p) : disk' = [disk EXCEPT ![p] = c]
    BY <2>p
  <2>3. cleanLeft' \in [swaps : 0..1, checkouts : Nat, alone : BOOLEAN] /\ cleanLeft'.swaps = 0 /\ ~cleanLeft'.alone
    <3>1. cleanLeft.swaps = 1
      BY <1>t, <2>1
    <3>2. cleanLeft' = [cleanLeft EXCEPT !.alone = FALSE, !.swaps = 0]
      BY <2>1, <3>1
    <3>3. 0 \in 0..1 /\ cleanLeft.checkouts \in Nat
      BY <1>t
    <3> QED
      BY <1>t, <3>2, <3>3
  <2>4. c \in Held(p) /\ c \in Clean!Content
    BY OfIsHeld DEF Held
  <2>5. disk' \in [Path -> Clean!Content \cup {Clean!None}] /\ \A q \in Path : disk'[q] # Clean!None => disk'[q] \in Held(q)
    BY <1>t, <2>2, <2>4
  <2>6. CleanTyped'
    BY <1>t, <2>1, <2>3, <2>5 DEF CleanTyped
  <2>7. Judged'
    BY <1>0, <2>1, <2>3 DEF Judged
  <2> QED
    BY <1>0, <2>1, <2>3, <2>6, <2>7 DEF CleanInv, Listed, Clean!OnlyOwn
<1>9. CASE Clean!Checkout
  <2>1. UNCHANGED <<state, removed>> /\ cleanLeft.checkouts > 0
        /\ cleanLeft' = [cleanLeft EXCEPT !.alone = FALSE, !.checkouts = @ - 1]
    BY <1>9 DEF Clean!Checkout
  <2>2. PICK p \in Path : /\ disk[p] # Clean!None /\ disk[p].git = "detached" /\ disk' = [disk EXCEPT ![p].git = "branch"]
                          /\ cleanRun' = IF cleanRun.path = p /\ cleanRun.pinned = disk[p]
                                         THEN [cleanRun EXCEPT !.pinned.git = "branch"] ELSE cleanRun
    BY <1>9 DEF Clean!Checkout, Clean!Worktrees, Clean!There
  <2>3. disk[p] \in Clean!Content /\ disk[p] \in Held(p) /\ p # Artifacts
    BY <1>t, <2>2 DEF Held
  <2> DEFINE c == [disk[p] EXCEPT !.git = "branch"]
  <2>4. c \in Clean!Content /\ c.link = disk[p].link /\ c.inside = disk[p].inside /\ c.git = "branch"
    BY <2>3 DEF Clean!Content
  <2>5. c \in Held(p) /\ c # Clean!None /\ (Fit(p, disk[p]) => Fit(p, c))
    BY <2>3, <2>4, ContentIsSome DEF Held, Fit
  <2>6. disk' = [disk EXCEPT ![p] = c]
    BY <2>2
  <2>7. cleanLeft' \in [swaps : 0..1, checkouts : Nat, alone : BOOLEAN] /\ cleanLeft'.swaps = cleanLeft.swaps /\ ~cleanLeft'.alone
    <3>1. PICK n \in Nat : n = cleanLeft.checkouts - 1
      BY <1>t, <2>1
    <3>2. cleanLeft' = [cleanLeft EXCEPT !.alone = FALSE, !.checkouts = n]
      BY <2>1, <3>1
    <3> QED
      BY <1>t, <3>2
  <2>8. \/ cleanRun.path = p /\ cleanRun.pinned = disk[p] /\ cleanRun' = [cleanRun EXCEPT !.pinned = c]
        \/ ~(cleanRun.path = p /\ cleanRun.pinned = disk[p]) /\ cleanRun' = cleanRun
    BY <2>2
  <2> HIDE DEF c
  <2>9. cleanRun' \in CleanRun /\ cleanRun'.at = cleanRun.at /\ cleanRun'.path = cleanRun.path
        /\ cleanRun'.pinned = IF cleanRun.path = p /\ cleanRun.pinned = disk[p] THEN c ELSE cleanRun.pinned
    BY <1>t, <2>4, <2>8 DEF CleanRun
  <2>10. disk'[p] = c /\ \A q \in Path : q # p => disk'[q] = disk[q]
    BY <1>t, <2>6
  <2>11. CleanTyped'
    <3>1. disk' \in [Path -> Clean!Content \cup {Clean!None}]
      BY <1>t, <2>4, <2>6
    <3>2. \A q \in Path : disk'[q] # Clean!None => disk'[q] \in Held(q)
      BY <1>t, <2>5, <2>10
    <3>3. cleanRun'.at \in {"judge", "remove"} =>
            cleanRun'.path \in Path /\ cleanRun'.pinned # Clean!None /\ cleanRun'.pinned \in Held(cleanRun'.path)
      BY <1>t, <2>5, <2>9
    <3> QED
      BY <1>t, <2>1, <2>7, <2>9, <3>1, <3>2, <3>3 DEF CleanTyped
  <2>12. Judged'
    <3>1. cleanRun.at = "judge" /\ cleanLeft.swaps > 0 => disk'[cleanRun.path] = cleanRun'.pinned
      BY <1>0, <1>t, <2>9, <2>10 DEF Judged
    <3>2. cleanRun.at = "remove" => \/ Fit(cleanRun.path, cleanRun'.pinned)
                                    \/ cleanLeft.swaps = 0 /\ Fit(cleanRun.path, disk'[cleanRun.path])
      BY <1>0, <1>t, <2>5, <2>9, <2>10 DEF Judged
    <3> QED
      BY <2>7, <2>9, <3>1, <3>2 DEF Judged
  <2> QED
    BY <1>0, <2>1, <2>7, <2>9, <2>11, <2>12 DEF CleanInv, Listed, Clean!OnlyOwn
<1>10. CASE Clean!Claim \/ Clean!Release \/ UNCHANGED cleanVars
  <2>1. UNCHANGED <<disk, cleanRun, removed, cleanLeft>> /\ state' \subseteq Clean!PR /\ ("mine" \in state' => "mine" \in state)
    BY <1>t, <1>10 DEF Clean!Claim, Clean!Release, cleanVars, Clean!PR
  <2>2. CleanTyped' /\ Judged'
    BY <1>0, <2>1 DEF CleanTyped, Judged
  <2>3. cleanLeft.alone => Undisturbed'
    BY <1>0, <2>1 DEF Undisturbed, Listed, Branched, Detached, Clean!Leftover, Clean!There, Clean!OwnGit
  <2> QED
    BY <1>0, <2>1, <2>2, <2>3 DEF CleanInv, Listed, Clean!OnlyOwn, Clean!BranchKept
<1> QED
  BY <1>1, <1>2, <1>3, <1>4, <1>5, <1>6, <1>7, <1>8, <1>9, <1>10, <1>s DEF Clean!Next

\* The clean-up removes only what is the loop's own; undisturbed it removes no branch and leaves
\* nothing behind, for any directories, links, repositories and checkouts.
THEOREM OnlyOwnRemovedHolds == PartSpec => []OnlyOwnRemoved
<1>1. [PartNext]_partVars => [Clean!Next]_cleanVars
  BY DEF PartNext, partVars
<1>2. CleanInv => OnlyOwnRemoved
  BY DEF CleanInv, OnlyOwnRemoved, Clean!Reclaimed, Listed, Undisturbed
<1> QED
  BY CleanInit, CleanStep, <1>1, <1>2, PTL DEF PartSpec
=============================================================================
