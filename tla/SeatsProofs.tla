---------------------------- MODULE SeatsProofs -----------------------------
(***************************************************************************)
(* Proofs about what a loop keeps for its seats.  First SeatClaims, for    *)
(* any number of runs and heads, any budgets and any times to live.  That  *)
(* a turn which runs keeps its claim is a matter of two clocks: the claim  *)
(* is never older than the turn, and the turn is never longer than the     *)
(* budget it was started with, which counts in the time to live whatever   *)
(* an operator configures meanwhile.  Then the held request and the move.  *)
(***************************************************************************)
EXTENDS MCSeats, FiniteSetTheorems, TLAPS

\* The ledger lets one run of the pull request be busy.
OneBusy == \A q, r \in Run : Busy(q) /\ Busy(r) => q = r

\* Where a run's worker is says how far its row has come.
StepOf(r) ==
  /\ life[r] = "queued" => pc[r] = "out" /\ spent[r] = 0 /\ r \notin shown
  /\ pc[r] \in {"claim", "mark", "turn"} => Working(r)
  /\ pc[r] \in {"release", "unmark", "out"} => ~Working(r)
StepsAgree == \A r \in Run : StepOf(r)

\* A queued run has no claim, and the claim of a run at work is no older than its turn.
ClaimAge ==
  \A r \in Run : claim[SeatOf[r]] = r =>
    /\ life[r] # "queued"
    /\ Working(r) /\ Alive(r) => age[SeatOf[r]] <= spent[r]

\* A turn that runs has not outlived its budget.
WithinBudget == \A r \in Run : Working(r) /\ Alive(r) => spent[r] <= WorstTurn(allowed[r])

ClaimsInv == OneBusy /\ StepsAgree /\ ClaimAge /\ WithinBudget /\ LiveKeepsClaim

-----------------------------------------------------------------------------
\* The greatest of a set that has one.
LEMMA MaxIs ==
  ASSUME NEW S \in SUBSET Nat, NEW m \in S, \A y \in S : m >= y
  PROVE  Max(S) \in S /\ \A y \in S : Max(S) >= y
BY DEF Max

LEMMA MaxOfTwo ==
  ASSUME NEW a \in Nat, NEW b \in Nat
  PROVE  Max({a, b}) \in {a, b} /\ Max({a, b}) >= a /\ Max({a, b}) >= b
<1>1. CASE a >= b
  BY <1>1, MaxIs
<1>2. CASE b >= a
  BY <1>2, MaxIs
<1> QED BY <1>1, <1>2

LEMMA MaxOfThree ==
  ASSUME NEW a \in Nat, NEW b \in Nat, NEW c \in Nat
  PROVE  Max({a, b, c}) \in Nat /\ Max({a, b, c}) >= c
<1>1. \E m \in {a, b, c} : \A y \in {a, b, c} : m >= y
  <2>1. CASE a >= b /\ a >= c
    BY <2>1
  <2>2. CASE b >= a /\ b >= c
    BY <2>2
  <2>3. CASE c >= a /\ c >= b
    BY <2>3
  <2> QED BY <2>1, <2>2, <2>3
<1> QED BY <1>1, MaxIs

\* Every budget is within the longest, and a whole turn on it within the greatest age.
LEMMA Ages ==
  /\ Longest \in Budget /\ Budget \subseteq Nat
  /\ Oldest \in Nat
  /\ \A b \in Budget : WorstTurn(b) \in Nat /\ WorstTurn(b) < Oldest
<1>1. Longest \in Budget /\ \A b \in Budget : b <= Longest
  BY SeatClaimsAssumption, MaxIs DEF Longest
<1>2. Longest \in Nat /\ Tail \in Nat /\ TtlMin \in Nat /\ Budget \subseteq Nat
  BY <1>1, SeatClaimsAssumption
<1>3. Max({TtlMin, Longest + Tail}) \in Nat /\ Max({TtlMin, Longest + Tail}) >= Longest + Tail
  BY <1>2, MaxOfTwo
<1> QED BY <1>1, <1>2, <1>3 DEF Oldest, WorstTurn

\* A claim that a run wrote lives for a whole turn on the budget that the run was started with.
LEMMA TtlCoversTurn ==
  ASSUME TypeOK, NEW s \in Seat, claim[s] \in Run
  PROVE  SeatTtl(s) \in Nat /\ SeatTtl(s) >= WorstTurn(allowed[claim[s]])
<1>1. claim[s] # NoRun
  BY SeatClaimsAssumption
<1>2. /\ TtlMin \in Nat /\ WorstTurn(budget[s]) \in Nat
      /\ WorstTurn(allowed[claim[s]]) \in Nat
  BY Ages, SeatClaimsAssumption DEF TypeOK
<1>3. SeatTtl(s) = Max({TtlMin, WorstTurn(budget[s]), WorstTurn(allowed[claim[s]])})
  <2>1. {TtlMin, WorstTurn(budget[s])} \cup {WorstTurn(allowed[claim[s]])}
          = {TtlMin, WorstTurn(budget[s]), WorstTurn(allowed[claim[s]])}
    OBVIOUS
  <2> QED BY <1>1, <2>1 DEF SeatTtl
<1> QED BY <1>2, <1>3, MaxOfThree

-----------------------------------------------------------------------------
Step == {"out", "claim", "mark", "turn", "release", "unmark", "dead"}

LEMMA InitType == Init => TypeOK
BY Ages, SeatClaimsAssumption DEF Init, TypeOK

\* Writing and clearing a claim or a mark keep their types.
LEMMA ClaimTypes ==
  ASSUME TypeOK, NEW s \in Seat, NEW q \in Run \cup {NoRun}
  PROVE  /\ [claim EXCEPT ![s] = q] \in [Seat -> Run \cup {NoRun}]
         /\ [age EXCEPT ![s] = 0] \in [Seat -> 0..Oldest]
<1>1. 0 \in 0..Oldest
  BY Ages
<1> QED BY <1>1 DEF TypeOK

LEMMA MarkTypes ==
  ASSUME TypeOK, NEW s \in Seat, NEW h \in 1..MaxHead, NEW q \in Run \cup {NoRun}
  PROVE  /\ [mark EXCEPT ![s][h] = q] \in [Seat -> [1..MaxHead -> Run \cup {NoRun}]]
         /\ [markAge EXCEPT ![s][h] = 0] \in [Seat -> [1..MaxHead -> 0..MarkTtl]]
<1>1. 0 \in 0..MarkTtl
  BY SeatClaimsAssumption
<1>2. [mark[s] EXCEPT ![h] = q] \in [1..MaxHead -> Run \cup {NoRun}]
  BY DEF TypeOK
<1>3. [markAge[s] EXCEPT ![h] = 0] \in [1..MaxHead -> 0..MarkTtl]
  BY <1>1 DEF TypeOK
<1> QED BY <1>1, <1>2, <1>3 DEF TypeOK

LEMMA TickTypes == TypeOK /\ Tick => TypeOK'
<1> SUFFICES ASSUME TypeOK, Tick PROVE TypeOK'
  OBVIOUS
<1>1. spent' \in [Run -> 0..Oldest] /\ age' \in [Seat -> 0..Oldest]
  BY Ages DEF TypeOK, Tick
<1>2. markAge' \in [Seat -> [1..MaxHead -> 0..MarkTtl]]
  <2>1. ASSUME NEW s \in Seat, NEW h \in 1..MaxHead, InFlight(s, h)
        PROVE  markAge[s][h] + 1 \in 0..MarkTtl
    <3>1. markAge[s][h] \in 0..MarkTtl /\ markAge[s][h] < MarkTtl
      BY <2>1 DEF TypeOK, InFlight
    <3> QED BY <3>1, SeatClaimsAssumption
  <2>2. \A s \in Seat, h \in 1..MaxHead : markAge[s][h] \in 0..MarkTtl
    BY DEF TypeOK
  <2> QED BY <2>1, <2>2 DEF Tick
<1> QED BY <1>1, <1>2 DEF TypeOK, Tick, hub

LEMMA TypeStep == TypeOK /\ [Next]_vars => TypeOK'
<1> SUFFICES ASSUME TypeOK, [Next]_vars PROVE TypeOK'
  OBVIOUS
<1>0. /\ MaxHead \in Nat \ {0} /\ NoRun \in Run \cup {NoRun} /\ "reviewer" \in Seat
      /\ \A r \in Run : SeatOf[r] \in Seat /\ HeadOf[r] \in 1..MaxHead /\ r \in Run \cup {NoRun}
  BY SeatClaimsAssumption DEF Seat
<1>a. ASSUME NEW s \in Seat, Free(s)
      PROVE  claim' \in [Seat -> Run \cup {NoRun}] /\ age' \in [Seat -> 0..Oldest]
  BY <1>0, <1>a, ClaimTypes DEF Free
<1>b. ASSUME NEW s \in Seat, NEW h \in 1..MaxHead, Unmark(s, h)
      PROVE  /\ mark' \in [Seat -> [1..MaxHead -> Run \cup {NoRun}]]
             /\ markAge' \in [Seat -> [1..MaxHead -> 0..MarkTtl]]
  BY <1>0, <1>b, MarkTypes DEF Unmark
<1>1. CASE Tick
  BY <1>1, TickTypes
<1>2. CASE Push
  BY <1>0, <1>2 DEF Push, TypeOK, row, disk
<1>3. CASE GateFree
  <2>1. gate \in Seat
    BY <1>3 DEF GateFree, TypeOK
  <2> QED BY <1>3, <1>a, <2>1 DEF GateFree, TypeOK, row
<1>4. ASSUME NEW s \in Seat, Prune(s) PROVE TypeOK'
  BY <1>4, <1>a DEF Prune, TypeOK, row, hub
<1>5. ASSUME NEW s \in Seat, GateRead(s) PROVE TypeOK'
  BY <1>5 DEF GateRead, TypeOK, row, disk
<1>6. ASSUME NEW s \in Seat, NEW b \in Budget, SetBudget(s, b) PROVE TypeOK'
  BY <1>6 DEF SetBudget, TypeOK, row, disk, hub
<1>7. ASSUME NEW s \in Seat, NEW h \in 1..MaxHead, ForgetMark(s, h) PROVE TypeOK'
  BY <1>7, <1>b DEF ForgetMark, TypeOK, row, hub
<1>8. ASSUME NEW h \in 1..MaxHead, GateApproved(h) PROVE TypeOK'
  BY <1>0, <1>8, <1>a DEF GateApproved, TypeOK, row, hub
<1>9. ASSUME NEW r \in Run, Start(r) PROVE TypeOK'
  BY <1>0, <1>9 DEF Start, TypeOK, disk, hub
<1>10. ASSUME NEW r \in Run, ClaimSeat(r) PROVE TypeOK'
  <2>1. claim' \in [Seat -> Run \cup {NoRun}] /\ age' \in [Seat -> 0..Oldest]
    <3>1. CASE UNCHANGED <<claim, age, shown>>
      BY <3>1 DEF TypeOK
    <3>2. CASE claim' = [claim EXCEPT ![SeatOf[r]] = r] /\ age' = [age EXCEPT ![SeatOf[r]] = 0]
      BY <1>0, <3>2, ClaimTypes
    <3> QED BY <1>10, <3>1, <3>2 DEF ClaimSeat
  <2>2. pc' \in [Run -> Step] /\ shown' \subseteq Run
    BY <1>10 DEF ClaimSeat, TypeOK, Step
  <2> QED BY <1>10, <2>1, <2>2 DEF ClaimSeat, TypeOK, Step, hub
<1>11. ASSUME NEW r \in Run, ArmMark(r) PROVE TypeOK'
  <2>1. /\ mark' \in [Seat -> [1..MaxHead -> Run \cup {NoRun}]]
        /\ markAge' \in [Seat -> [1..MaxHead -> 0..MarkTtl]]
    <3>1. CASE UNCHANGED <<mark, markAge>>
      BY <3>1 DEF TypeOK
    <3>2. CASE /\ mark' = [mark EXCEPT ![SeatOf[r]][HeadOf[r]] = r]
               /\ markAge' = [markAge EXCEPT ![SeatOf[r]][HeadOf[r]] = 0]
      BY <1>0, <3>2, MarkTypes
    <3> QED BY <1>11, <3>1, <3>2 DEF ArmMark
  <2>2. pc' \in [Run -> Step]
    BY <1>11 DEF ArmMark, TypeOK, Step
  <2> QED BY <1>11, <2>1, <2>2 DEF ArmMark, TypeOK, Step, hub
<1>12. ASSUME NEW r \in Run, PostVerdict(r) PROVE TypeOK'
  BY <1>0, <1>12 DEF PostVerdict, TypeOK, row, disk
<1>13. ASSUME NEW r \in Run, PushAndAsk(r) PROVE TypeOK'
  <2>1. head + 1 \in 1..MaxHead
    BY <1>0, <1>13 DEF PushAndAsk, TypeOK
  <2> QED BY <1>13, <2>1 DEF PushAndAsk, TypeOK, row, disk
<1>14. ASSUME NEW r \in Run, End(r) PROVE TypeOK'
  BY <1>14 DEF End, TypeOK, disk, hub
<1>15. ASSUME NEW r \in Run, ReleaseSeat(r) PROVE TypeOK'
  <2>1. claim' \in [Seat -> Run \cup {NoRun}] /\ age' \in [Seat -> 0..Oldest]
    <3>1. CASE UNCHANGED <<claim, age>>
      BY <3>1 DEF TypeOK
    <3> QED BY <1>0, <1>15, <1>a, <3>1 DEF ReleaseSeat
  <2>2. pc' \in [Run -> Step]
    BY <1>15 DEF ReleaseSeat, TypeOK, Step
  <2> QED BY <1>15, <2>1, <2>2 DEF ReleaseSeat, TypeOK, Step, hub
<1>16. ASSUME NEW r \in Run, ClearMark(r) PROVE TypeOK'
  BY <1>0, <1>16, <1>b DEF ClearMark, TypeOK, hub
<1>17. ASSUME NEW r \in Run, Die(r) \/ Sweep(r) PROVE TypeOK'
  BY <1>17 DEF Die, Sweep, TypeOK, disk, hub
<1>18. ASSUME NEW r \in Run, Reconcile(r) PROVE TypeOK'
  <2>1. CASE UNCHANGED disk
    BY <1>18, <2>1 DEF Reconcile, TypeOK, disk, hub
  <2>2. CASE Free(SeatOf[r]) /\ Unmark(SeatOf[r], HeadOf[r])
    <3>1. claim' \in [Seat -> Run \cup {NoRun}] /\ age' \in [Seat -> 0..Oldest]
      BY <1>0, <1>a, <2>2
    <3>2. /\ mark' \in [Seat -> [1..MaxHead -> Run \cup {NoRun}]]
          /\ markAge' \in [Seat -> [1..MaxHead -> 0..MarkTtl]]
      BY <1>0, <1>b, <2>2
    <3> QED BY <1>18, <3>1, <3>2 DEF Reconcile, TypeOK, hub
  <2> QED BY <1>18, <2>1, <2>2 DEF Reconcile
<1>19. CASE UNCHANGED vars
  BY <1>19 DEF vars, TypeOK, row, disk, hub
<1> QED BY <1>1, <1>2, <1>3, <1>4, <1>5, <1>6, <1>7, <1>8, <1>9, <1>10, <1>11, <1>12, <1>13,
           <1>14, <1>15, <1>16, <1>17, <1>18, <1>19 DEF Next

-----------------------------------------------------------------------------
LEMMA InitClaims == Init => ClaimsInv
<1> SUFFICES ASSUME Init PROVE ClaimsInv
  OBVIOUS
<1>1. \A r \in Run : SeatOf[r] \in Seat /\ r # NoRun
  BY SeatClaimsAssumption
<1> QED BY <1>1 DEF Init, ClaimsInv, OneBusy, StepsAgree, StepOf, ClaimAge, WithinBudget,
             LiveKeepsClaim, Busy, Working, Alive

\* What the steps need of a run: a seat, a name that is no absence, and times that compare.
LEMMA RunFacts ==
  ASSUME TypeOK, NEW r \in Run
  PROVE  /\ SeatOf[r] \in Seat /\ HeadOf[r] \in 1..MaxHead /\ r # NoRun
         /\ spent[r] \in Nat /\ age[SeatOf[r]] \in Nat
         /\ WorstTurn(allowed[r]) \in Nat /\ WorstTurn(allowed[r]) < Oldest
<1>1. SeatOf[r] \in Seat /\ HeadOf[r] \in 1..MaxHead /\ r # NoRun
  BY SeatClaimsAssumption
<1>2. spent[r] \in 0..Oldest /\ age[SeatOf[r]] \in 0..Oldest /\ allowed[r] \in Budget
  BY <1>1 DEF TypeOK
<1>3. WorstTurn(allowed[r]) \in Nat /\ WorstTurn(allowed[r]) < Oldest
  BY <1>2, Ages
<1>4. spent[r] \in Nat /\ age[SeatOf[r]] \in Nat
  BY <1>2, Ages
<1> QED BY <1>1, <1>3, <1>4

\* A claim that a running turn was shown is within its time to live.
LEMMA ShownIsLive ==
  ASSUME TypeOK, ClaimsInv, NEW r \in shown, Working(r), Alive(r)
  PROVE  MarkLive(SeatOf[r])
<1> DEFINE s == SeatOf[r]
<1>1. r \in Run
  BY DEF TypeOK
<1>2. s \in Seat /\ claim[s] = r /\ r # NoRun
  BY <1>1, RunFacts DEF ClaimsInv, LiveKeepsClaim
<1>3. age[s] <= spent[r] /\ spent[r] <= WorstTurn(allowed[r])
  BY <1>1, <1>2 DEF ClaimsInv, ClaimAge, WithinBudget
<1>4. SeatTtl(s) >= WorstTurn(allowed[r]) /\ SeatTtl(s) \in Nat
  BY <1>1, <1>2, TtlCoversTurn
<1>5. age[s] \in Nat /\ spent[r] \in Nat /\ WorstTurn(allowed[r]) \in Nat
  BY <1>1, RunFacts
<1>6. age[s] <= SeatTtl(s)
  BY <1>3, <1>4, <1>5
<1> QED BY <1>2, <1>6 DEF MarkLive

\* Taking a claim away hurts no turn but the one that held it.
LEMMA FreeKeeps ==
  ASSUME TypeOK, ClaimsInv, NEW s \in Seat, Free(s), shown' \subseteq shown,
         UNCHANGED <<life, pc, spent, allowed>>,
         \A r \in shown' : Working(r) /\ Alive(r) => SeatOf[r] # s
  PROVE  ClaimsInv'
<1>1. \A t \in Seat : claim'[t] = IF t = s THEN NoRun ELSE claim[t]
  BY DEF TypeOK, Free
<1>2. \A t \in Seat : t # s => age'[t] = age[t]
  BY DEF TypeOK, Free
<1>3. \A r \in Run : SeatOf[r] \in Seat /\ r # NoRun
  BY RunFacts
<1>4. OneBusy' /\ StepsAgree' /\ WithinBudget'
  BY DEF ClaimsInv, OneBusy, StepsAgree, StepOf, WithinBudget, Busy, Working, Alive, WorstTurn
<1>5. ClaimAge'
  BY <1>1, <1>2, <1>3 DEF ClaimsInv, ClaimAge, Working, Alive
<1>6. LiveKeepsClaim'
  BY <1>1, <1>3 DEF ClaimsInv, LiveKeepsClaim, Working, Alive, TypeOK
<1> QED BY <1>4, <1>5, <1>6 DEF ClaimsInv


\* One step of the clocks: the turn ages with its claim, and stops before its budget is over.
LEMMA TickClaims == TypeOK /\ ClaimsInv /\ Tick => ClaimsInv'
<1> SUFFICES ASSUME TypeOK, ClaimsInv, Tick PROVE ClaimsInv'
  OBVIOUS
<1>1. UNCHANGED <<life, pc, allowed, claim, shown>>
  BY DEF Tick
<1>2. \A r \in Run : spent'[r] = IF Working(r) /\ spent[r] < Oldest THEN spent[r] + 1 ELSE spent[r]
  BY DEF Tick
<1>3. ASSUME NEW r \in Run, Working(r), Alive(r)
      PROVE  spent'[r] = spent[r] + 1 /\ spent'[r] <= WorstTurn(allowed[r])
  <2>1. spent[r] < WorstTurn(allowed[r])
    BY <1>3 DEF Tick
  <2>2. spent[r] \in Nat /\ WorstTurn(allowed[r]) \in Nat /\ Oldest \in Nat
        /\ WorstTurn(allowed[r]) < Oldest
    BY RunFacts, Ages
  <2> QED BY <1>2, <1>3, <2>1, <2>2
<1>4. OneBusy' /\ LiveKeepsClaim'
  BY <1>1 DEF ClaimsInv, OneBusy, LiveKeepsClaim, Busy, Working, Alive
<1>5. StepsAgree'
  BY <1>1, <1>2 DEF ClaimsInv, StepsAgree, StepOf, Working
<1>6. WithinBudget'
  BY <1>1, <1>3 DEF WithinBudget, Working, Alive, WorstTurn
<1>7. ClaimAge'
  <2>1. SUFFICES ASSUME NEW r \in Run, claim'[SeatOf[r]] = r
                 PROVE  /\ life'[r] # "queued"
                        /\ Working(r)' /\ Alive(r)' => age'[SeatOf[r]] <= spent'[r]
    BY <1>1 DEF ClaimAge
  <2>2. life'[r] # "queued"
    BY <1>1, <2>1 DEF ClaimsInv, ClaimAge
  <2>3. ASSUME Working(r), Alive(r) PROVE age'[SeatOf[r]] <= spent'[r]
    <3>1. age[SeatOf[r]] <= spent[r]
      BY <1>1, <2>1, <2>3 DEF ClaimsInv, ClaimAge
    <3>2. age'[SeatOf[r]] \in {age[SeatOf[r]], age[SeatOf[r]] + 1}
      BY RunFacts DEF Tick
    <3> QED BY <1>3, <2>3, <3>1, <3>2, RunFacts
  <2> QED BY <1>1, <2>2, <2>3 DEF Working, Alive
<1> QED BY <1>4, <1>5, <1>6, <1>7 DEF ClaimsInv

\* The steps that end a row, or move a worker, without a claim being written.
LEMMA MoveKeeps ==
  ASSUME TypeOK, ClaimsInv, UNCHANGED <<spent, allowed, claim, age, shown>>,
         NEW q \in Run,
         \A r \in Run \ {q} : life'[r] = life[r] /\ pc'[r] = pc[r],
         Busy(q)' => Busy(q), Working(q)' => Working(q), Alive(q)' => Alive(q),
         life'[q] # "queued", StepOf(q)'
  PROVE  ClaimsInv'
<1>1. OneBusy'
  BY DEF ClaimsInv, OneBusy, Busy
<1>2. StepsAgree'
  BY DEF ClaimsInv, StepsAgree, StepOf, Working
<1>3. ClaimAge'
  BY DEF ClaimsInv, ClaimAge, Working, Alive
<1>4. WithinBudget'
  BY DEF ClaimsInv, WithinBudget, Working, Alive, WorstTurn
<1>5. LiveKeepsClaim'
  <2>1. shown \subseteq Run
    BY DEF TypeOK
  <2> QED BY <2>1 DEF ClaimsInv, LiveKeepsClaim, Working, Alive
<1> QED BY <1>1, <1>2, <1>3, <1>4, <1>5 DEF ClaimsInv

LEMMA StartClaims ==
  ASSUME TypeOK, ClaimsInv, NEW r \in Run, Start(r)
  PROVE  ClaimsInv'
<1>0. \A q \in Run : SeatOf[q] \in Seat
  BY RunFacts
<1>1. /\ life[r] = "queued" /\ UNCHANGED <<spent, claim, age, shown>>
      /\ \A q \in Run : ~Busy(q)
  BY DEF Start, disk, hub
<1>2. \A q \in Run : /\ life'[q] = IF q = r THEN "working" ELSE life[q]
                     /\ pc'[q] = IF q = r THEN "claim" ELSE pc[q]
  BY DEF Start, TypeOK
<1>3. spent[r] = 0 /\ r \notin shown /\ claim[SeatOf[r]] # r
  BY <1>1 DEF ClaimsInv, StepsAgree, StepOf, ClaimAge
<1>4. \A q \in Run : Busy(q)' => q = r
  BY <1>1, <1>2 DEF Busy
<1>5. OneBusy'
  BY <1>4 DEF OneBusy
<1>6. StepsAgree'
  BY <1>1, <1>2, <1>3 DEF ClaimsInv, StepsAgree, StepOf, Working
<1>7. ClaimAge' /\ LiveKeepsClaim'
  BY <1>1, <1>2, <1>3, <1>4 DEF ClaimsInv, ClaimAge, LiveKeepsClaim, Working, Alive, Busy, TypeOK
<1>8. WithinBudget'
  <2>1. allowed'[r] \in Budget
    BY <1>0 DEF Start, TypeOK
  <2>2. WorstTurn(allowed'[r]) \in Nat
    BY <2>1, Ages
  <2>3. spent'[r] <= WorstTurn(allowed'[r])
    BY <1>1, <1>3, <2>2
  <2> QED BY <1>4, <2>3 DEF WithinBudget, Working, Busy, WorstTurn
<1> QED BY <1>5, <1>6, <1>7, <1>8 DEF ClaimsInv

LEMMA ClaimSeatClaims ==
  ASSUME TypeOK, ClaimsInv, NEW r \in Run, ClaimSeat(r)
  PROVE  ClaimsInv'
<1>0. /\ UNCHANGED <<life, spent, allowed>> /\ pc[r] = "claim"
      /\ \A q \in Run : SeatOf[q] \in Seat /\ spent[q] \in Nat
  BY RunFacts DEF ClaimSeat
<1>1. Working(r)
  BY <1>0 DEF ClaimsInv, StepsAgree, StepOf
<1>2. \A q \in Run : pc'[q] = IF q = r THEN "mark" ELSE pc[q]
  BY DEF ClaimSeat, TypeOK
<1>3. \A q \in Run : Busy(q) => q = r
  BY <1>1 DEF ClaimsInv, OneBusy, Busy, Working
<1>4. CASE UNCHANGED <<claim, age, shown>>
  <2>1. Alive(r)' /\ Alive(r) /\ StepOf(r)' /\ life'[r] # "queued"
    BY <1>0, <1>1, <1>2 DEF Alive, StepOf, Working
  <2> QED BY <1>0, <1>2, <1>4, <2>1, MoveKeeps DEF Busy, Working
<1>5. CASE /\ claim' = [claim EXCEPT ![SeatOf[r]] = r] /\ age' = [age EXCEPT ![SeatOf[r]] = 0]
           /\ shown' = shown \cup {r}
  <2>1. \A s \in Seat : /\ claim'[s] = IF s = SeatOf[r] THEN r ELSE claim[s]
                        /\ age'[s] = IF s = SeatOf[r] THEN 0 ELSE age[s]
    BY <1>5 DEF TypeOK
  <2>2. OneBusy' /\ WithinBudget'
    BY <1>0, <1>1, <1>2, <1>3 DEF ClaimsInv, OneBusy, WithinBudget, Busy, Working, Alive, WorstTurn
  <2>3. StepsAgree'
    BY <1>0, <1>1, <1>2, <1>5 DEF ClaimsInv, StepsAgree, StepOf, Working
  <2>4. ClaimAge'
    BY <1>0, <1>1, <1>2, <2>1 DEF ClaimsInv, ClaimAge, Working, Alive
  <2>5. LiveKeepsClaim'
    BY <1>0, <1>1, <1>3, <1>5, <2>1 DEF LiveKeepsClaim, Working, Busy, TypeOK
  <2> QED BY <2>2, <2>3, <2>4, <2>5 DEF ClaimsInv
<1> QED BY <1>4, <1>5 DEF ClaimSeat

\* release_seat takes nothing from a turn that runs: the row has ended.
LEMMA ReleaseClaims ==
  ASSUME TypeOK, ClaimsInv, NEW r \in Run, ReleaseSeat(r)
  PROVE  ClaimsInv'
<1>0. UNCHANGED <<life, spent, allowed, shown>> /\ pc[r] = "release" /\ SeatOf[r] \in Seat
  BY RunFacts DEF ReleaseSeat, hub
<1>1. ~Working(r) /\ life[r] # "queued"
  BY <1>0 DEF ClaimsInv, StepsAgree, StepOf
<1>2. \E to \in {"out", "unmark"} : \A q \in Run : pc'[q] = IF q = r THEN to ELSE pc[q]
  BY DEF ReleaseSeat, TypeOK
<1>3. OneBusy' /\ WithinBudget'
  BY <1>0, <1>1, <1>2 DEF ClaimsInv, OneBusy, WithinBudget, Busy, Working, Alive, WorstTurn
<1>4. StepsAgree'
  BY <1>0, <1>1, <1>2 DEF ClaimsInv, StepsAgree, StepOf, Working
<1>5. \A s \in Seat : \/ claim'[s] = claim[s] /\ age'[s] = age[s]
                      \/ claim[s] = r /\ claim'[s] = NoRun
  <2>1. CASE UNCHANGED <<claim, age>>
    BY <2>1
  <2>2. CASE claim[SeatOf[r]] = r /\ Free(SeatOf[r])
    BY <1>0, <2>2 DEF Free, TypeOK
  <2> QED BY <2>1, <2>2 DEF ReleaseSeat
<1>6. \A q \in Run : SeatOf[q] \in Seat /\ q # NoRun
  BY RunFacts
<1>7. ClaimAge'
  BY <1>0, <1>1, <1>2, <1>5, <1>6 DEF ClaimsInv, ClaimAge, Working, Alive
<1>8. LiveKeepsClaim'
  BY <1>0, <1>1, <1>2, <1>5, <1>6 DEF ClaimsInv, LiveKeepsClaim, Working, Alive, TypeOK
<1> QED BY <1>3, <1>4, <1>7, <1>8 DEF ClaimsInv

\* Nor does reconcile_uncertain: no turn runs while a row is uncertain.
LEMMA ReconcileClaims ==
  ASSUME TypeOK, ClaimsInv, NEW r \in Run, Reconcile(r)
  PROVE  ClaimsInv'
<1>0. UNCHANGED <<pc, spent, allowed, shown>> /\ life[r] = "held" /\ SeatOf[r] \in Seat
  BY RunFacts DEF Reconcile, hub
<1>1. \A q \in Run : life'[q] = IF q = r THEN "over" ELSE life[q]
  BY DEF Reconcile, TypeOK
<1>2. \A q \in Run : ~Working(q) /\ ~Working(q)'
  BY <1>0, <1>1 DEF ClaimsInv, OneBusy, Busy, Working
<1>3. OneBusy'
  BY <1>1 DEF ClaimsInv, OneBusy, Busy
<1>4. StepsAgree'
  BY <1>0, <1>1 DEF ClaimsInv, StepsAgree, StepOf, Working
<1>5. \A s \in Seat : claim'[s] \in {claim[s], NoRun}
  <2>1. CASE UNCHANGED disk
    BY <2>1 DEF disk
  <2>2. CASE Free(SeatOf[r])
    BY <1>0, <2>2 DEF Free, TypeOK
  <2> QED BY <2>1, <2>2 DEF Reconcile
<1>6. \A q \in Run : SeatOf[q] \in Seat /\ q # NoRun
  BY RunFacts
<1>7. ClaimAge'
  BY <1>1, <1>2, <1>5, <1>6 DEF ClaimsInv, ClaimAge
<1>8. WithinBudget' /\ LiveKeepsClaim'
  <2>1. shown' \subseteq Run
    BY <1>0 DEF TypeOK
  <2> QED BY <1>2, <2>1 DEF WithinBudget, LiveKeepsClaim
<1> QED BY <1>3, <1>4, <1>7, <1>8 DEF ClaimsInv

\* The claims and all they are compared with.
book == <<life, pc, spent, allowed, claim, age, shown>>

LEMMA BookKept == ClaimsInv /\ UNCHANGED book => ClaimsInv'
BY DEF book, ClaimsInv, OneBusy, StepsAgree, StepOf, ClaimAge, WithinBudget, LiveKeepsClaim,
       Busy, Working, Alive, WorstTurn

LEMMA ClaimsStep == TypeOK /\ ClaimsInv /\ [Next]_vars => ClaimsInv'
<1> SUFFICES ASSUME TypeOK, ClaimsInv, [Next]_vars PROVE ClaimsInv'
  OBVIOUS
<1>0. shown \subseteq Run /\ \A r \in Run : r # NoRun
  BY RunFacts DEF TypeOK
<1>1. CASE Tick
  BY <1>1, TickClaims
<1>2. CASE Push
  BY <1>2, BookKept DEF Push, book, row, disk
<1>3. CASE GateFree
  <2>1. gate \in Seat /\ Free(gate) /\ shown' = shown \ {claim[gate]}
    BY <1>3 DEF GateFree, TypeOK
  <2>2. ASSUME NEW r \in shown', Working(r), Alive(r) PROVE SeatOf[r] # gate
    BY <2>1, <2>2 DEF ClaimsInv, LiveKeepsClaim
  <2> QED BY <1>3, <2>1, <2>2, FreeKeeps DEF GateFree, row
<1>4. ASSUME NEW s \in Seat, Prune(s) PROVE ClaimsInv'
  <2>1. ASSUME NEW r \in shown', Working(r), Alive(r) PROVE SeatOf[r] # s
    BY <1>4, <2>1, ShownIsLive DEF Prune
  <2> QED BY <1>4, <2>1, FreeKeeps DEF Prune, row
<1>5. ASSUME NEW s \in Seat, GateRead(s) PROVE ClaimsInv'
  BY <1>5, BookKept DEF GateRead, book, row, disk
<1>6. ASSUME NEW s \in Seat, NEW b \in Budget, SetBudget(s, b) PROVE ClaimsInv'
  BY <1>6, BookKept DEF SetBudget, book, row, disk
<1>7. ASSUME NEW s \in Seat, NEW h \in 1..MaxHead, ForgetMark(s, h) PROVE ClaimsInv'
  BY <1>7, BookKept DEF ForgetMark, book, row
<1>8. ASSUME NEW h \in 1..MaxHead, GateApproved(h) PROVE ClaimsInv'
  <2>1. "reviewer" \in Seat /\ Free("reviewer") /\ shown' = shown \ {claim["reviewer"]}
    BY <1>8 DEF GateApproved, Seat
  <2>2. ASSUME NEW r \in shown', Working(r), Alive(r) PROVE SeatOf[r] # "reviewer"
    BY <2>1, <2>2 DEF ClaimsInv, LiveKeepsClaim
  <2> QED BY <1>8, <2>1, <2>2, FreeKeeps DEF GateApproved, row
<1>9. ASSUME NEW r \in Run, Start(r) PROVE ClaimsInv'
  BY <1>9, StartClaims
<1>10. ASSUME NEW r \in Run, ClaimSeat(r) PROVE ClaimsInv'
  BY <1>10, ClaimSeatClaims
<1>11. ASSUME NEW r \in Run, ArmMark(r) PROVE ClaimsInv'
  <2>1. /\ pc[r] = "mark" /\ pc'[r] = "turn" /\ UNCHANGED <<life, spent, allowed, claim, age, shown>>
        /\ \A q \in Run \ {r} : pc'[q] = pc[q]
    BY <1>11 DEF ArmMark, TypeOK
  <2>2. Working(r)
    BY <2>1 DEF ClaimsInv, StepsAgree, StepOf
  <2>3. Alive(r) /\ StepOf(r)' /\ life'[r] # "queued"
    BY <2>1, <2>2 DEF Alive, StepOf, Working
  <2> QED BY <2>1, <2>3, MoveKeeps DEF Busy, Working
<1>12. ASSUME NEW r \in Run, PostVerdict(r) \/ PushAndAsk(r) PROVE ClaimsInv'
  BY <1>12, BookKept DEF PostVerdict, PushAndAsk, book, row, disk
<1>13. ASSUME NEW r \in Run, End(r) PROVE ClaimsInv'
  <2>1. /\ pc[r] = "turn" /\ Working(r) /\ pc'[r] = "release" /\ life'[r] \in {"over", "held"}
        /\ UNCHANGED <<spent, allowed, claim, age, shown>>
        /\ \A q \in Run \ {r} : pc'[q] = pc[q] /\ life'[q] = life[q]
    BY <1>13 DEF End, TypeOK, disk
  <2>2. Busy(r) /\ Alive(r) /\ ~Working(r)' /\ StepOf(r)' /\ life'[r] # "queued"
    BY <2>1 DEF Busy, Alive, StepOf, Working
  <2> QED BY <2>1, <2>2, MoveKeeps
<1>14. ASSUME NEW r \in Run, ReleaseSeat(r) PROVE ClaimsInv'
  BY <1>14, ReleaseClaims
<1>15. ASSUME NEW r \in Run, ClearMark(r) \/ Die(r) PROVE ClaimsInv'
  <2>1. /\ pc[r] \notin {"out", "dead"} /\ pc'[r] \in {"out", "dead"}
        /\ (pc'[r] = "out" => pc[r] = "unmark")
        /\ UNCHANGED <<life, spent, allowed, claim, age, shown>>
        /\ \A q \in Run \ {r} : pc'[q] = pc[q]
    BY <1>15 DEF ClearMark, Die, Alive, TypeOK, disk
  <2>2. StepOf(r)
    BY DEF ClaimsInv, StepsAgree
  <2>3. life[r] # "queued" /\ StepOf(r)' /\ Alive(r)
    BY <2>1, <2>2 DEF StepOf, Working, Alive
  <2> QED BY <2>1, <2>3, MoveKeeps DEF Busy, Working
<1>16. ASSUME NEW r \in Run, Sweep(r) PROVE ClaimsInv'
  <2>1. /\ Working(r) /\ pc[r] = "dead" /\ life'[r] = "held"
        /\ UNCHANGED <<pc, spent, allowed, claim, age, shown>>
        /\ \A q \in Run \ {r} : life'[q] = life[q]
    BY <1>16 DEF Sweep, TypeOK, disk
  <2>2. Busy(r) /\ ~Working(r)' /\ ~Alive(r)' /\ StepOf(r)' /\ life'[r] # "queued"
    BY <2>1 DEF Busy, Alive, StepOf, Working
  <2> QED BY <2>1, <2>2, MoveKeeps
<1>17. ASSUME NEW r \in Run, Reconcile(r) PROVE ClaimsInv'
  BY <1>17, ReconcileClaims
<1>18. CASE UNCHANGED vars
  BY <1>18, BookKept DEF vars, book, row, disk
<1> QED BY <1>1, <1>2, <1>3, <1>4, <1>5, <1>6, <1>7, <1>8, <1>9, <1>10, <1>11, <1>12, <1>13,
           <1>14, <1>15, <1>16, <1>17, <1>18 DEF Next

\* A turn that runs and was shown its seat keeps it until a gate ends its turn, however many
\* runs there are, whatever the operator does to the budgets, and wherever writes fail.
THEOREM LiveKeepsClaimHolds == Spec => []LiveKeepsClaim
<1>1. Init => TypeOK /\ ClaimsInv
  BY InitType, InitClaims
<1>2. TypeOK /\ ClaimsInv /\ [Next]_vars => (TypeOK /\ ClaimsInv)'
  BY TypeStep, ClaimsStep
<1>3. TypeOK /\ ClaimsInv => LiveKeepsClaim
  BY DEF ClaimsInv
<1> QED BY <1>1, <1>2, <1>3, PTL DEF Spec

-----------------------------------------------------------------------------
(* The held request (SeatQueue), for any heads, gates, drains and faults.  *)
(* Gates and drains act upon an entry that they observed long ago; what    *)
(* they know of it only gets truer: GitHub's head grows, a turn that is    *)
(* due is superseded for good, and the ledger keeps what it has.           *)

AtHead(h) == h \in Nat /\ h <= queueHead
QueueInv ==
  /\ AtHead(queueHead) /\ ids \in Nat /\ AtHead(entry.head)
  /\ queueGate = [g \in Gate |-> queueGate[g]] /\ drain = [d \in Drainer |-> drain[d]]
  /\ \A g \in Gate :
       /\ queueGate[g] = [at |-> queueGate[g].at, head |-> queueGate[g].head, seen |-> queueGate[g].seen]
       /\ AtHead(queueGate[g].head) /\ (queueGate[g].at = "done" => queueGate[g].head \in turns)
  /\ \A d \in Drainer :
       /\ drain[d] = [at |-> drain[d].at, seen |-> drain[d].seen, gates |-> drain[d].gates]
       /\ AtHead(drain[d].seen.head)
       /\ drain[d].at = "drop" => drain[d].seen.head < queueHead \/ drain[d].seen.head \notin wanted

LEMMA QueueInit == Queue!Init => QueueInv
BY DEF Queue!Init, QueueInv, AtHead, Queue!NoEntry, Queue!OutGate, Queue!OutDrain

\* GitHub, the ledger and the policy change.
LEMMA QueueWorld ==
  ASSUME QueueInv, UNCHANGED <<entry, ids, queueGate, drain>>,
         queueHead' \in Nat, queueHead <= queueHead', wanted' \subseteq wanted, turns \subseteq turns'
  PROVE  QueueInv'
BY DEF QueueInv, AtHead

OneGate(x, a, h) == x = [at |-> a, head |-> h, seen |-> x.seen]
OneDrain(x, a, h) == x = [at |-> a, seen |-> x.seen, gates |-> x.gates] /\ x.seen.head = h

\* One gate takes a step, and may change the entry and the ledger.
LEMMA QueueGates ==
  ASSUME QueueInv, NEW g \in Gate, queueGate' = [queueGate EXCEPT ![g] = queueGate'[g]],
         UNCHANGED <<queueHead, wanted>>, drain' = drain, turns \subseteq turns', ids' \in Nat, AtHead(entry'.head),
         NEW STATE a, NEW STATE h, OneGate(queueGate'[g], a, h), AtHead(h), a = "done" => h \in turns'
  PROVE  QueueInv'
<1>1. queueGate' = [f \in Gate |-> queueGate'[f]] /\ \A f \in Gate : f # g => queueGate'[f] = queueGate[f]
  BY DEF QueueInv
<1> QED
  BY <1>1 DEF QueueInv, AtHead, OneGate, OneDrain

LEMMA QueueDrains ==
  ASSUME QueueInv, NEW d \in Drainer, drain' = [drain EXCEPT ![d] = drain'[d]],
         UNCHANGED <<queueHead, wanted, turns, queueGate>>, ids' \in Nat, AtHead(entry'.head),
         NEW STATE a, NEW STATE h, OneDrain(drain'[d], a, h), AtHead(h),
         a = "drop" => h < queueHead \/ h \notin wanted
  PROVE  QueueInv'
<1>1. drain' = [c \in Drainer |-> drain'[c]] /\ \A c \in Drainer : c # d => drain'[c] = drain[c]
  BY DEF QueueInv
<1> QED
  BY <1>1 DEF QueueInv, AtHead, OneGate, OneDrain

\* The queue file: what replaces an entry is of a head that was there, what is removed leaves none.
LEMMA QueueFile ==
  ASSUME QueueInv, NEW STATE seen, NEW STATE h, AtHead(h), NEW why,
         Queue!ReplaceIf(seen, h, why) \/ Queue!PopIf(seen)
  PROVE  ids' \in Nat /\ AtHead(entry'.head)
<1>1. 0 \in Nat /\ AtHead(0) /\ AtHead(entry.head) /\ ids \in Nat
  BY DEF QueueInv, AtHead
<1> QED
  BY <1>1 DEF Queue!ReplaceIf, Queue!PopIf, Queue!NoEntry

LEMMA QueueStep == QueueInv /\ [Queue!Next]_queueVars => QueueInv'
<1> SUFFICES ASSUME QueueInv, [Queue!Next]_queueVars PROVE QueueInv'
  OBVIOUS
<1>1. AtHead(queueHead) /\ ids \in Nat /\ AtHead(entry.head) /\ AtHead(0)
  BY DEF QueueInv, AtHead
<1>2. ASSUME NEW g \in Gate, NEW a, NEW n, queueGate' = [queueGate EXCEPT ![g] = [@ EXCEPT !.at = a, !.seen = n]]
      PROVE  /\ queueGate' = [queueGate EXCEPT ![g] = queueGate'[g]]
             /\ OneGate(queueGate'[g], a, queueGate[g].head)
  <2>1. PICK b, h, m : queueGate[g] = [at |-> b, head |-> h, seen |-> m]
    BY DEF QueueInv
  <2>2. queueGate'[g] = [queueGate[g] EXCEPT !.at = a, !.seen = n]
    BY <1>2 DEF QueueInv
  <2>3. queueGate' = [queueGate EXCEPT ![g] = queueGate'[g]]
    BY <1>2 DEF QueueInv
  <2>4. queueGate'[g] = [at |-> a, head |-> h, seen |-> n] /\ queueGate[g].head = h
    <3>1. [queueGate[g] EXCEPT !.at = a] = [at |-> a, head |-> h, seen |-> m] /\ queueGate[g].head = h
      BY <2>1
    <3>2. [[at |-> a, head |-> h, seen |-> m] EXCEPT !.seen = n] = [at |-> a, head |-> h, seen |-> n]
      OBVIOUS
    <3>3. [queueGate[g] EXCEPT !.at = a, !.seen = n] = [[queueGate[g] EXCEPT !.at = a] EXCEPT !.seen = n]
      OBVIOUS
    <3> QED
      BY <2>1, <2>2, <3>1, <3>2, <3>3, Zenon
  <2> QED
    BY <2>3, <2>4 DEF OneGate
<1>3. ASSUME NEW g \in Gate, NEW a, queueGate' = [queueGate EXCEPT ![g].at = a]
      PROVE  /\ queueGate' = [queueGate EXCEPT ![g] = queueGate'[g]]
             /\ OneGate(queueGate'[g], a, queueGate[g].head)
  <2>1. queueGate'[g] = [at |-> a, head |-> queueGate[g].head, seen |-> queueGate[g].seen]
    BY <1>3 DEF QueueInv
  <2>2. queueGate' = [queueGate EXCEPT ![g] = queueGate'[g]]
    BY <1>3 DEF QueueInv
  <2> QED
    BY <2>1, <2>2 DEF OneGate
<1>4. ASSUME NEW g \in Gate, queueGate' = [queueGate EXCEPT ![g] = Queue!OutGate]
      PROVE  /\ queueGate' = [queueGate EXCEPT ![g] = queueGate'[g]]
             /\ OneGate(queueGate'[g], "out", 0)
  BY <1>4 DEF QueueInv, Queue!OutGate, OneGate
<1>5. ASSUME NEW d \in Drainer, drain' = [drain EXCEPT ![d] = Queue!OutDrain]
      PROVE  /\ drain' = [drain EXCEPT ![d] = drain'[d]]
             /\ OneDrain(drain'[d], "out", 0)
  BY <1>5 DEF QueueInv, Queue!OutDrain, Queue!NoEntry, OneDrain
<1>6. ASSUME NEW g \in Gate PROVE AtHead(queueGate[g].head) /\ (queueGate[g].at = "done" => queueGate[g].head \in turns)
  BY DEF QueueInv
<1>7. ASSUME NEW d \in Drainer PROVE AtHead(drain[d].seen.head)
  BY DEF QueueInv
<1>8. CASE Queue!Push \/ Queue!Supersede \/ Queue!Toggle \/ UNCHANGED queueVars
  <2>1. /\ UNCHANGED <<entry, ids, queueGate, drain, turns>> /\ wanted' \subseteq wanted
        /\ queueHead' = queueHead \/ queueHead' = queueHead + 1
    BY <1>8 DEF Queue!Push, Queue!Supersede, Queue!Toggle, queueVars
  <2>2. queueHead' \in Nat /\ queueHead <= queueHead'
    BY <1>1, <2>1 DEF AtHead
  <2> QED
    BY <2>1, <2>2, QueueWorld
<1>9. ASSUME NEW g \in Gate, NEW h \in Queue!Head, Queue!Arrive(g, h) PROVE QueueInv'
  <2>1. /\ queueGate' = [queueGate EXCEPT ![g] = [at |-> "checked", head |-> queueHead, seen |-> Queue!NoEntry]]
        /\ UNCHANGED <<queueHead, wanted, drain, turns, ids, entry>>
    BY <1>9 DEF Queue!Arrive, Queue!hub
  <2>2. /\ queueGate' = [queueGate EXCEPT ![g] = queueGate'[g]]
        /\ OneGate(queueGate'[g], "checked", queueHead)
    BY <2>1 DEF QueueInv, OneGate
  <2> QED
    BY <1>1, <2>1, <2>2, QueueGates
<1>10. ASSUME NEW g \in Gate, Queue!Observe(g) \/ Queue!HoldRead(g) PROVE QueueInv'
  <2>1. /\ UNCHANGED <<queueHead, wanted, drain, turns, ids, entry>>
        /\ \/ queueGate' = [queueGate EXCEPT ![g] = Queue!OutGate]
           \/ \E a \in {"seen", "off", "hold"} :
                queueGate' = [queueGate EXCEPT ![g] = [@ EXCEPT !.at = a, !.seen = entry]]
    BY <1>10 DEF Queue!Observe, Queue!HoldRead, Queue!hub
  <2>2. CASE queueGate' = [queueGate EXCEPT ![g] = Queue!OutGate]
    BY <1>1, <1>4, <2>1, <2>2, QueueGates
  <2>3. CASE queueGate' # [queueGate EXCEPT ![g] = Queue!OutGate]
    <3>1. PICK a \in {"seen", "off", "hold"} :
            queueGate' = [queueGate EXCEPT ![g] = [@ EXCEPT !.at = a, !.seen = entry]]
      BY <2>1, <2>3
    <3> QED
      BY <1>1, <1>2, <1>6, <2>1, <3>1, QueueGates
  <2> QED
    BY <2>2, <2>3
<1>11. ASSUME NEW g \in Gate, Queue!Enqueue(g) PROVE QueueInv'
  <2>1. UNCHANGED <<queueHead, wanted, drain, ids, entry>>
    BY <1>11 DEF Queue!Enqueue, Queue!hub
  <2>2. PICK a \in {"failed", "off", "done"} :
          /\ queueGate' = [queueGate EXCEPT ![g].at = a]
          /\ turns' = IF a = "done" THEN turns \cup {queueGate[g].head} ELSE turns
    BY <1>11 DEF Queue!Enqueue, Queue!Set
  <2>3. /\ queueGate' = [queueGate EXCEPT ![g] = queueGate'[g]]
        /\ OneGate(queueGate'[g], a, queueGate[g].head)
    BY <1>3, <2>2
  <2> QED
    BY <1>1, <1>6, <2>1, <2>2, <2>3, QueueGates
<1>12. ASSUME NEW g \in Gate, Queue!Acknowledge(g) \/ Queue!Record(g) \/ Queue!HoldWrite(g) \/ Queue!GateDies(g)
       PROVE  QueueInv'
  <2>1. /\ UNCHANGED <<queueHead, wanted, drain, turns>> /\ queueGate' = [queueGate EXCEPT ![g] = Queue!OutGate]
        /\ \/ UNCHANGED <<ids, entry>>
           \/ Queue!PopIf(queueGate[g].seen) \/ Queue!ReplaceIf(queueGate[g].seen, queueGate[g].head, "held")
           \/ Queue!ReplaceIf(queueGate[g].seen, queueGate[g].head, "push_off")
    BY <1>12 DEF Queue!Acknowledge, Queue!Record, Queue!HoldWrite, Queue!GateDies, Queue!hub
  <2>2. ids' \in Nat /\ AtHead(entry'.head)
    <3> DEFINE n == queueGate[g].seen
               h == queueGate[g].head
    <3>1. AtHead(h)
      BY <1>6
    <3>2. UNCHANGED <<ids, entry>> \/ Queue!PopIf(n) \/ Queue!ReplaceIf(n, h, "held") \/ Queue!ReplaceIf(n, h, "push_off")
      BY <2>1
    <3> HIDE DEF n, h
    <3> QED
      BY <1>1, <3>1, <3>2, QueueFile
  <2> QED
    BY <1>1, <1>4, <2>1, <2>2, QueueGates
<1>13. ASSUME NEW d \in Drainer, Queue!DrainObserve(d) PROVE QueueInv'
  <2>1. /\ UNCHANGED <<queueHead, wanted, turns, queueGate, ids, entry>>
        /\ drain' = [drain EXCEPT ![d] = [at |-> "seen", seen |-> entry, gates |-> {}]]
    BY <1>13 DEF Queue!DrainObserve, Queue!hub
  <2>2. drain' = [drain EXCEPT ![d] = drain'[d]] /\ OneDrain(drain'[d], "seen", entry.head)
    BY <2>1 DEF QueueInv, OneDrain
  <2> QED
    BY <1>1, <2>1, <2>2, QueueDrains
<1>14. ASSUME NEW d \in Drainer, Queue!DrainJudge(d) PROVE QueueInv'
  <2> DEFINE h == drain[d].seen.head
             a == IF h = queueHead /\ h \in wanted THEN "fire" ELSE "drop"
  <2>1. UNCHANGED <<queueHead, wanted, turns, queueGate, ids, entry>> /\ drain' = [drain EXCEPT ![d].at = a]
    BY <1>14 DEF Queue!DrainJudge, Queue!hub
  <2>2. drain' = [drain EXCEPT ![d] = drain'[d]] /\ OneDrain(drain'[d], a, h)
    BY <2>1 DEF QueueInv, OneDrain
  <2>3. a = "drop" => h < queueHead \/ h \notin wanted
    BY <1>1, <1>7 DEF AtHead
  <2>4. AtHead(h)
    BY <1>7
  <2> HIDE DEF a, h
  <2> QED
    BY <1>1, <2>1, <2>2, <2>3, <2>4, QueueDrains
<1>15. ASSUME NEW d \in Drainer, Queue!DrainUnreadable(d) \/ Queue!DrainDrop(d) \/ Queue!DrainSettle(d)
       PROVE  QueueInv'
  <2>1. /\ UNCHANGED <<queueHead, wanted, turns, queueGate>> /\ drain' = [drain EXCEPT ![d] = Queue!OutDrain]
        /\ \/ UNCHANGED <<ids, entry>>
           \/ Queue!PopIf(drain[d].seen)
           \/ Queue!ReplaceIf(drain[d].seen, drain[d].seen.head, "delivery_uncertain")
    BY <1>15 DEF Queue!DrainUnreadable, Queue!DrainDrop, Queue!DrainSettle, Queue!hub
  <2>2. ids' \in Nat /\ AtHead(entry'.head)
    <3> DEFINE n == drain[d].seen
               h == drain[d].seen.head
    <3>1. AtHead(h)
      BY <1>7
    <3>2. UNCHANGED <<ids, entry>> \/ Queue!PopIf(n) \/ Queue!ReplaceIf(n, h, "delivery_uncertain")
      BY <2>1
    <3> HIDE DEF n, h
    <3> QED
      BY <1>1, <3>1, <3>2, QueueFile
  <2> QED
    BY <1>1, <1>5, <2>1, <2>2, QueueDrains
<1>16. ASSUME NEW d \in Drainer, Queue!DrainFire(d) PROVE QueueInv'
  <2>1. UNCHANGED <<queueHead, wanted, turns, ids, entry>>
    BY <1>16 DEF Queue!DrainFire, Queue!hub
  <2>2. CASE queueGate' = queueGate /\ drain' = [drain EXCEPT ![d] = Queue!OutDrain]
    BY <1>1, <1>5, <2>1, <2>2, QueueDrains
  <2>3. CASE ~(queueGate' = queueGate /\ drain' = [drain EXCEPT ![d] = Queue!OutDrain])
    <3>1. PICK g \in Gate :
            /\ drain' = [drain EXCEPT ![d].at = "fired", ![d].gates = {g}]
            /\ \/ /\ drain[d].seen.head = queueHead
                  /\ queueGate' = [queueGate EXCEPT ![g] =
                       [at |-> "checked", head |-> drain[d].seen.head, seen |-> Queue!NoEntry]]
               \/ queueGate' = queueGate
      BY <1>16, <2>3 DEF Queue!DrainFire
    <3>2. /\ drain' = [c \in Drainer |-> drain'[c]] /\ \A c \in Drainer \ {d} : drain'[c] = drain[c]
      BY <3>1 DEF QueueInv
    <3>6. drain'[d] = [at |-> "fired", seen |-> drain[d].seen, gates |-> {g}]
      <4>1. drain[d] = [at |-> drain[d].at, seen |-> drain[d].seen, gates |-> drain[d].gates]
        BY DEF QueueInv
      <4>2. drain'[d] = [drain[d] EXCEPT !.at = "fired", !.gates = {g}]
        BY <3>1 DEF QueueInv
      <4> QED
        BY <4>1, <4>2
    <3>3. /\ queueGate' = [f \in Gate |-> queueGate'[f]]
          /\ \A f \in Gate : \/ queueGate'[f] = queueGate[f]
                             \/ queueGate'[f] = [at |-> "checked", head |-> queueHead, seen |-> Queue!NoEntry]
      BY <3>1 DEF QueueInv
    <3>4. (\A f \in Gate :
            /\ queueGate[f] = [at |-> queueGate[f].at, head |-> queueGate[f].head, seen |-> queueGate[f].seen]
            /\ AtHead(queueGate[f].head) /\ (queueGate[f].at = "done" => queueGate[f].head \in turns))'
      BY <1>1, <2>1, <3>3 DEF QueueInv, AtHead
    <3>5. (\A c \in Drainer :
            /\ drain[c] = [at |-> drain[c].at, seen |-> drain[c].seen, gates |-> drain[c].gates]
            /\ AtHead(drain[c].seen.head)
            /\ drain[c].at = "drop" => drain[c].seen.head < queueHead \/ drain[c].seen.head \notin wanted)'
      BY <1>7, <2>1, <3>2, <3>6 DEF QueueInv, AtHead
    <3> QED
      BY <1>1, <2>1, <3>2, <3>3, <3>4, <3>5 DEF QueueInv, AtHead
  <2> QED
    BY <2>2, <2>3
<1> QED
  BY <1>8, <1>9, <1>10, <1>11, <1>12, <1>13, <1>14, <1>15, <1>16 DEF Queue!Next

\* LostOnlyToOvertaken, the run's property: a request that is due leaves the queue with its turn in
\* the ledger, or by the gate of an older head that took it for its own (queue_pop_if).
THEOREM LostOnlyToOvertakenHolds == PartSpec => LostOnlyToOvertaken
<1>1. PartInit => QueueInv
  BY QueueInit DEF PartInit
<1>2. QueueInv /\ [PartNext]_partVars => QueueInv'
  BY QueueStep DEF PartNext, partVars, queueVars
<1>3. QueueInv /\ [PartNext]_partVars =>
        [entry # Queue!NoEntry /\ Queue!Due(entry.head) /\ entry' = Queue!NoEntry
           => entry.head \in turns \/ \E g \in Gate : Queue!Overtaken(g)]_(Queue!vars)
  <2> SUFFICES ASSUME QueueInv, [PartNext]_partVars, entry # Queue!NoEntry, Queue!Due(entry.head), entry' = Queue!NoEntry
               PROVE  entry.head \in turns \/ \E g \in Gate : Queue!Overtaken(g)
    OBVIOUS
  <2>1. Queue!Next
    BY DEF PartNext, partVars, queueVars
  <2>2. ASSUME NEW seen, NEW h, NEW why, Queue!ReplaceIf(seen, h, why) PROVE FALSE
    BY <2>2 DEF Queue!ReplaceIf, Queue!NoEntry, QueueInv
  <2>3. \/ \E g \in Gate : queueGate[g].at = "done" /\ Queue!PopIf(queueGate[g].seen)
        \/ \E d \in Drainer : drain[d].at = "drop" /\ Queue!PopIf(drain[d].seen)
    BY <2>1, <2>2 DEF Queue!Next, Queue!Push, Queue!Supersede, Queue!Toggle, Queue!Arrive, Queue!Observe, Queue!Enqueue,
       Queue!Acknowledge, Queue!Record, Queue!HoldRead, Queue!HoldWrite, Queue!GateDies, Queue!DrainObserve,
       Queue!DrainJudge, Queue!DrainUnreadable, Queue!DrainDrop, Queue!DrainFire, Queue!DrainSettle, Queue!hub
  <2>4. ASSUME NEW g \in Gate, queueGate[g].at = "done", Queue!PopIf(queueGate[g].seen)
        PROVE  entry.head \in turns \/ Queue!Overtaken(g)
    <3>1. entry = queueGate[g].seen
      BY <2>4 DEF Queue!PopIf
    <3>2. queueGate[g].head \in turns /\ AtHead(queueGate[g].head) /\ AtHead(entry.head) /\ entry.head = queueHead
      BY <2>4 DEF QueueInv, Queue!Due
    <3> QED
      BY <2>4, <3>1, <3>2 DEF AtHead, Queue!Overtaken
  <2>5. ASSUME NEW d \in Drainer, drain[d].at = "drop", Queue!PopIf(drain[d].seen) PROVE FALSE
    BY <2>5 DEF Queue!PopIf, Queue!Due, QueueInv, AtHead
  <2> QED
    BY <2>3, <2>4, <2>5
<1> QED
  BY <1>1, <1>2, <1>3, PTL DEF PartSpec, LostOnlyToOvertaken, Queue!LostOnlyToOvertaken

-----------------------------------------------------------------------------
(* The move to a renamed repository (RepoMove), for any turns, actors and  *)
(* operators. MoveCore is the pause: one migrate at a time, with nothing   *)
(* queueing. In a move whose migrates may fail, FailingInv adds that the   *)
(* rows go before the loop file; in one whose migrates may only die,       *)
(* MoveInv adds what a half-done migrate leaves behind its marker.         *)

Named(S, n) == \A x \in S : x.name = n

MoveCore ==
  /\ rows \subseteq Move!Row /\ at \in [Operator -> Move!Step] /\ loop \in Move!Name
  /\ acting \in [Actor -> [on : BOOLEAN, turn : Turn \cup {"none"}, name : Move!Name]]
  /\ \A o \in Operator : at[o] # "out" => lock = {o} /\ moveMarker
  /\ \A a \in Actor : acting[a].on => ~moveMarker /\ acting[a].name = loop /\ acting[a].turn \in Turn

FailingInv ==
  /\ MoveCore
  /\ loop = "new" \/ (\E o \in Operator : at[o] \in {"state", "loopfile"}) => Named(rows, "new")

\* The state directory: the loop file names it, except between its renaming and the next look.
DirInv ==
  /\ dir = {"old"} \/ dir = {"new"}
  /\ points \notin dir => /\ moveMarker /\ dir = {"new"} /\ points = "old"
                          /\ \A r \in rows : r.state # "active"
                          /\ \A o \in Operator : at[o] \in {"out", "files", "point"}

\* The names: all the loop's, or the rows ahead of it, or the rows and the marks.
Agreed == Named(rows, loop) /\ Named(marks, loop)
Ahead == renamed /\ loop = "old" /\ Named(rows, "new") /\ (Named(marks, "old") \/ Named(marks, "new"))
OneRow == \A r, q \in rows : r.turn = q.turn => r = q
NamesInv ==
  /\ marks \subseteq [name : Move!Name, turn : Turn]
  /\ Agreed \/ (moveMarker /\ Ahead)
  /\ \A o \in Operator :
       /\ at[o] = "state" => Ahead
       /\ at[o] = "loopfile" => Ahead /\ Named(marks, "new")
       /\ at[o] = "end" => Agreed
  /\ OneRow

MoveInv == MoveCore /\ DirInv /\ NamesInv

LEMMA MoveStart ==
  /\ Move!Init => MoveInv
  /\ FailingMove!Init => FailingInv
<1>1. Move!Init => MoveInv
  BY DEF Move!Init, MoveInv, MoveCore, DirInv, NamesInv, OneRow, Named, Agreed, Move!Name, Move!Step, Move!Idle
<1>2. FailingMove!Init => FailingInv
  BY DEF FailingMove!Init, FailingInv, MoveCore, Named, Move!Name, Move!Step, FailingMove!Idle
<1> QED
  BY <1>1, <1>2

\* A migrate that cannot fail takes no step that one that can would not take.
LEMMA MoveIsFailing == Move!Next => FailingMove!Next
<1>1. \A o \in Operator : Move!Migrate(o) => FailingMove!Migrate(o)
  BY DEF Move!Migrate, Move!Begin, Move!Files, Move!Point, Move!Ledger, Move!MoveState, Move!LoopFile, Move!End,
     Move!Die, Move!Raise, Move!Then, Move!Busy, Move!BusyUnder, Move!Clash, Move!To, Move!records,
     FailingMove!Migrate, FailingMove!Begin, FailingMove!Files, FailingMove!Point, FailingMove!Ledger,
     FailingMove!MoveState, FailingMove!LoopFile, FailingMove!End, FailingMove!Die, FailingMove!Raise,
     FailingMove!Then, FailingMove!Busy, FailingMove!BusyUnder, FailingMove!Clash, FailingMove!To, FailingMove!records
<1>2. /\ Move!Rename => FailingMove!Rename
      /\ \A a \in Actor, t \in Turn : Move!Act(a, t) => FailingMove!Act(a, t)
      /\ \A a \in Actor : Move!Write(a) => FailingMove!Write(a)
      /\ \A r \in rows : (Move!Claim(r) => FailingMove!Claim(r)) /\ (Move!Finish(r) => FailingMove!Finish(r))
  BY DEF Move!Rename, Move!Act, Move!Write, Move!Claim, Move!Finish, Move!Paused, Move!records, Move!Idle,
     FailingMove!Rename, FailingMove!Act, FailingMove!Write, FailingMove!Claim, FailingMove!Finish,
     FailingMove!Paused, FailingMove!records, FailingMove!Idle
<1> QED
  BY <1>1, <1>2 DEF Move!Next, FailingMove!Next

\* A row renamed, claimed, ended or queued is a row of its turn.
LEMMA RowKinds ==
  ASSUME NEW STATE r, r \in Move!Row
  PROVE  /\ FailingMove!To(r) \in Move!Row /\ FailingMove!To(r).name = "new"
         /\ FailingMove!To(r).turn = r.turn /\ FailingMove!To(r).state = r.state
         /\ \A s \in {"active", "done"} :
              /\ [r EXCEPT !.state = s] \in Move!Row /\ [r EXCEPT !.state = s].state = s
              /\ [r EXCEPT !.state = s].name = r.name /\ [r EXCEPT !.state = s].turn = r.turn
BY DEF Move!Row, Move!Name, FailingMove!To

\* What the steps do to the rows: nothing, or one is queued, goes on, or all take the new name.
RowQueued == \E a \in Actor :
  /\ acting[a].on /\ rows' = rows \cup {[name |-> acting[a].name, turn |-> acting[a].turn, state |-> "pending"]}
  /\ \A r \in rows : ~(r.name = acting[a].name /\ r.turn = acting[a].turn)
RowGoesOn(s) == \E r \in rows : rows' = (rows \ {r}) \cup {[r EXCEPT !.state = s]}
RowsRenamed == rows' = {FailingMove!To(r) : r \in rows}

LEMMA RowSteps ==
  FailingMove!Next => rows' = rows \/ RowQueued \/ RowGoesOn("active") \/ RowGoesOn("done") \/ RowsRenamed
<1> SUFFICES ASSUME FailingMove!Next, rows' # rows
             PROVE  RowQueued \/ RowGoesOn("active") \/ RowGoesOn("done") \/ RowsRenamed
  OBVIOUS
<1>1. ASSUME NEW o \in Operator, FailingMove!Migrate(o) PROVE RowsRenamed
  BY <1>1 DEF FailingMove!Migrate, FailingMove!Begin, FailingMove!Files, FailingMove!Point, FailingMove!Ledger,
     FailingMove!MoveState, FailingMove!LoopFile, FailingMove!End, FailingMove!Die, FailingMove!Raise,
     FailingMove!records, RowsRenamed
<1>2. ASSUME NEW a \in Actor, FailingMove!Write(a) PROVE RowQueued
  BY <1>2 DEF FailingMove!Write, RowQueued
<1>3. ASSUME NEW r \in rows, FailingMove!Claim(r) \/ FailingMove!Finish(r)
      PROVE  RowGoesOn("active") \/ RowGoesOn("done")
  BY <1>3 DEF FailingMove!Claim, FailingMove!Finish, RowGoesOn
<1>4. ~FailingMove!Rename /\ \A a \in Actor, t \in Turn : ~FailingMove!Act(a, t)
  BY DEF FailingMove!Rename, FailingMove!Act, FailingMove!records
<1> QED
  BY <1>1, <1>2, <1>3, <1>4 DEF FailingMove!Next

LEMMA MoveCoreStep == MoveCore /\ FailingMove!Next => MoveCore'
<1> SUFFICES ASSUME MoveCore, FailingMove!Next PROVE MoveCore'
  OBVIOUS
<1>1. rows' \subseteq Move!Row
  <2>1. rows \subseteq Move!Row /\ \A a \in Actor : acting[a].on => acting[a].turn \in Turn /\ acting[a].name \in Move!Name
    BY DEF MoveCore
  <2>2. CASE RowQueued
    BY <2>1, <2>2 DEF RowQueued, Move!Row
  <2>3. CASE RowGoesOn("active") \/ RowGoesOn("done")
    <3>1. PICK r \in rows, s \in {"active", "done"} : rows' = (rows \ {r}) \cup {[r EXCEPT !.state = s]}
      BY <2>3 DEF RowGoesOn
    <3> QED
      BY <2>1, <3>1, RowKinds
  <2>4. CASE RowsRenamed
    <3>1. \A x \in rows' : \E r \in rows : x = FailingMove!To(r)
      BY <2>4 DEF RowsRenamed
    <3>2. \A r \in rows : FailingMove!To(r) \in Move!Row
      BY <2>1, RowKinds
    <3> QED
      BY <3>1, <3>2
  <2> QED
    BY <2>1, <2>2, <2>3, <2>4, RowSteps
<1>2. ASSUME NEW o \in Operator, FailingMove!Migrate(o) PROVE MoveCore'
  <2>1. /\ acting' = acting /\ loop' \in {loop, "new"} /\ (loop' # loop => at[o] # "out")
        /\ at' \in [Operator -> Move!Step] /\ \A p \in Operator : p # o => at'[p] = at[p]
    BY <1>2 DEF MoveCore, FailingMove!Migrate, FailingMove!Begin, FailingMove!Files, FailingMove!Point,
       FailingMove!Ledger, FailingMove!MoveState, FailingMove!LoopFile, FailingMove!End, FailingMove!Die,
       FailingMove!Raise, FailingMove!Then, FailingMove!records, Move!Step
  <2>2. \/ at[o] = "out" /\ lock = {} /\ lock' = {o} /\ moveMarker' /\ \A a \in Actor : ~acting[a].on
        \/ at[o] # "out" /\ at'[o] = "out"
        \/ at[o] # "out" /\ lock' = lock /\ moveMarker' = moveMarker
    BY <1>2 DEF MoveCore, FailingMove!Migrate, FailingMove!Begin, FailingMove!Files, FailingMove!Point,
       FailingMove!Ledger, FailingMove!MoveState, FailingMove!LoopFile, FailingMove!End, FailingMove!Die,
       FailingMove!Raise, FailingMove!Then, FailingMove!records
  <2>3. \A p, q \in Operator : at[p] # "out" /\ at[q] # "out" => p = q
    BY DEF MoveCore
  <2>4. \A p \in Operator : at'[p] # "out" => lock' = {p} /\ moveMarker'
    BY <2>1, <2>2, <2>3 DEF MoveCore
  <2>5. \A a \in Actor : ~acting'[a].on
    BY <2>1, <2>2 DEF MoveCore
  <2>6. loop' \in Move!Name
    BY <2>1 DEF MoveCore, Move!Name
  <2> QED
    BY <1>1, <2>1, <2>4, <2>5, <2>6 DEF MoveCore
<1>3. ASSUME NEW a \in Actor, FailingMove!Write(a) \/ \E t \in Turn : FailingMove!Act(a, t) PROVE MoveCore'
  <2>1. /\ UNCHANGED <<at, lock, moveMarker, loop>>
        /\ \/ acting' = [acting EXCEPT ![a] = FailingMove!Idle]
           \/ /\ ~moveMarker
              /\ \E t \in Turn : acting' = [acting EXCEPT ![a] = [on |-> TRUE, turn |-> t, name |-> loop]]
    BY <1>3 DEF FailingMove!Act, FailingMove!Write, FailingMove!records, FailingMove!Paused
  <2> QED
    <3>1. acting' \in [Actor -> [on : BOOLEAN, turn : Turn \cup {"none"}, name : Move!Name]]
      <4>1. /\ FailingMove!Idle \in [on : BOOLEAN, turn : Turn \cup {"none"}, name : Move!Name]
            /\ \A t \in Turn : [on |-> TRUE, turn |-> t, name |-> loop]
                               \in [on : BOOLEAN, turn : Turn \cup {"none"}, name : Move!Name]
        BY DEF MoveCore, FailingMove!Idle, Move!Name
      <4>2. PICK v \in [on : BOOLEAN, turn : Turn \cup {"none"}, name : Move!Name] : acting' = [acting EXCEPT ![a] = v]
        BY <2>1, <4>1
      <4> DEFINE R == [on : BOOLEAN, turn : Turn \cup {"none"}, name : Move!Name]
      <4>3. acting \in [Actor -> R]
        BY DEF MoveCore
      <4> HIDE DEF R
      <4>4. v \in R
        BY <4>2 DEF R
      <4>5. acting' \in [Actor -> R]
        BY <4>2, <4>3, <4>4
      <4> QED
        BY <4>5 DEF R
    <3>2. \A b \in Actor : acting'[b].on => ~moveMarker /\ acting'[b].name = loop /\ acting'[b].turn \in Turn
      BY <2>1 DEF MoveCore, FailingMove!Idle
    <3> QED
      BY <1>1, <2>1, <3>1, <3>2 DEF MoveCore
<1>4. ASSUME UNCHANGED <<at, lock, moveMarker, loop, acting>> PROVE MoveCore'
  BY <1>1, <1>4 DEF MoveCore
<1> QED
  BY <1>2, <1>3, <1>4 DEF FailingMove!Next, FailingMove!Rename, FailingMove!Claim, FailingMove!Finish,
     FailingMove!records, FailingMove!Write

\* Rows that go on keep their names, and those that the ledger moves have the new one.
LEMMA RowNames ==
  ASSUME MoveCore
  PROVE  /\ RowGoesOn("active") \/ RowGoesOn("done") => \A n \in Move!Name : Named(rows, n) => Named(rows', n)
         /\ RowsRenamed => Named(rows', "new")
<1>1. rows \subseteq Move!Row
  BY DEF MoveCore
<1>2. ASSUME RowGoesOn("active") \/ RowGoesOn("done"), NEW n \in Move!Name, Named(rows, n) PROVE Named(rows', n)
  <2>1. PICK r \in rows, s \in {"active", "done"} : rows' = (rows \ {r}) \cup {[r EXCEPT !.state = s]}
    BY <1>2 DEF RowGoesOn
  <2>2. [r EXCEPT !.state = s].name = r.name
    BY <1>1, RowKinds
  <2> QED
    BY <1>2, <2>1, <2>2 DEF Named
<1>3. ASSUME RowsRenamed PROVE Named(rows', "new")
  <2>1. \A x \in rows' : \E r \in rows : x = FailingMove!To(r)
    BY <1>3 DEF RowsRenamed
  <2>2. \A r \in rows : FailingMove!To(r).name = "new"
    BY <1>1, RowKinds
  <2> QED
    BY <2>1, <2>2 DEF Named
<1> QED
  BY <1>2, <1>3

LEMMA FailingStep == FailingInv /\ FailingMove!Next => FailingInv'
<1> SUFFICES ASSUME FailingInv, FailingMove!Next PROVE FailingInv'
  OBVIOUS
<1>1. MoveCore /\ MoveCore'
  BY MoveCoreStep DEF FailingInv
<1> DEFINE Moving == \E o \in Operator : at[o] \in {"state", "loopfile"}
           Goal == loop' = "new" \/ Moving' => Named(rows', "new")
<1>2. ASSUME NEW o \in Operator, FailingMove!Migrate(o) PROVE Goal
  <2>1. \A p \in Operator : p # o => at'[p] = at[p]
    BY <1>1, <1>2 DEF MoveCore, FailingMove!Migrate, FailingMove!Begin, FailingMove!Files, FailingMove!Point,
       FailingMove!Ledger, FailingMove!MoveState, FailingMove!LoopFile, FailingMove!End, FailingMove!Die,
       FailingMove!Raise, FailingMove!Then
  <2>2. CASE FailingMove!Ledger(o)
    <3>1. loop' = loop /\ (RowsRenamed \/ (rows' = rows /\ at'[o] = "end"))
      BY <1>1, <2>2 DEF FailingMove!Ledger, FailingMove!Then, MoveCore, RowsRenamed
    <3> QED
      BY <1>1, <2>1, <3>1, RowNames DEF FailingInv
  <2>3. CASE ~FailingMove!Ledger(o)
    <3>1. /\ rows' = rows /\ (loop' = loop \/ at[o] = "loopfile")
          /\ at'[o] \in {"state", "loopfile"} => at[o] = "state"
      BY <1>1, <1>2, <2>3 DEF MoveCore, FailingMove!Migrate, FailingMove!Begin, FailingMove!Files, FailingMove!Point,
         FailingMove!MoveState, FailingMove!LoopFile, FailingMove!End, FailingMove!Die,
         FailingMove!Raise, FailingMove!Then, FailingMove!records
    <3> QED
      BY <2>1, <3>1 DEF FailingInv
  <2> QED
    BY <2>2, <2>3
<1>3. ASSUME NEW a \in Actor, FailingMove!Write(a) PROVE Goal
  <2>1. /\ UNCHANGED <<at, loop>>
        /\ rows' = rows \/ rows' = rows \cup {[name |-> loop, turn |-> acting[a].turn, state |-> "pending"]}
        /\ \A o \in Operator : at[o] = "out"
    BY <1>1, <1>3 DEF MoveCore, FailingMove!Write
  <2> QED
    BY <2>1 DEF FailingInv, Named
<1>4. ASSUME NEW r \in rows, FailingMove!Claim(r) \/ FailingMove!Finish(r) PROVE Goal
  <2>1. UNCHANGED <<at, loop>> /\ (RowGoesOn("active") \/ RowGoesOn("done"))
    BY <1>4 DEF FailingMove!Claim, FailingMove!Finish, RowGoesOn
  <2> QED
    BY <1>1, <2>1, RowNames DEF FailingInv, Move!Name
<1>5. ASSUME UNCHANGED <<rows, at, loop>> PROVE Goal
  BY <1>5 DEF FailingInv
<1>6. Goal
  BY <1>2, <1>3, <1>4, <1>5 DEF FailingMove!Next, FailingMove!Rename, FailingMove!Act, FailingMove!records
<1> QED
  BY <1>1, <1>6 DEF FailingInv

LEMMA DirStep == MoveInv /\ Move!Next => DirInv'
<1> SUFFICES ASSUME MoveInv, Move!Next PROVE DirInv'
  OBVIOUS
<1>1. MoveCore /\ DirInv /\ rows \subseteq Move!Row
  BY DEF MoveInv, MoveCore
<1>2. ASSUME NEW o \in Operator, Move!Migrate(o) PROVE DirInv'
  <2>1. /\ \A p \in Operator : p # o => at'[p] = at[p]
        /\ at[o] # "out" => moveMarker /\ \A p \in Operator : p # o => at[p] = "out"
    BY <1>1, <1>2 DEF MoveCore, Move!Migrate, Move!Begin, Move!Files, Move!Point, Move!Ledger, Move!MoveState,
       Move!LoopFile, Move!End, Move!Die, Move!Raise, Move!Then
  <2>2. CASE Move!Begin(o)
    <3>1. UNCHANGED <<dir, points, rows>> /\ moveMarker' /\ at'[o] = "files"
      BY <1>1, <2>2 DEF MoveCore, Move!Begin, Move!Then, Move!records
    <3> QED
      BY <1>1, <2>1, <3>1 DEF DirInv
  <2>3. CASE Move!Files(o)
    <3>1. /\ UNCHANGED <<points, rows, moveMarker>> /\ at[o] = "files"
          /\ at'[o] = IF Move!Busy THEN "ledger" ELSE "point"
          /\ dir' = IF Move!Busy \/ dir # {"old"} THEN dir ELSE {"new"}
      BY <1>1, <2>3 DEF MoveCore, Move!Files, Move!Then
    <3> QED
      BY <1>1, <2>1, <3>1 DEF DirInv, Move!Busy
  <2>4. CASE Move!Point(o)
    <3>1. dir' = dir /\ points' = IF "old" \in dir THEN points ELSE "new"
      BY <2>4 DEF Move!Point
    <3> QED
      BY <1>1, <3>1 DEF DirInv
  <2>5. CASE at[o] \in {"ledger", "state", "loopfile", "end"}
    <3>1. UNCHANGED <<dir, points>>
      BY <1>2, <2>5 DEF Move!Migrate, Move!Begin, Move!Files, Move!Point, Move!Ledger, Move!MoveState,
         Move!LoopFile, Move!End, Move!Die, Move!Raise, Move!records
    <3> QED
      BY <1>1, <2>5, <3>1 DEF DirInv
  <2>6. CASE Move!Die(o)
    <3>1. UNCHANGED <<dir, points, rows, moveMarker>> /\ at'[o] = "out"
      BY <1>1, <2>6 DEF MoveCore, Move!Die, Move!Then, Move!records
    <3> QED
      BY <1>1, <2>1, <3>1 DEF DirInv
  <2> QED
    BY <1>2, <2>2, <2>3, <2>4, <2>5, <2>6 DEF Move!Migrate, Move!Ledger, Move!MoveState, Move!LoopFile, Move!End,
       Move!Raise
<1>3. ASSUME NEW a \in Actor, Move!Write(a) PROVE DirInv'
  <2>1. dir' = dir \cup {points} /\ points' = points /\ ~moveMarker
    BY <1>1, <1>3 DEF MoveCore, Move!Write
  <2> QED
    BY <1>1, <2>1 DEF DirInv
<1>4. ASSUME NEW r \in rows, Move!Claim(r) \/ Move!Finish(r) PROVE DirInv'
  <2>1. /\ UNCHANGED <<dir, points, moveMarker, at>>
        /\ \/ ~moveMarker
           \/ rows' = (rows \ {r}) \cup {[r EXCEPT !.state = "done"]}
    BY <1>4 DEF Move!Claim, Move!Finish, Move!Paused
  <2>2. [r EXCEPT !.state = "done"].state = "done"
    BY <1>1, RowKinds
  <2> QED
    BY <1>1, <2>1, <2>2 DEF DirInv
<1>5. ASSUME UNCHANGED <<dir, points, moveMarker, rows, at>> PROVE DirInv'
  BY <1>1, <1>5 DEF DirInv
<1> QED
  BY <1>2, <1>3, <1>4, <1>5 DEF Move!Next, Move!Rename, Move!Act, Move!records

\* The rows stay one for each turn.
LEMMA OneRowStep ==
  MoveCore /\ Move!Next /\ OneRow /\ (~moveMarker => Named(rows, loop)) => OneRow'
<1> SUFFICES ASSUME MoveCore, Move!Next, OneRow, ~moveMarker => Named(rows, loop) PROVE OneRow'
  OBVIOUS
<1>1. rows \subseteq Move!Row
  BY DEF MoveCore
<1>2. CASE RowQueued
  <2>1. PICK a \in Actor :
          /\ acting[a].on /\ rows' = rows \cup {[name |-> acting[a].name, turn |-> acting[a].turn, state |-> "pending"]}
          /\ \A r \in rows : ~(r.name = acting[a].name /\ r.turn = acting[a].turn)
    BY <1>2 DEF RowQueued
  <2>2. \A r \in rows : r.turn # acting[a].turn
    BY <2>1 DEF MoveCore, Named
  <2> QED
    BY <2>1, <2>2 DEF OneRow
<1>3. CASE RowGoesOn("active") \/ RowGoesOn("done")
  <2>1. PICK r \in rows, s \in {"active", "done"} : rows' = (rows \ {r}) \cup {[r EXCEPT !.state = s]}
    BY <1>3 DEF RowGoesOn
  <2>2. [r EXCEPT !.state = s].turn = r.turn
    BY <1>1, RowKinds
  <2> QED
    BY <2>1, <2>2 DEF OneRow
<1>4. CASE RowsRenamed
  <2>1. \A x \in rows' : \E r \in rows : x = FailingMove!To(r)
    BY <1>4 DEF RowsRenamed
  <2>2. \A r \in rows : FailingMove!To(r).turn = r.turn
    BY <1>1, RowKinds
  <2> QED
    BY <2>1, <2>2 DEF OneRow
<1> QED
  BY <1>2, <1>3, <1>4, RowSteps, MoveIsFailing DEF OneRow

LEMMA NamesStep == MoveInv /\ Move!Next => NamesInv'
<1> SUFFICES ASSUME MoveInv, Move!Next PROVE NamesInv'
  OBVIOUS
<1>1. /\ MoveCore /\ DirInv /\ NamesInv /\ loop \in Move!Name
      /\ Agreed \/ (moveMarker /\ Ahead)
  BY DEF MoveInv, MoveCore, NamesInv
<1>2. OneRow'
  BY <1>1, OneRowStep DEF NamesInv, Agreed
<1> DEFINE Marked == marks \subseteq [name : Move!Name, turn : Turn]
           Known == Agreed \/ (moveMarker /\ Ahead)
           Placed(o) == /\ at[o] = "state" => Ahead
                        /\ at[o] = "loopfile" => Ahead /\ Named(marks, "new")
                        /\ at[o] = "end" => Agreed
<1>3. SUFFICES Marked' /\ Known' /\ \A o \in Operator : Placed(o)'
  BY <1>2 DEF NamesInv
<1>4. Marked /\ \A o \in Operator : Placed(o)
  BY <1>1 DEF NamesInv
<1>5. ASSUME NEW o \in Operator, Move!Migrate(o) PROVE Marked' /\ Known' /\ \A p \in Operator : Placed(p)'
  <2>1. /\ \A p \in Operator : p # o => at'[p] = at[p]
        /\ at[o] # "out" => moveMarker /\ \A p \in Operator : p # o => at[p] = "out"
        /\ renamed' = renamed
    BY <1>1, <1>5 DEF MoveCore, Move!Migrate, Move!Begin, Move!Files, Move!Point, Move!Ledger, Move!MoveState,
       Move!LoopFile, Move!End, Move!Die, Move!Raise, Move!Then
  <2>2. CASE Move!Ledger(o)
    <3>1. UNCHANGED <<marks, loop, moveMarker>> /\ at[o] = "ledger"
      BY <2>2 DEF Move!Ledger
    <3>2. CASE ~renamed \/ loop = "new" \/ Move!BusyUnder("old")
      <4>1. rows' = rows /\ at'[o] = "end"
        BY <1>1, <2>2, <3>2 DEF Move!Ledger, Move!Then, MoveCore
      <4>2. Agreed
        BY <1>1, <3>2 DEF Ahead, Named, Move!BusyUnder
      <4> QED
        BY <1>4, <2>1, <3>1, <4>1, <4>2 DEF Agreed
    <3>3. CASE ~(~renamed \/ loop = "new" \/ Move!BusyUnder("old"))
      <4>1. rows' = {Move!To(r) : r \in rows} /\ at'[o] = "state" /\ renamed /\ loop = "old"
        BY <1>1, <2>2, <3>3 DEF Move!Ledger, Move!Then, MoveCore, Move!Name
      <4>2. Named(rows', "new")
        BY <1>1, <4>1, RowNames DEF RowsRenamed, Move!To, FailingMove!To
      <4>3. Ahead'
        BY <1>1, <2>1, <3>1, <4>1, <4>2 DEF Agreed, Ahead
      <4> QED
        BY <1>4, <2>1, <3>1, <4>1, <4>3
    <3> QED
      BY <3>2, <3>3
  <2>3. CASE Move!MoveState(o)
    <3>1. /\ UNCHANGED <<rows, loop, moveMarker>> /\ at[o] = "state" /\ at'[o] = "loopfile" /\ Ahead
          /\ marks' = {Move!To(m) : m \in marks}
      BY <1>1, <1>4, <2>3 DEF Move!MoveState, Move!Then, MoveCore, DirInv, Agreed, Ahead, Named
    <3>2. \A m \in marks : Move!To(m) \in [name : Move!Name, turn : Turn] /\ Move!To(m).name = "new"
      BY <1>4 DEF Move!To, Move!Name
    <3>3. Marked' /\ Named(marks', "new")
      BY <3>1, <3>2 DEF Named
    <3> QED
      BY <1>4, <2>1, <3>1, <3>3 DEF Ahead
  <2>4. CASE Move!LoopFile(o)
    <3>1. UNCHANGED <<rows, marks>> /\ loop' = "new" /\ at[o] = "loopfile" /\ at'[o] = "end"
      BY <1>1, <2>4 DEF Move!LoopFile, Move!Then, MoveCore
    <3> QED
      BY <1>4, <2>1, <3>1 DEF Agreed, Ahead
  <2>5. CASE Move!End(o)
    <3>1. UNCHANGED <<rows, marks, loop>> /\ at[o] = "end" /\ at'[o] = "out"
      BY <1>1, <2>5 DEF Move!End, Move!Then, Move!records, MoveCore
    <3> QED
      BY <1>4, <2>1, <3>1 DEF Agreed
  <2>6. CASE Move!Begin(o) \/ Move!Files(o) \/ Move!Point(o) \/ Move!Die(o)
    <3>1. /\ UNCHANGED <<rows, marks, loop>> /\ at'[o] \notin {"state", "loopfile", "end"}
          /\ moveMarker' \/ moveMarker' = moveMarker
      BY <1>1, <2>6 DEF Move!Begin, Move!Files, Move!Point, Move!Die, Move!Then, Move!records, MoveCore
    <3> QED
      BY <1>1, <1>4, <2>1, <3>1 DEF Agreed, Ahead
  <2> QED
    BY <1>5, <2>2, <2>3, <2>4, <2>5, <2>6 DEF Move!Migrate, Move!Raise
<1>6. ASSUME NEW a \in Actor, Move!Write(a) PROVE Marked' /\ Known' /\ \A p \in Operator : Placed(p)'
  <2>1. /\ UNCHANGED <<loop, at>> /\ ~moveMarker /\ acting[a].turn \in Turn
        /\ marks' = marks \cup {[name |-> loop, turn |-> acting[a].turn]}
        /\ \/ rows' = rows
           \/ rows' = rows \cup {[name |-> loop, turn |-> acting[a].turn, state |-> "pending"]}
        /\ \A o \in Operator : at[o] = "out"
    BY <1>1, <1>6 DEF MoveCore, Move!Write
  <2>2. Agreed'
    BY <1>1, <2>1 DEF Agreed, Named
  <2>3. Marked'
    BY <1>1, <1>4, <2>1
  <2> QED
    BY <2>1, <2>2, <2>3
<1>7. ASSUME NEW r \in rows, Move!Claim(r) \/ Move!Finish(r) PROVE Marked' /\ Known' /\ \A p \in Operator : Placed(p)'
  <2>1. UNCHANGED <<marks, loop, at, moveMarker, renamed>> /\ (RowGoesOn("active") \/ RowGoesOn("done"))
    BY <1>7 DEF Move!Claim, Move!Finish, RowGoesOn
  <2>2. (Agreed => Agreed') /\ (Ahead => Ahead')
    BY <1>1, <2>1, RowNames DEF Agreed, Ahead, Move!Name
  <2> QED
    BY <1>1, <1>4, <2>1, <2>2
<1>8. ASSUME UNCHANGED <<rows, marks, loop, at, moveMarker>>, renamed' = renamed \/ renamed'
      PROVE  Marked' /\ Known' /\ \A p \in Operator : Placed(p)'
  BY <1>1, <1>4, <1>8 DEF Agreed, Ahead
<1> QED
  BY <1>5, <1>6, <1>7, <1>8 DEF Move!Next, Move!Rename, Move!Act, Move!records

\* A run is claimed behind no marker: of the loop's own name, with its state at hand.
LEMMA ClaimStep == MoveInv /\ Move!Next => Move!ClaimAgrees
<1> SUFFICES ASSUME MoveInv, Move!Next, NEW r \in rows, r.state = "pending", [r EXCEPT !.state = "active"] \in rows'
             PROVE  points \in dir /\ \A m \in marks : m.name = r.name
  BY DEF Move!ClaimAgrees
<1>1. MoveCore /\ DirInv /\ NamesInv /\ OneRow /\ rows \subseteq Move!Row
  BY DEF MoveInv, MoveCore, NamesInv
<1>2. PICK x \in rows' : x = [r EXCEPT !.state = "active"]
  OBVIOUS
<1>3. x.turn = r.turn /\ x.state = "active"
  BY <1>1, <1>2, RowKinds
<1>4. x \notin rows
  BY <1>1, <1>3 DEF OneRow
<1>5. \E q \in rows : Move!Claim(q)
  <2>1. ASSUME RowQueued PROVE FALSE
    BY <1>3, <1>4, <2>1 DEF RowQueued
  <2>2. ASSUME RowsRenamed PROVE FALSE
    <3>1. PICK q \in rows : x = FailingMove!To(q)
      BY <1>2, <2>2 DEF RowsRenamed
    <3>2. q.turn = r.turn /\ q.state = "active"
      BY <1>1, <1>3, <3>1, RowKinds
    <3> QED
      BY <1>1, <3>2 DEF OneRow
  <2>3. ASSUME RowGoesOn("done") PROVE FALSE
    <3>1. PICK q \in rows : rows' = (rows \ {q}) \cup {[q EXCEPT !.state = "done"]}
      BY <2>3 DEF RowGoesOn
    <3>2. [q EXCEPT !.state = "done"].state = "done"
      BY <1>1, RowKinds
    <3> QED
      BY <1>3, <1>4, <3>1, <3>2
  <2>4. rows' # rows
    BY <1>4
  <2>5. ASSUME NEW q \in rows, Move!Finish(q) PROVE RowGoesOn("done")
    BY <2>5 DEF Move!Finish, RowGoesOn
  <2>6. ASSUME NEW a \in Actor, Move!Write(a) PROVE rows' = rows \/ RowQueued
    BY <2>6 DEF Move!Write, RowQueued
  <2>7. ASSUME NEW o \in Operator, Move!Migrate(o) PROVE rows' = rows \/ RowsRenamed
    BY <2>7 DEF Move!Migrate, Move!Begin, Move!Files, Move!Point, Move!Ledger, Move!MoveState, Move!LoopFile,
       Move!End, Move!Die, Move!Raise, Move!records, RowsRenamed, Move!To, FailingMove!To
  <2> QED
    BY <2>1, <2>2, <2>3, <2>4, <2>5, <2>6, <2>7 DEF Move!Next, Move!Rename, Move!Act, Move!records
<1> QED
  BY <1>1, <1>5 DEF Move!Claim, Move!Paused, DirInv, NamesInv, Agreed, Named, MoveCore

\* At any time: what the invariant says of the names and the directory is what the property says.
LEMMA MoveSays == MoveInv => Move!NothingStranded /\ Move!OneState /\ Move!OneTurn
<1> SUFFICES ASSUME MoveInv PROVE Move!NothingStranded /\ Move!OneState /\ Move!OneTurn
  OBVIOUS
<1>1. Move!NothingStranded
  BY DEF MoveInv, NamesInv, Agreed, Ahead, Named, Move!NothingStranded
<1>2. Move!OneState
  <2>1. dir = {"old"} \/ dir = {"new"}
    BY DEF MoveInv, DirInv
  <2>2. Cardinality(dir) = 1
    BY <2>1, FS_Singleton
  <2> QED
    BY <2>2 DEF Move!OneState, Move!Cardinality, Cardinality
<1>3. Move!OneTurn
  BY DEF MoveInv, NamesInv, OneRow, Move!OneTurn, Move!Clash
<1> QED
  BY <1>1, <1>2, <1>3

\* Where no gate is past its look at the marker when a migrate starts (Overlap is FALSE:
\* migrate.py:116 takes the marker without waiting for one): a move to the new name of a repository,
\* whenever it dies and whoever takes it up, leaves one state directory, nothing under the old name
\* once the loop has the new one, and one row for each turn, and what is claimed meanwhile has the
\* name and the state of the loop.  Of a move that may also raise (MayRaise, failing_move) only
\* that the loop still finds its rows.
THEOREM StateMovesHolds == PartSpec => StateMoves
<1> DEFINE Moved == (part = "move" => MoveInv) /\ (part = "failing_move" => FailingInv)
<1>1. PartInit => Moved
  BY MoveStart DEF PartInit
<1>2. Moved /\ [PartNext]_partVars => Moved' /\ [part = "move" => Move!ClaimAgrees]_moveVars
  <2> SUFFICES ASSUME Moved, [PartNext]_partVars
               PROVE  Moved' /\ [part = "move" => Move!ClaimAgrees]_moveVars
    OBVIOUS
  <2>1. CASE part = "move" /\ Move!Next /\ part' = part
    <3>1. MoveCore' /\ DirInv' /\ NamesInv' /\ Move!ClaimAgrees
      BY <2>1, MoveIsFailing, MoveCoreStep, DirStep, NamesStep, ClaimStep DEF MoveInv
    <3> QED
      BY <2>1, <3>1 DEF MoveInv
  <2>2. CASE part = "failing_move" /\ FailingMove!Next /\ part' = part
    BY <2>2, FailingStep
  <2>3. CASE part' = part /\ UNCHANGED moveVars
    BY <2>3 DEF moveVars, MoveInv, FailingInv, MoveCore, DirInv, NamesInv, OneRow, Agreed, Ahead, Named
  <2> QED
    BY <2>1, <2>2, <2>3 DEF PartNext, partVars
<1>3. Moved => /\ part = "move" => Move!NothingStranded /\ Move!OneState /\ Move!OneTurn
               /\ part = "failing_move" => FailingMove!RowsFound
  BY MoveSays DEF FailingInv, FailingMove!RowsFound, Named
<1> QED
  BY <1>1, <1>2, <1>3, PTL DEF PartSpec, StateMoves
=============================================================================
