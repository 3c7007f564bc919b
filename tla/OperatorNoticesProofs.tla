------------------------ MODULE OperatorNoticesProofs ------------------------
(***************************************************************************)
(* NeverReplayed and NoticeAfterComment for any number of runs and sweeps, *)
(* wherever sweeps are killed.  The invariant: a row has one sender at     *)
(* most, a row that is pending or unwritten was never sent, and a turn     *)
(* whose comment is settled, or that ended, never posts again.             *)
(***************************************************************************)
EXTENDS OperatorNotices, TLAPS

\* The tables whose rows are never made anew.
Once == {"ruling", "dispute"}

Holds(s, k, r) == pc[s] \in {"sending", "acked"} /\ kind[s] = k /\ item[s] = r

\* A turn that wrote is never queued again; only a turn that wrote has a row or a comment.
Wrote ==
  \A r \in Run :
    /\ r \in wrote => life[r] \notin {"absent", "queued"}
    /\ r \notin wrote => comment[r] = "none" /\ \A k \in Once : notice[k][r] = "none"

\* A sweep works on a row exactly while it sends and records it.
Working == \A s \in Sender : pc[s] \in {"sending", "acked"} => item[s] \in Run

\* A row that may still be claimed was never sent.
Unsent ==
  \A k \in Once, r \in Run :
    /\ copies[k][r] <= 1
    /\ notice[k][r] \in {"none", "pending"} => copies[k][r] = 0

\* A row has one sender at most, stays `sending' while it has one, and was not sent before.
OneSender ==
  \A s \in Sender, k \in Once, r \in Run : Holds(s, k, r) =>
    /\ notice[k][r] = "sending"
    /\ pc[s] = "sending" => copies[k][r] = 0
    /\ \A t \in Sender : Holds(t, k, r) => t = s

Posting(r) == comment[r] = "posting" /\ Turn!Busy(r)

\* What a sweep selected from the disputes, or is sending, is posted no more.
Posted ==
  \A s \in Sender : kind[s] = "dispute" =>
    /\ \A r \in batch[s] : r \in wrote /\ ~Posting(r)
    /\ pc[s] \in {"sending", "acked"} => item[s] \in wrote /\ ~Posting(item[s])

Inv == TypeOK /\ Wrote /\ Working /\ Unsent /\ OneSender /\ Posted

-----------------------------------------------------------------------------
LEMMA InitInv == Init => Inv
  BY NoticesAssumption, SMTT(30)
     DEF Init, Inv, TypeOK, Wrote, Working, Unsent, OneSender, Posted, Holds, Posting, Once,
         Turn!Init, Turn!Life, Kind, NoticeState, CommentState, Step

\* What forgetting alerts leaves alone.
LEMMA ForgetKeeps ==
  ASSUME TypeOK, NEW R \in SUBSET Run, ForgetAlerts(R)
  PROVE  /\ notice' \in [Kind -> [Run -> NoticeState]]
         /\ copies' \in [Kind -> [Run -> Nat]]
         /\ fresh' \subseteq Sender
         /\ \A k \in Once : notice'[k] = notice[k] /\ copies'[k] = copies[k]
  BY SMTT(30) DEF TypeOK, ForgetAlerts, Kind, Once, NoticeState

\* A turn that wrote and is not busy never becomes busy again.
LEMMA MovesKeep ==
  ASSUME TypeOK, Wrote, Turn!Move, NEW r \in wrote
  PROVE  /\ life'[r] \notin {"absent", "queued"}
         /\ Turn!Busy(r)' => Turn!Busy(r)
  <1>1. r \in Run /\ life[r] \in Turn!Life \ {"absent", "queued"}
    BY DEF TypeOK, Wrote
  <1>2. life'[r] # life[r] => life'[r] \in Turn!Successor(life[r]) /\ life'[r] # "queued"
    BY <1>1 DEF Turn!Move, Turn!Moves
  <1> QED BY <1>1, <1>2, SMTT(30) DEF Turn!Successor, Turn!Busy, Turn!Life

\* A write by a turn that runs.
LEMMA WriteKeeps ==
  ASSUME TypeOK, NEW r \in Run, Turn!Write(r)
  PROVE  r \notin wrote /\ wrote' = wrote \cup {r} /\ life' = life /\ Turn!Busy(r)
  BY DEF Turn!Write

-----------------------------------------------------------------------------
LEMMA TurnsKeep == Inv /\ TurnStep => Inv'
  <1> SUFFICES ASSUME Inv, TurnStep PROVE Inv'
    OBVIOUS
  <1> USE NoticesAssumption
  <1>1. CASE MoveTurns
    <2> DEFINE R == {r \in Run : life[r] \in {"failed", "cancelled"} /\ life'[r] = "queued"}
    <2>1. Turn!Move /\ ForgetAlerts(R) /\ UNCHANGED <<comment, sweepVars>>
      BY <1>1 DEF MoveTurns
    <2>2. /\ notice' \in [Kind -> [Run -> NoticeState]] /\ copies' \in [Kind -> [Run -> Nat]]
          /\ fresh' \subseteq Sender
          /\ \A k \in Once : notice'[k] = notice[k] /\ copies'[k] = copies[k]
      <3>1. R \in SUBSET Run
        OBVIOUS
      <3> QED BY <2>1, <3>1, ForgetKeeps DEF Inv
    <2>3. life' \in [Run -> Turn!Life] /\ wrote' = wrote
      BY <2>1 DEF Turn!Move
    <2>4. \A r \in wrote : life'[r] \notin {"absent", "queued"} /\ (Posting(r)' => Posting(r))
      BY <2>1, MovesKeep DEF Inv, Posting, sweepVars
    <2> HIDE DEF R
    <2> QED BY <2>1, <2>2, <2>3, <2>4, SMTT(30)
          DEF Inv, TypeOK, Wrote, Working, Unsent, OneSender, Posted, Holds, sweepVars
  <1>2. ASSUME NEW r \in Run, RetryWaiting(r) PROVE Inv'
    <2>1. ForgetAlerts({r}) /\ UNCHANGED <<life, wrote, comment, sweepVars>>
      BY <1>2 DEF RetryWaiting, turnVars
    <2>2. /\ notice' \in [Kind -> [Run -> NoticeState]] /\ copies' \in [Kind -> [Run -> Nat]]
          /\ fresh' \subseteq Sender
          /\ \A k \in Once : notice'[k] = notice[k] /\ copies'[k] = copies[k]
      <3>1. {r} \in SUBSET Run
        OBVIOUS
      <3> QED BY <2>1, <3>1, ForgetKeeps DEF Inv
    <2> QED BY <2>1, <2>2, SMTT(30)
          DEF Inv, TypeOK, Wrote, Working, Unsent, OneSender, Posted, Posting, Holds, sweepVars,
              Turn!Busy
  <1>3. ASSUME NEW r \in Run, RecordRuling(r) \/ RecordDispute(r) PROVE Inv'
    <2>1. /\ r \notin wrote /\ wrote' = wrote \cup {r} /\ life' = life /\ Turn!Busy(r)
          /\ UNCHANGED <<sweepVars, fresh, copies>>
      BY <1>3, WriteKeeps DEF RecordRuling, RecordDispute, Inv
    <2>2. PICK k \in Once : notice' = [notice EXCEPT ![k][r] = "pending"]
      BY <1>3 DEF RecordRuling, RecordDispute, Once
    <2>3. comment' = comment \/ comment' = [comment EXCEPT ![r] = "posting"]
      BY <1>3 DEF RecordRuling, RecordDispute
    <2>4. \A s \in Sender, j \in Once : ~Holds(s, j, r)
      BY <2>1 DEF Inv, Wrote, OneSender
    <2>5. TypeOK'
      BY <2>1, <2>2, <2>3, SMTT(30) DEF Inv, TypeOK, sweepVars, Kind, Once, NoticeState, CommentState
    <2>6. Wrote'
      BY <2>1, <2>2, <2>3, SMTT(30) DEF Inv, TypeOK, Wrote, Turn!Busy, Kind, Once
    <2>7. Working' /\ Unsent'
      BY <2>1, <2>2, SMTT(30) DEF Inv, TypeOK, Wrote, Working, Unsent, sweepVars, Kind, Once
    <2>8. OneSender'
      BY <2>1, <2>2, <2>4, SMTT(30) DEF Inv, TypeOK, OneSender, Holds, sweepVars, Kind, Once
    <2>9. Posted'
      BY <2>1, <2>3, SMTT(30) DEF Inv, TypeOK, Posted, Posting, Turn!Busy, sweepVars
    <2> QED BY <2>5, <2>6, <2>7, <2>8, <2>9 DEF Inv
  <1>4. ASSUME NEW r \in Run, SettleComment(r) PROVE Inv'
    <2>1. /\ comment[r] = "posting" /\ comment' = [comment EXCEPT ![r] = "settled"]
          /\ UNCHANGED <<life, wrote, notice, sweepVars, fresh, copies>>
      BY <1>4 DEF SettleComment, turnVars
    <2> QED BY <2>1, SMTT(30)
          DEF Inv, TypeOK, Wrote, Working, Unsent, OneSender, Posted, Posting, Holds, sweepVars,
              Turn!Busy, CommentState
  <1> QED BY <1>1, <1>2, <1>3, <1>4 DEF TurnStep

-----------------------------------------------------------------------------
\* Steps of a sweep that change no row, comment or count.
LEMMA QuietKeeps ==
  ASSUME Inv, NEW s \in Sender, Select(s) \/ Advance(s) \/ (\E r \in Run : Skip(s, r))
  PROVE  Inv'
  <1>1. UNCHANGED <<life, wrote, notice, comment, item, fresh, copies>>
    BY DEF Select, Advance, Skip, turnVars
  <1>2. CASE Select(s)
    <2>1. kind[s] = "dispute" => \A r \in batch'[s] : r \in wrote /\ ~Posting(r)
      BY <1>2 DEF Select, Inv, TypeOK, Wrote, Selected, Posting, Once
    <2> QED BY <1>1, <1>2, <2>1, SMTT(30)
          DEF Select, Inv, TypeOK, Wrote, Working, Unsent, OneSender, Posted, Posting, Holds,
              Turn!Busy, Step, Kind
  <1>3. CASE Advance(s)
    BY <1>1, <1>3, SMTT(30)
       DEF Advance, After, Inv, TypeOK, Wrote, Working, Unsent, OneSender, Posted, Posting, Holds,
           Turn!Busy, Step, Kind
  <1>4. ASSUME NEW r \in Run, Skip(s, r) PROVE Inv'
    BY <1>1, <1>4, SMTT(30)
       DEF Skip, Inv, TypeOK, Wrote, Working, Unsent, OneSender, Posted, Posting, Holds, Turn!Busy
  <1> QED BY <1>2, <1>3, <1>4

\* A sweep begins, or finds that an alert has nothing to report any more.
LEMMA AlertKeeps ==
  ASSUME Inv, NEW s \in Sender, Begin(s) \/ (\E r \in Run : Resolve(s, r))
  PROVE  Inv'
  <1>1. /\ \A k \in Once : notice'[k] = notice[k]
        /\ notice' \in [Kind -> [Run -> NoticeState]]
        /\ UNCHANGED <<life, wrote, comment, item, fresh, copies>>
    BY SMTT(30) DEF Begin, Resolve, turnVars, Inv, TypeOK, Kind, Once, NoticeState
  <1>2. CASE Begin(s)
    BY <1>1, <1>2, SMTT(30)
       DEF Begin, Inv, TypeOK, Wrote, Working, Unsent, OneSender, Posted, Posting, Holds,
           Turn!Busy, Step, Kind, Once
  <1>3. ASSUME NEW r \in Run, Resolve(s, r) PROVE Inv'
    BY <1>1, <1>3, SMTT(30)
       DEF Resolve, Inv, TypeOK, Wrote, Working, Unsent, OneSender, Posted, Posting, Holds, Turn!Busy
  <1> QED BY <1>2, <1>3

LEMMA ClaimKeeps ==
  ASSUME Inv, NEW s \in Sender, NEW r \in Run, Claim(s, r)
  PROVE  Inv'
  <1>1. /\ pc[s] = "next" /\ r \in batch[s] /\ notice[kind[s]][r] = "pending"
        /\ notice' = [notice EXCEPT ![kind[s]][r] = "sending"]
        /\ pc' = [pc EXCEPT ![s] = "sending"] /\ item' = [item EXCEPT ![s] = r]
        /\ batch' = [batch EXCEPT ![s] = @ \ {r}] /\ fresh' = fresh \cup {s}
        /\ UNCHANGED <<life, wrote, comment, kind, copies>>
    BY DEF Claim, turnVars
  <1>2. \A t \in Sender, k \in Once : Holds(t, k, r) => k # kind[s]
    BY <1>1 DEF Inv, OneSender
  <1>3. TypeOK' /\ Working'
    BY <1>1, SMTT(30) DEF Inv, TypeOK, Working, Step, NoticeState
  <1>4. Wrote' /\ Unsent'
    BY <1>1, SMTT(30) DEF Inv, TypeOK, Wrote, Unsent, Once, Kind
  <1>5. OneSender'
    BY <1>1, <1>2, SMTT(30) DEF Inv, TypeOK, Unsent, OneSender, Holds, Once, Kind
  <1>6. Posted'
    BY <1>1, SMTT(30) DEF Inv, TypeOK, Posted, Posting, Turn!Busy
  <1> QED BY <1>3, <1>4, <1>5, <1>6 DEF Inv

LEMMA DeliverKeeps ==
  ASSUME Inv, NEW s \in Sender, Deliver(s)
  PROVE  Inv'
  <1> USE NoticesAssumption
  <1>1. /\ pc[s] = "sending" /\ pc' = [pc EXCEPT ![s] = "acked"]
        /\ UNCHANGED <<life, wrote, notice, comment, kind, batch, item, fresh>>
    BY DEF Deliver, turnVars
  <1>2. item[s] \in Run /\ kind[s] \in Kind
    BY <1>1 DEF Inv, TypeOK, Working
  <1>3. \/ copies' = copies
        \/ copies' = [copies EXCEPT ![kind[s]][item[s]] = @ + 1]
    BY DEF Deliver
  <1>4. \A k \in Once, r \in Run : copies'[k][r] # copies[k][r] => Holds(s, k, r) /\ copies'[k][r] = 1
    BY <1>1, <1>2, <1>3, SMTT(30) DEF Inv, TypeOK, OneSender, Holds, Once, Kind
  <1>5. TypeOK' /\ Working' /\ Wrote'
    BY <1>1, <1>2, <1>3, SMTT(30) DEF Inv, TypeOK, Working, Wrote, Step, Kind
  <1>6. Unsent'
    BY <1>1, <1>4, SMTT(30) DEF Inv, TypeOK, Unsent, OneSender
  <1>7. OneSender'
    BY <1>1, <1>4, SMTT(30) DEF Inv, TypeOK, OneSender, Holds
  <1>8. Posted'
    BY <1>1, SMTT(30) DEF Inv, TypeOK, Posted, Posting, Turn!Busy
  <1> QED BY <1>5, <1>6, <1>7, <1>8 DEF Inv

\* A sweep lets go of its row: it recorded the message, could not send it, or was killed.
LEMMA LeaveKeeps ==
  ASSUME Inv, NEW s \in Sender, Record(s) \/ Fail(s) \/ Crash(s)
  PROVE  Inv'
  <1> USE NoticesAssumption
  <1>1. /\ pc' \in [Sender -> Step] /\ pc'[s] \notin {"sending", "acked"}
        /\ \A t \in Sender \ {s} : pc'[t] = pc[t]
        /\ item' = [item EXCEPT ![s] = NoRun] /\ fresh' = fresh \ {s}
        /\ UNCHANGED <<life, wrote, comment, kind, copies>>
    BY SMTT(30) DEF Record, Fail, Crash, Leave, turnVars, Inv, TypeOK, Step
  <1>2. batch' = batch \/ batch' = [batch EXCEPT ![s] = {}]
    BY DEF Record, Fail, Crash
  <1>3. \/ notice' = notice
        \/ /\ item[s] \in Run /\ pc[s] = "acked"
           /\ notice' = [notice EXCEPT ![kind[s]][item[s]] = "delivered"]
        \/ /\ item[s] \in Run /\ pc[s] = "sending"
           /\ notice' = [notice EXCEPT ![kind[s]][item[s]] = "pending"]
    BY DEF Record, Fail, Crash, Settle, Inv, Working
  <1>4. \A k \in Once, r \in Run :
          notice'[k][r] # notice[k][r] =>
            /\ Holds(s, k, r)
            /\ notice'[k][r] = "pending" => copies[k][r] = 0
            /\ notice'[k][r] # "none"
    BY <1>3, SMTT(30) DEF Inv, TypeOK, OneSender, Holds, Once, Kind
  <1>5. TypeOK' /\ Working'
    <2>1. notice' \in [Kind -> [Run -> NoticeState]]
      <3>1. ASSUME NEW v \in {"delivered", "pending"}, notice' = [notice EXCEPT ![kind[s]][item[s]] = v]
            PROVE  notice' \in [Kind -> [Run -> NoticeState]]
        <4>1. v \in NoticeState /\ kind[s] \in Kind /\ notice[kind[s]] \in [Run -> NoticeState]
          BY DEF Inv, TypeOK, NoticeState
        <4>2. [notice[kind[s]] EXCEPT ![item[s]] = v] \in [Run -> NoticeState]
          BY <4>1
        <4> QED BY <3>1, <4>1, <4>2 DEF Inv, TypeOK
      <3> QED BY <1>3, <3>1 DEF Inv, TypeOK
    <2>2. batch' \in [Sender -> SUBSET Run]
      BY <1>2 DEF Inv, TypeOK
    <2>3. item' \in [Sender -> Run \cup {NoRun}] /\ fresh' \subseteq Sender
      BY <1>1 DEF Inv, TypeOK
    <2>4. TypeOK'
      BY <1>1, <2>1, <2>2, <2>3 DEF Inv, TypeOK
    <2> QED BY <1>1, <2>4, SMTT(30) DEF Inv, Working, TypeOK
  <1>6. Wrote'
    <2>1. \A r \in Run \ wrote, k \in Once : notice'[k][r] = notice[k][r]
      BY <1>4 DEF Inv, Wrote, OneSender
    <2> QED BY <1>1, <2>1 DEF Inv, Wrote
  <1>7. Unsent'
    BY <1>1, <1>4, SMTT(30) DEF Inv, TypeOK, Unsent
  <1>8. OneSender'
    BY <1>1, <1>4, SMTT(30) DEF Inv, TypeOK, OneSender, Holds
  <1>9. Posted'
    BY <1>1, <1>2, SMTT(30) DEF Inv, TypeOK, Posted, Posting, Turn!Busy
  <1> QED BY <1>5, <1>6, <1>7, <1>8, <1>9 DEF Inv

LEMMA StepInv == Inv /\ [Next]_vars => Inv'
  <1> SUFFICES ASSUME Inv, [Next]_vars PROVE Inv'
    OBVIOUS
  <1>1. CASE UNCHANGED vars
    BY <1>1, SMTT(30)
       DEF vars, turnVars, sweepVars, Inv, TypeOK, Wrote, Working, Unsent, OneSender, Posted,
           Posting, Holds, Turn!Busy
  <1>2. CASE TurnStep
    BY <1>2, TurnsKeep
  <1>3. ASSUME NEW s \in Sender, SweepStep(s) \/ Crash(s) PROVE Inv'
    BY <1>3, QuietKeeps, AlertKeeps, ClaimKeeps, DeliverKeeps, LeaveKeeps, Zenon DEF SweepStep
  <1> QED BY <1>1, <1>2, <1>3 DEF Next

LEMMA Invariance == Spec => []Inv
  BY InitInv, StepInv, PTL DEF Spec

-----------------------------------------------------------------------------
\* A ruling or a dispute is sent to the operator at most once (notify's rulings and
\* disputes), for any number of overlapping sweeps, killed anywhere.
THEOREM SentOnce == Spec => []NeverReplayed
  <1>1. Inv => NeverReplayed
    BY DEF Inv, Unsent, NeverReplayed, Once
  <1> QED BY <1>1, Invariance, PTL

\* No dispute is sent while its comment may still be posted (the NOT of notify's selection
\* of disputes), however long ago the row was selected.
THEOREM CommentLeads == Spec => []NoticeAfterComment
  <1>1. Inv => NoticeAfterComment
    BY DEF Inv, Posted, Posting, NoticeAfterComment
  <1> QED BY <1>1, Invariance, PTL
=============================================================================
