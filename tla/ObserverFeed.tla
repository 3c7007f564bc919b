------------------------------ MODULE ObserverFeed ------------------------------
(***************************************************************************)
(* The feed of notices to a person: a ledger of facts claimed before they  *)
(* are posted, digests that batch queued facts, receipts, the sweep's      *)
(* retry of what was certainly not sent, and a change of destination.      *)
(***************************************************************************)
EXTENDS Integers, FiniteSets, Sequences

CONSTANTS
  Fact,       \* transitions of the loop, each with its own ledger key
  Urgent,     \* the facts that are never batched
  Digest,     \* whether the loop batches (digest_min)
  Dest,       \* destinations (route, profile, deliver, host)
  Attempts,   \* MAX_ATTEMPTS
  Changes,    \* how many commands change the destination
  Overlap     \* whether a command runs while notices are claimed

ObserverFeedAssumption ==
  Urgent \subseteq Fact /\ Digest \in BOOLEAN /\ Overlap \in BOOLEAN
  /\ Attempts \in Nat \ {0} /\ Changes \in Nat

Notice(f) == <<f, "notice">>
Batch(f) == <<f, "digest">>      \* the digest whose oldest member is f
Key == Fact \X {"notice", "digest"}

VARIABLES
  entry,    \* the ledger: [Key -> [st, tries, batch]]
  order,    \* the facts that were queued, oldest first
  send,     \* the process that delivers a claim: [Key -> [at, by, to]]
  got,      \* how often a destination received a fact: [Fact -> [Dest -> 0..2]]
  bound,    \* the destination a fact was claimed for (a history variable)
  conf,     \* the loop's observer block: [on, dest, mute]
  cmd,      \* the command that changes it: [at, to]
  old,      \* facts whose receipt has expired
  changes   \* what is left of Changes

vars == <<entry, order, send, got, bound, conf, cmd, old, changes>>
rest == <<conf, cmd, changes>>

Status == {"none", "queued", "digesting", "pending", "delivered", "failed", "uncertain"}
NoEntry == [st |-> "none", tries |-> 0, batch |-> {}]
NoSend == [at |-> "out", by |-> "gate", to |-> CHOOSE d \in Dest : TRUE]

TypeOK ==
  /\ entry \in [Key -> [st : Status, tries : 0..Attempts, batch : SUBSET Fact]]
  /\ order \in Seq(Fact)
  /\ send \in [Key -> [at : {"out", "post", "ok", "unsent", "unsure"}, by : {"gate", "sweep"}, to : Dest]]
  /\ got \in [Fact -> [Dest -> 0..2]] /\ bound \in [Fact -> Dest]
  /\ conf \in [on : BOOLEAN, dest : Dest, mute : BOOLEAN]
  /\ cmd \in [at : {"out", "write"}, to : Dest] /\ old \subseteq Fact /\ changes \in 0..Changes

Init ==
  /\ entry = [k \in Key |-> NoEntry] /\ order = <<>> /\ send = [k \in Key |-> NoSend]
  /\ got = [f \in Fact |-> [d \in Dest |-> 0]] /\ \E d \in Dest :
       bound = [f \in Fact |-> d] /\ conf = [on |-> TRUE, dest |-> d, mute |-> FALSE]
                                  /\ cmd = [at |-> "out", to |-> d]
  /\ old = {} /\ changes = Changes

Configured == conf.on /\ ~conf.mute
With(st) == {k \in Key : entry[k].st = st}
\* _prune drops receipts older than RETENTION_S; which those are is up to the clock.
Expirable == With("delivered") \cup With("failed")
Pruned(X) == [k \in Key |-> IF k \in X THEN NoEntry ELSE entry[k]]
Expired(X) == old' = old \cup {f \in Fact : Notice(f) \in X}

-----------------------------------------------------------------------------
(* Claims. *)

Claims(f, X) ==
  /\ Configured /\ f \notin old /\ (Overlap \/ cmd.at = "out")
  /\ LET queued == Digest /\ f \notin Urgent IN
     /\ entry' = [Pruned(X) EXCEPT ![Notice(f)] = [NoEntry EXCEPT !.st = IF queued THEN "queued" ELSE "pending"]]
     /\ order' = IF queued THEN Append(order, f) ELSE order
     /\ send' = IF queued THEN send
                ELSE [send EXCEPT ![Notice(f)] = [at |-> "post", by |-> "gate", to |-> conf.dest]]
  /\ bound' = [bound EXCEPT ![f] = conf.dest] /\ Expired(X)
  /\ UNCHANGED <<got, rest>>
\* notify claims a fact that the ledger does not hold.
Notify(f, X) == entry[Notice(f)].st = "none" /\ Claims(f, X)

\* flush: every queued fact, in a digest keyed by the oldest, unless that digest is there already.
Queued == {f \in Fact : entry[Notice(f)].st = "queued"}
Oldest(i) == order[i] \in Queued /\ \A j \in 1 .. (i - 1) : order[j] \notin Queued
SweepFree == \A k \in Key : send[k].at # "out" => send[k].by # "sweep"
Flush(X) ==
  \E i \in DOMAIN order : LET head == Batch(order[i]) IN
  /\ Configured /\ SweepFree /\ Oldest(i) /\ (Overlap \/ cmd.at = "out")
  /\ Pruned(X)[head].st = "none"
  /\ entry' = [k \in Key |-> IF k = head THEN [st |-> "pending", tries |-> 0, batch |-> Queued]
                             ELSE IF \E f \in Queued : k = Notice(f) THEN [entry[k] EXCEPT !.st = "digesting"]
                             ELSE Pruned(X)[k]]
  /\ send' = [send EXCEPT ![head] = [at |-> "post", by |-> "sweep", to |-> conf.dest]]
  /\ Expired(X) /\ UNCHANGED <<order, got, bound, rest>>

-----------------------------------------------------------------------------
(* The POST and its receipt. *)

Members(k) == IF k[2] = "digest" THEN entry[k].batch ELSE {k[1]}
Arrives(k) == got' = [f \in Fact |-> IF f \in Members(k)
                                     THEN [got[f] EXCEPT ![send[k].to] = IF @ = 2 THEN 2 ELSE @ + 1] ELSE got[f]]
\* Any route may be missing or changed, and that of another destination is: then nothing is posted.
Post(k) ==
  /\ send[k].at = "post"
  /\ \/ send' = [send EXCEPT ![k].at = "unsent"] /\ UNCHANGED got
     \/ conf.on /\ send[k].to = conf.dest
        /\ \/ Arrives(k) /\ send' = [send EXCEPT ![k].at = "ok"]
           \/ Arrives(k) /\ send' = [send EXCEPT ![k].at = "unsure"]
           \/ UNCHANGED got /\ send' = [send EXCEPT ![k].at = "unsure"]
  /\ UNCHANGED <<entry, order, bound, old, rest>>

UnsureFails(k) == IF send[k].at = "ok" THEN "delivered" ELSE "failed"
Ended(k) == CASE send[k].at = "ok" -> "delivered" [] send[k].at = "unsure" -> "uncertain" [] OTHER -> "failed"
\* _receipt: a claim that is no longer pending keeps its status.
ReceiptAny(k) ==
  LET e == entry[k]  s == Ended(k) IN
  /\ send[k].at \in {"ok", "unsent", "unsure"} /\ send' = [send EXCEPT ![k] = NoSend]
  /\ entry' = [x \in Key |->
       IF x = k THEN [e EXCEPT !.st = s, !.tries = IF @ = Attempts THEN @ ELSE @ + 1]
       ELSE IF x[2] # "notice" \/ x[1] \notin e.batch \/ entry[x].st = "none" THEN entry[x]
       ELSE IF s = "delivered" THEN [entry[x] EXCEPT !.st = s]
       ELSE IF entry[x].st # "digesting" THEN entry[x]
       ELSE [entry[x] EXCEPT !.st = IF s = "failed" THEN "queued" ELSE s]]
  /\ UNCHANGED <<order, got, bound, old, rest>>
ReceiptLate(k) ==
  /\ send[k].at # "out" /\ send[k].at # "post" /\ entry[k].st # "pending" /\ send' = [send EXCEPT ![k] = NoSend]
  /\ UNCHANGED <<entry, order, got, bound, old, rest>>
Receipt(k) == (entry[k].st = "pending" /\ ReceiptAny(k)) \/ ReceiptLate(k)

\* A sender dies: a gate's with its one notice, the sweep with all it had to send.
DieGate(k) ==
  /\ send[k].at # "out" /\ send[k].by = "gate" /\ send' = [send EXCEPT ![k] = NoSend]
  /\ UNCHANGED <<entry, order, got, bound, old, rest>>
DieSweep ==
  /\ ~SweepFree /\ send' = [k \in Key |-> IF send[k].by = "sweep" THEN NoSend ELSE send[k]]
  /\ UNCHANGED <<entry, order, got, bound, old, rest>>

-----------------------------------------------------------------------------
(* retry: what certainly was not posted is sent again; a claim that is pending for too long has an *)
(* outcome nobody knows.                                                                           *)

Retryable == {k \in With("failed") : entry[k].tries < Attempts}
Stale(S) == {f \in Fact : \E k \in S : f \in entry[k].batch /\ entry[Notice(f)].st = "digesting"}
Retry(S, X) ==
  LET again == Retryable \ X IN
  /\ S \subseteq With("pending") /\ S \cup again # {}
  /\ Configured /\ SweepFree /\ (Overlap \/ cmd.at = "out")
  /\ entry' = [k \in Key |->
       IF k \in S THEN [entry[k] EXCEPT !.st = "uncertain"]
       ELSE IF \E f \in Stale(S) : k = Notice(f) THEN [entry[k] EXCEPT !.st = "uncertain"]
       ELSE IF k \in again THEN [entry[k] EXCEPT !.st = "pending"]
       ELSE Pruned(X)[k]]
  /\ send' = [k \in Key |-> IF k \in again THEN [at |-> "post", by |-> "sweep", to |-> conf.dest] ELSE send[k]]
  /\ Expired(X) /\ UNCHANGED <<order, got, bound, rest>>
\* The claims of senders that are gone are stale once their time is up.
RetryDead == \E X \in {{}} : LET S == {k \in With("pending") : send[k].at = "out"} IN S # {} /\ Retry(S, X)

-----------------------------------------------------------------------------
(* The operator's commands. *)

Unsettled == {k \in Key : entry[k].st \in {"queued", "digesting", "pending", "failed", "uncertain"}}
\* cmd_set: refused while a claim could still be sent to the old destination.
Check(d) ==
  /\ cmd.at = "out" /\ changes > 0 /\ changes' = changes - 1
  /\ d # conf.dest => Unsettled = {}
  /\ cmd' = [at |-> "write", to |-> d] /\ UNCHANGED <<entry, order, send, got, bound, conf, old>>
Write ==
  /\ cmd.at = "write" /\ cmd' = [cmd EXCEPT !.at = "out"]
  /\ conf' = [conf EXCEPT !.on = TRUE, !.dest = cmd.to]
  /\ UNCHANGED <<entry, order, send, got, bound, old, changes>>
\* --observer-disable keeps the former destination and the outbox.
Disable ==
  /\ cmd.at = "out" /\ conf.on /\ changes > 0 /\ changes' = changes - 1
  /\ conf' = [conf EXCEPT !.on = FALSE] /\ UNCHANGED <<entry, order, send, got, bound, cmd, old>>
Mute ==
  /\ cmd.at = "out" /\ changes > 0 /\ changes' = changes - 1
  /\ conf' = [conf EXCEPT !.mute = ~@] /\ UNCHANGED <<entry, order, send, got, bound, cmd, old>>

Send(k) == Post(k) \/ Receipt(k)
Next ==
  \/ \E X \in SUBSET Expirable : (\E f \in Fact : Notify(f, X)) \/ Flush(X)
                                 \/ \E S \in SUBSET With("pending") : Retry(S, X)
  \/ \E k \in Key : Send(k) \/ DieGate(k)
  \/ DieSweep \/ (\E d \in Dest : Check(d)) \/ Write \/ Disable \/ Mute

\* A sender goes on; the cron job runs sweeps, and one of them comes after a dead claim's time.
Spec == Init /\ [][Next]_vars /\ (\A k \in Key : WF_vars(Send(k))) /\ SF_vars(RetryDead)

-----------------------------------------------------------------------------
(* Properties. *)

\* No fact reaches the person twice: not through a retry, a digest after its notice, or two digests.
Once == \A f \in Fact, d \in Dest : got[f][d] < 2

\* The ledger says "delivered" only of what the person has received, whatever its batch went through.
DeliveredIsTrue == \A f \in Fact : entry[Notice(f)].st = "delivered" => \E d \in Dest : got[f][d] > 0

\* A fact counts as being digested exactly as long as one unanswered digest carries it.
Carried ==
  \A f \in Fact : entry[Notice(f)].st = "digesting"
                  => Cardinality({k \in With("pending") : k[2] = "digest" /\ f \in entry[k].batch}) = 1

\* A fact claimed for a destination is received there and nowhere else.
Addressed == \A f \in Fact, d \in Dest : got[f][d] > 0 => d = bound[f]

\* A digest that may have been accepted keeps its members: none of them waits in the queue.
Attached == \A k \in With("uncertain"), f \in Fact : f \in entry[k].batch => entry[Notice(f)].st # "queued"

\* A claim does not stay pending: it is delivered, certainly failed, or handed to the operator.
Unsettling(k) == entry[k].st = "pending" /\ Configured /\ changes = 0 /\ cmd.at = "out"
Settles == \A k \in Key : []<>~Unsettling(k)
=============================================================================
