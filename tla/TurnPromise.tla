----------------------------- MODULE TurnPromise -----------------------------
(***************************************************************************)
(* What the run ledger promises about its turns, without workers, leases,  *)
(* receipts or intents: one turn of a pull request at a time, one write of *)
(* a turn at most, no turn started again after it wrote, and an end that   *)
(* is final.  RunLedger implements it; other parts of the system (the      *)
(* operator's notices) build on it.                                        *)
(*                                                                         *)
(* life: absent; queued (pending or waiting); working (claimed, launching  *)
(* or running); held (uncertain); and the ends, where `settled' is failed  *)
(* and reconciled by an operator.  wrote: the turns that wrote to GitHub.  *)
(* One sweep may move many turns, so a move relates whole functions.       *)
(***************************************************************************)
CONSTANTS Run, PrOf

VARIABLES life, wrote

Life == {"absent", "queued", "working", "held", "succeeded", "failed", "cancelled", "settled"}

\* Where a turn may go from each life.
Successor(l) ==
  CASE l = "absent" -> {"queued"}
    [] l = "queued" -> {"working", "failed", "cancelled"}
    [] l = "working" -> {"queued", "held", "succeeded", "failed", "cancelled"}
    [] l = "held" -> {"queued", "succeeded", "failed", "cancelled", "settled"}
    [] l \in {"failed", "cancelled"} -> {"queued"}
    [] OTHER -> {}

Busy(r) == life[r] \in {"working", "held"}

Init ==
  /\ life = [r \in Run |-> "absent"]
  /\ wrote = {}

\* Nothing that wrote is queued again; a turn begins only while its pull request is free.
Moves(r) ==
  /\ life'[r] \in Successor(life[r])
  /\ life'[r] = "queued" => r \notin wrote
  /\ life'[r] = "working" => \A q \in Run : PrOf[q] = PrOf[r] => ~Busy(q) /\ (Busy(q)' => q = r)

Move ==
  /\ life' \in [Run -> Life]
  /\ \A r \in Run : life'[r] # life[r] => Moves(r)
  /\ UNCHANGED wrote

\* The one write of a turn, while it is working or held.
Write(r) ==
  /\ Busy(r) /\ r \notin wrote
  /\ wrote' = wrote \cup {r}
  /\ UNCHANGED life

Next == Move \/ \E r \in Run : Write(r)

Spec == Init /\ [][Next]_<<life, wrote>>
=============================================================================
