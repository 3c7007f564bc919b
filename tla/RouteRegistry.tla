------------------------------ MODULE RouteRegistry ------------------------------
(***************************************************************************)
(* webhook_subscriptions.json, which the plugin shares with writers that   *)
(* take no lock: the plugin reads, edits and publishes it only if it is    *)
(* still what it read; a private record of the loop's routes lets every    *)
(* sweep put back what another writer erased or changed.                   *)
(***************************************************************************)
EXTENDS Integers, FiniteSets

CONSTANTS
  Route,      \* the names of the loop's routes
  Other,      \* names of routes that are not the loop's
  Native,     \* Hermes's own writers of the registry
  Ops,        \* how many commands of the operator there are
  Writes,     \* how many writes the native writers make
  Overlap     \* whether a command runs while a sweep heals

RouteRegistryAssumption ==
  Route \cap Other = {} /\ Ops \in Nat /\ Writes \in Nat /\ Overlap \in BOOLEAN

Name == Route \cup Other
None == 0          \* no entry
Foreign == -1      \* an entry that runs something else
Changed == -2      \* an entry of the plugin with a watched field changed
\* Any other entry is the plugin's; the number stands for its secret.

VARIABLES
  reg,       \* [Name -> its entry]
  ver,       \* the registry file's identity
  intent,    \* route-intent.json: [Route -> the recorded entry, None]
  on,        \* [Route -> whether the loop's config names it]
  minted,    \* secrets minted
  op,        \* the operator's command: [at, r, snap, ver]
  sweep,     \* the sweep's heal: [at, want, snap, ver]
  native,    \* [Native -> [on, snap]]
  ops, writes, \* what is left of the bounds
  dropped    \* routes whose removal has been completed and that nobody has written since

vars == <<reg, ver, intent, on, minted, op, sweep, native, ops, writes, dropped>>
bounds == <<ops, writes>>

Blank == [n \in Name |-> None]
Nothing == [r \in Route |-> None]
Entry == Int
TypeOK ==
  /\ reg \in [Name -> Entry] /\ ver \in Nat /\ intent \in [Route -> Entry] /\ on \in [Route -> BOOLEAN]
  /\ op \in [at : {"out", "edit", "publish", "record", "forget", "off"}, kind : {"install", "uninstall", "off"},
             r : Route, snap : [Name -> Entry], ver : Nat]
  /\ sweep \in [at : {"out", "read", "adopt", "snap", "publish"}, want : [Route -> Entry],
                snap : [Name -> Entry], ver : Nat]
  /\ native \in [Native -> [on : BOOLEAN, snap : [Name -> Entry]]]
  /\ minted \in Nat /\ ops \in 0..Ops /\ writes \in 0..Writes /\ dropped \subseteq Route

Init ==
  /\ on \in [Route -> BOOLEAN] /\ minted = 1
  /\ intent = [r \in Route |-> IF on[r] THEN 1 ELSE None]
  /\ reg = [n \in Name |-> IF n \in Route /\ on[n] THEN 1 ELSE IF n \in Other THEN Foreign ELSE None]
  /\ ver = 0 /\ op = [at |-> "out", kind |-> "off", r |-> CHOOSE r \in Route : TRUE, snap |-> Blank, ver |-> 0]
  /\ sweep = [at |-> "out", want |-> Nothing, snap |-> Blank, ver |-> 0]
  /\ native = [w \in Native |-> [on |-> FALSE, snap |-> Blank]]
  /\ ops = Ops /\ writes = Writes /\ dropped = {}

PublishOver(e, v) == reg' = e /\ ver' = ver + 1
\* _write_registry: published only over what was read.
Publish(e, v) ==
  IF v = ver THEN reg' = e /\ ver' = IF e = reg THEN ver ELSE ver + 1
  ELSE UNCHANGED <<reg, ver>>

-----------------------------------------------------------------------------
(* Writers that take no lock. *)

NativeRead(w) ==
  /\ ~native[w].on /\ writes > 0 /\ writes' = writes - 1
  /\ native' = [native EXCEPT ![w] = [on |-> TRUE, snap |-> reg]]
  /\ UNCHANGED <<reg, ver, intent, on, minted, op, sweep, ops, dropped>>
NativeWrite(w) ==
  /\ native[w].on /\ native' = [native EXCEPT ![w] = [on |-> FALSE, snap |-> Blank]]
  /\ \E n \in Name, e \in {None, Foreign, Changed} :
       /\ (e = Changed) => n \in Route /\ native[w].snap[n] > 0
       /\ PublishOver([native[w].snap EXCEPT ![n] = e], ver)
  /\ dropped' = {r \in dropped : reg'[r] = None}
  /\ UNCHANGED <<intent, on, minted, op, sweep, bounds>>

-----------------------------------------------------------------------------
(* The operator's commands. *)

Free == Overlap \/ sweep.at = "out"
Begin(kind, r, at) ==
  /\ op.at = "out" /\ ops > 0 /\ ops' = ops - 1 /\ Free
  /\ op' = [op EXCEPT !.at = at, !.kind = kind, !.r = r]

\* init, apply, triage on: the config, then the route, then the record.
Install(r) ==
  /\ ~on[r] \/ (reg[r] = None /\ intent[r] = None)      \* --recreate-routes
  /\ reg[r] # Foreign /\ Begin("install", r, "edit")
  /\ on' = [on EXCEPT ![r] = TRUE] /\ dropped' = dropped \ {r}
  /\ UNCHANGED <<reg, ver, intent, minted, sweep, native, writes>>
\* uninstall forgets first.
UninstallLate(r) ==
  /\ on[r] /\ Begin("uninstall", r, "edit")
  /\ UNCHANGED <<reg, ver, intent, on, minted, sweep, native, writes, dropped>>
Uninstall(r) ==
  /\ on[r] /\ Begin("uninstall", r, "edit") /\ intent' = [intent EXCEPT ![r] = None]
  /\ UNCHANGED <<reg, ver, on, minted, sweep, native, writes, dropped>>
\* triage off: the config, the route, then the record.
TurnOff(r) ==
  /\ on[r] /\ Begin("off", r, "edit") /\ on' = [on EXCEPT ![r] = FALSE]
  /\ UNCHANGED <<reg, ver, intent, minted, sweep, native, writes, dropped>>

\* _transact, under the plugin's own lock, which the sweep's edit takes as well.
OpEdit ==
  /\ op.at = "edit" /\ sweep.at # "publish"
  /\ op' = [op EXCEPT !.at = "publish", !.snap = reg, !.ver = ver]
  /\ UNCHANGED <<reg, ver, intent, on, minted, sweep, native, bounds, dropped>>
\* new_route keeps the secret of an entry it finds and mints one for a new entry.
Installed(e) == IF e > 0 THEN e ELSE minted + 1
OpPublish ==
  LET e == IF op.kind = "install" THEN Installed(op.snap[op.r]) ELSE None IN
  /\ op.at = "publish"
  /\ Publish([op.snap EXCEPT ![op.r] = e], op.ver)
  /\ IF op.ver = ver
     THEN /\ op' = [op EXCEPT !.at = CASE op.kind = "install" -> "record"
                                       [] op.kind = "uninstall" -> "off"
                                       [] OTHER -> "forget", !.snap = Blank]
          /\ minted' = IF e > minted THEN e ELSE minted
     ELSE op' = [op EXCEPT !.at = "edit", !.snap = Blank] /\ UNCHANGED minted
  /\ UNCHANGED <<intent, on, sweep, native, bounds, dropped>>

\* record_live reads back what the registry holds.
Record ==
  /\ op.at = "record" /\ op' = [op EXCEPT !.at = "out"]
  /\ intent' = IF reg[op.r] = None THEN intent ELSE [intent EXCEPT ![op.r] = reg[op.r]]
  /\ UNCHANGED <<reg, ver, on, minted, sweep, native, bounds, dropped>>
\* What a native writer has put back meanwhile has not been removed.
Gone == IF reg[op.r] = None THEN dropped \cup {op.r} ELSE dropped
Forget ==
  /\ op.at = "forget" /\ op' = [op EXCEPT !.at = "out"]
  /\ intent' = [intent EXCEPT ![op.r] = None] /\ dropped' = Gone
  /\ UNCHANGED <<reg, ver, on, minted, sweep, native, bounds>>
Off ==
  /\ op.at = "off" /\ op' = [op EXCEPT !.at = "out"]
  /\ on' \in {on, [on EXCEPT ![op.r] = FALSE]} /\ dropped' = Gone   \* --keep-config
  /\ UNCHANGED <<reg, ver, intent, minted, sweep, native, bounds>>

-----------------------------------------------------------------------------
(* heal: the record, the registry, adoption, and what has drifted. *)

SweepLoad ==
  /\ sweep.at = "out" /\ (Overlap \/ op.at = "out") /\ \E r \in Route : on[r]
  /\ sweep' = [sweep EXCEPT !.at = "read", !.want = [r \in Route |-> IF on[r] THEN intent[r] ELSE None]]
  /\ UNCHANGED <<reg, ver, intent, on, minted, op, native, bounds, dropped>>

\* A route of the loop with no record, whose gate and prompt prove that it is the plugin's.
Adoptable == {r \in Route : on[r] /\ sweep.want[r] = None /\ reg[r] > 0}
SweepRead ==
  /\ sweep.at = "read"
  /\ sweep' = [sweep EXCEPT !.at = "adopt", !.snap = reg,
                            !.want = [r \in Route |-> IF r \in Adoptable THEN reg[r] ELSE @[r]]]
  /\ UNCHANGED <<reg, ver, intent, on, minted, op, native, bounds, dropped>>

Drifted == {r \in Route : sweep.want[r] # None /\ sweep.snap[r] # sweep.want[r]}
SweepAdopt ==
  /\ sweep.at = "adopt"
  /\ intent' = [r \in Route |-> IF intent[r] = None /\ sweep.want[r] # None /\ sweep.snap[r] = sweep.want[r]
                                   /\ sweep.want[r] > 0
                                THEN sweep.want[r] ELSE intent[r]]
  /\ sweep' = [sweep EXCEPT !.at = IF Drifted = {} THEN "out" ELSE "snap", !.snap = Blank,
                            !.want = IF Drifted = {} THEN Nothing ELSE @]
  /\ UNCHANGED <<reg, ver, on, minted, op, native, bounds, dropped>>

SweepEdit ==
  /\ sweep.at = "snap" /\ op.at # "publish"
  /\ sweep' = [sweep EXCEPT !.at = "publish", !.snap = reg, !.ver = ver]
  /\ UNCHANGED <<reg, ver, intent, on, minted, op, native, bounds, dropped>>

\* heal_entries: what is missing or still the plugin's is restored, another's is reported.
RestoredOver(n) == IF n \in Route /\ sweep.want[n] # None THEN sweep.want[n] ELSE sweep.snap[n]
RestoredMissing(n) == IF n \in Route /\ sweep.want[n] # None /\ sweep.snap[n] = None THEN sweep.want[n] ELSE sweep.snap[n]
Restored(n) == IF n \in Route /\ sweep.want[n] # None /\ sweep.snap[n] # Foreign THEN sweep.want[n] ELSE sweep.snap[n]
SweepPublish ==
  /\ sweep.at = "publish" /\ Publish([n \in Name |-> Restored(n)], sweep.ver)
  /\ sweep' = IF sweep.ver = ver THEN [sweep EXCEPT !.at = "out", !.snap = Blank, !.want = Nothing, !.ver = 0]
              ELSE [sweep EXCEPT !.at = "snap", !.snap = Blank]
  /\ UNCHANGED <<intent, on, minted, op, native, bounds, dropped>>

Command == OpEdit \/ OpPublish \/ Record \/ Forget \/ Off
Heal == SweepLoad \/ SweepRead \/ SweepAdopt \/ SweepEdit \/ SweepPublish
Next ==
  \/ \E r \in Route : Install(r) \/ Uninstall(r) \/ TurnOff(r)
  \/ Command \/ Heal
  \/ \E w \in Native : NativeRead(w) \/ NativeWrite(w)

\* The cron job runs sweeps; a command and a native write under way go on.
Spec == Init /\ [][Next]_vars /\ WF_vars(Command) /\ WF_vars(Heal) /\ \A w \in Native : WF_vars(NativeWrite(w))

-----------------------------------------------------------------------------
(* Properties. *)

\* What another writer makes of a name that is not the loop's survives every write of the plugin.
OthersKept ==
  [][(OpPublish \/ SweepPublish) => \A n \in Other : reg'[n] = reg[n]]_vars

\* The heal takes over no name that another has taken.
ForeignKept == [][SweepPublish => \A r \in Route : reg[r] = Foreign => reg'[r] = Foreign]_vars

\* The loop's routes come back with the recorded secret, unless another holds the name or the
\* operator gives the route up.
Lost(r) == on[r] /\ intent[r] > 0 /\ reg[r] \notin {intent[r], Foreign}
Healed == \A r \in Route : []<>~Lost(r)

\* A route that the operator removed is not put back.
StaysRemoved == \A r \in Route : SweepPublish /\ r \in dropped /\ reg[r] = None => reg'[r] = None
RemovedStays == [][StaysRemoved]_vars
=============================================================================
