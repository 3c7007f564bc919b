------------------------------- MODULE LoopInstall -------------------------------
(***************************************************************************)
(* The commands that put a loop in place, move it and take it away: the    *)
(* loop's config, its routes in the registry, the record that heals them,  *)
(* and its hooks at GitHub, with failing calls, lost answers, rollbacks,   *)
(* crashes and the next command that meets what is left.                   *)
(***************************************************************************)
EXTENDS Integers, Sequences

CONSTANTS
  Seat,       \* the seats with a route and a repo hook
  Prof,       \* profiles; a route's URL carries its seat's profile
  MaxHook,    \* hooks GitHub ever creates for the repository
  Kinds,      \* the commands that are run
  Commands,   \* how many of them
  Faults      \* failing calls, lost answers, crashes and erased routes

NoProf == "none"
LoopInstallAssumption ==
  Seat # {} /\ NoProf \notin Prof /\ MaxHook \in Nat /\ Commands \in Nat /\ Faults \in Nat

Hook == 1..MaxHook
NoRoute == [prof |-> NoProf, sec |-> 0]
NoHook == [seat |-> CHOOSE s \in Seat : TRUE, prof |-> NoProf, sec |-> 0, on |-> FALSE]
NoConfig == [s \in Seat |-> NoProf]

VARIABLES
  settings,   \* the plugin's form: [Seat -> Prof]
  cfg,        \* the loop's config: [Seat -> its profile], NoConfig when there is no file
  route,      \* the registry: [Seat -> [prof, sec]]
  intent,     \* the record of what the plugin installed
  hook,       \* GitHub's hooks: [Hook -> [seat, prof, sec, on]]
  next,       \* the id of the next hook
  minted,     \* secrets minted
  cmd,        \* the command under way
  commands, faults

vars == <<settings, cfg, route, intent, hook, next, minted, cmd, commands, faults>>
bounds == <<commands, faults>>

Stage == {"config", "routes", "intent", "posts", "moves", "flips", "deletes", "unpost", "unmove", "unroute",
          "unintent", "unconfig"}
Outcome == {"ok", "warn", "failed", "dirty"}
Snapshot == [cfg |-> cfg, route |-> route, hook |-> hook, next |-> next]
Idle == [kind |-> "none", plan |-> <<>>, res |-> "ok", arm |-> FALSE, seats |-> {}, todo |-> {}, to |-> NoConfig,
         moves |-> {}, tried |-> {}, hooks |-> {}, snap |-> <<>>]

TypeOK ==
  /\ settings \in [Seat -> Prof] /\ cfg \in [Seat -> Prof \cup {NoProf}]
  /\ route \in [Seat -> [prof : Prof \cup {NoProf}, sec : Nat]] /\ intent \in [Seat -> [prof : Prof \cup {NoProf}, sec : Nat]]
  /\ hook \in [Hook -> [seat : Seat, prof : Prof \cup {NoProf}, sec : Nat, on : BOOLEAN]]
  /\ next \in 1..MaxHook+1 /\ minted \in Nat /\ commands \in 0..Commands /\ faults \in 0..Faults
  /\ cmd.kind \in Kinds \cup {"none"} /\ cmd.res \in Outcome /\ cmd.plan \in Seq(Stage)

Init ==
  /\ settings \in [Seat -> Prof] /\ cfg = NoConfig /\ route = [s \in Seat |-> NoRoute] /\ intent = route
  /\ hook = [h \in Hook |-> NoHook] /\ next = 1 /\ minted = 0 /\ cmd = Idle
  /\ commands = Commands /\ faults = Faults

-----------------------------------------------------------------------------
(* Which hooks are the loop's. *)

Live == {h \in Hook : hook[h].prof # NoProf}
Of(s) == {h \in Live : hook[h].seat = s}                       \* by the route's name in its URL
At(s, p) == {h \in Of(s) : hook[h].prof = p}
\* install_hook_urls: the registry's URL, whatever it binds, and the one the config gives the route.
Owned(c) == UNION {At(s, route[s].prof) \cup At(s, c[s]) : s \in Seat}
\* seat_route_target: the URL that wakes the seat, if the registry binds the seat's profile.
Target(s) == IF route[s].prof = cfg[s] THEN cfg[s] ELSE NoProf
Wakes(s) == At(s, Target(s))
Serves(h, s) == h \in Wakes(s) /\ hook[h].on /\ hook[h].sec = route[s].sec

Least(H) == CHOOSE h \in H : \A g \in H : h <= g
KeepOldest(H, p) == Least(H)
\* _keep_one: an active hook first, then one already there, then the oldest.
KeepOne(H, p) ==
  LET on == {h \in H : hook[h].on}     A == IF on # {} THEN on ELSE H
      there == {h \in A : hook[h].prof = p} IN
  Least(IF there # {} THEN there ELSE A)

-----------------------------------------------------------------------------
(* Commands: a preflight that reads, then a plan of stages. *)

Start(kind, c) ==
  /\ cmd.kind = "none" /\ commands > 0 /\ commands' = commands - 1 /\ kind \in Kinds
  /\ cmd' = [c EXCEPT !.kind = kind, !.snap = Snapshot]
  /\ UNCHANGED <<settings, cfg, route, intent, hook, next, minted, faults>>

\* init refuses while hooks of an earlier install post to the routes it would write.
InitOver(arm) ==
  /\ cfg = NoConfig
  /\ Start("init", [Idle EXCEPT !.plan = <<"config", "routes", "intent", "posts">>, !.arm = arm, !.to = settings,
                                !.seats = Seat, !.todo = Seat])
StartInit(arm) == Owned(settings) = {} /\ InitOver(arm)

Moved == {s \in Seat : cfg[s] # settings[s]}
Binds == {s \in Seat : route[s] # NoRoute /\ route[s].prof # settings[s]}
\* _hook_moves: a hook of a seat that moves must be where the config, the registry or the form has it.
Explained(s) == \A h \in Of(s) : hook[h].prof \in {cfg[s], settings[s]} \cup (IF s \in Binds THEN {route[s].prof} ELSE {})
Moves(S) == {[hook |-> KeepOne(Of(s), settings[s]), seat |-> s] : s \in {t \in S : Of(t) # {}}}
\* A push over a seat with several hooks names those it does not keep and does not report success.
Pushed(c) == [c EXCEPT !.res = IF \E s \in Seat : \E g, h \in Of(s) : g # h THEN "warn" ELSE "ok"]
StartApply ==
  /\ cfg # NoConfig /\ Moved \cup Binds # {} /\ \A s \in Moved : route[s] # NoRoute
  /\ \A s \in Seat : Explained(s)
  /\ Start("apply", Pushed([Idle EXCEPT !.plan = <<"routes", "moves", "config", "intent">>, !.to = settings, !.seats = Binds,
       !.todo = Binds, !.moves = {m \in Moves(Moved \cup Binds) : hook[m.hook].prof # settings[m.seat]}]))

Missing == {s \in Seat : route[s] = NoRoute}
StartRecreate ==
  /\ cfg # NoConfig /\ Missing # {} /\ settings = cfg
  /\ Start("recreate", Pushed([Idle EXCEPT !.plan = <<"routes", "moves", "intent">>, !.to = cfg, !.seats = Missing,
                                    !.todo = Missing, !.moves = Moves(Missing)]))

\* apply --hooks, once the routes are what the config says.
StartEnsure ==
  /\ cfg # NoConfig /\ cfg = settings /\ \A s \in Seat : route[s].prof = cfg[s]
  /\ Start("ensure", Pushed([Idle EXCEPT !.plan = <<"posts", "moves">>, !.to = cfg, !.todo = {s \in Seat : Of(s) = {}},
                                  !.moves = {m \in Moves(Seat) : hook[m.hook].prof # cfg[m.seat]}]))

\* Arming takes the hooks that wake a seat, pausing every hook of this install.
Flips(on) == IF on THEN UNION {Wakes(s) : s \in Seat} ELSE Owned(cfg)
StartArm(on) ==
  /\ cfg # NoConfig
  /\ Start(IF on THEN "arm" ELSE "pause", [Idle EXCEPT !.plan = <<"flips">>, !.arm = on, !.hooks = Flips(on)])

\* uninstall: deliveries stop first, the record is forgotten before the routes go, the config goes last.
StartUninstall ==
  /\ cfg # NoConfig
  /\ Start("uninstall", [Idle EXCEPT !.plan = <<"deletes", "unintent", "unroute", "unconfig">>, !.seats = Seat,
                                     !.hooks = Owned(cfg)])

-----------------------------------------------------------------------------
(* Stages. *)

In(stage) == cmd.plan # <<>> /\ cmd.plan[1] = stage
Onward == Tail(cmd.plan)
\* What a command undoes when a stage fails.
Undo(stage) ==
  CASE cmd.kind = "init" /\ stage = "posts" -> <<"unpost", "unroute", "unintent", "unconfig">>
    [] cmd.kind = "init" /\ stage # "posts" -> <<"unroute", "unconfig">>
    [] cmd.kind = "ensure" /\ stage = "posts" -> <<"unpost">>
    [] cmd.kind = "apply" -> <<"unmove", "unroute", "unconfig">>
    [] cmd.kind = "recreate" -> <<"unroute", "unintent">>
    [] OTHER -> <<>>
Fault == faults > 0 /\ faults' = faults - 1
Sound == UNCHANGED faults
Failed(c) == [c EXCEPT !.res = "failed", !.plan = Undo(cmd.plan[1])]

WriteConfig ==
  /\ In("config") /\ cfg' = cmd.to /\ cmd' = [cmd EXCEPT !.plan = Onward]
  /\ UNCHANGED <<settings, route, intent, hook, next, minted, bounds>>
\* new_route keeps the secret of the route it finds.
WriteRoute(s) ==
  /\ In("routes") /\ s \in cmd.todo
  /\ minted' = IF route[s].sec = 0 THEN minted + 1 ELSE minted
  /\ route' = [route EXCEPT ![s] = [prof |-> cmd.to[s], sec |-> IF @.sec = 0 THEN minted' ELSE @.sec]]
  /\ cmd' = [cmd EXCEPT !.todo = @ \ {s}]
  /\ UNCHANGED <<settings, cfg, intent, hook, next, bounds>>
RoutesDone ==
  /\ In("routes") /\ cmd.todo = {} /\ cmd' = [cmd EXCEPT !.plan = Onward, !.todo = IF cmd.kind = "init" THEN Seat ELSE {}]
  /\ UNCHANGED <<settings, cfg, route, intent, hook, next, minted, bounds>>
RecordIntent ==
  /\ In("intent") /\ intent' = [s \in Seat |-> IF s \in cmd.seats THEN route[s] ELSE intent[s]]
  /\ cmd' = [cmd EXCEPT !.plan = Onward]
  /\ UNCHANGED <<settings, cfg, route, hook, next, minted, bounds>>
WriteFails ==
  /\ \E stage \in {"routes", "intent"} : In(stage) /\ Fault /\ cmd' = Failed(cmd)
  /\ UNCHANGED <<settings, cfg, route, intent, hook, next, minted, commands>>

\* _install_hooks: a lost answer may have created the hook.
PostHook(s) ==
  LET made == [seat |-> s, prof |-> route[s].prof, sec |-> route[s].sec, on |-> cmd.arm] IN
  /\ In("posts") /\ s \in cmd.todo /\ next <= MaxHook
  /\ \/ hook' = [hook EXCEPT ![next] = made] /\ next' = next + 1 /\ Sound
        /\ cmd' = [cmd EXCEPT !.todo = @ \ {s}, !.hooks = @ \cup {next}]
     \/ hook' = [hook EXCEPT ![next] = made] /\ next' = next + 1 /\ Fault /\ cmd' = Failed(cmd)
     \/ UNCHANGED <<hook, next>> /\ Fault /\ cmd' = Failed(cmd)
  /\ UNCHANGED <<settings, cfg, route, intent, minted, commands>>
PostsDone ==
  /\ In("posts") /\ cmd.todo = {} /\ cmd' = [cmd EXCEPT !.plan = Onward]
  /\ UNCHANGED <<settings, cfg, route, intent, hook, next, minted, bounds>>

\* _patch_hook_url sends the whole config, secret included, and reads it back.
PatchedUrl(m, p) == [hook EXCEPT ![m.hook].prof = p]
Patched(m, p) == [hook EXCEPT ![m.hook].prof = p, ![m.hook].sec = route[m.seat].sec]
TriedLate(c, m) == c
Tried(c, m) == [c EXCEPT !.tried = @ \cup {m}]
MoveHook(m) ==
  LET c == [cmd EXCEPT !.moves = @ \ {m}] IN
  /\ In("moves") /\ m \in cmd.moves
  /\ \/ hook' = Patched(m, cmd.to[m.seat]) /\ cmd' = Tried(c, m) /\ Sound
     \/ (hook' = Patched(m, cmd.to[m.seat]) \/ UNCHANGED hook) /\ Fault /\ cmd' = Failed(Tried(c, m))
  /\ UNCHANGED <<settings, cfg, route, intent, next, minted, commands>>
MovesDone ==
  /\ In("moves") /\ cmd.moves = {} /\ cmd' = [cmd EXCEPT !.plan = Onward]
  /\ UNCHANGED <<settings, cfg, route, intent, hook, next, minted, bounds>>

FlipTrusted(h) ==
  LET c == [cmd EXCEPT !.hooks = @ \ {h}] IN
  /\ In("flips") /\ h \in cmd.hooks
  /\ \/ hook' = [hook EXCEPT ![h].on = cmd.arm] /\ cmd' = c /\ Sound
     \/ (hook' = [hook EXCEPT ![h].on = cmd.arm] \/ UNCHANGED hook) /\ Fault
        /\ cmd' = IF cmd.arm THEN [c EXCEPT !.res = "failed"] ELSE c
  /\ UNCHANGED <<settings, cfg, route, intent, next, minted, commands>>
\* _set_hooks: the PATCH may be lost, or stick without an answer; the state is what is read back.
FlipHook(h) ==
  LET c == [cmd EXCEPT !.hooks = @ \ {h}] IN
  /\ In("flips") /\ h \in cmd.hooks
  /\ \/ hook' = [hook EXCEPT ![h].on = cmd.arm] /\ cmd' = c /\ Sound
     \/ (hook' = [hook EXCEPT ![h].on = cmd.arm] \/ UNCHANGED hook) /\ Fault
        /\ cmd' = [c EXCEPT !.res = "failed"]
  /\ UNCHANGED <<settings, cfg, route, intent, next, minted, commands>>
ConfirmedSome == \E s \in Seat : Wakes(s) # {} /\ \A h \in Wakes(s) : hook[h].sec = route[s].sec
\* Every seat needs a hook; arming ends with a ping that a wrong secret fails.
Confirmed ==
  /\ \A s \in Seat : IF cmd.arm THEN Wakes(s) # {} ELSE At(s, route[s].prof) \cup At(s, cfg[s]) # {}
  /\ cmd.arm => \A s \in Seat : \A h \in Wakes(s) : hook[h].sec = route[s].sec
FlipsDone ==
  /\ In("flips") /\ cmd.hooks = {}
  /\ cmd' = [cmd EXCEPT !.plan = Onward, !.res = IF Confirmed THEN @ ELSE "failed"]
  /\ UNCHANGED <<settings, cfg, route, intent, hook, next, minted, bounds>>

DeleteHook(h) ==
  LET c == [cmd EXCEPT !.hooks = @ \ {h}] IN
  /\ In("deletes") /\ h \in cmd.hooks
  /\ \/ hook' = [hook EXCEPT ![h] = NoHook] /\ cmd' = c /\ Sound
     \/ (hook' = [hook EXCEPT ![h] = NoHook] \/ UNCHANGED hook) /\ Fault /\ cmd' = [c EXCEPT !.res = "failed"]
  /\ UNCHANGED <<settings, cfg, route, intent, next, minted, commands>>
DeletesDoneAnyway == cmd' = [cmd EXCEPT !.plan = Onward, !.res = "ok"]
\* The listing is read again: uninstall goes on only if none of its hooks is left.
DeletesGo == cmd' = [cmd EXCEPT !.plan = IF cmd.res = "ok" /\ Owned(cfg) = {} THEN Onward ELSE <<>>,
                                !.res = IF Owned(cfg) = {} THEN @ ELSE "failed"]
DeletesDone ==
  /\ In("deletes") /\ cmd.hooks = {} /\ DeletesGo
  /\ UNCHANGED <<settings, cfg, route, intent, hook, next, minted, bounds>>

-----------------------------------------------------------------------------
(* Undoing. Each step is tried, and one that fails leaves the outcome "dirty". *)

Dirty(c) == [c EXCEPT !.res = "dirty"]
Done == [cmd EXCEPT !.plan = Onward]
\* What the listing shows that the baseline did not; a DELETE or the listing may fail.
Unpost ==
  /\ In("unpost")
  /\ \/ hook' = [h \in Hook |-> IF h >= cmd.snap.next THEN NoHook ELSE hook[h]] /\ cmd' = Done /\ Sound
     \/ Fault /\ UNCHANGED hook /\ cmd' = Dirty(Done)
  /\ UNCHANGED <<settings, cfg, route, intent, next, minted, commands>>
Unmove ==
  /\ In("unmove")
  /\ \/ hook' = [h \in Hook |-> IF \E m \in cmd.tried : m.hook = h THEN cmd.snap.hook[h] ELSE hook[h]]
        /\ cmd' = Done /\ Sound
     \/ Fault /\ UNCHANGED hook /\ cmd' = Dirty(Done)
  /\ UNCHANGED <<settings, cfg, route, intent, next, minted, commands>>
Unroute ==
  /\ In("unroute")
  /\ \/ /\ route' = [s \in Seat |-> IF s \notin cmd.seats THEN route[s]
                                    ELSE IF cmd.kind \in {"recreate", "uninstall"} THEN NoRoute ELSE cmd.snap.route[s]]
        /\ cmd' = Done /\ Sound
     \/ Fault /\ UNCHANGED route /\ cmd' = IF cmd.kind = "uninstall" THEN [cmd EXCEPT !.plan = <<>>, !.res = "failed"]
                                          ELSE Dirty(Done)
  /\ UNCHANGED <<settings, cfg, intent, hook, next, minted, commands>>
Unintent ==
  /\ In("unintent") /\ intent' = [s \in Seat |-> IF s \in cmd.seats THEN NoRoute ELSE intent[s]] /\ cmd' = Done
  /\ UNCHANGED <<settings, cfg, route, hook, next, minted, bounds>>
Unconfig ==
  /\ In("unconfig") /\ cmd' = Done
  /\ cfg' = IF cmd.kind = "uninstall" THEN NoConfig ELSE cmd.snap.cfg
  /\ UNCHANGED <<settings, route, intent, hook, next, minted, bounds>>

Finish ==
  /\ cmd.kind # "none" /\ cmd.plan = <<>> /\ cmd' = Idle
  /\ UNCHANGED <<settings, cfg, route, intent, hook, next, minted, bounds>>
Crash ==
  /\ cmd.kind # "none" /\ Fault /\ cmd' = Idle
  /\ UNCHANGED <<settings, cfg, route, intent, hook, next, minted, commands>>

-----------------------------------------------------------------------------
(* Between commands: the form, another writer of the registry, and the sweep's heal. *)

Edit ==
  /\ cmd.kind = "none" /\ commands > 0 /\ \E s \in Seat, p \in Prof : settings' = [settings EXCEPT ![s] = p]
  /\ UNCHANGED <<cfg, route, intent, hook, next, minted, cmd, bounds>>
Erase ==
  /\ cmd.kind = "none" /\ Fault /\ \E s \in Seat, both \in BOOLEAN :
       /\ route' = [route EXCEPT ![s] = NoRoute]
       /\ intent' = IF both THEN [intent EXCEPT ![s] = NoRoute] ELSE intent
  /\ UNCHANGED <<settings, cfg, hook, next, minted, cmd, commands>>
Heal ==
  /\ cmd.kind = "none" /\ cfg # NoConfig
  /\ route' = [s \in Seat |-> IF intent[s] # NoRoute THEN intent[s] ELSE route[s]]
  /\ intent' = [s \in Seat |-> IF intent[s] = NoRoute THEN route[s] ELSE intent[s]]
  /\ UNCHANGED <<settings, cfg, hook, next, minted, cmd, bounds>>

StepRoute == (\E s \in Seat : WriteRoute(s)) \/ RoutesDone
StepPost == (\E s \in Seat : PostHook(s)) \/ PostsDone
StepMove == (\E m \in cmd.moves : MoveHook(m)) \/ MovesDone
StepFlip == (\E h \in Hook : FlipHook(h)) \/ FlipsDone
StepDelete == (\E h \in Hook : DeleteHook(h)) \/ DeletesDone
Next ==
  \/ (\E b \in BOOLEAN : StartInit(b) \/ StartArm(b)) \/ StartApply \/ StartRecreate \/ StartEnsure \/ StartUninstall
  \/ WriteConfig \/ StepRoute \/ RecordIntent \/ WriteFails \/ StepPost \/ StepMove \/ StepFlip \/ StepDelete
  \/ Unpost \/ Unmove \/ Unroute \/ Unintent \/ Unconfig \/ Finish \/ Crash
  \/ Edit \/ Erase \/ Heal

Spec == Init /\ [][Next]_vars

-----------------------------------------------------------------------------
(* Properties: what a command that says it succeeded, or that it put everything back, leaves behind. *)

Says(kinds, res) == Finish /\ cmd.kind \in kinds /\ cmd.res = res
Hears(s) == \E h \in Hook : Serves(h, s)

\* After a confirmed arm, and an armed init, every seat has an active hook its route accepts.
Armed == [][Says({"arm"}, "ok") \/ (Says({"init"}, "ok") /\ cmd.arm) => \A s \in Seat : Hears(s)]_vars

\* A confirmed pause leaves no active hook that a route of the loop would accept.
Paused == [][Says({"pause"}, "ok") => \A s \in Seat : ~Hears(s)]_vars

\* A new install shares its routes with no hook that signs with another secret.
Fresh == [][Says({"init"}, "ok") => \A s \in Seat : \A h \in At(s, route[s].prof) : hook[h].sec = route[s].sec]_vars

\* A command that says it put everything back has left the config, the routes and the hooks as they were.
Restored ==
  [][Says({"init", "apply"}, "failed") =>
       /\ cfg = cmd.snap.cfg /\ \A h \in Hook : hook[h].prof = cmd.snap.hook[h].prof
       /\ \A s \in Seat : route[s] = cmd.snap.route[s]]_vars

\* A push that goes through never takes a seat's armed hook away: who had one posting to the seat's
\* route has one posting to it afterwards.
StaysArmed ==
  [][Says({"apply", "ensure"}, "ok") \/ Says({"apply", "ensure"}, "warn") =>
       \A s \in Seat :
         (\E h \in Hook : cmd.snap.hook[h].on /\ cmd.snap.hook[h].seat = s
                           /\ cmd.snap.hook[h].prof = cmd.snap.route[s].prof /\ cmd.snap.route[s].prof # NoProf)
         => \E h \in At(s, route[s].prof) : hook[h].on]_vars

\* After a push that succeeded the routes are the config's, and no heal undoes what it wrote.
Agrees ==
  [][Says({"apply", "recreate"}, "ok") =>
       /\ \A s \in cmd.seats : route[s].prof = cfg[s] /\ intent[s] = route[s]
       /\ \A m \in cmd.tried : hook[m.hook].sec = route[m.seat].sec]_vars

\* A completed uninstall leaves no hook posting to the routes it removed.
Gone ==
  [][Says({"uninstall"}, "ok") =>
       \A s \in Seat : At(s, cmd.snap.route[s].prof) = {} /\ At(s, cmd.snap.cfg[s]) = {} /\ route[s] = NoRoute]_vars
=============================================================================
