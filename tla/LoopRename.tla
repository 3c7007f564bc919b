------------------------------- MODULE LoopRename -------------------------------
(***************************************************************************)
(* `migrate --rename-loop OLD=NEW` gives a loop a new id: its routes are   *)
(* copied under the new names, each GitHub hook is moved to its new route  *)
(* and pinged, the state directory and the loop file follow, and the old   *)
(* routes go.  It may die anywhere, a ping may stay unanswered or be       *)
(* refused, and the operator runs it again.                                *)
(***************************************************************************)
EXTENDS Integers, FiniteSets

CONSTANTS
  Hook,       \* the repository's hooks
  Route,      \* routes of the loop, less the id in their names
  On,         \* [Hook -> the route that it posts to]
  Faults      \* how many deaths, lost answers and refusals there are

LoopRenameAssumption == On \in [Hook -> Route] /\ Faults \in Nat

VARIABLES
  routes,     \* the registry: <<route, id>> for the ids "old" and "new"
  intent,     \* the routes that the watch would restore
  url,        \* [Hook -> the id in its URL]
  loopfiles,  \* the ids with a loop file
  dir,        \* the id in the name of the state directory
  paused,     \* the marker of the migrate
  at,         \* the rename's next step
  todo,       \* hooks still to move
  moving,     \* hooks moved and not pinged yet
  back,       \* hooks that this rename has moved
  unproven,   \* routes whose ping was not answered
  answered,   \* hooks whose URL has answered a ping since it was last moved
  faults

vars == <<routes, intent, url, loopfiles, dir, paused, at, todo, moving, back, unproven, answered, faults>>
run == <<todo, moving, back, unproven>>

Id == {"old", "new"}
TypeOK ==
  /\ routes \subseteq Route \X Id /\ intent \subseteq Route \X Id /\ url \in [Hook -> Id]
  /\ loopfiles \subseteq Id /\ dir \in Id /\ paused \in BOOLEAN
  /\ at \in {"out", "hooks", "state", "file", "intent", "unlink", "routes", "end"}
  /\ todo \subseteq Hook /\ moving \subseteq Hook /\ back \subseteq Hook /\ answered \subseteq Hook
  /\ unproven \subseteq Route /\ faults \in 0..Faults

Init ==
  /\ routes = Route \X {"old"} /\ intent = routes /\ url = [h \in Hook |-> "old"]
  /\ loopfiles = {"old"} /\ dir = "old" /\ paused = FALSE /\ at = "out"
  /\ todo = {} /\ moving = {} /\ back = {} /\ unproven = {} /\ answered = {} /\ faults = Faults

Fault == faults > 0 /\ faults' = faults - 1
Leave == at' = "end" /\ UNCHANGED run

\* Nothing is written before the checks pass; the routes are copied with their secrets.
StartOld ==
  /\ at = "out" /\ "old" \in loopfiles /\ \A r \in Route : \E i \in Id : <<r, i>> \in routes
  /\ paused' = TRUE /\ at' = "hooks" /\ todo' = Hook /\ moving' = {} /\ back' = {} /\ unproven' = {}
  /\ routes' = routes \cup Route \X {"new"}
  /\ UNCHANGED <<intent, url, loopfiles, dir, answered, faults>>
Start ==
  /\ at = "out" /\ loopfiles # {} /\ \A r \in Route : \E i \in Id : <<r, i>> \in routes
  /\ paused' = TRUE /\ at' = "hooks" /\ todo' = Hook /\ moving' = {} /\ back' = {} /\ unproven' = {}
  /\ routes' = routes \cup Route \X {"new"}
  /\ UNCHANGED <<intent, url, loopfiles, dir, answered, faults>>

\* _patch_hook_url, which reads the hook back: an update that is not confirmed ends the rename.
MoveHook(h) ==
  /\ at = "hooks" /\ moving = {} /\ h \in todo
  /\ todo' = todo \ {h} /\ moving' = {h}
  /\ url' = [url EXCEPT ![h] = "new"]
  /\ back' = IF url[h] = "old" THEN back \cup {h} ELSE back
  /\ answered' = IF url[h] = "old" THEN answered \ {h} ELSE answered
  /\ UNCHANGED <<routes, intent, loopfiles, dir, paused, at, unproven, faults>>
Unconfirmed(h) ==
  /\ at = "hooks" /\ moving = {} /\ h \in todo /\ url[h] = "old" /\ Fault
  /\ url' \in {url, [url EXCEPT ![h] = "new"]} /\ answered' = answered \ {h} /\ Leave
  /\ UNCHANGED <<routes, intent, loopfiles, dir, paused>>

\* hook_ping: accepted, unanswered within the wait, or refused, which puts the hook back.
Accepted(h) ==
  /\ at = "hooks" /\ h \in moving /\ <<On[h], url[h]>> \in routes
  /\ answered' = answered \cup {h} /\ moving' = {}
  /\ UNCHANGED <<routes, intent, url, loopfiles, dir, paused, at, todo, back, unproven, faults>>
Silent(h) ==
  /\ at = "hooks" /\ h \in moving /\ Fault /\ moving' = {} /\ unproven' = unproven \cup {On[h]}
  /\ UNCHANGED <<routes, intent, url, loopfiles, dir, paused, at, todo, back, answered>>
RefusedBack(h) ==
  /\ at = "hooks" /\ h \in moving /\ Fault /\ url' = [url EXCEPT ![h] = "old"] /\ answered' = answered \ {h}
  /\ Leave /\ UNCHANGED <<routes, intent, loopfiles, dir, paused>>
Refused(h) ==
  /\ at = "hooks" /\ h \in moving /\ Fault
  /\ IF h \in back /\ <<On[h], "old">> \in routes
     THEN url' = [url EXCEPT ![h] = "old"] /\ answered' = answered \ {h}
     ELSE UNCHANGED <<url, answered>>
  /\ Leave /\ UNCHANGED <<routes, intent, loopfiles, dir, paused>>

HooksDone ==
  /\ at = "hooks" /\ todo = {} /\ moving = {} /\ at' = "state"
  /\ UNCHANGED <<routes, intent, url, loopfiles, dir, paused, run, answered, faults>>

\* move_state_dir: once; a second run finds it moved.
MoveDir ==
  /\ at = "state" /\ at' = "file" /\ dir' = IF "old" \in loopfiles THEN "new" ELSE dir
  /\ UNCHANGED <<routes, intent, url, loopfiles, paused, run, answered, faults>>

\* _write_config of the loop under its new id.
WriteLoop ==
  /\ at = "file" /\ at' = "intent" /\ loopfiles' = loopfiles \cup {"new"}
  /\ UNCHANGED <<routes, intent, url, dir, paused, run, answered, faults>>

Record ==
  /\ at = "intent" /\ at' = "unlink" /\ intent' = Route \X {"new"}
  /\ UNCHANGED <<routes, url, loopfiles, dir, paused, run, answered, faults>>

Unlink ==
  /\ at = "unlink" /\ at' = "routes" /\ loopfiles' = loopfiles \ {"old"}
  /\ UNCHANGED <<routes, intent, url, dir, paused, run, answered, faults>>

\* An old route goes unless a hook's new one is not proven.
GoneAll == Route
Gone == Route \ unproven
RemoveRoutes ==
  /\ at = "routes" /\ at' = "end" /\ routes' = routes \ (Gone \X {"old"})
  /\ UNCHANGED <<intent, url, loopfiles, dir, paused, run, answered, faults>>

\* hold removes its marker.
End ==
  /\ at = "end" /\ at' = "out" /\ paused' = FALSE
  /\ UNCHANGED <<routes, intent, url, loopfiles, dir, run, answered, faults>>

Die ==
  /\ at # "out" /\ Fault /\ at' = "out"
  /\ UNCHANGED <<routes, intent, url, loopfiles, dir, paused, run, answered>>

Rename ==
  \/ Start \/ HooksDone \/ MoveDir \/ WriteLoop \/ Record \/ Unlink \/ RemoveRoutes \/ End
  \/ \E h \in Hook : MoveHook(h) \/ Accepted(h)
Next ==
  \/ Rename \/ Die
  \/ \E h \in Hook : Unconfirmed(h) \/ Silent(h) \/ Refused(h)

\* The operator runs it again while it has not finished.
Finished == loopfiles = {"new"} /\ routes = Route \X {"new"}
Again == Rename /\ ~(at = "out" /\ Finished)
Spec == Init /\ [][Next]_vars /\ WF_vars(Again)

-----------------------------------------------------------------------------
(* Properties. *)

\* At every step of every run, however often it died, a delivery of each hook finds its route.
HooksServed == \A h \in Hook : <<On[h], url[h]>> \in routes

\* An old route is removed only once each hook that posted to it has been answered on the new one.
ProvenFirst ==
  [][\A r \in Route : <<r, "old">> \in routes \ routes' =>
       \A h \in Hook : On[h] = r => url[h] = "new" /\ h \in answered]_vars

\* Whoever reads the loop outside the pause finds one loop file, and its state beside it.
OneLoop == ~paused => loopfiles = {dir}

\* Run again, the rename finishes: one loop file, no old route, each hook on its new one.
Renamed == Finished /\ \A h \in Hook : url[h] = "new"
Finishes == <>Renamed
=============================================================================
