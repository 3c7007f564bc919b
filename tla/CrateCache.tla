------------------------------- MODULE CrateCache -------------------------------
(***************************************************************************)
(* The crate cache of one repository.  Before its sandbox starts, a turn   *)
(* fetches the crates of its lockfile under a lock, bounded in bytes; a    *)
(* cache that outgrew the bound is retired and replaced, and deleted once  *)
(* no turn holds it.  Turns run at the same time and their workers die.    *)
(***************************************************************************)
EXTENDS Integers, FiniteSets

CONSTANTS
  Worker,
  Lockfile,   \* the sets of crates that a head may pin
  Cap,        \* cache_cap, in crates
  Gens,       \* directories in use at a time
  Turns,      \* turns started
  Deaths      \* workers that die

ASSUME CrateCacheAssumption ==
  /\ Cap \in Nat /\ Gens \in Nat \ {0} /\ {Turns, Deaths} \subseteq Nat
  /\ \A l \in Lockfile : IsFiniteSet(l)

VARIABLES
  has,        \* the crates in each directory
  cache,      \* the directory at the cache's path, or 0
  retired,    \* the retired directories
  lock,       \* who holds fetch.lock: a set of at most one
  proc,       \* where each worker's turn is
  turns, deaths

vars == <<has, cache, retired, lock, proc, turns, deaths>>
Gen == 1..Gens
Crate == UNION Lockfile
Idle == [at |-> "idle", need |-> {}, before |-> {}, old |-> 0, hold |-> 0, mount |-> 0]

TypeOK ==
  /\ has \in [Gen -> SUBSET Crate] /\ cache \in 0..Gens /\ retired \subseteq Gen /\ lock \subseteq Worker
  /\ proc \in [Worker -> [at : {"idle", "wait", "fetch", "stopped", "fresh", "back", "spent", "ready", "turn", "over", "busy", "failed", "blocked"},
                          need : SUBSET Crate, before : SUBSET Crate, old : 0..Gens, hold : 0..Gens, mount : 0..Gens]]
  /\ turns \in 0..Turns /\ deaths \in 0..Deaths

Init ==
  /\ has = [g \in Gen |-> {}] /\ cache = 0 /\ retired = {} /\ lock = {} /\ proc = [w \in Worker |-> Idle]
  /\ turns = Turns /\ deaths = Deaths

Usage(g) == Cardinality(has[g])
Held(g) == \E w \in Worker : proc[w].hold = g
Go(w, at) == proc' = [proc EXCEPT ![w].at = at]
\* A new directory; Gens bounds how many are in use, on disk or mounted by a sandbox.
Free == {g \in Gen : g # cache /\ g \notin retired /\ ~\E w \in Worker : proc[w].mount = g}
NewGen == CHOOSE g \in Free : TRUE

\* A turn's prefetch begins with the staged head's lockfile and waits for the lock.
Begin(w) ==
  /\ proc[w].at = "idle" /\ turns > 0 /\ turns' = turns - 1
  /\ \E l \in Lockfile : proc' = [proc EXCEPT ![w] = [Idle EXCEPT !.at = "wait", !.need = l]]
  /\ UNCHANGED <<has, cache, retired, lock, deaths>>
GivesUp(w) == proc[w].at = "wait" /\ lock # {} /\ Go(w, "busy") /\ UNCHANGED <<has, cache, retired, lock, turns, deaths>>

\* Retired directories go once no running turn holds them.
KeptAny == {}
Kept == {g \in retired : Held(g)}
Sweep(clear) == retired' = Kept /\ has' = [g \in Gen |-> IF g \in clear \cup (retired \ Kept) THEN {} ELSE has[g]]

\* Under the lock: sweep, make the cache, and fetch into it if it is within the bound.
Lock(w) ==
  /\ proc[w].at = "wait" /\ lock = {} /\ (cache # 0 \/ Free # {}) /\ lock' = {w} /\ Sweep({})
  /\ cache' = IF cache = 0 THEN NewGen ELSE cache
  /\ proc' = [proc EXCEPT ![w].at = IF cache # 0 /\ proc[w].need # {} /\ Usage(cache) > Cap THEN "stopped" ELSE "fetch",
                          ![w].before = IF cache = 0 THEN {} ELSE has[cache]]
  /\ UNCHANGED <<turns, deaths>>

\* cargo downloads; the usage is polled, so the bound may be passed for a while.
Download(w) ==
  /\ proc[w].at = "fetch" /\ \E c \in proc[w].need \ has[cache] : has' = [has EXCEPT ![cache] = @ \cup {c}]
  /\ UNCHANGED <<cache, retired, lock, proc, turns, deaths>>
DiscardedNot(w) == has
Discarded(w) == [has EXCEPT ![cache] = proc[w].before]
Stop(w) ==
  /\ proc[w].at = "fetch" /\ Usage(cache) > Cap /\ has' = Discarded(w)
  /\ Go(w, IF proc[w].old = 0 THEN "stopped" ELSE "spent")
  /\ UNCHANGED <<cache, retired, lock, turns, deaths>>

\* Leaving: the lock is released after a last sweep; an early refusal leaves without one.
Leave(w, at, hold) ==
  /\ lock' = {} /\ proc' = [proc EXCEPT ![w] = [Idle EXCEPT !.at = at, !.need = proc[w].need, !.hold = hold]]
Refuse(w, at) == Leave(w, at, 0) /\ UNCHANGED <<has, cache, retired, turns, deaths>>

\* The fetch ends: timed out, failed (what it downloaded stays, within the bound), or complete.
Fails(w) ==
  /\ proc[w].at = "fetch" /\ proc[w].need # {}
  /\ \E left \in {Discarded(w), has} :
       /\ left = has => Usage(cache) <= Cap
       /\ IF proc[w].old = 0
          THEN /\ Leave(w, "failed", 0) /\ UNCHANGED cache
               /\ retired' = Kept /\ has' = [g \in Gen |-> IF g \in retired \ Kept THEN {} ELSE left[g]]
          ELSE /\ Go(w, "back") /\ has' = left /\ UNCHANGED <<cache, retired, lock>>
  /\ UNCHANGED <<turns, deaths>>
Complete(w) == proc[w].need \subseteq has[cache] /\ (proc[w].need = {} \/ Usage(cache) <= Cap)
Ready(w) ==
  /\ proc[w].at = "fetch" /\ Complete(w) /\ Leave(w, "ready", cache) /\ Sweep({})
  /\ UNCHANGED <<cache, turns, deaths>>

\* Over the bound with crates of earlier heads: retire that cache and fetch once into a new one,
\* unless a retired one is still in use.
MayRetireAlways == TRUE
MayRetire == retired = {}
RetriesNever(w) == FALSE
Retries(w) == has[cache] # {}
Over(w) == proc[w].at = "stopped" /\ ~Retries(w) /\ Refuse(w, "over")
InUse(w) == proc[w].at = "stopped" /\ Retries(w) /\ ~MayRetire /\ Refuse(w, "blocked")
Retire(w) ==
  /\ proc[w].at = "stopped" /\ Retries(w) /\ MayRetire
  /\ retired' = retired \cup {cache} /\ cache' = 0
  /\ proc' = [proc EXCEPT ![w].at = "fresh", ![w].old = cache, ![w].before = {}]
  /\ UNCHANGED <<has, lock, turns, deaths>>
Fresh(w) ==
  /\ proc[w].at = "fresh" /\ Free # {} /\ cache' = NewGen /\ Go(w, "fetch")
  /\ UNCHANGED <<has, retired, lock, turns, deaths>>

\* The retry failed: the new directory is deleted and the old one put back.
Drop(w) ==
  /\ proc[w].at \in {"back", "spent"} /\ cache # 0 /\ has' = [has EXCEPT ![cache] = {}] /\ cache' = 0
  /\ UNCHANGED <<retired, lock, proc, turns, deaths>>
PutBack(w) ==
  /\ proc[w].at \in {"back", "spent"} /\ cache = 0 /\ cache' = proc[w].old /\ retired' = retired \ {proc[w].old}
  /\ Leave(w, IF proc[w].at = "back" THEN "failed" ELSE "over", 0) /\ UNCHANGED <<has, turns, deaths>>

\* The sandbox binds the directory that is at the path by then, and holds what was locked.
Mount(w) ==
  /\ proc[w].at = "ready" /\ cache # 0 /\ proc' = [proc EXCEPT ![w].at = "turn", ![w].mount = cache]
  /\ UNCHANGED <<has, cache, retired, lock, turns, deaths>>
MountFails(w) ==
  /\ proc[w].at = "ready" /\ cache = 0 /\ proc' = [proc EXCEPT ![w] = Idle]
  /\ UNCHANGED <<has, cache, retired, lock, turns, deaths>>

\* The sandbox exits, with or without dependencies, and its hold is released.
Exit(w) ==
  /\ proc[w].at \in {"turn", "over", "busy", "failed", "blocked"} /\ proc' = [proc EXCEPT ![w] = Idle]
  /\ UNCHANGED <<has, cache, retired, lock, turns, deaths>>

\* The worker dies with its sandbox: its locks go, its downloads stay.
Die(w) ==
  /\ proc[w].at # "idle" /\ deaths > 0 /\ deaths' = deaths - 1
  /\ lock' = lock \ {w} /\ proc' = [proc EXCEPT ![w] = Idle]
  /\ UNCHANGED <<has, cache, retired, turns>>

Next ==
  \E w \in Worker :
    \/ Begin(w) \/ GivesUp(w) \/ Lock(w) \/ Download(w) \/ Stop(w) \/ Fails(w) \/ Ready(w)
    \/ Over(w) \/ InUse(w) \/ Retire(w) \/ Fresh(w) \/ Drop(w) \/ PutBack(w)
    \/ Mount(w) \/ MountFails(w) \/ Exit(w) \/ Die(w)
Spec == Init /\ [][Next]_vars

--------------------------------------------------------------------------------
\* The directory a turn holds keeps the crates it was fetched for until the sandbox has exited,
\* whatever other prefetches retire, sweep and discard meanwhile (hold, _sweep).
HoldKept == \A w \in Worker : proc[w].at \in {"ready", "turn"} => proc[w].need \subseteq has[proc[w].hold]

\* The sandbox that was told its dependencies are available has them.
Served == \A w \in Worker : proc[w].at = "turn" => proc[w].need \subseteq has[proc[w].mount]

\* A head is refused for the bound only if its own lockfile passes it: what earlier heads left
\* is retired, and a worker's death does not count against the next head.
NotBlamed == \A w \in Worker : proc[w].at = "over" => Cardinality(proc[w].need) > Cap

\* At most one retired directory waits for its turns, so the disk holds at most two caches.
OneRetired == Cardinality(retired) <= 1

\* No prefetch leaves a directory over the bound, unless a worker died with its downloads.
Capped == deaths = Deaths /\ lock = {} => \A g \in Gen : Usage(g) <= Cap

\* The crates a turn was promised stay on the disk until it ends, whatever others prefetch,
\* retire and discard; there are at most two caches, none over its bound, and no head is
\* refused for what another left.
CratesHeld == HoldKept /\ OneRetired /\ NotBlamed /\ Capped
================================================================================
