--------------------------- MODULE CrateCacheProofs ---------------------------
(***************************************************************************)
(* Proofs about CrateCache, for any workers, lockfiles and bounds.  What a *)
(* turn was promised outlives the prefetches of others because of what the *)
(* lock protects: while a fetch is at work, everyone who holds the cache   *)
(* needs no more than the fetch would discard to; a directory leaves the   *)
(* cache's path only to be retired; and only a retired directory that      *)
(* nobody holds is emptied.                                                *)
(***************************************************************************)
EXTENDS CrateCache, FiniteSetTheorems, TLAPS

\* The steps of a prefetch that holds fetch.lock.
Fetching(w) == proc[w].at \in {"fetch", "stopped", "fresh", "back", "spent"}

\* The lock has one holder, who is at one of those steps.
LockHeld ==
  /\ \A v, w \in lock : v = w
  /\ \A w \in Worker : w \in lock <=> Fetching(w)

\* Where a worker's turn is says what it holds, what it may restore, and why it was refused.
Place(w) ==
  /\ proc[w].hold # 0 <=> proc[w].at \in {"ready", "turn"}
  /\ IsFiniteSet(proc[w].need)
  /\ proc[w].old # 0 => Fetching(w) /\ proc[w].before = {}
  /\ proc[w].at = "stopped" => proc[w].old = 0
  /\ proc[w].at \in {"fresh", "back", "spent"} => proc[w].old # 0
  /\ proc[w].at \in {"fetch", "stopped"} => cache # 0
  /\ proc[w].at = "fresh" => cache = 0
  /\ proc[w].at \in {"over", "spent"} => Cardinality(proc[w].need) > Cap
Places == \A w \in Worker : Place(w)

\* A directory that is neither the cache nor retired is empty, and nobody holds it.
Directories ==
  /\ cache \notin retired
  /\ \A g, h \in retired : g = h
  /\ \A g \in Gen : Held(g) => g = cache \/ g \in retired
  /\ \A g \in Gen : g # cache /\ g \notin retired => has[g] = {}

\* A fetch only adds crates of its own lockfile to what it would discard to, which is enough for
\* every turn that holds the cache; one that replaced the cache has it to itself; and one that
\* was stopped with nothing to discard to needs too much by itself.
FetchOf(w) ==
  /\ proc[w].at = "fetch" =>
       /\ proc[w].before \subseteq has[cache] /\ has[cache] \subseteq proc[w].before \cup proc[w].need
       /\ \A v \in Worker : proc[v].hold = cache => proc[v].need \subseteq proc[w].before
  /\ proc[w].old # 0 /\ cache # 0 => ~Held(cache)
  /\ proc[w].at = "stopped" /\ has[cache] = {} => Cardinality(proc[w].need) > Cap
Fetches == \A w \in Worker : FetchOf(w)

\* While no worker died, only the directory that a fetch is at work in may be over the bound.
Bound ==
  deaths = Deaths =>
    /\ \A w \in Worker : proc[w].at = "fetch" => Cardinality(proc[w].before) <= Cap
    /\ \A g \in Gen : Usage(g) <= Cap \/ (g = cache /\ \E w \in Worker : proc[w].at = "fetch")

CrateInv == LockHeld /\ Places /\ Directories /\ Fetches /\ HoldKept /\ Bound

-----------------------------------------------------------------------------
Step == {"idle", "wait", "fetch", "stopped", "fresh", "back", "spent", "ready", "turn", "over",
         "busy", "failed", "blocked"}
Slot == [at : Step, need : SUBSET Crate, before : SUBSET Crate, old : 0..Gens, hold : 0..Gens,
         mount : 0..Gens]

\* TypeOK, with the set of records named.
LEMMA TypeIs ==
  TypeOK <=>
    /\ has \in [Gen -> SUBSET Crate] /\ cache \in 0..Gens /\ retired \subseteq Gen
    /\ lock \subseteq Worker /\ proc \in [Worker -> Slot]
    /\ turns \in 0..Turns /\ deaths \in 0..Deaths
BY DEF TypeOK, Slot, Step

LEMMA GenFacts == Gens \in Nat /\ 0 \in 0..Gens /\ 0 \notin Gen /\ Gen \subseteq 0..Gens
BY CrateCacheAssumption DEF Gen

LEMMA IdleType == Idle \in Slot
BY GenFacts DEF Idle, Slot, Step

LEMMA NewGenFree ==
  ASSUME Free # {}
  PROVE  NewGen \in Gen /\ NewGen # cache /\ NewGen \notin retired
BY DEF Free, NewGen

LEMMA InitType == Init => TypeOK
<1> SUFFICES ASSUME Init PROVE TypeOK
  OBVIOUS
<1>1. Turns \in 0..Turns /\ Deaths \in 0..Deaths
  BY CrateCacheAssumption
<1>2. proc \in [Worker -> Slot]
  BY IdleType DEF Init
<1> QED BY <1>1, <1>2, GenFacts, TypeIs DEF Init

\* What a step makes of a worker's slot keeps its type.
LEMMA SlotTypes ==
  ASSUME TypeOK, NEW w \in Worker, NEW at \in Step, NEW hold \in 0..Gens
  PROVE  /\ [proc EXCEPT ![w].at = at] \in [Worker -> Slot]
         /\ [proc EXCEPT ![w] = Idle] \in [Worker -> Slot]
         /\ [proc EXCEPT ![w] = [Idle EXCEPT !.at = at, !.need = proc[w].need, !.hold = hold]]
              \in [Worker -> Slot]
<1>1. proc \in [Worker -> Slot]
  BY TypeIs
<1>2. [proc[w] EXCEPT !.at = at] \in Slot
  BY <1>1 DEF Slot
<1>3. [Idle EXCEPT !.at = at, !.need = proc[w].need, !.hold = hold] \in Slot
  BY <1>1, GenFacts DEF Slot, Idle
<1> QED BY <1>1, <1>2, <1>3, IdleType

\* Places is needed for a prefetch that was stopped: there is a cache to retire.
LEMMA TypeStep == TypeOK /\ Places /\ [Next]_vars => TypeOK'
<1> SUFFICES ASSUME TypeOK, Places, [Next]_vars PROVE TypeOK'
  OBVIOUS
<1> DEFINE Rest == turns' \in 0..Turns /\ deaths' \in 0..Deaths
<1> DEFINE Slots == proc' \in [Worker -> Slot]
<1> DEFINE Dirs == has' \in [Gen -> SUBSET Crate] /\ cache' \in 0..Gens /\ retired' \subseteq Gen
<1>0. /\ has \in [Gen -> SUBSET Crate] /\ cache \in 0..Gens /\ retired \subseteq Gen
      /\ lock \subseteq Worker /\ proc \in [Worker -> Slot]
      /\ turns \in 0..Turns /\ deaths \in 0..Deaths
      /\ Turns \in Nat /\ Deaths \in Nat /\ Kept \subseteq Gen
  BY TypeIs, CrateCacheAssumption DEF Kept
<1>p. (/\ has' \in [Gen -> SUBSET Crate] /\ cache' \in 0..Gens /\ retired' \subseteq Gen
       /\ lock' \subseteq Worker /\ proc' \in [Worker -> Slot]
       /\ turns' \in 0..Turns /\ deaths' \in 0..Deaths) => TypeOK'
  BY DEF TypeOK, Slot, Step
<1>d. (cache # 0 => cache \in Gen) /\ (Free # {} => NewGen \in 0..Gens)
  BY <1>0, GenFacts, NewGenFree DEF Gen
<1>s. ASSUME NEW w \in Worker
      PROVE  /\ proc[w] \in Slot /\ Discarded(w) \in [Gen -> SUBSET Crate]
             /\ \A at \in Step : Go(w, at) => Slots
             /\ \A at \in Step, hold \in 0..Gens : Leave(w, at, hold) => Slots /\ lock' = {}
  <2>1. proc[w] \in Slot
    BY <1>0
  <2>2. Discarded(w) \in [Gen -> SUBSET Crate]
    BY <1>0, <2>1 DEF Discarded, Slot
  <2>3. ASSUME NEW at \in Step, Go(w, at) PROVE Slots
    BY <2>3, SlotTypes, GenFacts DEF Go
  <2>4. ASSUME NEW at \in Step, NEW hold \in 0..Gens, Leave(w, at, hold) PROVE Slots /\ lock' = {}
    BY <2>4, SlotTypes DEF Leave
  <2> QED BY <2>1, <2>2, <2>3, <2>4
<1>w. ASSUME NEW clear \in SUBSET Gen, Sweep(clear)
      PROVE  has' \in [Gen -> SUBSET Crate] /\ retired' \subseteq Gen
  BY <1>0, <1>w DEF Sweep
<1>1. ASSUME NEW w \in Worker, Begin(w) PROVE TypeOK'
  <2>1. PICK l \in Lockfile : proc' = [proc EXCEPT ![w] = [Idle EXCEPT !.at = "wait", !.need = l]]
    BY <1>1 DEF Begin
  <2>2. [Idle EXCEPT !.at = "wait", !.need = l] \in Slot
    BY IdleType DEF Slot, Step, Crate
  <2>3. Slots /\ Rest
    BY <1>0, <1>1, <2>1, <2>2 DEF Begin
  <2> QED BY <1>0, <1>1, <2>3, <1>p DEF Begin
<1>2. ASSUME NEW w \in Worker, GivesUp(w) PROVE TypeOK'
  <2>1. Slots
    BY <1>2, <1>s DEF GivesUp, Step
  <2> QED BY <1>0, <1>2, <2>1, <1>p DEF GivesUp
<1>3. ASSUME NEW w \in Worker, Lock(w) PROVE TypeOK'
  <2>1. cache' \in 0..Gens /\ has' \in [Gen -> SUBSET Crate] /\ retired' \subseteq Gen
    BY <1>0, <1>3, <1>d, <1>w DEF Lock
  <2>2. Slots
    <3>1. PICK at \in {"stopped", "fetch"}, before \in SUBSET Crate :
            proc' = [proc EXCEPT ![w].at = at, ![w].before = before]
      BY <1>0, <1>3, <1>d DEF Lock
    <3>2. [proc[w] EXCEPT !.at = at, !.before = before] \in Slot
      BY <1>s DEF Slot, Step
    <3>3. proc' = [proc EXCEPT ![w] = [proc[w] EXCEPT !.at = at, !.before = before]]
      BY <1>0, <3>1
    <3> QED BY <1>0, <3>2, <3>3
  <2> QED BY <1>0, <1>3, <2>1, <2>2, <1>p DEF Lock
<1>4. ASSUME NEW w \in Worker, Download(w) PROVE TypeOK'
  <2>1. PICK c \in proc[w].need : has' = [has EXCEPT ![cache] = @ \cup {c}]
    BY <1>4 DEF Download
  <2>2. c \in Crate
    BY <1>s DEF Slot
  <2>3. has' \in [Gen -> SUBSET Crate]
    BY <1>0, <2>1, <2>2
  <2> QED BY <1>0, <1>4, <2>3, <1>p DEF Download
<1>5. ASSUME NEW w \in Worker, Stop(w) PROVE TypeOK'
  <2>1. Slots /\ has' \in [Gen -> SUBSET Crate]
    BY <1>5, <1>s DEF Stop, Step
  <2> QED BY <1>0, <1>5, <2>1, <1>p DEF Stop
<1>6. ASSUME NEW w \in Worker, Fails(w) PROVE TypeOK'
  <2>1. PICK left \in {Discarded(w), has} :
          IF proc[w].old = 0
          THEN /\ Leave(w, "failed", 0) /\ UNCHANGED cache
               /\ retired' = Kept /\ has' = [g \in Gen |-> IF g \in retired \ Kept THEN {} ELSE left[g]]
          ELSE Go(w, "back") /\ has' = left /\ UNCHANGED <<cache, retired, lock>>
    BY <1>6 DEF Fails
  <2>2. left \in [Gen -> SUBSET Crate]
    BY <1>0, <1>s
  <2>3. Dirs /\ lock' \subseteq Worker /\ Slots
    BY <1>0, <1>s, <2>1, <2>2, GenFacts DEF Step
  <2> QED BY <1>0, <1>6, <2>3, <1>p DEF Fails
<1>7. ASSUME NEW w \in Worker, Ready(w) PROVE TypeOK'
  <2>1. Slots /\ lock' = {}
    BY <1>0, <1>7, <1>s DEF Ready, Step
  <2>2. has' \in [Gen -> SUBSET Crate] /\ retired' \subseteq Gen
    BY <1>7, <1>w DEF Ready
  <2> QED BY <1>0, <1>7, <2>1, <2>2, <1>p DEF Ready
<1>8. ASSUME NEW w \in Worker, Over(w) \/ InUse(w) PROVE TypeOK'
  <2>1. Slots /\ lock' = {}
    BY <1>8, <1>s, GenFacts DEF Over, InUse, Refuse, Step
  <2> QED BY <1>0, <1>8, <2>1, <1>p DEF Over, InUse, Refuse
<1>9. ASSUME NEW w \in Worker, Retire(w) PROVE TypeOK'
  <2>1. [proc[w] EXCEPT !.at = "fresh", !.old = cache, !.before = {}] \in Slot
    BY <1>0, <1>s DEF Slot, Step
  <2>2. proc' = [proc EXCEPT ![w] = [proc[w] EXCEPT !.at = "fresh", !.old = cache, !.before = {}]]
    BY <1>0, <1>9 DEF Retire
  <2>3. Slots
    BY <1>0, <2>1, <2>2
  <2>4. cache # 0
    BY <1>9 DEF Retire, Places, Place
  <2>5. cache' \in 0..Gens /\ retired' \subseteq Gen
    BY <1>0, <1>9, <1>d, <2>4, GenFacts DEF Retire
  <2> QED BY <1>0, <1>9, <2>3, <2>5, <1>p DEF Retire
<1>10. ASSUME NEW w \in Worker, Fresh(w) PROVE TypeOK'
  <2>1. Slots
    BY <1>10, <1>s DEF Fresh, Step
  <2> QED BY <1>0, <1>10, <1>d, <2>1, <1>p DEF Fresh
<1>11. ASSUME NEW w \in Worker, Drop(w) PROVE TypeOK'
  BY <1>0, <1>11, GenFacts, <1>p DEF Drop
<1>12. ASSUME NEW w \in Worker, PutBack(w) PROVE TypeOK'
  <2>1. Slots /\ lock' = {}
    BY <1>12, <1>s, GenFacts DEF PutBack, Step
  <2>2. proc[w].old \in 0..Gens
    BY <1>s DEF Slot
  <2> QED BY <1>0, <1>12, <2>1, <2>2, <1>p DEF PutBack
<1>13. ASSUME NEW w \in Worker, Mount(w) PROVE TypeOK'
  <2>1. [proc[w] EXCEPT !.at = "turn", !.mount = cache] \in Slot
    BY <1>0, <1>s DEF Slot, Step
  <2>2. proc' = [proc EXCEPT ![w] = [proc[w] EXCEPT !.at = "turn", !.mount = cache]]
    BY <1>0, <1>13 DEF Mount
  <2> QED BY <1>0, <1>13, <2>1, <2>2, <1>p DEF Mount
<1>14. ASSUME NEW w \in Worker, MountFails(w) \/ Exit(w) PROVE TypeOK'
  <2>1. Slots
    BY <1>0, <1>14, IdleType DEF MountFails, Exit
  <2> QED BY <1>0, <1>14, <2>1, <1>p DEF MountFails, Exit
<1>15. ASSUME NEW w \in Worker, Die(w) PROVE TypeOK'
  <2>1. Slots
    BY <1>0, <1>15, IdleType DEF Die
  <2> QED BY <1>0, <1>15, <2>1, <1>p DEF Die
<1>16. CASE UNCHANGED vars
  BY <1>0, <1>16, <1>p DEF vars
<1> QED BY <1>1, <1>2, <1>3, <1>4, <1>5, <1>6, <1>7, <1>8, <1>9, <1>10, <1>11, <1>12, <1>13,
           <1>14, <1>15, <1>16 DEF Next

-----------------------------------------------------------------------------
LEMMA InitInv == Init => CrateInv
<1> SUFFICES ASSUME Init PROVE CrateInv
  OBVIOUS
<1>1. \A w \in Worker : proc[w] = Idle
  BY DEF Init
<1>2. IsFiniteSet({}) /\ Cardinality({}) = 0
  BY FS_EmptySet
<1>3. LockHeld /\ Places /\ Directories /\ Fetches /\ HoldKept
  BY <1>1, <1>2, GenFacts DEF Init, Idle, LockHeld, Places, Place, Fetching, Directories, Held,
     Fetches, FetchOf, HoldKept
<1>4. Bound
  BY <1>1, <1>2, CrateCacheAssumption DEF Init, Idle, Bound, Usage
<1> QED BY <1>3, <1>4 DEF CrateInv

\* Usage of nothing, and of a part.
LEMMA EmptyFits == Cardinality({}) = 0 /\ Cardinality({}) <= Cap /\ IsFiniteSet({})
BY FS_EmptySet, CrateCacheAssumption

LEMMA PartOfNeed ==
  ASSUME NEW S, IsFiniteSet(S), NEW T \in SUBSET S, Cardinality(T) > Cap
  PROVE  Cardinality(S) > Cap
<1>1. IsFiniteSet(T) /\ Cardinality(T) <= Cardinality(S)
  BY FS_Subset
<1>2. Cardinality(S) \in Nat /\ Cardinality(T) \in Nat
  BY <1>1, FS_CardinalityType
<1> QED BY <1>1, <1>2, CrateCacheAssumption

\* Whoever is at a step of the lock is alone there.
LEMMA Alone ==
  ASSUME TypeOK, CrateInv, NEW w \in Worker, Fetching(w)
  PROVE  lock = {w} /\ \A v \in Worker \ {w} : ~Fetching(v)
BY DEF CrateInv, LockHeld, TypeOK

\* A worker that is not there, and does not move, is not concerned with the directories.
LEMMA OthersKeep ==
  ASSUME CrateInv, NEW v \in Worker, ~Fetching(v), proc'[v] = proc[v]
  PROVE  Place(v)' /\ FetchOf(v)' /\ ~Fetching(v)'
BY DEF CrateInv, Places, Place, FetchOf, Fetching

\* What a directory holds after a last sweep.
LEMMA Swept ==
  ASSUME TypeOK, CrateInv, NEW left \in [Gen -> SUBSET Crate], retired' = Kept,
         \A g \in Gen : g # cache => left[g] = has[g],
         has' = [g \in Gen |-> IF g \in retired \ Kept THEN {} ELSE left[g]]
  PROVE  /\ \A g \in retired' : g \in retired /\ Held(g)
         /\ \A g \in Gen : Held(g) => has'[g] = left[g] /\ (g = cache \/ g \in retired')
         /\ \A g \in Gen : g # cache /\ g \notin retired' => has'[g] = {}
         /\ \A g \in Gen : has'[g] \in {{}, left[g]}
         /\ \A g \in Gen : g \notin retired => has'[g] = left[g]
BY DEF TypeOK, CrateInv, Directories, Kept

LEMMA SweepIs ==
  ASSUME TypeOK, Sweep({})
  PROVE  /\ has \in [Gen -> SUBSET Crate] /\ retired' = Kept
         /\ has' = [g \in Gen |-> IF g \in retired \ Kept THEN {} ELSE has[g]]
<1>1. {} \cup (retired \ Kept) = retired \ Kept
  OBVIOUS
<1> QED BY <1>1 DEF TypeOK, Sweep

\* A step of a worker that leaves the directories alone and is not, or no longer, at the lock.
LEMMA AsideKeeps ==
  ASSUME TypeOK, CrateInv, NEW w \in Worker, UNCHANGED <<has, cache, retired>>,
         lock' = lock \ {w}, \A v \in Worker \ {w} : proc'[v] = proc[v],
         Place(w)', ~Fetching(w)',
         proc'[w].hold = 0 \/ (proc'[w].hold = proc[w].hold /\ proc'[w].need = proc[w].need),
         deaths' = Deaths => deaths = Deaths /\ proc[w].at # "fetch"
  PROVE  CrateInv'
<1>1. LockHeld'
  BY DEF CrateInv, LockHeld, Fetching
<1>2. Places'
  BY DEF CrateInv, Places, Place, Fetching
<1>3. \A g \in Gen : Held(g)' => Held(g)
  BY GenFacts DEF Held
<1>4. Directories'
  BY <1>3 DEF CrateInv, Directories
<1>5. cache # 0 => cache \in Gen
  BY DEF TypeOK, Gen
<1>6. Fetches'
  <2>1. ASSUME NEW v \in Worker \ {w} PROVE FetchOf(v)'
    <3>1. proc'[v] = proc[v] /\ FetchOf(v) /\ Place(v)
      BY DEF CrateInv, Fetches, Places
    <3>2. proc'[v].at = "fetch" => \A u \in Worker : proc'[u].hold = cache => proc'[u].need \subseteq proc'[v].before
      BY <3>1 DEF FetchOf, Place
    <3>3. proc'[v].old # 0 /\ cache # 0 => ~Held(cache)'
      BY <1>3, <1>5, <3>1 DEF FetchOf
    <3> QED BY <3>1, <3>2, <3>3 DEF FetchOf
  <2>2. FetchOf(w)'
    BY DEF FetchOf, Place, Fetching
  <2> QED BY <2>1, <2>2 DEF Fetches
<1>7. HoldKept'
  <2>1. ASSUME proc'[w].at \in {"ready", "turn"} PROVE proc'[w].need \subseteq has[proc'[w].hold]
    <3>1. proc'[w].hold # 0 /\ proc'[w].hold = proc[w].hold /\ proc'[w].need = proc[w].need
      BY <2>1 DEF Place
    <3>2. proc[w].at \in {"ready", "turn"}
      BY <3>1 DEF CrateInv, Places, Place
    <3> QED BY <3>1, <3>2 DEF CrateInv, HoldKept
  <2> QED BY <2>1 DEF CrateInv, HoldKept
<1>8. Bound'
  BY DEF CrateInv, Bound, Usage, Fetching
<1> QED BY <1>1, <1>2, <1>4, <1>6, <1>7, <1>8 DEF CrateInv

\* What a step of the lock's holder has to show: its own place, and the directories.
LEMMA HolderKeeps ==
  ASSUME TypeOK, CrateInv, NEW w \in Worker,
         \A v \in Worker \ {w} : ~Fetching(v) /\ proc'[v] = proc[v],
         lock' = IF Fetching(w)' THEN {w} ELSE {},
         Place(w)', FetchOf(w)', Directories', HoldKept', Bound'
  PROVE  CrateInv'
<1>1. \A v \in Worker \ {w} : Place(v)' /\ FetchOf(v)' /\ ~Fetching(v)'
  BY OthersKeep
<1>2. LockHeld'
  BY <1>1 DEF LockHeld
<1>3. Places' /\ Fetches'
  BY <1>1 DEF Places, Fetches
<1> QED BY <1>2, <1>3 DEF CrateInv

\* The lock is taken: whoever holds the cache needs what is in it.
LEMMA LockKeeps ==
  ASSUME TypeOK, CrateInv, NEW w \in Worker, Lock(w)
  PROVE  CrateInv'
<1> DEFINE before == IF cache = 0 THEN {} ELSE has[cache]
<1>0. /\ lock = {} /\ lock' = {w} /\ proc[w].at = "wait" /\ deaths' = deaths
      /\ has \in [Gen -> SUBSET Crate] /\ proc \in [Worker -> Slot]
      /\ (cache # 0 => cache \in Gen)
  BY TypeIs DEF Lock, TypeOK, Gen
<1>1. \A v \in Worker : ~Fetching(v)
  BY <1>0 DEF CrateInv, LockHeld
<1>2. Place(w) /\ proc[w].hold = 0 /\ proc[w].old = 0
  BY <1>0, <1>1 DEF CrateInv, Places, Place
<1>3. /\ \A v \in Worker \ {w} : proc'[v] = proc[v]
      /\ proc'[w].need = proc[w].need /\ proc'[w].before = before
      /\ proc'[w].hold = 0 /\ proc'[w].old = 0 /\ proc'[w].at \in {"stopped", "fetch"}
      /\ proc'[w].at = "stopped" => cache # 0 /\ Usage(cache) > Cap
  BY <1>0, <1>2 DEF Lock, Slot
<1>4. /\ cache' \in Gen /\ cache' # 0 /\ cache' \notin retired
      /\ cache # 0 => cache' = cache
      /\ cache = 0 => cache' # cache
  BY <1>0, NewGenFree, GenFacts DEF Lock, CrateInv, Directories
<1>5. /\ \A g \in retired' : g \in retired /\ Held(g)
      /\ \A g \in Gen : Held(g) => has'[g] = has[g] /\ (g = cache \/ g \in retired')
      /\ \A g \in Gen : g # cache /\ g \notin retired' => has'[g] = {}
      /\ \A g \in Gen : has'[g] \in {{}, has[g]}
      /\ \A g \in Gen : g \notin retired => has'[g] = has[g]
  BY SweepIs, Swept DEF Lock
<1>6. \A v \in Worker : proc'[v].hold = proc[v].hold
  BY <1>2, <1>3
<1>7. \A g \in Gen : Held(g)' <=> Held(g)
  BY <1>6 DEF Held
<1>8. has'[cache'] = before /\ \A v \in Worker : proc[v].hold = cache' => cache' = cache
  <2>1. CASE cache # 0
    BY <1>4, <1>5, <2>1
  <2>2. CASE cache = 0
    <3>1. has[cache'] = {} /\ ~Held(cache')
      BY <1>4, <2>2 DEF CrateInv, Directories
    <3> QED BY <1>4, <1>5, <2>2, <3>1 DEF Held
  <2> QED BY <2>1, <2>2
<1>9. Place(w)'
  BY <1>2, <1>3, <1>4 DEF Place
<1>10. FetchOf(w)'
  <2>1. ASSUME NEW v \in Worker, proc'[v].hold = cache' PROVE proc'[v].need \subseteq before
    <3>1. cache' = cache /\ proc[v].hold = cache /\ cache # 0 /\ v # w
      BY <1>2, <1>3, <1>4, <1>6, <1>8, <2>1
    <3>2. proc[v].at \in {"ready", "turn"}
      BY <3>1 DEF CrateInv, Places, Place
    <3> QED BY <1>3, <3>1, <3>2 DEF CrateInv, HoldKept
  <2>2. proc'[w].at = "stopped" => has'[cache'] # {}
    <3>1. ASSUME cache # 0, Usage(cache) > Cap PROVE before # {}
      <4>1. Cardinality({}) = 0 /\ ~(0 > Cap)
        BY EmptyFits, CrateCacheAssumption
      <4> QED BY <3>1, <4>1 DEF Usage
    <3> QED BY <1>3, <1>8, <3>1
  <2> QED BY <1>3, <1>8, <2>1, <2>2 DEF FetchOf
<1>11. Directories'
  <2>1. cache' \notin retired' /\ \A g, h \in retired' : g = h
    BY <1>4, <1>5 DEF CrateInv, Directories
  <2>2. \A g \in Gen : Held(g)' => g = cache' \/ g \in retired'
    BY <1>4, <1>5, <1>7, GenFacts
  <2>3. \A g \in Gen : g # cache' /\ g \notin retired' => has'[g] = {}
    BY <1>4, <1>5, GenFacts
  <2> QED BY <2>1, <2>2, <2>3 DEF Directories
<1>12. HoldKept'
  <2>1. SUFFICES ASSUME NEW v \in Worker, proc'[v].at \in {"ready", "turn"}
                 PROVE  proc'[v].need \subseteq has'[proc'[v].hold]
    BY DEF HoldKept
  <2>2. v # w /\ proc'[v] = proc[v]
    BY <1>3, <2>1
  <2>3. proc[v].hold # 0 /\ proc[v].hold \in 0..Gens
    BY <1>0, <2>1, <2>2 DEF CrateInv, Places, Place, Slot
  <2>4. proc[v].hold \in Gen /\ Held(proc[v].hold)
    BY <2>3, CrateCacheAssumption DEF Gen, Held
  <2> QED BY <1>5, <2>1, <2>2, <2>4 DEF CrateInv, HoldKept
<1>13. Bound'
  <2>1. SUFFICES ASSUME deaths = Deaths
                 PROVE  (\A v \in Worker : proc'[v].at = "fetch" => Cardinality(proc'[v].before) <= Cap)
                        /\ \A g \in Gen : Usage(g)' <= Cap
    BY <1>0 DEF Bound
  <2>2. \A g \in Gen : Usage(g) <= Cap
    BY <1>1, <2>1 DEF CrateInv, Bound, Fetching
  <2>3. \A g \in Gen : Usage(g)' <= Cap
    BY <1>5, <2>2, EmptyFits DEF Usage
  <2>4. Cardinality(before) <= Cap
    BY <1>0, <2>2, EmptyFits DEF Usage
  <2> QED BY <1>1, <1>3, <2>3, <2>4 DEF Fetching
<1> QED BY <1>0, <1>1, <1>3, <1>9, <1>10, <1>11, <1>12, <1>13, HolderKeeps DEF Fetching

\* cargo downloads a crate of the lockfile.
LEMMA DownloadKeeps ==
  ASSUME TypeOK, CrateInv, NEW w \in Worker, Download(w)
  PROVE  CrateInv'
<1>0. /\ proc[w].at = "fetch" /\ UNCHANGED <<cache, retired, lock, proc, deaths>>
      /\ has \in [Gen -> SUBSET Crate]
  BY DEF Download, TypeOK
<1>1. cache \in Gen /\ cache # 0 /\ Fetching(w) /\ FetchOf(w) /\ Place(w)
  BY <1>0 DEF CrateInv, Places, Place, Fetches, Fetching, TypeOK, Gen
<1>2. PICK c \in proc[w].need : has' = [has EXCEPT ![cache] = @ \cup {c}]
  BY DEF Download
<1>3. \A g \in Gen : has'[g] = IF g = cache THEN has[g] \cup {c} ELSE has[g]
  BY <1>0, <1>1, <1>2
<1>4. lock = {w} /\ \A v \in Worker \ {w} : ~Fetching(v)
  BY <1>1, Alone
<1>5. Place(w)' /\ Directories'
  BY <1>0, <1>1, <1>3 DEF Place, Fetching, CrateInv, Directories, Held
<1>6. FetchOf(w)'
  BY <1>0, <1>1, <1>3 DEF FetchOf, Held
<1>7. HoldKept'
  <2>1. ASSUME NEW v \in Worker, proc[v].at \in {"ready", "turn"} PROVE proc[v].hold \in Gen
    BY <2>1, TypeIs DEF CrateInv, Places, Place, Slot, Gen
  <2> QED BY <1>0, <1>3, <2>1 DEF CrateInv, HoldKept
<1>8. Bound'
  BY <1>0, <1>3 DEF CrateInv, Bound, Usage
<1> QED BY <1>0, <1>1, <1>4, <1>5, <1>6, <1>7, <1>8, HolderKeeps DEF Fetching

\* The bound is passed: back to what the holders of the cache need.
LEMMA StopKeeps ==
  ASSUME TypeOK, CrateInv, NEW w \in Worker, Stop(w)
  PROVE  CrateInv'
<1>0. /\ proc[w].at = "fetch" /\ UNCHANGED <<cache, retired, lock, deaths>>
      /\ has \in [Gen -> SUBSET Crate] /\ proc \in [Worker -> Slot] /\ Usage(cache) > Cap
  BY TypeIs DEF Stop
<1>1. cache \in Gen /\ cache # 0 /\ Fetching(w) /\ FetchOf(w) /\ Place(w)
  BY <1>0 DEF CrateInv, Places, Place, Fetches, Fetching, TypeOK, Gen
<1>2. \A g \in Gen : has'[g] = IF g = cache THEN proc[w].before ELSE has[g]
  BY <1>0, <1>1 DEF Stop, Discarded
<1>3. lock = {w} /\ \A v \in Worker \ {w} : ~Fetching(v)
  BY <1>1, Alone
<1>4. /\ \A v \in Worker \ {w} : proc'[v] = proc[v]
      /\ proc'[w].need = proc[w].need /\ proc'[w].before = proc[w].before
      /\ proc'[w].hold = proc[w].hold /\ proc'[w].old = proc[w].old
      /\ proc'[w].at = IF proc[w].old = 0 THEN "stopped" ELSE "spent"
  BY <1>0 DEF Stop, Go, Slot
<1>5. proc[w].before = {} => Cardinality(proc[w].need) > Cap
  <2>1. proc[w].before = {} => has[cache] \in SUBSET proc[w].need
    BY <1>0, <1>1 DEF FetchOf
  <2>2. IsFiniteSet(proc[w].need)
    BY <1>1 DEF Place
  <2> QED BY <1>0, <2>1, <2>2, PartOfNeed DEF Usage
<1>6. \A v \in Worker : proc'[v].hold = proc[v].hold /\ proc'[v].need = proc[v].need
  BY <1>4
<1>7. \A g : Held(g)' <=> Held(g)
  BY <1>6 DEF Held
<1>8. Place(w)'
  BY <1>0, <1>1, <1>4, <1>5 DEF Place, Fetching
<1>9. FetchOf(w)'
  BY <1>0, <1>1, <1>2, <1>4, <1>5, <1>7 DEF FetchOf
<1>10. Directories'
  BY <1>0, <1>1, <1>2, <1>7 DEF CrateInv, Directories
<1>11. HoldKept'
  <2>1. SUFFICES ASSUME NEW v \in Worker, v # w, proc[v].at \in {"ready", "turn"}
                 PROVE  proc[v].need \subseteq has'[proc[v].hold]
    BY <1>4 DEF HoldKept
  <2>2. proc[v].hold \in Gen
    BY <1>0, <2>1 DEF CrateInv, Places, Place, Slot, Gen
  <2> QED BY <1>0, <1>1, <1>2, <2>1, <2>2 DEF FetchOf, CrateInv, HoldKept
<1>12. Bound'
  BY <1>0, <1>2, <1>3, <1>4 DEF CrateInv, Bound, Usage, Fetching
<1> QED BY <1>0, <1>1, <1>3, <1>4, <1>8, <1>9, <1>10, <1>11, <1>12, HolderKeeps DEF Fetching

\* The fetch fails: the lock is left after a last sweep, or the cache it replaced is put back.
LEMMA FailsKeeps ==
  ASSUME TypeOK, CrateInv, NEW w \in Worker, Fails(w)
  PROVE  CrateInv'
<1>0. /\ proc[w].at = "fetch" /\ deaths' = deaths
      /\ has \in [Gen -> SUBSET Crate] /\ proc \in [Worker -> Slot]
  BY TypeIs DEF Fails
<1>1. cache \in Gen /\ cache # 0 /\ Fetching(w) /\ FetchOf(w) /\ Place(w)
  BY <1>0 DEF CrateInv, Places, Place, Fetches, Fetching, TypeOK, Gen
<1>2. PICK left \in {Discarded(w), has} :
        /\ left = has => Usage(cache) <= Cap
        /\ IF proc[w].old = 0
           THEN /\ Leave(w, "failed", 0) /\ UNCHANGED cache
                /\ retired' = Kept /\ has' = [g \in Gen |-> IF g \in retired \ Kept THEN {} ELSE left[g]]
           ELSE Go(w, "back") /\ has' = left /\ UNCHANGED <<cache, retired, lock>>
  BY DEF Fails
<1>3. lock = {w} /\ \A v \in Worker \ {w} : ~Fetching(v)
  BY <1>1, Alone
<1>4. /\ left \in [Gen -> SUBSET Crate]
      /\ \A g \in Gen : g # cache => left[g] = has[g]
      /\ left[cache] = proc[w].before \/ (left[cache] = has[cache] /\ Usage(cache) <= Cap)
      /\ \A v \in Worker : proc[v].hold = cache => proc[v].need \subseteq left[cache]
  <2>1. proc[w].before \subseteq Crate
    BY <1>0 DEF Slot
  <2>2. CASE left = has
    BY <1>0, <1>1, <1>2, <2>2 DEF FetchOf
  <2>3. CASE left = Discarded(w)
    BY <1>0, <1>1, <2>1, <2>3 DEF FetchOf, Discarded
  <2> QED BY <2>2, <2>3
<1>5. deaths = Deaths => \A g \in Gen : Cardinality(left[g]) <= Cap
  BY <1>0, <1>4 DEF CrateInv, Bound, Usage
<1>6. \A v \in Worker : proc[v].at \in {"ready", "turn"} =>
        proc[v].hold \in Gen /\ Held(proc[v].hold) /\ proc[v].need \subseteq left[proc[v].hold]
  BY <1>0, <1>4 DEF CrateInv, Places, Place, HoldKept, Slot, Gen, Held
<1>7. CASE proc[w].old = 0
  <2>1. /\ lock' = {} /\ cache' = cache /\ retired' = Kept
        /\ has' = [g \in Gen |-> IF g \in retired \ Kept THEN {} ELSE left[g]]
        /\ \A v \in Worker \ {w} : proc'[v] = proc[v]
        /\ proc'[w] = [Idle EXCEPT !.at = "failed", !.need = proc[w].need, !.hold = 0]
    BY <1>0, <1>2, <1>7 DEF Leave
  <2>2. /\ proc'[w].at = "failed" /\ proc'[w].need = proc[w].need /\ proc'[w].hold = 0
        /\ proc'[w].old = 0
    BY <2>1 DEF Idle
  <2>3. /\ \A g \in retired' : g \in retired /\ Held(g)
        /\ \A g \in Gen : Held(g) => has'[g] = left[g] /\ (g = cache \/ g \in retired')
        /\ \A g \in Gen : g # cache /\ g \notin retired' => has'[g] = {}
        /\ \A g \in Gen : has'[g] \in {{}, left[g]}
    BY <1>4, <2>1, Swept
  <2>4. \A g \in Gen : Held(g)' => Held(g)
    BY <2>1, <2>2, GenFacts DEF Held
  <2>5. Place(w)' /\ FetchOf(w)' /\ ~Fetching(w)'
    BY <1>1, <2>2 DEF Place, FetchOf, Fetching
  <2>6. Directories'
    <3>1. cache' \notin retired' /\ \A g, h \in retired' : g = h
      BY <2>1, <2>3 DEF CrateInv, Directories
    <3> QED BY <2>1, <2>3, <2>4, <3>1 DEF Directories
  <2>7. HoldKept'
    BY <1>6, <2>1, <2>2, <2>3 DEF HoldKept
  <2>8. Bound'
    <3>1. \A v \in Worker : proc'[v].at # "fetch"
      BY <1>3, <2>1, <2>2 DEF Fetching
    <3>2. deaths = Deaths => \A g \in Gen : Cardinality(has'[g]) <= Cap
      BY <1>5, <2>3, EmptyFits
    <3> QED BY <1>0, <3>1, <3>2 DEF Bound, Usage
  <2> QED BY <1>3, <2>1, <2>5, <2>6, <2>7, <2>8, HolderKeeps
<1>8. CASE proc[w].old # 0
  <2>1. /\ has' = left /\ UNCHANGED <<cache, retired, lock>>
        /\ \A v \in Worker \ {w} : proc'[v] = proc[v]
        /\ proc'[w].at = "back" /\ proc'[w].need = proc[w].need /\ proc'[w].hold = proc[w].hold
        /\ proc'[w].old = proc[w].old /\ proc'[w].before = proc[w].before
    BY <1>0, <1>2, <1>8 DEF Go, Slot
  <2>2. \A v \in Worker : proc'[v].hold = proc[v].hold /\ proc'[v].need = proc[v].need
    BY <2>1
  <2>3. \A g : Held(g)' <=> Held(g)
    BY <2>2 DEF Held
  <2>4. Place(w)'
    BY <1>0, <1>1, <1>8, <2>1 DEF Place, Fetching
  <2>5. FetchOf(w)'
    BY <1>1, <2>1, <2>3 DEF FetchOf
  <2>6. Directories'
    BY <1>4, <2>1, <2>3 DEF CrateInv, Directories
  <2>7. HoldKept'
    BY <1>6, <2>1 DEF HoldKept
  <2>8. Bound'
    <3>1. \A v \in Worker : proc'[v].at # "fetch"
      BY <1>3, <2>1 DEF Fetching
    <3> QED BY <1>0, <1>5, <2>1, <3>1 DEF Bound, Usage
  <2> QED BY <1>3, <2>1, <2>4, <2>5, <2>6, <2>7, <2>8, HolderKeeps DEF Fetching
<1> QED BY <1>7, <1>8

\* The fetch is complete: the worker holds the cache, which has what it needs.
LEMMA ReadyKeeps ==
  ASSUME TypeOK, CrateInv, NEW w \in Worker, Ready(w)
  PROVE  CrateInv'
<1>0. /\ proc[w].at = "fetch" /\ deaths' = deaths /\ cache' = cache /\ lock' = {}
      /\ has \in [Gen -> SUBSET Crate] /\ proc \in [Worker -> Slot] /\ Complete(w)
  BY TypeIs DEF Ready, Leave
<1>1. cache \in Gen /\ cache # 0 /\ Fetching(w) /\ FetchOf(w) /\ Place(w) /\ cache \notin retired
  BY <1>0 DEF CrateInv, Places, Place, Fetches, Fetching, TypeOK, Gen, Directories
<1>2. lock = {w} /\ \A v \in Worker \ {w} : ~Fetching(v)
  BY <1>1, Alone
<1>3. /\ \A v \in Worker \ {w} : proc'[v] = proc[v]
      /\ proc'[w] = [Idle EXCEPT !.at = "ready", !.need = proc[w].need, !.hold = cache]
  BY <1>0 DEF Ready, Leave
<1>4. /\ proc'[w].at = "ready" /\ proc'[w].need = proc[w].need /\ proc'[w].hold = cache
      /\ proc'[w].old = 0
  BY <1>3 DEF Idle
<1>5. /\ \A g \in retired' : g \in retired /\ Held(g)
      /\ \A g \in Gen : Held(g) => has'[g] = has[g] /\ (g = cache \/ g \in retired')
      /\ \A g \in Gen : g # cache /\ g \notin retired' => has'[g] = {}
      /\ \A g \in Gen : has'[g] \in {{}, has[g]}
      /\ \A g \in Gen : g \notin retired => has'[g] = has[g]
  BY SweepIs, Swept DEF Ready
<1>6. \A g \in Gen : Held(g)' => g = cache \/ Held(g)
  BY <1>3, <1>4 DEF Held
<1>7. Place(w)' /\ FetchOf(w)' /\ ~Fetching(w)'
  BY <1>1, <1>4 DEF Place, FetchOf, Fetching
<1>8. Directories'
  <2>1. cache' \notin retired' /\ \A g, h \in retired' : g = h
    BY <1>0, <1>1, <1>5 DEF CrateInv, Directories
  <2> QED BY <1>0, <1>5, <1>6, <2>1 DEF Directories
<1>9. HoldKept'
  <2>1. proc'[w].need \subseteq has'[proc'[w].hold]
    BY <1>0, <1>1, <1>4, <1>5 DEF Complete
  <2>2. ASSUME NEW v \in Worker \ {w}, proc[v].at \in {"ready", "turn"}
        PROVE  proc[v].hold \in Gen /\ Held(proc[v].hold)
    BY <1>0, <2>2 DEF CrateInv, Places, Place, Slot, Gen, Held
  <2>3. ASSUME NEW v \in Worker \ {w}, proc'[v].at \in {"ready", "turn"}
        PROVE  proc'[v].need \subseteq has'[proc'[v].hold]
    <3>1. proc'[v] = proc[v] /\ has'[proc[v].hold] = has[proc[v].hold]
      BY <1>3, <1>5, <2>2, <2>3
    <3> QED BY <2>3, <3>1 DEF CrateInv, HoldKept
  <2> QED BY <2>1, <2>3 DEF HoldKept
<1>10. Bound'
  <2>1. \A v \in Worker : proc'[v].at # "fetch"
    BY <1>2, <1>3, <1>4 DEF Fetching
  <2>2. ASSUME deaths = Deaths PROVE \A g \in Gen : Usage(g) <= Cap
    <3>1. proc[w].need = {} => has[cache] = proc[w].before
      BY <1>0, <1>1 DEF FetchOf
    <3> QED BY <1>0, <2>2, <3>1 DEF CrateInv, Bound, Complete, Usage
  <2> QED BY <1>0, <1>5, <2>1, <2>2, EmptyFits DEF Bound, Usage
<1> QED BY <1>0, <1>2, <1>3, <1>7, <1>8, <1>9, <1>10, HolderKeeps

\* A cache with crates of earlier heads is retired while no other is.
LEMMA RetireKeeps ==
  ASSUME TypeOK, CrateInv, NEW w \in Worker, Retire(w)
  PROVE  CrateInv'
<1>0. /\ proc[w].at = "stopped" /\ retired = {} /\ retired' = {cache} /\ cache' = 0
      /\ UNCHANGED <<has, lock, deaths>> /\ proc \in [Worker -> Slot]
  BY TypeIs DEF Retire, MayRetire
<1>1. cache \in Gen /\ cache # 0 /\ Fetching(w) /\ Place(w) /\ 0 \notin Gen
  BY <1>0, GenFacts DEF CrateInv, Places, Place, Fetching, TypeOK, Gen
<1>2. lock = {w} /\ \A v \in Worker \ {w} : ~Fetching(v)
  BY <1>1, Alone
<1>3. /\ \A v \in Worker \ {w} : proc'[v] = proc[v]
      /\ proc'[w].at = "fresh" /\ proc'[w].need = proc[w].need /\ proc'[w].hold = proc[w].hold
      /\ proc'[w].old = cache /\ proc'[w].before = {}
  BY <1>0 DEF Retire, Slot
<1>4. \A v \in Worker : proc'[v].hold = proc[v].hold
  BY <1>3
<1>5. \A g : Held(g)' <=> Held(g)
  BY <1>4 DEF Held
<1>6. Place(w)' /\ Fetching(w)'
  BY <1>0, <1>1, <1>3 DEF Place, Fetching
<1>7. FetchOf(w)'
  BY <1>0, <1>3 DEF FetchOf
<1>8. Directories'
  BY <1>0, <1>1, <1>5 DEF CrateInv, Directories
<1>9. HoldKept'
  BY <1>0, <1>3 DEF CrateInv, HoldKept
<1>10. Bound'
  BY <1>0, <1>2, <1>3 DEF CrateInv, Bound, Usage, Fetching
<1> QED BY <1>0, <1>2, <1>3, <1>6, <1>7, <1>8, <1>9, <1>10, HolderKeeps

\* The directory that replaces it is empty, and nobody's.
LEMMA FreshKeeps ==
  ASSUME TypeOK, CrateInv, NEW w \in Worker, Fresh(w)
  PROVE  CrateInv'
<1>0. /\ proc[w].at = "fresh" /\ UNCHANGED <<has, retired, lock, deaths>> /\ proc \in [Worker -> Slot]
      /\ cache' \in Gen /\ cache' # 0 /\ cache' \notin retired
  BY TypeIs, NewGenFree, GenFacts DEF Fresh
<1>1. cache = 0 /\ Fetching(w) /\ Place(w) /\ proc[w].old # 0 /\ proc[w].before = {}
  BY <1>0 DEF CrateInv, Places, Place, Fetching
<1>2. lock = {w} /\ \A v \in Worker \ {w} : ~Fetching(v)
  BY <1>1, Alone
<1>3. /\ \A v \in Worker \ {w} : proc'[v] = proc[v]
      /\ proc'[w].at = "fetch" /\ proc'[w].need = proc[w].need /\ proc'[w].hold = proc[w].hold
      /\ proc'[w].old = proc[w].old /\ proc'[w].before = proc[w].before
  BY <1>0 DEF Fresh, Go, Slot
<1>4. \A v \in Worker : proc'[v].hold = proc[v].hold
  BY <1>3
<1>5. \A g : Held(g)' <=> Held(g)
  BY <1>4 DEF Held
<1>6. has[cache'] = {} /\ ~Held(cache')
  BY <1>0, <1>1 DEF CrateInv, Directories
<1>7. Place(w)' /\ Fetching(w)'
  BY <1>0, <1>1, <1>3 DEF Place, Fetching
<1>8. FetchOf(w)'
  <2>1. \A v \in Worker : proc'[v].hold # cache'
    BY <1>4, <1>6 DEF Held
  <2> QED BY <1>0, <1>1, <1>3, <1>5, <1>6, <2>1 DEF FetchOf
<1>9. Directories'
  BY <1>0, <1>1, <1>5, GenFacts DEF CrateInv, Directories
<1>10. HoldKept'
  BY <1>0, <1>3 DEF CrateInv, HoldKept
<1>11. Bound'
  <2>1. \A v \in Worker : proc[v].at # "fetch"
    BY <1>0, <1>2 DEF Fetching
  <2> QED BY <1>0, <1>1, <1>3, <2>1, EmptyFits DEF CrateInv, Bound, Usage
<1> QED BY <1>0, <1>2, <1>3, <1>7, <1>8, <1>9, <1>10, <1>11, HolderKeeps

\* The replacement is deleted: it was nobody's...
LEMMA DropKeeps ==
  ASSUME TypeOK, CrateInv, NEW w \in Worker, Drop(w)
  PROVE  CrateInv'
<1>0. /\ proc[w].at \in {"back", "spent"} /\ cache # 0 /\ cache' = 0
      /\ UNCHANGED <<retired, lock, proc, deaths>>
      /\ has \in [Gen -> SUBSET Crate] /\ proc \in [Worker -> Slot]
  BY TypeIs DEF Drop
<1>1. cache \in Gen /\ Fetching(w) /\ Place(w) /\ proc[w].old # 0 /\ ~Held(cache) /\ 0 \notin Gen
  BY <1>0, GenFacts DEF CrateInv, Places, Place, Fetches, FetchOf, Fetching, TypeOK, Gen
<1>2. lock = {w} /\ \A v \in Worker \ {w} : ~Fetching(v)
  BY <1>1, Alone
<1>3. \A g \in Gen : has'[g] = IF g = cache THEN {} ELSE has[g]
  BY <1>0, <1>1 DEF Drop
<1>4. Place(w)' /\ Fetching(w)' /\ FetchOf(w)'
  BY <1>0, <1>1 DEF Place, Fetching, FetchOf
<1>5. Directories'
  BY <1>0, <1>1, <1>3 DEF CrateInv, Directories, Held, TypeOK
<1>6. HoldKept'
  <2>1. ASSUME NEW v \in Worker, proc[v].at \in {"ready", "turn"}
        PROVE  proc[v].hold \in Gen /\ proc[v].hold # cache
    BY <1>0, <1>1, <2>1 DEF CrateInv, Places, Place, Slot, Gen, Held
  <2> QED BY <1>0, <1>3, <2>1 DEF CrateInv, HoldKept
<1>7. Bound'
  <2>1. \A v \in Worker : proc[v].at # "fetch"
    BY <1>0, <1>2 DEF Fetching
  <2> QED BY <1>0, <1>3, <2>1, EmptyFits DEF CrateInv, Bound, Usage
<1> QED BY <1>0, <1>2, <1>4, <1>5, <1>6, <1>7, HolderKeeps

\* ... and the old one is the cache again.
LEMMA PutBackKeeps ==
  ASSUME TypeOK, CrateInv, NEW w \in Worker, PutBack(w)
  PROVE  CrateInv'
<1>0. /\ proc[w].at \in {"back", "spent"} /\ cache = 0 /\ cache' = proc[w].old
      /\ retired' = retired \ {proc[w].old} /\ lock' = {}
      /\ UNCHANGED <<has, deaths>> /\ proc \in [Worker -> Slot]
  BY TypeIs DEF PutBack, Leave
<1>1. Fetching(w) /\ Place(w) /\ proc[w].old # 0 /\ proc[w].old \in Gen
  BY <1>0 DEF CrateInv, Places, Place, Fetching, Slot, Gen
<1>2. lock = {w} /\ \A v \in Worker \ {w} : ~Fetching(v)
  BY <1>1, Alone
<1>3. /\ \A v \in Worker \ {w} : proc'[v] = proc[v]
      /\ proc'[w] = [Idle EXCEPT !.at = IF proc[w].at = "back" THEN "failed" ELSE "over",
                                !.need = proc[w].need, !.hold = 0]
  BY <1>0 DEF PutBack, Leave
<1>4. /\ proc'[w].at = IF proc[w].at = "back" THEN "failed" ELSE "over"
      /\ proc'[w].need = proc[w].need /\ proc'[w].hold = 0 /\ proc'[w].old = 0
  BY <1>3 DEF Idle
<1>5. \A g \in Gen : Held(g)' => Held(g)
  BY <1>3, <1>4, GenFacts DEF Held
<1>6. Place(w)' /\ ~Fetching(w)' /\ FetchOf(w)'
  BY <1>0, <1>1, <1>4 DEF Place, Fetching, FetchOf
<1>7. Directories'
  BY <1>0, <1>1, <1>5, GenFacts DEF CrateInv, Directories
<1>8. HoldKept'
  BY <1>0, <1>3, <1>4 DEF CrateInv, HoldKept
<1>9. Bound'
  BY <1>0, <1>2, <1>3, <1>4 DEF CrateInv, Bound, Usage, Fetching
<1> QED BY <1>0, <1>2, <1>3, <1>6, <1>7, <1>8, <1>9, HolderKeeps

LEMMA InvStep == TypeOK /\ CrateInv /\ [Next]_vars => CrateInv'
<1> SUFFICES ASSUME TypeOK, CrateInv, [Next]_vars PROVE CrateInv'
  OBVIOUS
<1>0. proc \in [Worker -> Slot] /\ deaths \in 0..Deaths /\ Deaths \in Nat
  BY TypeIs, CrateCacheAssumption
<1>p. \A v \in Worker : Place(v)
  BY DEF CrateInv, Places
<1>a. ASSUME NEW w \in Worker, ~Fetching(w) PROVE lock \ {w} = lock /\ proc[w].at # "fetch"
  BY <1>a DEF CrateInv, LockHeld, Fetching
<1>1. ASSUME NEW w \in Worker, Begin(w) PROVE CrateInv'
  <2>1. PICK l \in Lockfile : proc' = [proc EXCEPT ![w] = [Idle EXCEPT !.at = "wait", !.need = l]]
    BY <1>1 DEF Begin
  <2>2. /\ \A v \in Worker \ {w} : proc'[v] = proc[v]
        /\ proc'[w] = [Idle EXCEPT !.at = "wait", !.need = l]
    BY <1>0, <2>1
  <2>3. proc'[w].at = "wait" /\ proc'[w].hold = 0 /\ proc'[w].old = 0 /\ IsFiniteSet(proc'[w].need)
    BY <2>2, CrateCacheAssumption DEF Idle
  <2>4. Place(w)' /\ ~Fetching(w)' /\ ~Fetching(w)
    BY <1>1, <2>3 DEF Place, Fetching, Begin
  <2> QED BY <1>1, <1>a, <2>2, <2>3, <2>4, AsideKeeps DEF Begin
<1>2. ASSUME NEW w \in Worker, GivesUp(w) PROVE CrateInv'
  <2>1. /\ \A v \in Worker \ {w} : proc'[v] = proc[v]
        /\ proc'[w].at = "busy" /\ proc'[w].hold = proc[w].hold /\ proc'[w].need = proc[w].need
        /\ proc'[w].old = proc[w].old
    BY <1>0, <1>2 DEF GivesUp, Go, Slot
  <2>2. Place(w)' /\ ~Fetching(w)' /\ ~Fetching(w)
    BY <1>2, <1>p, <2>1 DEF Place, Fetching, GivesUp
  <2> QED BY <1>2, <1>a, <2>1, <2>2, AsideKeeps DEF GivesUp
<1>3. ASSUME NEW w \in Worker, Lock(w) PROVE CrateInv'
  BY <1>3, LockKeeps
<1>4. ASSUME NEW w \in Worker, Download(w) PROVE CrateInv'
  BY <1>4, DownloadKeeps
<1>5. ASSUME NEW w \in Worker, Stop(w) PROVE CrateInv'
  BY <1>5, StopKeeps
<1>6. ASSUME NEW w \in Worker, Fails(w) PROVE CrateInv'
  BY <1>6, FailsKeeps
<1>7. ASSUME NEW w \in Worker, Ready(w) PROVE CrateInv'
  BY <1>7, ReadyKeeps
<1>8. ASSUME NEW w \in Worker, NEW at \in {"over", "blocked"}, Refuse(w, at), proc[w].at = "stopped",
             at = "over" => has[cache] = {}
      PROVE  CrateInv'
  <2>1. /\ \A v \in Worker \ {w} : proc'[v] = proc[v]
        /\ proc'[w] = [Idle EXCEPT !.at = at, !.need = proc[w].need, !.hold = 0]
        /\ lock' = {} /\ UNCHANGED <<has, cache, retired, deaths>>
    BY <1>0, <1>8 DEF Refuse, Leave
  <2>2. proc'[w].at = at /\ proc'[w].hold = 0 /\ proc'[w].old = 0 /\ proc'[w].need = proc[w].need
    BY <2>1 DEF Idle
  <2>3. at = "over" => Cardinality(proc[w].need) > Cap
    BY <1>8 DEF CrateInv, Fetches, FetchOf
  <2>4. Place(w)' /\ ~Fetching(w)' /\ Fetching(w)
    BY <1>8, <1>p, <2>2, <2>3 DEF Place, Fetching
  <2>5. lock' = lock \ {w}
    BY <2>1, <2>4, Alone
  <2> QED BY <1>8, <2>1, <2>2, <2>4, <2>5, AsideKeeps
<1>9. ASSUME NEW w \in Worker, Over(w) \/ InUse(w) PROVE CrateInv'
  BY <1>8, <1>9 DEF Over, InUse, Retries
<1>10. ASSUME NEW w \in Worker, Retire(w) PROVE CrateInv'
  BY <1>10, RetireKeeps
<1>11. ASSUME NEW w \in Worker, Fresh(w) PROVE CrateInv'
  BY <1>11, FreshKeeps
<1>12. ASSUME NEW w \in Worker, Drop(w) PROVE CrateInv'
  BY <1>12, DropKeeps
<1>13. ASSUME NEW w \in Worker, PutBack(w) PROVE CrateInv'
  BY <1>13, PutBackKeeps
<1>14. ASSUME NEW w \in Worker, Mount(w) PROVE CrateInv'
  <2>1. /\ \A v \in Worker \ {w} : proc'[v] = proc[v]
        /\ proc'[w].at = "turn" /\ proc'[w].hold = proc[w].hold /\ proc'[w].need = proc[w].need
        /\ proc'[w].old = proc[w].old
    BY <1>0, <1>14 DEF Mount, Slot
  <2>2. Place(w)' /\ ~Fetching(w)' /\ ~Fetching(w)
    BY <1>14, <1>p, <2>1 DEF Place, Fetching, Mount
  <2> QED BY <1>14, <1>a, <2>1, <2>2, AsideKeeps DEF Mount
<1>15. ASSUME NEW w \in Worker, proc' = [proc EXCEPT ![w] = Idle]
       PROVE  /\ \A v \in Worker \ {w} : proc'[v] = proc[v]
              /\ Place(w)' /\ ~Fetching(w)' /\ proc'[w].hold = 0
  <2>1. (\A v \in Worker \ {w} : proc'[v] = proc[v]) /\ proc'[w] = Idle
    BY <1>0, <1>15
  <2> QED BY <2>1, EmptyFits DEF Idle, Place, Fetching
<1>16. ASSUME NEW w \in Worker, MountFails(w) \/ Exit(w) PROVE CrateInv'
  <2>1. ~Fetching(w)
    BY <1>16 DEF MountFails, Exit, Fetching
  <2> QED BY <1>15, <1>16, <1>a, <2>1, AsideKeeps DEF MountFails, Exit
<1>17. ASSUME NEW w \in Worker, Die(w) PROVE CrateInv'
  <2>1. deaths' # Deaths
    BY <1>0, <1>17 DEF Die
  <2> QED BY <1>15, <1>17, <2>1, AsideKeeps DEF Die
<1>18. CASE UNCHANGED vars
  BY <1>18 DEF vars, CrateInv, LockHeld, Places, Place, Fetching, Directories, Held, Fetches, FetchOf,
     HoldKept, Bound, Usage
<1> QED BY <1>1, <1>2, <1>3, <1>4, <1>5, <1>6, <1>7, <1>9, <1>10, <1>11, <1>12, <1>13, <1>14,
           <1>16, <1>17, <1>18 DEF Next

\* What a run checks follows: nothing of the bound is left to a fetch when the lock is free, and
\* a retired directory is the only one.
LEMMA InvHolds == TypeOK /\ CrateInv => CratesHeld
<1> SUFFICES ASSUME TypeOK, CrateInv PROVE CratesHeld
  OBVIOUS
<1>1. OneRetired
  <2>1. CASE retired = {}
    BY <2>1, FS_EmptySet DEF OneRetired
  <2>2. ASSUME NEW g \in retired PROVE OneRetired
    <3>1. retired = {g}
      BY DEF CrateInv, Directories
    <3> QED BY <3>1, FS_Singleton DEF OneRetired
  <2> QED BY <2>1, <2>2
<1>2. NotBlamed
  BY DEF CrateInv, Places, Place, NotBlamed
<1>3. Capped
  BY DEF CrateInv, LockHeld, Fetching, Bound, Capped
<1> QED BY <1>1, <1>2, <1>3 DEF CrateInv, CratesHeld

\* Whatever turns prefetch at the same time, and wherever workers die: the crates a turn was
\* promised stay until it ends, at most one retired directory waits, no head is refused for what
\* another left, and without a death no prefetch leaves a directory over the bound.
THEOREM CratesHeldHolds == Spec => []CratesHeld
<1>1. Init => TypeOK /\ CrateInv
  BY InitType, InitInv
<1>2. TypeOK /\ CrateInv /\ [Next]_vars => (TypeOK /\ CrateInv)'
  BY TypeStep, InvStep DEF CrateInv
<1> QED BY <1>1, <1>2, InvHolds, PTL DEF Spec

===============================================================================
