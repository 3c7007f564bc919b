------------------------------- MODULE Pacing -------------------------------
(***************************************************************************)
(* Subscription-aware pacing (pacing.py, and its use by a worker of        *)
(* run_supervisor.py): one host file with the hold of an account and the   *)
(* turns of each loop on each day, changed by every worker under a file    *)
(* lock; a run that the file holds waits without spending a retry.         *)
(*                                                                         *)
(* All the runs are of one seat and draw on one account.  A day has        *)
(* DayLength ticks of the clock.                                           *)
(***************************************************************************)
EXTENDS Integers, FiniteSets, FiniteSetsExt, Functions

CONSTANTS Runs, Loops, LoopOf, Cap, MaxRetries, DayLength, Horizon, Windows,
          Deaths, NoOne

PacingAssumption ==
  /\ LoopOf \in [Runs -> Loops] /\ NoOne \notin Runs
  /\ {Cap, MaxRetries, DayLength} \subseteq Nat \ {0}
  /\ {Horizon, Windows, Deaths} \subseteq Nat

VARIABLES now, window, windows, hold, turns, flock, mem, pc, retryAt, retries,
          limited, ended, loopOf, counted, told, plain, deaths
vars == <<now, window, windows, hold, turns, flock, mem, pc, retryAt, retries,
          limited, ended, loopOf, counted, told, plain, deaths>>
clock == <<now, window, windows>>
file  == <<hold, turns>>
row   == <<retryAt, retries, loopOf>>
past  == <<counted, told, plain, deaths>>   \* history, not in the code

Days == 0 .. (Horizon \div DayLength)
Day  == now \div DayLength
Midnight == (Day + 1) * DayLength

Nothing == [hold |-> 0, turns |-> <<>>, day |-> 0]   \* read by nobody
Ended == {"ok", "failed", "lost"}

\* How a turn ends: it published; its process failed; it exited cleanly and never called the
\* broker; or it was killed at its budget or refused, which nobody retries.
Ends == {"ok", "bad", "silent", "dropped"}
TypeOK ==
  /\ {now, window} \subseteq 0 .. Horizon /\ windows \in 0 .. Windows
  /\ hold \in 0 .. Horizon /\ turns \in [Loops -> [Days -> Nat]] /\ loopOf \in [Runs -> Loops]
  /\ flock \in Runs \cup {NoOne}
  /\ pc \in [Runs -> {"pending", "launch", "counting", "turn", "over",
                      "holding", "waiting"} \cup Ended]
  /\ retries \in [Runs -> 0 .. MaxRetries] /\ retryAt \in [Runs -> Nat]
  /\ limited \in [Runs -> 0 .. Horizon] /\ ended \in [Runs -> Ends \cup {"none"}]

Init ==
  /\ now = 0 /\ window = 0 /\ windows = 0 /\ hold = 0
  /\ turns = [l \in Loops |-> [d \in Days |-> 0]]
  /\ flock = NoOne /\ mem = [r \in Runs |-> Nothing]
  /\ pc = [r \in Runs |-> "pending"]
  /\ retryAt = [r \in Runs |-> 0] /\ retries = [r \in Runs |-> 0]
  /\ limited = [r \in Runs |-> 0] /\ ended = [r \in Runs |-> "none"]
  /\ loopOf = LoopOf /\ counted = turns /\ told = 0 /\ plain = [r \in Runs |-> 0] /\ deaths = 0

At(r, from, to) == pc[r] = from /\ pc' = [pc EXCEPT ![r] = to]

\* A run that waited is pending again; an operator's `retry' does not ask when.
Recover(r) ==
  /\ retryAt[r] <= now /\ At(r, "waiting", "pending")
  /\ UNCHANGED <<clock, file, flock, mem, row, limited, ended, past>>

-----------------------------------------------------------------------------
\* The look at the file before a launch (no lock: the file is replaced whole).
HeldEver == hold # 0
Held   == hold > now
Capped(r) == turns[loopOf[r]][Day] >= Cap
Waits(r, until) == /\ At(r, "pending", "waiting") /\ retryAt' = [retryAt EXCEPT ![r] = until]
                   /\ ended' = [ended EXCEPT ![r] = "none"]   \* the reason of the wait is the row's error now
                   /\ UNCHANGED <<retries, loopOf>>
Look(r) ==
  /\ IF Held THEN Waits(r, hold)
     ELSE IF Capped(r) THEN Waits(r, Midnight)
     ELSE At(r, "pending", "launch") /\ UNCHANGED <<row, ended>>
  /\ UNCHANGED <<clock, file, flock, mem, limited, past>>

\* The turn is counted just before it is launched: load, add one, replace.
Seen == [hold |-> hold, turns |-> turns, day |-> Day]
Load(r) == /\ flock = NoOne /\ flock' = r
           /\ mem' = [mem EXCEPT ![r] = Seen]
           /\ UNCHANGED <<clock, file, row, limited, ended, past>>
Unlock(r) == /\ flock' = IF flock = r THEN NoOne ELSE flock
             /\ mem' = [mem EXCEPT ![r] = Nothing]
CountAtOnce(r) == /\ At(r, "launch", "counting")
                  /\ mem' = [mem EXCEPT ![r] = Seen]
                  /\ UNCHANGED <<clock, file, flock, row, limited, ended, past>>
CountLoad(r) == At(r, "launch", "counting") /\ Load(r)
CountSave(r) ==
  /\ At(r, "counting", "turn")
  /\ hold' = mem[r].hold /\ turns' = [mem[r].turns EXCEPT ![loopOf[r]][mem[r].day] = @ + 1]
  /\ Unlock(r) /\ counted' = [counted EXCEPT ![loopOf[r]][mem[r].day] = @ + 1]
  /\ limited' = [limited EXCEPT ![r] = 0]
  /\ UNCHANGED <<clock, row, ended, told, plain, deaths>>

\* The turn: while the window is closed the provider answers 429 and says when,
\* or does not; the agent gives up, or goes on and publishes.  The second silent end
\* in a row is one for a person to look at.
Finished(r, e) ==
  /\ At(r, "turn", "over")
  /\ ended' = [ended EXCEPT ![r] = IF e = "silent" /\ @ = "silent" THEN "dropped" ELSE e]
Turn(r) ==
  /\ \E e \in Ends : Finished(r, e)
  /\ limited' = IF window > now THEN [limited EXCEPT ![r] = window] ELSE limited
  /\ UNCHANGED <<clock, file, flock, mem, row, past>>
Bare(r) ==
  /\ window > now /\ \E e \in Ends \ {"ok"} : Finished(r, e)
  /\ UNCHANGED <<clock, file, flock, mem, row, limited, past>>

-----------------------------------------------------------------------------
\* The end of a turn.  What the provider said of its window is looked at only when
\* the turn's process failed.
Paced(r) == ended[r] = "bad" /\ limited[r] > now
Succeed(r) ==
  /\ ended[r] = "ok" /\ At(r, "over", "ok")
  /\ UNCHANGED <<clock, file, flock, mem, row, limited, ended, past>>
\* A retry is spent; the row says when a silent end was the reason.
Fail(r) ==
  /\ ended[r] \in {"bad", "silent"} /\ ~Paced(r)
  /\ At(r, "over", IF retries[r] + 1 < MaxRetries THEN "waiting" ELSE "failed")
  /\ retries' = [retries EXCEPT ![r] = @ + 1]
  /\ retryAt' = [retryAt EXCEPT ![r] = Min({now + 1, Horizon})]
  /\ plain' = [plain EXCEPT ![r] = @ + 1]
  /\ ended' = [ended EXCEPT ![r] = IF @ = "silent" THEN @ ELSE "none"]
  /\ UNCHANGED <<clock, file, flock, mem, limited, loopOf, counted, told, deaths>>
Drop(r) ==
  /\ ended[r] = "dropped" /\ At(r, "over", "failed")
  /\ UNCHANGED <<clock, file, flock, mem, row, limited, ended, past>>

\* The provider named a time: the account is held until the later of that time
\* and of the hold it has, and the run waits for its own.
HoldAtOnce(r) == /\ Paced(r) /\ At(r, "over", "holding")
                 /\ mem' = [mem EXCEPT ![r] = Seen]
                 /\ UNCHANGED <<clock, file, flock, row, limited, ended, past>>
HoldLoad(r) == Paced(r) /\ At(r, "over", "holding") /\ Load(r)
HoldSpends(r) ==
  /\ At(r, "holding", IF retries[r] + 1 < MaxRetries THEN "waiting" ELSE "failed")
  /\ hold' = Max({mem[r].hold, limited[r]}) /\ turns' = mem[r].turns
  /\ Unlock(r) /\ told' = Max({told, limited[r]})
  /\ retries' = [retries EXCEPT ![r] = @ + 1]
  /\ retryAt' = [retryAt EXCEPT ![r] = Max({limited[r], now})]
  /\ ended' = [ended EXCEPT ![r] = "none"]
  /\ UNCHANGED <<clock, limited, loopOf, counted, plain, deaths>>
HoldSave(r) ==
  /\ At(r, "holding", "waiting")
  /\ hold' = Max({mem[r].hold, limited[r]}) /\ turns' = mem[r].turns
  /\ Unlock(r) /\ told' = Max({told, limited[r]})
  /\ retryAt' = [retryAt EXCEPT ![r] = Max({limited[r], now})]
  /\ ended' = [ended EXCEPT ![r] = "none"]
  /\ UNCHANGED <<clock, retries, limited, loopOf, counted, plain, deaths>>

\* A worker dies: its lock goes with it, its run is uncertain.
Die(r) ==
  /\ deaths < Deaths /\ deaths' = deaths + 1
  /\ pc[r] \notin Ended \cup {"pending", "waiting"}
  /\ pc' = [pc EXCEPT ![r] = "lost"]
  /\ Unlock(r)
  /\ UNCHANGED <<clock, file, row, limited, ended, counted, told, plain>>

-----------------------------------------------------------------------------
\* A renamed loop takes its counts along.
Moved(f, old, new) ==
  [f EXCEPT ![new] = [d \in Days |-> f[old][d] + f[new][d]], ![old] = [d \in Days |-> 0]]
Rename(old, new) ==
  /\ old \in Range(loopOf) /\ new \notin Range(loopOf) /\ flock = NoOne
  /\ \A r \in Runs : pc[r] \in Ended \cup {"pending", "waiting"}
  /\ turns' = Moved(turns, old, new)
  /\ loopOf' = [r \in Runs |-> IF loopOf[r] = old THEN new ELSE loopOf[r]]
  /\ UNCHANGED <<clock, hold, flock, mem, pc, retryAt, retries, limited, ended, past>>

Tick == /\ now < Horizon /\ now' = now + 1
        /\ UNCHANGED <<window, windows, file, flock, mem, pc, row, limited, ended, past>>
\* The account's usage window closes (the operator's own use counts as well).
Shut == /\ windows < Windows /\ windows' = windows + 1
        /\ \E t \in (now + 1) .. Horizon : t >= window /\ window' = t
        /\ UNCHANGED <<now, file, flock, mem, pc, row, limited, ended, past>>

Work(r) == \/ Recover(r) \/ Look(r) \/ CountLoad(r) \/ CountSave(r)
           \/ Turn(r) \/ Bare(r) \/ Succeed(r) \/ Fail(r) \/ Drop(r) \/ HoldLoad(r) \/ HoldSave(r)
Next == \/ \E r \in Runs : Work(r) \/ Die(r)
        \/ \E old, new \in Loops : Rename(old, new)
        \/ Tick \/ Shut
\* Time passes, and the drain and the workers go on; the flock is granted to
\* everybody who waits for it.
Spec == Init /\ [][Next]_vars /\ WF_vars(Tick) /\ \A r \in Runs : SF_vars(Work(r))

-----------------------------------------------------------------------------
\* The turns that a count has for a day, one for each loop and number.
TurnsOf(f, d) == UNION {{l} \X (1 .. f[l][d]) : l \in Loops}

\* The hold of the account is never before a time that a worker recorded,
\* whoever counts a turn in the same file meanwhile.
HoldLatest == hold >= told

\* No counted turn is lost, by another worker's write or by a rename.
CountsKept == \A d \in Days : Cardinality(TurnsOf(turns, d)) = Cardinality(TurnsOf(counted, d))

\* A run whose last turn may be retried fails only by as many turns as it may have,
\* of which none was a failed process in a window whose end was still to come.
NotSpent == \A r \in Runs : pc[r] = "failed" => ended[r] = "dropped" \/ plain[r] >= MaxRetries

\* pacing.py:5: "A turn that ended on it waits until then without spending a retry".
WaitsUntilThen ==
  \A r \in Runs : pc[r] = "waiting" /\ limited[r] > now => retryAt[r] >= limited[r]

\* Every run ends once the windows stay open: a hold ends with its window.
AllEnded == \A r \in Runs : pc[r] \in Ended
Resumes == <>AllEnded

\* docs/commands.md:475: no more turns on a day than the cap.
CapKept == \A l \in Loops, d \in Days : turns[l][d] <= Cap

\* pacing.py:7: no turn is launched into a window that is known to be closed.
NotIntoClosed == [][\A r \in Runs : pc[r] = "counting" /\ pc'[r] = "turn" => ~Held]_vars

\* pacing.py:5: what a 429 said is recorded when its turn has ended.
HoldSaid == \A r \in Runs : pc[r] \in {"waiting", "ok"} /\ limited[r] > now => hold >= limited[r]
=============================================================================
